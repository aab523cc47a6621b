------------------------------ MODULE SigvaraPage ------------------------------
(***************************************************************************)
(* The app page: an address box, a lookup that reads one agent from the    *)
(* chain, a card whose buttons the lookup enables, and the transactions    *)
(* those buttons send.  Each handler runs up to its next await, and any    *)
(* other may run before it goes on.  The chain side is what SigvaraStaking *)
(* and SigvaraIdentity do with a call from the page's wallet.              *)
(*                                                                         *)
(* Bounds: MaxActs changes by others, lookups asked for and buttons        *)
(* pressed in all, and amounts of one unit.                                *)
(***************************************************************************)
EXTENDS Integers, FiniteSets, TLC

CONSTANTS
    Agents,           \* the addresses the user may type
    NoAgent,
    Minimum,          \* minimumStake
    Starts,           \* states the chain may be in when the page is opened
    MaxActs

PageAssumption ==
    /\ NoAgent \notin Agents /\ Minimum \in Nat \ {0}
    /\ MaxActs \in Nat

VARIABLES
    patient,    \* whether the user waits for each answer before acting again
    chain,      \* what the contracts hold on each agent
    account,    \* whether a wallet is connected
    box,        \* the address typed in, NoAgent when it is none
    did,        \* currentDidHash
    card,       \* stakeCtx, the agent it was read from, and the buttons it enabled
    lookups,    \* reads on their way: for which agent, what was read, and which press waits for it
    presses,    \* buttons pressed whose handlers have not ended
    last,       \* the transaction sent last, and the agent on the card when its button was pressed
    acts

vars == <<patient, chain, account, box, did, card, lookups, presses, last, acts>>

Buttons == {"bond", "unbond", "claim", "dispute", "suspend", "reactivate"}
Unread == [read |-> FALSE]
NoCard == [of |-> NoAgent, on |-> {}, seen |-> Unread]
NoTx == [call |-> "none", to |-> NoAgent, from |-> NoCard]

------------------------------------------------------------------------------
(* The contracts, for a call by the page's wallet.                         *)

Frozen(s) == s.slash \in {"Pending", "Late", "Disputed"}

Accepts(call, s) ==
    /\ s.mine
    /\ \/ call = "bond" /\ s.status # "Slashed" /\ ~s.paused
       \/ call = "unbond" /\ s.stake > 0 /\ s.queued = 0 /\ ~Frozen(s)
                          /\ (s.status = "Active" => s.stake - 1 >= Minimum)
       \/ call = "claim" /\ s.queued > 0 /\ s.ripe /\ ~Frozen(s)
       \/ call = "dispute" /\ s.slash = "Pending"
       \/ call = "suspend" /\ s.status # "Slashed" /\ ~s.locked
       \/ call = "reactivate" /\ s.status # "Slashed" /\ ~s.locked /\ s.stake >= Minimum

After(call, s) ==
    CASE call = "bond" -> [s EXCEPT !.stake = @ + 1, !.status =
             IF @ = "PendingBond" /\ s.stake + 1 >= Minimum THEN "Active" ELSE @]
      [] call = "unbond" -> [s EXCEPT !.stake = @ - 1, !.queued = 1, !.ripe = FALSE]
      [] call = "claim" -> [s EXCEPT !.queued = 0]
      [] call = "dispute" -> [s EXCEPT !.slash = "Disputed"]
      [] call = "suspend" -> [s EXCEPT !.status = "Suspended"]
      [] call = "reactivate" -> [s EXCEPT !.status = "Active"]

\* What others do to an agent: a slash is filed, its challenge period ends, it is dropped
\* or executed, and a queued withdrawal matures.  The guardian pauses deposits for all.
Moved(s) ==
    (IF ~Frozen(s) /\ s.stake + s.queued > 0 /\ s.status \in {"Active", "Suspended"}
     THEN {[s EXCEPT !.slash = "Pending", !.status = "Suspended", !.locked = TRUE]} ELSE {})
    \cup (IF s.slash = "Pending" THEN {[s EXCEPT !.slash = "Late"]} ELSE {})
    \cup (IF Frozen(s) THEN {[s EXCEPT !.slash = "Dropped", !.locked = FALSE, !.status =
                                  IF s.stake >= Minimum THEN "Active" ELSE @]} ELSE {})
    \cup (IF s.slash = "Late" THEN {[s EXCEPT !.slash = "Executed", !.status = "Slashed",
                                          !.stake = 0, !.queued = 0]} ELSE {})
    \cup (IF s.queued > 0 /\ ~s.ripe THEN {[s EXCEPT !.ripe = TRUE]} ELSE {})

Others ==
    /\ acts < MaxActs
    /\ \/ \E a \in Agents : \E s \in Moved(chain[a]) : chain' = [chain EXCEPT ![a] = s]
       \/ chain' = [a \in Agents |-> [chain[a] EXCEPT !.paused = ~@]]
    /\ acts' = acts + 1
    /\ UNCHANGED <<patient, account, box, did, card, lookups, presses, last>>

------------------------------------------------------------------------------
(* Looking an agent up.                                                    *)

\* renderStake: the buttons a lookup enables.
Enabled(s, connected) ==
    LET isOperator == connected /\ s.mine
        canWrite == isOperator /\ s.status # "Slashed"
    IN  {b \in Buttons :
            \/ b = "bond" /\ canWrite /\ ~s.paused
            \/ b = "unbond" /\ canWrite /\ s.stake # 0 /\ s.queued = 0 /\ ~Frozen(s)
            \/ b = "claim" /\ canWrite /\ s.queued # 0 /\ s.ripe
            \/ b = "dispute" /\ isOperator /\ s.slash = "Pending"
            \/ b = "suspend" /\ canWrite /\ s.status = "Active" /\ ~Frozen(s)
            \/ b = "reactivate" /\ canWrite /\ s.status = "Suspended" /\ ~s.locked
                                /\ s.stake >= Minimum}

Lookup(waits) == [of |-> box, seen |-> Unread, waits |-> waits]

\* The head of lookup(): the agent is taken from the box at once, its state later; what is
\* no address is refused and changes nothing.
StartsLookup(waits) ==
    IF box = NoAgent THEN UNCHANGED <<did, lookups>>
    ELSE did' = box /\ lookups' = lookups \cup {Lookup(waits)}

Quiet == lookups = {} /\ presses = {}
MayAct == patient => Quiet

Type ==
    /\ \E a \in (Agents \cup {NoAgent}) \ {box} : box' = a
    /\ acts < MaxActs
    /\ UNCHANGED <<patient, chain, account, did, card, lookups, presses, last, acts>>

Look ==
    /\ MayAct /\ acts < MaxActs
    /\ acts' = acts + 1
    /\ StartsLookup("none")
    /\ UNCHANGED <<patient, chain, account, box, card, presses, last>>

Connect ==
    /\ MayAct /\ ~account
    /\ account' = TRUE
    /\ StartsLookup("none")
    /\ UNCHANGED <<patient, chain, box, card, presses, last, acts>>

\* The node takes the batch of reads.
Reads ==
    /\ \E l \in lookups :
          /\ l.seen = Unread
          /\ lookups' = (lookups \ {l})
                 \cup {[l EXCEPT !.seen = [read |-> TRUE, state |-> chain[l.of]]]}
    /\ UNCHANGED <<patient, chain, account, box, did, card, presses, last, acts>>

\* The answer arrives and the card is drawn from it.
Drawn(l) ==
    [of |-> l.of, on |-> Enabled(l.seen.state, account), seen |-> l.seen]

Shown ==
    /\ \E l \in lookups :
          /\ l.seen # Unread
          /\ card' = Drawn(l)
          /\ lookups' = lookups \ {l}
    /\ UNCHANGED <<patient, chain, account, box, did, presses, last, acts>>

\* Mutant: a failed lookup leaves the buttons of the card as they were.
LookupFails_Live ==
    /\ \E l \in lookups : lookups' = lookups \ {l}
    /\ did' = NoAgent
    /\ UNCHANGED <<patient, chain, account, box, card, presses, last, acts>>

\* The lookup fails, and nothing is left live.
LookupFails ==
    /\ \E l \in lookups : lookups' = lookups \ {l}
    /\ did' = NoAgent
    /\ card' = NoCard
    /\ UNCHANGED <<patient, chain, account, box, presses, last, acts>>

------------------------------------------------------------------------------
(* Pressing a button.                                                      *)

Press ==
    /\ MayAct /\ acts < MaxActs
    /\ \E b \in card.on :
          /\ \A p \in presses : p.call # b
          /\ IF did = NoAgent
             THEN /\ StartsLookup(b)
                  /\ presses' = presses \cup {[call |-> b, step |-> "looking", card |-> card]}
             ELSE /\ presses' = presses \cup {[call |-> b, card |-> card,
                                                step |-> IF b = "bond" THEN "approving" ELSE "sending"]}
                  /\ UNCHANGED <<did, lookups>>
    /\ acts' = acts + 1
    /\ UNCHANGED <<patient, chain, account, box, card, last>>

\* The lookup a handler waited for has ended.
Looked ==
    /\ \E p \in presses :
          /\ p.step = "looking" /\ \A l \in lookups : l.waits # p.call
          /\ presses' = (presses \ {p}) \cup (IF did = NoAgent THEN {} ELSE
                 {[p EXCEPT !.step = IF p.call = "bond" THEN "approving" ELSE "sending"]})
    /\ UNCHANGED <<patient, chain, account, box, did, card, lookups, last, acts>>

\* bondStake reads the allowance and may wait for an approval to be mined.
Approved ==
    /\ \E p \in presses :
          /\ p.step = "approving"
          /\ presses' = (presses \ {p}) \cup {[p EXCEPT !.step = "sending"]}
    /\ UNCHANGED <<patient, chain, account, box, did, card, lookups, last, acts>>

\* beginUnbond stops before the wallet opens when the contract would refuse the amount.
Stops(p) ==
    /\ p.call = "unbond" /\ card.seen # Unread
    /\ LET s == card.seen.state
       IN  1 > s.stake \/ (s.stake - 1 < Minimum /\ s.status = "Active")

\* sendTx: the call names whatever did is by now.
Sends ==
    /\ \E p \in presses :
          /\ p.step = "sending" /\ did # NoAgent /\ ~Stops(p)
          /\ last' = [call |-> p.call, to |-> did, from |-> p.card]
          /\ presses' = (presses \ {p}) \cup {[p EXCEPT !.step = "mining"] @@ [to |-> did]}
    /\ UNCHANGED <<patient, chain, account, box, did, card, lookups, acts>>

\* A handler ends without a transaction: the wallet's owner declined, the amount cannot
\* come out, or there is no agent to name.
GivesUp ==
    /\ \E p \in presses :
          /\ p.step \in {"approving", "sending"}
          /\ presses' = presses \ {p}
    /\ UNCHANGED <<patient, chain, account, box, did, card, lookups, last, acts>>

\* The transaction is mined; when it succeeded the page looks up what is in the box now.
Mined ==
    /\ \E p \in presses :
          /\ p.step \in {"mining", "unwatched"}
          /\ presses' = presses \ {p}
          /\ IF Accepts(p.call, chain[p.to])
             THEN /\ chain' = [chain EXCEPT ![p.to] = After(p.call, @)]
                  /\ IF p.step = "mining" THEN StartsLookup("none") ELSE UNCHANGED <<did, lookups>>
             ELSE UNCHANGED <<chain, did, lookups>>
    /\ UNCHANGED <<patient, account, box, card, last, acts>>

\* Sixty polls went by without a receipt: the handler ends, the transaction does not.
TimedOut ==
    /\ \E p \in presses :
          /\ p.step = "mining"
          /\ presses' = (presses \ {p}) \cup {[p EXCEPT !.step = "unwatched"]}
    /\ UNCHANGED <<patient, chain, account, box, did, card, lookups, last, acts>>

------------------------------------------------------------------------------

Init ==
    /\ patient \in BOOLEAN /\ chain \in Starts
    /\ account = FALSE /\ box \in Agents /\ did = NoAgent /\ card = NoCard
    /\ lookups = {} /\ presses = {} /\ last = NoTx
    /\ acts = 0

Next ==
    \/ Others \/ Type \/ Look \/ Connect \/ Reads \/ Shown \/ LookupFails
    \/ Press \/ Looked \/ Approved \/ Sends \/ GivesUp \/ Mined \/ TimedOut

Spec == Init /\ [][Next]_vars

------------------------------------------------------------------------------
(* Properties.                                                             *)

\* A button is live only when the contracts would have taken its call in the state the
\* card was drawn from, with two exceptions: what an active agent may take out depends on
\* the amount, which the handler looks at, and ClaimsAreAccepted is about the claim.
ButtonsAreAccepted ==
    \A b \in card.on :
        \/ Accepts(b, card.seen.state)
        \/ b = "unbond" /\ card.seen.state.status = "Active"
        \/ b = "claim" /\ Frozen(card.seen.state)

\* A user who waits for each answer never sends a call to another agent than the one
\* whose card had the button, whatever is typed in the box meanwhile, and whatever fails.
PatientSendsToTheShown == patient => last.to = last.from.of

================================================================================
