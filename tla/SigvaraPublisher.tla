--------------------------- MODULE SigvaraPublisher ---------------------------
(***************************************************************************)
(* oracle/publisher.js and publisher-policy.js in live mode: the process   *)
(* that shows each linked agent's score in the ERC-8004 Reputation         *)
(* Registry, as one live feedback per 8004 agent.                          *)
(*                                                                         *)
(* A run reads links and scores as of one block, then sends revokes and    *)
(* posts one transaction at a time while scores and links go on changing.  *)
(* A transaction may confirm, fail, or time out and land later; a read may *)
(* fail; the process may die, and what it had not saved is lost.           *)
(*                                                                         *)
(* Scores are small numbers, a feedback is the agent it was written for    *)
(* and its value, and a day is only told from the next one.  Gates on the  *)
(* balance, the signer and the registration are one: a run may be blocked. *)
(***************************************************************************)
EXTENDS Naturals, Sequences, FiniteSets, SequencesExt

CONSTANTS
    Agents,       \* didHashes
    Exts,         \* ERC-8004 agents
    None,         \* no agent
    Withheld,     \* Sigvara's own registration, and what the allow list leaves out
    Scores,       \* spendable scores, 0 among them
    MaxTxsPerRun, \* PUBLISH_MAX_TXS_PER_RUN
    MaxChanges,   \* bound: changes of links and scores
    MaxFaults     \* bound: blocked runs, failures and crashes

ASSUME PublisherAssumption ==
    /\ None \notin Agents \cup Exts
    /\ Withheld \subseteq Exts
    /\ 0 \in Scores /\ Scores \subseteq Nat
    /\ MaxTxsPerRun \in Nat \ {0, 1} /\ {MaxChanges, MaxFaults} \subseteq Nat

VARIABLES
    \* the chain
    names,      \* [Exts -> the agent named and owned by its operator, or None]
    claims,     \* [Agents -> 8004 agents that ever claimed it, newest first]
    score,      \* [Agents -> spendable score]
    slashed,    \* agents whose score was zeroed
    live,       \* [Exts -> the publisher's feedback that is not revoked]
    inFlight,   \* transactions given up on that may still land
    \* past the cursors
    events,     \* [Agents -> kind of the newest reputation event not read, or "no"]
    newClaims,  \* agents with a link claim not scanned
    \* the publisher
    st,         \* its state
    disk,       \* its state as last saved
    run,        \* the current run
    \* history and bounds
    orphaned,   \* 8004 agents written to by a run that died before saving
    changes, faults

chainVars == <<names, claims, score, slashed>>
publisherVars ==
    <<chainVars, live, inFlight, events, newClaims, st, disk, run, orphaned, changes, faults>>

Kinds == {"no", "other", "zeroed"}

PublisherState ==
    [pending : [Agents -> Kinds],              \* why an agent is to be read
     tracked : SUBSET Agents,                  \* ever scored
     refreshed : BOOLEAN,                      \* lastRefreshDay is today
     postedBy : [Agents -> Exts \cup {None}],  \* where the agent's score is shown
     posted : [Exts -> [of : Agents \cup {None}, today : BOOLEAN]]]

Idle ==
    [phase |-> "idle", links |-> [d \in Agents |-> None], scores |-> [d \in Agents |-> 0],
     todo |-> {}, on |-> None, at |-> None, plan |-> <<>>, posting |-> FALSE, sent |-> 0,
     spent |-> {}, sending |-> FALSE, midnight |-> FALSE, touched |-> {}]

------------------------------------------------------------------------------
(* What is sent, and what it does.                                         *)

Revoke(e, f)  == [kind |-> "revoke", ext |-> e, id |-> f.id, of |-> f.of, value |-> f.value]
Post(e, d, v) == [kind |-> "post", ext |-> e, id |-> 0, of |-> d, value |-> v]

FreshId(e) ==
    CHOOSE i \in 1..(Cardinality(live[e]) + 1) : \A f \in live[e] : f.id # i

\* The registry after a transaction lands.
Landed(tx) ==
    [live EXCEPT ![tx.ext] =
        IF tx.kind = "revoke" THEN {f \in @ : f.id # tx.id}
        ELSE @ \cup {[id |-> FreshId(tx.ext), of |-> tx.of, value |-> tx.value]}]

\* planUpdate: show the wanted score, if any, once; revoke everything else.
Plan(e, d, wanted) ==
    LET holding == {f \in live[e] : f.value \in wanted}
        keep    == IF holding = {} THEN {} ELSE {CHOOSE f \in holding : TRUE}
    IN  SetToSeq({Revoke(e, f) : f \in live[e] \ keep})
        \o (IF wanted # {} /\ keep = {} THEN <<Post(e, d, CHOOSE v \in wanted : TRUE)>>
            ELSE <<>>)

Posts(plan) == \E i \in 1..Len(plan) : plan[i].kind = "post"

\* The newest claim that still holds.
LinkOf(d) ==
    LET holding == SelectSeq(claims[d], LAMBDA e : names[e] = d)
    IN  IF holding = <<>> THEN None ELSE holding[1]

\* Mutant: a pending transaction does not block.
NothingPending_Assumed == TRUE

\* liveGateProblems, as far as the publisher's own transactions go.
NothingPending == inFlight = {}

\* mayPostNow: once a day, but for a zero after a slash.
MayPostNow(d, e) == e \notin run.spent \/ st.pending[d] = "zeroed"

------------------------------------------------------------------------------
(* The start of a run.                                                     *)

\* What is to be read: agents linked for the first time, agents with events, and once a
\* day all of them.
PendingAfter(handed) ==
    LET tracked == st.tracked \cup {d \in Agents : events[d] # "no"}
        linked  == {d \in handed \cap st.tracked : st.postedBy[d] = None}
    IN  [st EXCEPT
            !.tracked = tracked, !.refreshed = TRUE,
            !.pending = [d \in Agents |->
                IF events[d] # "no" THEN events[d]
                ELSE IF @[d] # "no" THEN @[d]
                ELSE IF d \in linked \/ (~st.refreshed /\ d \in tracked) THEN "other"
                ELSE "no"]]

\* Reading is repeatable, so what it adds to the state is taken as saved at once.
Reads(handed) ==
    /\ run.phase = "idle"
    /\ st' = PendingAfter(handed)
    /\ disk' = st'
    /\ newClaims' = newClaims \ handed
    /\ events' = [d \in Agents |-> "no"]
    /\ UNCHANGED <<chainVars, live, inFlight, orphaned, changes>>

StartRun ==
    /\ Reads(newClaims)
    /\ \E passes \in BOOLEAN :
           /\ ~passes => faults < MaxFaults
           /\ faults' = faults + (IF passes THEN 0 ELSE 1)
           /\ run' = [Idle EXCEPT
                  !.phase = "agents", !.sending = passes /\ NothingPending,
                  !.links = [d \in Agents |-> LinkOf(d)], !.scores = score,
                  !.todo = {d \in Agents : PendingAfter(newClaims).pending[d] # "no"},
                  !.spent = {e \in Exts : st.posted[e].today}]

\* The link scan did not reach the block: nothing more this run.
ScanFalls ==
    /\ \E handed \in SUBSET newClaims : Reads(handed)
    /\ faults < MaxFaults /\ faults' = faults + 1
    /\ UNCHANGED run

------------------------------------------------------------------------------
(* The agents, one at a time.                                              *)

\* The score was shown on an 8004 agent the agent is no longer linked to.
Moved(d) == st.postedBy[d] \notin {None, run.links[d]}

\* In the agents loop, what reads are for agent d.
At(d) ==
    /\ run.phase = "agents" /\ d \in run.todo
    /\ UNCHANGED <<chainVars, inFlight, events, newClaims, orphaned, changes>>

\* The same once the old 8004 agent is seen to.
AtNew(d) == At(d) /\ ~(run.sending /\ Moved(d))

Leaves(d) == run' = [run EXCEPT !.todo = @ \ {d}]
Drops(d)  == st' = [st EXCEPT !.pending[d] = "no"]

EndRun == run' = Idle /\ disk' = st'

\* Sends a plan for agent d at 8004 agent e, or ends the run if it passes the cap.
Apply(d, e, plan) ==
    /\ UNCHANGED <<st, live, faults>>
    /\ IF run.sent + Len(plan) > MaxTxsPerRun
       THEN EndRun
       ELSE /\ run' = [run EXCEPT !.phase = "sending", !.on = d, !.at = e,
                                  !.plan = plan, !.posting = Posts(plan)]
            /\ UNCHANGED disk

\* Mutant: whatever is live there is taken for the agent's.
StillShown_Assumed(d, e) == TRUE

\* What is live on an 8004 agent is still this agent's score.
StillShown(d, e) == st.posted[e].of = d

\* The old 8004 agent: revoked there, or set to 0 there after a slash.
CleansUp(d) ==
    LET prev == st.postedBy[d] IN
    /\ At(d) /\ run.sending /\ Moved(d)
    /\ Apply(d, prev,
             IF ~StillShown(d, prev) THEN <<>>
             ELSE Plan(prev, d, IF st.pending[d] = "zeroed" THEN {0} ELSE {}))

SkipsUnlinked(d) ==
    /\ AtNew(d)
    /\ run.links[d] \in {None} \cup Withheld
    /\ Leaves(d) /\ Drops(d)
    /\ UNCHANGED <<live, disk, faults>>

Linked(d) == run.links[d] \in Exts \ Withheld

PutsOff(d) ==
    /\ AtNew(d) /\ Linked(d)
    /\ ~MayPostNow(d, run.links[d])
    /\ Leaves(d)
    /\ UNCHANGED <<st, live, disk, faults>>

\* claim(): what is live there, or may be by now, is this agent's.  Its day stays.
Claimed(state, d, e) ==
    [state EXCEPT !.postedBy[d] = e, !.posted[e].of = d]

\* Already shown: by a post that landed late, by a lost state, or since the last time.
FindsUnchanged(d) ==
    LET e == run.links[d] IN
    /\ AtNew(d) /\ Linked(d)
    /\ MayPostNow(d, e)
    /\ Plan(e, d, {run.scores[d]}) = <<>>
    /\ st' = LET kept == [st EXCEPT !.pending[d] = "no"]
             IN  IF run.sending THEN Claimed(kept, d, e) ELSE kept
    /\ run' = [run EXCEPT !.todo = @ \ {d}, !.touched = @ \cup {e}]
    /\ live' = IF run.sending THEN [live EXCEPT ![e] = {[f EXCEPT !.of = d] : f \in @}] ELSE live
    /\ UNCHANGED <<disk, faults>>

\* A blocked run only says what it would send.
WouldSend(d) ==
    /\ AtNew(d) /\ Linked(d) /\ ~run.sending
    /\ MayPostNow(d, run.links[d])
    /\ Plan(run.links[d], d, {run.scores[d]}) # <<>>
    /\ Leaves(d)
    /\ UNCHANGED <<st, live, disk, faults>>

Updates(d) ==
    LET e == run.links[d] IN
    /\ AtNew(d) /\ Linked(d) /\ run.sending
    /\ MayPostNow(d, e)
    /\ Plan(e, d, {run.scores[d]}) # <<>>
    /\ Apply(d, e, Plan(e, d, {run.scores[d]}))

\* A read about the agent fails: left pending.
ReadFails(d) ==
    /\ At(d)
    /\ faults < MaxFaults /\ faults' = faults + 1
    /\ Leaves(d)
    /\ UNCHANGED <<st, live, disk>>

FinishRun ==
    /\ run.phase = "agents" /\ run.todo = {}
    /\ st' = st
    /\ EndRun
    /\ UNCHANGED <<chainVars, live, inFlight, events, newClaims, orphaned, changes, faults>>

------------------------------------------------------------------------------
(* Sending.                                                                *)

\* Before a post is sent: it can time out and still land.
ClaimedToSend(tx) == IF tx.kind = "post" THEN Claimed(st, run.on, run.at) ELSE st

NextTx(tx) ==
    /\ run.phase = "sending" /\ run.plan # <<>> /\ tx = Head(run.plan)
    /\ st' = ClaimedToSend(tx)
    /\ UNCHANGED <<chainVars, events, newClaims, orphaned, changes>>

SendConfirms(tx) ==
    /\ NextTx(tx)
    /\ live' = Landed(tx)
    /\ run' = [run EXCEPT !.plan = Tail(@), !.sent = @ + 1, !.touched = @ \cup {run.at}]
    /\ UNCHANGED <<inFlight, disk, faults>>

\* Refused, or the balance fell below the floor.  A failed send ends the run.
SendFails(tx) ==
    /\ NextTx(tx)
    /\ faults < MaxFaults /\ faults' = faults + 1
    /\ EndRun
    /\ UNCHANGED <<live, inFlight>>

SendTimesOut(tx) ==
    /\ NextTx(tx)
    /\ faults < MaxFaults /\ faults' = faults + 1
    /\ inFlight' = inFlight \cup {tx}
    /\ EndRun
    /\ UNCHANGED live

\* The plan for the old 8004 agent is through: the rest of the agent's turn follows.
DoneCleaning ==
    LET d == run.on IN
    /\ run.phase = "sending" /\ run.plan = <<>> /\ run.at # run.links[d]
    /\ st' = [st EXCEPT
           !.postedBy[d] = None,
           !.posted[run.at] = IF run.posting THEN [of |-> d, today |-> ~run.midnight] ELSE @]
    /\ run' = [run EXCEPT !.phase = "agents", !.on = None, !.at = None, !.posting = FALSE,
                          !.spent = IF run.posting THEN @ \cup {run.at} ELSE @]
    /\ UNCHANGED <<chainVars, live, inFlight, events, newClaims, disk, orphaned, changes, faults>>

DonePosting ==
    LET d == run.on IN
    /\ run.phase = "sending" /\ run.plan = <<>> /\ run.at = run.links[d]
    /\ st' = IF run.posting
             THEN [st EXCEPT !.pending[d] = "no", !.postedBy[d] = run.at,
                             !.posted[run.at] = [of |-> d, today |-> ~run.midnight]]
             ELSE [st EXCEPT !.pending[d] = "no"]
    /\ run' = [run EXCEPT !.phase = "agents", !.todo = @ \ {d}, !.on = None, !.at = None,
                          !.posting = FALSE,
                          !.spent = IF run.posting THEN @ \cup {run.at} ELSE @]
    /\ UNCHANGED <<chainVars, live, inFlight, events, newClaims, disk, orphaned, changes, faults>>

------------------------------------------------------------------------------
(* Around the runs.                                                        *)

\* A transaction given up on lands, or is dropped for good.
Settles(tx) ==
    /\ inFlight' = inFlight \ {tx}
    /\ live' \in {Landed(tx), live}
    /\ UNCHANGED <<chainVars, events, newClaims, st, disk, run, orphaned, changes, faults>>

Crash ==
    /\ run.phase # "idle"
    /\ faults < MaxFaults /\ faults' = faults + 1
    /\ st' = disk
    /\ run' = Idle
    /\ orphaned' = orphaned \cup run.touched
    /\ UNCHANGED <<chainVars, live, inFlight, events, newClaims, disk, changes>>

NewDay ==
    LET tomorrow(state) == [state EXCEPT !.refreshed = FALSE,
                                         !.posted = [e \in Exts |-> [@[e] EXCEPT !.today = FALSE]]]
    IN  /\ st' = tomorrow(st) /\ disk' = tomorrow(disk)
        /\ run' = IF run.phase = "idle" THEN run ELSE [run EXCEPT !.midnight = TRUE]
        /\ UNCHANGED <<chainVars, live, inFlight, events, newClaims, orphaned, changes, faults>>

Changes ==
    /\ changes < MaxChanges /\ changes' = changes + 1
    /\ UNCHANGED <<live, inFlight, st, disk, run, orphaned, faults>>

\* The operator of agent d names it on an 8004 agent of its own.
Links(e, d) ==
    /\ Changes
    /\ names[e] # d
    /\ names' = [names EXCEPT ![e] = d]
    /\ claims' = [claims EXCEPT ![d] = <<e>> \o SelectSeq(@, LAMBDA x : x # e)]
    /\ newClaims' = newClaims \cup {d}
    /\ UNCHANGED <<score, slashed, events>>

\* The key is cleared, or the NFT given away.  No event says so.
Unlinks(e) ==
    /\ Changes
    /\ names[e] # None
    /\ names' = [names EXCEPT ![e] = None]
    /\ UNCHANGED <<claims, score, slashed, events, newClaims>>

\* A score is finalized, or a rise is released, of which no event tells.
Scored(d, v, announced) ==
    /\ Changes
    /\ d \notin slashed /\ v # score[d]
    /\ announced \/ v > score[d]
    /\ score' = [score EXCEPT ![d] = v]
    /\ events' = IF announced THEN [events EXCEPT ![d] = "other"] ELSE events
    /\ UNCHANGED <<names, claims, slashed, newClaims>>

Zeroed(d) ==
    /\ Changes
    /\ d \notin slashed
    /\ slashed' = slashed \cup {d}
    /\ score' = [score EXCEPT ![d] = 0]
    /\ events' = [events EXCEPT ![d] = "zeroed"]
    /\ UNCHANGED <<names, claims, newClaims>>

------------------------------------------------------------------------------
(* The specification.                                                      *)

\* Scored agents, linked or not, before the publisher's first run.
PublisherInit ==
    /\ names \in [Exts -> Agents \cup {None}]
    /\ \A e, f \in Exts : names[e] = names[f] => e = f \/ names[e] = None
    /\ claims = [d \in Agents |-> SetToSeq({e \in Exts : names[e] = d})]
    /\ score \in [Agents -> Scores \ {0}]
    /\ slashed = {}
    /\ live = [e \in Exts |-> {}]
    /\ inFlight = {}
    /\ events = [d \in Agents |-> "other"]
    /\ newClaims = {d \in Agents : claims[d] # <<>>}
    /\ st = [pending |-> [d \in Agents |-> "no"], tracked |-> {}, refreshed |-> FALSE,
             postedBy |-> [d \in Agents |-> None],
             posted |-> [e \in Exts |-> [of |-> None, today |-> FALSE]]]
    /\ disk = st
    /\ run = Idle
    /\ orphaned = {} /\ changes = 0 /\ faults = 0

PublisherWorks ==
    \/ StartRun
    \/ FinishRun
    \/ DoneCleaning
    \/ DonePosting
    \/ \E d \in Agents :
           \/ CleansUp(d)
           \/ SkipsUnlinked(d)
           \/ PutsOff(d)
           \/ FindsUnchanged(d)
           \/ WouldSend(d)
           \/ Updates(d)
    \/ run.phase = "sending" /\ run.plan # <<>> /\ SendConfirms(Head(run.plan))

PublisherFails ==
    \/ ScanFalls
    \/ \E d \in Agents : ReadFails(d)
    \/ /\ run.phase = "sending" /\ run.plan # <<>>
       /\ SendFails(Head(run.plan)) \/ SendTimesOut(Head(run.plan))
    \/ Crash

WorldMoves ==
    \/ \E e \in Exts : Unlinks(e) \/ \E d \in Agents : Links(e, d)
    \/ \E d \in Agents : Zeroed(d)
    \/ \E d \in Agents, v \in Scores, announced \in BOOLEAN : Scored(d, v, announced)

PublisherNext ==
    \/ PublisherWorks
    \/ PublisherFails
    \/ \E tx \in inFlight : Settles(tx)
    \/ NewDay
    \/ WorldMoves

PublisherSpec == PublisherInit /\ [][PublisherNext]_publisherVars

------------------------------------------------------------------------------
(* Properties.                                                             *)

PublisherTypeOK ==
    /\ {st, disk} \subseteq PublisherState
    /\ \A e \in Exts : names[e] \in Agents \cup {None}
    /\ score \in [Agents -> Scores] /\ slashed \subseteq Agents
    /\ run.phase \in {"idle", "agents", "sending"} /\ run.sent <= MaxTxsPerRun

\* The catalogs average what is live: an 8004 agent never carries two live feedbacks of
\* the publisher, whatever timed out, landed late or was restarted.
OneLive == \A e \in Exts : Cardinality(live[e]) <= 1

\* The publisher's state well formed, and one feedback shown.
PublisherInv == PublisherTypeOK /\ OneLive

Shown(e) == {f.value : f \in live[e]}

\* Seeing to an agent's old 8004 agent never takes down what another agent shows there,
\* unless a run died before it saved that.
TakesOnlyItsOwn ==
    LET seenTo(e) == run.phase = "sending" /\ run.at = e /\ e # run.links[run.on] IN
    \A e \in Exts \ orphaned : seenTo(e) =>
        \A f \in live[e] \ live'[e] : f.of = run.on

OthersLeftAlone == [][TakesOnlyItsOwn]_publisherVars

\* A sending run is done with an agent that was slashed.
IsDone(d) ==
    /\ run.sending /\ run'.phase = "agents" /\ faults' = faults
    /\ d \in run.todo \ run'.todo /\ st.pending[d] = "zeroed"

ShownAsZero(d) ==
    /\ Linked(d) => {f.value : f \in live'[run.links[d]]} = {0}
    /\ \A e \in Exts \ orphaned : \A f \in live'[e] : f.of = d => f.value = 0

\* A run is done with a slashed agent only when the 8004 agent it is linked to shows 0, and
\* no other shows a score of the agent, however often it posted that day and wherever it
\* has moved to.
DoneMeansZero == \A d \in Agents : IsDone(d) => ShownAsZero(d)

ZeroGoesOutAtOnce == [][DoneMeansZero]_publisherVars

\* Seeing to an old 8004 agent takes down nobody else's score, and a run is done with a
\* slashed agent only when the catalogs show 0 for it.
RunsLeaveItRight == OthersLeftAlone /\ ZeroGoesOutAtOnce

\* An 8004 agent linked to a scored agent shows its score, and any other shows nothing or the
\* zero of a slashed agent.  Only what a run wrote and died before saving may be left behind.
CatalogIsTrue ==
    \A e \in Exts \ orphaned :
        LET linked == {d \in Agents : LinkOf(d) = e} IN
        IF linked # {} /\ e \notin Withheld
        THEN Shown(e) = {score[d] : d \in linked}
        ELSE Shown(e) \subseteq {0}

==============================================================================
