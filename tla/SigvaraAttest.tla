----------------------------- MODULE SigvaraAttest -----------------------------
(***************************************************************************)
(* POST /attest, /flag and /flag/resolve on one agent, with payments       *)
(* required: what a request checks while it awaits the chain, what the     *)
(* scan credits in the meantime, what is recorded in one go at the end,    *)
(* and what a 200 stands for when a save may fail and the oracle restart.  *)
(* A tally, a flag and an outcome are each the request that gave it; a     *)
(* good outcome and a bad one are told apart by nothing here.              *)
(* Outcomes signed by a payer are SigvaraOutcomes'.                        *)
(*                                                                         *)
(* Bounds: Requests, Legs, MaxTime, MaxTurns of the disk and of restarts.  *)
(***************************************************************************)
EXTENDS Integers, Sequences, FiniteSets, SequencesExt

CONSTANTS
    Requests,
    Legs,           \* the payments made: transaction -> its senders, the largest first
    OwnOperator,    \* the sender that is the agent's own operator
    Cooldown, MaxTime, MaxTurns,
    None

VARIABLES
    clock,
    memory,          \* the maps in memory
    disk,           \* the state file
    roomy,          \* whether a save works
    turns,
    req             \* what each request asked, and what it was answered

attestVars == <<clock, memory, disk, roomy, turns, req>>

AttestAssumption ==
    /\ {Cooldown, MaxTime, MaxTurns} \subseteq Nat
    /\ None \notin Requests \cup Nat
    /\ \A t \in DOMAIN Legs : 1 \in DOMAIN Legs[t]

Txs == DOMAIN Legs
Payers == UNION {{Legs[t][i] : i \in DOMAIN Legs[t]} : t \in Txs}

Idle == [kind |-> "none", tx |-> None, success |-> FALSE, caller |-> FALSE,
         status |-> "none", at |-> 0, took |-> {}]

Empty == [events |-> <<>>, tally |-> {}, cooled |-> [p \in Payers |-> None], flags |-> <<>>]

Paying(t) == {i \in DOMAIN Legs[t] : Legs[t][i] # OwnOperator}
Credited(events, t) == {i \in Paying(t) : <<t, Legs[t][i]>> \in DOMAIN events}

------------------------------------------------------------------------------
(* The store.                                                               *)

\* creditPayment, leg by leg: a leg credited before stays as it is, and an outcome goes on
\* the largest alone.
CreditLegs(events, t, first) ==
    [k \in DOMAIN events \cup {<<t, Legs[t][i]>> : i \in Paying(t)} |->
        IF k \in DOMAIN events THEN events[k] ELSE IF k[2] = Legs[t][1] THEN first ELSE None]

\* setPaymentOutcome: the first outcome a payment has is the last.
SetPaymentOutcome(events, t, r) ==
    LET leg == <<t, Legs[t][1]>>
    IN  IF events[leg] = None THEN [events EXCEPT ![leg] = r] ELSE events

MayAttest(p) == memory.cooled[p] = None \/ clock - memory.cooled[p] >= Cooldown

\* persistState: the whole of memory, or nothing.
Saved(copy) == disk' = IF roomy THEN copy ELSE disk

------------------------------------------------------------------------------
(* POST /attest.                                                           *)

MayAttestUnauthenticated(success) == success

\* The body is read, and the caller named; a stranger's claim of anything but success is
\* refused on the spot.
Arrive ==
    \E r \in Requests, t \in Txs, s \in BOOLEAN, caller \in BOOLEAN :
        /\ req[r].status = "none"
        /\ caller \/ MayAttestUnauthenticated(s)
        /\ req' = [req EXCEPT ![r] = [Idle EXCEPT !.kind = "attest", !.status = "reading",
                                                  !.tx = t, !.success = s, !.caller = caller]]
        /\ UNCHANGED <<clock, memory, disk, roomy, turns>>

Answer(r, status) == req' = [req EXCEPT ![r].status = status, ![r].at = clock]

\* The agent, the payment and the operator at its block are read, over several awaits.
ReadsFail ==
    \E r \in Requests :
        /\ req[r].status = "reading"
        /\ Answer(r, "502")
        /\ UNCHANGED <<clock, memory, disk, roomy, turns>>

\* Only a credential holder's word is an outcome.
OutcomeOf(r) == IF req[r].caller /\ req[r].success THEN r ELSE None

\* A credential holder reporting on a verified payment is not throttled.
Throttled(r) == ~req[r].caller

\* What the events become, given what is there when the last await returns.
Recorded(r) ==
    LET t == req[r].tx
        before == memory.events
    IN  IF <<t, Legs[t][1]>> \in DOMAIN before /\ OutcomeOf(r) # None
        THEN SetPaymentOutcome(CreditLegs(before, t, None), t, r)
        ELSE CreditLegs(before, t, OutcomeOf(r))

\* A report that credits no leg and sets no outcome is a replay.
Accepted(r) ==
    /\ Legs[req[r].tx][1] # OwnOperator
    /\ Throttled(r) => MayAttest(Legs[req[r].tx][1])
    /\ Recorded(r) # memory.events

\* Mutant: the cooldown is armed whatever becomes of the report.
Armed_Always(r) ==
    IF Throttled(r) THEN [memory.cooled EXCEPT ![Legs[req[r].tx][1]] = clock] ELSE memory.cooled

\* recordAttestation, for a report that was accepted.
Armed(r) ==
    IF Throttled(r) /\ Accepted(r) THEN [memory.cooled EXCEPT ![Legs[req[r].tx][1]] = clock]
    ELSE memory.cooled

RefusedWith(r) ==
    LET payer == Legs[req[r].tx][1]
    IN  CASE payer = OwnOperator -> "402"
          [] payer # OwnOperator /\ Throttled(r) /\ ~MayAttest(payer) -> "429"
          [] OTHER -> "409"

\* Everything after the last await: one step, whatever was true before it.
Attest ==
    \E r \in Requests :
        /\ req[r].status = "reading"
        /\ IF Accepted(r)
           THEN /\ memory' = [memory EXCEPT !.events = Recorded(r), !.tally = @ \cup {r}, !.cooled = Armed(r)]
                /\ Saved(memory')
                /\ Answer(r, IF roomy THEN "200" ELSE "202")
           ELSE /\ memory' = IF RefusedWith(r) = "409" THEN [memory EXCEPT !.cooled = Armed(r)] ELSE memory
                /\ Answer(r, RefusedWith(r))
                /\ UNCHANGED disk
        /\ UNCHANGED <<clock, roomy, turns>>

------------------------------------------------------------------------------
(* POST /flag and /flag/resolve.  Each is one step once its body is read.  *)

Flag ==
    \E r \in Requests :
        /\ req[r].status = "none"
        /\ memory' = [memory EXCEPT !.flags = Append(@, r)]
        /\ Saved(memory')
        /\ req' = [req EXCEPT ![r] = [Idle EXCEPT !.kind = "flag", !.at = clock,
                                                  !.status = IF roomy THEN "200" ELSE "202"]]
        /\ UNCHANGED <<clock, roomy, turns>>

\* The newest flags go first; a resolve that finds none saves nothing and is answered 200.
Resolve ==
    \E r \in Requests, count \in 1..2 :
        LET before == Len(memory.flags)
            after == IF before > count THEN before - count ELSE 0
            gone == {memory.flags[i] : i \in after + 1..before}
        IN  /\ req[r].status = "none"
            /\ memory' = [memory EXCEPT !.flags = SubSeq(@, 1, after)]
            /\ IF gone # {} THEN Saved(memory') ELSE UNCHANGED disk
            /\ req' = [req EXCEPT ![r] = [Idle EXCEPT !.kind = "resolve", !.took = gone, !.at = clock,
                                                      !.status = IF roomy \/ gone = {} THEN "200" ELSE "202"]]
            /\ UNCHANGED <<clock, roomy, turns>>

------------------------------------------------------------------------------
(* The scan, the disk and the process.                                     *)

\* The scan credits every paying leg with no outcome; the epoch saves later.
Scan ==
    \E t \in Txs :
        /\ Credited(memory.events, t) # Paying(t)
        /\ memory' = [memory EXCEPT !.events = CreditLegs(@, t, None)]
        /\ UNCHANGED <<clock, disk, roomy, turns, req>>

Saves ==
    /\ Saved(memory)
    /\ UNCHANGED <<clock, memory, roomy, turns, req>>

DiskTurns ==
    /\ turns < MaxTurns
    /\ turns' = turns + 1
    /\ roomy' = ~roomy
    /\ UNCHANGED <<clock, memory, disk, req>>

\* A request under way gets no answer.
Restart ==
    /\ turns < MaxTurns
    /\ turns' = turns + 1
    /\ memory' = disk
    /\ req' = [r \in Requests |->
                  IF req[r].status = "reading" THEN [req[r] EXCEPT !.status = "gone"] ELSE req[r]]
    /\ UNCHANGED <<clock, disk, roomy>>

TimePasses ==
    /\ clock < MaxTime
    /\ clock' = clock + 1
    /\ UNCHANGED <<memory, disk, roomy, turns, req>>

AttestInit ==
    /\ clock = 0
    /\ memory = Empty
    /\ disk = Empty
    /\ roomy \in BOOLEAN
    /\ turns = 0
    /\ req = [r \in Requests |-> Idle]

AttestNext ==
    \/ Arrive \/ ReadsFail \/ Attest
    \/ Flag \/ Resolve
    \/ Scan \/ Saves \/ DiskTurns \/ Restart \/ TimePasses

AttestSpec == AttestInit /\ [][AttestNext]_attestVars

------------------------------------------------------------------------------
(* Properties.                                                             *)

\* Every outcome that was tallied is the outcome of its payment, and no payment has one that
\* was not tallied, in memory and in the file alike, however reports, replays, the scan,
\* failed saves and restarts interleave.
TalliedOnce ==
    \A s \in {memory, disk} :
        {r \in s.tally : OutcomeOf(r) # None} = {s.events[k] : k \in DOMAIN s.events} \ {None}

SamePayer(r, q) == Legs[req[r].tx][1] = Legs[req[q].tx][1]

\* Two reports of strangers that count, on payments of one payer, are a cooldown apart, though
\* both may have been reading the chain at once.
AcceptedApart ==
    \A r, q \in memory.tally :
        r # q /\ Throttled(r) /\ Throttled(q) /\ SamePayer(r, q) =>
            req[r].at - req[q].at >= Cooldown \/ req[q].at - req[r].at >= Cooldown

\* No one is told to wait but on account of a report that was accepted: a replay of
\* somebody's public payment locks nobody out.
ThrottledForACause ==
    \A r \in Requests :
        req[r].status = "429" =>
            \E q \in Requests :
                /\ req[q].kind = "attest" /\ Throttled(q) /\ SamePayer(r, q)
                /\ req[q].status \in {"200", "202"}
                /\ req[q].at <= req[r].at /\ req[r].at - req[q].at < Cooldown

\* What was answered 200 is in the state file from then on: an attestation in the tally, a
\* flag unless a resolve took it, and none of the flags a resolve took.
AnsweredIsKept ==
    \A r \in Requests :
        req[r].status = "200" =>
            CASE req[r].kind = "attest" -> r \in disk.tally
              [] req[r].kind = "flag" ->
                    r \in ToSet(disk.flags) \/ \E q \in Requests : r \in req[q].took
              [] OTHER -> req[r].took \cap ToSet(disk.flags) = {}

AttestInv == TalliedOnce /\ AcceptedApart /\ ThrottledForACause /\ AnsweredIsKept
==============================================================================
