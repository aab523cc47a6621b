---------------------------- MODULE SigvaraEpoch ----------------------------
(***************************************************************************)
(* The oracle's epoch loop for one agent: the primary P, which proposes    *)
(* and finalizes, and the checker C, which compares, finalizes what it     *)
(* agrees with once the primary is late, and covers for it when it is      *)
(* silent.  Each reads the slot, decides, and sends transactions that land *)
(* later, in nonce order, against whatever the slot holds by then.         *)
(*                                                                         *)
(* Time is kept as ages, each saturating past the largest value any guard  *)
(* compares it with, so that the model has no clock to bound.              *)
(*   MaxEpoch      the longest an epoch runs after it reads the clock      *)
(*   MaxStuck      the longest a sent transaction takes to land            *)
(*   CheckerEvery  the longest the checker leaves between two epochs       *)
(*   MaxFaults     faults and interventions in a behaviour                 *)
(*   MaxQueue      transactions of a wallet outstanding at once            *)
(***************************************************************************)
EXTENDS Naturals, Sequences, FiniteSetsExt

CONSTANTS
    W,             \* challengeWindow
    Grace,         \* checkerGrace
    ProbeRace,     \* whether the slot may change between the checker's read and its probe
    Rejects,       \* whether the committee acts
    MaxEpoch, MaxStuck, CheckerEvery, MaxFaults, MaxQueue

EpochAssumption ==
    /\ {W, Grace, MaxEpoch, MaxStuck, CheckerEvery, MaxQueue} \subseteq Nat \ {0}
    /\ MaxFaults \in Nat /\ {ProbeRace, Rejects} \subseteq BOOLEAN
    /\ MaxStuck < W          \* a transaction lands, or is dropped, within a window
    /\ CheckerEvery + MaxEpoch < W /\ 2 * CheckerEvery <= W  \* the interval the checker warns about
    /\ Grace >= CheckerEvery \* checkerGraceMs refuses less

VARIABLES
    slot,        \* pendingScores of the agent, its proposedAt as an age
    lastUpdated, \* age of reputations.lastUpdated, or of the registration
    live,        \* the finalized score
    agent,       \* "bonded", "unbonded" or "slashed"
    authorized,  \* whether the primary may still propose
    charged,     \* whether this fee epoch's charge was taken
    queue,       \* per operator, its outstanding transactions in nonce order
    primary,     \* the primary's epoch
    checker,     \* the checker's epoch and its memory of empty slots
    faults,
    emptied,     \* history: how long ago the slot was emptied, and by what
    unscored     \* history: charges taken since a proposal of the primary's landed

chainVars == <<slot, lastUpdated, live, agent, authorized, charged, emptied, unscored>>
vars == <<chainVars, queue, primary, checker, faults>>

Operators == {"P", "C"}
Scores == {"good", "bad"}   \* whether the checker's audit agrees with it

MaxAge == W + Grace + MaxEpoch
Older(a) == IF a < MaxAge THEN a + 1 ELSE a

EmptySlot == [exists |-> FALSE, by |-> "P", score |-> "good", age |-> 0]

Never == MaxAge + 1   \* an emptySeenAt or a read that is not there

Resting == [phase |-> "idle", action |-> "skip", epochAge |-> 0, stopped |-> FALSE, result |-> "none"]
Forgetful ==
    [phase |-> "idle", epochAge |-> 0, read |-> EmptySlot, stranded |-> FALSE, result |-> "none",
     lookAge |-> CheckerEvery, emptySeen |-> Never, coveringLate |-> FALSE]

------------------------------------------------------------------------------
(* The reputation contract, as SigvaraReputation has it.                   *)

MayPropose(op) == agent = "bonded" /\ (op = "P" => authorized)
StillAuthorized == slot.by = "P" => authorized

\* What proposeIfEmpty asks.
MayFill(op) == MayPropose(op) /\ ~(slot.exists /\ StillAuthorized)

MayFinalize == agent = "bonded" /\ slot.exists /\ slot.age >= W /\ StillAuthorized

Emptied(by) == slot' = EmptySlot /\ emptied' = [age |-> 0, by |-> by]

\* What a transaction needs to succeed when it lands.
Succeeds(op, tx) ==
    CASE tx.kind = "finalize" -> MayFinalize
      [] tx.kind = "charge"   -> ~charged
      [] tx.kind = "propose"  -> IF op = "C" THEN MayFill(op) ELSE MayPropose(op)

Effect(op, tx) ==
    CASE tx.kind = "finalize" ->
            /\ Emptied(op)
            /\ live' = slot.score /\ lastUpdated' = slot.age
            /\ UNCHANGED <<charged, unscored>>
      [] tx.kind = "charge" ->
            /\ charged' = TRUE /\ unscored' = unscored + 1
            /\ UNCHANGED <<slot, lastUpdated, live, emptied>>
      [] tx.kind = "propose" ->
            /\ slot' = [exists |-> TRUE, by |-> op, score |-> tx.score, age |-> 0]
            /\ unscored' = IF op = "P" THEN 0 ELSE unscored
            /\ UNCHANGED <<lastUpdated, live, emptied, charged>>

------------------------------------------------------------------------------
(* Transactions.                                                           *)

Awaits == {"finalizing", "charging", "proposing"}
Process(op) == IF op = "P" THEN primary ELSE checker

\* Hands a result to the operator that waits for the last of its transactions.
Told(p, op, result) ==
    IF p.phase \in Awaits /\ p.result = "none" /\ Len(queue[op]) = 1 THEN [p EXCEPT !.result = result] ELSE p

Send(op, kind, score) ==
    /\ Len(queue[op]) < MaxQueue
    /\ queue' = [queue EXCEPT ![op] = Append(@, [kind |-> kind, score |-> score, age |-> 0, replaced |-> FALSE])]

\* A block takes the next of an operator's transactions.
Mine(op) ==
    /\ queue[op] # <<>>
    /\ LET tx == Head(queue[op])
           ok == Succeeds(op, tx)
           result == IF ok THEN "landed" ELSE "reverted"
       IN
       /\ IF ok THEN Effect(op, tx)
          ELSE UNCHANGED <<slot, lastUpdated, live, charged, emptied, unscored>>
       /\ primary' = IF op = "P" THEN Told(primary, op, result) ELSE primary
       /\ checker' = IF op = "C" THEN Told(checker, op, result) ELSE checker
    /\ queue' = [queue EXCEPT ![op] = Tail(@)]
    /\ UNCHANGED <<agent, authorized, faults>>

\* Mutant: the dearer copy takes the next nonce.
Replacement_NextNonce(q) == Append([q EXCEPT ![Len(q)].replaced = TRUE], [q[Len(q)] EXCEPT !.replaced = TRUE])

\* tryReplace: the same call at a higher fee and the same nonce, so that one of the two lands.
Replacement(q) == [q EXCEPT ![Len(q)].replaced = TRUE]

\* settle, past its first wait.
Replace(op) ==
    /\ Process(op).phase \in Awaits /\ queue[op] # <<>>
    /\ ~queue[op][Len(queue[op])].replaced
    /\ faults < MaxFaults /\ faults' = faults + 1
    /\ Len(queue[op]) < MaxQueue
    /\ queue' = [queue EXCEPT ![op] = Replacement(@)]
    /\ UNCHANGED <<chainVars, primary, checker>>

\* TxUnconfirmedError: neither copy was seen mined. The transaction may land yet.
GiveUp(op) ==
    /\ Process(op).phase \in Awaits /\ queue[op] # <<>> /\ Process(op).result = "none"
    /\ queue[op][Len(queue[op])].replaced
    /\ IF op = "P" THEN primary' = [primary EXCEPT !.result = "unconfirmed"] /\ UNCHANGED checker
       ELSE checker' = [checker EXCEPT !.result = "unconfirmed"] /\ UNCHANGED primary
    /\ UNCHANGED <<chainVars, queue, faults>>

------------------------------------------------------------------------------
(* The primary.                                                            *)

\* decideAction, on the batch read at the epoch's start. A window that elapses while the
\* epoch runs is not seen until the next.
DecideAction ==
    IF ~slot.exists THEN "propose"
    ELSE IF slot.age >= W THEN "finalize" ELSE "skip"

PrimaryAt(phase) == primary' = [primary EXCEPT !.phase = phase, !.result = "none"]
PrimaryDone == primary' = Resting

\* The nonce gap at the start of an epoch, which stops its proposals.
Stopped == queue["P"] # <<>>

StartPrimary ==
    /\ primary.phase = "idle"
    /\ agent # "slashed" /\ DecideAction # "skip"
    /\ primary' = [Resting EXCEPT !.phase = "guard", !.action = DecideAction, !.stopped = Stopped]
    /\ UNCHANGED <<chainVars, queue, checker, faults>>

\* The reads again before the agent's turn, and what follows when finalizing is refused: a
\* proposer without authority is replaced, an empty slot was finalized by another, anything
\* else leaves the agent.
AfterRefusedFinalize ==
    IF (slot.exists /\ slot.age >= W /\ agent = "bonded" /\ ~StillAuthorized) \/ ~slot.exists
    THEN PrimaryAt("score") ELSE PrimaryDone

Guard ==
    /\ primary.phase = "guard"
    /\ IF agent # "bonded" THEN PrimaryDone /\ UNCHANGED queue
       ELSE IF primary.action = "propose" THEN PrimaryAt("score") /\ UNCHANGED queue
       ELSE IF MayFinalize THEN PrimaryAt("finalizing") /\ Send("P", "finalize", "good")
       ELSE AfterRefusedFinalize /\ UNCHANGED queue
    /\ UNCHANGED <<chainVars, checker, faults>>

Finalized ==
    /\ primary.phase = "finalizing" /\ primary.result # "none"
    /\ CASE primary.result = "landed"      -> PrimaryAt("score")
         [] primary.result = "reverted"    -> AfterRefusedFinalize
         [] primary.result = "unconfirmed" -> IF slot.exists THEN PrimaryDone ELSE PrimaryAt("score")
    /\ UNCHANGED <<chainVars, queue, checker, faults>>

\* Mutant: the fee is taken without asking whether the proposal would be accepted.
WouldBeRefused_NotAsked == FALSE

\* canPropose, asked before the fee.
WouldBeRefused == ~MayPropose("P")

\* Scored, and nothing proposed behind a stuck transaction; then the dry run and the charge.
\* An agent charged already in this fee epoch is refused when the charge is sent.
Charge ==
    /\ primary.phase = "score"
    /\ IF primary.stopped \/ WouldBeRefused THEN PrimaryDone /\ UNCHANGED queue
       ELSE IF charged THEN PrimaryAt("propose") /\ UNCHANGED queue
       ELSE PrimaryAt("charging") /\ Send("P", "charge", "good")
    /\ UNCHANGED <<chainVars, checker, faults>>

\* A charge another landed first reverts with AlreadyCharged and counts as paid. One not seen
\* mined leaves the agent unscored.
Charged ==
    /\ primary.phase = "charging" /\ primary.result # "none"
    /\ IF primary.result = "unconfirmed" THEN PrimaryDone ELSE PrimaryAt("propose")
    /\ UNCHANGED <<chainVars, queue, checker, faults>>

\* proposeScore through the replacing entry point. A send the contract refuses is counted
\* and left.
ProposePrimary ==
    /\ primary.phase = "propose"
    /\ IF MayPropose("P")
       THEN PrimaryAt("proposing") /\ \E s \in Scores : Send("P", "propose", s)
       ELSE PrimaryDone /\ UNCHANGED queue
    /\ UNCHANGED <<chainVars, checker, faults>>

ProposedPrimary ==
    /\ primary.phase = "proposing" /\ primary.result # "none"
    /\ PrimaryDone
    /\ UNCHANGED <<chainVars, queue, checker, faults>>

\* The process is gone, for good or until it starts again.
PrimaryFails ==
    /\ primary.phase # "idle"
    /\ faults < MaxFaults /\ faults' = faults + 1
    /\ PrimaryDone
    /\ UNCHANGED <<chainVars, queue, checker>>

------------------------------------------------------------------------------
(* The checker.                                                            *)

CheckerAt(c, phase) == checker' = [c EXCEPT !.phase = phase, !.result = "none"]
CheckerDone(c) ==
    checker' = [c EXCEPT !.phase = "idle", !.result = "none", !.read = EmptySlot, !.epochAge = 0, !.stranded = FALSE]

\* The slot read again for this agent, its proposal's age taken at the epoch's clock.
ReadPending ==
    [slot EXCEPT !.age = IF @ >= checker.epochAge THEN @ - checker.epochAge ELSE 0]

StartChecker ==
    /\ checker.phase = "idle" /\ checker.lookAge > 0
    /\ agent # "slashed"
    /\ checker' = [checker EXCEPT !.phase = "read", !.epochAge = 0, !.lookAge = 0]
    /\ UNCHANGED <<chainVars, queue, primary, faults>>

ReadSlot ==
    /\ checker.phase = "read"
    /\ IF agent # "bonded" THEN CheckerDone(checker)
       ELSE checker' = [checker EXCEPT !.phase = "decide", !.read = ReadPending]
    /\ UNCHANGED <<chainVars, queue, primary, faults>>

\* canPropose, asked of the compare-and-swap: the occupant is taken to have lost its authority
\* when it would be accepted over what was read.
Stranded == checker.read.exists /\ MayFill("C")

FreshPending == IF Stranded THEN EmptySlot ELSE checker.read

\* Mutant: each look that finds it empty counts afresh.
Remembered_Renewed ==
    IF FreshPending.exists THEN [checker EXCEPT !.emptySeen = Never, !.coveringLate = FALSE]
    ELSE IF Stranded \/ checker.coveringLate THEN checker
    ELSE [checker EXCEPT !.emptySeen = checker.epochAge]

\* What it remembers of the slot: since when it found it empty, and whether it emptied it itself.
Remembered ==
    IF FreshPending.exists THEN [checker EXCEPT !.emptySeen = Never, !.coveringLate = FALSE]
    ELSE IF Stranded \/ checker.coveringLate \/ checker.emptySeen # Never THEN checker
    ELSE [checker EXCEPT !.emptySeen = checker.epochAge]

\* How long the slot has been empty by the epoch's clock: since the latest of the last finalized
\* score (the time it was proposed), the registration and the first look that found it empty.
EmptyAge ==
    IF Stranded \/ checker.coveringLate THEN MaxAge
    ELSE Min({lastUpdated, Remembered.emptySeen}) - checker.epochAge

Agrees == FreshPending.score = "good"

\* decideCheckerAction
Decision ==
    IF ~FreshPending.exists THEN (IF EmptyAge >= Grace THEN "propose" ELSE "defer-propose")
    ELSE IF ~Agrees THEN "diverged"
    ELSE IF FreshPending.age < W THEN "skip"
    ELSE IF FreshPending.age >= W + Grace THEN "finalize" ELSE "defer-finalize"

\* The probe, the decision and the write it leads to. A finalize the simulation refuses and a
\* proposal whose slot was taken are left for the next epoch.
Decide ==
    /\ checker.phase = "decide"
    /\ IF Decision = "finalize" /\ MayFinalize
       THEN CheckerAt(Remembered, "finalizing") /\ Send("C", "finalize", "good")
       ELSE IF Decision = "propose" /\ MayFill("C")
       THEN CheckerAt([Remembered EXCEPT !.stranded = Stranded], "proposing") /\ Send("C", "propose", "good")
       ELSE CheckerDone(Remembered) /\ UNCHANGED queue
    /\ UNCHANGED <<chainVars, primary, faults>>

\* A finalize of its own means the primary was a grace late: the slot is covered at the next epoch.
CheckerWrote ==
    /\ checker.phase \in Awaits /\ checker.result # "none"
    /\ CheckerDone([checker EXCEPT
           !.coveringLate = @ \/ (checker.phase = "finalizing" /\ checker.result = "landed")])
    /\ UNCHANGED <<chainVars, queue, primary, faults>>

\* A restart forgets what it saw of empty slots.
RestartChecker ==
    /\ faults < MaxFaults /\ faults' = faults + 1
    /\ checker' = Forgetful
    /\ UNCHANGED <<chainVars, queue, primary>>

------------------------------------------------------------------------------
(* The world.                                                              *)

\* The registries: the bond moves, the primary's operator is removed or returns, or a filing
\* takes the stake and zeroes the score.
Intervene ==
    /\ faults < MaxFaults /\ faults' = faults + 1
    /\ \/ /\ agent' \in {"bonded", "unbonded"} \ {agent} /\ agent # "slashed"
          /\ UNCHANGED <<slot, live, lastUpdated, emptied, authorized>>
       \/ authorized' = ~authorized /\ UNCHANGED <<slot, live, lastUpdated, emptied, agent>>
       \/ /\ agent # "slashed" /\ agent' = "slashed"
          /\ Emptied("slash") /\ live' = "none" /\ lastUpdated' = 0
          /\ UNCHANGED authorized
    /\ UNCHANGED <<charged, unscored, queue, primary, checker>>

RejectReputation ==
    /\ Rejects /\ slot.exists /\ slot.age < W /\ slot.score = "bad"
    /\ Emptied("committee")
    /\ UNCHANGED <<lastUpdated, live, agent, authorized, charged, unscored, queue, primary, checker, faults>>

\* One unit of time. The bounds on how long things take are its guards, and a fee epoch is a unit.
Tick ==
    /\ primary.phase # "idle" => primary.epochAge < MaxEpoch
    /\ checker.phase # "idle" => checker.epochAge < MaxEpoch
    /\ agent # "slashed" => checker.lookAge < CheckerEvery
    /\ \A op \in Operators : \A i \in 1..Len(queue[op]) : queue[op][i].age < MaxStuck
    /\ slot' = IF slot.exists THEN [slot EXCEPT !.age = Older(@)] ELSE slot
    /\ lastUpdated' = Older(lastUpdated)
    /\ emptied' = [emptied EXCEPT !.age = Older(@)]
    /\ charged' = FALSE
    /\ primary' = IF primary.phase = "idle" THEN primary ELSE [primary EXCEPT !.epochAge = @ + 1]
    /\ checker' = [checker EXCEPT
           !.lookAge = IF agent = "slashed" THEN @ ELSE @ + 1,
           !.epochAge = IF checker.phase = "idle" THEN 0 ELSE @ + 1,
           !.emptySeen = IF @ = Never THEN Never ELSE Older(@)]
    /\ queue' = [op \in Operators |->
           [i \in 1..Len(queue[op]) |-> [queue[op][i] EXCEPT !.age = @ + 1]]]
    /\ UNCHANGED <<live, agent, authorized, unscored, faults>>

------------------------------------------------------------------------------
(* The specification.                                                      *)

Init ==
    /\ slot = EmptySlot /\ lastUpdated = 0 /\ live = "none"
    /\ agent = "bonded" /\ authorized = TRUE /\ charged = FALSE
    /\ queue = [op \in Operators |-> <<>>]
    /\ primary = Resting /\ checker = Forgetful /\ faults = 0
    /\ emptied = [age |-> 0, by |-> "none"] /\ unscored = 0

\* The slot changes while the checker is between its read and its probe only when the race is
\* allowed.
Undisturbed(A) == (~ProbeRace => checker.phase # "decide") /\ A

PrimaryMovesOn == Guard \/ Finalized \/ Charge \/ Charged \/ ProposePrimary \/ ProposedPrimary

CheckerSteps == StartChecker \/ ReadSlot \/ Decide \/ CheckerWrote

Next ==
    \/ StartPrimary \/ PrimaryMovesOn \/ CheckerSteps
    \/ PrimaryFails \/ RestartChecker
    \/ \E op \in Operators : Undisturbed(Mine(op)) \/ Replace(op) \/ GiveUp(op)
    \/ Undisturbed(Intervene) \/ Undisturbed(RejectReputation)
    \/ Tick

Spec == Init /\ [][Next]_vars

------------------------------------------------------------------------------
(* Properties.                                                             *)

\* What every step that replaces a proposal, makes a score live or takes a fee relies on:
\* a charge bought no more proposals than went missing by a fault, a live score of the
\* checker's making is one its audit agreed with, and nothing is held by a slashed agent.
EpochInv ==
    /\ unscored <= 1 + faults
    /\ (emptied.by = "C" /\ live # "none") => live = "good"
    /\ agent = "slashed" => ~slot.exists /\ live = "none"

\* A proposal whose proposer is in good standing is replaced only by the primary, and only when it is the
\* checker's: the checker never writes over one, and the primary waits out its own. It writes over its own only
\* after the window, when it lost its authority before it could finalize and has it back: two interventions.
LiveProposalsStand ==
    [][slot.exists /\ StillAuthorized /\ slot'.exists /\ slot' # slot /\ slot'.age = 0
         => slot'.by = "P" /\ (slot.by = "C" \/ (slot.age >= W /\ faults >= 2))]_slot

\* The checker fills a slot only when its occupant's proposer has lost its authority, when it
\* emptied the slot itself because the primary was late, when the committee emptied it, or when
\* the slot has been empty for the grace less what its epoch had run. Two interventions can fool it:
\* one that makes it look past the slot, and one that takes that back.
CheckerWaits ==
    [][(slot'.exists /\ slot' # slot /\ slot'.age = 0 /\ slot'.by = "C") =>
         \/ slot.exists /\ ~StillAuthorized
         \/ emptied.by \in {"C", "committee"}
         \/ emptied.age + MaxEpoch >= Grace
         \/ faults >= 2]_slot

\* What the two owe a slot: a proposal in good standing stands, and an empty one is the primary's for a while.
ProposalsStand == LiveProposalsStand /\ CheckerWaits

\* The agent is bonded, and the checker agrees with what is in the slot.
Undisputed == agent = "bonded" /\ slot.score = "good"

\* A score has just become live.
Renewed == emptied.by \in Operators /\ emptied.age = 0

\* The checker runs its epochs on a timer, the primary finishes the epochs it starts but need not
\* start any, the chain takes what is sent, and time passes.
FairSpec ==
    /\ Spec
    /\ WF_vars(CheckerSteps) /\ WF_vars(PrimaryMovesOn) /\ WF_vars(Tick)
    /\ \A op \in Operators : WF_vars(Undisturbed(Mine(op)))

==============================================================================
