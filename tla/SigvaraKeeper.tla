---------------------------- MODULE SigvaraKeeper ----------------------------
(***************************************************************************)
(* oracle/keeper.js in live mode, composed with the staking contract it    *)
(* watches.  A run reads the head, scans the filings behind it, and then   *)
(* takes the open slashes one at a time: read the proposal, decide,        *)
(* simulate, look for a transaction of its own still in flight, send, and  *)
(* wait for the receipt.  Between any two of these the chain moves, and at *)
(* any of them the run may fail (memory is kept) or the process die        *)
(* (memory is what was last persisted).                                    *)
(*                                                                         *)
(* A transaction the keeper gave up on stays in flight and lands later.    *)
(* An alert is delivered or printed; gas and balance are left out.         *)
(***************************************************************************)
EXTENDS SigvaraStaking

CONSTANTS
    GRACE,              \* KEEPER_GRACE_SECONDS
    ALERT_AGAIN,        \* ALERT_AGAIN_SECONDS
    MaxFaults           \* bound: failed runs, restarts and unconfirmed sends

ASSUME KeeperAssumption ==
    GRACE \in Nat /\ ALERT_AGAIN \in Nat \ {0} /\ MaxFaults \in Nat

VARIABLES
    unscanned,   \* agents with a SlashInitiated past the scan cursor
    mem,         \* the keeper's state: what it watches, reported and executed
    disk,        \* the same, as last persisted
    run,         \* where the current run is
    skip,        \* KEEPER_SKIP_AGENTS of this process
    inFlight,    \* [Agents -> executeSlash transactions of the keeper not yet mined]
    heard,       \* history: what a person was told of each agent's latest proposal
    faults       \* how much of MaxFaults is used

keeperVars == <<unscanned, mem, disk, run, skip, inFlight, heard, faults>>
systemVars == <<vars, keeperVars>>

\* Keys of s.alerted, each for one agent.
AlertKinds == {"disputed", "dispute-unruled", "lapsed", "refused", "failed"}

\* What is told without a key: how a watched slash ended.
Endings == {"executed", "dropped"}

KeeperMemory ==
    [open : [Agents -> {"no", "unseen", "seen"}], executed : SUBSET Agents,
     alerted : [Agents -> [AlertKinds -> Int]]]

Phases == {"idle", "checking", "simulating", "sending", "waiting"}

Receipts == {"none", "ok", "reverted"}

Runs ==
    [phase : Phases, at : Nat, todo : SUBSET Agents, on : SUBSET Agents, receipt : Receipts]

Idle == [phase |-> "idle", at |-> 0, todo |-> {}, on |-> {}, receipt |-> "none"]

Open(memory) == {d \in Agents : memory.open[d] # "no"}

------------------------------------------------------------------------------
(* One run.                                                                *)

\* What is on disk after the scan: each chunk saves the cursor and the filings together.
SavedByScan(memory) == memory

\* The scan stays SCAN_MARGIN behind the head: of the filings of the current instant it
\* may miss any, of older ones none.
StartRun ==
    /\ run.phase = "idle"
    /\ \E found \in SUBSET unscanned :
           /\ {d \in unscanned : slashProposals[d].initiatedAt < now} \subseteq found
           /\ LET scanned == [mem EXCEPT !.open =
                      [d \in Agents |-> IF d \in found /\ @[d] = "no" THEN "unseen" ELSE @[d]]]
              IN  /\ mem' = scanned
                  /\ disk' = SavedByScan(scanned)
                  /\ run' = [Idle EXCEPT !.phase = "checking", !.at = now, !.todo = Open(scanned)]
           /\ unscanned' = unscanned \ found
    /\ UNCHANGED <<vars, skip, inFlight, heard, faults>>

\* Whether raise() notifies: not within ALERT_AGAIN of the last time.
MayAlert(d, kind) == run.at - mem.alerted[d][kind] >= ALERT_AGAIN

Alert(d, kind) ==
    IF MayAlert(d, kind)
    THEN /\ mem' = [mem EXCEPT !.open[d] = "seen", !.alerted[d][kind] = run.at]
         /\ heard' = heard \cup {<<d, kind>>}
    ELSE /\ mem' = [mem EXCEPT !.open[d] = "seen"]
         /\ UNCHANGED heard

\* The loop turns to agent d, and reads its proposal.
Turn(d) ==
    /\ run.phase = "checking" /\ d \in run.todo
    /\ run' = [run EXCEPT !.todo = @ \ {d}]
    /\ UNCHANGED <<vars, unscanned, disk, skip, inFlight, faults>>

\* Once, when it is first seen.  The key is never cleared.
HearsDispute(d) ==
    /\ slashProposals[d].state = "Disputed"
    /\ run.at <= slashProposals[d].disputedAt + DISPUTE_RESOLUTION_PERIOD
    /\ Turn(d)
    /\ IF mem.alerted[d]["disputed"] >= 0
       THEN mem' = [mem EXCEPT !.open[d] = "seen"] /\ UNCHANGED heard
       ELSE Alert(d, "disputed")

HearsUnruled(d) ==
    /\ slashProposals[d].state = "Disputed"
    /\ run.at > slashProposals[d].disputedAt + DISPUTE_RESOLUTION_PERIOD
    /\ Turn(d)
    /\ Alert(d, "dispute-unruled")

\* Mutant: the lapse is told only of agents the keeper would have executed.
HearsLapse_NotSkipped(d) ==
    /\ slashProposals[d].state = "Pending"
    /\ run.at > slashProposals[d].challengeDeadline + EXECUTION_PERIOD
    /\ Turn(d)
    /\ IF d \in skip THEN UNCHANGED <<mem, heard>> ELSE Alert(d, "lapsed")

\* Before the skip list: once lapsed it is a person's decision.
HearsLapse(d) ==
    /\ slashProposals[d].state = "Pending"
    /\ run.at > slashProposals[d].challengeDeadline + EXECUTION_PERIOD
    /\ Turn(d)
    /\ Alert(d, "lapsed")

\* Settled or dropped.  Its own confirmed execution was reported when it was confirmed.
Forgets(d) ==
    /\ ~Live(d)
    /\ Turn(d)
    /\ mem' = [mem EXCEPT !.open[d] = "no", !.executed = @ \ {d}]
    /\ heard' = IF mem.open[d] = "seen" /\ d \notin mem.executed
                THEN heard \cup {<<d, IF slashProposals[d].state = "Executed"
                                      THEN "executed" ELSE "dropped">>}
                ELSE heard

\* Due, as of the run's head.
ToExecute(d) ==
    /\ slashProposals[d].state = "Pending"
    /\ d \notin skip
    /\ run.at > slashProposals[d].challengeDeadline + GRACE
    /\ run.at <= slashProposals[d].challengeDeadline + EXECUTION_PERIOD

\* Waiting for the deadline or the grace period, or held by the skip list.
LeavesAlone(d) ==
    /\ slashProposals[d].state = "Pending"
    /\ run.at <= slashProposals[d].challengeDeadline + EXECUTION_PERIOD
    /\ ~ToExecute(d)
    /\ Turn(d)
    /\ mem' = [mem EXCEPT !.open[d] = "seen"]
    /\ UNCHANGED heard

DecidesToExecute(d) ==
    /\ ToExecute(d)
    /\ run.phase = "checking" /\ d \in run.todo
    /\ run' = [run EXCEPT !.phase = "simulating", !.todo = @ \ {d}, !.on = {d}]
    /\ mem' = [mem EXCEPT !.open[d] = "seen"]
    /\ UNCHANGED <<vars, unscanned, disk, skip, inFlight, heard, faults>>

\* The contract's own answer to executeSlash.
Executable(d) ==
    /\ slashProposals[d].state = "Pending"
    /\ now > slashProposals[d].challengeDeadline
    /\ slashProposals[d].reporter \in committee

BackToLoop == run' = [run EXCEPT !.phase = "checking", !.on = {}, !.receipt = "none"]

\* A refusal is news, unless somebody settled or dropped the slash since it was read.
Simulates(d) ==
    /\ run.phase = "simulating" /\ d \in run.on
    /\ IF Executable(d)
       THEN run' = [run EXCEPT !.phase = "sending"] /\ UNCHANGED <<mem, heard>>
       ELSE /\ BackToLoop
            /\ IF slashProposals[d].state = "Pending" THEN Alert(d, "refused")
               ELSE UNCHANGED <<mem, heard>>
    /\ UNCHANGED <<vars, unscanned, disk, skip, inFlight, faults>>

\* Mutant: no look for a transaction in flight.
NoneInFlight_Assumed == TRUE

NoneInFlight == \A d \in Agents : inFlight[d] = 0
RecordedAtSend(d) == UNCHANGED mem

\* Blocked while an earlier transaction holds the nonce.
Blocked ==
    /\ run.phase = "sending"
    /\ ~NoneInFlight
    /\ BackToLoop
    /\ UNCHANGED <<vars, unscanned, mem, disk, skip, inFlight, heard, faults>>

Sends(d) ==
    /\ run.phase = "sending" /\ d \in run.on
    /\ NoneInFlight
    /\ run' = [run EXCEPT !.phase = "waiting"]
    /\ inFlight' = [inFlight EXCEPT ![d] = @ + 1]
    /\ RecordedAtSend(d)
    /\ UNCHANGED <<vars, unscanned, disk, skip, heard, faults>>

\* The transaction is included: it settles the slash, or reverts.
Mined(d) ==
    /\ inFlight[d] > 0
    /\ inFlight' = [inFlight EXCEPT ![d] = @ - 1]
    /\ IF Executable(d) THEN ExecuteSlash(d) ELSE UNCHANGED vars
    /\ run' = IF run.phase = "waiting" /\ d \in run.on
              THEN [run EXCEPT !.receipt = IF Executable(d) THEN "ok" ELSE "reverted"]
              ELSE run
    /\ UNCHANGED <<unscanned, mem, disk, skip, heard, faults>>

Confirms(d) ==
    /\ run.phase = "waiting" /\ d \in run.on /\ run.receipt = "ok"
    /\ BackToLoop
    /\ mem' = [mem EXCEPT !.executed = @ \cup {d}]
    /\ heard' = heard \cup {<<d, "executed">>}
    /\ UNCHANGED <<vars, unscanned, disk, skip, inFlight, faults>>

\* Reverted, or no receipt within the wait: it may still land.
Unconfirmed(d) ==
    /\ run.phase = "waiting" /\ d \in run.on
    /\ \/ run.receipt = "reverted" /\ UNCHANGED faults
       \/ run.receipt = "none" /\ faults < MaxFaults /\ faults' = faults + 1
    /\ BackToLoop
    /\ Alert(d, "failed")
    /\ UNCHANGED <<vars, unscanned, disk, skip, inFlight>>

FinishRun ==
    /\ run.phase = "checking" /\ run.todo = {}
    /\ run' = Idle
    /\ disk' = mem
    /\ UNCHANGED <<vars, unscanned, mem, skip, inFlight, heard, faults>>

------------------------------------------------------------------------------
(* Failures and the chain.                                                 *)

\* A read throws.  What the run changed in memory stays.
RunFails ==
    /\ run.phase \in {"checking", "simulating", "sending"}
    /\ faults < MaxFaults /\ faults' = faults + 1
    /\ run' = Idle
    /\ UNCHANGED <<vars, unscanned, mem, disk, skip, inFlight, heard>>

\* The process dies and is started again, perhaps with another skip list.
Restart ==
    /\ faults < MaxFaults /\ faults' = faults + 1
    /\ run' = Idle
    /\ mem' = disk
    /\ skip' \in SUBSET Agents
    /\ UNCHANGED <<vars, unscanned, disk, inFlight, heard>>

\* Agents with a proposal filed in this step.
JustFiled == {d \in Agents : ~Live(d) /\ Live(d)'}

\* The contracts move; a filing emits SlashInitiated.
ChainMoves ==
    /\ Next
    /\ unscanned' = unscanned \cup JustFiled
    /\ heard' = {h \in heard : h[1] \notin JustFiled}
    /\ UNCHANGED <<mem, disk, run, skip, inFlight, faults>>

------------------------------------------------------------------------------
(* The specification.                                                      *)

BlankMemory ==
    [open |-> [d \in Agents |-> "no"], executed |-> {},
     alerted |-> [d \in Agents |-> [k \in AlertKinds |-> -ALERT_AGAIN]]]

KeeperInit ==
    /\ Init
    /\ unscanned = {}
    /\ mem = BlankMemory
    /\ disk = BlankMemory
    /\ run = Idle
    /\ skip \in SUBSET Agents
    /\ inFlight = [d \in Agents |-> 0]
    /\ heard = {}
    /\ faults = 0

\* What the loop of the process does when nothing fails.
KeeperWorks ==
    \/ StartRun
    \/ FinishRun
    \/ Blocked
    \/ \E d \in Agents :
           \/ HearsDispute(d)
           \/ HearsUnruled(d)
           \/ HearsLapse(d)
           \/ Forgets(d)
           \/ LeavesAlone(d)
           \/ DecidesToExecute(d)
           \/ Simulates(d)
           \/ Sends(d)
           \/ Confirms(d)
           \/ Unconfirmed(d)

KeeperNext ==
    \/ KeeperWorks
    \/ \E d \in Agents : Mined(d)
    \/ RunFails
    \/ Restart
    \/ ChainMoves

KeeperSpec == KeeperInit /\ [][KeeperNext]_systemVars

\* The interval timer starts the next run for ever, each run goes on, a transaction sent is
\* included in the end, and time passes.  Nobody else is promised to call anything.
KeeperFairSpec ==
    /\ KeeperSpec
    /\ WF_systemVars(KeeperWorks)
    /\ \A d \in Agents : WF_systemVars(Mined(d))
    /\ WF_vars(Tick /\ UNCHANGED <<identityVars, stakingVars>>)

------------------------------------------------------------------------------
(* Properties.                                                             *)

KeeperTypeOK ==
    /\ StakingTypeOK
    /\ unscanned \subseteq Agents
    /\ {mem, disk} \subseteq KeeperMemory
    /\ run \in Runs
    /\ skip \subseteq Agents
    /\ inFlight \in [Agents -> Nat]
    /\ heard \subseteq Agents \X (AlertKinds \cup Endings)

\* The keeper never has two transactions in flight, whatever timed out, failed or was
\* restarted since the first was sent.
OneInFlight ==
    \A d, e \in Agents : inFlight[d] > 0 /\ inFlight[e] > 0 => d = e /\ inFlight[d] = 1

\* A live proposal is never lost from sight: its filing is still ahead of the cursor, or
\* the agent is on the watch list, in memory and on disk, where a restart finds it.
LiveIsWatched ==
    \A d \in Agents : Live(d) => d \in unscanned \/ d \in Open(mem) \cap Open(disk)

\* The watch list well formed and complete, and one transaction at a time.
KeeperInv == KeeperTypeOK /\ LiveIsWatched /\ OneInFlight

\* An undisputed slash past its deadline and the grace period ends, or a person hears
\* why it has not; one left alone on purpose is heard of once it lapses.
DueEndsOrIsHeard ==
    \A d \in Agents :
        LET p == slashProposals[d]
            due == IF d \in skip THEN p.challengeDeadline + EXECUTION_PERIOD
                   ELSE p.challengeDeadline + GRACE
        IN  p.state = "Pending" /\ now > due
                ~> \/ p.state # "Pending"
                   \/ d \in skip /\ now <= p.challengeDeadline + EXECUTION_PERIOD
                   \/ \E kind \in {"lapsed", "refused", "failed"} : <<d, kind>> \in heard

\* The execution of a slash the keeper had seen, and saved as seen, is reported, by
\* whoever's transaction it happened and whenever that landed.
ExecutionIsHeard ==
    \A d \in Agents :
        {mem.open[d], disk.open[d]} = {"seen"} /\ slashProposals[d].state = "Executed"
            ~> <<d, "executed">> \in heard

\* Both: no slash ends, or fails to end, in silence.
SlashesAreHeard == DueEndsOrIsHeard /\ ExecutionIsHeard

==============================================================================
