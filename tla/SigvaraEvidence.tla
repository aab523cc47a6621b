--------------------------- MODULE SigvaraEvidence ---------------------------
(***************************************************************************)
(* The payment evidence of one oracle, scored chain only: the registry     *)
(* scan and the payment scan of an epoch, POST /attest with or without a   *)
(* credential, outcomes a payer signed, and the state file all of it is    *)
(* kept in (oracle/index.js, payment-scan.js, payments.js, store.js).      *)
(* Requests are served between any two reads of an epoch; the process may  *)
(* die in the middle of a save; a save or a read may fail.                 *)
(*                                                                         *)
(* A leg is what one sender paid one agent in one transaction, the minimum *)
(* met.  Time is counted in blocks.  The cooldown of strangers only        *)
(* refuses and is left out; so are amounts and packet identifiers.         *)
(***************************************************************************)
EXTENDS Integers

CONSTANTS
    Agents,             \* didHash values
    Payers,             \* addresses that pay agents
    Legs,               \* records of a transaction, an agent, a payer, and whether it is the
                        \*   agent's largest in the transaction
    Seller, Buyer,      \* the payers that operate an agent before and after it is sold
    Histories,          \* what the chain may come to hold, each a record of the block every
                        \*   transaction is mined in, and every agent registered and sold in
    NoFile, Unreadable, \* what a path holds when there is no usable state in it
    CONF,               \* confirmations: blocks behind the head that are final
    WINDOW,             \* age at which a reported outcome can no longer be replaced
    RETENTION,          \* age past which an event is pruned
    MaxLag,             \* blocks that may pass between an epoch's registry read and its scan's head
    MayDieRecovering,   \* whether a process that loaded its backup may die before its next save
    Posted,             \* bound: the transactions requests are made about
    MaxBlock, MaxFaults \* bounds: blocks; failures, deaths and damaged files

ASSUME EvidenceAssumption ==
    /\ {CONF, WINDOW, RETENTION, MaxLag, MaxFaults} \subseteq Nat /\ MaxBlock \in Nat \ {0}
    /\ Legs \subseteq [tx : {l.tx : l \in Legs}, agent : Agents, payer : Payers, largest : BOOLEAN]
    /\ Histories \subseteq [mined : [{l.tx : l \in Legs} -> Nat \ {0}],
                            registered : [Agents -> Nat \ {0}], sold : [Agents -> Nat \ {0}]]
    /\ {Seller, Buyer} \subseteq Payers /\ NoFile # Unreadable
    /\ MayDieRecovering \in BOOLEAN /\ Posted \subseteq {l.tx : l \in Legs}

VARIABLES
    head,          \* the latest block
    chain,         \* the one of Histories that is happening
    up,            \* whether the process runs
    mem,           \* the store: what the next save will write
    seen,          \* chain.js lastScannedBlock: the registry is known up to here
    epoch,         \* where the running epoch is
    files,         \* what the state file and its backup hold
    recovering,    \* history: the process loaded its backup and has not saved since
    acked,         \* history: the outcome the last 200 reported for each leg
    excused,       \* history: legs passed over by a scan that could not be verified
    faults         \* how much of MaxFaults is used

chainVars == <<head, chain>>
vars == <<chainVars, up, mem, seen, epoch, files, recovering, acked, excused, faults>>

Txs == {l.tx : l \in Legs}
Mined(l) == chain.mined[l.tx]
Registered(l) == chain.registered[l.agent]

\* Generations of the replay key: the transaction; with the agent; with the sender too.
Keys == {<<t>> : t \in Txs} \cup {<<t, a>> : t \in Txs, a \in Agents}
            \cup {<<l.tx, l.agent, l.payer>> : l \in Legs}

\* What a payment event says of the work: nothing yet, a credential holder's word, the payer's.
Outcomes == {"absent", "unreported", "reported", "signed"}
Rank == [o \in Outcomes |-> CASE o = "absent" -> 0 [] o = "unreported" -> 1
                              [] o = "reported" -> 2 [] o = "signed" -> 3]

Copies == [registry : 0..MaxBlock, reach : 0..MaxBlock, used : SUBSET Keys,
           events : [Legs -> Outcomes]]
ASSUME NoCopyAssumption == NoFile \notin Copies /\ Unreadable \notin Copies

Empty == [registry |-> 0, reach |-> 0, used |-> {}, events |-> [l \in Legs |-> "absent"]]
Idle == [phase |-> "idle", to |-> 0, plan |-> {}, broken |-> FALSE]

------------------------------------------------------------------------------
(* The chain.                                                              *)

Operator(a, b) == IF b < chain.sold[a] THEN Seller ELSE Buyer

\* Whether a leg, mined by now, is a customer's payment to an agent registered by then.
Payable(l) ==
    /\ Mined(l) <= head
    /\ Registered(l) <= Mined(l)
    /\ l.payer # Operator(l.agent, Mined(l))

\* Before the scan reads the head, no more than MaxLag blocks since the registry was read.
NewBlock ==
    /\ head < MaxBlock
    /\ epoch.phase = "listed" => head - seen < MaxLag
    /\ head' = head + 1
    /\ UNCHANGED <<chain, up, mem, seen, epoch, files, recovering, acked, excused, faults>>

------------------------------------------------------------------------------
(* The store.                                                              *)

KeyOf(l) == <<l.tx, l.agent, l.payer>>

\* An older key blocks every leg it does not tell apart.
IsCredited(c, l) == {<<l.tx>>, <<l.tx, l.agent>>, KeyOf(l)} \cap c.used # {}

\* Marks the legs used and files each as an event, with an outcome for the one reported on.
CreditPayments(c, legs, reported) ==
    LET fresh == {l \in legs : ~IsCredited(c, l)}
    IN  [c EXCEPT !.used = @ \cup {KeyOf(l) : l \in fresh},
                  !.events = [l \in Legs |-> IF l \notin fresh THEN @[l]
                                             ELSE IF l \in reported THEN "reported" ELSE "unreported"]]

\* Mutant: the replay record is pruned with its event.
PruneEvents_AndKeys(c) ==
    LET old == {l \in Legs : c.events[l] # "absent" /\ Mined(l) < head - RETENTION}
    IN  [c EXCEPT !.used = @ \ {KeyOf(l) : l \in old},
                  !.events = [l \in Legs |-> IF l \in old THEN "absent" ELSE @[l]]]

\* Gives a payment credited with no outcome the one a credential holder reports.
SetPaymentOutcome(c, l) ==
    IF c.events[l] = "unreported" THEN [c EXCEPT !.events[l] = "reported"] ELSE c

\* Drops decayed events.  The replay record is kept for good.
PruneEvents(c) ==
    [c EXCEPT !.events = [l \in Legs |->
        IF Mined(l) < head - RETENTION THEN "absent" ELSE @[l]]]

\* The payer's word: final, and in place of a reported one only while that is recent and the
\* payer was the only one paying.
RecordPayerOutcome(c, l, alone) ==
    IF \/ c.events[l] = "unreported"
       \/ c.events[l] = "reported" /\ alone /\ head - CONF - Mined(l) <= WINDOW
    THEN [c EXCEPT !.events[l] = "signed"] ELSE c

\* How a save ends: written; not written, or written and not renamed; or the process died before
\* the new copy was flushed, after the old backup was removed, or after the new one was linked.
Saves == {"saved", "not_written", "not_renamed", "died_writing", "died_unlinked", "died_linked"}
Deaths == {"died_writing", "died_unlinked", "died_linked"}

\* The new copy goes to a path of its own and is flushed; the state file becomes the backup, and
\* the new copy the state file.
FilesAfter(c, r) ==
    CASE r = "saved"                          -> [state |-> c, backup |-> files.state]
      [] r \in {"not_written", "died_writing"} -> files
      [] r = "died_unlinked"                  -> [files EXCEPT !.backup = NoFile]
      [] r \in {"not_renamed", "died_linked"} -> [files EXCEPT !.backup = files.state]

MayDie == MayDieRecovering \/ ~recovering

\* The process ends up with copy c in memory and the epoch at e, or it died saving.
PersistState(c, e, r) ==
    /\ r # "saved" => faults < MaxFaults
    /\ r \in Deaths => MayDie
    /\ faults' = IF r = "saved" THEN faults ELSE faults + 1
    /\ files' = FilesAfter(c, r)
    /\ recovering' = (recovering /\ r \notin Deaths \cup {"saved"})
    /\ up' = (r \notin Deaths)
    /\ mem' = IF r \in Deaths THEN Empty ELSE c
    /\ epoch' = IF r \in Deaths THEN Idle ELSE e

\* A restart reads the state file; the backup if that does not parse, moving the file aside when
\* it can; and refuses if neither does.  With no file it starts empty, on purpose or not.
Load ==
    /\ ~up
    /\ \E c \in {files.state, files.backup, Empty} :
        /\ CASE files.state = NoFile     -> c = Empty /\ files' = [files EXCEPT !.backup = NoFile]
             [] files.state = Unreadable -> /\ c = files.backup /\ c \notin {NoFile, Unreadable}
                                            /\ \E aside \in {NoFile, Unreadable} :
                                                   files' = [files EXCEPT !.state = aside]
             [] OTHER                    -> c = files.state /\ UNCHANGED files
        /\ recovering' = (files.state = Unreadable)
        /\ up' = TRUE /\ mem' = c /\ seen' = c.registry
    /\ UNCHANGED <<chainVars, epoch, acked, excused, faults>>

Dies ==
    /\ up /\ faults < MaxFaults /\ MayDie
    /\ up' = FALSE /\ recovering' = FALSE /\ mem' = Empty /\ epoch' = Idle /\ faults' = faults + 1
    /\ UNCHANGED <<chainVars, seen, files, acked, excused>>

\* Stopped, and the file edited by hand so that it no longer parses: what was taken since the
\* backup is lost, as the code says.
FileDamaged ==
    /\ up /\ faults < MaxFaults
    /\ {files.state, files.backup} \cap {NoFile, Unreadable} = {}
    /\ up' = FALSE /\ recovering' = FALSE /\ mem' = Empty /\ epoch' = Idle /\ faults' = faults + 1
    /\ files' = [files EXCEPT !.state = Unreadable]
    /\ acked' = [l \in Legs |-> IF Rank[files.backup.events[l]] < Rank[acked[l]]
                                THEN "absent" ELSE acked[l]]
    /\ UNCHANGED <<chainVars, seen, excused>>

------------------------------------------------------------------------------
(* The epoch.                                                              *)

\* The list of agents the rest of the epoch works from.
GetRegisteredAgents ==
    /\ up /\ epoch.phase = "idle"
    /\ seen' = head
    /\ epoch' = [Idle EXCEPT !.phase = "listed"]
    /\ UNCHANGED <<chainVars, up, mem, files, recovering, acked, excused, faults>>

\* The node fails part way: what was scanned is kept, and the epoch is over.
RegistryReadFails ==
    /\ up /\ epoch.phase = "idle" /\ faults < MaxFaults /\ seen < head
    /\ \E reached \in seen..(head - 1) :
        /\ seen' = reached
        /\ \E r \in Saves : PersistState([mem EXCEPT !.registry = reached], Idle, r)
    /\ UNCHANGED <<chainVars, acked, excused>>

\* Agents and operators as the list has them.
Listed(a) == chain.registered[a] <= seen
OperatorAt(a, b) == IF b < chain.sold[a] \/ seen < chain.sold[a] THEN Seller ELSE Buyer

SafeHead == IF head > CONF THEN head - CONF ELSE 0

\* What the range holds for the listed agents, less what the rules refuse.
PlanCredits ==
    {l \in Legs : /\ Mined(l) \in (mem.reach + 1)..SafeHead
                  /\ Listed(l.agent) /\ Registered(l) <= Mined(l)
                  /\ ~IsCredited(mem, l)
                  /\ l.payer # OperatorAt(l.agent, Mined(l))}

\* The logs are read.  A broken query returns none; a failed one ends the scan.
ReadPayments ==
    /\ up /\ epoch.phase = "listed"
    /\ \E how \in {"reads", "reads_nothing", "fails"} :
        /\ how # "reads" => faults < MaxFaults
        /\ faults' = IF how = "reads" THEN faults ELSE faults + 1
        /\ epoch' = IF how = "fails" \/ mem.reach >= SafeHead THEN [Idle EXCEPT !.phase = "scored"]
                    ELSE [epoch EXCEPT !.phase = "planned", !.to = SafeHead,
                              !.plan = IF how = "reads" THEN PlanCredits ELSE {},
                              !.broken = (how = "reads_nothing")]
    /\ UNCHANGED <<chainVars, up, mem, seen, files, recovering, acked, excused>>

\* The scan's own query against a payment already held, run when nothing was credited.
Canary(credited, c) ==
    IF credited # {} THEN {"not_run"}
    ELSE {"unavailable"} \cup
         (IF \E l \in Legs : c.events[l] # "absent" /\ Listed(l.agent)
          THEN {IF epoch.broken THEN "failed" ELSE "passed"} ELSE {})

\* Mutant: the checkpoint moves over what had no block time.
CheckpointAfter_To(n, unresolved, canary) == n = IF canary = "failed" THEN mem.reach ELSE epoch.to

\* Whether the checkpoint moves to n: nowhere after a failed canary, else one short of the
\* earliest block left unresolved.
CheckpointAfter(n, unresolved, canary) ==
    IF canary = "failed" THEN n = mem.reach
    ELSE /\ n <= epoch.to /\ \A l \in unresolved : n < Mined(l)
         /\ n = epoch.to \/ \E l \in unresolved : Mined(l) = n + 1

\* Credits the plan, less the legs whose block time could not be read and those a request has
\* credited since; then the canary and the checkpoint.
FinishPaymentScan ==
    /\ up /\ epoch.phase = "planned"
    /\ \E blocks \in SUBSET {Mined(l) : l \in epoch.plan}, canary \in
            {"not_run", "unavailable", "failed", "passed"} :
        LET unresolved == {l \in epoch.plan : Mined(l) \in blocks}
            credited == {l \in epoch.plan \ unresolved : ~IsCredited(mem, l)}
            c == CreditPayments(mem, credited, {})
        IN  /\ blocks # {} => faults < MaxFaults
            /\ faults' = IF blocks = {} THEN faults ELSE faults + 1
            /\ canary \in Canary(credited, c)
            /\ \E n \in mem.reach..epoch.to :
                /\ CheckpointAfter(n, unresolved, canary)
                /\ mem' = [c EXCEPT !.reach = n]
            /\ excused' = IF epoch.broken /\ canary = "unavailable"
                          THEN excused \cup {l \in Legs : Mined(l) \in (mem.reach + 1)..epoch.to}
                          ELSE excused
    /\ epoch' = [Idle EXCEPT !.phase = "scored"]
    /\ UNCHANGED <<chainVars, up, seen, files, recovering, acked>>

\* After scoring: the registry's reach is kept, old events dropped, the state saved.
EndEpoch ==
    /\ up /\ epoch.phase = "scored"
    /\ LET c == PruneEvents([mem EXCEPT !.registry = seen])
       IN  /\ \E r \in Saves : PersistState(c, Idle, r)
           /\ acked' = [l \in Legs |-> IF c.events[l] = "absent" THEN "absent" ELSE acked[l]]
    /\ UNCHANGED <<chainVars, seen, excused>>

------------------------------------------------------------------------------
(* Requests.  The payment is verified against the chain, deep enough.      *)

PaidLegs(t, a) ==
    {l \in Legs : l.tx = t /\ t \in Posted /\ l.agent = a /\ Payable(l) /\ Mined(l) <= SafeHead}

\* A 200 is sent once the save has landed; 202 otherwise.
Answer(l, c, r) ==
    acked' = IF r = "saved" THEN [acked EXCEPT ![l] = c.events[l]] ELSE acked

\* Anyone may name a settlement: its payments are credited, with no outcome.
AttestStranger(t, a) ==
    LET c == CreditPayments(mem, PaidLegs(t, a), {})
    IN  /\ up /\ c # mem
        /\ \E l \in PaidLegs(t, a) : l.largest
        /\ \E r \in Saves : PersistState(c, epoch, r)
        /\ UNCHANGED <<chainVars, seen, acked, excused>>

\* A credential holder's outcome goes on the largest leg, also when that was credited before
\* without one.
AttestCredentialed(l) ==
    LET paid == PaidLegs(l.tx, l.agent)
        c == SetPaymentOutcome(CreditPayments(mem, paid, {l}), l)
    IN  /\ up /\ l \in paid /\ l.largest /\ c # mem
        /\ \E r \in Saves : PersistState(c, epoch, r) /\ Answer(l, c, r)
        /\ UNCHANGED <<chainVars, seen, excused>>

\* An outcome the payer signed: every leg is credited, and the outcome put on the signer's.
AdmitPayerOutcome(l) ==
    LET paid == PaidLegs(l.tx, l.agent)
        c == RecordPayerOutcome(CreditPayments(mem, paid, {}), l, paid = {l})
    IN  /\ up /\ l \in paid /\ c # mem
        /\ \E r \in Saves : PersistState(c, epoch, r) /\ Answer(l, c, r)
        /\ UNCHANGED <<chainVars, seen, excused>>

------------------------------------------------------------------------------

\* A first start, or a state file of an older version, which used one key for a transaction.
Init ==
    /\ head = 1 /\ chain \in Histories
    /\ \E old \in {{}, {t \in Txs : chain.mined[t] = 1}} :
           files = [state |-> IF old = {} THEN NoFile ELSE
                       [Empty EXCEPT !.registry = 1, !.reach = 1, !.used = {<<t>> : t \in old}],
                    backup |-> NoFile]
    /\ up = FALSE /\ mem = Empty /\ seen = 0 /\ epoch = Idle /\ recovering = FALSE
    /\ acked = [l \in Legs |-> "absent"] /\ excused = {} /\ faults = 0

Next ==
    \/ NewBlock \/ Load \/ Dies \/ FileDamaged
    \/ GetRegisteredAgents \/ RegistryReadFails \/ ReadPayments \/ FinishPaymentScan \/ EndEpoch
    \/ \E t \in Txs, a \in Agents : AttestStranger(t, a)
    \/ \E l \in Legs : AttestCredentialed(l) \/ AdmitPayerOutcome(l)

Spec == Init /\ [][Next]_vars

\* The chain grows, epochs are run, their reads succeed in the end, and a process that died is
\* started again (oracle/index.js runs an epoch at every tick).
FairSpec ==
    /\ Spec
    /\ WF_vars(NewBlock) /\ WF_vars(Load)
    /\ WF_vars(GetRegisteredAgents) /\ WF_vars(ReadPayments)
    /\ WF_vars(FinishPaymentScan) /\ WF_vars(EndEpoch)

------------------------------------------------------------------------------
(* Properties.                                                             *)

EvidenceTypeOK ==
    /\ head \in 1..MaxBlock
    /\ chain \in Histories
    /\ {up, recovering, epoch.broken} \subseteq BOOLEAN /\ mem \in Copies /\ seen \in 0..head
    /\ epoch.phase \in {"idle", "listed", "planned", "scored"} /\ epoch.plan \subseteq Legs
    /\ \A f \in DOMAIN files : files[f] \in Copies \cup {NoFile, Unreadable}
    /\ acked \in [Legs -> Outcomes] /\ excused \subseteq Legs /\ faults \in 0..MaxFaults

\* What a scan or a restart may build on.
Held == ({mem} \cup {files[f] : f \in DOMAIN files}) \ {NoFile, Unreadable}

\* Every customer's payment a copy's checkpoint has passed is marked credited in the same copy:
\* whatever was credited, saved, lost and read again in between, no payment falls between the
\* checkpoint and the replay record (runPaymentScan, checkpointAfter, persist, load).
ScanMissesNothing ==
    \A c \in Held, l \in Legs :
        Payable(l) /\ Mined(l) <= c.reach =>
            {KeyOf(l), <<l.tx>>} \cap c.used # {} \/ l \in excused

\* Every event is a customer's payment to an agent registered by then, judged by the operator of
\* the payment's own block, and is in the replay record (planCredits, /attest).
OnlyPayments ==
    \A c \in Held, l \in Legs :
        c.events[l] # "absent" => Payable(l) /\ IsCredited(c, l)

\* What a 200 said was recorded is there whenever the oracle runs, through failed saves and
\* deaths; at least as strong an outcome, that is, a payer's word being stronger than a report
\* (persist's result in /attest, load, setPaymentOutcome, recordPayerOutcome).
AckedIsKept ==
    up => \A l \in Legs : Rank[acked[l]] <= Rank[mem.events[l]]

\* The files and the memory hold every payment due, nothing else, and what was acknowledged.
EvidenceInv == EvidenceTypeOK /\ ScanMissesNothing /\ OnlyPayments /\ AckedIsKept

\* A payment credited once is never credited again by the same process, even after its event was
\* pruned, and an outcome is never taken back or weakened while the event is held.
EvidenceOnlyGrows ==
    [][up /\ up' => \A l \in Legs :
        /\ IsCredited(mem, l) => IsCredited(mem, l)'
        /\ IsCredited(mem, l) /\ mem.events[l] = "absent" => mem'.events[l] = "absent"
        /\ mem'.events[l] # "absent" => Rank[mem.events[l]] <= Rank[mem'.events[l]]
        /\ mem.events[l] = "signed" => mem'.events[l] \in {"signed", "absent"}]_vars

AllFound ==
    \A l \in Legs :
        Payable(l) /\ Mined(l) <= MaxBlock - CONF => IsCredited(mem, l) \/ l \in excused

==============================================================================
