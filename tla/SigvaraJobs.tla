----------------------------- MODULE SigvaraJobs -----------------------------
(***************************************************************************)
(* The reader of ERC-8183 jobs.  A registry, which is not of this          *)
(* repository, logs what becomes of each job; GET /jobs looks at a window  *)
(* of its blocks, span by span, while the registry moves on, and says what *)
(* one provider's jobs came to.  What it reads may begin in the middle of  *)
(* a job's life.                                                           *)
(*                                                                         *)
(* Bounds: MaxBlock blocks, MaxFaults reads that fail or find no block.    *)
(***************************************************************************)
EXTENDS Integers, Sequences, SequencesExt, FiniteSets

CONSTANTS
    Jobs, Parties,
    Provider,         \* the address asked about
    FirstBlock,       \* JOBS_FROM_BLOCK, where the registry begins
    MaxSpan,          \* JOBS_MAX_SPAN
    Chunk,            \* JOBS_LOG_CHUNK
    NoOne,
    MaxBlock, MaxFaults

JobsAssumption ==
    /\ Provider \in Parties /\ NoOne \notin Parties
    /\ {MaxSpan, Chunk, FirstBlock, MaxBlock} \subseteq Nat \ {0} /\ MaxFaults \in Nat

VARIABLES
    logs,      \* the registry's, oldest first: [name, job, who, block]
    head,
    ask,       \* where the answer to one request has got to
    reply,     \* the last one given, or none
    faults

vars == <<logs, head, ask, reply, faults>>

Blank == [client |-> NoOne, provider |-> NoOne, state |-> "open", by |-> NoOne, verdictAt |-> 0, settledAt |-> 0]
Idle == [stage |-> "idle", from |-> 0, to |-> 0, next |-> 0, got |-> <<>>]
NoReply == [from |-> 0, to |-> 0, truncated |-> FALSE, evidence |-> {}, dropped |-> {}]

------------------------------------------------------------------------------
(* The registry. Every job is made for someone, by someone, with someone to *)
(* judge it; whoever funds it may not be who made it. Logs go to the block  *)
(* being made, which Mine makes the newest.                                 *)

Names(j) == {logs[i].name : i \in {k \in DOMAIN logs : logs[k].job = j}}
LogOf(j, name) == SelectSeq(logs, LAMBDA l : l.job = j /\ l.name = name)[1]
Decided(j) == Names(j) \cap {"JobCompleted", "JobRejected", "JobExpired"} # {}
Emit(seq) == logs' = logs \o seq /\ UNCHANGED <<head, ask, reply, faults>>
Entry(name, j, who) == [name |-> name, job |-> j, who |-> who, block |-> head + 1]

\* JobCreated names its client, its provider and its evaluator.
JobCreated(j) ==
    /\ Names(j) = {}
    /\ \E c \in Parties, p \in Parties, e \in Parties : Emit(<<Entry("JobCreated", j, [client |-> c, provider |-> p, evaluator |-> e])>>)

JobFunded(j) ==
    /\ Names(j) = {"JobCreated"}
    /\ \E c \in Parties : Emit(<<Entry("JobFunded", j, c)>>)

\* The verdict, and with it, in one order or the other, the money.
JobDecided(j) ==
    /\ "JobFunded" \in Names(j) /\ ~Decided(j)
    /\ LET made == LogOf(j, "JobCreated").who
           done == <<Entry("JobCompleted", j, made.evaluator), Entry("PaymentReleased", j, made.provider)>>
           no == <<Entry("JobRejected", j, made.evaluator), Entry("Refunded", j, NoOne)>>
       IN \E seq \in {done, Reverse(done), no, Reverse(no)} : Emit(seq)

\* An expiry says no more of a job than that nobody judged it; a registry may log one after a verdict too.
JobExpired(j) ==
    /\ "JobCreated" \in Names(j) /\ "JobExpired" \notin Names(j)
    /\ Emit(<<Entry("JobExpired", j, NoOne)>>)

Mine ==
    /\ head < MaxBlock /\ head' = head + 1
    /\ UNCHANGED <<logs, ask, reply, faults>>

------------------------------------------------------------------------------
(* Assembly.                                                               *)

\* assembleJobs, one log. The money's own addresses overwrite those a job was made with, and an end without a
\* verdict counts only where there is none yet.
Fold(job, l) ==
    CASE l.name = "JobCreated"      -> [job EXCEPT !.client = l.who.client, !.provider = l.who.provider]
      [] l.name = "JobFunded"       -> [job EXCEPT !.client = l.who]
      [] l.name = "PaymentReleased" -> [job EXCEPT !.provider = l.who]
      [] l.name = "JobCompleted"    -> [job EXCEPT !.state = "completed", !.by = l.who, !.verdictAt = l.block]
      [] l.name = "JobRejected"     -> [job EXCEPT !.state = "rejected", !.by = l.who, !.verdictAt = l.block]
      [] OTHER                      -> [job EXCEPT !.state = IF @ = "open" THEN l.name ELSE @]

\* The records of the jobs some logs tell of, given the blocks whose time was found.
AssembleJobs(seen, timed) ==
    [j \in {seen[i].job : i \in DOMAIN seen} |->
        LET job == FoldLeft(Fold, Blank, SelectSeq(seen, LAMBDA l : l.job = j))
        IN IF job.verdictAt \in timed THEN [job EXCEPT !.settledAt = job.verdictAt] ELSE job]

RejectionReason(job) ==
    CASE job.state \notin {"completed", "rejected"} -> "not_terminal"
      [] job.provider = NoOne                       -> "no_provider"
      [] job.client = NoOne                         -> "no_client"
      [] job.client = job.provider                  -> "self_paid"
      [] job.by = job.provider                      -> "self_evaluated"
      [] job.settledAt = 0                          -> "no_settled_at"
      [] OTHER                                      -> "none"

\* toEvidence: one provider's jobs, those that say something of it and those that do not.
OfProvider(jobs) == {j \in DOMAIN jobs : jobs[j].provider = Provider}
EvidenceOf(jobs) ==
    {[job |-> j, payer |-> jobs[j].client, success |-> jobs[j].state = "completed",
      independent |-> jobs[j].by # jobs[j].client] : j \in {k \in OfProvider(jobs) : RejectionReason(jobs[k]) = "none"}}
DroppedOf(jobs) ==
    {[job |-> j, reason |-> RejectionReason(jobs[j])] : j \in {k \in OfProvider(jobs) : RejectionReason(jobs[k]) # "none"}}

------------------------------------------------------------------------------
(* GET /jobs/<address>.                                                    *)

Most(a, b) == IF a < b THEN b ELSE a
Lowest == Most(0, head - MaxSpan)

\* Whether the look began after the registry did.
Truncated(from) == from > FirstBlock

\* The window: as far back as was asked, or as the registry goes, but no further than the span. One
\* request shares nothing with the next, so one is answered.
Ask ==
    /\ ask.stage = "idle" /\ reply = NoReply
    /\ \E from \in {Most(b, Lowest) : b \in 0..head} \cup {Most(FirstBlock, Lowest)} :
        ask' = [Idle EXCEPT !.stage = "scan", !.from = from, !.to = head, !.next = from]
    /\ UNCHANGED <<logs, head, reply, faults>>

\* scanLogs: one span.
ScanSpan ==
    /\ ask.stage = "scan" /\ ask.next <= ask.to
    /\ LET end == IF ask.next + Chunk - 1 < ask.to THEN ask.next + Chunk - 1 ELSE ask.to
       IN ask' = [ask EXCEPT !.got = @ \o SelectSeq(logs, LAMBDA l : ask.next <= l.block /\ l.block <= end), !.next = end + 1]
    /\ UNCHANGED <<logs, head, reply, faults>>

\* A read that fails is a 502, and the request is over.
ReadFails ==
    /\ ask.stage = "scan" /\ faults < MaxFaults
    /\ ask' = Idle /\ faults' = faults + 1
    /\ UNCHANGED <<logs, head, reply>>

\* The verdicts' blocks are asked for their times, and a node may not have one; then the answer.
Answer ==
    /\ ask.stage = "scan" /\ ask.next > ask.to
    /\ \E timed \in SUBSET {ask.got[i].block : i \in DOMAIN ask.got} :
        LET whole == timed = {ask.got[i].block : i \in DOMAIN ask.got}
            jobs == AssembleJobs(ask.got, timed)
        IN /\ whole \/ faults < MaxFaults
           /\ faults' = IF whole THEN faults ELSE faults + 1
           /\ reply' = [from |-> ask.from, to |-> ask.to, truncated |-> Truncated(ask.from),
                        evidence |-> EvidenceOf(jobs), dropped |-> DroppedOf(jobs)]
    /\ ask' = Idle
    /\ UNCHANGED <<logs, head>>

Init ==
    /\ logs = <<>> /\ head = FirstBlock - 1
    /\ ask = Idle /\ reply = NoReply /\ faults = 0

Next ==
    \/ \E j \in Jobs : JobCreated(j) \/ JobFunded(j) \/ JobDecided(j) \/ JobExpired(j)
    \/ Mine \/ Ask \/ ScanSpan \/ ReadFails \/ Answer

Spec == Init /\ [][Next]_vars

------------------------------------------------------------------------------
(* What it should guarantee.                                               *)

\* What really became of a job by a block, from who paid for it, who was paid and who judged it.
Happened(j, name, by) == \E i \in DOMAIN logs : logs[i].job = j /\ logs[i].name = name /\ logs[i].block <= by
Truth(j, by) ==
    LET made == LogOf(j, "JobCreated").who
        funder == LogOf(j, "JobFunded").who
    IN [provider |-> made.provider, payer |-> funder, judge |-> made.evaluator,
        success |-> Happened(j, "JobCompleted", by)]
Judged(j, by) == Happened(j, "JobCompleted", by) \/ Happened(j, "JobRejected", by)

\* However little of a job's life the window held, what is given as evidence is so: the provider's job, judged so
\* by somebody else, and paid for by the payer named, who is not the provider.
EvidenceIsSo ==
    \A e \in reply.evidence :
        LET t == Truth(e.job, reply.to) IN
        /\ Judged(e.job, reply.to)
        /\ t.provider = Provider /\ t.judge # Provider /\ t.payer # Provider
        /\ e.payer = t.payer /\ e.success = t.success /\ e.independent = (t.judge # t.payer)

\* A look that does not say it was cut short left out none of the provider's judged jobs: each is given, or
\* named with why not.
QuietMeansNothing ==
    reply # NoReply /\ ~reply.truncated =>
        \A j \in Jobs :
            Judged(j, reply.to) /\ Truth(j, reply.to).provider = Provider =>
                \E r \in reply.evidence \cup reply.dropped : r.job = j

JobsInv == EvidenceIsSo /\ QuietMeansNothing

==============================================================================
