------------------------------ MODULE MCAnswers ------------------------------
(***************************************************************************)
(* What the oracle answers: the signer, the rate limiter and the badge     *)
(* cache, the outcomes a payer posts, the explorer's evidence and an       *)
(* agent's escrow jobs. They share a run and nothing else: focus names the *)
(* one that moves.                                                         *)
(***************************************************************************)
EXTENDS SigvaraSigner, TLC

CONSTANTS
    x, op, Unset, Clients, Callers, Posts, Others

\* A payment its operator paid into, one of a customer alone, one of the operator alone.
MCLegs == "t" :> <<x, op>> @@ "u" :> <<x>> @@ "v" :> <<op>>

\* Requests, Clients, Callers, Posts and Others are given the same two values, which are as good as values of
\* their own where one component moves, and one permutation swaps them for all.
Symmetry == Permutations(Requests)

VARIABLES
    focus,      \* the component that moves; the others stay as they start
    limiterNow, limiterBuckets, limiterLastSweep, limiterAsked, limiterStanding, limiterSince,
    limiterBadges, limiterReads, limiterShown, limiterMoves, attestNow, attestStore,
    attestDisk, attestRoomy, attestTurns, attestReq, servingNow, servingStored, servingMemo,
    servingCache, servingTotalBytes, servingArrays, servingServed, jobsLogs, jobsHead, jobsAsk,
    jobsReply, jobsFaults

Limiter == INSTANCE SigvaraLimiter WITH
    Clients <- Clients, Classes <- {"read", "write"}, Window <- 2, Quota <- 1, Kept <- 2,
    KeptUnavailable <- 1, MaxEntries <- 1, Addresses <- Callers, MaxRead <- 1, MaxTime <- 4,
    MaxAsked <- 3, MaxMoves <- 1, now <- limiterNow, buckets <- limiterBuckets,
    lastSweep <- limiterLastSweep, asked <- limiterAsked, standing <- limiterStanding,
    since <- limiterSince, badges <- limiterBadges, reads <- limiterReads,
    shown <- limiterShown, moves <- limiterMoves

Attest == INSTANCE SigvaraAttest WITH
    Requests <- Posts, Legs <- MCLegs, OwnOperator <- op, Cooldown <- 1, MaxTime <- 2,
    MaxTurns <- 1, None <- Unset, clock <- attestNow, memory <- attestStore, disk <- attestDisk,
    roomy <- attestRoomy, turns <- attestTurns, req <- attestReq

Serving == INSTANCE SigvaraServing WITH
    Agents <- {"a", "b"}, Payments <- {"p", "q"}, MaxBytes <- 4, MaxArrays <- 5, MaxTime <- 2,
    now <- servingNow, stored <- servingStored, memo <- servingMemo, cache <- servingCache,
    totalBytes <- servingTotalBytes, arrays <- servingArrays, served <- servingServed

EscrowJobs == INSTANCE SigvaraJobs WITH
    Jobs <- {"j"}, Parties <- {"m"} \cup Others, Provider <- "m", FirstBlock <- 1, MaxSpan <- 2,
    Chunk <- 2, NoOne <- "none", MaxBlock <- 3, MaxFaults <- 1, logs <- jobsLogs,
    head <- jobsHead, ask <- jobsAsk, reply <- jobsReply, faults <- jobsFaults

ASSUME Limiter!LimiterAssumption
ASSUME Attest!AttestAssumption
ASSUME Serving!ServingAssumption
ASSUME EscrowJobs!JobsAssumption

limiterVars ==
    <<limiterNow, limiterBuckets, limiterLastSweep, limiterAsked, limiterStanding,
      limiterSince, limiterBadges, limiterReads, limiterShown, limiterMoves>>
attestVars ==
    <<attestNow, attestStore, attestDisk, attestRoomy, attestTurns, attestReq>>
servingVars ==
    <<servingNow, servingStored, servingMemo, servingCache, servingTotalBytes, servingArrays,
      servingServed>>
jobsVars ==
    <<jobsLogs, jobsHead, jobsAsk, jobsReply, jobsFaults>>
runVars == <<focus, vars, limiterVars, attestVars, servingVars, jobsVars>>

RunInit ==
    /\ focus \in {"signer", "limiter", "attest", "serving", "jobs"}
    /\ Init /\ (focus = "signer" \/ maxPerHour = CHOOSE cap \in Caps : TRUE)
    /\ Limiter!Init
    /\ Attest!AttestInit /\ (focus = "attest" \/ attestRoomy)
    /\ Serving!Init
    /\ EscrowJobs!Init

RunNext ==
    \/ focus = "signer" /\ Next /\ UNCHANGED <<focus, limiterVars, attestVars, servingVars, jobsVars>>
    \/ focus = "limiter" /\ Limiter!Next /\ UNCHANGED <<focus, vars, attestVars, servingVars, jobsVars>>
    \/ focus = "attest" /\ Attest!AttestNext /\ UNCHANGED <<focus, vars, limiterVars, servingVars, jobsVars>>
    \/ focus = "serving" /\ Serving!Next /\ UNCHANGED <<focus, vars, limiterVars, attestVars, jobsVars>>
    \/ focus = "jobs" /\ EscrowJobs!Next /\ UNCHANGED <<focus, vars, limiterVars, attestVars, servingVars>>

RunSpec == RunInit /\ [][RunNext]_runVars

------------------------------------------------------------------------------
\* A client is refused for its own requests and a badge is no older than it may be (http-helpers.js,
\* response-cache.js); a payer's answer is on disk once it was told so (index.js, POST /attest); the explorer
\* is served what counts (evidence-as-of.js); a job is told as its escrow settled it (index.js, GET /jobs).
AnswersInv ==
    /\ focus = "limiter" => Limiter!LimiterInv
    /\ focus = "attest" => Attest!AttestInv
    /\ focus = "serving" => Serving!ServingInv
    /\ focus = "jobs" => EscrowJobs!JobsInv
==============================================================================
