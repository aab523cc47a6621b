------------------------------ MODULE MCScores ------------------------------
(***************************************************************************)
(* Scores: the registry that holds a proposed score for a window before it *)
(* counts, the evidence a proposal is computed from with the payers' own   *)
(* standing, and the weight a reviewer has. They share a run and nothing   *)
(* else: focus names the one that moves.                                   *)
(***************************************************************************)
EXTENDS SigvaraReputation

CONSTANTS
    r1, r2

NobodySigns == [o \in LegacyOperators |-> NoAddress]
LowAndHigh == {[score |-> 2, root |-> r1], [score |-> 5, root |-> r2]}

\* Three reviewers. One operator runs the last two; a wallet that funded the second may fund the first.
MCReviewers == <<"r1", "r3", "r2">>
MCOperatorOf == [a \in {"r1", "r2", "r3"} |-> IF a = "r1" THEN "o1" ELSE "o2"]
MCRating == [a \in {"r1", "r2", "r3"} |-> IF a = "r2" THEN 4 ELSE 3]
Move(kind, from, to, value) == [kind |-> kind, from |-> from, to |-> to, value |-> value]
MCPast ==
    <<Move("send", "t", "r2", 2), Move("pay", "r2", "agent", 1),
      Move("send", "u", "r3", 2), Move("pay", "r3", "agent", 1)>>
MCMoves ==
    {Move("send", "t", "r1", 3), Move("send", "u", "r1", 1), Move("pay", "r1", "agent", 2),
     Move("send", "u", "r1", 2), Move("permit", "r1", "x", 3), Move("standing", "r2", "none", 0)}
MCStamps == <<0, 0, 0, 0, 1, 2, 2, 3>>

VARIABLES
    focus,      \* the component that moves; the others stay as they start
    factorsNow, factorsEvents, factorsStanding, factorsCache, factorsReading, factorsUsed,
    factorsSince, factorsMoves, factorsFaults, readingNow, readingEvents, readingStanding,
    readingCache, readingReading, readingUsed, readingSince, readingMoves, readingFaults,
    reviewsBlocks, reviewsRuns, reviewsScores, reviewsFaults

Factors == INSTANCE SigvaraScoring WITH
    Payers <- {"p", "q"}, Amounts <- {16}, Outcomes <- {"good", "bad", "none"}, Requests <- {},
    FeeUnit <- 8, MaxPerPayer <- 1, MaxHard <- 5, TrustWeight <- 1, ChunkSize <- 2,
    HalfLifeDays <- 90, MaxTime <- 2, MaxPaid <- 3, MaxMoves <- 0, MaxFaults <- 0,
    now <- factorsNow, events <- factorsEvents, standing <- factorsStanding,
    cache <- factorsCache, reading <- factorsReading, used <- factorsUsed,
    since <- factorsSince, moves <- factorsMoves, faults <- factorsFaults

Reading == INSTANCE SigvaraScoring WITH
    Payers <- {"p", "q"}, Amounts <- {8}, Outcomes <- {"none"}, Requests <- {"epoch", "query"},
    FeeUnit <- 8, MaxPerPayer <- 2, MaxHard <- 5, TrustWeight <- 1, ChunkSize <- 1,
    HalfLifeDays <- 90, MaxTime <- 0, MaxPaid <- 2, MaxMoves <- 2, MaxFaults <- 1,
    now <- readingNow, events <- readingEvents, standing <- readingStanding,
    cache <- readingCache, reading <- readingReading, used <- readingUsed,
    since <- readingSince, moves <- readingMoves, faults <- readingFaults

Reviews == INSTANCE SigvaraReviewers WITH
    Operators <- {"primary", "checker"}, Reviewers <- MCReviewers, OperatorOf <- MCOperatorOf,
    Own <- {"agent", "owner"}, PublicFunders <- {}, Rich <- {"t", "u"}, Rating <- MCRating,
    Past <- MCPast, Moves <- MCMoves, Stamps <- MCStamps, Day <- 2, Floor <- 2,
    FullWeight <- 2, MaxFaults <- 1, blocks <- reviewsBlocks, runs <- reviewsRuns,
    scores <- reviewsScores, faults <- reviewsFaults

ASSUME Factors!ScoringAssumption
ASSUME Reading!ScoringAssumption
ASSUME Reviews!ReviewersAssumption

factorsVars ==
    <<factorsNow, factorsEvents, factorsStanding, factorsCache, factorsReading, factorsUsed,
      factorsSince, factorsMoves, factorsFaults>>
readingVars ==
    <<readingNow, readingEvents, readingStanding, readingCache, readingReading, readingUsed,
      readingSince, readingMoves, readingFaults>>
reviewsVars ==
    <<reviewsBlocks, reviewsRuns, reviewsScores, reviewsFaults>>
runVars == <<focus, vars, factorsVars, readingVars, reviewsVars>>

RunInit ==
    /\ focus \in {"registry", "factors", "reading", "reviews"}
    /\ Init /\ (focus = "registry" \/ (challengeWindow = 1 /\ maturityRatePerDay = 4 /\ operatorBondSet /\ identitySet /\ pendingScores[CHOOSE d \in Agents : TRUE].root = r1))
    /\ Factors!Init /\ (focus = "factors" \/ factorsStanding = [p \in {"p", "q"} |-> 0])
    /\ Reading!Init /\ (focus = "reading" \/ readingStanding = [p \in {"p", "q"} |-> 0])
    /\ Reviews!Init

RunNext ==
    \/ focus = "registry" /\ Next /\ UNCHANGED <<focus, factorsVars, readingVars, reviewsVars>>
    \/ focus = "factors" /\ Factors!Next /\ UNCHANGED <<focus, vars, readingVars, reviewsVars>>
    \/ focus = "reading" /\ Reading!Next /\ UNCHANGED <<focus, vars, factorsVars, reviewsVars>>
    \/ focus = "reviews" /\ Reviews!Next /\ UNCHANGED <<focus, vars, factorsVars, readingVars>>

RunSpec == RunInit /\ [][RunNext]_runVars

------------------------------------------------------------------------------
\* A score is bounded by the evidence behind it and moves with the outcomes (scoring.js), and an epoch scores
\* with a standing every payer had while it read them (index.js payerScores).
ScoresFollowEvidence ==
    Factors!EvidenceBounds /\ Factors!OutcomesSpeak /\ Reading!EpochKnowsPayers

\* Two operators that read the same blocks give the reviews the same weight, and nobody counts twice
\* (reviewers.js).
ReviewersInv == focus = "reviews" => Reviews!OperatorsAgree /\ Reviews!FunderIsAFirst /\ Reviews!PartiesCountOnce
==============================================================================
