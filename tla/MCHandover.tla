----------------------------- MODULE MCHandover -----------------------------
(***************************************************************************)
(* Handover: an agent is sold, deposits fall short of what was sent, and   *)
(* an upgraded proxy holds an exit queued before claim times were          *)
(* recorded. Beside it the keys oracle operators sign with and the scores  *)
(* proposed with them. They share a run and a clock, and nothing else:     *)
(* focus names the one that moves.                                         *)
(***************************************************************************)
EXTENDS SigvaraStaking, SigvaraOracleBond

CONSTANTS
    d1, o1, k1

OneListed == <<d1>>
OneSigns == [o \in {o1} |-> k1]

VARIABLES
    focus,      \* the component that moves; the other stays as it starts
    reputations, evidenceRoots, pendingScores, maturedScore, maturedAt, challengeWindow,
    maturityRatePerDay, operatorBondSet, oracles, identitySet, scored, soldAt

\* The scores the keys speak for.
Keys == INSTANCE SigvaraReputation WITH
    MaxTime <- 2, Proposals <- {[score |-> 1, root |-> "r1"]}, NoRoot <- "none", DAY <- 3,
    MIN_CHALLENGE_WINDOW <- 1, MAX_CHALLENGE_WINDOW <- 1, Windows <- {1},
    MAX_MATURITY_RATE_PER_DAY <- 4, Rates <- {0}, InitialRates <- {0}, LegacyPending <- {},
    LastProposal <- 1, standing <- scored, operatorChangedAt <- soldAt

ASSUME Keys!ReputationAssumption

scoresVars ==
    <<reputations, evidenceRoots, pendingScores, maturedScore, maturedAt, challengeWindow,
      maturityRatePerDay, operatorBondSet, oracles, identitySet, scored, soldAt>>
runVars == <<focus, vars, bondRegistryVars, scoresVars>>

RunInit ==
    /\ focus \in {"handover", "keys"}
    /\ Init /\ (focus = "handover" \/ (stakeView = StakingCore /\ committee = {} /\ stakes[d1].unbondingAmount = 0))
    /\ BondRegistryInit /\ Keys!ReputationInit
    /\ (focus = "keys" \/ (operatorBondSet /\ identitySet /\ activeCount = 1))

RunNext ==
    \/ focus = "handover" /\ Next /\ UNCHANGED <<focus, bondRegistryVars, scoresVars>>
    \/ focus = "keys" /\ Keys!Next /\ UNCHANGED <<focus, identityVars, stakingVars>>

RunSpec == RunInit /\ [][RunNext]_runVars

------------------------------------------------------------------------------
\* A score goes live on the word of the operator it was proposed for (SigvaraReputation._proposerStillAuthorized,
\* SigvaraOracleBond.setSigner).
ScoresSpeakForTheirOperator == Keys!ScoresSpeakForTheirOperator
==============================================================================
