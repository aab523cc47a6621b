------------------------------ MODULE MCWaysOut ------------------------------
(***************************************************************************)
(* Ways out: an accused agent is released and a queued exit is claimed,    *)
(* whoever stays idle. Beside it the bonds of the oracle's operators, who  *)
(* leave too. They share a run and a clock, and nothing else: focus names  *)
(* the one that moves.                                                     *)
(***************************************************************************)
EXTENDS SigvaraStaking, SigvaraOracleBond

CONSTANTS
    d1, o1, k1

OneSigns == [o \in {o1} |-> k1]

VARIABLES
    focus       \* the component that moves; the other stays as it starts

\* The bonds, on a shorter clock.
Bonds == INSTANCE SigvaraOracleBond WITH MaxTime <- 4, Registries <- {"bond"}

runVars == <<focus, vars, bondRegistryVars>>

RunInit ==
    /\ focus \in {"staking", "bonds"}
    /\ Init /\ (focus = "staking" \/ (minimumStake = 1 /\ committee = {}))
    /\ BondRegistryInit
    /\ (focus = "bonds" \/ (activeCount = 1 /\ bondAmount = 1 /\ bondPeriod = 1 /\ slashers = {} /\ slashBeneficiary = CHOOSE x \in Officials : TRUE))

RunNext ==
    \/ /\ focus = "staking" /\ Next /\ UNCHANGED <<focus, bondRegistryVars>>
       /\ pausedUntil'["bond"] = pausedUntil["bond"]
    \/ focus = "bonds" /\ Bonds!OracleBondNext /\ UNCHANGED <<focus, identityVars, stakingVars>>

\* The fairness each component has when it is the one that moves.
RunSpec ==
    /\ RunInit /\ [][RunNext]_runVars
    /\ WF_vars(focus = "staking" /\ Tick /\ UNCHANGED <<identityVars, stakingVars>>)
    /\ WF_vars(focus = "staking" /\ (\E d \in Agents : ExpireDispute(d)))
    /\ WF_vars(focus = "staking" /\ (\E d \in Agents : ExpireSlash(d)))
    /\ SF_vars(focus = "staking" /\ (\E d \in Agents, caller \in Accounts : ClaimWithdrawal(d, caller)))
    /\ WF_oracleBondVars(focus = "bonds" /\ Bonds!Tick /\ UNCHANGED bondRegistryVars)
    /\ \A a \in Addresses : WF_oracleBondVars(focus = "bonds" /\ WithdrawBond(a))

------------------------------------------------------------------------------
\* Whoever stays idle and whenever the guardian pauses, a freeze ends and a queued exit leaves the queue
\* (SigvaraStaking.expireDispute, expireSlash, claimWithdrawal).
FreezesAndExitsEnd == FrozenEventuallyReleased /\ ExitEventuallyLeaves

\* A leaving operator's time is fixed when it starts to leave, its bond is nobody else's, and it is let go
\* (SigvaraOracleBond.initiateUnbond, withdrawBond).
LeaversArePaid == ExitIsPatient /\ LeaversLeave
==============================================================================
