--------------------------- MODULE SigvaraEpochFees ---------------------------
(***************************************************************************)
(* src/SigvaraEpochFees.sol: prepaid fees, charged by the oracle at most   *)
(* once per agent and epoch, and swept to a reward pool and a burn.  The   *)
(* module extends the oracle bond registry, which says whether a charging  *)
(* key is an active operator's.  The identity registry appears as the      *)
(* operator it names for each agent.                                       *)
(***************************************************************************)
EXTENDS SigvaraOracleBond

CONSTANTS
    PayingAgents,           \* the agents an oracle may charge
    AgentOperators,         \* accounts the identity registry may name for an agent
    Nobody,                 \* its answer for an agent that is not registered
    FeeDeposits,            \* what one deposit may bring
    FeeWithdrawals,         \* what one withdrawal may ask for
    MaxFees,                \* bound: all fees ever deposited
    Fees,                   \* what the admin may ask epochFee to be
    EpochLengths,           \* what the admin may ask epochLength to be
    MIN_EPOCH_LENGTH,
    BurnShare,              \* [Stage -> parts of BURN_PARTS that are burned]
    BURN_PARTS

Stage == {"Bootstrap", "Transition", "Mature"}

EpochFeesAssumption ==
    /\ FeeDeposits \subseteq Nat /\ FeeWithdrawals \subseteq Nat /\ MaxFees \in Nat
    /\ Fees \subseteq Nat /\ EpochLengths \subseteq Nat
    /\ MIN_EPOCH_LENGTH \in Nat \ {0} /\ BURN_PARTS \in Nat \ {0}
    /\ BurnShare \in [Stage -> 0..BURN_PARTS]
    /\ Nobody \notin AgentOperators
    /\ IsFiniteSet(PayingAgents)

VARIABLES
    prepaid,             \* balance: [PayingAgents -> fees not yet charged]
    collected,           \* charged, not yet distributed
    epochFee, stage,
    epochLength,         \* 0 until set
    feeBondSet,          \* operatorBond # address(0)
    lastChargedAt,       \* [PayingAgents -> time, 0 if never]
    feeVersion,          \* what reinitializer(n) has consumed
    feeOracles,          \* holders of ORACLE_ROLE
    vault,               \* svr.balanceOf(this)
    agentOperator,       \* [PayingAgents -> account], in the identity registry
    deposited,           \* history: all that was ever deposited, for its bound
    lengthSetAt,         \* history: when epochLength last changed
    drawn                \* history: [PayingAgents -> fees charged since then]

feeVars == <<prepaid, collected, epochFee, stage, epochLength, feeBondSet, lastChargedAt,
             feeVersion, feeOracles, vault, agentOperator, deposited, lengthSetAt, drawn>>
epochFeesVars == <<oracleBondVars, feeVars>>

\* Mutant: a charge in the epoch of the last one is let through.
AlreadyCharged_Later(d) ==
    lastChargedAt[d] # 0 /\ lastChargedAt[d] \div epochLength > now \div epochLength

\* Whether the agent was charged in the epoch that runs now, as epochs are counted now.
AlreadyCharged(d) ==
    lastChargedAt[d] # 0 /\ lastChargedAt[d] \div epochLength >= now \div epochLength

------------------------------------------------------------------------------

DepositFor(d, received) ==
    /\ deposited + received <= MaxFees
    /\ agentOperator[d] # Nobody
    /\ prepaid' = [prepaid EXCEPT ![d] = @ + received]
    /\ vault' = vault + received
    /\ deposited' = deposited + received
    /\ UNCHANGED <<oracleBondVars, collected, epochFee, stage, epochLength, feeBondSet,
                   lastChargedAt, feeVersion, feeOracles, agentOperator, lengthSetAt, drawn>>

Withdraw(d, caller, amount) ==
    /\ caller = agentOperator[d]
    /\ amount # 0 /\ amount <= prepaid[d]
    /\ prepaid' = [prepaid EXCEPT ![d] = @ - amount]
    /\ vault' = vault - amount
    /\ UNCHANGED <<oracleBondVars, collected, epochFee, stage, epochLength, feeBondSet,
                   lastChargedAt, feeVersion, feeOracles, agentOperator, deposited, lengthSetAt, drawn>>

\* chargeEpoch with a fee set; with none it changes nothing.
ChargeEpoch(d, caller) ==
    /\ caller \in feeOracles
    /\ epochFee # 0
    /\ feeBondSet => IsActiveOperator(caller)
    /\ epochLength # 0
    /\ ~AlreadyCharged(d)
    /\ prepaid[d] >= epochFee
    /\ prepaid' = [prepaid EXCEPT ![d] = @ - epochFee]
    /\ lastChargedAt' = [lastChargedAt EXCEPT ![d] = now]
    /\ collected' = collected + epochFee
    /\ drawn' = [drawn EXCEPT ![d] = @ + epochFee]
    /\ UNCHANGED <<oracleBondVars, epochFee, stage, epochLength, feeBondSet, feeVersion, feeOracles, vault,
                   agentOperator, deposited, lengthSetAt>>

\* The burned part is rounded down and the pool takes what is left.
ToBurn(amount) == (amount * BurnShare[stage]) \div BURN_PARTS
ToPool(amount) == amount - ToBurn(amount)

DistributeFees ==
    /\ collected # 0
    /\ collected' = 0
    /\ vault' = vault - ToPool(collected) - ToBurn(collected)
    /\ UNCHANGED <<oracleBondVars, prepaid, epochFee, stage, epochLength, feeBondSet,
                   lastChargedAt, feeVersion, feeOracles, agentOperator, deposited, lengthSetAt, drawn>>

FeeSettingFrame ==
    UNCHANGED <<oracleBondVars, prepaid, collected, lastChargedAt, vault, agentOperator,
                deposited>>

SetEpochFee(newFee) ==
    /\ epochFee' = newFee
    /\ FeeSettingFrame
    /\ UNCHANGED <<stage, epochLength, feeBondSet, feeVersion, feeOracles, lengthSetAt, drawn>>

SetStage(newStage) ==
    /\ stage' = newStage
    /\ FeeSettingFrame
    /\ UNCHANGED <<epochFee, epochLength, feeBondSet, feeVersion, feeOracles, lengthSetAt, drawn>>

SetEpochLength(newLength) ==
    /\ newLength >= MIN_EPOCH_LENGTH
    /\ epochLength' = newLength
    /\ lengthSetAt' = now
    /\ drawn' = [d \in PayingAgents |-> 0]
    /\ FeeSettingFrame
    /\ UNCHANGED <<epochFee, stage, feeBondSet, feeVersion, feeOracles>>

\* Length and registry in one call, once.
InitializeFeesV2(newLength, set) ==
    /\ feeVersion = 1
    /\ feeVersion' = 2
    /\ newLength >= MIN_EPOCH_LENGTH
    /\ epochLength' = newLength
    /\ feeBondSet' = set
    /\ lengthSetAt' = now
    /\ drawn' = [d \in PayingAgents |-> 0]
    /\ FeeSettingFrame
    /\ UNCHANGED <<epochFee, stage, feeOracles>>

\* setOperatorBond: the one registry, or none.
SetFeeBond(set) ==
    /\ feeBondSet' = set
    /\ FeeSettingFrame
    /\ UNCHANGED <<epochFee, stage, epochLength, feeVersion, feeOracles, lengthSetAt, drawn>>

\* grantRole and revokeRole of ORACLE_ROLE.
SetFeeOracle(k, holds) ==
    /\ feeOracles' = IF holds THEN feeOracles \cup {k} ELSE feeOracles \ {k}
    /\ FeeSettingFrame
    /\ UNCHANGED <<epochFee, stage, epochLength, feeBondSet, feeVersion, lengthSetAt, drawn>>

\* registerAgent and acceptOperatorTransfer in the identity registry.
AgentGetsOperator(d, account) ==
    /\ agentOperator' = [agentOperator EXCEPT ![d] = account]
    /\ UNCHANGED <<oracleBondVars, prepaid, collected, epochFee, stage, epochLength, feeBondSet,
                   lastChargedAt, feeVersion, feeOracles, vault, deposited, lengthSetAt, drawn>>

------------------------------------------------------------------------------
(* The specification.                                                      *)

EpochFeesInit ==
    /\ prepaid = [d \in PayingAgents |-> 0]
    /\ collected = 0
    /\ epochFee \in Fees
    /\ stage = "Bootstrap"
    /\ epochLength = 0
    /\ feeBondSet = FALSE
    /\ feeVersion = 1
    /\ lastChargedAt = [d \in PayingAgents |-> 0]
    /\ feeOracles \in SUBSET Addresses
    /\ vault = 0
    /\ agentOperator = [d \in PayingAgents |-> Nobody]
    /\ deposited = 0
    /\ lengthSetAt = now
    /\ drawn = [d \in PayingAgents |-> 0]

FeesInit == GuardInit /\ BondRegistryInit /\ EpochFeesInit

FeeSettings ==
    \/ \E f \in Fees : SetEpochFee(f)
    \/ \E s \in Stage : SetStage(s)
    \/ \E n \in EpochLengths : SetEpochLength(n)
    \/ \E n \in EpochLengths, set \in BOOLEAN : InitializeFeesV2(n, set)
    \/ \E set \in BOOLEAN : SetFeeBond(set)
    \/ \E k \in Addresses, holds \in BOOLEAN : SetFeeOracle(k, holds)

FeesNext ==
    \/ OracleBondNext /\ UNCHANGED feeVars
    \/ FeeSettings
    \/ DistributeFees
    \/ \E d \in PayingAgents :
           \/ \E received \in FeeDeposits : DepositFor(d, received)
           \/ \E caller \in AgentOperators, amount \in FeeWithdrawals : Withdraw(d, caller, amount)
           \/ \E caller \in Addresses : ChargeEpoch(d, caller)
           \/ \E account \in AgentOperators : AgentGetsOperator(d, account)

FeesSpec == FeesInit /\ [][FeesNext]_epochFeesVars

------------------------------------------------------------------------------
(* What must always hold.                                                  *)

EpochFeesTypeOK ==
    /\ prepaid \in [PayingAgents -> Nat] /\ collected \in Nat /\ epochFee \in Fees
    /\ stage \in Stage
    /\ epochLength \in {0} \cup {n \in EpochLengths : n >= MIN_EPOCH_LENGTH}
    /\ feeBondSet \in BOOLEAN /\ feeVersion \in {1, 2}
    /\ lastChargedAt \in [PayingAgents -> Nat]
    /\ feeOracles \subseteq Addresses
    /\ vault \in Int
    /\ agentOperator \in [PayingAgents -> AgentOperators \cup {Nobody}]
    /\ lengthSetAt \in 1..now
    /\ drawn \in [PayingAgents -> Nat]

\* The token held is what agents have prepaid and what awaits distribution, exactly: a
\* shortfall would fall on whoever withdraws last.
FeesBacked == vault = Total(prepaid) + collected

\* Epochs begun from the one in which the length was set to the one of moment t.
EpochsBegun(t) == 1 + (t \div epochLength) - (lengthSetAt \div epochLength)

\* However often a key calls, in whatever order with restarts, deposits and fee changes,
\* an agent pays at most the highest fee once for each epoch that has begun since the
\* length was set.
DrainIsMetered ==
    epochLength # 0 => \A d \in PayingAgents : \E fee \in Fees : drawn[d] <= fee * EpochsBegun(now)

\* What was drawn was drawn by the last charge, which is after the length was set.
ChargesAreSpaced ==
    \A d \in PayingAgents :
        /\ lastChargedAt[d] <= now
        /\ drawn[d] # 0 =>
               /\ epochLength # 0 /\ lastChargedAt[d] >= lengthSetAt
               /\ \E fee \in Fees : drawn[d] <= fee * EpochsBegun(lastChargedAt[d])

\* Settings in their bounds, the books covered, and no agent charged faster than once an epoch.
EpochFeesInv == EpochFeesTypeOK /\ FeesBacked /\ ChargesAreSpaced /\ DrainIsMetered
==============================================================================
