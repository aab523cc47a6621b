----------------------------- MODULE MCSlashing -----------------------------
(***************************************************************************)
(* Slashing: one agent through every order of deposits, exits,             *)
(* accusations, rulings and settings. Beside it the identity registry with *)
(* two agents and a staking core that does anything, and the fee vault.    *)
(* They share a run and nothing else: focus names the one that moves.      *)
(***************************************************************************)
EXTENDS SigvaraStaking

VARIABLES
    focus,      \* the component that moves; the others stay as they start
    registryNow, registryPausedUntil, registryLastPausedAt, registryIdentities,
    registrySlashSuspended, registryStakeView, registryInitializedVersion,
    registryPendingOperator, registryOperatorChangedAt, registryOperatorTransferCount,
    registryOperatorAgents, registryOperatorAgentIndex, feesNow, feesPausedUntil,
    feesLastPausedAt, feesOperators, feesClaimableAt, feesSignerOf, feesOperatorOfSigner,
    feesBoundTo, feesActiveCount, feesBondAmount, feesBondPeriod, feesSlashBeneficiary,
    feesSlashers, feesHeld, feesPrepaid, feesCollected, feesEpochFee, feesStage,
    feesEpochLength, feesFeeBondSet, feesLastChargedAt, feesFeeVersion, feesFeeOracles,
    feesVault, feesAgentOperator, feesDeposited, feesLengthSetAt, feesDrawn

Registry == INSTANCE SigvaraIdentity WITH
    Registries <- {"identity"}, Guardians <- {"g1"}, PAUSE_DURATION <- 1, PAUSE_COOLDOWN <- 1,
    MaxTime <- 2, Agents <- {"d1", "d2"}, Accounts <- {"op1", "op2"}, NoAccount <- "nobody",
    PubKeys <- {"k1", "k2"}, StakingCore <- "staking", StakeViews <- {"staking"},
    LegacyList <- <<"d1">>, LegacyOperator <- "op1", MaxTransfers <- 2, now <- registryNow,
    pausedUntil <- registryPausedUntil, lastPausedAt <- registryLastPausedAt,
    identities <- registryIdentities, slashSuspended <- registrySlashSuspended,
    stakeView <- registryStakeView, initializedVersion <- registryInitializedVersion,
    pendingOperator <- registryPendingOperator, operatorChangedAt <- registryOperatorChangedAt,
    operatorTransferCount <- registryOperatorTransferCount,
    operatorAgents <- registryOperatorAgents, operatorAgentIndex <- registryOperatorAgentIndex

Fees == INSTANCE SigvaraEpochFees WITH
    Registries <- {"bond"}, Guardians <- {}, PAUSE_DURATION <- 1, PAUSE_COOLDOWN <- 1,
    MaxTime <- 3, Addresses <- {"k1"}, NoAddress <- "nobody", Officials <- {"f1"},
    BondDeposits <- {1}, BondAmounts <- {1, 2}, BondPeriods <- {1}, MIN_BOND_UNBONDING <- 1,
    MAX_BOND_UNBONDING <- 1, MaxBond <- 1, LastExit <- 0, LegacyOperators <- {"k1"},
    LegacySigner <- [o \in {"k1"} |-> "nobody"], PayingAgents <- {"d1"}, AgentOperators <- {"op1"},
    Nobody <- "nobody", FeeDeposits <- {3}, FeeWithdrawals <- {1}, MaxFees <- 3,
    Fees <- {1, 2}, EpochLengths <- {1, 2, 3}, MIN_EPOCH_LENGTH <- 2,
    BurnShare <- [Bootstrap |-> 0, Transition |-> 2, Mature |-> 5], BURN_PARTS <- 10,
    now <- feesNow, pausedUntil <- feesPausedUntil, lastPausedAt <- feesLastPausedAt,
    operators <- feesOperators, claimableAt <- feesClaimableAt, signerOf <- feesSignerOf,
    operatorOfSigner <- feesOperatorOfSigner, boundTo <- feesBoundTo,
    activeCount <- feesActiveCount, bondAmount <- feesBondAmount, bondPeriod <- feesBondPeriod,
    slashBeneficiary <- feesSlashBeneficiary, slashers <- feesSlashers, held <- feesHeld,
    prepaid <- feesPrepaid, collected <- feesCollected, epochFee <- feesEpochFee,
    stage <- feesStage, epochLength <- feesEpochLength, feeBondSet <- feesFeeBondSet,
    lastChargedAt <- feesLastChargedAt, feeVersion <- feesFeeVersion,
    feeOracles <- feesFeeOracles, vault <- feesVault, agentOperator <- feesAgentOperator,
    deposited <- feesDeposited, lengthSetAt <- feesLengthSetAt, drawn <- feesDrawn

ASSUME Fees!EpochFeesAssumption

registryVars ==
    <<registryNow, registryPausedUntil, registryLastPausedAt, registryIdentities,
      registrySlashSuspended, registryStakeView, registryInitializedVersion,
      registryPendingOperator, registryOperatorChangedAt, registryOperatorTransferCount,
      registryOperatorAgents, registryOperatorAgentIndex>>
feesVars ==
    <<feesNow, feesPausedUntil, feesLastPausedAt, feesOperators, feesClaimableAt, feesSignerOf,
      feesOperatorOfSigner, feesBoundTo, feesActiveCount, feesBondAmount, feesBondPeriod,
      feesSlashBeneficiary, feesSlashers, feesHeld, feesPrepaid, feesCollected, feesEpochFee,
      feesStage, feesEpochLength, feesFeeBondSet, feesLastChargedAt, feesFeeVersion,
      feesFeeOracles, feesVault, feesAgentOperator, feesDeposited, feesLengthSetAt, feesDrawn>>
runVars == <<focus, vars, registryVars, feesVars>>

RunInit ==
    /\ focus \in {"slashing", "registry", "fees"}
    /\ Init /\ (focus = "slashing" \/ (minimumStake = 1 /\ challengePeriod = 1 /\ unbondingPeriod = 1 /\ committee = {}))
    /\ (\E view \in {"staking", "nobody"} : Registry!IdentityInit(view)) /\ (focus = "registry" \/ registryStakeView = "staking")
    /\ Fees!FeesInit /\ (focus = "fees" \/ (feesEpochFee = 1 /\ feesFeeOracles = {} /\ feesSlashers = {} /\ feesBondAmount = 1 /\ feesActiveCount = 1))

RunNext ==
    \/ focus = "slashing" /\ Next /\ UNCHANGED <<focus, registryVars, feesVars>>
    \/ focus = "registry" /\ Registry!IdentityNext /\ UNCHANGED <<focus, vars, feesVars>>
    \/ focus = "fees" /\ Fees!FeesNext /\ UNCHANGED <<focus, vars, registryVars>>

RunSpec == RunInit /\ [][RunNext]_runVars

------------------------------------------------------------------------------
\* The lists of an operator's agents and the positions kept beside them agree, entries from before positions
\* were kept included (SigvaraIdentity._removeFromOperatorIndex, _pushToOperatorIndex).
ListsAreExact == focus = "registry" => Registry!OperatorIndexExact

\* The three books of the vault add up, and no agent is charged faster than once an epoch (SigvaraEpochFees).
EpochFeesInv == focus = "fees" => Fees!EpochFeesInv
==============================================================================
