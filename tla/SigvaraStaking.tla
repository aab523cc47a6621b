---------------------------- MODULE SigvaraStaking ----------------------------
(***************************************************************************)
(* src/SigvaraStaking.sol: the bonds behind agents, the exit queue, and    *)
(* the slash proposals that freeze, release or settle a bond.  The module  *)
(* extends the identity registry, because every proposal moves the agent's *)
(* status there, and every status change to Active reads the bond here:    *)
(* the two contracts are one state machine.                                *)
(*                                                                         *)
(* A call is one atomic step (every entry point is nonReentrant and a      *)
(* transaction is atomic); what interleaves is the calls of the operator,  *)
(* the committee, the admin, strangers and the clock.  The evidence hash   *)
(* is an element of Evidence.  The token moves exactly what it is told to, *)
(* but a deposit is credited with whatever arrived.                        *)
(***************************************************************************)
EXTENDS SigvaraIdentity, Tokens

CONSTANTS
    Admins,                     \* DEFAULT_ADMIN_ROLE, fixed
    CommitteeCandidates,        \* accounts the upgrader may put on the committee
    Victims,                    \* accounts a proposal may name
    Evidence,                   \* evidence packages
    Scores,                     \* reputation scores, 0 among them
    Deposits,                   \* what one deposit may bring
    Withdrawals,                \* what one withdrawal may ask for
    MaxStake,                   \* bound: what one agent's bond may grow to
    MinimumStakes,              \* what the admin may ask minimumStake to be
    Periods,                    \* what the admin may ask a period to be
    MIN_CHALLENGE_PERIOD, MAX_CHALLENGE_PERIOD,
    MIN_UNBONDING_PERIOD, MAX_UNBONDING_PERIOD,
    DISPUTE_RESOLUTION_PERIOD,
    EXECUTION_PERIOD,
    LastFiling,                 \* bound: no slash is filed, no exit queued, after this time
    InitialViews                \* what Identity.stakeView may be at the start

ASSUME StakingAssumption ==
    /\ {MIN_CHALLENGE_PERIOD, MIN_UNBONDING_PERIOD, EXECUTION_PERIOD} \subseteq Nat \ {0}
    /\ {MAX_CHALLENGE_PERIOD, MAX_UNBONDING_PERIOD, DISPUTE_RESOLUTION_PERIOD} \subseteq Nat
    /\ MIN_CHALLENGE_PERIOD <= MAX_CHALLENGE_PERIOD
    /\ MIN_UNBONDING_PERIOD <= MAX_UNBONDING_PERIOD
    /\ MAX_CHALLENGE_PERIOD < DISPUTE_RESOLUTION_PERIOD
    /\ Deposits \subseteq Nat /\ Withdrawals \subseteq Nat
    /\ MinimumStakes \subseteq Nat /\ Periods \subseteq Nat
    /\ 0 \in Scores /\ Evidence # {} /\ Victims # {}
    /\ IsFiniteSet(Agents) /\ IsFiniteSet(Victims)
    /\ MaxStake \in Nat /\ LastFiling \in Nat
    /\ StakeViews = {StakingCore}
    /\ InitialViews \subseteq StakeViews \cup {NoAccount}
    /\ "staking" \in Registries

VARIABLES
    stakes,                \* [Agents -> [amount, unbondingAmount, unbondingAt]]
    unbondingClaimableAt,  \* [Agents -> time fixed when queued, 0 if none was]
    slashProposals,        \* [Agents -> proposal]
    lastDroppedAt,         \* [Agents -> time, 0 if no proposal was dropped]
    evidenceRejected,      \* [Agents -> SUBSET Evidence]
    claimable,             \* [Victims -> amount]
    committee,             \* holders of SLASHING_COMMITTEE_ROLE
    minimumStake, challengePeriod, unbondingPeriod,
    balance,               \* svrToken.balanceOf(this)
    reputation             \* [Agents -> score held by SigvaraReputation]

bondVars    == <<stakes, unbondingClaimableAt, balance>>
slashVars   == <<slashProposals, lastDroppedAt, evidenceRejected>>
paramVars   == <<minimumStake, challengePeriod, unbondingPeriod>>
clockVars   == <<now, guardVars>>
stakingVars == <<bondVars, slashVars, claimable, committee, paramVars, reputation>>
vars        == <<clockVars, identityVars, stakingVars>>

SlashState == {"None", "Pending", "Executed", "Cancelled", "Disputed"}

Stake == [amount : Nat, unbondingAmount : Nat, unbondingAt : Nat]

SlashProposal ==
    [state : SlashState, reporter : CommitteeCandidates \cup {NoAccount},
     victim : Victims \cup {NoAccount}, evidence : Evidence,
     initiatedAt : Nat, challengeDeadline : Nat, disputedAt : Nat]

\* A proposal that freezes the bond.
Live(d) == slashProposals[d].state \in {"Pending", "Disputed"}

\* What a slash would take: the stake and whatever is queued for withdrawal.
Bond(d) == stakes[d].amount + stakes[d].unbondingAmount

\* Mutant: an agent is assumed to be bonded.
HasMinimumStake_Assumed(d) == TRUE

HasMinimumStake(d) == stakes[d].amount >= minimumStake

\* Mutant: no rule for exits queued without a record.
ClaimableAt_RecordOnly(d) == unbondingClaimableAt[d]

\* _claimableAt
ClaimableAt(d) ==
    IF unbondingClaimableAt[d] # 0 THEN unbondingClaimableAt[d]
    ELSE stakes[d].unbondingAt + unbondingPeriod

\* Only the identity registry's status and lock move when this contract calls it.
IdentityFrame == UNCHANGED <<clockVars, wiringVars, transferVars, indexVars>>

\* updateStatus called by this contract.  The registry asks its stakeView, which is
\* this contract (StakingAssumption), and reads the stake as it is at the call.
CoreUpdateStatus(d, newStatus, amount) ==
    /\ UpdateStatus(d, StakingCore, newStatus, amount >= minimumStake)
    /\ IdentityFrame

------------------------------------------------------------------------------
(* The bond and the exit queue.                                            *)

DepositStake(d, caller, received) ==
    LET amount == stakes[d].amount + received IN
    /\ Bond(d) + received <= MaxStake
    /\ InflowsOpen("staking")
    /\ Registered(d) /\ Status(d) # "Slashed"
    /\ caller = Operator(d)
    /\ stakes' = [stakes EXCEPT ![d].amount = amount]
    /\ balance' = balance + received
    /\ IF Status(d) = "PendingBond" /\ amount >= minimumStake
       THEN CoreUpdateStatus(d, "Active", amount)
       ELSE UNCHANGED <<clockVars, identityVars>>
    /\ UNCHANGED <<unbondingClaimableAt, slashVars, claimable, committee, paramVars, reputation>>

InitiateWithdrawal(d, caller, amount) ==
    /\ now <= LastFiling
    /\ amount # 0
    /\ stakes[d].unbondingAmount = 0
    /\ caller = Operator(d)
    /\ ~Live(d)
    /\ amount <= stakes[d].amount
    /\ Registered(d) /\ Status(d) = "Active" => stakes[d].amount - amount >= minimumStake
    /\ stakes' = [stakes EXCEPT ![d] =
           [amount |-> @.amount - amount, unbondingAmount |-> amount, unbondingAt |-> now]]
    /\ unbondingClaimableAt' = [unbondingClaimableAt EXCEPT ![d] = now + unbondingPeriod]
    /\ UNCHANGED <<clockVars, identityVars, balance, slashVars, claimable, committee,
                   paramVars, reputation>>

\* What claimWithdrawal asks of the bond.
MayClaim(d) == stakes[d].unbondingAmount # 0 /\ ~Live(d) /\ now >= ClaimableAt(d)

ClaimWithdrawal(d, caller) ==
    /\ MayClaim(d)
    /\ caller = Operator(d)
    /\ stakes' = [stakes EXCEPT ![d].unbondingAmount = 0, ![d].unbondingAt = 0]
    /\ unbondingClaimableAt' = [unbondingClaimableAt EXCEPT ![d] = 0]
    /\ balance' = balance - stakes[d].unbondingAmount
    /\ UNCHANGED <<clockVars, identityVars, slashVars, claimable, committee, paramVars,
                   reputation>>

------------------------------------------------------------------------------
(* Slashing.                                                               *)

\* What initiateSlash asks of the agent: something to take, no proposal, the cooldown
\* since the last dropped one, and evidence the admin has not ruled against.
MayFile(d, evidence) ==
    /\ Bond(d) # 0
    /\ ~Live(d)
    /\ lastDroppedAt[d] # 0 => now >= lastDroppedAt[d] + challengePeriod
    /\ evidence \notin evidenceRejected[d]

InitiateSlash(d, reporter, victim, evidence) ==
    /\ now <= LastFiling
    /\ reporter \in committee
    /\ victim \notin {NoAccount, reporter} \cup committee \cup Admins
    /\ MayFile(d, evidence)
    /\ slashProposals' = [slashProposals EXCEPT ![d] =
           [state |-> "Pending", reporter |-> reporter, victim |-> victim,
            evidence |-> evidence, initiatedAt |-> now,
            challengeDeadline |-> now + challengePeriod, disputedAt |-> 0]]
    /\ CoreUpdateStatus(d, "Suspended", stakes[d].amount)
    /\ UNCHANGED <<bondVars, lastDroppedAt, evidenceRejected, claimable, committee,
                   paramVars, reputation>>

DisputeSlash(d, caller) ==
    /\ slashProposals[d].state = "Pending"
    /\ now <= slashProposals[d].challengeDeadline
    /\ caller = Operator(d)
    /\ slashProposals' = [slashProposals EXCEPT ![d].state = "Disputed", ![d].disputedAt = now]
    /\ UNCHANGED <<clockVars, identityVars, bondVars, lastDroppedAt, evidenceRejected,
                   claimable, committee, paramVars, reputation>>

\* _dropProposal: reinstated if still bonded, otherwise only unlocked.
DropProposal(d) ==
    /\ slashProposals' = [slashProposals EXCEPT ![d].state = "Cancelled"]
    /\ lastDroppedAt' = [lastDroppedAt EXCEPT ![d] = now]
    /\ IF HasMinimumStake(d)
       THEN CoreUpdateStatus(d, "Active", stakes[d].amount)
       ELSE ClearSlashSuspension(d) /\ IdentityFrame
    /\ UNCHANGED <<bondVars, claimable, committee, paramVars, reputation>>

\* _rejectEvidence: an admin's ruling against the proposal's evidence.
RejectEvidence(d) ==
    evidenceRejected' = [evidenceRejected EXCEPT ![d] = @ \cup {slashProposals[d].evidence}]

EmptyStake == [amount |-> 0, unbondingAmount |-> 0, unbondingAt |-> 0]

\* Mutants: the quarter is rounded up; the burn is rounded on its own.
ToVictim_RoundsUp(d) == (Bond(d) + 3) \div 4
Burned_Rounds(d)     == (3 * Bond(d)) \div 4

\* A quarter to the victim, the rest and any dust burned, nothing left.
ToVictim(d) == Bond(d) \div 4
Burned(d)   == Bond(d) - ToVictim(d)
Swept(d)    == EmptyStake

\* SigvaraReputation.zeroReputation
ZeroReputation(d) == reputation' = [reputation EXCEPT ![d] = 0]

\* _settleSlash: the victim's share is credited, the rest is sent away.
SettleSlash(d) ==
    /\ stakes' = [stakes EXCEPT ![d] = Swept(d)]
    /\ unbondingClaimableAt' = [unbondingClaimableAt EXCEPT ![d] = 0]
    /\ slashProposals' = [slashProposals EXCEPT ![d].state = "Executed"]
    /\ claimable' = [claimable EXCEPT ![slashProposals[d].victim] = @ + ToVictim(d)]
    /\ CoreUpdateStatus(d, "Slashed", 0)
    /\ ZeroReputation(d)
    /\ balance' = balance - Burned(d)
    /\ UNCHANGED <<lastDroppedAt, evidenceRejected, committee, paramVars>>

\* Mutant: a ruling to uphold does not wait for the challenge deadline.
ResolveDispute_UpholdsEarly(d, uphold) ==
    /\ slashProposals[d].state = "Disputed"
    /\ IF uphold
       THEN /\ now <= slashProposals[d].disputedAt + DISPUTE_RESOLUTION_PERIOD
            /\ SettleSlash(d)
       ELSE RejectEvidence(d) /\ DropProposal(d)

ResolveDispute(d, uphold) ==
    /\ slashProposals[d].state = "Disputed"
    /\ IF uphold
       THEN /\ now > slashProposals[d].challengeDeadline
            /\ now <= slashProposals[d].disputedAt + DISPUTE_RESOLUTION_PERIOD
            /\ SettleSlash(d)
       ELSE RejectEvidence(d) /\ DropProposal(d)

ExpireDispute(d) ==
    /\ slashProposals[d].state = "Disputed"
    /\ now > slashProposals[d].disputedAt + DISPUTE_RESOLUTION_PERIOD
    /\ DropProposal(d)
    /\ UNCHANGED evidenceRejected

ExpireSlash(d) ==
    /\ slashProposals[d].state = "Pending"
    /\ now > slashProposals[d].challengeDeadline + EXECUTION_PERIOD
    /\ DropProposal(d)
    /\ UNCHANGED evidenceRejected

CancelSlash(d) ==
    /\ committee # {}
    /\ slashProposals[d].state = "Pending"
    /\ DropProposal(d)
    /\ UNCHANGED evidenceRejected

VetoSlash(d) ==
    /\ Live(d)
    /\ RejectEvidence(d)
    /\ DropProposal(d)

ExecuteSlash(d) ==
    /\ slashProposals[d].state = "Pending"
    /\ now > slashProposals[d].challengeDeadline
    /\ slashProposals[d].reporter \in committee
    /\ SettleSlash(d)

ClaimSlashProceeds(caller) ==
    /\ claimable[caller] # 0
    /\ claimable' = [claimable EXCEPT ![caller] = 0]
    /\ balance' = balance - claimable[caller]
    /\ UNCHANGED <<clockVars, identityVars, stakes, unbondingClaimableAt, slashVars, committee,
                   paramVars, reputation>>

------------------------------------------------------------------------------
(* Administration.                                                         *)

SetMinimumStake(newMinimum) ==
    /\ newMinimum # 0
    /\ minimumStake' = newMinimum
    /\ UNCHANGED <<clockVars, identityVars, bondVars, slashVars, claimable, committee,
                   challengePeriod, unbondingPeriod, reputation>>

SetChallengePeriod(newPeriod) ==
    /\ newPeriod \in MIN_CHALLENGE_PERIOD..MAX_CHALLENGE_PERIOD
    /\ challengePeriod' = newPeriod
    /\ UNCHANGED <<clockVars, identityVars, bondVars, slashVars, claimable, committee,
                   minimumStake, unbondingPeriod, reputation>>

\* setUnbondingPeriod; also initializeV2, which writes the same word under the same bounds.
SetUnbondingPeriod(newPeriod) ==
    /\ newPeriod \in MIN_UNBONDING_PERIOD..MAX_UNBONDING_PERIOD
    /\ unbondingPeriod' = newPeriod
    /\ UNCHANGED <<clockVars, identityVars, bondVars, slashVars, claimable, committee,
                   minimumStake, challengePeriod, reputation>>

CommitteeFrame ==
    UNCHANGED <<clockVars, identityVars, bondVars, slashVars, claimable, paramVars, reputation>>

\* grantRole by the upgrader, behind the timelock.
GrantCommittee(account) ==
    /\ account \notin committee
    /\ committee' = committee \cup {account}
    /\ CommitteeFrame

\* revokeRole: the admin at once, or the upgrader.
RevokeCommittee(account) ==
    /\ account \in committee
    /\ committee' = committee \ {account}
    /\ CommitteeFrame

\* SigvaraReputation.finalizeReputation as far as this contract sees it: a score is
\* written only for a registered, unslashed, bonded agent.
FinalizeReputation(d, score) ==
    /\ Registered(d) /\ Status(d) # "Slashed" /\ HasMinimumStake(d)
    /\ reputation' = [reputation EXCEPT ![d] = score]
    /\ UNCHANGED <<clockVars, identityVars, bondVars, slashVars, claimable, committee, paramVars>>

------------------------------------------------------------------------------
(* The specification.                                                      *)

NoProposal ==
    [state |-> "None", reporter |-> NoAccount, victim |-> NoAccount,
     evidence |-> CHOOSE e \in Evidence : TRUE,
     initiatedAt |-> 0, challengeDeadline |-> 0, disputedAt |-> 0]

\* Before any call.  On an upgraded proxy the listed agents hold the minimum and may
\* have a withdrawal queued before claim times were recorded.
StakingInit ==
    /\ minimumStake \in MinimumStakes \ {0}
    /\ challengePeriod \in Periods \cap (MIN_CHALLENGE_PERIOD..MAX_CHALLENGE_PERIOD)
    /\ unbondingPeriod \in Periods \cap (MIN_UNBONDING_PERIOD..MAX_UNBONDING_PERIOD)
    /\ \E queued \in 0..1 :
           /\ stakes = [d \in Agents |->
                  IF d \in LegacyAgents
                  THEN [amount |-> minimumStake, unbondingAmount |-> queued,
                        unbondingAt |-> queued]
                  ELSE EmptyStake]
           /\ balance = Len(LegacyList) * (minimumStake + queued)
    /\ unbondingClaimableAt = [d \in Agents |-> 0]
    /\ slashProposals = [d \in Agents |-> NoProposal]
    /\ lastDroppedAt = [d \in Agents |-> 0]
    /\ evidenceRejected = [d \in Agents |-> {}]
    /\ claimable = [a \in Victims |-> 0]
    /\ committee \in SUBSET CommitteeCandidates
    /\ reputation = [d \in Agents |-> 0]

Init == (\E view \in InitialViews : IdentityInit(view)) /\ StakingInit

OperatorCalls(d, caller) ==
    \/ OperatorStep(d, caller, HasMinimumStake(d)) /\ UNCHANGED stakingVars
    \/ \E received \in Deposits : DepositStake(d, caller, received)
    \/ \E amount \in Withdrawals : InitiateWithdrawal(d, caller, amount)
    \/ ClaimWithdrawal(d, caller)
    \/ DisputeSlash(d, caller)

CommitteeCalls(d) ==
    \/ \E reporter \in CommitteeCandidates, victim \in Victims, evidence \in Evidence :
           InitiateSlash(d, reporter, victim, evidence)
    \/ CancelSlash(d)

AdminCalls(d) ==
    \/ \E uphold \in BOOLEAN : ResolveDispute(d, uphold)
    \/ VetoSlash(d)

AnyonesCalls(d) ==
    \/ ExpireDispute(d)
    \/ ExpireSlash(d)
    \/ ExecuteSlash(d)

Settings ==
    \/ \E m \in MinimumStakes : SetMinimumStake(m)
    \/ \E p \in Periods : SetChallengePeriod(p) \/ SetUnbondingPeriod(p)
    \/ \E a \in CommitteeCandidates : GrantCommittee(a) \/ RevokeCommittee(a)

Next ==
    \/ Tick /\ UNCHANGED <<identityVars, stakingVars>>
    \/ GuardNext /\ UNCHANGED <<identityVars, stakingVars>>
    \/ IdentityGovernance /\ UNCHANGED stakingVars
    \/ Settings
    \/ \E a \in Victims : ClaimSlashProceeds(a)
    \/ \E d \in Agents :
           \/ \E caller \in Accounts : OperatorCalls(d, caller)
           \/ CommitteeCalls(d)
           \/ AdminCalls(d)
           \/ AnyonesCalls(d)
           \/ \E score \in Scores : FinalizeReputation(d, score)

Spec == Init /\ [][Next]_vars

\* Time passes, and somebody makes the calls open to anyone once they are due: the
\* operator whose bond is frozen has every reason to.  Nothing else is promised; in
\* particular neither the committee nor the admin ever needs to act.
Fairness ==
    /\ WF_vars(Tick /\ UNCHANGED <<identityVars, stakingVars>>)
    /\ \A d \in Agents : WF_vars(ExpireDispute(d)) /\ WF_vars(ExpireSlash(d))

\* An operator that wants its money out claims it whenever it can.
OperatorFairness ==
    \A d \in Agents : SF_vars(\E caller \in Accounts : ClaimWithdrawal(d, caller))

FairSpec == Spec /\ Fairness /\ OperatorFairness

------------------------------------------------------------------------------
(* What must always hold.                                                  *)

StakingTypeOK ==
    /\ IdentityTypeOK
    /\ stakes \in [Agents -> Stake]
    /\ unbondingClaimableAt \in [Agents -> Nat]
    /\ slashProposals \in [Agents -> SlashProposal]
    /\ lastDroppedAt \in [Agents -> Nat]
    /\ evidenceRejected \in [Agents -> SUBSET Evidence]
    /\ claimable \in [Victims -> Nat]
    /\ committee \subseteq CommitteeCandidates
    /\ minimumStake \in Nat \ {0}
    /\ challengePeriod \in MIN_CHALLENGE_PERIOD..MAX_CHALLENGE_PERIOD
    /\ unbondingPeriod \in MIN_UNBONDING_PERIOD..MAX_UNBONDING_PERIOD
    /\ balance \in Int
    /\ reputation \in [Agents -> Scores]

\* The lock in the identity registry is on exactly while a proposal freezes the bond
\* (or for ever, once settled), and a frozen agent is Suspended: no path of the two
\* contracts lifts one without the other.
SuspensionLock ==
    \A d \in Agents :
        /\ Live(d) => slashSuspended[d] /\ Registered(d) /\ Status(d) = "Suspended"
        /\ slashSuspended[d] => Live(d) \/ Status(d) = "Slashed"

\* An agent is Slashed exactly when a proposal against it was executed, and then
\* nothing is left to take, to claim or to score, however deposits, exits and
\* finalizations were ordered around the settlement.
SlashedIsFinal ==
    \A d \in Agents :
        /\ Registered(d) /\ Status(d) = "Slashed" <=> slashProposals[d].state = "Executed"
        /\ slashProposals[d].state = "Executed" => Bond(d) = 0 /\ reputation[d] = 0

\* An Active agent always has something to slash, although the minimum moves both ways
\* under it and withdrawals, drops and reactivations each check it for themselves.
ActiveIsBacked ==
    \A d \in Agents : Registered(d) /\ Status(d) = "Active" => stakes[d].amount > 0

\* An accused bond is never empty: a queued exit cannot be claimed out from under a
\* proposal, so a slash always has something to settle.
AccusedIsBonded == \A d \in Agents : Live(d) => Bond(d) > 0

\* Both: an agent in good standing can be slashed, and one accused still can.
StandingBacked == ActiveIsBacked /\ AccusedIsBonded

\* Whatever the admin does to the periods, every proposal in flight gives the operator
\* the minimum window to dispute, and every dispute leaves the admin a moment at which
\* it may uphold.
RulingWindow ==
    \A d \in Agents :
        LET p == slashProposals[d] IN
        /\ Live(d) => p.challengeDeadline - p.initiatedAt
                          \in MIN_CHALLENGE_PERIOD..MAX_CHALLENGE_PERIOD
        /\ p.state = "Disputed" =>
               /\ p.initiatedAt <= p.disputedAt
               /\ p.challengeDeadline < p.disputedAt + DISPUTE_RESOLUTION_PERIOD

\* The token held covers every stake, every queued exit and every credit, exactly.
Solvency == balance = Total([d \in Agents |-> Bond(d)]) + Total(claimable)

\* Evidence the admin ruled against never freezes that agent again.
RejectedStaysRejected ==
    \A d \in Agents : Live(d) => slashProposals[d].evidence \notin evidenceRejected[d]

\* The inductive invariant: the properties above and the two facts they lean on.  A
\* proposal was filed in the past (so a dispute cannot start before its filing) and names
\* a victim, and an identity that was never registered is not Slashed (so registering
\* unlocks nothing).
ProposalsAreFiled ==
    \A d \in Agents :
        LET p == slashProposals[d] IN
        p.initiatedAt <= now /\ (p.state # "None" => p.victim \in Victims)
SlashedIsRegistered == \A d \in Agents : Status(d) = "Slashed" => Registered(d)

SafetyInv ==
    /\ StakingTypeOK
    /\ SuspensionLock
    /\ SlashedIsFinal
    /\ ActiveIsBacked
    /\ AccusedIsBonded
    /\ RulingWindow
    /\ RejectedStaysRejected
    /\ ProposalsAreFiled
    /\ SlashedIsRegistered

------------------------------------------------------------------------------
(* What a step may never do.                                               *)

Settles(d) == slashProposals[d].state # "Executed" /\ slashProposals'[d].state = "Executed"

\* A bond is taken only after the whole minimum window since filing, disputed or not,
\* only inside the ruling period when disputed, and when undisputed only on the word of
\* a reporter still on the committee.
OnlyDueSettlement ==
    [][\A d \in Agents : Settles(d) =>
           LET p == slashProposals[d] IN
           /\ now > p.initiatedAt + MIN_CHALLENGE_PERIOD
           /\ IF p.state = "Disputed" THEN now <= p.disputedAt + DISPUTE_RESOLUTION_PERIOD
              ELSE p.state = "Pending" /\ p.reporter \in committee
      ]_vars

\* While an exit is queued its recorded claim time does not move, and it leaves the
\* queue only by a settlement or by a claim at or after that time, and never sooner than
\* the minimum period after it was queued.
ExitPromiseKept ==
    [][\A d \in Agents : stakes[d].unbondingAmount # 0 =>
           \/ /\ stakes'[d].unbondingAmount = stakes[d].unbondingAmount
              /\ unbondingClaimableAt'[d] = unbondingClaimableAt[d]
           \/ Settles(d)
           \/ /\ now >= unbondingClaimableAt[d]
              /\ now >= stakes[d].unbondingAt + MIN_UNBONDING_PERIOD
      ]_vars

\* Nothing handed over under accusation: an accused agent keeps its operator, and a
\* slashed one keeps it for ever.
AccusedKeepsOperator ==
    [][\A d \in Agents : Live(d) \/ (Registered(d) /\ Status(d) = "Slashed") =>
           Operator(d)' = Operator(d)
      ]_vars

\* A freeze ends without the committee or the admin lifting a finger.
FrozenEventuallyReleased == \A d \in Agents : Live(d) ~> ~Live(d)

\* A queued exit leaves the queue, by a claim or by a slash.
ExitEventuallyLeaves ==
    \A d \in Agents : stakes[d].unbondingAmount # 0 ~> stakes[d].unbondingAmount = 0

\* The two contracts keep the promises of BondCustody.
Custody == INSTANCE BondCustody WITH
    bond     <- [d \in Agents |-> Bond(d)],
    standing <- [d \in Agents |->
                    IF Live(d) THEN "accused"
                    ELSE IF slashProposals[d].state = "Executed" THEN "convicted" ELSE "free"],
    credit   <- claimable

ImplementsCustody == Custody!CustodySpec
==============================================================================
