--------------------------- MODULE SigvaraIdentity ---------------------------
(***************************************************************************)
(* src/SigvaraIdentity.sol: the registry of agents, their operators and    *)
(* their status, the suspension lock the staking core holds during a       *)
(* slash, two-step operator transfer, and the per-operator index kept by   *)
(* swap-and-pop.                                                           *)
(*                                                                         *)
(* A didHash is an element of Agents.  Signatures are abstracted to the    *)
(* fact they establish: an agent is registered by an account it signed     *)
(* for.  The answer of the one external call this contract makes,          *)
(* stakeView.hasMinimumStake, is a parameter `bonded' of the operations    *)
(* that ask it: the staking module passes the bond it holds, the           *)
(* stand-alone specification below lets the answer be anything.            *)
(***************************************************************************)
EXTENDS InflowGuard, Sequences

CONSTANTS
    Agents,          \* didHashes
    Accounts,        \* addresses that can be an operator
    NoAccount,       \* address(0)
    PubKeys,         \* Ed25519 keys
    StakingCore,     \* the holder of STAKING_CORE_ROLE, a contract
    StakeViews,      \* contracts the upgrader may point stakeView at
    LegacyList,      \* agents registered before index positions were recorded, as listed
    LegacyOperator,  \* and the operator whose list that is
    MaxTransfers     \* bound: times one agent changes hands

\* LegacyList of a registry that recorded positions from its first registration.
NothingListed == <<>>

\* Set of the elements of a list.
Listed(list) == {list[i] : i \in 1..Len(list)}

LegacyAgents == Listed(LegacyList)

ASSUME IdentityAssumption ==
    /\ NoAccount \notin Accounts \cup StakeViews
    /\ StakingCore \notin Accounts
    /\ LegacyList \in Seq(Agents) /\ LegacyOperator \in Accounts
    /\ \A i, j \in 1..Len(LegacyList) : LegacyList[i] = LegacyList[j] => i = j
    /\ MaxTransfers \in Nat
    /\ PubKeys # {}
    /\ "identity" \in Registries

VARIABLES
    identities,             \* [Agents -> identity record]
    slashSuspended,         \* [Agents -> BOOLEAN]
    stakeView,              \* the collateral oracle, or NoAccount
    initializedVersion,     \* what reinitializer(n) has consumed
    pendingOperator,        \* [Agents -> offered account, or NoAccount]
    operatorChangedAt,      \* [Agents -> time of the last handover, or 0]
    operatorTransferCount,  \* [Agents -> Nat]
    operatorAgents,         \* [Accounts -> sequence of agents]
    operatorAgentIndex      \* [Agents -> position + 1, or 0 if none recorded]

transferVars == <<pendingOperator, operatorChangedAt, operatorTransferCount>>
indexVars    == <<operatorAgents, operatorAgentIndex>>
wiringVars   == <<stakeView, initializedVersion>>
identityVars == <<identities, slashSuspended, wiringVars, transferVars, indexVars>>

AgentStatus == {"PendingBond", "Active", "Suspended", "Slashed"}

Identity ==
    [registered : BOOLEAN, operator : Accounts \cup {NoAccount},
     status : AgentStatus, key : PubKeys]

Registered(d) == identities[d].registered
Status(d)     == identities[d].status
Operator(d)   == identities[d].operator

IdentityTypeOK ==
    /\ GuardTypeOK
    /\ identities \in [Agents -> Identity]
    /\ \A d \in Agents : Registered(d) => Operator(d) \in Accounts
    /\ slashSuspended \in [Agents -> BOOLEAN]
    /\ stakeView \in StakeViews \cup {NoAccount}
    /\ initializedVersion \in {1, 2}
    /\ pendingOperator \in [Agents -> Accounts \cup {NoAccount}]
    /\ operatorChangedAt \in [Agents -> Nat]
    /\ operatorTransferCount \in [Agents -> Nat]
    /\ operatorAgents \in [Accounts -> Seq(Agents)]
    /\ operatorAgentIndex \in [Agents -> Nat]

------------------------------------------------------------------------------
(* The operator index.  An entry's recorded position is trusted only if    *)
(* the list holds the agent there; otherwise the list is scanned, which is *)
(* what agents registered before positions were recorded still need.       *)

\* Position of d in a list, 0 if absent.  The loop stops at the first match; a list
\* holds an agent once (OperatorIndexExact).
ScanFor(list, d) ==
    IF \E i \in 1..Len(list) : list[i] = d
    THEN CHOOSE i \in 1..Len(list) : list[i] = d
    ELSE 0

\* Mutant: no scan for an agent without a recorded position.
PositionIn_NoScan(list, d) ==
    LET recorded == operatorAgentIndex[d] IN
    IF recorded \in 1..Len(list) /\ list[recorded] = d THEN recorded ELSE 0

PositionIn(list, d) ==
    LET recorded == operatorAgentIndex[d] IN
    IF recorded \in 1..Len(list) /\ list[recorded] = d
    THEN recorded ELSE ScanFor(list, d)

\* The list after the last element replaces the one at position pos.
SwapAndPop(list, pos) ==
    [i \in 1..(Len(list) - 1) |-> IF i = pos THEN list[Len(list)] ELSE list[i]]

\* _removeFromOperatorIndex(from, d), then _pushToOperatorIndex(to, d).
MoveInIndex(d, from, to) ==
    LET list    == operatorAgents[from]
        pos     == PositionIn(list, d)
        lists   == IF pos = 0 THEN operatorAgents
                   ELSE [operatorAgents EXCEPT ![from] = SwapAndPop(list, pos)]
        indices == IF pos = 0 THEN operatorAgentIndex
                   ELSE [operatorAgentIndex EXCEPT ![list[Len(list)]] = pos]
    IN  /\ operatorAgents' = [lists EXCEPT ![to] = Append(@, d)]
        /\ operatorAgentIndex' = [indices EXCEPT ![d] = Len(lists[to]) + 1]

------------------------------------------------------------------------------
(* Operations.                                                             *)

\* initializeV2: consumed once.  The stake view set here or by setStakeView.
InitializeV2(view) ==
    /\ initializedVersion = 1
    /\ initializedVersion' = 2
    /\ stakeView' = view
    /\ UNCHANGED <<now, guardVars, identities, slashSuspended, transferVars, indexVars>>

SetStakeView(view) ==
    /\ stakeView' = view
    /\ UNCHANGED <<now, guardVars, identities, slashSuspended, initializedVersion,
                   transferVars, indexVars>>

RegisterAgent(d, caller, key) ==
    /\ InflowsOpen("identity")
    /\ ~Registered(d)
    /\ identities' = [identities EXCEPT ![d] =
           [registered |-> TRUE, operator |-> caller, status |-> "PendingBond", key |-> key]]
    /\ operatorAgents' = [operatorAgents EXCEPT ![caller] = Append(@, d)]
    /\ operatorAgentIndex' = [operatorAgentIndex EXCEPT ![d] = Len(operatorAgents[caller]) + 1]
    /\ UNCHANGED <<now, guardVars, slashSuspended, wiringVars, transferVars>>

RotatePublicKey(d, caller, key) ==
    /\ Registered(d)
    /\ caller = Operator(d)
    /\ Status(d) # "Slashed"
    /\ identities' = [identities EXCEPT ![d].key = key]
    /\ UNCHANGED <<now, guardVars, slashSuspended, wiringVars, transferVars, indexVars>>

\* Mutant: the operator may lift a suspension the staking core applied.
MayUpdateStatus_IgnoresLock(d, caller, newStatus, bonded) ==
    /\ Registered(d)
    /\ Status(d) # "Slashed"
    /\ newStatus # "PendingBond"
    /\ caller # StakingCore => newStatus # "Slashed" /\ caller = Operator(d)
    /\ newStatus = "Active" => stakeView # NoAccount /\ bonded

\* What updateStatus asks.
MayUpdateStatus(d, caller, newStatus, bonded) ==
    /\ Registered(d)
    /\ Status(d) # "Slashed"
    /\ newStatus # "PendingBond"
    /\ caller # StakingCore =>
           /\ newStatus # "Slashed"
           /\ caller = Operator(d)
           /\ ~slashSuspended[d]
    /\ newStatus = "Active" => stakeView # NoAccount /\ bonded

\* updateStatus writes identities and slashSuspended.  It is called by the
\* operator, and by the staking core from inside its own operations, so what
\* else changes is left to the caller.
UpdateStatus(d, caller, newStatus, bonded) ==
    /\ MayUpdateStatus(d, caller, newStatus, bonded)
    /\ slashSuspended' =
           IF caller = StakingCore /\ newStatus \in {"Suspended", "Active"}
           THEN [slashSuspended EXCEPT ![d] = (newStatus = "Suspended")]
           ELSE slashSuspended
    /\ identities' = [identities EXCEPT ![d].status = newStatus]

\* clearSlashSuspension, by the staking core only.
ClearSlashSuspension(d) ==
    /\ Registered(d)
    /\ slashSuspended' = [slashSuspended EXCEPT ![d] = FALSE]
    /\ UNCHANGED identities

\* Mutant: an accused agent can change hands.
Transferable_Accused(d) == Registered(d) /\ Status(d) # "Slashed"

\* What an offer and an acceptance both ask of the agent.
Transferable(d) == Registered(d) /\ Status(d) # "Slashed" /\ ~slashSuspended[d]

OfferOperatorTransfer(d, caller, newOperator) ==
    /\ Transferable(d)
    /\ caller = Operator(d)
    /\ newOperator # Operator(d)
    /\ pendingOperator' = [pendingOperator EXCEPT ![d] = newOperator]
    /\ UNCHANGED <<now, guardVars, identities, slashSuspended, wiringVars, operatorChangedAt,
                   operatorTransferCount, indexVars>>

CancelOperatorTransfer(d, caller) ==
    /\ Registered(d)
    /\ pendingOperator[d] # NoAccount
    /\ caller \in {Operator(d), pendingOperator[d]}
    /\ pendingOperator' = [pendingOperator EXCEPT ![d] = NoAccount]
    /\ UNCHANGED <<now, guardVars, identities, slashSuspended, wiringVars, operatorChangedAt,
                   operatorTransferCount, indexVars>>

AcceptOperatorTransfer(d, caller, bonded) ==
    /\ operatorTransferCount[d] < MaxTransfers
    /\ Transferable(d)
    /\ caller = pendingOperator[d]
    /\ stakeView # NoAccount /\ bonded
    /\ identities' = [identities EXCEPT ![d].operator = caller]
    /\ pendingOperator' = [pendingOperator EXCEPT ![d] = NoAccount]
    /\ MoveInIndex(d, Operator(d), caller)
    /\ operatorChangedAt' = [operatorChangedAt EXCEPT ![d] = now]
    /\ operatorTransferCount' = [operatorTransferCount EXCEPT ![d] = @ + 1]
    /\ UNCHANGED <<now, guardVars, slashSuspended, wiringVars>>

------------------------------------------------------------------------------
(* The registry by itself, with any staking core and any stake view.       *)

\* Agents that predate position recording are listed but have no position.
IdentityInit(view) ==
    /\ GuardInit
    /\ identities = [d \in Agents |->
           [registered |-> d \in LegacyAgents,
            operator |-> IF d \in LegacyAgents THEN LegacyOperator ELSE NoAccount,
            status |-> "Active", key |-> CHOOSE k \in PubKeys : TRUE]]
    /\ slashSuspended = [d \in Agents |-> FALSE]
    /\ stakeView = view
    /\ initializedVersion = IF view = NoAccount THEN 1 ELSE 2
    /\ pendingOperator = [d \in Agents |-> NoAccount]
    /\ operatorChangedAt = [d \in Agents |-> 0]
    /\ operatorTransferCount = [d \in Agents |-> 0]
    /\ operatorAgents = [a \in Accounts |-> IF a = LegacyOperator THEN LegacyList ELSE <<>>]
    /\ operatorAgentIndex = [d \in Agents |-> 0]

\* What an operator or a stranger can do here, given the stake view's answers.
OperatorStep(d, caller, bonded) ==
    \/ \E key \in PubKeys : RegisterAgent(d, caller, key) \/ RotatePublicKey(d, caller, key)
    \/ \E s \in AgentStatus :
           /\ UpdateStatus(d, caller, s, bonded)
           /\ UNCHANGED <<now, guardVars, wiringVars, transferVars, indexVars>>
    \/ \E to \in Accounts : OfferOperatorTransfer(d, caller, to)
    \/ CancelOperatorTransfer(d, caller)
    \/ AcceptOperatorTransfer(d, caller, bonded)

\* What STAKING_CORE_ROLE may do here.
StakingCoreStep(d, bonded) ==
    /\ \/ \E s \in AgentStatus : UpdateStatus(d, StakingCore, s, bonded)
       \/ ClearSlashSuspension(d)
    /\ UNCHANGED <<now, guardVars, wiringVars, transferVars, indexVars>>

IdentityGovernance == \E v \in StakeViews : InitializeV2(v) \/ SetStakeView(v)

IdentityNext ==
    \/ Tick /\ UNCHANGED identityVars
    \/ GuardNext /\ UNCHANGED identityVars
    \/ IdentityGovernance
    \/ \E d \in Agents, bonded \in BOOLEAN :
           \/ \E caller \in Accounts : OperatorStep(d, caller, bonded)
           \/ StakingCoreStep(d, bonded)

IdentitySpec ==
    /\ \E view \in StakeViews \cup {NoAccount} : IdentityInit(view)
    /\ [][IdentityNext]_<<now, guardVars, identityVars>>

------------------------------------------------------------------------------
(* Properties.                                                             *)

\* The per-operator lists and the operator fields say the same thing: every list holds
\* exactly the agents of its operator, once each, and every recorded position is right,
\* for agents listed before positions were recorded too.
OperatorIndexExact ==
    /\ \A a \in Accounts :
           LET list == operatorAgents[a] IN
           /\ Listed(list) = {d \in Agents : Registered(d) /\ Operator(d) = a}
           /\ \A i, j \in 1..Len(list) : list[i] = list[j] => i = j
    /\ \A d \in Agents :
           LET list == operatorAgents[Operator(d)]
               position == operatorAgentIndex[d]
           IN  position # 0 => position <= Len(list) /\ list[position] = d

==============================================================================
