-------------------------- MODULE SigvaraOracleBond --------------------------
(***************************************************************************)
(* src/SigvaraOracleBond.sol: the bonds of the oracle's operators, the key *)
(* each operator lets speak for it, and the address that key is bound to.  *)
(*                                                                         *)
(* An address can be an operator, a signer, or nothing yet, and the        *)
(* contract's rules are about an address changing part: bonding, leaving,  *)
(* being named, released and named again.  A call is one atomic step.      *)
(***************************************************************************)
EXTENDS InflowGuard, Tokens

CONSTANTS
    Addresses,             \* accounts that may bond or be named as a signer
    NoAddress,             \* address(0)
    Officials,             \* accounts that may hold SLASHER_ROLE or receive what is slashed
    BondDeposits,          \* what one deposit may bring
    BondAmounts,           \* what the admin may ask bondAmount to be
    BondPeriods,           \* what the admin may ask unbondingPeriod to be
    MIN_BOND_UNBONDING, MAX_BOND_UNBONDING,
    MaxBond,               \* bound: what one bond may grow to
    LastExit,              \* bound: nobody bonds or starts to leave after this time
    LegacyOperators,       \* Active operators of a proxy upgraded from before boundTo ...
    LegacySigner           \* ... and the signer each had named, if any

ASSUME OracleBondAssumption ==
    /\ IsFiniteSet(Addresses) /\ NoAddress \notin Addresses \cup Officials
    /\ BondDeposits \subseteq Nat \ {0} /\ BondAmounts \subseteq Nat /\ BondPeriods \subseteq Nat
    /\ MIN_BOND_UNBONDING \in Nat \ {0} /\ MAX_BOND_UNBONDING \in Nat
    /\ MaxBond \in Nat /\ LastExit \in Nat
    /\ LegacyOperators \subseteq Addresses
    /\ LegacySigner \in [LegacyOperators -> (Addresses \ LegacyOperators) \cup {NoAddress}]
    /\ \A o, p \in LegacyOperators :
           LegacySigner[o] = LegacySigner[p] => o = p \/ LegacySigner[o] = NoAddress
    /\ "bond" \in Registries

VARIABLES
    operators,            \* [Addresses -> [bond, status, unbondingAt]]
    claimableAt,          \* unbondingClaimableAt: when an Exiting operator may withdraw, or 0
    signerOf,             \* operator => its signer
    operatorOfSigner,     \* signer => the operator it speaks for
    boundTo,              \* address => the one operator that may name it
    activeCount,
    bondAmount, bondPeriod,
    slashBeneficiary,
    slashers,             \* holders of SLASHER_ROLE
    held                  \* svr.balanceOf(this)

recordVars == <<operators, claimableAt, activeCount, held>>
signerVars == <<signerOf, operatorOfSigner, boundTo>>
ruleVars   == <<bondAmount, bondPeriod, slashBeneficiary, slashers>>
bondRegistryVars == <<recordVars, signerVars, ruleVars>>
oracleBondVars == <<now, guardVars, bondRegistryVars>>

BondStatus == {"None", "Bonded", "Active", "Exiting"}

OperatorRecord == [bond : Nat, status : BondStatus, unbondingAt : Nat]

BondOf(a)   == operators[a].bond
StatusOf(a) == operators[a].status

\* The operator an address answers for: the one that named it, or itself.
SpeaksFor(a) == IF operatorOfSigner[a] = NoAddress THEN a ELSE operatorOfSigner[a]

\* isActiveOperator: a signer answers for its operator, anyone else for itself; status
\* and bond are both read.
IsActiveOperator(a) ==
    LET o == SpeaksFor(a) IN StatusOf(o) = "Active" /\ BondOf(o) >= bondAmount

\* Mutant: no rule for an exit that began before its time was recorded.
ExitAt_RecordOnly(a) == claimableAt[a]

\* _claimableAt
ExitAt(a) ==
    IF claimableAt[a] # 0 THEN claimableAt[a] ELSE operators[a].unbondingAt + bondPeriod

\* An address no part of the registry refers to yet.
IsFree(a) ==
    StatusOf(a) = "None" /\ signerOf[a] = NoAddress /\ operatorOfSigner[a] = NoAddress

\* _bind on the table of bindings: the first binding stays.
Bind(table, a, o) == IF table[a] = NoAddress THEN [table EXCEPT ![a] = o] ELSE table

\* Mutant: the signer's own entry is left behind.
ClearSignerOf_OneSided(o) ==
    /\ signerOf' = [signerOf EXCEPT ![o] = NoAddress]
    /\ boundTo' = IF signerOf[o] = NoAddress THEN boundTo ELSE Bind(boundTo, signerOf[o], o)
    /\ UNCHANGED operatorOfSigner

\* _clearSigner: nothing happens to an operator that named nobody.
ClearSignerOf(o) ==
    LET s == signerOf[o] IN
    IF s = NoAddress THEN UNCHANGED signerVars
    ELSE /\ signerOf' = [signerOf EXCEPT ![o] = NoAddress]
         /\ operatorOfSigner' = [operatorOfSigner EXCEPT ![s] = NoAddress]
         /\ boundTo' = Bind(boundTo, s, o)

\* The end of a record, on withdrawal and on a slash to nothing: the signer is released
\* and the operator's address is bound to itself.
LeaveForGood(o) ==
    LET s == signerOf[o] IN
    /\ signerOf' = [signerOf EXCEPT ![o] = NoAddress]
    /\ operatorOfSigner' = [a \in Addresses |-> IF a = s THEN NoAddress ELSE operatorOfSigner[a]]
    /\ boundTo' = [IF s = NoAddress THEN boundTo ELSE Bind(boundTo, s, o) EXCEPT ![o] = o]

------------------------------------------------------------------------------
(* Operators and signers.                                                  *)

DepositBond(a, received) ==
    /\ now <= LastExit /\ BondOf(a) + received <= MaxBond
    /\ InflowsOpen("bond")
    /\ operatorOfSigner[a] = NoAddress
    /\ StatusOf(a) # "Exiting"
    /\ operators' = [operators EXCEPT
           ![a].bond = @ + received,
           ![a].status = IF @ = "None" THEN "Bonded" ELSE @]
    /\ boundTo' = [boundTo EXCEPT ![a] = a]
    /\ held' = held + received
    /\ UNCHANGED <<now, guardVars, claimableAt, signerOf, operatorOfSigner, activeCount, ruleVars>>

\* initiateUnbond by the operator, removeOperator by the admin.
StartExit(a) ==
    /\ now <= LastExit
    /\ StatusOf(a) \in {"Bonded", "Active"}
    /\ activeCount' = IF StatusOf(a) = "Active" THEN activeCount - 1 ELSE activeCount
    /\ operators' = [operators EXCEPT ![a].status = "Exiting", ![a].unbondingAt = now]
    /\ claimableAt' = [claimableAt EXCEPT ![a] = now + bondPeriod]
    /\ UNCHANGED <<now, guardVars, held, signerVars, ruleVars>>

WithdrawBond(a) ==
    /\ StatusOf(a) = "Exiting"
    /\ now >= ExitAt(a)
    /\ BondOf(a) # 0
    /\ operators' = [operators EXCEPT ![a] = [bond |-> 0, status |-> "None", unbondingAt |-> 0]]
    /\ claimableAt' = [claimableAt EXCEPT ![a] = 0]
    /\ LeaveForGood(a)
    /\ held' = held - BondOf(a)
    /\ UNCHANGED <<now, guardVars, activeCount, ruleVars>>

\* Mutant: any address nobody is using at the moment may be named.
MayName_AnyFree(a, s) == StatusOf(a) = "Active" /\ s # a /\ IsFree(s)

\* What setSigner asks.
MayName(a, s) ==
    /\ StatusOf(a) = "Active"
    /\ s # a
    /\ IsFree(s)
    /\ boundTo[s] \in {NoAddress, a}

SetSigner(a, s) ==
    LET old == signerOf[a] IN
    /\ MayName(a, s)
    /\ signerOf' = [signerOf EXCEPT ![a] = s]
    /\ operatorOfSigner' = [x \in Addresses |->
           IF x = s THEN a ELSE IF x = old THEN NoAddress ELSE operatorOfSigner[x]]
    /\ boundTo' = Bind(IF old = NoAddress THEN boundTo ELSE Bind(boundTo, old, a), s, a)
    /\ UNCHANGED <<now, guardVars, recordVars, ruleVars>>

\* clearSigner by the operator; releaseSigner by the signer has the same effect.
ClearSigner(a) ==
    /\ signerOf[a] # NoAddress
    /\ ClearSignerOf(a)
    /\ UNCHANGED <<now, guardVars, recordVars, ruleVars>>

------------------------------------------------------------------------------
(* Governance.                                                             *)

Admit(a) ==
    /\ StatusOf(a) = "Bonded"
    /\ BondOf(a) >= bondAmount
    /\ operators' = [operators EXCEPT ![a].status = "Active"]
    /\ activeCount' = activeCount + 1
    /\ UNCHANGED <<now, guardVars, claimableAt, held, signerVars, ruleVars>>

\* What becomes of the operator's status when a slash leaves it `left'.
StatusAfterSlash(a, left) ==
    IF left = 0 THEN "None"
    ELSE IF StatusOf(a) = "Active" /\ left < bondAmount THEN "Bonded"
    ELSE StatusOf(a)

\* How far activeCount falls.  bondAmount is never zero, so a slash to nothing demotes.
Demotion(a, left) == IF StatusOf(a) = "Active" /\ left < bondAmount THEN 1 ELSE 0

Slash(a, amount) ==
    LET left == BondOf(a) - amount IN
    /\ slashers # {}
    /\ amount \in 1..BondOf(a)
    /\ operators' = [operators EXCEPT ![a] =
           [bond |-> left, status |-> StatusAfterSlash(a, left),
            unbondingAt |-> IF left = 0 THEN 0 ELSE @.unbondingAt]]
    /\ activeCount' = activeCount - Demotion(a, left)
    /\ IF left = 0
       THEN claimableAt' = [claimableAt EXCEPT ![a] = 0] /\ LeaveForGood(a)
       ELSE UNCHANGED <<claimableAt, signerVars>>
    /\ held' = held - amount
    /\ UNCHANGED <<now, guardVars, ruleVars>>

SetBondAmount(newAmount) ==
    /\ newAmount # 0
    /\ bondAmount' = newAmount
    /\ UNCHANGED <<now, guardVars, recordVars, signerVars, bondPeriod, slashBeneficiary, slashers>>

SetBondPeriod(newPeriod) ==
    /\ newPeriod \in MIN_BOND_UNBONDING..MAX_BOND_UNBONDING
    /\ bondPeriod' = newPeriod
    /\ UNCHANGED <<now, guardVars, recordVars, signerVars, bondAmount, slashBeneficiary, slashers>>

SetSlashBeneficiary(newBeneficiary) ==
    /\ newBeneficiary \notin slashers
    /\ slashBeneficiary' = newBeneficiary
    /\ UNCHANGED <<now, guardVars, recordVars, signerVars, bondAmount, bondPeriod, slashers>>

\* grantRole(SLASHER_ROLE), through the override of _grantRole.
GrantSlasher(account) ==
    /\ account # slashBeneficiary
    /\ slashers' = slashers \cup {account}
    /\ UNCHANGED <<now, guardVars, recordVars, signerVars, bondAmount, bondPeriod, slashBeneficiary>>

RevokeSlasher(account) ==
    /\ slashers' = slashers \ {account}
    /\ UNCHANGED <<now, guardVars, recordVars, signerVars, bondAmount, bondPeriod, slashBeneficiary>>

------------------------------------------------------------------------------
(* The specification.                                                      *)

\* Before any call.  A proxy upgraded from before boundTo has operators whose addresses
\* and signers are bound to nobody, and one that is leaving has no recorded time.
BondRegistryInit ==
    /\ bondAmount \in BondAmounts \ {0}
    /\ bondPeriod \in BondPeriods \cap (MIN_BOND_UNBONDING..MAX_BOND_UNBONDING)
    /\ \E leaving \in SUBSET LegacyOperators :
           /\ operators = [a \in Addresses |->
                  [bond |-> IF a \in LegacyOperators THEN bondAmount ELSE 0,
                   status |-> IF a \in leaving THEN "Exiting"
                              ELSE IF a \in LegacyOperators THEN "Active" ELSE "None",
                   unbondingAt |-> IF a \in leaving THEN now ELSE 0]]
           /\ activeCount = Cardinality(LegacyOperators \ leaving)
    /\ claimableAt = [a \in Addresses |-> 0]
    /\ signerOf = [a \in Addresses |->
           IF a \in LegacyOperators THEN LegacySigner[a] ELSE NoAddress]
    /\ operatorOfSigner = [a \in Addresses |->
           IF \E o \in LegacyOperators : LegacySigner[o] = a
           THEN CHOOSE o \in LegacyOperators : LegacySigner[o] = a ELSE NoAddress]
    /\ boundTo = [a \in Addresses |-> NoAddress]
    /\ slashBeneficiary \in Officials
    /\ slashers \in SUBSET (Officials \ {slashBeneficiary})
    /\ held = Cardinality(LegacyOperators) * bondAmount

OperatorNext(a) ==
    \/ \E received \in BondDeposits : DepositBond(a, received)
    \/ StartExit(a)
    \/ WithdrawBond(a)
    \/ \E s \in Addresses : SetSigner(a, s)
    \/ ClearSigner(a)
    \/ Admit(a)
    \/ \E amount \in 1..MaxBond : Slash(a, amount)

GovernanceNext ==
    \/ \E n \in BondAmounts : SetBondAmount(n)
    \/ \E p \in BondPeriods : SetBondPeriod(p)
    \/ \E x \in Officials : SetSlashBeneficiary(x) \/ GrantSlasher(x) \/ RevokeSlasher(x)

BondRegistryNext == (\E a \in Addresses : OperatorNext(a)) \/ GovernanceNext

OracleBondNext ==
    \/ Tick /\ UNCHANGED bondRegistryVars
    \/ GuardNext /\ UNCHANGED bondRegistryVars
    \/ BondRegistryNext

OracleBondInit == GuardInit /\ BondRegistryInit

OracleBondSpec == OracleBondInit /\ [][OracleBondNext]_oracleBondVars

------------------------------------------------------------------------------
(* What must always hold.                                                  *)

OracleBondTypeOK ==
    /\ GuardTypeOK
    /\ operators \in [Addresses -> OperatorRecord]
    /\ claimableAt \in [Addresses -> Nat]
    /\ signerOf \in [Addresses -> Addresses \cup {NoAddress}]
    /\ operatorOfSigner \in [Addresses -> Addresses \cup {NoAddress}]
    /\ boundTo \in [Addresses -> Addresses \cup {NoAddress}]
    /\ activeCount \in Nat
    /\ bondAmount \in Nat \ {0}
    /\ bondPeriod \in MIN_BOND_UNBONDING..MAX_BOND_UNBONDING
    /\ slashBeneficiary \in Officials
    /\ slashers \subseteq Officials
    /\ held \in Int

\* The count the contract keeps by hand at four places is the number of Active operators.
ActiveCountExact == activeCount = Cardinality({a \in Addresses : StatusOf(a) = "Active"})

\* The two signer tables are each other's inverse, only a bonded operator has a signer,
\* and nobody is signer and operator at once, so isActiveOperator has one answer.
SignersPaired ==
    \A a, s \in Addresses :
        /\ signerOf[a] = s <=> operatorOfSigner[s] = a
        /\ signerOf[a] = s => /\ StatusOf(a) # "None"
                              /\ StatusOf(s) = "None" /\ signerOf[s] = NoAddress

\* No address is bricked: a record has money in it exactly while it has a status.
RecordsAreFunded == \A a \in Addresses : StatusOf(a) = "None" <=> BondOf(a) = 0

\* While a key speaks for an operator it is bound to no other.
SignersBound ==
    \A k \in Addresses :
        operatorOfSigner[k] # NoAddress => boundTo[k] \in {NoAddress, operatorOfSigner[k]}

\* A recorded time to leave is no sooner than the minimum cooldown.
ExitsRecorded ==
    \A a \in Addresses :
        StatusOf(a) = "Exiting" /\ claimableAt[a] # 0 =>
            claimableAt[a] >= operators[a].unbondingAt + MIN_BOND_UNBONDING

\* The contract holds exactly the bonds: a shortfall would fall on whoever withdraws last.
HeldIsTheBonds == held = Total([a \in Addresses |-> BondOf(a)])

\* Records well formed, funded, counted, paired with their signers, leaving in good time, and paid for.
OracleBondInv ==
    /\ OracleBondTypeOK
    /\ RecordsAreFunded
    /\ ActiveCountExact
    /\ SignersPaired
    /\ SignersBound
    /\ ExitsRecorded
    /\ HeldIsTheBonds

\* A key that speaks for another operator, or is bound to another address, is out of an
\* operator's reach.
OutOfReach(k, o) ==
    operatorOfSigner[k] \notin {o, NoAddress} \/ boundTo[k] \notin {o, NoAddress}

\* A key ended by its operator stays ended: what is once out of an operator's reach never
\* comes back to it, though the key is released, bonds, leaves and is free again.
KeysStayOutOfReach ==
    [][\A k, o \in Addresses : k # o /\ OutOfReach(k, o) => OutOfReach(k, o)']_oracleBondVars

\* Hence an address that has signed for one operator never signs for another.
KeysAreNotReused ==
    \A k, o \in Addresses :
        [](operatorOfSigner[k] = o => [](operatorOfSigner[k] \in {o, NoAddress}))

\* A leaving operator's time is fixed when it starts to leave, and its bond goes to it no
\* sooner than the minimum cooldown; until then every step that shrinks it is a slash.
ExitIsPatient ==
    [][\A a \in Addresses :
           /\ StatusOf(a) = "Exiting" /\ StatusOf(a)' = "Exiting" => claimableAt'[a] = claimableAt[a]
           /\ BondOf(a)' < BondOf(a) /\ slashers = {} =>
                  /\ StatusOf(a) = "Exiting"
                  /\ now >= operators[a].unbondingAt + MIN_BOND_UNBONDING
      ]_oracleBondVars

\* An operator that starts to leave is let go.
LeaversLeave == \A a \in Addresses : StatusOf(a) = "Exiting" ~> StatusOf(a) = "None"
==============================================================================
