----------------------- MODULE SigvaraReputationProofs -----------------------
(***************************************************************************)
(* The bond registry, and the score registry and the fee vault on top of   *)
(* it: their invariants hold for any addresses, agents, proposals,         *)
(* amounts, periods, windows and rates. A key lost to an operator stays    *)
(* lost, who leaves waits its time, no score goes live unreviewed, what an *)
(* agent may spend is earned, and the vault's books are covered.           *)
(***************************************************************************)
EXTENDS SigvaraReputation, SigvaraEpochFees, SigvaraOracleBond, TLAPS

------------------------------------------------------------------------------
(* The bond registry.                                                      *)

ActiveOnes == {a \in Addresses : StatusOf(a) = "Active"}

LEMMA BondNumbers ==
    /\ MIN_BOND_UNBONDING \in Nat \ {0} /\ MAX_BOND_UNBONDING \in Nat
    /\ BondDeposits \subseteq Nat \ {0} /\ NoAddress \notin Addresses
    /\ MIN_BOND_UNBONDING..MAX_BOND_UNBONDING \subseteq Nat
  BY OracleBondAssumption

\* A step writes one record only.
OnlyMoves(a) ==
    /\ operators' \in [Addresses -> OperatorRecord]
    /\ \A x \in Addresses \ {a} : operators'[x] = operators[x]

\* What that does to the set of Active operators and to its size.
LEMMA ActiveMoves ==
    ASSUME operators \in [Addresses -> OperatorRecord], NEW a \in Addresses, OnlyMoves(a)
    PROVE  /\ IsFiniteSet(ActiveOnes) /\ Cardinality(ActiveOnes) \in Nat
           /\ StatusOf(a) = "Active" => Cardinality(ActiveOnes) > 0
           /\ Cardinality(ActiveOnes') =
                  IF StatusOf(a) = "Active"
                  THEN IF StatusOf(a)' = "Active" THEN Cardinality(ActiveOnes) ELSE Cardinality(ActiveOnes) - 1
                  ELSE IF StatusOf(a)' = "Active" THEN Cardinality(ActiveOnes) + 1 ELSE Cardinality(ActiveOnes)
  <1>1. ActiveOnes' = IF StatusOf(a)' = "Active" THEN ActiveOnes \cup {a} ELSE ActiveOnes \ {a}
    BY DEF ActiveOnes, StatusOf, OnlyMoves
  <1>2. IsFiniteSet(ActiveOnes) /\ Cardinality(ActiveOnes) \in Nat
    BY OracleBondAssumption, FS_Subset, FS_CardinalityType DEF ActiveOnes
  <1>3. StatusOf(a) = "Active" <=> a \in ActiveOnes
    BY DEF ActiveOnes
  <1>4. a \in ActiveOnes => Cardinality(ActiveOnes) # 0
    BY <1>2, FS_EmptySet
  <1>5. /\ Cardinality(ActiveOnes \cup {a}) =
               IF a \in ActiveOnes THEN Cardinality(ActiveOnes) ELSE Cardinality(ActiveOnes) + 1
        /\ Cardinality(ActiveOnes \ {a}) =
               IF a \in ActiveOnes THEN Cardinality(ActiveOnes) - 1 ELSE Cardinality(ActiveOnes)
    BY <1>2, FS_AddElement, FS_RemoveElement
  <1>6. QED
    BY <1>1, <1>2, <1>3, <1>4, <1>5

\* What is held moves with the one bond that moves.
LEMMA HeldMoves ==
    ASSUME operators \in [Addresses -> OperatorRecord], held \in Int, held' \in Int, HeldIsTheBonds,
           NEW a \in Addresses, OnlyMoves(a), held' - held = BondOf(a)' - BondOf(a)
    PROVE  HeldIsTheBonds'
  <1> DEFINE before == [x \in Addresses |-> BondOf(x)]
             after == [x \in Addresses |-> operators'[x].bond]
  <1>1. before \in [Addresses -> Nat] /\ after \in [Addresses -> Nat]
    BY DEF OnlyMoves, OperatorRecord, BondOf
  <1>2. \A x \in Addresses : x # a => after[x] = before[x]
    BY DEF OnlyMoves, BondOf
  <1>3. before[a] = BondOf(a) /\ after[a] = BondOf(a)'
    BY DEF BondOf
  <1>4. held = Total(before)
    BY DEF HeldIsTheBonds
  <1> HIDE DEF before, after
  <1>5. IsFiniteSet(Addresses) /\ Total(before) \in Nat
    BY <1>1, OracleBondAssumption, TotalType
  <1>6. Total(after) = Total(before) + (after[a] - before[a])
    BY <1>1, <1>2, <1>5, TotalMoves
  <1>7. after[a] \in Nat /\ before[a] \in Nat
    BY <1>1
  <1>8. held' = Total(after)
    BY <1>3, <1>4, <1>5, <1>6, <1>7
  <1>9. QED
    BY <1>8 DEF HeldIsTheBonds, BondOf, after

LEMMA HeldStays ==
    ASSUME HeldIsTheBonds, held' = held, \A x \in Addresses : BondOf(x)' = BondOf(x)
    PROVE  HeldIsTheBonds'
  BY DEF HeldIsTheBonds

\* Types of the clock and the pauses.
LEMMA GuardMovesType ==
    ASSUME GuardTypeOK, Tick \/ GuardNext
    PROVE  GuardTypeOK' /\ now' >= now
  BY InflowGuardAssumption DEF GuardTypeOK, Tick, guardVars, GuardNext, PauseInflows, ResumeInflows

\* What the end of a record does to the tables of signers.
LEMMA LeaveForGoodTypes ==
    ASSUME OracleBondTypeOK, NEW o \in Addresses, LeaveForGood(o)
    PROVE  /\ signerOf' \in [Addresses -> Addresses \cup {NoAddress}]
           /\ operatorOfSigner' \in [Addresses -> Addresses \cup {NoAddress}]
           /\ boundTo' \in [Addresses -> Addresses \cup {NoAddress}]
  BY DEF OracleBondTypeOK, LeaveForGood, Bind

LEMMA ClearSignerOfTypes ==
    ASSUME OracleBondTypeOK, NEW o \in Addresses, ClearSignerOf(o)
    PROVE  /\ signerOf' \in [Addresses -> Addresses \cup {NoAddress}]
           /\ operatorOfSigner' \in [Addresses -> Addresses \cup {NoAddress}]
           /\ boundTo' \in [Addresses -> Addresses \cup {NoAddress}]
  BY DEF OracleBondTypeOK, ClearSignerOf, Bind, signerVars

\* The signer tables stay paired when an operator with a record leaves for good.
LEMMA LeavingKeepsSigners ==
    ASSUME OracleBondTypeOK, SignersPaired, SignersBound, NEW a \in Addresses,
           StatusOf(a) # "None", OnlyMoves(a), StatusOf(a)' = "None", LeaveForGood(a)
    PROVE  SignersPaired' /\ SignersBound'
  <1> USE BondNumbers DEF OracleBondTypeOK
  <1>1. operatorOfSigner[a] = NoAddress
    BY DEF SignersPaired
  <1>2. SignersPaired'
    <2> SUFFICES ASSUME NEW x \in Addresses, NEW s \in Addresses
                 PROVE  /\ signerOf'[x] = s <=> operatorOfSigner'[s] = x
                        /\ signerOf'[x] = s => /\ StatusOf(x)' # "None"
                                               /\ StatusOf(s)' = "None" /\ signerOf'[s] = NoAddress
      BY DEF SignersPaired
    <2>1. signerOf'[x] = IF x = a THEN NoAddress ELSE signerOf[x]
      BY DEF LeaveForGood
    <2>2. operatorOfSigner'[s] = IF s = signerOf[a] THEN NoAddress ELSE operatorOfSigner[s]
      BY DEF LeaveForGood
    <2>3. QED
      BY <1>1, <2>1, <2>2 DEF SignersPaired, StatusOf, OnlyMoves, LeaveForGood
  <1>3. SignersBound'
    BY <1>1 DEF SignersBound, LeaveForGood, Bind
  <1>4. QED
    BY <1>2, <1>3

------------------------------------------------------------------------------
(* OracleBondInv is kept, one lemma per operation.                         *)

LEMMA DepositBondKeeps ==
    ASSUME OracleBondInv, NEW a \in Addresses, NEW received \in BondDeposits, DepositBond(a, received)
    PROVE  OracleBondInv'
  <1> USE BondNumbers DEF OracleBondInv
  <1>1. operators[a] \in OperatorRecord /\ BondOf(a) \in Nat /\ StatusOf(a) \in BondStatus
    BY DEF OracleBondTypeOK, OperatorRecord, BondOf, StatusOf
  <1>2. OnlyMoves(a)
    <2> DEFINE s == IF StatusOf(a) = "None" THEN "Bonded" ELSE StatusOf(a)
    <2>1. BondOf(a) + received \in Nat /\ s \in BondStatus
      BY <1>1 DEF BondStatus
    <2>2. [operators[a] EXCEPT !.bond = BondOf(a) + received, !.status = s] \in OperatorRecord
      <3> HIDE DEF s
      <3> QED
        BY <1>1, <2>1 DEF OperatorRecord
    <2>3. QED
      BY <2>2 DEF DepositBond, OnlyMoves, OracleBondTypeOK, BondOf, StatusOf
  <1>3. /\ BondOf(a)' = BondOf(a) + received
        /\ StatusOf(a)' = IF StatusOf(a) = "None" THEN "Bonded" ELSE StatusOf(a)
        /\ operators'[a].unbondingAt = operators[a].unbondingAt
    BY <1>1 DEF DepositBond, OracleBondTypeOK, OperatorRecord, BondOf, StatusOf
  <1>4. OracleBondTypeOK'
    <2>1. GuardTypeOK' /\ held' \in Int
      BY DEF DepositBond, OracleBondTypeOK, GuardTypeOK, guardVars
    <2>2. QED
      BY <1>2, <2>1 DEF DepositBond, OracleBondTypeOK, OnlyMoves, ruleVars
  <1>5. RecordsAreFunded'
    BY <1>1, <1>2, <1>3 DEF RecordsAreFunded, OnlyMoves, BondOf, StatusOf
  <1>6. ActiveCountExact'
    <2>1. Cardinality(ActiveOnes') = Cardinality(ActiveOnes)
      BY <1>2, <1>3, ActiveMoves DEF OracleBondTypeOK
    <2>2. QED
      BY <2>1 DEF ActiveCountExact, ActiveOnes, DepositBond
  <1>7. SignersPaired'
    BY <1>2, <1>3 DEF SignersPaired, OracleBondTypeOK, DepositBond, StatusOf, OnlyMoves
  <1>8. SignersBound'
    BY DEF SignersBound, DepositBond, OracleBondTypeOK
  <1>9. ExitsRecorded'
    BY <1>2, <1>3 DEF ExitsRecorded, DepositBond, OracleBondTypeOK, StatusOf, OnlyMoves
  <1>10. HeldIsTheBonds'
    <2>1. held' - held = BondOf(a)' - BondOf(a)
      BY <1>1, <1>3 DEF DepositBond, OracleBondTypeOK
    <2>2. QED
      BY <1>2, <1>4, <2>1, HeldMoves DEF OracleBondTypeOK
  <1>11. QED
    BY <1>4, <1>5, <1>6, <1>7, <1>8, <1>9, <1>10

LEMMA StartExitKeeps ==
    ASSUME OracleBondInv, NEW a \in Addresses, StartExit(a)
    PROVE  OracleBondInv'
  <1> USE BondNumbers DEF OracleBondInv
  <1>1. /\ operators[a] \in OperatorRecord
        /\ now \in Nat /\ bondPeriod \in Nat /\ bondPeriod >= MIN_BOND_UNBONDING /\ activeCount \in Nat
    BY DEF OracleBondTypeOK, GuardTypeOK
  <1>2. OnlyMoves(a)
    <2>1. [operators[a] EXCEPT !.status = "Exiting", !.unbondingAt = now] \in OperatorRecord
      BY <1>1 DEF OperatorRecord, BondStatus
    <2>2. QED
      BY <2>1 DEF StartExit, OnlyMoves, OracleBondTypeOK
  <1>3. BondOf(a)' = BondOf(a) /\ StatusOf(a)' = "Exiting" /\ operators'[a].unbondingAt = now
    BY <1>1 DEF StartExit, OracleBondTypeOK, OperatorRecord, BondOf, StatusOf
  <1>4. activeCount' = Cardinality(ActiveOnes') /\ activeCount' \in Nat
    <2>1. /\ Cardinality(ActiveOnes) \in Nat
          /\ StatusOf(a) = "Active" => Cardinality(ActiveOnes) > 0
          /\ Cardinality(ActiveOnes') =
                 IF StatusOf(a) = "Active" THEN Cardinality(ActiveOnes) - 1 ELSE Cardinality(ActiveOnes)
      BY <1>2, <1>3, ActiveMoves DEF OracleBondTypeOK
    <2>2. QED
      BY <2>1 DEF ActiveCountExact, ActiveOnes, StartExit
  <1>5. OracleBondTypeOK'
    <2>1. GuardTypeOK' /\ claimableAt' \in [Addresses -> Nat]
      BY <1>1 DEF StartExit, OracleBondTypeOK, GuardTypeOK, guardVars
    <2>2. QED
      BY <1>2, <1>4, <2>1 DEF StartExit, OracleBondTypeOK, OnlyMoves, ruleVars, signerVars
  <1>6. RecordsAreFunded'
    BY <1>2, <1>3 DEF RecordsAreFunded, StartExit, OnlyMoves, BondOf, StatusOf
  <1>7. ActiveCountExact'
    BY <1>4 DEF ActiveCountExact, ActiveOnes
  <1>8. SignersPaired'
    BY <1>2, <1>3 DEF SignersPaired, StartExit, StatusOf, signerVars, OnlyMoves
  <1>9. SignersBound'
    BY DEF SignersBound, StartExit, signerVars
  <1>10. ExitsRecorded'
    BY <1>1, <1>2, <1>3 DEF ExitsRecorded, StartExit, OracleBondTypeOK, StatusOf, OnlyMoves
  <1>11. HeldIsTheBonds'
    BY <1>2, <1>3, HeldStays DEF StartExit, OnlyMoves, BondOf
  <1>12. QED
    BY <1>5, <1>6, <1>7, <1>8, <1>9, <1>10, <1>11

LEMMA WithdrawBondKeeps ==
    ASSUME OracleBondInv, NEW a \in Addresses, WithdrawBond(a)
    PROVE  OracleBondInv'
  <1> USE BondNumbers DEF OracleBondInv
  <1>1. OnlyMoves(a) /\ BondOf(a)' = 0 /\ StatusOf(a)' = "None" /\ operators'[a].unbondingAt = 0
    BY DEF WithdrawBond, OnlyMoves, OracleBondTypeOK, OperatorRecord, BondStatus, BondOf, StatusOf
  <1>2. StatusOf(a) = "Exiting" /\ operators[a] \in OperatorRecord
    BY DEF WithdrawBond, OracleBondTypeOK
  <1>3. OracleBondTypeOK'
    <2>1. /\ GuardTypeOK' /\ claimableAt' \in [Addresses -> Nat] /\ held' \in Int
      BY <1>2 DEF WithdrawBond, OracleBondTypeOK, GuardTypeOK, guardVars, BondOf, OperatorRecord
    <2>2. QED
      BY <1>1, <2>1, LeaveForGoodTypes DEF WithdrawBond, OracleBondTypeOK, OnlyMoves, ruleVars
  <1>4. RecordsAreFunded'
    BY <1>1 DEF RecordsAreFunded, OnlyMoves, BondOf, StatusOf
  <1>5. ActiveCountExact'
    <2>1. Cardinality(ActiveOnes') = Cardinality(ActiveOnes)
      BY <1>1, <1>2, ActiveMoves DEF OracleBondTypeOK
    <2>2. QED
      BY <2>1 DEF ActiveCountExact, ActiveOnes, WithdrawBond
  <1>6. SignersPaired' /\ SignersBound'
    BY <1>1, <1>2, LeavingKeepsSigners DEF WithdrawBond
  <1>7. ExitsRecorded'
    BY <1>1 DEF ExitsRecorded, WithdrawBond, OracleBondTypeOK, StatusOf, OnlyMoves
  <1>8. HeldIsTheBonds'
    <2>1. held' - held = BondOf(a)' - BondOf(a)
      BY <1>1, <1>2 DEF WithdrawBond, OracleBondTypeOK, OperatorRecord, BondOf
    <2>2. QED
      BY <1>1, <1>3, <2>1, HeldMoves DEF OracleBondTypeOK
  <1>9. QED
    BY <1>3, <1>4, <1>5, <1>6, <1>7, <1>8

\* A step that writes the signer tables and nothing else.
LEMMA SignersOnlyKeep ==
    ASSUME OracleBondInv, UNCHANGED <<now, guardVars, recordVars, ruleVars>>,
           signerOf' \in [Addresses -> Addresses \cup {NoAddress}],
           operatorOfSigner' \in [Addresses -> Addresses \cup {NoAddress}],
           boundTo' \in [Addresses -> Addresses \cup {NoAddress}],
           SignersPaired', SignersBound'
    PROVE  OracleBondInv'
  BY DEF OracleBondInv, OracleBondTypeOK, GuardTypeOK, guardVars, recordVars, ruleVars, RecordsAreFunded,
         ActiveCountExact, ExitsRecorded, HeldIsTheBonds, StatusOf, BondOf

LEMMA SetSignerKeeps ==
    ASSUME OracleBondInv, NEW a \in Addresses, NEW s \in Addresses, SetSigner(a, s)
    PROVE  OracleBondInv'
  <1> USE BondNumbers DEF OracleBondInv
  <1>1. /\ StatusOf(a) = "Active" /\ s # a /\ StatusOf(s) = "None"
        /\ signerOf[s] = NoAddress /\ operatorOfSigner[s] = NoAddress /\ boundTo[s] \in {NoAddress, a}
    BY DEF SetSigner, MayName, IsFree
  <1>2. \A x \in Addresses : StatusOf(x)' = StatusOf(x)
    BY DEF SetSigner, StatusOf, recordVars
  <1>3. /\ signerOf' \in [Addresses -> Addresses \cup {NoAddress}]
        /\ operatorOfSigner' \in [Addresses -> Addresses \cup {NoAddress}]
        /\ boundTo' \in [Addresses -> Addresses \cup {NoAddress}]
    BY DEF OracleBondTypeOK, SetSigner, Bind
  <1>4. /\ \A x \in Addresses : signerOf'[x] = IF x = a THEN s ELSE signerOf[x]
        /\ \A x \in Addresses : operatorOfSigner'[x] =
               IF x = s THEN a ELSE IF x = signerOf[a] THEN NoAddress ELSE operatorOfSigner[x]
    BY DEF OracleBondTypeOK, SetSigner
  <1>5. SignersPaired'
    <2> SUFFICES ASSUME NEW x \in Addresses, NEW y \in Addresses
                 PROVE  /\ signerOf'[x] = y <=> operatorOfSigner'[y] = x
                        /\ signerOf'[x] = y => /\ StatusOf(x)' # "None"
                                               /\ StatusOf(y)' = "None" /\ signerOf'[y] = NoAddress
      BY DEF SignersPaired
    <2>1. /\ signerOf[x] = y <=> operatorOfSigner[y] = x
          /\ signerOf[a] = y <=> operatorOfSigner[y] = a
          /\ signerOf[x] = s <=> operatorOfSigner[s] = x
          /\ signerOf[x] = y => StatusOf(x) # "None" /\ StatusOf(y) = "None" /\ signerOf[y] = NoAddress
      BY DEF SignersPaired
    <2>2. QED
      BY <1>1, <1>2, <1>4, <2>1
  <1>6. SignersBound'
    <2>1. \A k \in Addresses : k # s /\ k # signerOf[a] => boundTo'[k] = boundTo[k]
      BY DEF OracleBondTypeOK, SetSigner, Bind
    <2>2. signerOf[a] # s
      BY <1>1 DEF SignersPaired
    <2>3. boundTo'[s] = a
      BY <1>1, <2>2 DEF OracleBondTypeOK, SetSigner, Bind
    <2>4. QED
      BY <1>4, <2>1, <2>3 DEF SignersBound
  <1>7. QED
    BY <1>3, <1>5, <1>6, SignersOnlyKeep DEF SetSigner

LEMMA ClearSignerKeeps ==
    ASSUME OracleBondInv, NEW a \in Addresses, ClearSigner(a)
    PROVE  OracleBondInv'
  <1> USE BondNumbers DEF OracleBondInv
  <1>1. ClearSignerOf(a) /\ signerOf[a] # NoAddress /\ signerOf[a] \in Addresses
    BY DEF ClearSigner, OracleBondTypeOK
  <1>2. \A x \in Addresses : StatusOf(x)' = StatusOf(x)
    BY DEF ClearSigner, StatusOf, recordVars
  <1>3. /\ \A x \in Addresses : signerOf'[x] = IF x = a THEN NoAddress ELSE signerOf[x]
        /\ \A x \in Addresses :
               operatorOfSigner'[x] = IF x = signerOf[a] THEN NoAddress ELSE operatorOfSigner[x]
        /\ \A x \in Addresses : x # signerOf[a] => boundTo'[x] = boundTo[x]
    BY <1>1 DEF ClearSignerOf, OracleBondTypeOK, Bind
  <1>4. SignersPaired'
    BY <1>1, <1>2, <1>3 DEF SignersPaired
  <1>5. SignersBound'
    BY <1>3 DEF SignersBound
  <1>6. QED
    BY <1>1, <1>4, <1>5, ClearSignerOfTypes, SignersOnlyKeep DEF ClearSigner

LEMMA AdmitKeeps ==
    ASSUME OracleBondInv, NEW a \in Addresses, Admit(a)
    PROVE  OracleBondInv'
  <1> USE BondNumbers DEF OracleBondInv
  <1>1. operators[a] \in OperatorRecord /\ StatusOf(a) = "Bonded"
    BY DEF Admit, OracleBondTypeOK
  <1>2. OnlyMoves(a)
    <2>1. [operators[a] EXCEPT !.status = "Active"] \in OperatorRecord
      BY <1>1 DEF OperatorRecord, BondStatus
    <2>2. QED
      BY <2>1 DEF Admit, OnlyMoves, OracleBondTypeOK
  <1>3. BondOf(a)' = BondOf(a) /\ StatusOf(a)' = "Active"
    BY <1>1 DEF Admit, OracleBondTypeOK, OperatorRecord, BondOf, StatusOf
  <1>4. activeCount' = Cardinality(ActiveOnes') /\ activeCount' \in Nat
    <2>1. Cardinality(ActiveOnes) \in Nat /\ Cardinality(ActiveOnes') = Cardinality(ActiveOnes) + 1
      BY <1>1, <1>2, <1>3, ActiveMoves DEF OracleBondTypeOK
    <2>2. QED
      BY <2>1 DEF ActiveCountExact, ActiveOnes, Admit
  <1>5. OracleBondTypeOK'
    BY <1>2, <1>4 DEF Admit, OracleBondTypeOK, GuardTypeOK, guardVars, OnlyMoves, ruleVars, signerVars
  <1>6. RecordsAreFunded'
    BY <1>1, <1>2, <1>3 DEF RecordsAreFunded, OnlyMoves, BondOf, StatusOf
  <1>7. ActiveCountExact'
    BY <1>4 DEF ActiveCountExact, ActiveOnes
  <1>8. SignersPaired' /\ SignersBound'
    BY <1>1, <1>2, <1>3 DEF SignersPaired, SignersBound, Admit, StatusOf, signerVars, OnlyMoves
  <1>9. ExitsRecorded'
    BY <1>1, <1>2, <1>3 DEF ExitsRecorded, Admit, StatusOf, OnlyMoves
  <1>10. HeldIsTheBonds'
    BY <1>2, <1>3, HeldStays DEF Admit, OnlyMoves, BondOf
  <1>11. QED
    BY <1>5, <1>6, <1>7, <1>8, <1>9, <1>10

LEMMA SlashKeeps ==
    ASSUME OracleBondInv, NEW a \in Addresses, NEW amount, Slash(a, amount)
    PROVE  OracleBondInv'
  <1> DEFINE left == BondOf(a) - amount
  <1> USE BondNumbers DEF OracleBondInv
  <1>1. /\ operators[a] \in OperatorRecord /\ BondOf(a) \in Nat /\ amount \in Nat \ {0}
        /\ StatusOf(a) \in BondStatus \ {"None"} /\ left \in Nat /\ bondAmount \in Nat \ {0}
    BY DEF Slash, OracleBondTypeOK, OperatorRecord, BondOf, StatusOf, RecordsAreFunded
  <1>2. StatusAfterSlash(a, left) \in BondStatus /\ (StatusAfterSlash(a, left) = "None" <=> left = 0)
    BY <1>1 DEF StatusAfterSlash, BondStatus
  <1>3. OnlyMoves(a)
    <2> HIDE DEF left
    <2>1. [bond |-> left, status |-> StatusAfterSlash(a, left),
           unbondingAt |-> IF left = 0 THEN 0 ELSE operators[a].unbondingAt] \in OperatorRecord
      BY <1>1, <1>2 DEF OperatorRecord
    <2>2. QED
      BY <2>1 DEF Slash, OnlyMoves, OracleBondTypeOK, left
  <1>4. /\ BondOf(a)' = left /\ StatusOf(a)' = StatusAfterSlash(a, left)
        /\ left # 0 => operators'[a].unbondingAt = operators[a].unbondingAt
    BY <1>1 DEF Slash, OracleBondTypeOK, BondOf, StatusOf
  <1>5. activeCount' = Cardinality(ActiveOnes') /\ activeCount' \in Nat
    <2>1. Demotion(a, left) = IF StatusOf(a) = "Active" /\ StatusAfterSlash(a, left) # "Active" THEN 1 ELSE 0
      BY <1>1 DEF Demotion, StatusAfterSlash
    <2>2. StatusAfterSlash(a, left) = "Active" => StatusOf(a) = "Active"
      BY DEF StatusAfterSlash
    <2>3. /\ Cardinality(ActiveOnes) \in Nat
          /\ StatusOf(a) = "Active" => Cardinality(ActiveOnes) > 0
          /\ Cardinality(ActiveOnes') = Cardinality(ActiveOnes) - Demotion(a, left)
      BY <1>3, <1>4, <2>1, <2>2, ActiveMoves DEF OracleBondTypeOK
    <2>4. activeCount' = activeCount - Demotion(a, left)
      BY DEF Slash
    <2>5. QED
      BY <2>1, <2>3, <2>4 DEF ActiveCountExact, ActiveOnes
  <1>6. OracleBondTypeOK'
    <2>1. GuardTypeOK' /\ claimableAt' \in [Addresses -> Nat] /\ held' \in Int
      BY <1>1 DEF Slash, OracleBondTypeOK, GuardTypeOK, guardVars
    <2>2. /\ signerOf' \in [Addresses -> Addresses \cup {NoAddress}]
          /\ operatorOfSigner' \in [Addresses -> Addresses \cup {NoAddress}]
          /\ boundTo' \in [Addresses -> Addresses \cup {NoAddress}]
      BY LeaveForGoodTypes DEF Slash, OracleBondTypeOK, signerVars
    <2>3. QED
      BY <1>3, <1>5, <2>1, <2>2 DEF Slash, OracleBondTypeOK, OnlyMoves, ruleVars
  <1>7. RecordsAreFunded'
    BY <1>2, <1>3, <1>4 DEF RecordsAreFunded, OnlyMoves, BondOf, StatusOf
  <1>8. ActiveCountExact'
    BY <1>5 DEF ActiveCountExact, ActiveOnes
  <1>9. SignersPaired' /\ SignersBound'
    <2>1. CASE left = 0
      BY <1>1, <1>2, <1>3, <1>4, <2>1, LeavingKeepsSigners DEF Slash
    <2>2. CASE left # 0
      <3>1. UNCHANGED signerVars
        BY <2>2 DEF Slash
      <3>2. \A x \in Addresses : StatusOf(x)' = "None" <=> StatusOf(x) = "None"
        BY <1>1, <1>2, <1>3, <1>4, <2>2 DEF OnlyMoves, StatusOf
      <3>3. QED
        BY <3>1, <3>2 DEF SignersPaired, SignersBound, signerVars
    <2>3. QED
      BY <2>1, <2>2
  <1>10. ExitsRecorded'
    <2>1. StatusAfterSlash(a, left) = "Exiting" => left # 0 /\ StatusOf(a) = "Exiting"
      BY DEF StatusAfterSlash
    <2>2. left # 0 => claimableAt' = claimableAt
      BY DEF Slash
    <2>3. \A x \in Addresses \ {a} : claimableAt'[x] = claimableAt[x]
      BY DEF Slash, OracleBondTypeOK
    <2>4. QED
      BY <1>3, <1>4, <2>1, <2>2, <2>3 DEF ExitsRecorded, OnlyMoves, StatusOf
  <1>11. HeldIsTheBonds'
    <2>1. held' - held = BondOf(a)' - BondOf(a)
      BY <1>1, <1>4 DEF Slash, OracleBondTypeOK
    <2>2. QED
      BY <1>3, <1>6, <2>1, HeldMoves DEF OracleBondTypeOK
  <1>12. QED
    BY <1>6, <1>7, <1>8, <1>9, <1>10, <1>11

LEMMA BondGovernanceKeeps ==
    ASSUME OracleBondInv, GovernanceNext
    PROVE  OracleBondInv'
  <1>1. UNCHANGED <<now, guardVars, recordVars, signerVars>>
    BY DEF GovernanceNext, SetBondAmount, SetBondPeriod, SetSlashBeneficiary, GrantSlasher, RevokeSlasher
  <1>2. /\ bondAmount' \in Nat \ {0} /\ bondPeriod' \in MIN_BOND_UNBONDING..MAX_BOND_UNBONDING
        /\ slashBeneficiary' \in Officials /\ slashers' \subseteq Officials
    BY OracleBondAssumption DEF OracleBondInv, OracleBondTypeOK, GovernanceNext, SetBondAmount, SetBondPeriod,
       SetSlashBeneficiary, GrantSlasher, RevokeSlasher
  <1>3. QED
    BY <1>1, <1>2 DEF OracleBondInv, OracleBondTypeOK, GuardTypeOK, guardVars, recordVars, signerVars,
       RecordsAreFunded, ActiveCountExact, SignersPaired, SignersBound, ExitsRecorded, HeldIsTheBonds, StatusOf, BondOf

------------------------------------------------------------------------------
(* The invariant.                                                          *)

LEMMA OracleBondInvInit == OracleBondInit => OracleBondInv
  <1> SUFFICES ASSUME OracleBondInit PROVE OracleBondInv
    OBVIOUS
  <1> USE BondNumbers, OracleBondAssumption
  <1> DEFINE named(a) == \E o \in LegacyOperators : LegacySigner[o] = a
  <1>1. PICK leaving \in SUBSET LegacyOperators :
            /\ operators = [a \in Addresses |->
                   [bond |-> IF a \in LegacyOperators THEN bondAmount ELSE 0,
                    status |-> IF a \in leaving THEN "Exiting"
                               ELSE IF a \in LegacyOperators THEN "Active" ELSE "None",
                    unbondingAt |-> IF a \in leaving THEN now ELSE 0]]
            /\ activeCount = Cardinality(LegacyOperators \ leaving)
    BY DEF OracleBondInit, BondRegistryInit
  <1>2. /\ GuardTypeOK /\ now \in Nat /\ bondAmount \in Nat \ {0}
        /\ bondPeriod \in MIN_BOND_UNBONDING..MAX_BOND_UNBONDING
        /\ claimableAt = [a \in Addresses |-> 0] /\ boundTo = [a \in Addresses |-> NoAddress]
        /\ signerOf = [a \in Addresses |-> IF a \in LegacyOperators THEN LegacySigner[a] ELSE NoAddress]
        /\ operatorOfSigner = [a \in Addresses |->
               IF named(a) THEN CHOOSE o \in LegacyOperators : LegacySigner[o] = a ELSE NoAddress]
    BY DEF OracleBondInit, BondRegistryInit, GuardInit, GuardTypeOK
  <1>3. \A a \in Addresses :
            /\ named(a) => /\ operatorOfSigner[a] \in LegacyOperators
                           /\ LegacySigner[operatorOfSigner[a]] = a
            /\ ~named(a) => operatorOfSigner[a] = NoAddress
    BY <1>2
  <1>4. ActiveOnes = LegacyOperators \ leaving
    BY <1>1 DEF ActiveOnes, StatusOf
  <1>5. IsFiniteSet(LegacyOperators) /\ IsFiniteSet(ActiveOnes)
    BY <1>4, FS_Subset
  <1>6. OracleBondTypeOK
    <2>1. operators \in [Addresses -> OperatorRecord]
      BY <1>1, <1>2 DEF OperatorRecord, BondStatus
    <2>2. operatorOfSigner \in [Addresses -> Addresses \cup {NoAddress}]
      BY <1>2, <1>3
    <2>3. activeCount \in Nat
      BY <1>1, <1>4, <1>5, FS_CardinalityType
    <2>4. held \in Int
      <3>1. Cardinality(LegacyOperators) \in Nat
        BY <1>5, FS_CardinalityType
      <3>2. QED
        BY <1>2, <3>1 DEF OracleBondInit, BondRegistryInit
    <2>5. QED
      BY <1>2, <2>1, <2>2, <2>3, <2>4 DEF OracleBondTypeOK, OracleBondInit, BondRegistryInit
  <1>7. RecordsAreFunded
    BY <1>1, <1>2 DEF RecordsAreFunded, BondOf, StatusOf
  <1>8. ActiveCountExact
    BY <1>1, <1>4 DEF ActiveCountExact, ActiveOnes
  <1>9. SignersPaired
    <2> SUFFICES ASSUME NEW a \in Addresses, NEW s \in Addresses
                 PROVE  /\ signerOf[a] = s <=> operatorOfSigner[s] = a
                        /\ signerOf[a] = s => /\ StatusOf(a) # "None"
                                              /\ StatusOf(s) = "None" /\ signerOf[s] = NoAddress
      BY DEF SignersPaired
    <2>1. signerOf[a] = s <=> a \in LegacyOperators /\ LegacySigner[a] = s
      BY <1>2
    <2>2. operatorOfSigner[s] = a <=> a \in LegacyOperators /\ LegacySigner[a] = s
      BY <1>3
    <2>3. a \in LegacyOperators /\ LegacySigner[a] = s => s \notin LegacyOperators
      OBVIOUS
    <2>4. QED
      BY <1>1, <1>2, <2>1, <2>2, <2>3 DEF StatusOf
  <1>10. SignersBound /\ ExitsRecorded
    BY <1>2 DEF SignersBound, ExitsRecorded
  <1>11. HeldIsTheBonds
    <2> DEFINE bonds == [a \in Addresses |-> IF a \in LegacyOperators THEN bondAmount ELSE 0]
    <2>1. [a \in Addresses |-> BondOf(a)] = bonds
      BY <1>1 DEF BondOf
    <2>2. Total(bonds) = Cardinality(LegacyOperators) * bondAmount
      BY <1>2, TotalOfEqual
    <2>3. held = Cardinality(LegacyOperators) * bondAmount
      BY DEF OracleBondInit, BondRegistryInit
    <2>4. QED
      BY <2>1, <2>2, <2>3 DEF HeldIsTheBonds
  <1>12. QED
    BY <1>6, <1>7, <1>8, <1>9, <1>10, <1>11 DEF OracleBondInv

LEMMA OracleBondInvStep == OracleBondInv /\ [OracleBondNext]_oracleBondVars => OracleBondInv'
  <1> SUFFICES ASSUME OracleBondInv, [OracleBondNext]_oracleBondVars PROVE OracleBondInv'
    OBVIOUS
  <1>1. CASE (Tick \/ GuardNext) /\ UNCHANGED bondRegistryVars
    <2>1. GuardTypeOK'
      BY <1>1, GuardMovesType DEF OracleBondInv, OracleBondTypeOK
    <2>2. QED
      BY <1>1, <2>1 DEF OracleBondInv, OracleBondTypeOK, bondRegistryVars, recordVars, signerVars, ruleVars,
         RecordsAreFunded, ActiveCountExact, SignersPaired, SignersBound, ExitsRecorded, HeldIsTheBonds, StatusOf,
         BondOf
  <1>2. ASSUME NEW a \in Addresses, OperatorNext(a) PROVE OracleBondInv'
    <2>1. CASE \E received \in BondDeposits : DepositBond(a, received)
      BY <2>1, DepositBondKeeps
    <2>2. CASE StartExit(a)
      BY <2>2, StartExitKeeps
    <2>3. CASE WithdrawBond(a)
      BY <2>3, WithdrawBondKeeps
    <2>4. CASE \E s \in Addresses : SetSigner(a, s)
      BY <2>4, SetSignerKeeps
    <2>5. CASE ClearSigner(a)
      BY <2>5, ClearSignerKeeps
    <2>6. CASE Admit(a)
      BY <2>6, AdmitKeeps
    <2>7. CASE \E amount \in 1..MaxBond : Slash(a, amount)
      BY <2>7, SlashKeeps
    <2>8. QED
      BY <1>2, <2>1, <2>2, <2>3, <2>4, <2>5, <2>6, <2>7 DEF OperatorNext
  <1>3. CASE GovernanceNext
    BY <1>3, BondGovernanceKeeps
  <1>4. CASE UNCHANGED oracleBondVars
    BY <1>4 DEF oracleBondVars, guardVars, bondRegistryVars, recordVars, signerVars, ruleVars, OracleBondInv,
       OracleBondTypeOK, GuardTypeOK, RecordsAreFunded, ActiveCountExact, SignersPaired, SignersBound,
       ExitsRecorded, HeldIsTheBonds, StatusOf, BondOf
  <1>5. QED
    BY <1>1, <1>2, <1>3, <1>4 DEF OracleBondNext, BondRegistryNext

\* Whatever operators, signers, the slasher and the admin do, in any order: records are well formed and funded,
\* activeCount is the number of Active operators, signerOf and operatorOfSigner are each other's inverse, a key
\* is bound to no other operator than the one it speaks for, recorded times to leave are not early, and the
\* contract holds exactly the bonds on its books.
THEOREM RecordsAndSignersAgree == OracleBondSpec => []OracleBondInv
  <1> QED
    BY OracleBondInvInit, OracleBondInvStep, PTL DEF OracleBondSpec

------------------------------------------------------------------------------
(* What a step may do to a key.                                            *)

\* A key is left alone; becomes an operator's own address; is released, bound to whom it spoke for; or is named
\* by an operator it was bound to, if it was bound at all.
KeyMoves(k) ==
    \/ operatorOfSigner'[k] = operatorOfSigner[k] /\ boundTo'[k] = boundTo[k]
    \/ operatorOfSigner[k] = NoAddress /\ operatorOfSigner'[k] = NoAddress /\ boundTo'[k] = k
    \/ /\ operatorOfSigner[k] # NoAddress /\ boundTo[k] \in {NoAddress, operatorOfSigner[k]}
       /\ operatorOfSigner'[k] = NoAddress /\ boundTo'[k] = operatorOfSigner[k]
    \/ /\ operatorOfSigner[k] = NoAddress /\ operatorOfSigner'[k] \in Addresses \ {k}
       /\ boundTo[k] \in {NoAddress, operatorOfSigner'[k]} /\ boundTo'[k] = operatorOfSigner'[k]

\* The end of an operator's record moves its own address and its key's.
LEMMA LeavingMovesKeys ==
    ASSUME OracleBondInv, NEW a \in Addresses, StatusOf(a) # "None", LeaveForGood(a), NEW k \in Addresses
    PROVE  KeyMoves(k)
  <1> USE BondNumbers DEF OracleBondInv, OracleBondTypeOK
  <1>1. operatorOfSigner[a] = NoAddress /\ (signerOf[a] = k <=> operatorOfSigner[k] = a)
    BY DEF SignersPaired
  <1>2. operatorOfSigner'[k] = IF signerOf[a] = k THEN NoAddress ELSE operatorOfSigner[k]
    BY DEF LeaveForGood
  <1>3. CASE k = a
    <2>1. boundTo'[k] = k
      BY <1>3 DEF LeaveForGood, Bind
    <2>2. QED
      BY <1>1, <1>2, <1>3, <2>1 DEF KeyMoves
  <1>4. CASE k # a /\ signerOf[a] = k
    <2>1. boundTo[k] \in {NoAddress, a}
      BY <1>1, <1>4 DEF SignersBound
    <2>2. boundTo'[k] = a
      BY <1>4, <2>1 DEF LeaveForGood, Bind
    <2>3. QED
      BY <1>1, <1>2, <1>4, <2>1, <2>2 DEF KeyMoves
  <1>5. CASE k # a /\ signerOf[a] # k
    <2>1. boundTo'[k] = boundTo[k]
      BY <1>5 DEF LeaveForGood, Bind
    <2>2. QED
      BY <1>2, <1>5, <2>1 DEF KeyMoves
  <1>6. QED
    BY <1>3, <1>4, <1>5

\* Naming a key moves it and the one it replaces.
LEMMA NamingMovesKeys ==
    ASSUME OracleBondInv, NEW a \in Addresses, NEW s \in Addresses, SetSigner(a, s), NEW k \in Addresses
    PROVE  KeyMoves(k)
  <1> USE BondNumbers DEF OracleBondInv, OracleBondTypeOK
  <1>1. /\ s # a /\ operatorOfSigner[s] = NoAddress /\ boundTo[s] \in {NoAddress, a}
        /\ signerOf[a] # s /\ (signerOf[a] = k <=> operatorOfSigner[k] = a)
    BY DEF SetSigner, MayName, IsFree, SignersPaired
  <1>2. operatorOfSigner'[k] =
            IF k = s THEN a ELSE IF k = signerOf[a] THEN NoAddress ELSE operatorOfSigner[k]
    BY DEF SetSigner
  <1>3. CASE k = s
    <2>1. boundTo'[k] = a
      BY <1>1, <1>3 DEF SetSigner, Bind
    <2>2. QED
      BY <1>1, <1>2, <1>3, <2>1 DEF KeyMoves
  <1>4. CASE k # s /\ signerOf[a] = k
    <2>1. boundTo[k] \in {NoAddress, a}
      BY <1>1, <1>4 DEF SignersBound
    <2>2. boundTo'[k] = a
      BY <1>4, <2>1 DEF SetSigner, Bind
    <2>3. QED
      BY <1>1, <1>2, <1>4, <2>1, <2>2 DEF KeyMoves
  <1>5. CASE k # s /\ signerOf[a] # k
    <2>1. boundTo'[k] = boundTo[k]
      BY <1>5 DEF SetSigner, Bind
    <2>2. QED
      BY <1>2, <1>5, <2>1 DEF KeyMoves
  <1>6. QED
    BY <1>3, <1>4, <1>5

LEMMA ReleasingMovesKeys ==
    ASSUME OracleBondInv, NEW a \in Addresses, ClearSigner(a), NEW k \in Addresses
    PROVE  KeyMoves(k)
  <1> USE BondNumbers DEF OracleBondInv, OracleBondTypeOK
  <1>1. /\ signerOf[a] = k <=> operatorOfSigner[k] = a
        /\ operatorOfSigner[k] # NoAddress => boundTo[k] \in {NoAddress, operatorOfSigner[k]}
    BY DEF SignersPaired, SignersBound
  <1>2. operatorOfSigner'[k] = IF signerOf[a] = k THEN NoAddress ELSE operatorOfSigner[k]
    BY DEF ClearSigner, ClearSignerOf
  <1>3. boundTo'[k] = IF signerOf[a] = k /\ boundTo[k] = NoAddress THEN a ELSE boundTo[k]
    BY DEF ClearSigner, ClearSignerOf, Bind
  <1>4. QED
    BY <1>1, <1>2, <1>3 DEF KeyMoves

LEMMA StepMovesKeys ==
    ASSUME OracleBondInv, [OracleBondNext]_oracleBondVars, NEW k \in Addresses
    PROVE  KeyMoves(k)
  <1>1. ASSUME UNCHANGED signerVars PROVE KeyMoves(k)
    BY <1>1 DEF KeyMoves, signerVars
  <1>2. ASSUME NEW a \in Addresses, OperatorNext(a) PROVE KeyMoves(k)
    <2>1. ASSUME NEW received \in BondDeposits, DepositBond(a, received) PROVE KeyMoves(k)
      <3>1. operatorOfSigner[a] = NoAddress /\ UNCHANGED operatorOfSigner
        BY <2>1 DEF DepositBond
      <3>2. boundTo'[k] = IF k = a THEN k ELSE boundTo[k]
        BY <2>1 DEF DepositBond, OracleBondInv, OracleBondTypeOK
      <3>3. QED
        BY <3>1, <3>2 DEF KeyMoves
    <2>2. CASE WithdrawBond(a)
      BY <2>2, LeavingMovesKeys DEF WithdrawBond
    <2>3. ASSUME NEW s \in Addresses, SetSigner(a, s) PROVE KeyMoves(k)
      BY <2>3, NamingMovesKeys
    <2>4. CASE ClearSigner(a)
      BY <2>4, ReleasingMovesKeys
    <2>5. ASSUME NEW amount \in 1..MaxBond, Slash(a, amount) PROVE KeyMoves(k)
      <3>1. StatusOf(a) # "None"
        BY <2>5, BondNumbers DEF Slash, OracleBondInv, RecordsAreFunded, OracleBondTypeOK, OperatorRecord, BondOf
      <3>2. UNCHANGED signerVars \/ LeaveForGood(a)
        BY <2>5 DEF Slash
      <3>3. QED
        BY <1>1, <3>1, <3>2, LeavingMovesKeys
    <2>6. CASE StartExit(a) \/ Admit(a)
      BY <1>1, <2>6 DEF StartExit, Admit
    <2>7. QED
      BY <1>2, <2>1, <2>2, <2>3, <2>4, <2>5, <2>6 DEF OperatorNext
  <1>3. CASE GovernanceNext
    BY <1>1, <1>3 DEF GovernanceNext, SetBondAmount, SetBondPeriod, SetSlashBeneficiary, GrantSlasher, RevokeSlasher
  <1>4. CASE UNCHANGED bondRegistryVars \/ UNCHANGED oracleBondVars
    BY <1>1, <1>4 DEF oracleBondVars, bondRegistryVars
  <1>5. QED
    BY <1>2, <1>3, <1>4 DEF OracleBondNext, BondRegistryNext

\* What is once out of an operator's reach never comes back to it: whatever a key does after it spoke for
\* somebody else, or was bound elsewhere, the operator cannot name it.
THEOREM LostKeysStayLost == OracleBondSpec => KeysStayOutOfReach
  <1>1. OracleBondInv /\ [OracleBondNext]_oracleBondVars =>
            [\A k, o \in Addresses : k # o /\ OutOfReach(k, o) => OutOfReach(k, o)']_oracleBondVars
    <2> SUFFICES ASSUME OracleBondInv, [OracleBondNext]_oracleBondVars,
                        NEW k \in Addresses, NEW o \in Addresses, k # o, OutOfReach(k, o)
                 PROVE  OutOfReach(k, o)'
      OBVIOUS
    <2>1. KeyMoves(k)
      BY StepMovesKeys
    <2>2. QED
      BY <2>1, BondNumbers DEF KeyMoves, OutOfReach
  <1>2. QED
    BY <1>1, RecordsAndSignersAgree, PTL DEF OracleBondSpec, KeysStayOutOfReach

\* An address that has spoken for one operator never speaks for another: once k spoke for o it does so still, or
\* speaks for nobody and is bound to o or to itself.
THEOREM SignersAreNotReused == OracleBondSpec => KeysAreNotReused
  <1> SUFFICES ASSUME NEW k \in Addresses, NEW o \in Addresses
               PROVE  OracleBondSpec =>
                          [](operatorOfSigner[k] = o => [](operatorOfSigner[k] \in {o, NoAddress}))
    BY DEF KeysAreNotReused
  <1> DEFINE Mine == \/ operatorOfSigner[k] = o
                     \/ operatorOfSigner[k] = NoAddress /\ boundTo[k] \in {o, k}
  <1>1. OracleBondInv /\ [OracleBondNext]_oracleBondVars => (Mine => Mine')
    <2> SUFFICES ASSUME OracleBondInv, [OracleBondNext]_oracleBondVars, Mine PROVE Mine'
      OBVIOUS
    <2>1. KeyMoves(k)
      BY StepMovesKeys
    <2>2. QED
      BY <2>1, BondNumbers DEF KeyMoves
  <1>2. operatorOfSigner[k] = o => Mine
    OBVIOUS
  <1>3. Mine => operatorOfSigner[k] \in {o, NoAddress}
    OBVIOUS
  <1> HIDE DEF Mine
  <1>4. QED
    BY <1>1, <1>2, <1>3, RecordsAndSignersAgree, PTL DEF OracleBondSpec

------------------------------------------------------------------------------
(* Who leaves waits, and nobody waits longer than it was told.             *)

\* What one step does to one operator's exit.
Patient(a) ==
    /\ StatusOf(a) = "Exiting" /\ StatusOf(a)' = "Exiting" => claimableAt'[a] = claimableAt[a]
    /\ BondOf(a)' < BondOf(a) /\ slashers = {} =>
           /\ StatusOf(a) = "Exiting"
           /\ now >= operators[a].unbondingAt + MIN_BOND_UNBONDING

LEMMA StepIsPatient ==
    ASSUME OracleBondInv, [OracleBondNext]_oracleBondVars, NEW a \in Addresses
    PROVE  Patient(a)
  <1>1. /\ operators[a] \in OperatorRecord /\ claimableAt[a] \in Nat /\ now \in Nat
        /\ bondPeriod \in Nat /\ bondPeriod >= MIN_BOND_UNBONDING
        /\ BondOf(a) \in Nat /\ operators[a].unbondingAt \in Nat
    BY BondNumbers DEF OracleBondInv, OracleBondTypeOK, GuardTypeOK, OperatorRecord, BondOf
  <1>2. ASSUME operators'[a] = operators[a], claimableAt'[a] = claimableAt[a] PROVE Patient(a)
    BY <1>1, <1>2 DEF Patient, BondOf, StatusOf
  <1>3. ASSUME NEW x \in Addresses, OperatorNext(x) PROVE Patient(a)
    <2>1. ASSUME NEW received \in BondDeposits, DepositBond(x, received) PROVE Patient(a)
      <3>1. CASE x = a
        <4>1. StatusOf(a) # "Exiting" /\ BondOf(a)' = BondOf(a) + received /\ received \in Nat
          BY <1>1, <2>1, <3>1, BondNumbers
             DEF DepositBond, OracleBondInv, OracleBondTypeOK, OperatorRecord, BondOf, StatusOf
        <4>2. QED
          BY <1>1, <4>1 DEF Patient
      <3>2. CASE x # a
        BY <1>2, <2>1, <3>2 DEF DepositBond, OracleBondInv, OracleBondTypeOK
      <3>3. QED
        BY <3>1, <3>2
    <2>2. CASE StartExit(x)
      <3>1. CASE x = a
        BY <1>1, <2>2, <3>1 DEF StartExit, Patient, OracleBondInv, OracleBondTypeOK, OperatorRecord, BondOf, StatusOf
      <3>2. CASE x # a
        BY <1>2, <2>2, <3>2 DEF StartExit, OracleBondInv, OracleBondTypeOK
      <3>3. QED
        BY <3>1, <3>2
    <2>3. CASE WithdrawBond(x)
      <3>1. CASE x = a
        <4>1. StatusOf(a) = "Exiting" /\ StatusOf(a)' # "Exiting" /\ now >= ExitAt(a)
          BY <2>3, <3>1 DEF WithdrawBond, OracleBondInv, OracleBondTypeOK, StatusOf
        <4>2. claimableAt[a] # 0 => claimableAt[a] >= operators[a].unbondingAt + MIN_BOND_UNBONDING
          BY <4>1 DEF OracleBondInv, ExitsRecorded
        <4>3. now >= operators[a].unbondingAt + MIN_BOND_UNBONDING
          BY <1>1, <4>1, <4>2, BondNumbers DEF ExitAt
        <4>4. QED
          BY <4>1, <4>3 DEF Patient
      <3>2. CASE x # a
        BY <1>2, <2>3, <3>2 DEF WithdrawBond, OracleBondInv, OracleBondTypeOK
      <3>3. QED
        BY <3>1, <3>2
    <2>4. CASE (\E s \in Addresses : SetSigner(x, s)) \/ ClearSigner(x)
      BY <1>2, <2>4 DEF SetSigner, ClearSigner, recordVars
    <2>5. CASE Admit(x)
      <3>1. claimableAt' = claimableAt /\ BondOf(a)' = BondOf(a)
        BY <1>1, <2>5 DEF Admit, OracleBondInv, OracleBondTypeOK, OperatorRecord, BondOf
      <3>2. QED
        BY <1>1, <3>1 DEF Patient
    <2>6. ASSUME NEW amount \in 1..MaxBond, Slash(x, amount) PROVE Patient(a)
      <3>1. CASE x = a
        <4>1. slashers # {}
          BY <2>6 DEF Slash
        <4>2. StatusOf(a)' = "Exiting" => claimableAt' = claimableAt
          BY <1>1, <2>6, <3>1 DEF Slash, StatusAfterSlash, OracleBondInv, OracleBondTypeOK, StatusOf, BondOf
        <4>3. QED
          BY <4>1, <4>2 DEF Patient
      <3>2. CASE x # a
        BY <1>2, <2>6, <3>2 DEF Slash, OracleBondInv, OracleBondTypeOK
      <3>3. QED
        BY <3>1, <3>2
    <2>7. QED
      BY <1>3, <2>1, <2>2, <2>3, <2>4, <2>5, <2>6 DEF OperatorNext
  <1>4. CASE GovernanceNext
    BY <1>2, <1>4
       DEF GovernanceNext, SetBondAmount, SetBondPeriod, SetSlashBeneficiary, GrantSlasher, RevokeSlasher, recordVars
  <1>5. CASE UNCHANGED bondRegistryVars \/ UNCHANGED oracleBondVars
    BY <1>2, <1>5 DEF oracleBondVars, bondRegistryVars, recordVars
  <1>6. QED
    BY <1>3, <1>4, <1>5 DEF OracleBondNext, BondRegistryNext

\* Once an operator starts to leave no change of the period moves its date, and while nobody holds SLASHER_ROLE
\* its bond goes nowhere before the minimum cooldown is over.
THEOREM ExitsArePatient == OracleBondSpec => ExitIsPatient
  <1>1. OracleBondInv /\ [OracleBondNext]_oracleBondVars => [\A a \in Addresses : Patient(a)]_oracleBondVars
    BY StepIsPatient
  <1>2. QED
    BY <1>1, RecordsAndSignersAgree, PTL DEF OracleBondSpec, ExitIsPatient, Patient

------------------------------------------------------------------------------
(* The pause, beside any steps of the registry it is read by.              *)

\* No pause lasts past the length of the latest one, and none is dated ahead.
PausesInside ==
    \A r \in Registries : lastPausedAt[r] <= now /\ pausedUntil[r] <= lastPausedAt[r] + PAUSE_DURATION

LEMMA GuardVarsMove ==
    ASSUME [OracleBondNext]_oracleBondVars
    PROVE  Tick \/ GuardNext \/ UNCHANGED <<now, guardVars>>
  BY DEF OracleBondNext, BondRegistryNext, OperatorNext, GovernanceNext, DepositBond, StartExit, WithdrawBond, SetSigner,
         ClearSigner, Admit, Slash, SetBondAmount, SetBondPeriod, SetSlashBeneficiary, GrantSlasher, RevokeSlasher,
         oracleBondVars

LEMMA PausesInsideStep ==
    ASSUME GuardTypeOK, PausesInside, [OracleBondNext]_oracleBondVars
    PROVE  PausesInside'
  <1>1. CASE Tick
    BY <1>1 DEF GuardTypeOK, PausesInside, Tick, guardVars
  <1>2. ASSUME NEW r \in Registries, PauseInflows(r) PROVE PausesInside'
    BY <1>2, InflowGuardAssumption DEF GuardTypeOK, PausesInside, PauseInflows
  <1>3. ASSUME NEW r \in Registries, ResumeInflows(r) PROVE PausesInside'
    BY <1>3, InflowGuardAssumption DEF GuardTypeOK, PausesInside, ResumeInflows
  <1>4. CASE UNCHANGED <<now, guardVars>>
    BY <1>4 DEF PausesInside, guardVars
  <1> QED BY <1>1, <1>2, <1>3, <1>4, GuardVarsMove DEF GuardNext

\* A guardian cannot hold inflows shut: a registry is closed only inside the length of its latest pause, and
\* reopening early does not bring the next pause forward (InflowGuard.sol, pauseInflows and resumeInflows).
THEOREM PausesAreBounded == OracleBondSpec => PauseIsBounded
  <1>1. OracleBondInit => PausesInside
    <2> SUFFICES ASSUME GuardInit, NEW r \in Registries
                 PROVE  lastPausedAt[r] <= now /\ pausedUntil[r] <= lastPausedAt[r] + PAUSE_DURATION
      BY DEF OracleBondInit, PausesInside
    <2>1. now = 1 /\ lastPausedAt[r] = 0 /\ pausedUntil[r] = 0
      BY DEF GuardInit
    <2>2. PAUSE_DURATION \in Nat
      BY InflowGuardAssumption
    <2> QED BY <2>1, <2>2
  <1>2. OracleBondInv /\ PausesInside /\ [OracleBondNext]_oracleBondVars => PausesInside'
    BY PausesInsideStep DEF OracleBondInv, OracleBondTypeOK
  <1>3. OracleBondInv /\ PausesInside /\ [OracleBondNext]_oracleBondVars =>
            [\A r \in Registries :
                 /\ ~InflowsOpen(r) => now < lastPausedAt[r] + PAUSE_DURATION
                 /\ InflowsOpen(r) /\ ~InflowsOpen(r)' =>
                        lastPausedAt[r] = 0 \/ now - (lastPausedAt[r] + PAUSE_DURATION) >= PAUSE_COOLDOWN
                 /\ lastPausedAt'[r] >= lastPausedAt[r]]_<<now, guardVars>>
    <2> SUFFICES ASSUME OracleBondInv, PausesInside, [OracleBondNext]_oracleBondVars, NEW r \in Registries
                 PROVE  /\ ~InflowsOpen(r) => now < lastPausedAt[r] + PAUSE_DURATION
                        /\ InflowsOpen(r) /\ ~InflowsOpen(r)' =>
                               lastPausedAt[r] = 0 \/ now - (lastPausedAt[r] + PAUSE_DURATION) >= PAUSE_COOLDOWN
                        /\ lastPausedAt'[r] >= lastPausedAt[r]
      OBVIOUS
    <2>1. /\ now \in Nat /\ pausedUntil[r] \in Nat /\ lastPausedAt[r] \in Nat
          /\ PAUSE_DURATION \in Nat /\ PAUSE_COOLDOWN \in Nat
          /\ lastPausedAt[r] <= now /\ pausedUntil[r] <= lastPausedAt[r] + PAUSE_DURATION
      BY InflowGuardAssumption DEF OracleBondInv, OracleBondTypeOK, GuardTypeOK, PausesInside
    <2>2. CASE pausedUntil'[r] = pausedUntil[r] /\ lastPausedAt'[r] = lastPausedAt[r] /\ now' \in {now, now + 1}
      BY <2>1, <2>2 DEF InflowsOpen
    <2>3. CASE PauseInflows(r)
      BY <2>1, <2>3 DEF PauseInflows, InflowsOpen, OracleBondInv, OracleBondTypeOK, GuardTypeOK
    <2>4. CASE ResumeInflows(r)
      BY <2>1, <2>4 DEF ResumeInflows, InflowsOpen, OracleBondInv, OracleBondTypeOK, GuardTypeOK
    <2>5. CASE Tick \/ UNCHANGED <<now, guardVars>>
      BY <2>2, <2>5 DEF Tick, guardVars
    <2>6. ASSUME NEW q \in Registries, q # r, PauseInflows(q) \/ ResumeInflows(q)
          PROVE  pausedUntil'[r] = pausedUntil[r] /\ lastPausedAt'[r] = lastPausedAt[r] /\ now' = now
      BY <2>6 DEF PauseInflows, ResumeInflows, OracleBondInv, OracleBondTypeOK, GuardTypeOK
    <2> QED BY <2>2, <2>3, <2>4, <2>5, <2>6, GuardVarsMove DEF GuardNext
  <1> QED BY <1>1, <1>2, <1>3, RecordsAndSignersAgree, PTL DEF OracleBondSpec, PauseIsBounded

------------------------------------------------------------------------------
(* The score registry and the fee vault.                                   *)

LEMMA ScoreNumbers ==
    /\ \A p \in Proposals : /\ p = [score |-> p.score, root |-> p.root]
                            /\ p.score \in Nat /\ p.root \in Roots /\ p.root # NoRoot
    /\ DAY \in Nat \ {0} /\ MIN_CHALLENGE_WINDOW \in Nat \ {0} /\ MAX_CHALLENGE_WINDOW \in Nat
    /\ MIN_CHALLENGE_WINDOW..MAX_CHALLENGE_WINDOW \subseteq Nat
    /\ MAX_MATURITY_RATE_PER_DAY \in Nat
    /\ InitialRates \subseteq 0..MAX_MATURITY_RATE_PER_DAY /\ LegacyPending \subseteq Agents
  BY ReputationAssumption DEF Roots

\* What ReputationInv says of one agent.
AgentOK(d) ==
    /\ standing[d] = "slashed" => /\ reputations[d].score = 0 /\ maturedScore[d] = 0
                                  /\ ~pendingScores[d].exists /\ evidenceRoots[d] = NoRoot
    /\ IF evidenceRoots[d] = NoRoot THEN reputations[d].score = 0
       ELSE [score |-> reputations[d].score, root |-> evidenceRoots[d]] \in Proposals
    /\ pendingScores[d].proposedAt <= now
    /\ pendingScores[d].exists =>
           /\ [score |-> pendingScores[d].score, root |-> pendingScores[d].root] \in Proposals
           /\ reputations[d].lastUpdated <= pendingScores[d].proposedAt
    /\ pendingScores[d].finalizableAt # 0 =>
           pendingScores[d].finalizableAt >= pendingScores[d].proposedAt + MIN_CHALLENGE_WINDOW
    /\ reputations[d].lastUpdated <= now /\ maturedAt[d] <= now /\ operatorChangedAt[d] <= now

LEMMA AgentByAgent ==
    ReputationInv <=> ReputationTypeOK /\ \A d \in Agents : AgentOK(d)
  BY DEF ReputationInv, SlashedHasNothing, EvidenceBehindScore, PendingInOrder, DatesArePast, AgentOK

\* The tables of the agents, each with what it holds.
TablesOK ==
    /\ reputations \in [Agents -> [score : Nat, lastUpdated : Nat]]
    /\ evidenceRoots \in [Agents -> Roots \cup {NoRoot}]
    /\ pendingScores \in [Agents -> PendingScore]
    /\ maturedScore \in [Agents -> Nat]
    /\ maturedAt \in [Agents -> Nat]
    /\ standing \in [Agents -> {"bonded", "unbonded", "slashed"}]
    /\ operatorChangedAt \in [Agents -> Nat]

\* Nothing that is kept of an agent changes.
AgentStays(d) ==
    /\ reputations'[d] = reputations[d] /\ evidenceRoots'[d] = evidenceRoots[d]
    /\ pendingScores'[d] = pendingScores[d]
    /\ maturedScore'[d] = maturedScore[d] /\ maturedAt'[d] = maturedAt[d]
    /\ standing'[d] = standing[d] /\ operatorChangedAt'[d] = operatorChangedAt[d]

LEMMA WhoStaysIsOK ==
    ASSUME ReputationInv, OracleBondInv, now' \in Nat, now' >= now, NEW d \in Agents, AgentStays(d)
    PROVE  AgentOK(d)'
  <1>1. AgentOK(d)
    BY AgentByAgent
  <1>2. /\ now \in Nat /\ reputations[d].lastUpdated \in Nat /\ maturedAt[d] \in Nat
        /\ operatorChangedAt[d] \in Nat /\ pendingScores[d].proposedAt \in Nat
    BY DEF ReputationInv, ReputationTypeOK, PendingScore, OracleBondInv, OracleBondTypeOK, GuardTypeOK
  <1>3. QED
    BY <1>1, <1>2 DEF AgentStays, AgentOK

\* A step that writes of one agent only, at its own instant.
LEMMA OneAgentMoves ==
    ASSUME ReputationInv, OracleBondInv, UNCHANGED <<oracleBondVars, settingVars>>, TablesOK',
           NEW d \in Agents, \A x \in Agents \ {d} : AgentStays(x), AgentOK(d)'
    PROVE  ReputationInv'
  <1>1. now' \in Nat /\ now' >= now
    BY DEF oracleBondVars, OracleBondInv, OracleBondTypeOK, GuardTypeOK
  <1>2. \A x \in Agents : AgentOK(x)'
    BY <1>1, WhoStaysIsOK
  <1>3. ReputationTypeOK'
    BY DEF ReputationInv, ReputationTypeOK, TablesOK, settingVars
  <1>4. QED
    BY <1>2, <1>3, AgentByAgent DEF ReputationInv, ReputationTypeOK, SlashedHasNothing, EvidenceBehindScore,
       PendingInOrder, DatesArePast, AgentOK

LEMMA NothingPendingType == NothingPending \in PendingScore
  BY DEF NothingPending, PendingScore

------------------------------------------------------------------------------
(* ReputationInv is kept, one lemma per operation.                         *)

LEMMA ProposeKeeps ==
    ASSUME ReputationInv, OracleBondInv, NEW d \in Agents, NEW k \in Addresses, NEW p \in Proposals,
           Propose(d, k, p)
    PROVE  ReputationInv'
  <1>1. /\ now \in Nat \ {0} /\ challengeWindow \in Nat /\ challengeWindow >= MIN_CHALLENGE_WINDOW
        /\ p.score \in Nat /\ p.root \in Roots /\ p = [score |-> p.score, root |-> p.root]
    BY ScoreNumbers DEF ReputationInv, ReputationTypeOK, OracleBondInv, OracleBondTypeOK, GuardTypeOK
  <1>2. SpeaksFor(k) \in Addresses \cup {NoAddress}
    BY DEF SpeaksFor, OracleBondInv, OracleBondTypeOK
  <1> DEFINE answerer == IF operatorBondSet THEN SpeaksFor(k) ELSE NoAddress
             new == [exists |-> TRUE, score |-> p.score, root |-> p.root, proposedAt |-> now,
                     proposer |-> k, finalizableAt |-> now + challengeWindow, onBehalfOf |-> answerer]
  <1>3. answerer \in Addresses \cup {NoAddress}
    BY <1>2
  <1>4. pendingScores' = [pendingScores EXCEPT ![d] = new]
    BY DEF Propose
  <1> HIDE DEF answerer
  <1>5. new \in PendingScore
    BY <1>1, <1>3 DEF PendingScore
  <1>6. TablesOK' /\ \A x \in Agents \ {d} : AgentStays(x)
    <2> HIDE DEF new
    <2>1. UNCHANGED <<reputations, evidenceRoots, maturedScore, maturedAt, standing, operatorChangedAt>>
      BY DEF Propose, scoreVars, registryVars
    <2>2. TablesOK
      BY DEF TablesOK, ReputationInv, ReputationTypeOK
    <2>3. TablesOK'
      BY ONLY <1>4, <1>5, <2>1, <2>2 DEF TablesOK
    <2>4. \A x \in Agents \ {d} : AgentStays(x)
      BY ONLY <1>4, <2>1, <2>2 DEF AgentStays, TablesOK
    <2> QED
      BY <2>3, <2>4
  <1>7. AgentOK(d)'
    <2>1. AgentOK(d) /\ standing[d] = "bonded" /\ reputations[d].lastUpdated \in Nat
      BY AgentByAgent DEF Propose, Scorable, ReputationInv, ReputationTypeOK
    <2>2. pendingScores'[d] = new
      BY <1>4 DEF ReputationInv, ReputationTypeOK
    <2>3. UNCHANGED <<now, scoreVars, registryVars>>
      BY DEF Propose, oracleBondVars
    <2>4. QED
      BY <1>1, <2>1, <2>2, <2>3, ScoreNumbers DEF AgentOK, scoreVars, registryVars
  <1>8. QED
    BY <1>6, <1>7, OneAgentMoves DEF Propose

\* A zeroing empties everything the registry keeps of the agent.
LEMMA ZeroKeeps ==
    ASSUME ReputationInv, OracleBondInv, NEW d \in Agents, ZeroReputation(d)
    PROVE  ReputationInv'
  <1>1. now \in Nat /\ operatorChangedAt[d] \in Nat /\ operatorChangedAt[d] <= now
    BY DEF ReputationInv, ReputationTypeOK, DatesArePast, OracleBondInv, OracleBondTypeOK, GuardTypeOK
  <1>2. /\ [score |-> 0, lastUpdated |-> now] \in [score : Nat, lastUpdated : Nat]
        /\ NothingPending \in PendingScore
    BY <1>1, NothingPendingType
  <1>3. TablesOK' /\ \A x \in Agents \ {d} : AgentStays(x)
    <2> HIDE DEF NothingPending
    <2> QED
      BY <1>1, <1>2 DEF TablesOK, AgentStays, ZeroReputation, ZeroedPending, ZeroedRoots, ReputationInv, ReputationTypeOK
  <1>4. AgentOK(d)'
    BY <1>1 DEF AgentOK, ZeroReputation, ZeroedPending, ZeroedRoots, NothingPending, ReputationInv, ReputationTypeOK,
       oracleBondVars
  <1>5. QED
    BY <1>3, <1>4, OneAgentMoves DEF ZeroReputation

LEMMA RejectKeeps ==
    ASSUME ReputationInv, OracleBondInv, NEW d \in Agents, RejectReputation(d)
    PROVE  ReputationInv'
  <1>1. now \in Nat
    BY DEF OracleBondInv, OracleBondTypeOK, GuardTypeOK
  <1>2. TablesOK' /\ \A x \in Agents \ {d} : AgentStays(x)
    BY NothingPendingType DEF TablesOK, AgentStays, RejectReputation, scoreVars, registryVars, ReputationInv, ReputationTypeOK
  <1>3. AgentOK(d)'
    <2>1. AgentOK(d)
      BY AgentByAgent
    <2>2. QED
      BY <1>1, <2>1 DEF AgentOK, RejectReputation, NothingPending, scoreVars, registryVars, oracleBondVars,
         ReputationInv, ReputationTypeOK
  <1>4. QED
    BY <1>2, <1>3, OneAgentMoves DEF RejectReputation

\* The bond of an agent comes and goes, or the agent changes hands.
LEMMA OutsideKeeps ==
    ASSUME ReputationInv, OracleBondInv, NEW d \in Agents, BondMoves(d) \/ AgentIsSold(d)
    PROVE  ReputationInv'
  <1>1. now \in Nat
    BY DEF OracleBondInv, OracleBondTypeOK, GuardTypeOK
  <1>2. TablesOK' /\ \A x \in Agents \ {d} : AgentStays(x)
    BY <1>1 DEF TablesOK, AgentStays, BondMoves, AgentIsSold, scoreVars, ReputationInv, ReputationTypeOK
  <1>3. AgentOK(d)'
    <2>1. AgentOK(d) /\ standing'[d] # "slashed"
      BY AgentByAgent DEF BondMoves, AgentIsSold, ReputationInv, ReputationTypeOK
    <2>2. QED
      BY <1>1, <2>1 DEF AgentOK, BondMoves, AgentIsSold, scoreVars, oracleBondVars, ReputationInv, ReputationTypeOK
  <1>4. QED
    BY <1>2, <1>3, OneAgentMoves DEF BondMoves, AgentIsSold

LEMMA SettingsKeep ==
    ASSUME ReputationInv, OracleBondInv, Settings
    PROVE  ReputationInv'
  <1>1. UNCHANGED <<oracleBondVars, scoreVars, pendingScores, registryVars>>
    BY DEF Settings, SetChallengeWindow, SetMaturityRate, InitializeV3, SetOperatorBond, SetOracle, SettingFrame
  <1>2. /\ challengeWindow' \in MIN_CHALLENGE_WINDOW..MAX_CHALLENGE_WINDOW
        /\ maturityRatePerDay' \in InitialRates \cup 1..MAX_MATURITY_RATE_PER_DAY
        /\ operatorBondSet' \in BOOLEAN /\ identitySet' \in BOOLEAN /\ oracles' \subseteq Addresses
    BY DEF Settings, SetChallengeWindow, SetMaturityRate, InitializeV3, SetOperatorBond, SetOracle,
           ReputationInv, ReputationTypeOK
  <1>3. QED
    BY <1>1, <1>2 DEF scoreVars, registryVars, oracleBondVars, ReputationInv, ReputationTypeOK, SlashedHasNothing,
       EvidenceBehindScore, PendingInOrder, DatesArePast

\* The clock, the pauses and the bond registry move on by themselves.
LEMMA BondStepKeeps ==
    ASSUME ReputationInv, OracleBondInv, OracleBondInv', OracleBondNext \/ UNCHANGED oracleBondVars,
           UNCHANGED reputationVars
    PROVE  ReputationInv'
  <1>1. now \in Nat /\ now' \in Nat /\ now' >= now
    <2>1. now \in Nat /\ now' \in Nat
      BY DEF OracleBondInv, OracleBondTypeOK, GuardTypeOK
    <2>2. BondRegistryNext => now' = now
      BY DEF BondRegistryNext, OperatorNext, GovernanceNext, DepositBond, StartExit, WithdrawBond, SetSigner, ClearSigner,
             Admit, Slash, SetBondAmount, SetBondPeriod, SetSlashBeneficiary, GrantSlasher, RevokeSlasher
    <2>3. Tick \/ GuardNext => now' >= now
      BY GuardMovesType DEF OracleBondInv, OracleBondTypeOK
    <2>4. QED
      BY <2>1, <2>2, <2>3 DEF OracleBondNext, oracleBondVars
  <1>2. \A d \in Agents : AgentOK(d)'
    BY <1>1, WhoStaysIsOK DEF AgentStays, reputationVars, scoreVars, registryVars
  <1>3. ReputationTypeOK'
    BY DEF ReputationInv, ReputationTypeOK, reputationVars, scoreVars, registryVars, settingVars
  <1>4. QED
    BY <1>2, <1>3 DEF ReputationInv, ReputationTypeOK, SlashedHasNothing, EvidenceBehindScore, PendingInOrder,
       DatesArePast, AgentOK

------------------------------------------------------------------------------
(* Division, which scores are released by.                                 *)

LEMMA DivisionIsExact ==
    ASSUME NEW m \in Nat, NEW r \in Nat \ {0}
    PROVE  /\ m \div r \in Nat /\ m % r \in Nat /\ m % r < r
           /\ (m \div r) * r + (m % r) = m
  OBVIOUS

LEMMA ProductIsNat == \A m, n \in Nat : m * n \in Nat
  OBVIOUS

\* Whole units of time cannot exceed the time whose progress they come from.
LEMMA DivisionIsBounded ==
    ASSUME NEW m \in Nat, NEW e \in Nat, NEW r \in Nat \ {0}, m <= e * r
    PROVE  m \div r <= e
  OBVIOUS

\* Where maturity stands is a number, and a finalization restarts it no later than now.
LEMMA MaturityTypes ==
    ASSUME ReputationInv, OracleBondInv, NEW d \in Agents
    PROVE  /\ now \in Nat /\ maturityRatePerDay \in 0..MAX_MATURITY_RATE_PER_DAY /\ reputations[d].score \in Nat
           /\ Since(d) \in Nat /\ Since(d) <= now /\ Anchor(d) \in Nat
           /\ Maturing(d) => maturityRatePerDay # 0
           /\ Spendable(d) \in Nat
           /\ MaturityClock(d) \in Since(d)..now
  <1>1. /\ now \in Nat /\ reputations[d].score \in Nat /\ maturityRatePerDay \in 0..MAX_MATURITY_RATE_PER_DAY
        /\ maturedAt[d] \in 0..now /\ maturedScore[d] \in Nat /\ operatorChangedAt[d] \in 0..now
    BY ScoreNumbers DEF ReputationInv, ReputationTypeOK, DatesArePast, OracleBondInv, OracleBondTypeOK, GuardTypeOK
  <1>2. Since(d) \in Nat /\ Since(d) <= now /\ Anchor(d) \in Nat
    BY <1>1 DEF Since, Anchor
  <1>3. Maturing(d) => maturityRatePerDay # 0
    BY DEF Maturing
  <1> DEFINE e == now - Since(d)
             progress == e * maturityRatePerDay
             m == progress % DAY
  <1>4. e \in Nat /\ progress \in Nat
    BY <1>1, <1>2, ScoreNumbers, ProductIsNat
  <1>5. progress \div DAY \in Nat /\ m \in Nat /\ m <= progress
    <2> HIDE DEF progress
    <2>1. /\ progress \div DAY \in Nat /\ m \in Nat
          /\ (progress \div DAY) * DAY + m = progress
      BY <1>4, ScoreNumbers, DivisionIsExact
    <2>2. (progress \div DAY) * DAY \in Nat
      BY <2>1, ScoreNumbers, ProductIsNat
    <2>3. QED
      BY <2>1, <2>2
  <1>6. Spendable(d) \in Nat
    BY <1>1, <1>2, <1>5 DEF Spendable, Released
  <1>7. MaturityClock(d) \in Since(d)..now
    <2>1. CASE Maturing(d)
      <3>1. maturityRatePerDay \in Nat \ {0} /\ m <= e * maturityRatePerDay
        BY <1>1, <1>3, <1>5, <2>1, ScoreNumbers
      <3>2. m \div maturityRatePerDay \in 0..e
        <4> HIDE DEF e, m
        <4> QED
          BY <1>4, <1>5, <3>1, DivisionIsBounded, DivisionIsExact
      <3>3. MaturityClock(d) = now - (m \div maturityRatePerDay)
        BY <2>1 DEF MaturityClock
      <3>4. QED
        BY <1>1, <1>2, <3>2, <3>3
    <2>2. CASE ~Maturing(d)
      BY <1>1, <1>2, <2>2 DEF MaturityClock
    <2>3. QED
      BY <2>1, <2>2
  <1>8. QED
    BY <1>1, <1>2, <1>3, <1>6, <1>7

LEMMA FinalizeKeeps ==
    ASSUME ReputationInv, OracleBondInv, NEW d \in Agents, FinalizeReputation(d)
    PROVE  ReputationInv'
  <1> DEFINE p == pendingScores[d]
             live == [score |-> p.score, lastUpdated |-> p.proposedAt]
  <1>1. /\ p \in PendingScore /\ p.exists /\ AgentOK(d) /\ standing[d] = "bonded"
        /\ now \in Nat /\ Spendable(d) \in Nat /\ MaturityClock(d) \in 0..now
    BY AgentByAgent, MaturityTypes DEF FinalizeReputation, MayGoLive, Scorable, ReputationInv, ReputationTypeOK
  <1>2. /\ p.score \in Nat /\ p.proposedAt \in Nat /\ p.proposedAt <= now /\ p.root \in Roots \cup {NoRoot}
        /\ [score |-> p.score, root |-> p.root] \in Proposals /\ live \in [score : Nat, lastUpdated : Nat]
    BY <1>1 DEF AgentOK, PendingScore
  <1>3. p.root # NoRoot
    BY <1>2, ScoreNumbers
  <1>4. /\ reputations' = [reputations EXCEPT ![d] = live]
        /\ evidenceRoots' = [evidenceRoots EXCEPT ![d] = p.root]
        /\ pendingScores' = [pendingScores EXCEPT ![d] = NothingPending]
        /\ maturedScore' = [maturedScore EXCEPT ![d] = Spendable(d)]
        /\ maturedAt' = [maturedAt EXCEPT ![d] = MaturityClock(d)]
        /\ UNCHANGED <<oracleBondVars, settingVars, registryVars>>
    BY DEF FinalizeReputation, NextAnchor
  <1>5. TablesOK' /\ \A x \in Agents \ {d} : AgentStays(x)
    <2> HIDE DEF live, p
    <2> QED
      BY <1>1, <1>2, <1>4, NothingPendingType DEF TablesOK, AgentStays, registryVars, ReputationInv, ReputationTypeOK
  <1>6. AgentOK(d)'
    <2>1. /\ reputations'[d] = live /\ evidenceRoots'[d] = p.root /\ pendingScores'[d] = NothingPending
          /\ maturedAt'[d] <= now /\ standing'[d] = "bonded"
          /\ operatorChangedAt'[d] = operatorChangedAt[d] /\ now' = now
      BY <1>1, <1>4 DEF ReputationInv, ReputationTypeOK, registryVars, oracleBondVars
    <2>2. operatorChangedAt[d] <= now
      BY <1>1 DEF AgentOK
    <2>3. QED
      BY <1>1, <1>2, <1>3, <2>1, <2>2 DEF AgentOK, NothingPending
  <1>7. QED
    BY <1>4, <1>5, <1>6, OneAgentMoves

------------------------------------------------------------------------------
(* The invariant.                                                          *)

LEMMA ReputationInvInit == Init => ReputationInv
  <1> SUFFICES ASSUME Init PROVE ReputationInv
    OBVIOUS
  <1>1. PICK q \in Proposals :
            pendingScores = [d \in Agents |->
                IF d \in LegacyPending
                THEN [NothingPending EXCEPT !.exists = TRUE, !.score = q.score, !.root = q.root, !.proposedAt = now]
                ELSE NothingPending]
    BY DEF Init, ReputationInit
  <1> DEFINE legacy == [NothingPending EXCEPT !.exists = TRUE, !.score = q.score, !.root = q.root, !.proposedAt = now]
  <1>2. /\ q.score \in Nat /\ q.root \in Roots /\ q = [score |-> q.score, root |-> q.root] /\ now = 1
    BY ScoreNumbers DEF Init, GuardInit
  <1>3. /\ legacy \in PendingScore /\ legacy.exists /\ legacy.score = q.score /\ legacy.root = q.root
        /\ legacy.proposedAt = now /\ legacy.finalizableAt = 0
    BY <1>2 DEF NothingPending, PendingScore
  <1>4. ReputationTypeOK
    <2> HIDE DEF legacy
    <2>1. pendingScores \in [Agents -> PendingScore]
      BY <1>1, <1>3, NothingPendingType DEF legacy
    <2>2. QED
      BY <2>1 DEF Init, ReputationInit, ReputationTypeOK
  <1>5. \A d \in Agents : AgentOK(d)
    <2> TAKE d \in Agents
    <2>1. pendingScores[d] = legacy \/ pendingScores[d] = NothingPending
      BY <1>1
    <2>2. /\ reputations[d].score = 0 /\ reputations[d].lastUpdated = 0 /\ evidenceRoots[d] = NoRoot
          /\ maturedAt[d] = 0 /\ operatorChangedAt[d] = 0 /\ standing[d] = "bonded"
      BY DEF Init, ReputationInit
    <2> HIDE DEF legacy
    <2>3. QED
      BY <1>2, <1>3, <2>1, <2>2 DEF AgentOK, NothingPending
  <1>6. QED
    BY <1>4, <1>5, AgentByAgent

LEMMA BondSteps == [Next]_vars => [OracleBondNext]_oracleBondVars
  <1> SUFFICES ASSUME [Next]_vars PROVE [OracleBondNext]_oracleBondVars
    OBVIOUS
  <1>1. CASE Settings
    BY <1>1 DEF Settings, SetChallengeWindow, SetMaturityRate, InitializeV3, SetOperatorBond, SetOracle, SettingFrame
  <1>2. ASSUME NEW d \in Agents, NEW k \in Addresses, NEW p \in Proposals,
               ProposeReputation(d, k, p) \/ ProposeIfEmpty(d, k, p)
        PROVE  UNCHANGED oracleBondVars
    BY <1>2 DEF ProposeReputation, ProposeIfEmpty, Propose
  <1>3. ASSUME NEW d \in Agents, \/ FinalizeReputation(d) \/ RejectReputation(d) \/ ZeroReputation(d)
                                 \/ BondMoves(d) \/ AgentIsSold(d)
        PROVE  UNCHANGED oracleBondVars
    BY <1>3 DEF FinalizeReputation, RejectReputation, ZeroReputation, BondMoves, AgentIsSold
  <1>4. CASE UNCHANGED vars
    BY <1>4 DEF vars
  <1>5. QED
    BY <1>1, <1>2, <1>3, <1>4 DEF Next

LEMMA ReputationInvStep ==
    ASSUME ReputationInv, OracleBondInv, [Next]_vars
    PROVE  ReputationInv' /\ OracleBondInv'
  <1>1. [OracleBondNext]_oracleBondVars
    BY BondSteps
  <1>2. OracleBondInv'
    BY <1>1, OracleBondInvStep
  <1>3. CASE OracleBondNext /\ UNCHANGED reputationVars
    BY <1>2, <1>3, BondStepKeeps
  <1>4. CASE Settings
    BY <1>2, <1>4, SettingsKeep
  <1>5. ASSUME NEW d \in Agents, NEW k \in Addresses, NEW p \in Proposals,
               ProposeReputation(d, k, p) \/ ProposeIfEmpty(d, k, p)
        PROVE  ReputationInv'
    BY <1>5, ProposeKeeps DEF ProposeReputation, ProposeIfEmpty
  <1>6. ASSUME NEW d \in Agents, FinalizeReputation(d) PROVE ReputationInv'
    BY <1>6, FinalizeKeeps
  <1>7. ASSUME NEW d \in Agents, RejectReputation(d) PROVE ReputationInv'
    BY <1>7, RejectKeeps
  <1>8. ASSUME NEW d \in Agents, ZeroReputation(d) PROVE ReputationInv'
    BY <1>8, ZeroKeeps
  <1>9. ASSUME NEW d \in Agents, BondMoves(d) \/ AgentIsSold(d) PROVE ReputationInv'
    BY <1>9, OutsideKeeps
  <1>10. CASE UNCHANGED vars
    BY <1>2, <1>10, BondStepKeeps DEF vars
  <1>11. QED
    BY <1>2, <1>3, <1>4, <1>5, <1>6, <1>7, <1>8, <1>9, <1>10 DEF Next

\* ReputationInv is an invariant, with that of the bond registry it asks: a live score has the evidence it was
\* proposed with, a pending one a whole window, and an agent that was slashed has nothing left.
THEOREM ScoresAreInOrder == Spec => []ReputationInv
  <1>1. Init => ReputationInv /\ OracleBondInv
    BY ReputationInvInit, OracleBondInvInit DEF Init, OracleBondInit
  <1>2. (ReputationInv /\ OracleBondInv) /\ [Next]_vars => (ReputationInv /\ OracleBondInv)'
    BY ReputationInvStep
  <1>3. QED
    BY <1>1, <1>2, PTL DEF Spec

------------------------------------------------------------------------------
(* What a step may do to a score.                                          *)

\* The three things that happen to what is kept of an agent, seen from outside.
AgentSteps(d) ==
    \/ FinalizeReputation(d)
    \/ ZeroReputation(d)
    \/ /\ reputations'[d] = reputations[d] /\ maturedScore'[d] = maturedScore[d] /\ maturedAt'[d] = maturedAt[d]
       /\ AgentIsSold(d) \/ operatorChangedAt'[d] = operatorChangedAt[d]

LEMMA EveryAgentSteps ==
    ASSUME ReputationInv, [Next]_vars, NEW d \in Agents
    PROVE  AgentSteps(d)
  <1>1. CASE UNCHANGED <<scoreVars, operatorChangedAt>>
    BY <1>1 DEF AgentSteps, scoreVars
  <1>2. CASE Settings
    BY <1>1, <1>2 DEF Settings, SetChallengeWindow, SetMaturityRate, InitializeV3, SetOperatorBond, SetOracle,
       SettingFrame, registryVars
  <1>3. ASSUME NEW x \in Agents, NEW k \in Addresses, NEW p \in Proposals,
               ProposeReputation(x, k, p) \/ ProposeIfEmpty(x, k, p)
        PROVE  AgentSteps(d)
    BY <1>1, <1>3 DEF ProposeReputation, ProposeIfEmpty, Propose, registryVars
  <1>4. ASSUME NEW x \in Agents, RejectReputation(x) \/ BondMoves(x) PROVE AgentSteps(d)
    BY <1>1, <1>4 DEF RejectReputation, BondMoves, registryVars
  <1>5. ASSUME NEW x \in Agents, FinalizeReputation(x) PROVE AgentSteps(d)
    <2>1. CASE x = d
      BY <1>5, <2>1 DEF AgentSteps
    <2>2. CASE x # d
      BY <1>5, <2>2 DEF AgentSteps, FinalizeReputation, registryVars, ReputationInv, ReputationTypeOK
    <2>3. QED
      BY <2>1, <2>2
  <1>6. ASSUME NEW x \in Agents, ZeroReputation(x) PROVE AgentSteps(d)
    <2>1. CASE x = d
      BY <1>6, <2>1 DEF AgentSteps
    <2>2. CASE x # d
      BY <1>6, <2>2 DEF AgentSteps, ZeroReputation, ReputationInv, ReputationTypeOK
    <2>3. QED
      BY <2>1, <2>2
  <1>7. ASSUME NEW x \in Agents, AgentIsSold(x) PROVE AgentSteps(d)
    <2>1. CASE x = d
      BY <1>7, <2>1 DEF AgentSteps, AgentIsSold, scoreVars
    <2>2. CASE x # d
      BY <1>7, <2>2 DEF AgentSteps, AgentIsSold, scoreVars, ReputationInv, ReputationTypeOK
    <2>3. QED
      BY <2>1, <2>2
  <1>8. CASE UNCHANGED reputationVars \/ UNCHANGED vars
    BY <1>1, <1>8 DEF vars, reputationVars, registryVars
  <1>9. QED
    BY <1>2, <1>3, <1>4, <1>5, <1>6, <1>7, <1>8 DEF Next

\* What one step may do to one agent's scores.
Reviewed(d) ==
    LET p == pendingScores[d] IN
    /\ reputations'[d] # reputations[d] /\ standing'[d] # "slashed" =>
           /\ p.exists /\ now >= p.proposedAt + MIN_CHALLENGE_WINDOW
           /\ reputations'[d].lastUpdated \in reputations[d].lastUpdated..p.proposedAt
    /\ p.finalizableAt # 0 /\ pendingScores'[d] = p => FinalizableAt(d)' = FinalizableAt(d)

LEMMA StepsAreReviewed ==
    ASSUME ReputationInv, OracleBondInv, [Next]_vars, NEW d \in Agents
    PROVE  Reviewed(d)
  <1> DEFINE p == pendingScores[d]
  <1>1. /\ AgentOK(d) /\ now \in Nat /\ p.proposedAt \in Nat /\ p.finalizableAt \in Nat
        /\ challengeWindow \in Nat /\ challengeWindow >= MIN_CHALLENGE_WINDOW /\ reputations[d].lastUpdated \in Nat
    BY AgentByAgent, ScoreNumbers
       DEF ReputationInv, ReputationTypeOK, PendingScore, OracleBondInv, OracleBondTypeOK, GuardTypeOK
  <1>2. p.finalizableAt # 0 /\ pendingScores'[d] = p => FinalizableAt(d)' = FinalizableAt(d)
    BY DEF FinalizableAt
  <1>3. ASSUME reputations'[d] # reputations[d], standing'[d] # "slashed"
        PROVE  /\ p.exists /\ now >= p.proposedAt + MIN_CHALLENGE_WINDOW
               /\ reputations'[d].lastUpdated \in reputations[d].lastUpdated..p.proposedAt
    <2>1. FinalizeReputation(d)
      <3>1. ~ZeroReputation(d)
        BY <1>3 DEF ZeroReputation, ReputationInv, ReputationTypeOK
      <3>2. QED
        BY <1>3, <3>1, EveryAgentSteps DEF AgentSteps
    <2>2. p.exists /\ now >= FinalizableAt(d) /\ reputations'[d].lastUpdated = p.proposedAt
      BY <2>1 DEF FinalizeReputation, MayGoLive, ReputationInv, ReputationTypeOK
    <2>3. FinalizableAt(d) >= p.proposedAt + MIN_CHALLENGE_WINDOW /\ FinalizableAt(d) \in Nat
      BY <1>1, ScoreNumbers DEF FinalizableAt, AgentOK
    <2>4. QED
      BY <1>1, <2>2, <2>3, ScoreNumbers DEF AgentOK
  <1>4. QED
    BY <1>2, <1>3 DEF Reviewed

\* A score goes live only after the committee had the whole minimum window to reject it, whatever the admin does
\* to the window meanwhile, never older than the one it replaces, and an end of a window once set does not move.
THEOREM ScoresAreReviewed == Spec => OnlyReviewedScores
  <1>1. ReputationInv /\ OracleBondInv /\ [Next]_vars => [\A d \in Agents : Reviewed(d)]_vars
    BY StepsAreReviewed
  <1>2. Init => ReputationInv /\ OracleBondInv
    BY ReputationInvInit, OracleBondInvInit DEF Init, OracleBondInit
  <1>3. (ReputationInv /\ OracleBondInv) /\ [Next]_vars => (ReputationInv /\ OracleBondInv)'
    BY ReputationInvStep
  <1>4. QED
    BY <1>1, <1>2, <1>3, PTL DEF Spec, OnlyReviewedScores, Reviewed

------------------------------------------------------------------------------
(* Maturity.                                                               *)

LEMMA DivisionIsMonotone ==
    ASSUME NEW m \in Nat, NEW n \in Nat, NEW r \in Nat \ {0}, m <= n
    PROVE  m \div r <= n \div r
  OBVIOUS

LEMMA DivisionShifts ==
    ASSUME NEW q \in Nat, NEW m \in Nat, NEW r \in Nat \ {0}
    PROVE  (q * r + m) \div r = q + (m \div r)
  OBVIOUS

LEMMA ProductIsMonotone ==
    ASSUME NEW m \in Nat, NEW n \in Nat, NEW r \in Nat, NEW s \in Nat, m <= n, r <= s
    PROVE  m * r <= n * s
  <1>1. m * r <= n * r
    OBVIOUS
  <1>2. n * r <= n * s
    OBVIOUS
  <1>3. QED
    BY <1>1, <1>2, ProductIsNat

\* What was released from an anchor is paid for by the time since.
LEMMA ReleasedIsPaidFor ==
    ASSUME NEW anchor \in Nat, NEW since \in Nat, NEW rate \in Nat, NEW time \in Nat, since <= time
    PROVE  /\ Released(anchor, since, rate, time) \in Nat
           /\ anchor <= Released(anchor, since, rate, time)
           /\ Released(anchor, since, rate, time) * DAY <= anchor * DAY + (time - since) * rate
  <1> DEFINE progress == (time - since) * rate
  <1>1. progress \in Nat
    BY ProductIsNat
  <1> HIDE DEF progress
  <1>2. progress \div DAY \in Nat /\ (progress \div DAY) * DAY <= progress
    BY <1>1, ScoreNumbers, DivisionIsExact, ProductIsNat
  <1>3. (anchor + (progress \div DAY)) * DAY = anchor * DAY + (progress \div DAY) * DAY
    BY <1>2, ScoreNumbers
  <1>4. anchor * DAY \in Nat /\ (progress \div DAY) * DAY \in Nat
    BY <1>2, ScoreNumbers, ProductIsNat
  <1>5. Released(anchor, since, rate, time) = anchor + (progress \div DAY)
    BY DEF Released, progress
  <1>6. QED
    BY <1>1, <1>2, <1>3, <1>4, <1>5 DEF progress

\* The clock a finalization sets: what it gives back is no more than the progress toward the next point, and less
\* than a unit short of it.
LEMMA ClockGivesBack ==
    ASSUME ReputationInv, OracleBondInv, NEW d \in Agents, Maturing(d)
    PROVE  \E e, c, q, m \in Nat :
               /\ e = now - Since(d) /\ MaturityClock(d) = now - c /\ c <= e
               /\ e * maturityRatePerDay = q * DAY + m /\ m < DAY
               /\ Spendable(d) = Anchor(d) + q
               /\ c * maturityRatePerDay <= m /\ m < (c + 1) * maturityRatePerDay
  <1> DEFINE rate == maturityRatePerDay
             e == now - Since(d)
             progress == e * rate
             m == progress % DAY
             q == progress \div DAY
             c == m \div rate
  <1>1. now \in Nat /\ rate \in Nat \ {0} /\ e \in Nat /\ Anchor(d) \in Nat /\ MaturityClock(d) \in Since(d)..now /\ Since(d) \in Nat
    BY MaturityTypes, ScoreNumbers
  <1>2. progress \in Nat
    BY <1>1, ProductIsNat
  <1>3. MaturityClock(d) = now - c /\ Spendable(d) = Anchor(d) + q
    BY DEF MaturityClock, Spendable, Released
  <1>4. q \in Nat /\ m \in Nat /\ m < DAY /\ progress = q * DAY + m
    <2> HIDE DEF progress
    <2> QED
      BY <1>2, ScoreNumbers, DivisionIsExact
  <1>5. c \in Nat /\ c * rate <= m /\ m < (c + 1) * rate
    <2> HIDE DEF m, rate
    <2>1. c \in Nat /\ m % rate \in Nat /\ m % rate < rate /\ c * rate + (m % rate) = m
      BY <1>1, <1>4, DivisionIsExact
    <2>2. (c + 1) * rate = c * rate + rate /\ c * rate \in Nat
      BY <1>1, <2>1, ProductIsNat
    <2>3. QED
      BY <1>1, <1>4, <2>1, <2>2
  <1>6. c <= e
    BY <1>1, <1>3, <1>5
  <1> HIDE DEF e, q, m, c
  <1>7. e * rate = q * DAY + m
    BY <1>4 DEF e
  <1>8. QED
    BY <1>1, <1>3, <1>4, <1>5, <1>6, <1>7 DEF e

\* Finalizing changes what is released from here on by less than a unit of time, and never upwards.
LEMMA PaceIsKept == ReputationInv /\ OracleBondInv => FinalizeKeepsPace
  <1> SUFFICES ASSUME ReputationInv, OracleBondInv, NEW d \in Agents, Maturing(d), NEW t \in now..(now + 2 * DAY)
               PROVE  LET rate    == maturityRatePerDay
                          renewed == Released(NextAnchor(d), MaturityClock(d), rate, t)
                      IN  /\ renewed <= Released(Anchor(d), Since(d), rate, t)
                          /\ t > now => renewed >= Released(Anchor(d), Since(d), rate, t - 1)
    BY DEF FinalizeKeepsPace
  <1> DEFINE rate == maturityRatePerDay
             u == t - now
  <1>1. now \in Nat /\ rate \in Nat \ {0} /\ Anchor(d) \in Nat /\ Since(d) \in Nat /\ u \in Nat /\ t \in Nat /\ DAY \in Nat \ {0}
    BY MaturityTypes, ScoreNumbers
  <1>2. PICK e, c, q, m \in Nat :
            /\ e = now - Since(d) /\ MaturityClock(d) = now - c /\ c <= e
            /\ e * rate = q * DAY + m /\ m < DAY
            /\ Spendable(d) = Anchor(d) + q
            /\ c * rate <= m /\ m < (c + 1) * rate
    BY ClockGivesBack
  <1>3. Released(NextAnchor(d), MaturityClock(d), rate, t) = (Anchor(d) + q) + (((u + c) * rate) \div DAY)
    <2>1. t - MaturityClock(d) = u + c
      BY <1>1, <1>2
    <2>2. QED
      BY <1>2, <2>1 DEF Released, NextAnchor
  <1>4. ASSUME NEW v \in Nat
        PROVE  Anchor(d) + (((e + v) * rate) \div DAY) = (Anchor(d) + q) + ((v * rate + m) \div DAY)
    <2>1. (e + v) * rate = q * DAY + (v * rate + m) /\ v * rate \in Nat
      <3>1. (e + v) * rate = e * rate + v * rate
        BY <1>1
      <3>2. v * rate \in Nat /\ q * DAY \in Nat
        BY <1>1, ProductIsNat
      <3>3. QED
        BY <1>2, <3>1, <3>2
    <2>2. (q * DAY + (v * rate + m)) \div DAY = q + ((v * rate + m) \div DAY)
      <3> DEFINE x == v * rate + m
      <3>1. x \in Nat
        BY <2>1
      <3> HIDE DEF x
      <3>2. (q * DAY + x) \div DAY = q + (x \div DAY)
        <4>1. q \in Nat /\ DAY \in Nat \ {0}
          BY <1>1, <1>2
        <4> QED
          BY ONLY <3>1, <4>1, DivisionShifts
      <3>3. QED
        BY <3>2 DEF x
    <2>3. (v * rate + m) \div DAY \in Nat
      BY <1>1, <2>1, DivisionIsExact
    <2>4. QED
      BY <1>1, <2>1, <2>2, <2>3
  <1>5. (u + c) * rate = u * rate + c * rate /\ u * rate \in Nat /\ c * rate \in Nat
    BY <1>1, ProductIsNat
  <1>6. Released(NextAnchor(d), MaturityClock(d), rate, t) <= Released(Anchor(d), Since(d), rate, t)
    <2>1. Released(Anchor(d), Since(d), rate, t) = Anchor(d) + (((e + u) * rate) \div DAY)
      <3>1. t - Since(d) = e + u
        BY <1>1, <1>2
      <3>2. QED
        BY <3>1 DEF Released
    <2>2. ((u + c) * rate) \div DAY <= (u * rate + m) \div DAY
      BY <1>1, <1>2, <1>5, DivisionIsMonotone
    <2>3. ((u + c) * rate) \div DAY \in Nat /\ (u * rate + m) \div DAY \in Nat
      BY <1>1, <1>5, DivisionIsExact
    <2>4. Anchor(d) + (((e + u) * rate) \div DAY) = (Anchor(d) + q) + ((u * rate + m) \div DAY)
      <3> HIDE DEF u, rate
      <3> QED
        BY <1>1, <1>4
    <2> HIDE DEF u, rate
    <2>5. QED
      BY <1>1, <1>3, <2>1, <2>2, <2>3, <2>4
  <1>7. ASSUME t > now
        PROVE  Released(NextAnchor(d), MaturityClock(d), rate, t) >= Released(Anchor(d), Since(d), rate, t - 1)
    <2> DEFINE v == u - 1
    <2>1. v \in Nat /\ u * rate = v * rate + rate /\ v * rate \in Nat
      <3>1. v \in Nat /\ u = v + 1
        BY <1>1, <1>7
      <3> HIDE DEF u, v
      <3>2. (v + 1) * rate = v * rate + rate
        BY <1>1, <3>1
      <3>3. QED
        BY <1>1, <3>1, <3>2, ProductIsNat
    <2>2. Released(Anchor(d), Since(d), rate, t - 1) = Anchor(d) + (((e + v) * rate) \div DAY)
      <3>1. (t - 1) - Since(d) = e + v
        BY <1>1, <1>2
      <3>2. QED
        BY <3>1 DEF Released
    <2>3. v * rate + m <= (u + c) * rate
      <3>1. (c + 1) * rate = c * rate + rate
        BY <1>1
      <3> HIDE DEF u, v
      <3>2. QED
        BY <1>1, <1>2, <1>5, <2>1, <3>1
    <2>4. (v * rate + m) \div DAY <= ((u + c) * rate) \div DAY
      BY <1>1, <1>5, <2>1, <2>3, DivisionIsMonotone
    <2>5. ((u + c) * rate) \div DAY \in Nat /\ (v * rate + m) \div DAY \in Nat
      BY <1>1, <1>5, <2>1, DivisionIsExact
    <2> HIDE DEF v
    <2>6. Anchor(d) + (((e + v) * rate) \div DAY) = (Anchor(d) + q) + ((v * rate + m) \div DAY)
      BY <1>4, <2>1
    <2>7. QED
      BY <1>1, <1>3, <2>2, <2>4, <2>5, <2>6
  <1>8. QED
    BY <1>6, <1>7

\* What an agent had matured before its last finalization, it had earned since the last sale.
MaturedIsEarned ==
    \A d \in Agents : operatorChangedAt[d] # 0 /\ maturedAt[d] > operatorChangedAt[d] =>
        maturedScore[d] * DAY <= (maturedAt[d] - operatorChangedAt[d]) * MAX_MATURITY_RATE_PER_DAY

\* A rate of zero, which a proxy from before maturity has until it is set, releases every score at once.
RateIsSet == maturityRatePerDay # 0

\* While a rate is set, what can be spent is what was released, up to the score.
LEMMA SpendableIsTheLeast ==
    ASSUME ReputationInv, OracleBondInv, RateIsSet, NEW d \in Agents, Since(d) # 0
    PROVE  LET released == Released(Anchor(d), Since(d), maturityRatePerDay, now) IN
           /\ released \in Nat /\ Anchor(d) <= released
           /\ Spendable(d) = IF released < reputations[d].score THEN released ELSE reputations[d].score
  <1> DEFINE released == Released(Anchor(d), Since(d), maturityRatePerDay, now)
  <1>1. /\ now \in Nat /\ maturityRatePerDay \in Nat /\ reputations[d].score \in Nat
        /\ Since(d) \in Nat /\ Since(d) <= now /\ Anchor(d) \in Nat
    BY MaturityTypes, ScoreNumbers
  <1>2. released \in Nat /\ Anchor(d) <= released
    BY <1>1, ReleasedIsPaidFor
  <1>3. Maturing(d) <=> reputations[d].score > Anchor(d) /\ released < reputations[d].score
    BY DEF Maturing, RateIsSet
  <1> HIDE DEF released
  <1>4. Spendable(d) = IF released < reputations[d].score THEN released ELSE reputations[d].score
    BY <1>1, <1>2, <1>3 DEF Spendable, released
  <1>5. QED
    BY <1>2, <1>4 DEF released

\* A buyer's spendable score was earned since the sale, at no more than the highest rate.
LEMMA BuyersEarn ==
    ASSUME ReputationInv, OracleBondInv, RateIsSet, MaturedIsEarned, NEW d \in Agents,
           identitySet, operatorChangedAt[d] # 0
    PROVE  /\ Since(d) # 0 /\ operatorChangedAt[d] \in Nat /\ operatorChangedAt[d] <= Since(d)
           /\ Anchor(d) * DAY <= (Since(d) - operatorChangedAt[d]) * MAX_MATURITY_RATE_PER_DAY
           /\ Spendable(d) * DAY <= (now - operatorChangedAt[d]) * MAX_MATURITY_RATE_PER_DAY
  <1> DEFINE C == operatorChangedAt[d]
             MAX == MAX_MATURITY_RATE_PER_DAY
             rate == maturityRatePerDay
             released == Released(Anchor(d), Since(d), rate, now)
  <1>1. /\ now \in Nat /\ rate \in Nat /\ rate <= MAX /\ MAX \in Nat /\ DAY \in Nat
        /\ Since(d) \in Nat /\ Since(d) <= now /\ Anchor(d) \in Nat /\ Spendable(d) \in Nat
    BY MaturityTypes, ScoreNumbers
  <1>2. C \in Nat \ {0} /\ maturedAt[d] \in Nat /\ maturedScore[d] \in Nat
    BY DEF ReputationInv, ReputationTypeOK
  <1>3. C <= Since(d) /\ Anchor(d) * DAY <= (Since(d) - C) * MAX
    <2>1. CASE Sold(d)
      BY <1>1, <1>2, <2>1 DEF Since, Anchor
    <2>2. CASE ~Sold(d)
      <3>1. maturedAt[d] > C
        BY <1>2, <2>2 DEF Sold
      <3>2. QED
        BY <1>2, <2>2, <3>1 DEF Since, Anchor, MaturedIsEarned
    <2>3. QED
      BY <2>1, <2>2
  <1>4. released \in Nat /\ released * DAY <= Anchor(d) * DAY + (now - Since(d)) * rate
    BY <1>1, ReleasedIsPaidFor
  <1>5. Spendable(d) <= released
    <2>1. Since(d) # 0
      BY <1>1, <1>2, <1>3
    <2>2. reputations[d].score \in Nat
      BY MaturityTypes
    <2> HIDE DEF released
    <2>3. QED
      BY <1>4, <2>1, <2>2, SpendableIsTheLeast DEF released
  <1>6. Spendable(d) * DAY <= (now - C) * MAX
    <2> HIDE DEF released, C, MAX, rate
    <2>1. Spendable(d) * DAY <= released * DAY
      BY <1>1, <1>4, <1>5, ProductIsMonotone
    <2>2. (now - Since(d)) * rate <= (now - Since(d)) * MAX
      <3>1. now - Since(d) \in Nat
        BY <1>1
      <3>2. QED
        BY <1>1, <3>1, ProductIsMonotone
    <2>3. (now - C) * MAX = (now - Since(d)) * MAX + (Since(d) - C) * MAX
      BY <1>1, <1>2
    <2>4. /\ Spendable(d) * DAY \in Int /\ released * DAY \in Int /\ Anchor(d) * DAY \in Int
          /\ (now - Since(d)) * rate \in Int /\ (now - Since(d)) * MAX \in Int /\ (Since(d) - C) * MAX \in Int
      BY <1>1, <1>2, <1>4
    <2>5. QED
      BY <1>3, <1>4, <2>1, <2>2, <2>3, <2>4
  <1>7. QED
    BY <1>1, <1>2, <1>3, <1>6

\* A finalization anchors what was earned by then.
LEMMA FinalizeEarns ==
    ASSUME ReputationInv, OracleBondInv, RateIsSet, MaturedIsEarned, NEW d \in Agents, identitySet,
           operatorChangedAt[d] # 0
    PROVE  Spendable(d) * DAY <= (MaturityClock(d) - operatorChangedAt[d]) * MAX_MATURITY_RATE_PER_DAY
  <1> DEFINE C == operatorChangedAt[d]
             MAX == MAX_MATURITY_RATE_PER_DAY
             rate == maturityRatePerDay
  <1>1. /\ now \in Nat /\ rate \in Nat /\ rate <= MAX /\ MAX \in Nat /\ DAY \in Nat
        /\ Since(d) \in Nat /\ Since(d) <= now /\ Anchor(d) \in Nat
    BY MaturityTypes, ScoreNumbers
  <1>2. /\ C \in Nat /\ C <= Since(d) /\ Anchor(d) * DAY <= (Since(d) - C) * MAX
        /\ Spendable(d) * DAY <= (now - C) * MAX
    BY BuyersEarn
  <1>3. CASE ~Maturing(d)
    BY <1>2, <1>3 DEF MaturityClock
  <1>4. CASE Maturing(d)
    <2>1. PICK e, c, q, m \in Nat :
              /\ e = now - Since(d) /\ MaturityClock(d) = now - c /\ c <= e
              /\ e * rate = q * DAY + m /\ m < DAY
              /\ Spendable(d) = Anchor(d) + q
              /\ c * rate <= m /\ m < (c + 1) * rate
      BY <1>4, ClockGivesBack
    <2> HIDE DEF C, MAX, rate
    <2>2. e - c \in Nat /\ MaturityClock(d) - C = (e - c) + (Since(d) - C)
      BY <1>1, <1>2, <2>1
    <2>3. /\ (e - c) * rate = e * rate - c * rate /\ (e - c) * rate <= (e - c) * MAX
          /\ (Anchor(d) + q) * DAY = Anchor(d) * DAY + q * DAY
          /\ ((e - c) + (Since(d) - C)) * MAX = (e - c) * MAX + (Since(d) - C) * MAX
      <3>1. (e - c) * rate = e * rate - c * rate
        BY <1>1, <2>1
      <3>2. (e - c) * rate <= (e - c) * MAX
        BY <1>1, <2>2, ProductIsMonotone
      <3>3. (Anchor(d) + q) * DAY = Anchor(d) * DAY + q * DAY
        BY <1>1
      <3>4. ((e - c) + (Since(d) - C)) * MAX = (e - c) * MAX + (Since(d) - C) * MAX
        BY <1>1, <1>2
      <3>5. QED
        BY <3>1, <3>2, <3>3, <3>4
    <2>4. /\ Anchor(d) * DAY \in Int /\ q * DAY \in Int /\ e * rate \in Int /\ c * rate \in Int
          /\ (e - c) * rate \in Int /\ (e - c) * MAX \in Int /\ (Since(d) - C) * MAX \in Int
      BY <1>1, <1>2
    <2>5. (Anchor(d) + q) * DAY <= (MaturityClock(d) - C) * MAX
      BY <1>2, <2>1, <2>2, <2>3, <2>4
    <2>6. QED
      BY <2>1, <2>5 DEF C, MAX
  <1>5. QED
    BY <1>3, <1>4

LEMMA EarningsStep ==
    ASSUME ReputationInv, OracleBondInv, RateIsSet, MaturedIsEarned, [Next]_vars
    PROVE  MaturedIsEarned'
  <1> SUFFICES ASSUME NEW d \in Agents, operatorChangedAt'[d] # 0, maturedAt'[d] > operatorChangedAt'[d]
               PROVE  maturedScore'[d] * DAY <=
                          (maturedAt'[d] - operatorChangedAt'[d]) * MAX_MATURITY_RATE_PER_DAY
    BY DEF MaturedIsEarned
  <1>1. /\ now \in Nat /\ maturedAt[d] \in 0..now /\ operatorChangedAt[d] \in 0..now
    BY DEF ReputationInv, ReputationTypeOK, DatesArePast, OracleBondInv, OracleBondTypeOK, GuardTypeOK
  <1>2. CASE FinalizeReputation(d)
    <2>1. /\ identitySet /\ operatorChangedAt'[d] = operatorChangedAt[d]
          /\ maturedScore'[d] = Spendable(d) /\ maturedAt'[d] = MaturityClock(d)
      BY <1>2 DEF FinalizeReputation, MayGoLive, Scorable, NextAnchor, registryVars, ReputationInv, ReputationTypeOK
    <2>2. QED
      BY <2>1, FinalizeEarns
  <1>3. CASE ZeroReputation(d)
    <2>1. maturedScore'[d] = 0 /\ maturedAt'[d] = now /\ operatorChangedAt'[d] = operatorChangedAt[d]
      BY <1>3 DEF ZeroReputation, ReputationInv, ReputationTypeOK
    <2>2. (now - operatorChangedAt[d]) * MAX_MATURITY_RATE_PER_DAY \in Nat
      <3>1. now - operatorChangedAt[d] \in Nat
        BY <1>1
      <3>2. QED
        BY <3>1, ScoreNumbers, ProductIsNat
    <2>3. QED
      BY <2>1, <2>2, ScoreNumbers
  <1>4. CASE AgentIsSold(d)
    BY <1>1, <1>4 DEF AgentIsSold, scoreVars, ReputationInv, ReputationTypeOK
  <1>5. CASE /\ maturedScore'[d] = maturedScore[d] /\ maturedAt'[d] = maturedAt[d]
             /\ operatorChangedAt'[d] = operatorChangedAt[d]
    BY <1>5 DEF MaturedIsEarned
  <1>6. QED
    BY <1>2, <1>3, <1>4, <1>5, EveryAgentSteps DEF AgentSteps

------------------------------------------------------------------------------
(* Nothing rises in an instant.                                            *)

LEMMA FinalizeDoesNotRaise ==
    ASSUME ReputationInv, OracleBondInv, RateIsSet, ReputationInv', OracleBondInv', RateIsSet',
           NEW d \in Agents, FinalizeReputation(d)
    PROVE  Spendable(d)' <= Spendable(d)
  <1> DEFINE rate == maturityRatePerDay
  <1>1. /\ now \in Nat \ {0} /\ now' = now /\ maturityRatePerDay' = rate /\ identitySet' = identitySet /\ identitySet
        /\ maturedScore'[d] = Spendable(d) /\ maturedAt'[d] = MaturityClock(d)
        /\ operatorChangedAt'[d] = operatorChangedAt[d]
    BY DEF FinalizeReputation, MayGoLive, Scorable, NextAnchor, registryVars, settingVars, oracleBondVars,
           ReputationInv, ReputationTypeOK, OracleBondInv, OracleBondTypeOK, GuardTypeOK
  <1>2. /\ rate \in Nat \ {0} /\ Since(d) \in Nat /\ Since(d) <= now /\ Anchor(d) \in Nat /\ Spendable(d) \in Nat
        /\ MaturityClock(d) \in Since(d)..now /\ DAY \in Nat \ {0}
    BY MaturityTypes, ScoreNumbers DEF RateIsSet
  <1>3. /\ maturedAt[d] \in Nat /\ operatorChangedAt[d] \in Nat
        /\ Since(d)' \in Nat /\ Since(d)' <= now /\ reputations'[d].score \in Nat /\ Anchor(d)' \in Nat
    BY <1>1 DEF ReputationInv, ReputationTypeOK, DatesArePast, Since, Anchor
  <1>4. Since(d)' # 0 /\ Released(Anchor(d)', Since(d)', rate, now) <= Spendable(d)
    <2>1. CASE Maturing(d)
      <3>1. Since(d) # 0
        BY <2>1 DEF Maturing
      <3>2. PICK e, c, q, m \in Nat :
                /\ e = now - Since(d) /\ MaturityClock(d) = now - c /\ c <= e
                /\ e * rate = q * DAY + m /\ m < DAY
                /\ Spendable(d) = Anchor(d) + q
                /\ c * rate <= m /\ m < (c + 1) * rate
        BY <2>1, ClockGivesBack
      <3>3. CASE Sold(d)'
        <4>1. Sold(d) /\ Since(d)' = Since(d) /\ Anchor(d)' = 0 /\ Anchor(d) = 0
          BY <1>1, <1>2, <1>3, <3>1, <3>3 DEF Sold, Since, Anchor
        <4>2. Released(0, Since(d), rate, now) = Spendable(d)
          BY <2>1, <4>1 DEF Spendable
        <4>3. QED
          BY <1>2, <3>1, <4>1, <4>2
      <3>4. CASE ~Sold(d)'
        <4>1. Since(d)' = now - c /\ Anchor(d)' = Spendable(d)
          BY <1>1, <3>2, <3>4 DEF Since, Anchor
        <4>2. (c * rate) \div DAY = 0
          <5>1. c * rate \in Nat /\ c * rate < DAY
            BY <1>2, <3>2, ProductIsNat
          <5> DEFINE x == c * rate
          <5> HIDE DEF x
          <5>2. x \div DAY = 0
            BY <1>2, <5>1 DEF x
          <5>3. QED
            BY <5>2 DEF x
        <4>3. now - (now - c) = c
          BY <1>1
        <4>4. Released(Spendable(d), now - c, rate, now) = Spendable(d)
          BY <1>2, <4>2, <4>3 DEF Released
        <4>5. QED
          BY <1>2, <3>1, <3>2, <4>1, <4>4
      <3>5. QED
        BY <3>3, <3>4
    <2>2. CASE ~Maturing(d)
      <3>1. maturedAt'[d] = now
        BY <1>1, <2>2 DEF MaturityClock
      <3>2. Since(d)' = now /\ Anchor(d)' <= Spendable(d)
        BY <1>1, <1>2, <1>3, <3>1 DEF Sold, Since, Anchor, ReputationInv, ReputationTypeOK, DatesArePast
      <3>3. Released(Anchor(d)', now, rate, now) = Anchor(d)'
        <4>1. (now - now) * rate = 0 /\ 0 \div DAY = 0
          BY <1>1, <1>2
        <4>2. QED
          BY <1>3, <4>1 DEF Released
      <3>4. QED
        BY <1>1, <3>2, <3>3
    <2>3. QED
      BY <2>1, <2>2
  <1>5. /\ Released(Anchor(d)', Since(d)', rate, now) \in Nat
        /\ Spendable(d)' \in Nat /\ Spendable(d)' <= Released(Anchor(d)', Since(d)', rate, now)
    <2> DEFINE r == Released(Anchor(d)', Since(d)', rate, now)
    <2>1. r \in Nat /\ Anchor(d)' <= r
      BY <1>1, <1>2, <1>3, ReleasedIsPaidFor
    <2>2. /\ Maturing(d)' <=> reputations'[d].score > Anchor(d)' /\ r < reputations'[d].score
          /\ Spendable(d)' = IF Maturing(d)' THEN r ELSE reputations'[d].score
      BY <1>1, <1>2, <1>4 DEF Maturing, Spendable, Released
    <2> HIDE DEF r
    <2>3. Spendable(d)' \in Nat /\ Spendable(d)' <= r
      BY <1>3, <2>1, <2>2
    <2>4. QED
      BY <2>1, <2>3 DEF r
  <1>6. QED
    BY <1>2, <1>3, <1>4, <1>5

\* What happens within a block to what one agent can spend.
NoRise(d) ==
    now' = now /\ maturityRatePerDay' = maturityRatePerDay /\ identitySet' = identitySet => Spendable(d)' <= Spendable(d)

LEMMA StepDoesNotRaise ==
    ASSUME ReputationInv, OracleBondInv, RateIsSet, ReputationInv', OracleBondInv', RateIsSet', [Next]_vars,
           NEW d \in Agents
    PROVE  NoRise(d)
  <1> SUFFICES ASSUME now' = now, maturityRatePerDay' = maturityRatePerDay, identitySet' = identitySet
               PROVE  Spendable(d)' <= Spendable(d)
    BY DEF NoRise
  <1>1. /\ now \in Nat \ {0} /\ Spendable(d) \in Nat /\ maturityRatePerDay \in Nat /\ DAY \in Nat \ {0}
        /\ reputations'[d].score \in Nat /\ maturedAt[d] \in Nat /\ maturedAt[d] <= now
        /\ maturedScore'[d] \in Nat
    BY MaturityTypes, ScoreNumbers
       DEF ReputationInv, ReputationTypeOK, DatesArePast, OracleBondInv, OracleBondTypeOK, GuardTypeOK
  <1>2. CASE FinalizeReputation(d)
    BY <1>2, FinalizeDoesNotRaise
  <1>3. CASE ZeroReputation(d)
    <2>1. reputations'[d].score = 0 /\ Anchor(d)' \in Nat
      BY <1>1, <1>3 DEF ZeroReputation, Anchor, ReputationInv, ReputationTypeOK
    <2>2. ~Maturing(d)'
      BY <2>1 DEF Maturing
    <2>3. QED
      BY <1>1, <2>1, <2>2 DEF Spendable
  <1>4. CASE /\ reputations'[d] = reputations[d] /\ maturedScore'[d] = maturedScore[d]
             /\ maturedAt'[d] = maturedAt[d] /\ operatorChangedAt'[d] = operatorChangedAt[d]
    <2>1. Since(d)' = Since(d) /\ Anchor(d)' = Anchor(d)
      BY <1>4 DEF Since, Anchor, Sold
    <2>2. Spendable(d)' = Spendable(d)
      BY <1>4, <2>1 DEF Spendable, Maturing, Released
    <2>3. QED
      BY <1>1, <2>2
  <1>5. CASE /\ reputations'[d] = reputations[d] /\ maturedScore'[d] = maturedScore[d]
             /\ maturedAt'[d] = maturedAt[d] /\ AgentIsSold(d)
    <2>1. operatorChangedAt'[d] = now
      BY <1>5 DEF AgentIsSold, ReputationInv, ReputationTypeOK
    <2>2. CASE identitySet
      <3>1. Since(d)' = now /\ Anchor(d)' = 0
        BY <1>1, <1>5, <2>1, <2>2 DEF Since, Anchor, Sold
      <3>2. Released(0, now, maturityRatePerDay, now) = 0
        <4>1. (now - now) * maturityRatePerDay = 0 /\ 0 \div DAY = 0
          BY <1>1
        <4>2. QED
          BY <4>1 DEF Released
      <3>3. Spendable(d)' = 0
        BY <1>1, <3>1, <3>2 DEF Spendable, Maturing, RateIsSet, Released
      <3>4. QED
        BY <1>1, <3>3
    <2>3. CASE ~identitySet
      <3>1. Since(d)' = Since(d) /\ Anchor(d)' = Anchor(d)
        BY <1>5, <2>3 DEF Since, Anchor, Sold
      <3>2. Spendable(d)' = Spendable(d)
        BY <1>5, <3>1 DEF Spendable, Maturing, Released
      <3>3. QED
        BY <1>1, <3>2
    <2>4. QED
      BY <2>2, <2>3
  <1>6. QED
    BY <1>2, <1>3, <1>4, <1>5, EveryAgentSteps DEF AgentSteps

\* What an agent may spend is earned: since a sale at no more than the highest rate, whatever the seller had
\* matured; finalizing neither gains time nor loses a whole unit of it; and nothing raises it within a block. For
\* a proxy whose rate is set: before that everything counts at once, as it did before maturity.
THEOREM SpendableIsEarned ==
    ASSUME 0 \notin InitialRates
    PROVE  Spec => MaturityIsEarned
  <1> DEFINE Inv == ReputationInv /\ OracleBondInv /\ RateIsSet /\ MaturedIsEarned
  <1>1. Init => Inv
    <2> SUFFICES ASSUME Init PROVE Inv
      OBVIOUS
    <2>1. ReputationInv /\ OracleBondInv
      BY ReputationInvInit, OracleBondInvInit DEF Init, OracleBondInit
    <2>2. RateIsSet /\ MaturedIsEarned
      BY DEF RateIsSet, MaturedIsEarned, Init, ReputationInit
    <2>3. QED
      BY <2>1, <2>2
  <1>2. Inv /\ [Next]_vars => Inv'
    <2> SUFFICES ASSUME Inv, [Next]_vars PROVE Inv'
      OBVIOUS
    <2>1. ReputationInv' /\ OracleBondInv'
      BY ReputationInvStep
    <2>2. RateIsSet'
      BY <2>1 DEF RateIsSet, ReputationInv, ReputationTypeOK
    <2>3. QED
      BY <2>1, <2>2, EarningsStep
  <1>3. Inv => BuyerEarnsItsOwn /\ FinalizeKeepsPace
    BY BuyersEarn, PaceIsKept DEF BuyerEarnsItsOwn
  <1>4. Inv /\ Inv' /\ [Next]_vars =>
            [now' = now /\ maturityRatePerDay' = maturityRatePerDay /\ identitySet' = identitySet
                 => \A d \in Agents : Spendable(d)' <= Spendable(d)]_vars
    BY StepDoesNotRaise DEF NoRise
  <1> HIDE DEF Inv
  <1>5. QED
    BY <1>1, <1>2, <1>3, <1>4, PTL DEF Spec, MaturityIsEarned, NoInstantRise

------------------------------------------------------------------------------
(* Whose word a score is.                                                  *)

\* An address that proposed for an operator speaks for it still, or for nobody else from then on: a key that was
\* named is bound to who named it or to itself, an operator of its own account has a record or is bound to itself.
StillTheirs(k, o) ==
    /\ k \in Addresses
    /\ IF k = o
       THEN operatorOfSigner[k] = NoAddress /\ (StatusOf(k) # "None" \/ boundTo[k] = k)
       ELSE \/ operatorOfSigner[k] = o
            \/ operatorOfSigner[k] = NoAddress /\ boundTo[k] \in {o, k}

\* Every pending score was proposed for somebody whose word it still may be.
PendingIsTheirs ==
    \A d \in Agents :
        pendingScores[d].onBehalfOf # NoAddress =>
            StillTheirs(pendingScores[d].proposer, pendingScores[d].onBehalfOf)

\* An operator's record ends with its address bound to itself.
LEMMA EndsAreBound ==
    ASSUME OracleBondInv, [OracleBondNext]_oracleBondVars, NEW k \in Addresses,
           StatusOf(k) # "None", StatusOf(k)' = "None"
    PROVE  boundTo'[k] = k
  <1> USE DEF OracleBondInv, OracleBondTypeOK, OperatorRecord, StatusOf
  <1>1. ASSUME NEW a \in Addresses, LeaveForGood(a), \A x \in Addresses \ {a} : operators'[x] = operators[x]
        PROVE  boundTo'[k] = k
    <2>1. k = a
      BY <1>1
    <2>2. QED
      BY <1>1, <2>1 DEF LeaveForGood, Bind
  <1>2. ASSUME NEW a \in Addresses, OperatorNext(a) PROVE boundTo'[k] = k
    <2>1. ASSUME NEW received \in BondDeposits, DepositBond(a, received) PROVE boundTo'[k] = k
      BY <2>1 DEF DepositBond
    <2>2. CASE WithdrawBond(a)
      BY <1>1, <2>2 DEF WithdrawBond
    <2>3. ASSUME NEW amount \in 1..MaxBond, Slash(a, amount) PROVE boundTo'[k] = k
      <3>1. CASE BondOf(a) - amount = 0
        BY <1>1, <2>3, <3>1 DEF Slash
      <3>2. CASE BondOf(a) - amount # 0
        BY <2>3, <3>2 DEF Slash, StatusAfterSlash
      <3>3. QED
        BY <3>1, <3>2
    <2>4. CASE StartExit(a) \/ Admit(a)
      BY <2>4 DEF StartExit, Admit
    <2>5. CASE (\E s \in Addresses : SetSigner(a, s)) \/ ClearSigner(a)
      BY <2>5 DEF SetSigner, ClearSigner, recordVars
    <2>6. QED
      BY <1>2, <2>1, <2>2, <2>3, <2>4, <2>5 DEF OperatorNext
  <1>3. CASE GovernanceNext \/ UNCHANGED bondRegistryVars \/ UNCHANGED oracleBondVars
    BY <1>3 DEF GovernanceNext, SetBondAmount, SetBondPeriod, SetSlashBeneficiary, GrantSlasher, RevokeSlasher,
                oracleBondVars, bondRegistryVars, recordVars
  <1>4. QED
    BY <1>2, <1>3 DEF OracleBondNext, BondRegistryNext

LEMMA TheirsStayTheirs ==
    ASSUME OracleBondInv, OracleBondInv', [OracleBondNext]_oracleBondVars,
           NEW k, NEW o \in Addresses, StillTheirs(k, o)
    PROVE  StillTheirs(k, o)'
  <1>1. k \in Addresses /\ KeyMoves(k)
    BY StepMovesKeys DEF StillTheirs
  <1>2. CASE k # o
    BY <1>1, <1>2, BondNumbers DEF KeyMoves, StillTheirs
  <1>3. CASE k = o
    <2>1. operatorOfSigner[k] = NoAddress /\ (StatusOf(k) # "None" \/ boundTo[k] = k)
      BY <1>3 DEF StillTheirs
    <2>2. StatusOf(k)' # "None" \/ boundTo'[k] = k
      <3>1. CASE StatusOf(k) # "None"
        BY <1>1, <3>1, EndsAreBound
      <3>2. CASE boundTo[k] = k
        BY <1>1, <2>1, <3>2, BondNumbers DEF KeyMoves
      <3>3. QED
        BY <2>1, <3>1, <3>2
    <2>3. operatorOfSigner'[k] = NoAddress
      <3>1. SUFFICES ASSUME operatorOfSigner'[k] # NoAddress PROVE FALSE
        OBVIOUS
      <3>2. /\ operatorOfSigner'[k] \in Addresses \ {k} /\ boundTo'[k] = operatorOfSigner'[k]
        BY <1>1, <2>1, <3>1, BondNumbers DEF KeyMoves
      <3>3. StatusOf(k)' = "None"
        BY <1>1, <3>2 DEF OracleBondInv, SignersPaired
      <3>4. QED
        BY <2>2, <3>2, <3>3
    <2>4. QED
      BY <1>1, <1>3, <2>2, <2>3 DEF StillTheirs
  <1>4. QED
    BY <1>2, <1>3

\* What a step may do to a pending score.
LEMMA PendingSteps ==
    ASSUME ReputationInv, [Next]_vars, NEW d \in Agents
    PROVE  \/ pendingScores'[d] = pendingScores[d]
           \/ pendingScores'[d] = NothingPending
           \/ \E k \in Addresses, p \in Proposals : Propose(d, k, p)
  <1> USE DEF ReputationInv, ReputationTypeOK
  <1>1. CASE (OracleBondNext /\ UNCHANGED reputationVars) \/ Settings \/ UNCHANGED vars
    BY <1>1 DEF reputationVars, Settings, SetChallengeWindow, SetMaturityRate, InitializeV3, SetOperatorBond,
                SetOracle, SettingFrame, vars
  <1>2. ASSUME NEW x \in Agents, NEW k \in Addresses, NEW p \in Proposals,
               ProposeReputation(x, k, p) \/ ProposeIfEmpty(x, k, p)
        PROVE  Propose(d, k, p) \/ pendingScores'[d] = pendingScores[d]
    <2>1. Propose(x, k, p)
      BY <1>2 DEF ProposeReputation, ProposeIfEmpty
    <2>2. CASE x # d
      BY <2>1, <2>2 DEF Propose
    <2>3. QED
      BY <2>1, <2>2
  <1>3. ASSUME NEW x \in Agents, FinalizeReputation(x) \/ RejectReputation(x) \/ ZeroReputation(x)
        PROVE  pendingScores'[d] \in {pendingScores[d], NothingPending}
    BY <1>3 DEF FinalizeReputation, RejectReputation, ZeroReputation, ZeroedPending
  <1>4. ASSUME NEW x \in Agents, BondMoves(x) \/ AgentIsSold(x) PROVE pendingScores'[d] = pendingScores[d]
    BY <1>4 DEF BondMoves, AgentIsSold
  <1>5. QED
    BY <1>1, <1>2, <1>3, <1>4 DEF Next

LEMMA PendingIsTheirsStep ==
    ASSUME ReputationInv, OracleBondInv, OracleBondInv', PendingIsTheirs, [Next]_vars,
           [OracleBondNext]_oracleBondVars
    PROVE  PendingIsTheirs'
  <1> SUFFICES ASSUME NEW d \in Agents, pendingScores'[d].onBehalfOf # NoAddress
               PROVE  StillTheirs(pendingScores[d].proposer, pendingScores[d].onBehalfOf)'
    BY DEF PendingIsTheirs
  <1>1. CASE pendingScores'[d] = pendingScores[d]
    <2> DEFINE k == pendingScores[d].proposer
               o == pendingScores[d].onBehalfOf
    <2>1. o \in Addresses
      BY <1>1 DEF ReputationInv, ReputationTypeOK, PendingScore
    <2>2. StillTheirs(k, o)
      BY <1>1 DEF PendingIsTheirs
    <2>3. PICK key, owner : key = k /\ owner = o
      OBVIOUS
    <2>4. StillTheirs(key, owner)'
      BY <2>1, <2>2, <2>3, TheirsStayTheirs
    <2>5. QED
      BY <1>1, <2>3, <2>4 DEF StillTheirs
  <1>2. CASE pendingScores'[d] = NothingPending
    BY <1>2 DEF NothingPending
  <1>3. ASSUME NEW k \in Addresses, NEW p \in Proposals, Propose(d, k, p)
        PROVE  StillTheirs(pendingScores[d].proposer, pendingScores[d].onBehalfOf)'
    <2>1. /\ pendingScores'[d].proposer = k /\ operatorBondSet
          /\ pendingScores'[d].onBehalfOf = SpeaksFor(k)
          /\ UNCHANGED oracleBondVars /\ MayPropose(k)
      BY <1>3 DEF Propose, ReputationInv, ReputationTypeOK
    <2>2. StatusOf(SpeaksFor(k)) = "Active"
      BY <2>1 DEF MayPropose, IsActiveOperator
    <2>3. operatorOfSigner[k] # k
      BY BondNumbers DEF OracleBondInv, SignersPaired
    <2>4. StillTheirs(k, SpeaksFor(k))
      BY <2>2, <2>3 DEF StillTheirs, SpeaksFor
    <2>5. QED
      BY <2>1, <2>4 DEF StillTheirs, SpeaksFor, StatusOf, oracleBondVars, bondRegistryVars, recordVars, signerVars
  <1>4. QED
    BY <1>1, <1>2, <1>3, PendingSteps

\* Only its finalization makes a score of another value live, and that finds its proposer where it was.
LEMMA StepsAreTheirs ==
    ASSUME ReputationInv, OracleBondInv, PendingIsTheirs, [Next]_vars, NEW d \in Agents,
           reputations'[d] # reputations[d], standing'[d] # "slashed",
           pendingScores[d].onBehalfOf # NoAddress
    PROVE  SpeaksFor(pendingScores[d].proposer) \in {pendingScores[d].onBehalfOf, pendingScores[d].proposer}
  BY DEF PendingIsTheirs, StillTheirs, SpeaksFor

\* A score goes live on the word of the operator it was proposed for or, once that has let the key go, of the key
\* itself, whatever is bound, released, slashed and named meanwhile (SigvaraReputation._proposerStillAuthorized
\* over SigvaraOracleBond.setSigner and _bind).
THEOREM ScoresAreTheirOperators == Spec => ScoresSpeakForTheirOperator
  <1>1. Init => ReputationInv /\ OracleBondInv /\ PendingIsTheirs
    <2>1. Init => PendingIsTheirs
      BY DEF Init, ReputationInit, PendingIsTheirs, NothingPending
    <2>2. QED
      BY <2>1, ReputationInvInit, OracleBondInvInit DEF Init, OracleBondInit
  <1>2. (ReputationInv /\ OracleBondInv /\ PendingIsTheirs) /\ [Next]_vars
            => (ReputationInv /\ OracleBondInv /\ PendingIsTheirs)'
    BY ReputationInvStep, PendingIsTheirsStep, BondSteps
  <1>3. (ReputationInv /\ OracleBondInv /\ PendingIsTheirs) /\ [Next]_vars =>
            [\A d \in Agents :
                LET p == pendingScores[d] IN
                /\ reputations'[d] # reputations[d] /\ standing'[d] # "slashed"
                /\ p.onBehalfOf # NoAddress
                => SpeaksFor(p.proposer) \in {p.onBehalfOf, p.proposer}]_vars
    BY StepsAreTheirs
  <1>4. QED
    BY <1>1, <1>2, <1>3, PTL DEF Spec, ScoresSpeakForTheirOperator

------------------------------------------------------------------------------
(* The fee vault, beside the scores and on the same bond registry: it      *)
(* holds what its books say and nobody pays for an epoch twice, for any    *)
(* agents, fees, lengths and shares.                                       *)

\* The inductive invariant.  The vault reads the clock and the bonds; that drains are
\* metered follows from when the last charge was, and is not needed to go on.
EpochFeesIInv == OracleBondInv /\ EpochFeesTypeOK /\ FeesBacked /\ ChargesAreSpaced

------------------------------------------------------------------------------
(* Epochs.                                                                 *)

LEMMA EpochOrder ==
    ASSUME NEW m \in Nat, NEW n \in Nat, NEW length \in Nat \ {0}, m <= n
    PROVE  m \div length \in Nat /\ n \div length \in Nat /\ m \div length <= n \div length
  OBVIOUS

LEMMA ProductOrder ==
    ASSUME NEW fee \in Nat, NEW m \in Nat, NEW n \in Nat, m <= n
    PROVE  fee * m \in Nat /\ fee * n \in Nat /\ fee * m <= fee * n
  OBVIOUS

LEMMA FeeOrder ==
    ASSUME NEW fee \in Nat, NEW more \in Nat, NEW n \in Nat, fee <= more
    PROVE  fee * n \in Nat /\ more * n \in Nat /\ fee * n <= more * n
  OBVIOUS

LEMMA OneMoreEpoch ==
    ASSUME NEW fee \in Nat, NEW n \in Nat
    PROVE  fee * n \in Nat /\ fee * (n + 1) = fee * n + fee
  OBVIOUS

\* What was paid by one moment is metered at every later one.
LEMMA MeteredLater ==
    ASSUME NEW fee \in Nat, NEW length \in Nat \ {0}, NEW set \in Nat, NEW last \in Nat, NEW t \in Nat,
           set <= last, last <= t, NEW paid \in Nat,
           paid <= fee * (1 + (last \div length) - (set \div length))
    PROVE  paid <= fee * (1 + (t \div length) - (set \div length))
  <1> DEFINE begun(m) == 1 + (m \div length) - (set \div length)
  <1>1. last \div length \in Nat /\ t \div length \in Nat /\ set \div length \in Nat
    BY EpochOrder
  <1>2. set \div length <= last \div length /\ last \div length <= t \div length
    BY EpochOrder
  <1>3. begun(last) \in Nat /\ begun(t) \in Nat /\ begun(last) <= begun(t)
    BY <1>1, <1>2
  <1> HIDE DEF begun
  <1>4. fee * begun(last) \in Nat /\ fee * begun(t) \in Nat /\ fee * begun(last) <= fee * begun(t)
    BY <1>3, ProductOrder
  <1>5. paid <= fee * begun(last)
    BY DEF begun
  <1>6. paid <= fee * begun(t)
    BY <1>4, <1>5
  <1> QED BY <1>6 DEF begun

\* One more charge, in a later epoch than the last, or the first since the length was set.
LEMMA MeteredCharge ==
    ASSUME NEW fee \in Nat, NEW new \in Nat, NEW length \in Nat \ {0}, NEW set \in Nat,
           NEW last \in Nat, NEW t \in Nat, set <= t, NEW paid \in Nat,
           paid # 0 => /\ set <= last /\ last \div length < t \div length
                       /\ paid <= fee * (1 + (last \div length) - (set \div length))
    PROVE  \E high \in {fee, new} :
               paid + new <= high * (1 + (t \div length) - (set \div length))
  <1> DEFINE begun(m) == 1 + (m \div length) - (set \div length)
             high == IF fee <= new THEN new ELSE fee
  <1>1. last \div length \in Nat /\ t \div length \in Nat /\ set \div length \in Nat
    BY EpochOrder
  <1>2. set \div length <= t \div length
    BY EpochOrder
  <1>3. begun(t) \in Nat /\ begun(t) >= 1
    BY <1>1, <1>2
  <1>4. high \in {fee, new} /\ high \in Nat /\ fee <= high /\ new <= high
    OBVIOUS
  <1>5. CASE paid = 0
    <2> HIDE DEF begun, high
    <2>1. high * 1 <= high * begun(t) /\ high * begun(t) \in Nat
      BY <1>3, <1>4, ProductOrder
    <2>2. high * 1 = high
      BY <1>4
    <2>3. paid + new <= high * begun(t)
      BY <1>4, <1>5, <2>1, <2>2
    <2> QED BY <1>4, <2>3 DEF begun
  <1>6. CASE paid # 0
    <2>1. set \div length <= last \div length
      BY <1>6, EpochOrder
    <2>2. begun(last) \in Nat /\ begun(last) + 1 <= begun(t) /\ begun(last) + 1 \in Nat
      BY <1>1, <1>6, <2>1
    <2>3. paid <= fee * begun(last)
      BY <1>6
    <2> HIDE DEF begun, high
    <2>4. fee * begun(last) <= high * begun(last) /\ fee * begun(last) \in Nat
      BY <1>4, <2>2, FeeOrder
    <2>5. high * begun(last) \in Nat /\ high * (begun(last) + 1) = high * begun(last) + high
      BY <1>4, <2>2, OneMoreEpoch
    <2>6. high * (begun(last) + 1) <= high * begun(t) /\ high * begun(t) \in Nat
      BY <1>3, <1>4, <2>2, ProductOrder
    <2>7. paid + new <= high * begun(t)
      BY <1>4, <2>3, <2>4, <2>5, <2>6
    <2> QED BY <1>4, <2>7 DEF begun
  <1> QED BY <1>5, <1>6

------------------------------------------------------------------------------
(* The books and the spacing of charges.                                   *)

LEMMA FeeNumbers ==
    ASSUME EpochFeesAssumption, OracleBondInv, EpochFeesTypeOK
    PROVE  /\ now \in Nat \ {0} /\ lengthSetAt \in Nat \ {0} /\ lengthSetAt <= now
           /\ Fees \subseteq Nat /\ epochFee \in Nat /\ epochLength \in Nat /\ MIN_EPOCH_LENGTH \in Nat \ {0}
           /\ \A d \in PayingAgents : prepaid[d] \in Nat /\ lastChargedAt[d] \in Nat /\ drawn[d] \in Nat
  BY DEF EpochFeesAssumption, OracleBondInv, OracleBondTypeOK, GuardTypeOK, EpochFeesTypeOK

\* The vault moves with one agent's balance and with what is collected.
LEMMA OneBalanceMoves ==
    ASSUME EpochFeesAssumption, EpochFeesTypeOK, FeesBacked, NEW d \in PayingAgents, NEW new \in Nat,
           prepaid' = [prepaid EXCEPT ![d] = new], collected' \in Nat,
           vault' = vault + (new - prepaid[d]) + (collected' - collected)
    PROVE  FeesBacked'
  <1> DEFINE before == prepaid
             after == [prepaid EXCEPT ![d] = new]
  <1>1. IsFiniteSet(PayingAgents)
    BY DEF EpochFeesAssumption
  <1>2. /\ before \in [PayingAgents -> Nat] /\ after \in [PayingAgents -> Nat] /\ before[d] \in Nat
        /\ after[d] = new /\ \A e \in PayingAgents : e # d => after[e] = before[e]
    BY DEF EpochFeesTypeOK
  <1>3. vault = Total(before) + collected /\ vault' = vault + (new - before[d]) + (collected' - collected)
    BY DEF FeesBacked
  <1>4. collected \in Nat
    BY DEF EpochFeesTypeOK
  <1> HIDE DEF before, after
  <1>5. Total(before) \in Nat
    BY <1>1, <1>2, TotalType
  <1>6. Total(after) = Total(before) + (after[d] - before[d])
    BY <1>1, <1>2, TotalMoves
  <1>7. vault' = Total(after) + collected'
    BY <1>2, <1>3, <1>4, <1>5, <1>6
  <1> QED BY <1>7 DEF FeesBacked, after

LEMMA ChargesStaySpaced ==
    ASSUME EpochFeesAssumption, OracleBondInv, EpochFeesTypeOK, ChargesAreSpaced, now' \in Nat, now' >= now,
           UNCHANGED <<lastChargedAt, drawn, epochLength, lengthSetAt>>
    PROVE  ChargesAreSpaced'
  <1>1. \A d \in PayingAgents : lastChargedAt[d] <= now'
    BY FeeNumbers DEF ChargesAreSpaced
  <1> QED BY <1>1 DEF ChargesAreSpaced, EpochsBegun

\* A new length forgets what was drawn under the old one.
LEMMA NewLengthSpaces ==
    ASSUME ChargesAreSpaced, now' = now, UNCHANGED lastChargedAt, drawn' = [d \in PayingAgents |-> 0]
    PROVE  ChargesAreSpaced'
  BY DEF ChargesAreSpaced

LEMMA SpacedIsMetered ==
    ASSUME EpochFeesAssumption, EpochFeesIInv
    PROVE  EpochFeesInv
  <1> USE DEF EpochFeesIInv
  <1> SUFFICES ASSUME epochLength # 0, NEW d \in PayingAgents
               PROVE  \E fee \in Fees : drawn[d] <= fee * EpochsBegun(now)
    BY DEF EpochFeesInv, DrainIsMetered
  <1>1. /\ now \in Nat /\ lengthSetAt \in Nat /\ lengthSetAt <= now /\ Fees \subseteq Nat /\ epochFee \in Fees
        /\ epochLength \in Nat \ {0} /\ lastChargedAt[d] \in Nat /\ drawn[d] \in Nat
    BY FeeNumbers DEF EpochFeesTypeOK
  <1>2. CASE drawn[d] = 0
    <2>1. /\ lengthSetAt \div epochLength \in Nat /\ now \div epochLength \in Nat
          /\ lengthSetAt \div epochLength <= now \div epochLength
      BY <1>1, EpochOrder
    <2>2. EpochsBegun(now) \in Nat
      BY <2>1 DEF EpochsBegun
    <2>3. epochFee \in Nat
      BY <1>1
    <2>4. epochFee * EpochsBegun(now) \in Nat
      BY <2>2, <2>3, ProductOrder
    <2> QED BY <1>1, <1>2, <2>4
  <1>3. CASE drawn[d] # 0
    <2>1. PICK fee \in Fees : drawn[d] <= fee * EpochsBegun(lastChargedAt[d])
      BY <1>3 DEF ChargesAreSpaced
    <2>2. lengthSetAt <= lastChargedAt[d] /\ lastChargedAt[d] <= now /\ fee \in Nat
      BY <1>1, <1>3 DEF ChargesAreSpaced
    <2>3. drawn[d] <= fee * (1 + (lastChargedAt[d] \div epochLength) - (lengthSetAt \div epochLength))
      BY <2>1 DEF EpochsBegun
    <2>4. drawn[d] <= fee * (1 + (now \div epochLength) - (lengthSetAt \div epochLength))
      BY <1>1, <2>2, <2>3, MeteredLater
    <2> QED BY <2>4 DEF EpochsBegun
  <1> QED BY <1>2, <1>3

------------------------------------------------------------------------------
(* Each way the vault is used.                                             *)

LEMMA DepositForKeeps ==
    ASSUME EpochFeesAssumption, EpochFeesIInv, NEW d \in PayingAgents, NEW received \in FeeDeposits,
           DepositFor(d, received)
    PROVE  EpochFeesTypeOK' /\ FeesBacked' /\ ChargesAreSpaced'
  <1> USE DEF EpochFeesIInv
  <1>1. received \in Nat /\ prepaid[d] \in Nat /\ now \in Nat /\ vault \in Int /\ collected \in Nat
    BY FeeNumbers DEF EpochFeesAssumption, EpochFeesTypeOK
  <1> DEFINE new == prepaid[d] + received
  <1>2. new \in Nat /\ prepaid' = [prepaid EXCEPT ![d] = new] /\ collected' = collected /\ now' = now
    BY <1>1 DEF DepositFor, oracleBondVars
  <1>3. vault' = vault + (new - prepaid[d]) + (collected' - collected)
    BY <1>1, <1>2 DEF DepositFor
  <1> HIDE DEF new
  <1>4. EpochFeesTypeOK'
    BY <1>1, <1>2, <1>3 DEF DepositFor, EpochFeesTypeOK
  <1>5. FeesBacked'
    BY <1>1, <1>2, <1>3, OneBalanceMoves
  <1>6. ChargesAreSpaced'
    BY <1>1, <1>2, ChargesStaySpaced DEF DepositFor
  <1> QED BY <1>4, <1>5, <1>6

LEMMA WithdrawKeeps ==
    ASSUME EpochFeesAssumption, EpochFeesIInv, NEW d \in PayingAgents, NEW caller, NEW amount \in FeeWithdrawals,
           Withdraw(d, caller, amount)
    PROVE  EpochFeesTypeOK' /\ FeesBacked' /\ ChargesAreSpaced'
  <1> USE DEF EpochFeesIInv
  <1>1. amount \in Nat /\ prepaid[d] \in Nat /\ now \in Nat /\ vault \in Int /\ collected \in Nat
    BY FeeNumbers DEF EpochFeesAssumption, EpochFeesTypeOK
  <1> DEFINE new == prepaid[d] - amount
  <1>2. new \in Nat /\ prepaid' = [prepaid EXCEPT ![d] = new] /\ collected' = collected /\ now' = now
    BY <1>1 DEF Withdraw, oracleBondVars
  <1>3. vault' = vault + (new - prepaid[d]) + (collected' - collected)
    BY <1>1, <1>2 DEF Withdraw
  <1> HIDE DEF new
  <1>4. EpochFeesTypeOK'
    BY <1>1, <1>2, <1>3 DEF Withdraw, EpochFeesTypeOK
  <1>5. FeesBacked'
    BY <1>1, <1>2, <1>3, OneBalanceMoves
  <1>6. ChargesAreSpaced'
    BY <1>1, <1>2, ChargesStaySpaced DEF Withdraw
  <1> QED BY <1>4, <1>5, <1>6

LEMMA ChargeEpochKeeps ==
    ASSUME EpochFeesAssumption, EpochFeesIInv, NEW d \in PayingAgents, NEW caller, ChargeEpoch(d, caller)
    PROVE  EpochFeesTypeOK' /\ FeesBacked' /\ ChargesAreSpaced'
  <1> USE DEF EpochFeesIInv
  <1>1. /\ now \in Nat \ {0} /\ lengthSetAt \in Nat \ {0} /\ lengthSetAt <= now
        /\ Fees \subseteq Nat /\ epochFee \in Fees /\ epochFee \in Nat /\ epochLength \in Nat \ {0}
        /\ prepaid[d] \in Nat /\ lastChargedAt[d] \in Nat /\ drawn[d] \in Nat
        /\ vault \in Int /\ collected \in Nat
    BY FeeNumbers DEF EpochFeesTypeOK, ChargeEpoch
  <1> DEFINE new == prepaid[d] - epochFee
             paid == drawn[d] + epochFee
  <1>2. /\ new \in Nat /\ prepaid' = [prepaid EXCEPT ![d] = new] /\ collected' = collected + epochFee /\ collected' \in Nat
        /\ paid \in Nat /\ drawn' = [drawn EXCEPT ![d] = paid] /\ lastChargedAt' = [lastChargedAt EXCEPT ![d] = now]
        /\ vault' = vault /\ now' = now /\ epochLength' = epochLength /\ lengthSetAt' = lengthSetAt
    BY <1>1 DEF ChargeEpoch, oracleBondVars
  <1>3. vault' = vault + (new - prepaid[d]) + (collected' - collected)
    BY <1>1, <1>2
  <1> HIDE DEF new, paid
  <1>4. EpochFeesTypeOK'
    BY <1>1, <1>2 DEF ChargeEpoch, EpochFeesTypeOK
  <1>5. FeesBacked'
    BY <1>1, <1>2, <1>3, OneBalanceMoves
  <1>6. ~AlreadyCharged(d)
    BY DEF ChargeEpoch
  <1>7. \E high \in Fees : paid <= high * EpochsBegun(now)
    <2>1. CASE drawn[d] = 0
      <3>1. \E high \in {epochFee, epochFee} :
               drawn[d] + epochFee <= high * (1 + (now \div epochLength) - (lengthSetAt \div epochLength))
        BY <1>1, <2>1, MeteredCharge
      <3> QED BY <1>1, <3>1 DEF paid, EpochsBegun
    <2>2. CASE drawn[d] # 0
      <3>1. PICK fee \in Fees : drawn[d] <= fee * EpochsBegun(lastChargedAt[d])
        BY <2>2 DEF ChargesAreSpaced
      <3>2. lengthSetAt <= lastChargedAt[d] /\ lastChargedAt[d] # 0
        BY <1>1, <2>2 DEF ChargesAreSpaced
      <3>3. now \div epochLength \in Nat /\ lastChargedAt[d] \div epochLength \in Nat
        BY <1>1, EpochOrder
      <3>4. lastChargedAt[d] \div epochLength < now \div epochLength
        BY <1>6, <3>2, <3>3 DEF AlreadyCharged
      <3>5. drawn[d] <= fee * (1 + (lastChargedAt[d] \div epochLength) - (lengthSetAt \div epochLength))
        BY <3>1 DEF EpochsBegun
      <3>6. \E high \in {fee, epochFee} :
               drawn[d] + epochFee <= high * (1 + (now \div epochLength) - (lengthSetAt \div epochLength))
        BY <1>1, <3>2, <3>4, <3>5, MeteredCharge
      <3> QED BY <1>1, <3>6 DEF paid, EpochsBegun
    <2> QED BY <2>1, <2>2
  <1>8. ChargesAreSpaced'
    <2>1. \A e \in PayingAgents : e # d => lastChargedAt'[e] = lastChargedAt[e] /\ drawn'[e] = drawn[e]
      BY <1>2 DEF EpochFeesTypeOK
    <2>2. lastChargedAt'[d] = now /\ drawn'[d] = paid
      BY <1>2 DEF EpochFeesTypeOK
    <2>3. \E fee \in Fees : drawn'[d] <= fee * EpochsBegun(lastChargedAt[d])'
      BY <1>2, <1>7, <2>2 DEF EpochsBegun
    <2>4. lastChargedAt'[d] <= now' /\ epochLength' # 0 /\ lastChargedAt'[d] >= lengthSetAt'
      BY <1>1, <1>2, <2>2
    <2>5. ASSUME NEW e \in PayingAgents, e # d
          PROVE  /\ lastChargedAt'[e] <= now'
                 /\ drawn'[e] # 0 =>
                        /\ epochLength' # 0 /\ lastChargedAt'[e] >= lengthSetAt'
                        /\ \E fee \in Fees : drawn'[e] <= fee * EpochsBegun(lastChargedAt[e])'
      BY <1>2, <2>1, <2>5 DEF ChargesAreSpaced, EpochsBegun
    <2> QED BY <2>3, <2>4, <2>5 DEF ChargesAreSpaced
  <1> QED BY <1>4, <1>5, <1>8

\* What is burned and what the pool takes are all that was collected, however the share rounds.
LEMMA DistributeFeesKeeps ==
    ASSUME EpochFeesAssumption, EpochFeesIInv, DistributeFees
    PROVE  EpochFeesTypeOK' /\ FeesBacked' /\ ChargesAreSpaced'
  <1> USE DEF EpochFeesIInv
  <1>1. BurnShare[stage] \in Nat /\ BURN_PARTS \in Nat \ {0} /\ collected \in Nat /\ vault \in Int
    BY DEF EpochFeesAssumption, EpochFeesTypeOK
  <1>2. collected * BurnShare[stage] \in Nat
    BY <1>1
  <1>3. ToBurn(collected) \in Nat
    BY <1>1, <1>2, EpochOrder DEF ToBurn
  <1>4. vault' = vault - collected /\ collected' = 0
    BY <1>1, <1>3 DEF DistributeFees, ToPool
  <1>5. EpochFeesTypeOK'
    BY <1>1, <1>4 DEF DistributeFees, EpochFeesTypeOK, oracleBondVars
  <1>6. Total(prepaid) \in Nat
    BY TotalType DEF EpochFeesAssumption, EpochFeesTypeOK
  <1>7. FeesBacked'
    BY <1>1, <1>4, <1>6 DEF FeesBacked, DistributeFees
  <1>8. ChargesAreSpaced'
    BY FeeNumbers, ChargesStaySpaced DEF DistributeFees, oracleBondVars
  <1> QED BY <1>5, <1>7, <1>8

LEMMA FeeSettingsKeep ==
    ASSUME EpochFeesAssumption, EpochFeesIInv, FeeSettings
    PROVE  EpochFeesTypeOK' /\ FeesBacked' /\ ChargesAreSpaced'
  <1> USE DEF EpochFeesIInv
  <1>1. /\ now' = now /\ prepaid' = prepaid /\ collected' = collected /\ vault' = vault
        /\ lastChargedAt' = lastChargedAt
    BY DEF FeeSettings, SetEpochFee, SetStage, SetEpochLength, InitializeFeesV2, SetFeeBond, SetFeeOracle,
           FeeSettingFrame, oracleBondVars
  <1>2. now \in Nat \ {0} /\ MIN_EPOCH_LENGTH \in Nat \ {0} /\ EpochLengths \subseteq Nat
    BY FeeNumbers DEF EpochFeesAssumption
  <1>3. EpochFeesTypeOK'
    BY <1>1, <1>2 DEF FeeSettings, SetEpochFee, SetStage, SetEpochLength, InitializeFeesV2, SetFeeBond, SetFeeOracle,
       FeeSettingFrame, EpochFeesTypeOK
  <1>4. FeesBacked'
    BY <1>1 DEF FeesBacked
  <1>5. \/ UNCHANGED <<drawn, epochLength, lengthSetAt>>
        \/ drawn' = [d \in PayingAgents |-> 0]
    BY DEF FeeSettings, SetEpochFee, SetStage, SetEpochLength, InitializeFeesV2, SetFeeBond, SetFeeOracle
  <1>6. ChargesAreSpaced'
    BY <1>1, <1>2, <1>5, ChargesStaySpaced, NewLengthSpaces
  <1> QED BY <1>3, <1>4, <1>6

LEMMA RestOfFeesKeeps ==
    ASSUME EpochFeesAssumption, EpochFeesIInv, now' \in Nat, now' >= now,
           UNCHANGED <<prepaid, collected, epochFee, stage, epochLength, feeBondSet, lastChargedAt, feeVersion,
                       feeOracles, vault, lengthSetAt, drawn>>,
           agentOperator' \in [PayingAgents -> AgentOperators \cup {Nobody}]
    PROVE  EpochFeesTypeOK' /\ FeesBacked' /\ ChargesAreSpaced'
  <1> USE DEF EpochFeesIInv
  <1>1. lengthSetAt \in 1..now'
    BY FeeNumbers
  <1>2. EpochFeesTypeOK'
    BY <1>1 DEF EpochFeesTypeOK
  <1>3. FeesBacked'
    BY DEF FeesBacked
  <1>4. ChargesAreSpaced'
    BY ChargesStaySpaced
  <1> QED BY <1>2, <1>3, <1>4

------------------------------------------------------------------------------
(* The invariant.                                                          *)

LEMMA EpochFeesIInvInit ==
    ASSUME EpochFeesAssumption, FeesInit
    PROVE  EpochFeesIInv
  <1>1. OracleBondInv
    BY OracleBondInvInit DEF FeesInit, OracleBondInit
  <1>2. now = 1
    BY DEF FeesInit, GuardInit
  <1>3. EpochFeesTypeOK
    <2>1. EpochFeesInit
      BY DEF FeesInit
    <2>2. lengthSetAt \in 1..now
      BY <1>2, <2>1 DEF EpochFeesInit
    <2>3. /\ prepaid \in [PayingAgents -> Nat] /\ lastChargedAt \in [PayingAgents -> Nat] /\ drawn \in [PayingAgents -> Nat]
          /\ agentOperator \in [PayingAgents -> AgentOperators \cup {Nobody}]
      BY <2>1 DEF EpochFeesInit
    <2>4. /\ collected \in Nat /\ epochFee \in Fees /\ vault \in Int
          /\ feeVersion \in {1, 2} /\ epochLength \in {0}
      BY <2>1 DEF EpochFeesInit
    <2>5. stage \in Stage /\ feeOracles \subseteq Addresses
      BY <2>1 DEF EpochFeesInit, Stage
    <2>6. feeBondSet \in BOOLEAN
      BY <2>1, Zenon DEF EpochFeesInit
    <2> QED BY <2>2, <2>3, <2>4, <2>5, <2>6 DEF EpochFeesTypeOK
  <1>4. FeesBacked
    <2> DEFINE zero == [d \in PayingAgents |-> IF d \in {} THEN 0 ELSE 0]
    <2>1. IsFiniteSet(PayingAgents) /\ Cardinality({}) = 0
      BY FS_EmptySet DEF EpochFeesAssumption
    <2>2. Total(zero) = Cardinality({}) * 0
      BY <2>1, TotalOfEqual
    <2>3. prepaid = zero /\ vault = 0 /\ collected = 0
      BY DEF FeesInit, EpochFeesInit
    <2> HIDE DEF zero
    <2> QED BY <2>1, <2>2, <2>3 DEF FeesBacked
  <1>5. ChargesAreSpaced
    BY <1>2 DEF FeesInit, EpochFeesInit, ChargesAreSpaced
  <1> QED BY <1>1, <1>3, <1>4, <1>5 DEF EpochFeesIInv

LEMMA EpochFeesIInvStep ==
    ASSUME EpochFeesAssumption, EpochFeesIInv, [FeesNext]_epochFeesVars
    PROVE  EpochFeesIInv'
  <1>1. [OracleBondNext]_oracleBondVars
    BY DEF FeesNext, epochFeesVars, FeeSettings, SetEpochFee, SetStage, SetEpochLength, InitializeFeesV2, SetFeeBond, SetFeeOracle,
           FeeSettingFrame, DistributeFees, DepositFor, Withdraw, ChargeEpoch, AgentGetsOperator
  <1>2. OracleBondInv'
    BY <1>1, OracleBondInvStep DEF EpochFeesIInv
  <1>3. now' \in Nat /\ now' >= now
    <2>1. now \in Nat /\ now' \in Nat
      BY <1>2 DEF EpochFeesIInv, OracleBondInv, OracleBondTypeOK, GuardTypeOK
    <2>2. BondRegistryNext => now' = now
      BY DEF BondRegistryNext, OperatorNext, GovernanceNext, DepositBond, StartExit, WithdrawBond, SetSigner, ClearSigner,
             Admit, Slash, SetBondAmount, SetBondPeriod, SetSlashBeneficiary, GrantSlasher, RevokeSlasher
    <2>3. Tick \/ GuardNext => now' >= now
      BY GuardMovesType DEF EpochFeesIInv, OracleBondInv, OracleBondTypeOK
    <2> QED BY <1>1, <2>1, <2>2, <2>3 DEF OracleBondNext, oracleBondVars
  <1>4. CASE (OracleBondNext /\ UNCHANGED feeVars) \/ UNCHANGED epochFeesVars
    <2>1. agentOperator' \in [PayingAgents -> AgentOperators \cup {Nobody}]
      BY <1>4 DEF feeVars, epochFeesVars, EpochFeesIInv, EpochFeesTypeOK
    <2> QED BY <1>2, <1>3, <1>4, <2>1, RestOfFeesKeeps DEF feeVars, epochFeesVars, EpochFeesIInv
  <1>5. CASE FeeSettings
    BY <1>2, <1>5, FeeSettingsKeep DEF EpochFeesIInv
  <1>6. CASE DistributeFees
    BY <1>2, <1>6, DistributeFeesKeeps DEF EpochFeesIInv
  <1>7. ASSUME NEW d \in PayingAgents, NEW received \in FeeDeposits, DepositFor(d, received)
        PROVE  EpochFeesIInv'
    BY <1>2, <1>7, DepositForKeeps DEF EpochFeesIInv
  <1>8. ASSUME NEW d \in PayingAgents, NEW caller \in AgentOperators, NEW amount \in FeeWithdrawals,
               Withdraw(d, caller, amount)
        PROVE  EpochFeesIInv'
    BY <1>2, <1>8, WithdrawKeeps DEF EpochFeesIInv
  <1>9. ASSUME NEW d \in PayingAgents, NEW caller \in Addresses, ChargeEpoch(d, caller)
        PROVE  EpochFeesIInv'
    BY <1>2, <1>9, ChargeEpochKeeps DEF EpochFeesIInv
  <1>10. ASSUME NEW d \in PayingAgents, NEW account \in AgentOperators, AgentGetsOperator(d, account)
         PROVE  EpochFeesIInv'
    <2>1. agentOperator' \in [PayingAgents -> AgentOperators \cup {Nobody}]
      BY <1>10 DEF AgentGetsOperator, EpochFeesIInv, EpochFeesTypeOK
    <2> QED BY <1>2, <1>3, <1>10, <2>1, RestOfFeesKeeps DEF AgentGetsOperator, EpochFeesIInv
  <1> QED BY <1>4, <1>5, <1>6, <1>7, <1>8, <1>9, <1>10 DEF FeesNext

\* What agents have prepaid and what awaits distribution is in the vault to the last unit,
\* and no agent has paid more than the highest fee for each epoch begun since the length
\* was set: SigvaraEpochFees.sol, for any agents, keys, fees, lengths and shares.
THEOREM FeesAreBackedAndMetered ==
    ASSUME EpochFeesAssumption
    PROVE  FeesSpec => []EpochFeesInv
  <1>1. FeesInit => EpochFeesIInv
    BY EpochFeesIInvInit
  <1>2. EpochFeesIInv /\ [FeesNext]_epochFeesVars => EpochFeesIInv'
    BY EpochFeesIInvStep
  <1>3. EpochFeesIInv => EpochFeesInv
    BY SpacedIsMetered
  <1> QED BY <1>1, <1>2, <1>3, PTL DEF FeesSpec
==============================================================================
