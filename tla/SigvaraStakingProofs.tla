------------------------- MODULE SigvaraStakingProofs -------------------------
(***************************************************************************)
(* Proofs about the registry of agents and SigvaraStaking, for any sets of *)
(* agents, accounts, evidence and settings, and lists of any length.       *)
(* First the registry with any staking core: what its calls write is well  *)
(* typed, and every list holds exactly the agents of its operator.  Then   *)
(* that SafetyInv of the staking contract is inductive, what a step does   *)
(* and may not do, proved from it: a bond is taken only when it is due,    *)
(* nothing changes hands under accusation, rejected evidence stays         *)
(* rejected; bonds and credits move as BondCustody promises; the books and *)
(* the balance move together; and the contract is a staking core of the    *)
(* registry, whose theorems hold with it.  Last the keeper of              *)
(* SigvaraKeeper beside the contracts.                                     *)
(***************************************************************************)
EXTENDS SigvaraKeeper, SequenceTheorems, TLAPS

------------------------------------------------------------------------------
(* Types.                                                                  *)

LEMMA GuardNextType ==
    ASSUME GuardTypeOK, GuardNext
    PROVE  GuardTypeOK'
  BY InflowGuardAssumption
     DEF GuardTypeOK, GuardNext, PauseInflows, ResumeInflows, InflowGuardAssumption

LEMMA SwapAndPopType ==
    ASSUME NEW list \in Seq(Agents), NEW pos \in 1..Len(list)
    PROVE  SwapAndPop(list, pos) \in Seq(Agents)
  BY DEF SwapAndPop

LEMMA PositionInRange ==
    ASSUME NEW list \in Seq(Agents), NEW d \in Agents
    PROVE  PositionIn(list, d) \in 0..Len(list)
  <1>1. ScanFor(list, d) \in 0..Len(list)
    <2>1. CASE ~ \E i \in 1..Len(list) : list[i] = d
      BY <2>1 DEF ScanFor
    <2>2. CASE \E i \in 1..Len(list) : list[i] = d
      BY <2>2 DEF ScanFor
    <2> QED BY <2>1, <2>2
  <1> QED BY <1>1 DEF PositionIn

LEMMA MoveInIndexType ==
    ASSUME IdentityTypeOK, NEW d \in Agents, NEW from \in Accounts, NEW to \in Accounts,
           MoveInIndex(d, from, to)
    PROVE  /\ operatorAgents' \in [Accounts -> Seq(Agents)]
           /\ operatorAgentIndex' \in [Agents -> Nat]
  <1> DEFINE list  == operatorAgents[from]
             pos   == PositionIn(list, d)
             lists == IF pos = 0 THEN operatorAgents
                      ELSE [operatorAgents EXCEPT ![from] = SwapAndPop(list, pos)]
             indices == IF pos = 0 THEN operatorAgentIndex
                        ELSE [operatorAgentIndex EXCEPT ![list[Len(list)]] = pos]
  <1>1. list \in Seq(Agents)
    BY DEF IdentityTypeOK
  <1>2. pos \in 0..Len(list)
    BY <1>1, PositionInRange
  <1>3. lists \in [Accounts -> Seq(Agents)]
    <2>1. CASE pos = 0
      BY <2>1 DEF IdentityTypeOK
    <2>2. CASE pos # 0
      <3>1. SwapAndPop(list, pos) \in Seq(Agents)
        BY <1>1, <1>2, <2>2, SwapAndPopType
      <3> QED BY <2>2, <3>1 DEF IdentityTypeOK
    <2> QED BY <2>1, <2>2
  <1>4. indices \in [Agents -> Nat]
    BY <1>1, <1>2 DEF IdentityTypeOK
  <1>5. operatorAgents' = [lists EXCEPT ![to] = Append(@, d)]
    BY DEF MoveInIndex
  <1>6. operatorAgentIndex' = [indices EXCEPT ![d] = Len(lists[to]) + 1]
    BY DEF MoveInIndex
  <1>7. lists[to] \in Seq(Agents)
    BY <1>3
  <1>8. Append(lists[to], d) \in Seq(Agents) /\ Len(lists[to]) \in Nat
    BY <1>7
  <1> HIDE DEF lists, indices
  <1> QED BY <1>3, <1>4, <1>5, <1>6, <1>8

LEMMA UpdateStatusType ==
    ASSUME IdentityTypeOK, NEW d \in Agents, NEW caller, NEW s \in AgentStatus, NEW bonded,
           UpdateStatus(d, caller, s, bonded)
    PROVE  /\ identities' = [identities EXCEPT ![d].status = s]
           /\ identities' \in [Agents -> Identity]
           /\ \A e \in Agents : identities'[e].registered => identities'[e].operator \in Accounts
           /\ slashSuspended' \in [Agents -> BOOLEAN]
  <1>1. /\ identities \in [Agents -> Identity] /\ slashSuspended \in [Agents -> BOOLEAN]
        /\ \A e \in Agents : identities[e].registered => identities[e].operator \in Accounts
    BY DEF IdentityTypeOK, Registered, Operator
  <1>2. /\ identities' = [identities EXCEPT ![d].status = s]
        /\ slashSuspended' \in {slashSuspended, [slashSuspended EXCEPT ![d] = (s = "Suspended")]}
    BY DEF UpdateStatus
  <1>3. [slashSuspended EXCEPT ![d] = (s = "Suspended")] \in [Agents -> BOOLEAN]
    BY ONLY <1>1
  <1>4. ASSUME NEW i \in Identity
        PROVE  /\ [i EXCEPT !.status = s] \in Identity
               /\ [i EXCEPT !.status = s].registered = i.registered /\ [i EXCEPT !.status = s].operator = i.operator
    BY ONLY <1>4, s \in AgentStatus DEF Identity
  <1>5. /\ identities' \in [Agents -> Identity]
        /\ \A e \in Agents : identities'[e].registered = identities[e].registered
                             /\ identities'[e].operator = identities[e].operator
    BY ONLY <1>1, <1>2, <1>4, d \in Agents
  <1> QED BY ONLY <1>1, <1>2, <1>3, <1>5

LEMMA ClearSlashSuspensionType ==
    ASSUME IdentityTypeOK, NEW d \in Agents, ClearSlashSuspension(d)
    PROVE  /\ identities' = identities
           /\ slashSuspended' \in [Agents -> BOOLEAN]
  BY DEF IdentityTypeOK, ClearSlashSuspension

LEMMA WithOperatorType ==
    ASSUME NEW r \in Identity, NEW a \in Accounts
    PROVE  [r EXCEPT !.operator = a] \in Identity
  <1>1. r = [registered |-> r.registered, operator |-> r.operator, status |-> r.status,
             key |-> r.key]
    BY DEF Identity
  <1>2. [r EXCEPT !.operator = a] = [registered |-> r.registered, operator |-> a,
                                     status |-> r.status, key |-> r.key]
    BY <1>1
  <1> QED BY <1>2 DEF Identity

LEMMA OperatorStepType ==
    ASSUME IdentityTypeOK, NEW d \in Agents, NEW caller \in Accounts, NEW bonded,
           OperatorStep(d, caller, bonded)
    PROVE  IdentityTypeOK'
  <1> USE DEF IdentityTypeOK, GuardTypeOK
  <1>1. ASSUME NEW key \in PubKeys, RegisterAgent(d, caller, key)
        PROVE  IdentityTypeOK'
    <2>1. /\ Append(operatorAgents[caller], d) \in Seq(Agents)
          /\ Len(operatorAgents[caller]) + 1 \in Nat
      OBVIOUS
    <2>2. /\ operatorAgents' \in [Accounts -> Seq(Agents)]
          /\ operatorAgentIndex' \in [Agents -> Nat]
      BY <1>1, <2>1 DEF RegisterAgent
    <2>3. /\ identities' \in [Agents -> Identity]
          /\ \A e \in Agents : identities'[e].registered => identities'[e].operator \in Accounts
      BY <1>1 DEF RegisterAgent, Identity, AgentStatus, Registered, Operator
    <2> QED BY <1>1, <2>2, <2>3
           DEF RegisterAgent, guardVars, wiringVars, transferVars, Registered, Operator
  <1>2. ASSUME NEW key \in PubKeys, RotatePublicKey(d, caller, key)
        PROVE  IdentityTypeOK'
    <2>1. /\ identities' \in [Agents -> Identity]
          /\ \A e \in Agents : identities'[e].registered => identities'[e].operator \in Accounts
      BY <1>2 DEF RotatePublicKey, Identity, Registered, Operator
    <2> QED BY <1>2, <2>1
           DEF RotatePublicKey, guardVars, wiringVars, transferVars, indexVars, Registered, Operator
  <1>3. ASSUME NEW s \in AgentStatus, UpdateStatus(d, caller, s, bonded),
               UNCHANGED <<now, guardVars, wiringVars, transferVars, indexVars>>
        PROVE  IdentityTypeOK'
    BY <1>3, UpdateStatusType
    DEF guardVars, wiringVars, transferVars, indexVars, Registered, Operator
  <1>4. ASSUME NEW to \in Accounts, OfferOperatorTransfer(d, caller, to)
        PROVE  IdentityTypeOK'
    BY <1>4 DEF OfferOperatorTransfer, guardVars, wiringVars, indexVars, Registered, Operator
  <1>5. CASE CancelOperatorTransfer(d, caller)
    BY <1>5 DEF CancelOperatorTransfer, guardVars, wiringVars, indexVars, Registered, Operator
  <1>6. CASE AcceptOperatorTransfer(d, caller, bonded)
    <2>1. Operator(d) \in Accounts
      BY <1>6 DEF AcceptOperatorTransfer, Transferable
    <2>2. /\ operatorAgents' \in [Accounts -> Seq(Agents)]
          /\ operatorAgentIndex' \in [Agents -> Nat]
      BY <1>6, <2>1, MoveInIndexType DEF AcceptOperatorTransfer
    <2>3. /\ identities' \in [Agents -> Identity]
          /\ \A e \in Agents : identities'[e].registered => identities'[e].operator \in Accounts
      <3>1. identities' = [identities EXCEPT ![d].operator = caller]
        BY <1>6 DEF AcceptOperatorTransfer
      <3>2. identities \in [Agents -> Identity]
        OBVIOUS
      <3>3. [identities[d] EXCEPT !.operator = caller] \in Identity
        BY <3>2, WithOperatorType
      <3> QED BY <3>1, <3>2, <3>3 DEF Registered, Operator
    <2>4. /\ pendingOperator' \in [Agents -> Accounts \cup {NoAccount}]
          /\ operatorChangedAt' \in [Agents -> Nat]
          /\ operatorTransferCount' \in [Agents -> Nat]
      BY <1>6 DEF AcceptOperatorTransfer
    <2> QED BY <1>6, <2>2, <2>3, <2>4
           DEF AcceptOperatorTransfer, guardVars, wiringVars, Registered, Operator
  <1> QED BY <1>1, <1>2, <1>3, <1>4, <1>5, <1>6 DEF OperatorStep

LEMMA IdentityGovernanceType ==
    ASSUME IdentityTypeOK, IdentityGovernance
    PROVE  IdentityTypeOK'
  BY DEF IdentityGovernance, InitializeV2, SetStakeView, IdentityTypeOK, GuardTypeOK, guardVars,
         transferVars, indexVars, Registered, Operator

LEMMA IdentityInitType ==
    ASSUME NEW view \in StakeViews \cup {NoAccount}, IdentityInit(view)
    PROVE  IdentityTypeOK
  <1>1. GuardTypeOK
    BY DEF IdentityInit, GuardInit, GuardTypeOK
  <1>2. (CHOOSE k \in PubKeys : TRUE) \in PubKeys
    BY IdentityAssumption DEF IdentityAssumption
  <1>3. <<>> \in Seq(Agents) /\ LegacyList \in Seq(Agents) /\ LegacyOperator \in Accounts
    BY IdentityAssumption DEF IdentityAssumption
  <1>4. identities \in [Agents -> Identity]
    BY <1>2, <1>3 DEF IdentityInit, Identity, AgentStatus
  <1>5. operatorAgents \in [Accounts -> Seq(Agents)]
    BY <1>3 DEF IdentityInit
  <1> QED BY <1>1, <1>3, <1>4, <1>5 DEF IdentityInit, IdentityTypeOK, Registered, Operator

------------------------------------------------------------------------------
(* The lists and the positions, apart from the registry they belong to:    *)
(* owner names the account an agent is listed under, or nobody.            *)

Distinct(list) == \A i, j \in 1..Len(list) : list[i] = list[j] => i = j

\* Every list holds exactly its account's agents, once each.
Held(lists, owner) ==
    \A a \in Accounts : Listed(lists[a]) = {d \in Agents : owner[d] = a} /\ Distinct(lists[a])

\* A position that is recorded is right.
Placed(lists, index, owner, d) ==
    index[d] # 0 => /\ owner[d] \in Accounts
                    /\ index[d] \in 1..Len(lists[owner[d]])
                    /\ lists[owner[d]][index[d]] = d

LEMMA AppendedList ==
    ASSUME NEW list \in Seq(Agents), NEW d \in Agents, Distinct(list), d \notin Listed(list)
    PROVE  LET new == Append(list, d) IN
           /\ new \in Seq(Agents) /\ Len(new) = Len(list) + 1 /\ Len(list) \in Nat
           /\ \A i \in 1..Len(list) : new[i] = list[i]
           /\ new[Len(list) + 1] = d
           /\ Listed(new) = Listed(list) \cup {d} /\ Distinct(new)
  <1> DEFINE new == Append(list, d)
             n == Len(list)
  <1>1. /\ n \in Nat /\ new \in Seq(Agents) /\ Len(new) = n + 1
        /\ \A i \in 1..n : new[i] = list[i]
        /\ new[n + 1] = d
    BY AppendProperties, LenProperties
  <1> HIDE DEF new, n
  <1>2. Listed(new) = Listed(list) \cup {d}
    <2>1. \A i \in 1..(n + 1) : i \in 1..n \/ i = n + 1
      BY <1>1
    <2>2. \A i \in 1..n : i \in 1..(n + 1)
      BY <1>1
    <2>3. n + 1 \in 1..(n + 1)
      BY <1>1
    <2> QED BY <1>1, <2>1, <2>2, <2>3 DEF Listed, n
  <1>3. Distinct(new)
    <2> SUFFICES ASSUME NEW i \in 1..(n + 1), NEW j \in 1..(n + 1), new[i] = new[j]
                 PROVE  i = j
      BY <1>1 DEF Distinct
    <2>1. \A k \in 1..n : new[k] # d
      BY <1>1 DEF Listed, n
    <2>2. CASE i \in 1..n /\ j \in 1..n
      BY <1>1, <2>2 DEF Distinct, n
    <2>3. CASE i = n + 1 \/ j = n + 1
      BY <1>1, <2>1, <2>3
    <2> QED BY <1>1, <2>2, <2>3
  <1> QED BY <1>1, <1>2, <1>3 DEF new, n

\* The last element takes the place of the one that goes.
LEMMA PoppedList ==
    ASSUME NEW list \in Seq(Agents), NEW pos \in 1..Len(list), Distinct(list)
    PROVE  LET new == SwapAndPop(list, pos) IN
           /\ new \in Seq(Agents) /\ Len(new) = Len(list) - 1 /\ Len(list) \in Nat \ {0}
           /\ \A i \in 1..(Len(list) - 1) : new[i] = IF i = pos THEN list[Len(list)] ELSE list[i]
           /\ Listed(new) = Listed(list) \ {list[pos]} /\ Distinct(new)
  <1> DEFINE new == SwapAndPop(list, pos)
             n == Len(list)
  <1>1. n \in Nat \ {0} /\ pos \in 1..n /\ n - 1 \in Nat /\ \A i \in 1..n : list[i] \in Agents
    BY LenProperties
  <1>2. new \in [1..(n - 1) -> Agents]
    BY <1>1 DEF SwapAndPop
  <1>3. \A i \in 1..(n - 1) : new[i] = IF i = pos THEN list[n] ELSE list[i]
    BY DEF SwapAndPop
  <1>4. new \in Seq(Agents)
    BY <1>1, <1>2, SeqDef
  <1> HIDE DEF new, n
  <1>5. Len(new) = n - 1
    <2>1. Len(new) \in Nat /\ DOMAIN new = 1..Len(new)
      BY <1>4, LenProperties
    <2>2. DOMAIN new = 1..(n - 1)
      BY <1>2
    <2> QED BY <1>1, <2>1, <2>2
  <1>6. \A i, j \in 1..n : list[i] = list[j] => i = j
    BY DEF Distinct, n
  <1>7. Listed(new) = Listed(list) \ {list[pos]}
    <2>1. ASSUME NEW i \in 1..(n - 1) PROVE \E j \in 1..n : new[i] = list[j] /\ j # pos
      <3>1. CASE i = pos
        BY <1>1, <1>3, <3>1
      <3>2. CASE i # pos
        BY <1>1, <1>3, <3>2
      <3> QED BY <3>1, <3>2
    <2>2. ASSUME NEW j \in 1..n, j # pos PROVE \E i \in 1..(n - 1) : new[i] = list[j]
      <3>1. CASE j = n
        BY <1>1, <1>3, <2>2, <3>1
      <3>2. CASE j # n
        BY <1>1, <1>3, <2>2, <3>2
      <3> QED BY <3>1, <3>2
    <2>3. Listed(new) = {new[i] : i \in 1..(n - 1)} /\ Listed(list) = {list[j] : j \in 1..n}
      BY <1>5 DEF Listed, n
    <2>4. ASSUME NEW x \in Listed(new) PROVE x \in Listed(list) \ {list[pos]}
      <3>1. PICK i \in 1..(n - 1) : x = new[i]
        BY <2>3
      <3>2. PICK j \in 1..n : x = list[j] /\ j # pos
        BY <2>1, <3>1
      <3> QED BY <1>1, <1>6, <2>3, <3>2
    <2>5. ASSUME NEW x \in Listed(list) \ {list[pos]} PROVE x \in Listed(new)
      <3>1. PICK j \in 1..n : x = list[j] /\ j # pos
        BY <2>3
      <3>2. PICK i \in 1..(n - 1) : new[i] = list[j]
        BY <2>2, <3>1
      <3> QED BY <2>3, <3>1, <3>2
    <2> QED BY <2>4, <2>5
  <1>8. Distinct(new)
    <2> SUFFICES ASSUME NEW i \in 1..(n - 1), NEW j \in 1..(n - 1), new[i] = new[j]
                 PROVE  i = j
      BY <1>5 DEF Distinct
    <2> QED BY <1>1, <1>3, <1>6
  <1> QED BY <1>1, <1>3, <1>4, <1>5, <1>7, <1>8 DEF new, n

LEMMA PushedIsExact ==
    ASSUME NEW lists \in [Accounts -> Seq(Agents)], NEW index \in [Agents -> Nat],
           NEW owner \in [Agents -> Accounts \cup {NoAccount}], NEW d \in Agents, NEW a \in Accounts,
           owner[d] = NoAccount, Held(lists, owner),
           \A e \in Agents : e # d => Placed(lists, index, owner, e),
           NEW lists2, lists2 = [lists EXCEPT ![a] = Append(lists[a], d)],
           NEW index2, index2 = [index EXCEPT ![d] = Len(lists[a]) + 1],
           NEW owner2, owner2 = [owner EXCEPT ![d] = a]
    PROVE  Held(lists2, owner2) /\ \A e \in Agents : Placed(lists2, index2, owner2, e)
  <1>1. lists[a] \in Seq(Agents) /\ NoAccount \notin Accounts
    BY IdentityAssumption
  <1>2. Distinct(lists[a]) /\ d \notin Listed(lists[a])
    BY <1>1 DEF Held
  <1>3. /\ Len(lists2[a]) = Len(lists[a]) + 1 /\ Len(lists[a]) \in Nat
        /\ \A i \in 1..Len(lists[a]) : lists2[a][i] = lists[a][i]
        /\ lists2[a][Len(lists[a]) + 1] = d
        /\ Listed(lists2[a]) = Listed(lists[a]) \cup {d} /\ Distinct(lists2[a])
    <2>1. lists2[a] = Append(lists[a], d)
      OBVIOUS
    <2> QED BY <1>1, <1>2, <2>1, AppendedList
  <1>4. Held(lists2, owner2)
    <2>1. ASSUME NEW b \in Accounts, b # a
          PROVE  Listed(lists2[b]) = {e \in Agents : owner2[e] = b} /\ Distinct(lists2[b])
      <3>1. lists2[b] = lists[b]
        BY <2>1
      <3>2. {e \in Agents : owner2[e] = b} = {e \in Agents : owner[e] = b}
        BY <1>1, <2>1
      <3> QED BY <3>1, <3>2 DEF Held
    <2>2. {e \in Agents : owner2[e] = a} = {e \in Agents : owner[e] = a} \cup {d}
      OBVIOUS
    <2> QED BY <1>3, <2>1, <2>2 DEF Held
  <1>5. ASSUME NEW e \in Agents PROVE Placed(lists2, index2, owner2, e)
    <2>1. CASE e = d
      BY <1>3, <2>1 DEF Placed
    <2>2. CASE e # d
      <3>1. index2[e] = index[e] /\ owner2[e] = owner[e] /\ Placed(lists, index, owner, e) /\ index[e] \in Nat
        BY <2>2
      <3>2. CASE owner[e] = a
        BY <1>3, <3>1, <3>2 DEF Placed
      <3>3. CASE owner[e] # a
        <4>1. owner[e] \in Accounts => lists2[owner[e]] = lists[owner[e]]
          BY <3>3
        <4> QED BY <3>1, <4>1 DEF Placed
      <3> QED BY <3>2, <3>3
    <2> QED BY <2>1, <2>2
  <1> QED BY <1>4, <1>5

LEMMA PoppedIsExact ==
    ASSUME NEW lists \in [Accounts -> Seq(Agents)], NEW index \in [Agents -> Nat],
           NEW owner \in [Agents -> Accounts \cup {NoAccount}], NEW d \in Agents, owner[d] \in Accounts,
           Held(lists, owner), \A e \in Agents : Placed(lists, index, owner, e),
           NEW pos \in 1..Len(lists[owner[d]]), lists[owner[d]][pos] = d
    PROVE  LET list == lists[owner[d]]
               lists2 == [lists EXCEPT ![owner[d]] = SwapAndPop(list, pos)]
               index2 == [index EXCEPT ![list[Len(list)]] = pos]
               owner2 == [owner EXCEPT ![d] = NoAccount]
           IN  /\ lists2 \in [Accounts -> Seq(Agents)] /\ index2 \in [Agents -> Nat]
               /\ Held(lists2, owner2)
               /\ \A e \in Agents : e # d => Placed(lists2, index2, owner2, e)
  <1> DEFINE a == owner[d]
             lists2 == [lists EXCEPT ![a] = SwapAndPop(lists[a], pos)]
             index2 == [index EXCEPT ![lists[a][Len(lists[a])]] = pos]
             owner2 == [owner EXCEPT ![d] = NoAccount]
             n == Len(lists[a])
             last == lists[a][n]
  <1>1. lists[a] \in Seq(Agents) /\ NoAccount \notin Accounts /\ Distinct(lists[a])
    BY IdentityAssumption DEF Held
  <1>2. lists2[a] = SwapAndPop(lists[a], pos)
    OBVIOUS
  <1>3. /\ lists2[a] \in Seq(Agents) /\ Len(lists2[a]) = n - 1 /\ n \in Nat \ {0}
        /\ \A i \in 1..(n - 1) : lists2[a][i] = IF i = pos THEN last ELSE lists[a][i]
        /\ Listed(lists2[a]) = Listed(lists[a]) \ {d} /\ Distinct(lists2[a])
    <2> DEFINE new == SwapAndPop(lists[a], pos)
    <2>1. /\ new \in Seq(Agents) /\ Len(new) = n - 1 /\ n \in Nat \ {0}
          /\ \A i \in 1..(n - 1) : new[i] = IF i = pos THEN last ELSE lists[a][i]
          /\ Listed(new) = Listed(lists[a]) \ {lists[a][pos]} /\ Distinct(new)
      BY <1>1, PoppedList
    <2> HIDE DEF n, last
    <2> QED BY <1>2, <2>1
  <1>4. last \in Agents /\ pos \in 1..n /\ pos \in Nat
    BY <1>1, <1>3, ElementOfSeq
  <1>5. lists2 \in [Accounts -> Seq(Agents)]
    BY <1>2, <1>3
  <1>6. index2 \in [Agents -> Nat] /\ \A e \in Agents : index2[e] = IF e = last THEN pos ELSE index[e]
    BY <1>4
  <1>7. \A i, j \in 1..n : lists[a][i] = lists[a][j] => i = j
    BY <1>1 DEF Distinct
  <1> HIDE DEF n, last
  <1>8. Held(lists2, owner2)
    <2>1. ASSUME NEW b \in Accounts, b # a
          PROVE  Listed(lists2[b]) = {e \in Agents : owner2[e] = b} /\ Distinct(lists2[b])
      <3>1. lists2[b] = lists[b]
        BY <2>1
      <3>2. {e \in Agents : owner2[e] = b} = {e \in Agents : owner[e] = b}
        BY <1>1, <2>1
      <3> QED BY <3>1, <3>2 DEF Held
    <2>2. {e \in Agents : owner2[e] = a} = {e \in Agents : owner[e] = a} \ {d}
      BY <1>1
    <2> QED BY <1>3, <2>1, <2>2 DEF Held
  <1>9. ASSUME NEW e \in Agents, e # d PROVE Placed(lists2, index2, owner2, e)
    <2>1. owner2[e] = owner[e] /\ Placed(lists, index, owner, e) /\ index[e] \in Nat
      BY <1>9
    <2>2. CASE e = last
      <3>1. owner[e] = a
        <4>1. n \in 1..Len(lists[a]) /\ e = lists[a][n]
          BY <1>3, <2>2 DEF n, last
        <4>2. e \in Listed(lists[a])
          BY <4>1 DEF Listed
        <4> QED BY <4>2 DEF Held
      <3>2. pos # n
        BY <1>9, <2>2 DEF n, last
      <3>3. pos \in 1..(n - 1)
        BY <1>3, <1>4, <3>2
      <3> QED BY <1>3, <1>6, <2>1, <2>2, <3>1, <3>3 DEF Placed
    <2>3. CASE e # last
      <3>1. index2[e] = index[e]
        BY <1>6, <2>3
      <3>2. CASE owner[e] = a
        <4> SUFFICES ASSUME index[e] # 0
                     PROVE  index[e] \in 1..(n - 1) /\ lists2[a][index[e]] = e
          BY <1>3, <2>1, <3>1, <3>2 DEF Placed
        <4>1. index[e] \in 1..n /\ lists[a][index[e]] = e
          BY <2>1, <3>2 DEF Placed, n
        <4>2. index[e] # pos /\ index[e] # n
          BY <1>9, <2>3, <4>1 DEF last
        <4> QED BY <1>3, <4>1, <4>2
      <3>3. CASE owner[e] # a
        <4>1. owner[e] \in Accounts => lists2[owner[e]] = lists[owner[e]]
          BY <3>3
        <4> QED BY <2>1, <3>1, <4>1 DEF Placed
      <3> QED BY <3>2, <3>3
    <2> QED BY <2>2, <2>3
  <1> QED BY <1>5, <1>6, <1>8, <1>9

------------------------------------------------------------------------------
(* The registry.                                                           *)

\* The account an agent is listed under.
Owners == [d \in Agents |-> IF Registered(d) THEN Operator(d) ELSE NoAccount]

\* OperatorIndexExact, and no position is recorded for an agent that is not registered.
ListsExact ==
    Held(operatorAgents, Owners) /\ \A d \in Agents : Placed(operatorAgents, operatorAgentIndex, Owners, d)

IdentityIInv == IdentityTypeOK /\ ListsExact

LEMMA OwnersType ==
    ASSUME IdentityTypeOK
    PROVE  Owners \in [Agents -> Accounts \cup {NoAccount}]
  BY DEF Owners, IdentityTypeOK

LEMMA ListsStay ==
    ASSUME ListsExact, UNCHANGED indexVars, Owners' = Owners
    PROVE  ListsExact'
  BY DEF ListsExact, indexVars, Held, Placed

LEMMA PositionIsThere ==
    ASSUME NEW list \in Seq(Agents), NEW d \in Listed(list)
    PROVE  PositionIn(list, d) \in 1..Len(list) /\ list[PositionIn(list, d)] = d
  <1>1. \E i \in 1..Len(list) : list[i] = d
    BY DEF Listed
  <1>2. ScanFor(list, d) \in 1..Len(list) /\ list[ScanFor(list, d)] = d
    BY <1>1 DEF ScanFor
  <1> QED BY <1>2 DEF PositionIn

LEMMA RegisteringKeepsLists ==
    ASSUME IdentityIInv, NEW d \in Agents, NEW caller \in Accounts, NEW key \in PubKeys, RegisterAgent(d, caller, key)
    PROVE  ListsExact'
  <1> DEFINE lists == operatorAgents
             index == operatorAgentIndex
             owner == Owners
             lists2 == [lists EXCEPT ![caller] = Append(lists[caller], d)]
             index2 == [index EXCEPT ![d] = Len(lists[caller]) + 1]
             owner2 == [owner EXCEPT ![d] = caller]
  <1>1. /\ lists \in [Accounts -> Seq(Agents)] /\ index \in [Agents -> Nat]
        /\ owner \in [Agents -> Accounts \cup {NoAccount}] /\ owner[d] = NoAccount
        /\ Held(lists, owner) /\ \A e \in Agents : Placed(lists, index, owner, e)
    BY OwnersType DEF IdentityIInv, ListsExact, IdentityTypeOK, Owners, RegisterAgent
  <1>2. operatorAgents' = lists2 /\ operatorAgentIndex' = index2
    BY DEF RegisterAgent
  <1>3. Owners' = owner2
    BY DEF RegisterAgent, IdentityIInv, IdentityTypeOK, Owners, Registered, Operator
  <1> HIDE DEF lists, index, owner, lists2, index2, owner2
  <1>4. Held(lists2, owner2) /\ \A e \in Agents : Placed(lists2, index2, owner2, e)
    BY <1>1, PushedIsExact DEF lists2, index2, owner2
  <1> QED BY <1>2, <1>3, <1>4 DEF ListsExact, Held, Placed

LEMMA AcceptingKeepsLists ==
    ASSUME IdentityIInv, NEW d \in Agents, NEW caller \in Accounts, NEW bonded,
           AcceptOperatorTransfer(d, caller, bonded)
    PROVE  ListsExact'
  <1> DEFINE from == Operator(d)
             lists == operatorAgents
             index == operatorAgentIndex
             owner == Owners
             list == lists[from]
             pos == PositionIn(list, d)
             lists2 == [lists EXCEPT ![from] = SwapAndPop(list, pos)]
             index2 == [index EXCEPT ![list[Len(list)]] = pos]
             owner2 == [owner EXCEPT ![d] = NoAccount]
             lists3 == [lists2 EXCEPT ![caller] = Append(lists2[caller], d)]
             index3 == [index2 EXCEPT ![d] = Len(lists2[caller]) + 1]
             owner3 == [owner2 EXCEPT ![d] = caller]
  <1>1. /\ lists \in [Accounts -> Seq(Agents)] /\ index \in [Agents -> Nat]
        /\ owner \in [Agents -> Accounts \cup {NoAccount}] /\ owner[d] = from /\ from \in Accounts
        /\ Held(lists, owner) /\ \A e \in Agents : Placed(lists, index, owner, e)
    BY OwnersType DEF IdentityIInv, ListsExact, IdentityTypeOK, Owners, AcceptOperatorTransfer, Transferable
  <1>2. list \in Seq(Agents) /\ d \in Listed(list)
    BY <1>1 DEF Held
  <1>3. pos \in 1..Len(list) /\ list[pos] = d
    BY <1>2, PositionIsThere
  <1>4. pos # 0
    BY <1>2, <1>3
  <1>5. MoveInIndex(d, from, caller)
    BY DEF AcceptOperatorTransfer
  <1>6. operatorAgents' = lists3 /\ operatorAgentIndex' = index3
    BY <1>4, <1>5 DEF MoveInIndex
  <1>7. Owners' = owner3
    <2>1. identities' = [identities EXCEPT ![d].operator = caller] /\ Registered(d)
      BY DEF AcceptOperatorTransfer, Transferable
    <2> QED BY <2>1 DEF IdentityIInv, IdentityTypeOK, Identity, Owners, Registered, Operator
  <1> HIDE DEF from, lists, index, owner, pos, lists2, index2, owner2, lists3, index3, owner3
  <1>8. /\ lists2 \in [Accounts -> Seq(Agents)] /\ index2 \in [Agents -> Nat]
        /\ Held(lists2, owner2)
        /\ \A e \in Agents : e # d => Placed(lists2, index2, owner2, e)
    <2> DEFINE mine == owner[d]
               popped == [lists EXCEPT ![mine] = SwapAndPop(lists[mine], pos)]
               placed == [index EXCEPT ![lists[mine][Len(lists[mine])]] = pos]
               left == [owner EXCEPT ![d] = NoAccount]
    <2>1. mine = from
      BY <1>1
    <2>2. mine \in Accounts /\ pos \in 1..Len(lists[mine]) /\ lists[mine][pos] = d
      BY <1>1, <1>3, <2>1
    <2>3. /\ popped \in [Accounts -> Seq(Agents)] /\ placed \in [Agents -> Nat]
          /\ Held(popped, left)
          /\ \A e \in Agents : e # d => Placed(popped, placed, left, e)
      BY <1>1, <2>2, PoppedIsExact
    <2>4. popped = lists2 /\ placed = index2 /\ left = owner2
      BY <2>1 DEF lists2, index2, owner2
    <2> HIDE DEF popped, placed, left
    <2> QED BY <2>3, <2>4
  <1>9. owner2 \in [Agents -> Accounts \cup {NoAccount}] /\ owner2[d] = NoAccount
    BY <1>1 DEF owner2
  <1>10. Held(lists3, owner3) /\ \A e \in Agents : Placed(lists3, index3, owner3, e)
    BY <1>8, <1>9, PushedIsExact DEF lists3, index3, owner3
  <1> QED BY <1>6, <1>7, <1>10 DEF ListsExact, Held, Placed

LEMMA StatusKeepsOwners ==
    ASSUME IdentityTypeOK, NEW d \in Agents, NEW caller, NEW s \in AgentStatus, NEW bonded,
           UpdateStatus(d, caller, s, bonded)
    PROVE  Owners' = Owners
  <1>1. identities' = [identities EXCEPT ![d].status = s]
    BY UpdateStatusType
  <1>2. \A e \in Agents : Registered(e)' = Registered(e) /\ Operator(e)' = Operator(e)
    BY <1>1 DEF IdentityTypeOK, Identity, Registered, Operator
  <1> QED BY <1>2 DEF Owners

LEMMA OperatorStepKeepsLists ==
    ASSUME IdentityIInv, NEW d \in Agents, NEW caller \in Accounts, NEW bonded, OperatorStep(d, caller, bonded)
    PROVE  ListsExact'
  <1> USE DEF IdentityIInv
  <1>1. ASSUME NEW key \in PubKeys, RegisterAgent(d, caller, key) PROVE ListsExact'
    BY <1>1, RegisteringKeepsLists
  <1>2. ASSUME NEW key \in PubKeys, RotatePublicKey(d, caller, key) PROVE ListsExact'
    <2>1. identities' = [identities EXCEPT ![d].key = key] /\ UNCHANGED indexVars
      BY <1>2 DEF RotatePublicKey
    <2>2. \A e \in Agents : Registered(e)' = Registered(e) /\ Operator(e)' = Operator(e)
      BY <2>1 DEF IdentityTypeOK, Identity, Registered, Operator
    <2> QED BY <2>1, <2>2, ListsStay DEF Owners
  <1>3. ASSUME NEW s \in AgentStatus, UpdateStatus(d, caller, s, bonded), UNCHANGED indexVars PROVE ListsExact'
    BY <1>3, StatusKeepsOwners, ListsStay
  <1>4. ASSUME UNCHANGED <<identities, indexVars>> PROVE ListsExact'
    <2>1. Owners' = Owners
      BY <1>4 DEF Owners, Registered, Operator
    <2> QED BY <1>4, <2>1, ListsStay
  <1>5. ASSUME NEW to \in Accounts, OfferOperatorTransfer(d, caller, to) PROVE ListsExact'
    BY <1>4, <1>5 DEF OfferOperatorTransfer
  <1>6. CASE CancelOperatorTransfer(d, caller)
    BY <1>4, <1>6 DEF CancelOperatorTransfer
  <1>7. CASE AcceptOperatorTransfer(d, caller, bonded)
    BY <1>7, AcceptingKeepsLists
  <1> QED BY <1>1, <1>2, <1>3, <1>5, <1>6, <1>7 DEF OperatorStep

LEMMA IdentityIInvInit ==
    ASSUME NEW view \in StakeViews \cup {NoAccount}, IdentityInit(view)
    PROVE  IdentityIInv
  <1>1. IdentityTypeOK
    BY IdentityInitType
  <1>2. LegacyList \in Seq(Agents) /\ LegacyOperator \in Accounts /\ NoAccount \notin Accounts /\ Distinct(LegacyList)
    BY IdentityAssumption DEF Distinct
  <1>3. LegacyAgents \subseteq Agents
    BY <1>2, LenProperties DEF LegacyAgents, Listed
  <1>4. Owners = [d \in Agents |-> IF d \in LegacyAgents THEN LegacyOperator ELSE NoAccount]
    BY DEF IdentityInit, Owners, Registered, Operator
  <1>5. operatorAgents = [a \in Accounts |-> IF a = LegacyOperator THEN LegacyList ELSE <<>>]
    BY DEF IdentityInit
  <1>6. Listed(<<>>) = {} /\ Distinct(<<>>)
    BY DEF Listed, Distinct
  <1>7. Held(operatorAgents, Owners)
    <2>1. ASSUME NEW a \in Accounts, a = LegacyOperator
          PROVE  Listed(operatorAgents[a]) = {d \in Agents : Owners[d] = a} /\ Distinct(operatorAgents[a])
      <3>1. {d \in Agents : Owners[d] = a} = LegacyAgents
        BY <1>2, <1>3, <1>4, <2>1
      <3> QED BY <1>2, <1>5, <2>1, <3>1 DEF LegacyAgents
    <2>2. ASSUME NEW a \in Accounts, a # LegacyOperator
          PROVE  Listed(operatorAgents[a]) = {d \in Agents : Owners[d] = a} /\ Distinct(operatorAgents[a])
      <3>1. {d \in Agents : Owners[d] = a} = {}
        BY <1>2, <1>4, <2>2
      <3> QED BY <1>5, <1>6, <2>2, <3>1
    <2> QED BY <2>1, <2>2 DEF Held
  <1>8. \A d \in Agents : Placed(operatorAgents, operatorAgentIndex, Owners, d)
    BY DEF IdentityInit, Placed
  <1> QED BY <1>1, <1>7, <1>8 DEF IdentityIInv, ListsExact

LEMMA IdentityIInvStep ==
    ASSUME IdentityIInv, [IdentityNext]_<<now, guardVars, identityVars>>
    PROVE  IdentityIInv'
  <1> USE DEF IdentityIInv
  <1>1. ASSUME UNCHANGED identityVars, GuardTypeOK' PROVE IdentityIInv'
    <2>1. IdentityTypeOK'
      BY <1>1 DEF IdentityTypeOK, identityVars, wiringVars, transferVars, indexVars, Registered, Operator
    <2>2. Owners' = Owners /\ UNCHANGED indexVars
      BY <1>1 DEF Owners, identityVars, Registered, Operator
    <2> QED BY <2>1, <2>2, ListsStay
  <1>2. CASE Tick /\ UNCHANGED identityVars
    <2>1. GuardTypeOK'
      BY <1>2 DEF IdentityTypeOK, GuardTypeOK, Tick, guardVars
    <2> QED BY <1>1, <1>2, <2>1
  <1>3. CASE GuardNext /\ UNCHANGED identityVars
    BY <1>1, <1>3, GuardNextType DEF IdentityTypeOK
  <1>4. CASE IdentityGovernance
    <2>1. UNCHANGED <<identities, indexVars>>
      BY <1>4 DEF IdentityGovernance, InitializeV2, SetStakeView
    <2>2. Owners' = Owners
      BY <2>1 DEF Owners, Registered, Operator
    <2> QED BY <1>4, <2>1, <2>2, IdentityGovernanceType, ListsStay
  <1>5. ASSUME NEW d \in Agents, NEW caller \in Accounts, NEW bonded \in BOOLEAN, OperatorStep(d, caller, bonded)
        PROVE  IdentityIInv'
    BY <1>5, OperatorStepType, OperatorStepKeepsLists
  <1>6. ASSUME NEW d \in Agents, NEW bonded \in BOOLEAN, StakingCoreStep(d, bonded)
        PROVE  IdentityIInv'
    <2>1. UNCHANGED <<now, guardVars, wiringVars, transferVars, indexVars>>
      BY <1>6 DEF StakingCoreStep
    <2>2. ASSUME NEW s \in AgentStatus, UpdateStatus(d, StakingCore, s, bonded) PROVE IdentityIInv'
      <3>1. IdentityTypeOK'
        BY <2>1, <2>2, UpdateStatusType
           DEF guardVars, wiringVars, transferVars, indexVars, IdentityTypeOK, GuardTypeOK, Registered, Operator
      <3> QED BY <2>1, <2>2, <3>1, StatusKeepsOwners, ListsStay
    <2>3. CASE ClearSlashSuspension(d)
      <3>1. IdentityTypeOK'
        BY <2>1, <2>3, ClearSlashSuspensionType
           DEF guardVars, wiringVars, transferVars, indexVars, IdentityTypeOK, GuardTypeOK, Registered, Operator
      <3>2. Owners' = Owners
        BY <2>3 DEF ClearSlashSuspension, Owners, Registered, Operator
      <3> QED BY <2>1, <3>1, <3>2, ListsStay
    <2> QED BY <1>6, <2>2, <2>3 DEF StakingCoreStep
  <1>7. CASE UNCHANGED <<now, guardVars, identityVars>>
    <2>1. GuardTypeOK'
      BY <1>7 DEF IdentityTypeOK, GuardTypeOK, guardVars
    <2> QED BY <1>1, <1>7, <2>1
  <1> QED BY <1>2, <1>3, <1>4, <1>5, <1>6, <1>7 DEF IdentityNext

\* Whatever operators, strangers and a staking core call, and however many agents were listed before positions were
\* recorded: each list holds exactly the agents of its operator, once each, and a recorded position is right
\* (SigvaraIdentity._removeFromOperatorIndex and _pushToOperatorIndex).
THEOREM ListsStayExact == IdentitySpec => []OperatorIndexExact
  <1>1. (\E view \in StakeViews \cup {NoAccount} : IdentityInit(view)) => IdentityIInv
    BY IdentityIInvInit
  <1>2. IdentityIInv /\ [IdentityNext]_<<now, guardVars, identityVars>> => IdentityIInv'
    BY IdentityIInvStep
  <1>3. IdentityIInv => OperatorIndexExact
    <2> SUFFICES ASSUME IdentityIInv PROVE OperatorIndexExact
      OBVIOUS
    <2>1. NoAccount \notin Accounts
      BY IdentityAssumption
    <2>2. ASSUME NEW a \in Accounts
          PROVE  {d \in Agents : Owners[d] = a} = {d \in Agents : Registered(d) /\ Operator(d) = a}
      BY <2>1 DEF Owners
    <2>3. ASSUME NEW d \in Agents, operatorAgentIndex[d] # 0
          PROVE  /\ operatorAgentIndex[d] <= Len(operatorAgents[Operator(d)])
                 /\ operatorAgents[Operator(d)][operatorAgentIndex[d]] = d
      <3>1. Owners[d] = Operator(d)
        BY <2>1, <2>3 DEF IdentityIInv, ListsExact, Placed, Owners
      <3> QED BY <2>3, <3>1 DEF IdentityIInv, ListsExact, Placed
    <2> QED BY <2>2, <2>3 DEF IdentityIInv, ListsExact, Held, Distinct, OperatorIndexExact
  <1> QED BY <1>1, <1>2, <1>3, PTL DEF IdentitySpec

------------------------------------------------------------------------------
(* The staking contract.                                                    *)

\* The two calls the staking contract makes.
LEMMA CoreCallsType ==
    ASSUME IdentityTypeOK, NEW d \in Agents, NEW s \in AgentStatus, NEW amount,
           \/ CoreUpdateStatus(d, s, amount)
           \/ ClearSlashSuspension(d) /\ IdentityFrame
    PROVE  IdentityTypeOK'
  <1>1. CASE CoreUpdateStatus(d, s, amount)
    <2>1. UpdateStatus(d, StakingCore, s, amount >= minimumStake) /\ IdentityFrame
      BY <1>1 DEF CoreUpdateStatus
    <2> QED BY <2>1, UpdateStatusType
           DEF IdentityFrame, clockVars, guardVars, wiringVars, transferVars, indexVars,
               IdentityTypeOK, GuardTypeOK, Registered, Operator
  <1>2. CASE ClearSlashSuspension(d) /\ IdentityFrame
    BY <1>2, ClearSlashSuspensionType
    DEF IdentityFrame, clockVars, guardVars, wiringVars, transferVars, indexVars,
        IdentityTypeOK, GuardTypeOK, Registered, Operator
  <1> QED BY <1>1, <1>2

------------------------------------------------------------------------------
(* Safety.  SafetyInv is a type and, for each agent, a relation between    *)
(* its identity, its bond and its proposal, which every call changes for   *)
(* one agent only.                                                         *)

AgentOK(d) ==
    LET p == slashProposals[d] IN
    /\ Live(d) => slashSuspended[d] /\ Registered(d) /\ Status(d) = "Suspended"
    /\ slashSuspended[d] => Live(d) \/ Status(d) = "Slashed"
    /\ Registered(d) /\ Status(d) = "Slashed" <=> p.state = "Executed"
    /\ p.state = "Executed" => Bond(d) = 0 /\ reputation[d] = 0
    /\ Registered(d) /\ Status(d) = "Active" => stakes[d].amount > 0
    /\ Live(d) => Bond(d) > 0
    /\ Live(d) => p.challengeDeadline - p.initiatedAt
                      \in MIN_CHALLENGE_PERIOD..MAX_CHALLENGE_PERIOD
    /\ p.state = "Disputed" =>
           /\ p.initiatedAt <= p.disputedAt
           /\ p.challengeDeadline < p.disputedAt + DISPUTE_RESOLUTION_PERIOD
    /\ Live(d) => p.evidence \notin evidenceRejected[d]
    /\ p.initiatedAt <= now
    /\ p.state # "None" => p.victim \in Victims
    /\ Status(d) = "Slashed" => Registered(d)

LEMMA SafetyInvByAgent ==
    SafetyInv <=> StakingTypeOK /\ \A d \in Agents : AgentOK(d)
  BY DEF SafetyInv, SuspensionLock, SlashedIsFinal, ActiveIsBacked, AccusedIsBonded,
         RulingWindow, RejectedStaysRejected, ProposalsAreFiled, SlashedIsRegistered, AgentOK

LEMMA SafetyInvByAgentNext ==
    ASSUME StakingTypeOK', \A d \in Agents : AgentOK(d)'
    PROVE  SafetyInv'
  BY DEF SafetyInv, SuspensionLock, SlashedIsFinal, ActiveIsBacked, AccusedIsBonded,
         RulingWindow, RejectedStaysRejected, ProposalsAreFiled, SlashedIsRegistered, AgentOK

LEMMA PeriodTypes ==
    /\ MIN_CHALLENGE_PERIOD \in Nat \ {0} /\ MAX_CHALLENGE_PERIOD \in Nat
    /\ MIN_UNBONDING_PERIOD \in Nat \ {0} /\ MAX_UNBONDING_PERIOD \in Nat
    /\ DISPUTE_RESOLUTION_PERIOD \in Nat /\ EXECUTION_PERIOD \in Nat
    /\ MAX_CHALLENGE_PERIOD < DISPUTE_RESOLUTION_PERIOD
  BY StakingAssumption DEF StakingAssumption

\* The types of the numbers a step computes with.
LEMMA NumberTypes ==
    ASSUME StakingTypeOK
    PROVE  /\ IdentityTypeOK
           /\ now \in Nat
           /\ minimumStake \in Nat \ {0}
           /\ challengePeriod \in Nat /\ unbondingPeriod \in Nat
           /\ challengePeriod \in MIN_CHALLENGE_PERIOD..MAX_CHALLENGE_PERIOD
  BY PeriodTypes DEF StakingTypeOK, IdentityTypeOK, GuardTypeOK

\* What an agent's part of the invariant reads.
AgentView(d) ==
    <<identities[d].registered, identities[d].status, slashSuspended[d], stakes[d],
      slashProposals[d], evidenceRejected[d], reputation[d]>>

LEMMA UntouchedAgent ==
    ASSUME NEW d \in Agents, AgentOK(d), AgentView(d)' = AgentView(d),
           StakingTypeOK, now' \in Nat, now' >= now
    PROVE  AgentOK(d)'
  <1>1. slashProposals[d].initiatedAt \in Nat /\ now \in Nat
    BY DEF StakingTypeOK, SlashProposal, IdentityTypeOK, GuardTypeOK
  <1> QED BY <1>1 DEF AgentOK, AgentView, Live, Bond, Registered, Status

LEMMA CoreEffect ==
    ASSUME IdentityTypeOK, NEW d \in Agents, NEW s \in AgentStatus, NEW amount,
           CoreUpdateStatus(d, s, amount)
    PROVE  /\ IdentityTypeOK'
           /\ now' = now
           /\ Registered(d) /\ Status(d) # "Slashed"
           /\ s = "Active" => amount >= minimumStake
           /\ identities' = [identities EXCEPT ![d].status = s]
           /\ slashSuspended' = IF s \in {"Suspended", "Active"}
                                THEN [slashSuspended EXCEPT ![d] = (s = "Suspended")]
                                ELSE slashSuspended
  <1>1. UpdateStatus(d, StakingCore, s, amount >= minimumStake) /\ IdentityFrame
    BY DEF CoreUpdateStatus
  <1>2. IdentityTypeOK'
    BY CoreCallsType
  <1> QED BY <1>1, <1>2 DEF UpdateStatus, MayUpdateStatus, IdentityFrame, clockVars

\* The same, agent by agent.
LEMMA CoreEffectOn ==
    ASSUME IdentityTypeOK, NEW d \in Agents, NEW s \in AgentStatus, NEW amount,
           CoreUpdateStatus(d, s, amount), NEW e \in Agents
    PROVE  /\ identities'[e].registered = identities[e].registered
           /\ identities'[e].status = IF e = d THEN s ELSE identities[e].status
           /\ slashSuspended'[e] = IF e = d /\ s \in {"Suspended", "Active"}
                                   THEN s = "Suspended" ELSE slashSuspended[e]
  <1>1. identities \in [Agents -> Identity] /\ slashSuspended \in [Agents -> BOOLEAN]
    BY DEF IdentityTypeOK
  <1>2. \A r \in Identity : /\ [r EXCEPT !.status = s].registered = r.registered
                            /\ [r EXCEPT !.status = s].status = s
    BY DEF Identity
  <1>3. identities' = [identities EXCEPT ![d].status = s]
    BY CoreEffect
  <1>4. /\ identities'[e].registered = identities[e].registered
        /\ identities'[e].status = IF e = d THEN s ELSE identities[e].status
    BY <1>1, <1>2, <1>3
  <1>5. slashSuspended' = IF s \in {"Suspended", "Active"}
                          THEN [slashSuspended EXCEPT ![d] = (s = "Suspended")]
                          ELSE slashSuspended
    BY CoreEffect
  <1> QED BY <1>1, <1>4, <1>5

LEMMA InitiateSlashKeeps ==
    ASSUME SafetyInv, NEW d \in Agents, NEW reporter \in CommitteeCandidates,
           NEW victim \in Victims, NEW evidence \in Evidence,
           InitiateSlash(d, reporter, victim, evidence)
    PROVE  SafetyInv'
  <1> DEFINE filed == [state |-> "Pending", reporter |-> reporter, victim |-> victim,
                       evidence |-> evidence, initiatedAt |-> now,
                       challengeDeadline |-> now + challengePeriod, disputedAt |-> 0]
  <1>0. StakingTypeOK
    BY DEF SafetyInv
  <1>1. StakingTypeOK /\ IdentityTypeOK /\ now \in Nat /\ challengePeriod \in Nat
    BY <1>0, NumberTypes
  <1>2. /\ CoreUpdateStatus(d, "Suspended", stakes[d].amount)
        /\ slashProposals' = [slashProposals EXCEPT ![d] = filed]
        /\ MayFile(d, evidence)
        /\ UNCHANGED <<bondVars, lastDroppedAt, evidenceRejected, claimable, committee,
                       paramVars, reputation>>
    BY DEF InitiateSlash
  <1>3. filed \in SlashProposal
    BY <1>1 DEF SlashProposal, SlashState
  <1>4. "Suspended" \in AgentStatus
    BY DEF AgentStatus
  <1>5. StakingTypeOK'
    BY <1>1, <1>2, <1>3, <1>4, CoreEffect DEF StakingTypeOK, bondVars, paramVars
  <1>6. ASSUME NEW e \in Agents
        PROVE  AgentOK(e)'
    <2>1. AgentOK(e)
      BY SafetyInvByAgent
    <2>2. CASE e # d
      BY <1>1, <1>2, <1>4, <2>1, <2>2, CoreEffect, CoreEffectOn, UntouchedAgent
      DEF AgentView, bondVars, StakingTypeOK
    <2>3. CASE e = d
      <3>1. /\ Registered(d)' /\ Status(d)' = "Suspended" /\ slashSuspended'[d]
            /\ stakes' = stakes /\ evidenceRejected' = evidenceRejected /\ now' = now
        BY <1>1, <1>2, <1>4, CoreEffect, CoreEffectOn DEF bondVars, Registered, Status
      <3>2. slashProposals'[d] = filed
        BY <1>1, <1>2 DEF StakingTypeOK
      <3>3. Bond(d) \in Nat /\ Bond(d)' = Bond(d)
        BY <1>1, <3>1 DEF Bond, StakingTypeOK, Stake
      <3>4. filed.challengeDeadline - filed.initiatedAt \in MIN_CHALLENGE_PERIOD..MAX_CHALLENGE_PERIOD
        BY <1>0, <1>1, NumberTypes
      <3> QED BY <1>1, <1>2, <2>3, <3>1, <3>2, <3>3, <3>4 DEF AgentOK, Live, MayFile
    <2> QED BY <2>2, <2>3
  <1> QED BY <1>5, <1>6, SafetyInvByAgentNext

LEMMA DisputedType ==
    ASSUME NEW p \in SlashProposal, NEW t \in Nat
    PROVE  [p EXCEPT !.state = "Disputed", !.disputedAt = t] \in SlashProposal
  <1>1. ASSUME NEW q \in SlashProposal
        PROVE  [q EXCEPT !.disputedAt = t] \in SlashProposal
    BY <1>1 DEF SlashProposal
  <1>2. [p EXCEPT !.state = "Disputed"] \in SlashProposal
    BY DEF SlashProposal, SlashState
  <1> QED BY <1>1, <1>2

LEMMA DisputeSlashKeeps ==
    ASSUME SafetyInv, NEW d \in Agents, NEW caller, DisputeSlash(d, caller)
    PROVE  SafetyInv'
  <1>1. StakingTypeOK /\ now \in Nat
    BY NumberTypes DEF SafetyInv
  <1>2. /\ slashProposals' = [slashProposals EXCEPT ![d].state = "Disputed", ![d].disputedAt = now]
        /\ slashProposals[d].state = "Pending"
        /\ now <= slashProposals[d].challengeDeadline
        /\ UNCHANGED <<clockVars, identityVars, bondVars, lastDroppedAt, evidenceRejected,
                       claimable, committee, paramVars, reputation>>
    BY DEF DisputeSlash
  <1>3. slashProposals' \in [Agents -> SlashProposal]
    <2>1. slashProposals \in [Agents -> SlashProposal] /\ slashProposals[d] \in SlashProposal
      BY <1>1 DEF StakingTypeOK
    <2>2. [slashProposals[d] EXCEPT !.state = "Disputed", !.disputedAt = now] \in SlashProposal
      BY <1>1, <2>1, DisputedType
    <2>3. slashProposals' = [slashProposals EXCEPT ![d] =
              [slashProposals[d] EXCEPT !.state = "Disputed", !.disputedAt = now]]
      BY <1>2, <2>1
    <2> QED BY <2>1, <2>2, <2>3
  <1>4. IdentityTypeOK'
    BY <1>1, <1>2 DEF StakingTypeOK, IdentityTypeOK, GuardTypeOK, clockVars, guardVars, identityVars,
                      wiringVars, transferVars, indexVars, Registered, Operator
  <1>5. StakingTypeOK'
    BY <1>1, <1>2, <1>3, <1>4 DEF StakingTypeOK, bondVars, paramVars
  <1>6. ASSUME NEW e \in Agents
        PROVE  AgentOK(e)'
    <2>1. AgentOK(e) /\ slashProposals[e] \in SlashProposal
      BY <1>1, SafetyInvByAgent DEF StakingTypeOK
    <2>2. CASE e # d
      BY <1>1, <1>2, <2>1, <2>2, UntouchedAgent
      DEF AgentView, bondVars, clockVars, identityVars, StakingTypeOK
    <2>3. CASE e = d
      <3>1. /\ slashProposals'[d].state = "Disputed" /\ slashProposals'[d].disputedAt = now
            /\ slashProposals'[d].initiatedAt = slashProposals[d].initiatedAt
            /\ slashProposals'[d].challengeDeadline = slashProposals[d].challengeDeadline
            /\ slashProposals'[d].evidence = slashProposals[d].evidence
            /\ slashProposals'[d].victim = slashProposals[d].victim
        BY <1>1, <1>2 DEF StakingTypeOK, SlashProposal
      <3>2. /\ slashProposals[d].initiatedAt \in Nat
            /\ slashProposals[d].challengeDeadline \in Nat
        BY <2>1, <2>3 DEF SlashProposal
      <3> QED BY <1>1, <1>2, <2>1, <2>3, <3>1, <3>2, PeriodTypes
          DEF AgentOK, Live, Bond, Registered, Status, bondVars, clockVars, identityVars
    <2> QED BY <2>2, <2>3
  <1> QED BY <1>5, <1>6, SafetyInvByAgentNext

LEMMA DropProposalKeeps ==
    ASSUME SafetyInv, NEW d \in Agents, Live(d), DropProposal(d),
           evidenceRejected' = evidenceRejected \/ RejectEvidence(d)
    PROVE  SafetyInv'
  <1>1. StakingTypeOK /\ IdentityTypeOK /\ now \in Nat /\ minimumStake \in Nat \ {0}
    BY NumberTypes DEF SafetyInv
  <1>2. /\ slashProposals' = [slashProposals EXCEPT ![d].state = "Cancelled"]
        /\ lastDroppedAt' = [lastDroppedAt EXCEPT ![d] = now]
        /\ UNCHANGED <<bondVars, claimable, committee, paramVars, reputation>>
    BY DEF DropProposal
  <1>3. \/ HasMinimumStake(d) /\ CoreUpdateStatus(d, "Active", stakes[d].amount)
        \/ ClearSlashSuspension(d) /\ IdentityFrame
    BY DEF DropProposal
  <1>4. "Active" \in AgentStatus
    BY DEF AgentStatus
  <1>5. slashProposals' \in [Agents -> SlashProposal]
    BY <1>1, <1>2 DEF StakingTypeOK, SlashProposal, SlashState
  <1>6. evidenceRejected' \in [Agents -> SUBSET Evidence]
    BY <1>1 DEF RejectEvidence, StakingTypeOK, SlashProposal
  <1>7. IdentityTypeOK' /\ now' = now
    BY <1>1, <1>3, <1>4, CoreCallsType, CoreEffect DEF IdentityFrame, clockVars
  <1>8. StakingTypeOK'
    BY <1>1, <1>2, <1>5, <1>6, <1>7 DEF StakingTypeOK, bondVars, paramVars
  \* Either way the lock is off, and an agent made Active has its minimum.
  <1>9. ASSUME NEW e \in Agents
        PROVE  /\ identities'[e].registered = identities[e].registered
               /\ e # d => /\ identities'[e].status = identities[e].status
                           /\ slashSuspended'[e] = slashSuspended[e]
               /\ ~slashSuspended'[d]
               /\ \/ identities'[d].status = identities[d].status
                  \/ identities'[d].status = "Active" /\ stakes[d].amount >= minimumStake
    <2>1. CASE HasMinimumStake(d) /\ CoreUpdateStatus(d, "Active", stakes[d].amount)
      <3>1. /\ identities'[d].status = "Active"
            /\ ~slashSuspended'[d]
        BY <1>1, <1>4, <2>1, CoreEffectOn
      <3>2. /\ identities'[e].registered = identities[e].registered
            /\ e # d => /\ identities'[e].status = identities[e].status
                        /\ slashSuspended'[e] = slashSuspended[e]
        BY <1>1, <1>4, <2>1, CoreEffectOn
      <3> QED BY <2>1, <3>1, <3>2 DEF HasMinimumStake
    <2>2. CASE ClearSlashSuspension(d) /\ IdentityFrame
      BY <1>1, <2>2 DEF ClearSlashSuspension, IdentityTypeOK
    <2> QED BY <1>3, <2>1, <2>2
  <1>10. ASSUME NEW e \in Agents
         PROVE  AgentOK(e)'
    <2>1. AgentOK(e) /\ AgentOK(d)
      BY SafetyInvByAgent
    <2>2. CASE e # d
      <3>1. evidenceRejected'[e] = evidenceRejected[e]
        BY <1>1, <2>2 DEF RejectEvidence, StakingTypeOK
      <3> QED BY <1>1, <1>2, <1>7, <1>9, <2>1, <2>2, <3>1, UntouchedAgent
              DEF AgentView, bondVars, StakingTypeOK
    <2>3. CASE e = d
      <3>1. /\ slashProposals'[d].state = "Cancelled"
            /\ slashProposals'[d].initiatedAt = slashProposals[d].initiatedAt
            /\ slashProposals'[d].victim = slashProposals[d].victim
        BY <1>1, <1>2 DEF StakingTypeOK, SlashProposal
      <3>2. stakes[d].amount \in Nat
        BY <1>1 DEF StakingTypeOK, Stake
      <3> QED BY <1>1, <1>2, <1>7, <1>9, <2>1, <2>3, <3>1, <3>2
          DEF AgentOK, Live, Registered, Status, bondVars
    <2> QED BY <2>2, <2>3
  <1> QED BY <1>8, <1>10, SafetyInvByAgentNext

LEMMA SettleSlashKeeps ==
    ASSUME SafetyInv, NEW d \in Agents, Live(d), SettleSlash(d)
    PROVE  SafetyInv'
  <1>1. StakingTypeOK /\ IdentityTypeOK /\ now \in Nat
    BY NumberTypes DEF SafetyInv
  <1>2. /\ stakes' = [stakes EXCEPT ![d] = EmptyStake]
        /\ unbondingClaimableAt' = [unbondingClaimableAt EXCEPT ![d] = 0]
        /\ slashProposals' = [slashProposals EXCEPT ![d].state = "Executed"]
        /\ claimable' = [claimable EXCEPT ![slashProposals[d].victim] = @ + ToVictim(d)]
        /\ CoreUpdateStatus(d, "Slashed", 0)
        /\ reputation' = [reputation EXCEPT ![d] = 0]
        /\ balance' = balance - Burned(d)
        /\ UNCHANGED <<lastDroppedAt, evidenceRejected, committee, paramVars>>
    BY DEF SettleSlash, Swept, ZeroReputation
  <1>3. Bond(d) \in Nat
    BY <1>1 DEF StakingTypeOK, Stake, Bond
  <1>4. ToVictim(d) \in Nat /\ Burned(d) \in Int
    BY <1>3 DEF ToVictim, Burned
  <1>5. EmptyStake \in Stake /\ EmptyStake.amount = 0 /\ EmptyStake.unbondingAmount = 0
    BY DEF EmptyStake, Stake
  <1>6. "Slashed" \in AgentStatus
    BY DEF AgentStatus
  <1>7. slashProposals' \in [Agents -> SlashProposal]
    <2>1. slashProposals \in [Agents -> SlashProposal]
      BY <1>1 DEF StakingTypeOK
    <2>2. [slashProposals[d] EXCEPT !.state = "Executed"] \in SlashProposal
      BY <2>1 DEF SlashProposal, SlashState
    <2> QED BY ONLY <1>2, <2>1, <2>2
  <1>8. claimable' \in [Victims -> Nat]
    <2>1. claimable \in [Victims -> Nat] /\ slashProposals[d].victim \in Victims
      BY <1>1, SafetyInvByAgent DEF StakingTypeOK, AgentOK, Live
    <2> DEFINE v == slashProposals[d].victim
               share == ToVictim(d)
    <2>2. claimable' = [claimable EXCEPT ![v] = @ + share] /\ share \in Nat /\ v \in Victims
      BY <1>2, <1>4, <2>1
    <2> HIDE DEF v, share
    <2> QED BY <2>1, <2>2
  <1>9. reputation' \in [Agents -> Scores]
    BY <1>1, <1>2, StakingAssumption DEF StakingTypeOK, StakingAssumption
  <1>10. IdentityTypeOK' /\ now' = now
    BY <1>1, <1>2, <1>6, CoreEffect
  <1>11. stakes' \in [Agents -> Stake] /\ unbondingClaimableAt' \in [Agents -> Nat] /\ balance' \in Int
    BY <1>1, <1>2, <1>4, <1>5 DEF StakingTypeOK
  <1>12. StakingTypeOK'
    BY <1>1, <1>2, <1>7, <1>8, <1>9, <1>10, <1>11 DEF StakingTypeOK, paramVars
  <1>13. ASSUME NEW e \in Agents
         PROVE  AgentOK(e)'
    <2>1. AgentOK(e) /\ AgentOK(d)
      BY SafetyInvByAgent
    <2>2. CASE e # d
      BY <1>1, <1>2, <1>6, <1>10, <2>1, <2>2, CoreEffectOn, UntouchedAgent
      DEF AgentView, StakingTypeOK
    <2>3. CASE e = d
      <3>1. /\ slashProposals'[d].state = "Executed"
            /\ slashProposals'[d].initiatedAt = slashProposals[d].initiatedAt
            /\ slashProposals'[d].victim = slashProposals[d].victim
        BY <1>1, <1>2 DEF StakingTypeOK, SlashProposal
      <3>2. stakes'[d] = EmptyStake /\ reputation'[d] = 0
        BY <1>1, <1>2 DEF StakingTypeOK
      <3>3. Registered(d)' /\ Status(d)' = "Slashed"
        BY <1>1, <1>2, <1>6, CoreEffect, CoreEffectOn DEF Registered, Status
      <3> QED BY <1>1, <1>5, <1>10, <2>1, <2>3, <3>1, <3>2, <3>3 DEF AgentOK, Live, Bond
    <2> QED BY <2>2, <2>3
  <1> QED BY <1>12, <1>13, SafetyInvByAgentNext

------------------------------------------------------------------------------
(* The calls that touch an identity but no proposal.                       *)

\* Calls of the operator that go to the registry alone.
LEMMA OperatorStepEffect ==
    ASSUME IdentityTypeOK, NEW d \in Agents, NEW caller \in Accounts, NEW bonded,
           OperatorStep(d, caller, bonded), NEW e \in Agents
    PROVE  \* an agent is left as it is,
           \/ /\ identities'[e].registered = identities[e].registered
              /\ identities'[e].status = identities[e].status
              /\ slashSuspended'[e] = slashSuspended[e]
           \* or registered,
           \/ /\ ~Registered(e) /\ identities'[e].status = "PendingBond"
              /\ slashSuspended'[e] = slashSuspended[e]
           \* or, unlocked, made Active with its bond or Suspended
           \/ /\ identities'[e].registered = identities[e].registered
              /\ Status(e) # "Slashed" /\ ~slashSuspended[e] /\ ~slashSuspended'[e]
              /\ \/ identities'[e].status = "Suspended"
                 \/ e = d /\ identities'[e].status = "Active" /\ bonded
  <1> USE DEF Registered, Status, Operator
  <1>0. /\ identities \in [Agents -> Identity] /\ slashSuspended \in [Agents -> BOOLEAN]
        /\ StakingCore # caller
    BY IdentityAssumption DEF IdentityTypeOK, IdentityAssumption
  <1>1. ASSUME NEW key \in PubKeys, RegisterAgent(d, caller, key)
        PROVE  \/ identities'[e] = identities[e] /\ slashSuspended' = slashSuspended
               \/ /\ ~Registered(e) /\ identities'[e].status = "PendingBond"
                  /\ slashSuspended'[e] = slashSuspended[e]
    BY <1>0, <1>1 DEF RegisterAgent
  <1>2. ASSUME NEW key \in PubKeys, RotatePublicKey(d, caller, key)
        PROVE  /\ identities'[e].registered = identities[e].registered
               /\ identities'[e].status = identities[e].status
               /\ slashSuspended'[e] = slashSuspended[e]
    BY <1>0, <1>2 DEF RotatePublicKey, Identity
  <1>3. ASSUME NEW s \in AgentStatus, UpdateStatus(d, caller, s, bonded), e = d
        PROVE  /\ identities'[e].registered = identities[e].registered
               /\ Status(e) # "Slashed" /\ ~slashSuspended[e] /\ ~slashSuspended'[e]
               /\ \/ identities'[e].status = "Suspended"
                  \/ identities'[e].status = "Active" /\ bonded
    <2>1. /\ MayUpdateStatus(d, caller, s, bonded)
          /\ slashSuspended' = slashSuspended
          /\ identities' = [identities EXCEPT ![d].status = s]
      BY <1>0, <1>3 DEF UpdateStatus
    <2>2. identities'[e].registered = identities[e].registered /\ identities'[e].status = s
      BY <1>0, <1>3, <2>1 DEF Identity
    <2> QED BY <1>0, <1>3, <2>1, <2>2 DEF MayUpdateStatus, AgentStatus
  <1>4. ASSUME NEW s \in AgentStatus, UpdateStatus(d, caller, s, bonded), e # d
        PROVE  identities'[e] = identities[e] /\ slashSuspended'[e] = slashSuspended[e]
    BY <1>0, <1>4 DEF UpdateStatus
  <1>5. ASSUME NEW to \in Accounts, OfferOperatorTransfer(d, caller, to)
        PROVE  identities'[e] = identities[e] /\ slashSuspended'[e] = slashSuspended[e]
    BY <1>5 DEF OfferOperatorTransfer
  <1>6. CASE CancelOperatorTransfer(d, caller)
    BY <1>6 DEF CancelOperatorTransfer
  <1>7. CASE AcceptOperatorTransfer(d, caller, bonded)
    <2>1. identities' = [identities EXCEPT ![d].operator = caller] /\ slashSuspended' = slashSuspended
      BY <1>7 DEF AcceptOperatorTransfer
    <2>2. /\ identities'[e].registered = identities[e].registered
          /\ identities'[e].status = identities[e].status
      BY <1>0, <2>1 DEF Identity
    <2> QED BY <2>1, <2>2
  <1> QED BY <1>1, <1>2, <1>3, <1>4, <1>5, <1>6, <1>7 DEF OperatorStep

LEMMA OperatorStepClock ==
    ASSUME NEW d \in Agents, NEW caller \in Accounts, NEW bonded, OperatorStep(d, caller, bonded)
    PROVE  now' = now
  BY DEF OperatorStep, RegisterAgent, RotatePublicKey, OfferOperatorTransfer,
         CancelOperatorTransfer, AcceptOperatorTransfer

LEMMA RegistryCallsKeep ==
    ASSUME SafetyInv, NEW d \in Agents, NEW caller \in Accounts,
           OperatorStep(d, caller, HasMinimumStake(d)), UNCHANGED stakingVars
    PROVE  SafetyInv'
  <1>1. StakingTypeOK /\ IdentityTypeOK /\ minimumStake \in Nat \ {0} /\ now' = now /\ now \in Nat
    BY NumberTypes, OperatorStepClock DEF SafetyInv
  <1>2. IdentityTypeOK'
    BY <1>1, OperatorStepType
  <1>3. StakingTypeOK'
    BY <1>1, <1>2 DEF StakingTypeOK, stakingVars, bondVars, slashVars, paramVars
  <1>4. ASSUME NEW e \in Agents
        PROVE  AgentOK(e)'
    <2>1. AgentOK(e) /\ stakes[e].amount \in Nat
      BY <1>1, SafetyInvByAgent DEF StakingTypeOK, Stake
    <2>2. CASE /\ identities'[e].registered = identities[e].registered
               /\ identities'[e].status = identities[e].status
               /\ slashSuspended'[e] = slashSuspended[e]
      BY <1>1, <2>1, <2>2, UntouchedAgent DEF AgentView, stakingVars, bondVars, slashVars
    <2>3. CASE /\ ~Registered(e) /\ identities'[e].status = "PendingBond"
               /\ slashSuspended'[e] = slashSuspended[e]
      BY <1>1, <2>1, <2>3
      DEF AgentOK, Live, Bond, Registered, Status, stakingVars, bondVars, slashVars
    <2>4. CASE /\ identities'[e].registered = identities[e].registered
               /\ Status(e) # "Slashed" /\ ~slashSuspended[e] /\ ~slashSuspended'[e]
               /\ \/ identities'[e].status = "Suspended"
                  \/ e = d /\ identities'[e].status = "Active" /\ HasMinimumStake(d)
      BY <1>1, <2>1, <2>4
      DEF AgentOK, Live, Bond, Registered, Status, HasMinimumStake, stakingVars, bondVars, slashVars
    <2> QED BY <1>1, <2>2, <2>3, <2>4, OperatorStepEffect
  <1> QED BY <1>3, <1>4, SafetyInvByAgentNext

------------------------------------------------------------------------------
(* The bond.                                                               *)

\* A call that leaves both registries' view of every agent alone.
LEMMA NobodyTouchedKeeps ==
    ASSUME SafetyInv, StakingTypeOK', now' >= now,
           \A d \in Agents : AgentView(d)' = AgentView(d)
    PROVE  SafetyInv'
  <1>1. StakingTypeOK /\ now' \in Nat
    BY DEF SafetyInv, StakingTypeOK, IdentityTypeOK, GuardTypeOK
  <1>2. \A d \in Agents : AgentOK(d)'
    BY <1>1, SafetyInvByAgent, UntouchedAgent
  <1> QED BY <1>2, SafetyInvByAgentNext

LEMMA IdentityTypeFrame ==
    ASSUME IdentityTypeOK, UNCHANGED <<clockVars, identityVars>>
    PROVE  IdentityTypeOK' /\ now' = now
  BY DEF IdentityTypeOK, GuardTypeOK, clockVars, guardVars, identityVars, wiringVars,
         transferVars, indexVars, Registered, Operator

LEMMA DepositStakeKeeps ==
    ASSUME SafetyInv, NEW d \in Agents, NEW caller, NEW received \in Deposits,
           DepositStake(d, caller, received)
    PROVE  SafetyInv'
  <1> DEFINE amount == stakes[d].amount + received
  <1>1. StakingTypeOK /\ IdentityTypeOK /\ minimumStake \in Nat \ {0} /\ now \in Nat
    BY NumberTypes DEF SafetyInv
  <1>2. /\ received \in Nat /\ stakes[d] \in Stake /\ amount \in Nat
        /\ amount >= stakes[d].amount
    BY <1>1, StakingAssumption DEF StakingAssumption, StakingTypeOK, Stake
  <1>3. /\ stakes' = [stakes EXCEPT ![d].amount = amount]
        /\ balance' = balance + received
        /\ Registered(d) /\ Status(d) # "Slashed"
        /\ UNCHANGED <<unbondingClaimableAt, slashVars, claimable, committee, paramVars, reputation>>
    BY DEF DepositStake
  <1>4. \/ amount >= minimumStake /\ Status(d) = "PendingBond" /\ CoreUpdateStatus(d, "Active", amount)
        \/ UNCHANGED <<clockVars, identityVars>>
    BY DEF DepositStake
  <1>5. "Active" \in AgentStatus
    BY DEF AgentStatus
  <1>6. IdentityTypeOK' /\ now' = now
    BY <1>1, <1>4, <1>5, CoreEffect, IdentityTypeFrame
  <1>7. stakes' \in [Agents -> Stake]
    BY <1>1, <1>2, <1>3 DEF StakingTypeOK, Stake
  <1>8. StakingTypeOK'
    BY <1>1, <1>2, <1>3, <1>6, <1>7 DEF StakingTypeOK, slashVars, paramVars
  <1>9. ASSUME NEW e \in Agents
        PROVE  /\ identities'[e].registered = identities[e].registered
               /\ \/ /\ identities'[e].status = identities[e].status
                     /\ slashSuspended'[e] = slashSuspended[e]
                  \/ /\ e = d /\ identities[e].status = "PendingBond"
                     /\ identities'[e].status = "Active" /\ ~slashSuspended'[e]
                     /\ amount >= minimumStake
    <2>1. CASE UNCHANGED <<clockVars, identityVars>>
      BY <2>1 DEF identityVars
    <2>2. CASE /\ amount >= minimumStake /\ Status(d) = "PendingBond"
               /\ CoreUpdateStatus(d, "Active", amount)
      <3> HIDE DEF amount
      <3>1. /\ identities'[e].registered = identities[e].registered
            /\ identities'[e].status = IF e = d THEN "Active" ELSE identities[e].status
            /\ slashSuspended'[e] = IF e = d /\ "Active" \in {"Suspended", "Active"}
                                    THEN "Active" = "Suspended" ELSE slashSuspended[e]
        BY <1>1, <1>5, <2>2, CoreEffectOn
      <3> QED BY <2>2, <3>1 DEF Status
    <2> QED BY <1>4, <2>1, <2>2
  <1>10. ASSUME NEW e \in Agents
         PROVE  AgentOK(e)'
    <2>1. AgentOK(e) /\ stakes[e] \in Stake
      BY <1>1, SafetyInvByAgent DEF StakingTypeOK
    <2>2. CASE e # d
      <3>1. stakes'[e] = stakes[e]
        BY <1>1, <1>3, <2>2 DEF StakingTypeOK
      <3> QED BY <1>1, <1>3, <1>6, <1>9, <2>1, <2>2, <3>1, UntouchedAgent DEF AgentView, slashVars
    <2>3. CASE e = d
      <3>1. /\ stakes'[d].amount = amount
            /\ stakes'[d].unbondingAmount = stakes[d].unbondingAmount
        BY <1>1, <1>3 DEF StakingTypeOK, Stake
      <3>2. Bond(d) \in Nat /\ Bond(d)' \in Nat /\ Bond(d)' >= Bond(d)
        BY <1>2, <2>1, <2>3, <3>1 DEF Bond, Stake
      <3>3. stakes[d].amount \in Nat /\ stakes'[d].amount \in Nat
            /\ stakes'[d].amount >= stakes[d].amount
        BY <1>2, <3>1 DEF Stake
      <3> HIDE DEF amount
      <3>4. slashProposals' = slashProposals /\ evidenceRejected' = evidenceRejected
            /\ reputation' = reputation
        BY <1>3 DEF slashVars
      <3> QED BY <1>1, <1>3, <1>6, <1>9, <2>1, <2>3, <3>1, <3>2, <3>3, <3>4
          DEF AgentOK, Live, Registered, Status
    <2> QED BY <2>2, <2>3
  <1> QED BY <1>8, <1>10, SafetyInvByAgentNext

LEMMA InitiateWithdrawalKeeps ==
    ASSUME SafetyInv, NEW d \in Agents, NEW caller, NEW amount \in Withdrawals,
           InitiateWithdrawal(d, caller, amount)
    PROVE  SafetyInv'
  <1> DEFINE left == [amount |-> stakes[d].amount - amount, unbondingAmount |-> amount,
                      unbondingAt |-> now]
  <1>1. /\ StakingTypeOK /\ IdentityTypeOK /\ minimumStake \in Nat \ {0} /\ now \in Nat
        /\ unbondingPeriod \in Nat
    BY NumberTypes DEF SafetyInv
  <1>2. amount \in Nat /\ stakes[d] \in Stake
    BY <1>1, StakingAssumption DEF StakingAssumption, StakingTypeOK
  <1>3. /\ amount # 0 /\ stakes[d].unbondingAmount = 0 /\ amount <= stakes[d].amount
        /\ Registered(d) /\ Status(d) = "Active" => stakes[d].amount - amount >= minimumStake
        /\ stakes' = [stakes EXCEPT ![d] = left]
        /\ unbondingClaimableAt' = [unbondingClaimableAt EXCEPT ![d] = now + unbondingPeriod]
        /\ UNCHANGED <<clockVars, identityVars, balance, slashVars, claimable, committee,
                       paramVars, reputation>>
    BY DEF InitiateWithdrawal
  <1>4. left \in Stake
    BY <1>1, <1>2, <1>3 DEF Stake
  <1>5. IdentityTypeOK' /\ now' = now
    BY <1>1, <1>3, IdentityTypeFrame
  <1>6. StakingTypeOK'
    BY <1>1, <1>3, <1>4, <1>5 DEF StakingTypeOK, slashVars, paramVars
  <1>7. ASSUME NEW e \in Agents
        PROVE  AgentOK(e)'
    <2>1. AgentOK(e)
      BY SafetyInvByAgent
    <2>2. CASE e # d
      BY <1>1, <1>3, <1>5, <2>1, <2>2, UntouchedAgent
      DEF AgentView, slashVars, identityVars, StakingTypeOK
    <2>3. CASE e = d
      <3>1. stakes'[d] = left
        BY <1>1, <1>3 DEF StakingTypeOK
      <3>2. Bond(d)' = Bond(d) /\ Bond(d) \in Nat
        BY <1>2, <1>3, <3>1 DEF Bond, Stake
      <3>3. Bond(d) > 0
        BY <1>2, <1>3 DEF Bond, Stake
      <3> QED BY <1>1, <1>2, <1>3, <1>5, <2>1, <2>3, <3>1, <3>2, <3>3
          DEF AgentOK, Live, Registered, Status, slashVars, identityVars, Stake
    <2> QED BY <2>2, <2>3
  <1> QED BY <1>6, <1>7, SafetyInvByAgentNext

LEMMA ClaimWithdrawalKeeps ==
    ASSUME SafetyInv, NEW d \in Agents, NEW caller, ClaimWithdrawal(d, caller)
    PROVE  SafetyInv'
  <1>1. StakingTypeOK /\ IdentityTypeOK /\ now \in Nat
    BY NumberTypes DEF SafetyInv
  <1>2. stakes[d] \in Stake
    BY <1>1 DEF StakingTypeOK
  <1>3. /\ MayClaim(d)
        /\ stakes' = [stakes EXCEPT ![d].unbondingAmount = 0, ![d].unbondingAt = 0]
        /\ unbondingClaimableAt' = [unbondingClaimableAt EXCEPT ![d] = 0]
        /\ balance' = balance - stakes[d].unbondingAmount
        /\ UNCHANGED <<clockVars, identityVars, slashVars, claimable, committee, paramVars,
                       reputation>>
    BY DEF ClaimWithdrawal
  <1>4. stakes' \in [Agents -> Stake]
    <2>1. ASSUME NEW q \in Stake
          PROVE  [q EXCEPT !.unbondingAt = 0] \in Stake /\ [q EXCEPT !.unbondingAmount = 0] \in Stake
      BY <2>1 DEF Stake
    <2> QED BY <1>1, <1>2, <1>3, <2>1 DEF StakingTypeOK
  <1>5. IdentityTypeOK' /\ now' = now
    BY <1>1, <1>3, IdentityTypeFrame
  <1>6. balance' \in Int /\ unbondingClaimableAt' \in [Agents -> Nat]
    BY <1>1, <1>2, <1>3 DEF StakingTypeOK, Stake
  <1>7. StakingTypeOK'
    BY <1>1, <1>3, <1>4, <1>5, <1>6 DEF StakingTypeOK, slashVars, paramVars
  <1>8. ASSUME NEW e \in Agents
        PROVE  AgentOK(e)'
    <2>1. AgentOK(e)
      BY SafetyInvByAgent
    <2>2. CASE e # d
      BY <1>1, <1>3, <1>5, <2>1, <2>2, UntouchedAgent
      DEF AgentView, slashVars, identityVars, StakingTypeOK
    <2>3. CASE e = d
      <3>1. stakes'[d].amount = stakes[d].amount /\ stakes'[d].unbondingAmount = 0
        BY <1>1, <1>3 DEF StakingTypeOK, Stake
      <3>2. Bond(d) = 0 => Bond(d)' = 0
        BY <1>2, <3>1 DEF Bond, Stake
      <3> QED BY <1>1, <1>3, <1>5, <2>1, <2>3, <3>1, <3>2
          DEF AgentOK, Live, Registered, Status, slashVars, identityVars, MayClaim
    <2> QED BY <2>2, <2>3
  <1> QED BY <1>7, <1>8, SafetyInvByAgentNext

------------------------------------------------------------------------------
(* The rest of the calls, the initial state and the theorems.              *)

LEMMA ClaimSlashProceedsKeeps ==
    ASSUME SafetyInv, NEW a \in Victims, ClaimSlashProceeds(a)
    PROVE  SafetyInv'
  <1>1. StakingTypeOK /\ IdentityTypeOK /\ now \in Nat
    BY NumberTypes DEF SafetyInv
  <1>2. /\ claimable' = [claimable EXCEPT ![a] = 0]
        /\ balance' = balance - claimable[a]
        /\ UNCHANGED <<clockVars, identityVars, stakes, unbondingClaimableAt, slashVars,
                       committee, paramVars, reputation>>
    BY DEF ClaimSlashProceeds
  <1>3. IdentityTypeOK' /\ now' = now
    BY <1>1, <1>2, IdentityTypeFrame
  <1>4. StakingTypeOK'
    BY <1>1, <1>2, <1>3 DEF StakingTypeOK, slashVars, paramVars
  <1> QED BY <1>1, <1>2, <1>3, <1>4, NobodyTouchedKeeps DEF AgentView, slashVars, identityVars

LEMMA SettingsKeep ==
    ASSUME SafetyInv, Settings
    PROVE  SafetyInv'
  <1> DEFINE InRange ==
        /\ UNCHANGED <<clockVars, identityVars, bondVars, slashVars, claimable, reputation>>
        /\ committee' \subseteq CommitteeCandidates
        /\ minimumStake' \in Nat \ {0}
        /\ challengePeriod' \in MIN_CHALLENGE_PERIOD..MAX_CHALLENGE_PERIOD
        /\ unbondingPeriod' \in MIN_UNBONDING_PERIOD..MAX_UNBONDING_PERIOD
  <1>1. StakingTypeOK /\ IdentityTypeOK /\ now \in Nat
    BY NumberTypes DEF SafetyInv
  <1>2. InRange
    <2> USE <1>1 DEF StakingTypeOK, paramVars
    <2>1. ASSUME NEW m \in MinimumStakes, SetMinimumStake(m)
          PROVE  InRange
      BY <2>1, StakingAssumption DEF SetMinimumStake, StakingAssumption
    <2>2. ASSUME NEW q \in Periods, SetChallengePeriod(q) \/ SetUnbondingPeriod(q)
          PROVE  InRange
      BY <2>2 DEF SetChallengePeriod, SetUnbondingPeriod
    <2>3. ASSUME NEW a \in CommitteeCandidates, GrantCommittee(a) \/ RevokeCommittee(a)
          PROVE  InRange
      BY <2>3 DEF GrantCommittee, RevokeCommittee, CommitteeFrame
    <2> QED BY <2>1, <2>2, <2>3 DEF Settings
  <1>3. IdentityTypeOK' /\ now' = now
    BY <1>1, <1>2, IdentityTypeFrame
  <1>4. StakingTypeOK'
    BY <1>1, <1>2, <1>3 DEF StakingTypeOK, bondVars, slashVars
  <1> QED BY <1>1, <1>2, <1>3, <1>4, NobodyTouchedKeeps
          DEF AgentView, bondVars, slashVars, identityVars

LEMMA FinalizeReputationKeeps ==
    ASSUME SafetyInv, NEW d \in Agents, NEW score \in Scores, FinalizeReputation(d, score)
    PROVE  SafetyInv'
  <1>1. StakingTypeOK /\ IdentityTypeOK /\ now \in Nat
    BY NumberTypes DEF SafetyInv
  <1>2. /\ Registered(d) /\ Status(d) # "Slashed"
        /\ reputation' = [reputation EXCEPT ![d] = score]
        /\ UNCHANGED <<clockVars, identityVars, bondVars, slashVars, claimable, committee, paramVars>>
    BY DEF FinalizeReputation
  <1>3. IdentityTypeOK' /\ now' = now
    BY <1>1, <1>2, IdentityTypeFrame
  <1>4. StakingTypeOK'
    BY <1>1, <1>2, <1>3 DEF StakingTypeOK, bondVars, slashVars, paramVars
  <1>5. ASSUME NEW e \in Agents
        PROVE  AgentOK(e)'
    <2>1. AgentOK(e)
      BY SafetyInvByAgent
    <2>2. CASE e # d
      BY <1>1, <1>2, <1>3, <2>1, <2>2, UntouchedAgent
      DEF AgentView, bondVars, slashVars, identityVars, StakingTypeOK
    <2>3. CASE e = d
      BY <1>1, <1>2, <1>3, <2>1, <2>3
      DEF AgentOK, Live, Bond, Registered, Status, bondVars, slashVars, identityVars
    <2> QED BY <2>2, <2>3
  <1> QED BY <1>4, <1>5, SafetyInvByAgentNext

\* The clock, the guardian and the wiring.
LEMMA SurroundingsKeep ==
    ASSUME SafetyInv,
           \/ (Tick \/ GuardNext) /\ UNCHANGED <<identityVars, stakingVars>>
           \/ IdentityGovernance /\ UNCHANGED stakingVars
    PROVE  SafetyInv'
  <1>1. StakingTypeOK /\ IdentityTypeOK /\ now \in Nat
    BY NumberTypes DEF SafetyInv
  <1>2. IdentityTypeOK' /\ now' >= now /\ UNCHANGED <<identities, slashSuspended, stakingVars>>
    <2>1. CASE (Tick \/ GuardNext) /\ UNCHANGED <<identityVars, stakingVars>>
      <3>0. GuardTypeOK
        BY <1>1 DEF IdentityTypeOK
      <3>1. GuardTypeOK' /\ now' >= now
        <4>1. CASE Tick
          BY <1>1, <3>0, <4>1 DEF GuardTypeOK, Tick, guardVars
        <4>2. CASE GuardNext
          <5>1. GuardTypeOK'
            BY <3>0, <4>2, GuardNextType
          <5>2. now' = now
            BY <4>2 DEF GuardNext, PauseInflows, ResumeInflows
          <5> QED BY <1>1, <5>1, <5>2
        <4> QED BY <2>1, <4>1, <4>2
      <3> QED BY <1>1, <2>1, <3>1
              DEF IdentityTypeOK, identityVars, wiringVars, transferVars, indexVars,
                  Registered, Operator
    <2>2. CASE IdentityGovernance /\ UNCHANGED stakingVars
      BY <1>1, <2>2, IdentityGovernanceType DEF IdentityGovernance, InitializeV2, SetStakeView
    <2> QED BY <2>1, <2>2
  <1>3. StakingTypeOK'
    BY <1>1, <1>2 DEF StakingTypeOK, stakingVars, bondVars, slashVars, paramVars
  <1> QED BY <1>2, <1>3, NobodyTouchedKeeps DEF AgentView, stakingVars, bondVars, slashVars

LEMMA SafetyInvInit == Init => SafetyInv
  <1> SUFFICES ASSUME NEW view \in InitialViews, IdentityInit(view), StakingInit
               PROVE  SafetyInv
    BY DEF Init
  <1>1. IdentityTypeOK /\ now = 1
    <2>1. view \in StakeViews \cup {NoAccount}
      BY StakingAssumption DEF StakingAssumption
    <2> QED BY <2>1, IdentityInitType DEF IdentityInit, GuardInit
  <1>2. PICK queued \in 0..1 :
            /\ stakes = [d \in Agents |->
                   IF d \in LegacyAgents
                   THEN [amount |-> minimumStake, unbondingAmount |-> queued,
                         unbondingAt |-> queued]
                   ELSE EmptyStake]
            /\ balance = Len(LegacyList) * (minimumStake + queued)
    BY DEF StakingInit
  <1>3. minimumStake \in Nat \ {0}
    BY StakingAssumption DEF StakingInit, StakingAssumption
  <1>4. stakes \in [Agents -> Stake]
    BY <1>2, <1>3 DEF EmptyStake, Stake
  <1>5. balance \in Int
    <2>1. Len(LegacyList) \in Nat /\ minimumStake + queued \in Nat
      BY <1>2, <1>3, IdentityAssumption DEF IdentityAssumption
    <2> QED BY <1>2, <2>1
  <1>6. NoProposal \in SlashProposal /\ NoProposal.state = "None" /\ NoProposal.initiatedAt = 0
    <2>1. (CHOOSE x \in Evidence : TRUE) \in Evidence
      BY StakingAssumption DEF StakingAssumption
    <2> QED BY <2>1 DEF NoProposal, SlashProposal, SlashState
  <1>7. StakingTypeOK
    BY <1>1, <1>3, <1>4, <1>5, <1>6, StakingAssumption
    DEF StakingInit, StakingTypeOK, StakingAssumption
  <1>8. ASSUME NEW d \in Agents
        PROVE  AgentOK(d)
    <2>1. /\ slashProposals[d] = NoProposal /\ Status(d) = "Active" /\ slashSuspended[d] = FALSE
          /\ Registered(d) => d \in LegacyAgents
      BY DEF StakingInit, IdentityInit, Status, Registered
    <2>2. d \in LegacyAgents => stakes[d].amount > 0
      BY <1>2, <1>3
    <2> QED BY <1>1, <1>6, <2>1, <2>2 DEF AgentOK, Live
  <1> QED BY <1>7, <1>8, SafetyInvByAgent

LEMMA SafetyInvStep == SafetyInv /\ [Next]_vars => SafetyInv'
  <1> SUFFICES ASSUME SafetyInv, [Next]_vars PROVE SafetyInv'
    OBVIOUS
  <1>1. CASE UNCHANGED vars
    <2>1. StakingTypeOK /\ IdentityTypeOK /\ now \in Nat
      BY NumberTypes DEF SafetyInv
    <2>2. IdentityTypeOK' /\ now' = now
      BY <1>1, <2>1, IdentityTypeFrame DEF vars
    <2>3. StakingTypeOK'
      BY <1>1, <2>1, <2>2 DEF StakingTypeOK, vars, stakingVars, bondVars, slashVars, paramVars
    <2> QED BY <1>1, <2>1, <2>2, <2>3, NobodyTouchedKeeps
            DEF AgentView, vars, stakingVars, identityVars, bondVars, slashVars
  <1>2. CASE \/ (Tick \/ GuardNext) /\ UNCHANGED <<identityVars, stakingVars>>
             \/ IdentityGovernance /\ UNCHANGED stakingVars
    BY <1>2, SurroundingsKeep
  <1>3. CASE Settings
    BY <1>3, SettingsKeep
  <1>4. ASSUME NEW a \in Victims, ClaimSlashProceeds(a) PROVE SafetyInv'
    BY <1>4, ClaimSlashProceedsKeeps
  <1>5. ASSUME NEW d \in Agents, NEW caller \in Accounts, OperatorCalls(d, caller)
        PROVE  SafetyInv'
    BY <1>5, RegistryCallsKeep, DepositStakeKeeps, InitiateWithdrawalKeeps, ClaimWithdrawalKeeps,
       DisputeSlashKeeps DEF OperatorCalls
  <1>6. ASSUME NEW d \in Agents, CommitteeCalls(d) PROVE SafetyInv'
    <2>1. ASSUME CancelSlash(d) PROVE SafetyInv'
      BY <2>1, DropProposalKeeps DEF CancelSlash, Live
    <2> QED BY <1>6, <2>1, InitiateSlashKeeps DEF CommitteeCalls
  <1>7. ASSUME NEW d \in Agents, AdminCalls(d) PROVE SafetyInv'
    <2>1. ASSUME VetoSlash(d) PROVE SafetyInv'
      BY <2>1, DropProposalKeeps DEF VetoSlash
    <2>2. ASSUME NEW uphold \in BOOLEAN, ResolveDispute(d, uphold) PROVE SafetyInv'
      BY <2>2, DropProposalKeeps, SettleSlashKeeps DEF ResolveDispute, Live
    <2> QED BY <1>7, <2>1, <2>2 DEF AdminCalls
  <1>8. ASSUME NEW d \in Agents, AnyonesCalls(d) PROVE SafetyInv'
    BY <1>8, DropProposalKeeps, SettleSlashKeeps
    DEF AnyonesCalls, ExpireDispute, ExpireSlash, ExecuteSlash, Live
  <1>9. ASSUME NEW d \in Agents, NEW score \in Scores, FinalizeReputation(d, score)
        PROVE  SafetyInv'
    BY <1>9, FinalizeReputationKeeps
  <1> QED BY <1>1, <1>2, <1>3, <1>4, <1>5, <1>6, <1>7, <1>8, <1>9 DEF Next

\* The whole inductive invariant: whatever operators, committee, admin, upgrader and bystanders call, in any
\* order and with any settings, the two contracts agree about every slash and every bond behind it.
THEOREM SafetyHolds == Spec => []SafetyInv
  <1> QED BY SafetyInvInit, SafetyInvStep, PTL DEF Spec

\* The types of both contracts hold in every reachable state.
THEOREM TypeCorrect == Spec => []StakingTypeOK
  <1>1. SafetyInv => StakingTypeOK
    BY DEF SafetyInv
  <1> QED BY SafetyInvInit, SafetyInvStep, <1>1, PTL DEF Spec

\* Lock, proposal and status move together in the two contracts, always.
THEOREM LockFollowsProposal == Spec => []SuspensionLock
  <1>1. SafetyInv => SuspensionLock
    BY DEF SafetyInv
  <1> QED BY SafetyInvInit, SafetyInvStep, <1>1, PTL DEF Spec

\* Slashed, executed and emptied are one and the same, for good.
THEOREM SlashIsFinal == Spec => []SlashedIsFinal
  <1>1. SafetyInv => SlashedIsFinal
    BY DEF SafetyInv
  <1> QED BY SafetyInvInit, SafetyInvStep, <1>1, PTL DEF Spec

\* No agent is Active with nothing at stake, and none is accused with nothing to take.
THEOREM StandingIsBacked == Spec => []StandingBacked
  <1>1. SafetyInv => StandingBacked
    BY DEF SafetyInv, StandingBacked
  <1> QED BY SafetyInvInit, SafetyInvStep, <1>1, PTL DEF Spec

\* Whatever periods the admin sets in their bounds, windows in flight keep theirs.
THEOREM WindowsHold == Spec => []RulingWindow
  <1>1. SafetyInv => RulingWindow
    BY DEF SafetyInv
  <1> QED BY SafetyInvInit, SafetyInvStep, <1>1, PTL DEF Spec

------------------------------------------------------------------------------
(* The calls that leave every proposal alone.                              *)

LEMMA SettingsLeaveProposals ==
    ASSUME Settings
    PROVE  /\ slashProposals' = slashProposals
           /\ UNCHANGED <<identityVars, bondVars, claimable>>
  <1>1. ASSUME NEW m \in MinimumStakes, SetMinimumStake(m)
        PROVE  slashProposals' = slashProposals /\ UNCHANGED <<identityVars, bondVars, claimable>>
    BY <1>1 DEF SetMinimumStake, slashVars
  <1>2. ASSUME NEW q \in Periods, SetChallengePeriod(q) \/ SetUnbondingPeriod(q)
        PROVE  slashProposals' = slashProposals /\ UNCHANGED <<identityVars, bondVars, claimable>>
    BY <1>2 DEF SetChallengePeriod, SetUnbondingPeriod, slashVars
  <1>3. ASSUME NEW a \in CommitteeCandidates, GrantCommittee(a) \/ RevokeCommittee(a)
        PROVE  slashProposals' = slashProposals /\ UNCHANGED <<identityVars, bondVars, claimable>>
    BY <1>3 DEF GrantCommittee, RevokeCommittee, CommitteeFrame, slashVars
  <1> QED BY <1>1, <1>2, <1>3 DEF Settings

\* A call that moves one agent's proposal, and to which state.
LEMMA ProposalMoves ==
    ASSUME StakingTypeOK, NEW e \in Agents, NEW s,
           slashProposals' = [slashProposals EXCEPT ![e].state = s], NEW d \in Agents
    PROVE  slashProposals'[d].state = IF d = e THEN s ELSE slashProposals[d].state
  <1>1. slashProposals \in [Agents -> SlashProposal]
    BY DEF StakingTypeOK
  <1>2. \A p \in SlashProposal : [p EXCEPT !.state = s].state = s
    BY DEF SlashProposal
  <1>3. slashProposals'[d] = IF d = e THEN [slashProposals[d] EXCEPT !.state = s] ELSE slashProposals[d]
    BY ONLY <1>1, d \in Agents, e \in Agents, slashProposals' = [slashProposals EXCEPT ![e].state = s]
  <1> QED BY <1>1, <1>2, <1>3

\* Only an execution or a ruling to uphold executes a proposal.
LEMMA SettledBy ==
    ASSUME SafetyInv, Next, NEW d \in Agents, Settles(d)
    PROVE  ExecuteSlash(d) \/ ResolveDispute(d, TRUE)
  <1>1. StakingTypeOK
    BY DEF SafetyInv
  <1>2. slashProposals[d].state # "Executed" /\ slashProposals'[d].state = "Executed"
    BY DEF Settles
  <1>3. ASSUME NEW e \in Agents, DropProposal(e)
        PROVE  FALSE
    BY <1>1, <1>2, <1>3, ProposalMoves DEF DropProposal
  <1>4. ASSUME NEW e \in Agents, SettleSlash(e)
        PROVE  e = d
    BY <1>1, <1>2, <1>4, ProposalMoves DEF SettleSlash
  <1>5. CASE \/ (Tick \/ GuardNext) /\ UNCHANGED <<identityVars, stakingVars>>
             \/ IdentityGovernance /\ UNCHANGED stakingVars
    BY <1>2, <1>5 DEF stakingVars, slashVars
  <1>6. CASE Settings
    BY <1>2, <1>6, SettingsLeaveProposals
  <1>7. ASSUME NEW a \in Victims, ClaimSlashProceeds(a)
        PROVE  FALSE
    BY <1>2, <1>7 DEF ClaimSlashProceeds, slashVars
  <1>8. ASSUME NEW e \in Agents, NEW caller \in Accounts, OperatorCalls(e, caller)
        PROVE  FALSE
    <2>1. CASE DisputeSlash(e, caller)
      <3>1. slashProposals' = [slashProposals EXCEPT ![e].state = "Disputed",
                                                     ![e].disputedAt = now]
        BY <2>1 DEF DisputeSlash
      <3>2. slashProposals \in [Agents -> SlashProposal]
        BY <1>1 DEF StakingTypeOK
      <3>3. \A p \in SlashProposal :
                [[p EXCEPT !.state = "Disputed"] EXCEPT !.disputedAt = now].state = "Disputed"
        BY DEF SlashProposal
      <3>4. slashProposals'[d].state \in {"Disputed", slashProposals[d].state}
        BY <3>1, <3>2, <3>3
      <3> QED BY <1>2, <3>4
    <2>2. slashProposals' = slashProposals \/ DisputeSlash(e, caller)
      BY <1>8 DEF OperatorCalls, DepositStake, InitiateWithdrawal, ClaimWithdrawal,
                  stakingVars, slashVars
    <2> QED BY <1>2, <2>1, <2>2
  <1>9. ASSUME NEW e \in Agents, CommitteeCalls(e)
        PROVE  FALSE
    <2>1. ASSUME NEW reporter \in CommitteeCandidates, NEW victim \in Victims,
                 NEW evidence \in Evidence, InitiateSlash(e, reporter, victim, evidence)
          PROVE  FALSE
      BY <1>1, <1>2, <2>1 DEF InitiateSlash, StakingTypeOK
    <2> QED BY <1>3, <1>9, <2>1 DEF CommitteeCalls, CancelSlash
  <1>10. ASSUME NEW e \in Agents, AdminCalls(e)
         PROVE  ResolveDispute(d, TRUE)
    BY <1>3, <1>4, <1>10 DEF AdminCalls, ResolveDispute, VetoSlash
  <1>11. ASSUME NEW e \in Agents, AnyonesCalls(e)
         PROVE  ExecuteSlash(d)
    BY <1>3, <1>4, <1>11 DEF AnyonesCalls, ExpireDispute, ExpireSlash, ExecuteSlash
  <1>12. ASSUME NEW e \in Agents, NEW score \in Scores, FinalizeReputation(e, score)
         PROVE  FALSE
    BY <1>2, <1>12 DEF FinalizeReputation, slashVars
  <1> QED BY <1>5, <1>6, <1>7, <1>8, <1>9, <1>10, <1>11, <1>12 DEF Next

\* The moment of a settlement: the conditions of OnlyDueSettlement, for one agent.
SettlesWhenDue(d) ==
    Settles(d) =>
        LET p == slashProposals[d] IN
        /\ now > p.initiatedAt + MIN_CHALLENGE_PERIOD
        /\ IF p.state = "Disputed" THEN now <= p.disputedAt + DISPUTE_RESOLUTION_PERIOD
           ELSE p.state = "Pending" /\ p.reporter \in committee

LEMMA StepSettlesWhenDue ==
    ASSUME SafetyInv, [Next]_vars, NEW d \in Agents
    PROVE  SettlesWhenDue(d)
  <1> SUFFICES ASSUME Settles(d) PROVE SettlesWhenDue(d)
    BY DEF SettlesWhenDue
  <1>1. Next
    BY DEF Settles, vars, stakingVars, slashVars
  <1>2. ExecuteSlash(d) \/ ResolveDispute(d, TRUE)
    BY <1>1, SettledBy
  <1>3. Live(d) /\ now > slashProposals[d].challengeDeadline
    BY <1>2 DEF ExecuteSlash, ResolveDispute, Live
  <1>4. /\ now \in Nat /\ slashProposals[d].challengeDeadline \in Nat
        /\ slashProposals[d].initiatedAt \in Nat
    BY NumberTypes DEF SafetyInv, StakingTypeOK, SlashProposal
  <1>5. slashProposals[d].challengeDeadline - slashProposals[d].initiatedAt
            \in MIN_CHALLENGE_PERIOD..MAX_CHALLENGE_PERIOD
    BY <1>3 DEF SafetyInv, RulingWindow
  <1>6. now > slashProposals[d].initiatedAt + MIN_CHALLENGE_PERIOD
    BY <1>3, <1>4, <1>5, PeriodTypes
  <1> QED BY <1>2, <1>6 DEF SettlesWhenDue, ExecuteSlash, ResolveDispute

------------------------------------------------------------------------------
(* Who runs an agent.                                                      *)

\* A call of the staking core moves a status, never an operator.
LEMMA CoreKeepsOperators ==
    ASSUME IdentityTypeOK, NEW e \in Agents, NEW d \in Agents,
           \/ \E s \in AgentStatus : \E amount : CoreUpdateStatus(e, s, amount)
           \/ ClearSlashSuspension(e)
    PROVE  Operator(d)' = Operator(d)
  <1>1. identities \in [Agents -> Identity]
    BY DEF IdentityTypeOK
  <1>2. CASE ClearSlashSuspension(e)
    BY <1>2 DEF ClearSlashSuspension, Operator
  <1>3. ASSUME NEW s \in AgentStatus, NEW amount, CoreUpdateStatus(e, s, amount)
        PROVE  Operator(d)' = Operator(d)
    <2>1. identities' = [identities EXCEPT ![e].status = s]
      BY <1>3 DEF CoreUpdateStatus, UpdateStatus
    <2>2. \A r \in Identity : [r EXCEPT !.status = s].operator = r.operator
      BY DEF Identity
    <2>3. identities'[d].operator = identities[d].operator
      BY <1>1, <2>1, <2>2
    <2> QED BY <2>3 DEF Operator
  <1> QED BY <1>2, <1>3

\* Only an acceptance moves the operator of a registered agent.
LEMMA RegistryKeepsOperators ==
    ASSUME IdentityTypeOK, NEW e \in Agents, NEW caller \in Accounts, NEW bonded,
           OperatorStep(e, caller, bonded), NEW d \in Agents, Registered(d), ~Transferable(d)
    PROVE  Operator(d)' = Operator(d)
  <1>0. identities \in [Agents -> Identity]
    BY DEF IdentityTypeOK
  <1>1. ASSUME NEW key \in PubKeys, RegisterAgent(e, caller, key)
        PROVE  Operator(d)' = Operator(d)
    BY <1>0, <1>1 DEF RegisterAgent, Registered, Operator
  <1>2. ASSUME NEW key \in PubKeys, RotatePublicKey(e, caller, key)
        PROVE  Operator(d)' = Operator(d)
    BY <1>0, <1>2 DEF RotatePublicKey, Operator, Identity
  <1>3. ASSUME NEW s \in AgentStatus, UpdateStatus(e, caller, s, bonded)
        PROVE  Operator(d)' = Operator(d)
    <2>1. identities' = [identities EXCEPT ![e].status = s]
      BY <1>3 DEF UpdateStatus
    <2>2. \A r \in Identity : [r EXCEPT !.status = s].operator = r.operator
      BY DEF Identity
    <2>3. identities'[d].operator = identities[d].operator
      BY <1>0, <2>1, <2>2
    <2> QED BY <2>3 DEF Operator
  <1>4. ASSUME NEW to \in Accounts, OfferOperatorTransfer(e, caller, to)
        PROVE  Operator(d)' = Operator(d)
    BY <1>4 DEF OfferOperatorTransfer, Operator
  <1>5. CASE CancelOperatorTransfer(e, caller)
    BY <1>5 DEF CancelOperatorTransfer, Operator
  <1>6. CASE AcceptOperatorTransfer(e, caller, bonded)
    <2>1. e # d /\ identities' = [identities EXCEPT ![e].operator = caller]
      BY <1>6 DEF AcceptOperatorTransfer
    <2> QED BY <1>0, <2>1 DEF Operator
  <1> QED BY <1>1, <1>2, <1>3, <1>4, <1>5, <1>6 DEF OperatorStep

LEMMA StepKeepsOperator ==
    ASSUME SafetyInv, [Next]_vars, NEW d \in Agents,
           Live(d) \/ (Registered(d) /\ Status(d) = "Slashed")
    PROVE  Operator(d)' = Operator(d)
  <1>1. IdentityTypeOK
    BY DEF SafetyInv, StakingTypeOK
  <1>2. Registered(d) /\ ~Transferable(d)
    BY DEF SafetyInv, SuspensionLock, Transferable
  <1>3. {"Active", "Suspended", "Slashed"} \subseteq AgentStatus
    BY DEF AgentStatus
  <1>4. ASSUME UNCHANGED identityVars
        PROVE  Operator(d)' = Operator(d)
    BY <1>4 DEF identityVars, Operator
  <1>5. ASSUME NEW e \in Agents, DropProposal(e)
        PROVE  Operator(d)' = Operator(d)
    BY <1>1, <1>3, <1>5, CoreKeepsOperators DEF DropProposal
  <1>6. ASSUME NEW e \in Agents, SettleSlash(e)
        PROVE  Operator(d)' = Operator(d)
    BY <1>1, <1>3, <1>6, CoreKeepsOperators DEF SettleSlash
  <1>7. CASE UNCHANGED vars
    BY <1>4, <1>7 DEF vars
  <1>8. CASE (Tick \/ GuardNext) /\ UNCHANGED <<identityVars, stakingVars>>
    BY <1>4, <1>8
  <1>9. CASE IdentityGovernance /\ UNCHANGED stakingVars
    BY <1>9 DEF IdentityGovernance, InitializeV2, SetStakeView, Operator
  <1>10. CASE Settings
    BY <1>4, <1>10, SettingsLeaveProposals
  <1>11. ASSUME NEW a \in Victims, ClaimSlashProceeds(a)
         PROVE  Operator(d)' = Operator(d)
    BY <1>4, <1>11 DEF ClaimSlashProceeds
  <1>12. ASSUME NEW e \in Agents, NEW caller \in Accounts, OperatorCalls(e, caller)
         PROVE  Operator(d)' = Operator(d)
    <2>1. CASE OperatorStep(e, caller, HasMinimumStake(e))
      BY <1>1, <1>2, <2>1, RegistryKeepsOperators
    <2>2. ASSUME NEW received \in Deposits, DepositStake(e, caller, received)
          PROVE  Operator(d)' = Operator(d)
      BY <1>1, <1>3, <1>4, <2>2, CoreKeepsOperators DEF DepositStake
    <2>3. CASE \/ \E amount \in Withdrawals : InitiateWithdrawal(e, caller, amount)
               \/ ClaimWithdrawal(e, caller)
               \/ DisputeSlash(e, caller)
      BY <1>4, <2>3 DEF InitiateWithdrawal, ClaimWithdrawal, DisputeSlash
    <2> QED BY <1>12, <2>1, <2>2, <2>3 DEF OperatorCalls
  <1>13. ASSUME NEW e \in Agents, CommitteeCalls(e)
         PROVE  Operator(d)' = Operator(d)
    <2>1. ASSUME NEW reporter \in CommitteeCandidates, NEW victim \in Victims,
                 NEW evidence \in Evidence, InitiateSlash(e, reporter, victim, evidence)
          PROVE  Operator(d)' = Operator(d)
      BY <1>1, <1>3, <2>1, CoreKeepsOperators DEF InitiateSlash
    <2> QED BY <1>5, <1>13, <2>1 DEF CommitteeCalls, CancelSlash
  <1>14. ASSUME NEW e \in Agents, AdminCalls(e) \/ AnyonesCalls(e)
         PROVE  Operator(d)' = Operator(d)
    BY <1>5, <1>6, <1>14 DEF AdminCalls, ResolveDispute, VetoSlash, AnyonesCalls,
                             ExpireDispute, ExpireSlash, ExecuteSlash
  <1>15. ASSUME NEW e \in Agents, NEW score \in Scores, FinalizeReputation(e, score)
         PROVE  Operator(d)' = Operator(d)
    BY <1>4, <1>15 DEF FinalizeReputation
  <1> QED BY <1>7, <1>8, <1>9, <1>10, <1>11, <1>12, <1>13, <1>14, <1>15 DEF Next

------------------------------------------------------------------------------
(* A queued exit.                                                          *)

\* What one step does to one agent's exit: nothing; it is queued; it is claimed when due; the bond is settled.
ExitMoves(d) ==
    \/ /\ stakes'[d].unbondingAmount = stakes[d].unbondingAmount
       /\ stakes'[d].unbondingAt = stakes[d].unbondingAt
       /\ unbondingClaimableAt'[d] = unbondingClaimableAt[d]
    \/ /\ stakes[d].unbondingAmount = 0
       /\ stakes'[d].unbondingAt = now
       /\ unbondingClaimableAt'[d] = now + unbondingPeriod
    \/ MayClaim(d) /\ unbondingClaimableAt'[d] = 0
    \/ Settles(d) /\ unbondingClaimableAt'[d] = 0

\* A recorded claim time is no sooner than the minimum period after the exit was queued.
ExitsAreRecorded ==
    \A d \in Agents :
        unbondingClaimableAt[d] # 0 =>
            unbondingClaimableAt[d] >= stakes[d].unbondingAt + MIN_UNBONDING_PERIOD

LEMMA SettlementMovesExit ==
    ASSUME SafetyInv, NEW e \in Agents, Live(e), SettleSlash(e), NEW d \in Agents
    PROVE  ExitMoves(d)
  <1>1. StakingTypeOK
    BY DEF SafetyInv
  <1>2. CASE d = e
    <2>1. unbondingClaimableAt'[d] = 0
      BY <1>1, <1>2 DEF SettleSlash, StakingTypeOK
    <2>2. slashProposals'[d].state = "Executed"
      <3>1. slashProposals' = [slashProposals EXCEPT ![e].state = "Executed"]
        BY DEF SettleSlash
      <3>2. slashProposals \in [Agents -> SlashProposal]
        BY <1>1 DEF StakingTypeOK
      <3>3. \A p \in SlashProposal : [p EXCEPT !.state = "Executed"].state = "Executed"
        BY DEF SlashProposal
      <3> QED BY <1>2, <3>1, <3>2, <3>3
    <2>3. Settles(d)
      BY <1>2, <2>2 DEF Settles, Live
    <2> QED BY <2>1, <2>3 DEF ExitMoves
  <1>3. CASE d # e
    BY <1>1, <1>3 DEF SettleSlash, StakingTypeOK, ExitMoves
  <1> QED BY <1>2, <1>3

LEMMA BondCallsMoveExit ==
    ASSUME StakingTypeOK, NEW e \in Agents, NEW caller \in Accounts, NEW d \in Agents,
           \/ \E received \in Deposits : DepositStake(e, caller, received)
           \/ \E amount \in Withdrawals : InitiateWithdrawal(e, caller, amount)
           \/ ClaimWithdrawal(e, caller)
    PROVE  ExitMoves(d)
  <1>0. stakes \in [Agents -> Stake] /\ unbondingClaimableAt \in [Agents -> Nat]
    BY DEF StakingTypeOK
  <1>1. ASSUME NEW received \in Deposits, DepositStake(e, caller, received)
        PROVE  ExitMoves(d)
    <2> DEFINE amount == stakes[e].amount + received
    <2>1. stakes' = [stakes EXCEPT ![e].amount = amount]
      BY <1>1 DEF DepositStake
    <2>2. UNCHANGED unbondingClaimableAt
      BY <1>1 DEF DepositStake
    <2> HIDE DEF amount
    <2>3. /\ stakes'[d].unbondingAmount = stakes[d].unbondingAmount
          /\ stakes'[d].unbondingAt = stakes[d].unbondingAt
      BY <1>0, <2>1 DEF Stake
    <2> QED BY <2>2, <2>3 DEF ExitMoves
  <1>2. ASSUME NEW amount \in Withdrawals, InitiateWithdrawal(e, caller, amount)
        PROVE  ExitMoves(d)
    BY <1>0, <1>2 DEF InitiateWithdrawal, ExitMoves
  <1>3. CASE ClaimWithdrawal(e, caller)
    <2>1. CASE d = e
      <3>1. MayClaim(d) /\ unbondingClaimableAt'[d] = 0
        BY <1>0, <1>3, <2>1 DEF ClaimWithdrawal
      <3> QED BY <3>1 DEF ExitMoves
    <2>2. CASE d # e
      BY <1>0, <1>3, <2>2 DEF ClaimWithdrawal, ExitMoves
    <2> QED BY <2>1, <2>2
  <1> QED BY <1>1, <1>2, <1>3

LEMMA StepMovesExit ==
    ASSUME SafetyInv, [Next]_vars, NEW d \in Agents
    PROVE  ExitMoves(d)
  <1>1. StakingTypeOK
    BY DEF SafetyInv
  <1>2. ASSUME UNCHANGED <<stakes, unbondingClaimableAt>>
        PROVE  ExitMoves(d)
    BY <1>2 DEF ExitMoves
  <1>3. ASSUME NEW e \in Agents, DropProposal(e)
        PROVE  ExitMoves(d)
    BY <1>2, <1>3 DEF DropProposal, bondVars
  <1>4. CASE \/ UNCHANGED vars
             \/ (Tick \/ GuardNext) /\ UNCHANGED <<identityVars, stakingVars>>
             \/ IdentityGovernance /\ UNCHANGED stakingVars
    BY <1>2, <1>4 DEF vars, stakingVars, bondVars
  <1>5. CASE Settings
    BY <1>2, <1>5, SettingsLeaveProposals DEF bondVars
  <1>6. ASSUME NEW a \in Victims, ClaimSlashProceeds(a)
        PROVE  ExitMoves(d)
    BY <1>2, <1>6 DEF ClaimSlashProceeds
  <1>7. ASSUME NEW e \in Agents, NEW caller \in Accounts, OperatorCalls(e, caller)
        PROVE  ExitMoves(d)
    <2>1. CASE OperatorStep(e, caller, HasMinimumStake(e)) /\ UNCHANGED stakingVars
      BY <1>2, <2>1 DEF stakingVars, bondVars
    <2>2. CASE DisputeSlash(e, caller)
      BY <1>2, <2>2 DEF DisputeSlash, bondVars
    <2> QED BY <1>1, <1>7, <2>1, <2>2, BondCallsMoveExit DEF OperatorCalls
  <1>8. ASSUME NEW e \in Agents, CommitteeCalls(e)
        PROVE  ExitMoves(d)
    BY <1>2, <1>3, <1>8 DEF CommitteeCalls, InitiateSlash, CancelSlash, bondVars
  <1>9. ASSUME NEW e \in Agents, AdminCalls(e) \/ AnyonesCalls(e)
        PROVE  ExitMoves(d)
    <2>1. DropProposal(e) \/ (Live(e) /\ SettleSlash(e))
      BY <1>9 DEF AdminCalls, ResolveDispute, VetoSlash, AnyonesCalls, ExpireDispute, ExpireSlash,
                  ExecuteSlash, Live
    <2> QED BY <1>3, <2>1, SettlementMovesExit
  <1>10. ASSUME NEW e \in Agents, NEW score \in Scores, FinalizeReputation(e, score)
         PROVE  ExitMoves(d)
    BY <1>2, <1>10 DEF FinalizeReputation, bondVars
  <1> QED BY <1>4, <1>5, <1>6, <1>7, <1>8, <1>9, <1>10 DEF Next

\* What the times of an exit are made of.
LEMMA ExitNumbers ==
    ASSUME StakingTypeOK, NEW d \in Agents
    PROVE  /\ now \in Nat /\ unbondingPeriod \in Nat /\ unbondingPeriod >= MIN_UNBONDING_PERIOD
           /\ unbondingClaimableAt[d] \in Nat /\ stakes[d].unbondingAt \in Nat
           /\ MIN_UNBONDING_PERIOD \in Nat
  <1>1. now \in Nat
    BY DEF StakingTypeOK, IdentityTypeOK, GuardTypeOK
  <1>2. unbondingClaimableAt[d] \in Nat /\ stakes[d].unbondingAt \in Nat
    BY DEF StakingTypeOK, Stake
  <1>3. /\ MIN_UNBONDING_PERIOD \in Nat /\ MAX_UNBONDING_PERIOD \in Nat
        /\ unbondingPeriod \in MIN_UNBONDING_PERIOD..MAX_UNBONDING_PERIOD
    BY StakingAssumption DEF StakingAssumption, StakingTypeOK
  <1> QED BY <1>1, <1>2, <1>3

LEMMA RecordedExitStep ==
    SafetyInv /\ ExitsAreRecorded /\ [Next]_vars => ExitsAreRecorded'
  <1> SUFFICES ASSUME SafetyInv, ExitsAreRecorded, [Next]_vars, NEW d \in Agents
               PROVE  unbondingClaimableAt'[d] # 0 =>
                          unbondingClaimableAt'[d] >= stakes'[d].unbondingAt + MIN_UNBONDING_PERIOD
    BY DEF ExitsAreRecorded
  <1>1. ExitMoves(d)
    BY StepMovesExit
  <1> QED BY <1>1, ExitNumbers DEF ExitMoves, ExitsAreRecorded, SafetyInv

------------------------------------------------------------------------------
(* The theorems.                                                           *)

\* Evidence the admin ruled against never freezes that agent again.
THEOREM EvidenceStaysRejected == Spec => []RejectedStaysRejected
  <1>1. SafetyInv => RejectedStaysRejected
    BY DEF SafetyInv
  <1> QED BY SafetyInvInit, SafetyInvStep, <1>1, PTL DEF Spec

\* No bond is taken before the minimum window has run since filing, after the ruling
\* period, or undisputed without the reporter's word still standing.
THEOREM SettlementsAreDue == Spec => OnlyDueSettlement
  <1>1. SafetyInv /\ [Next]_vars => [\A d \in Agents : SettlesWhenDue(d)]_vars
    BY StepSettlesWhenDue
  <1>2. [\A d \in Agents : SettlesWhenDue(d)]_vars <=>
        [\A d \in Agents : Settles(d) =>
           LET p == slashProposals[d] IN
           /\ now > p.initiatedAt + MIN_CHALLENGE_PERIOD
           /\ IF p.state = "Disputed" THEN now <= p.disputedAt + DISPUTE_RESOLUTION_PERIOD
              ELSE p.state = "Pending" /\ p.reporter \in committee
        ]_vars
    BY DEF SettlesWhenDue
  <1> QED BY SafetyInvInit, SafetyInvStep, <1>1, <1>2, PTL DEF Spec, OnlyDueSettlement

\* An accused agent is not handed over, nor a slashed one ever.
THEOREM AccusedAreNotHandedOver == Spec => AccusedKeepsOperator
  <1>1. SafetyInv /\ [Next]_vars =>
        [\A d \in Agents : Live(d) \/ (Registered(d) /\ Status(d) = "Slashed") =>
             Operator(d)' = Operator(d)]_vars
    BY StepKeepsOperator
  <1> QED BY SafetyInvInit, SafetyInvStep, <1>1, PTL DEF Spec, AccusedKeepsOperator

\* An exit once queued keeps its date through every change of the period, and leaves the queue only by a
\* settlement or when it is due, never before the minimum period is over.
THEOREM ExitsKeepTheirDate == Spec => ExitPromiseKept
  <1>1. Init => ExitsAreRecorded
    BY DEF Init, StakingInit, ExitsAreRecorded
  <1>2. SafetyInv /\ ExitsAreRecorded /\ [Next]_vars =>
        [\A d \in Agents : stakes[d].unbondingAmount # 0 =>
           \/ /\ stakes'[d].unbondingAmount = stakes[d].unbondingAmount
              /\ unbondingClaimableAt'[d] = unbondingClaimableAt[d]
           \/ Settles(d)
           \/ /\ now >= unbondingClaimableAt[d]
              /\ now >= stakes[d].unbondingAt + MIN_UNBONDING_PERIOD
        ]_vars
    <2> SUFFICES ASSUME SafetyInv, ExitsAreRecorded, [Next]_vars, NEW d \in Agents,
                        stakes[d].unbondingAmount # 0
                 PROVE  \/ /\ stakes'[d].unbondingAmount = stakes[d].unbondingAmount
                           /\ unbondingClaimableAt'[d] = unbondingClaimableAt[d]
                        \/ Settles(d)
                        \/ /\ now >= unbondingClaimableAt[d]
                           /\ now >= stakes[d].unbondingAt + MIN_UNBONDING_PERIOD
      OBVIOUS
    <2>1. ExitMoves(d)
      BY StepMovesExit
    <2>2. MayClaim(d) => /\ now >= unbondingClaimableAt[d]
                         /\ now >= stakes[d].unbondingAt + MIN_UNBONDING_PERIOD
      BY ExitNumbers DEF MayClaim, ClaimableAt, ExitsAreRecorded, SafetyInv
    <2> QED BY <2>1, <2>2 DEF ExitMoves
  <1> QED BY SafetyInvInit, SafetyInvStep, RecordedExitStep, <1>1, <1>2, PTL DEF Spec, ExitPromiseKept

------------------------------------------------------------------------------
(* The abstract ledger.  Every step of the two contracts funds, releases,  *)
(* accuses, acquits, convicts or collects, or leaves the bonds, the        *)
(* standings and the credits alone.                                        *)

\* The refinement mapping of SigvaraStaking's Custody, under names of its own.
Bonds == [d \in Agents |-> Bond(d)]
StandingOf(d) ==
    IF Live(d) THEN "accused"
    ELSE IF slashProposals[d].state = "Executed" THEN "convicted" ELSE "free"
Standings == [d \in Agents |-> StandingOf(d)]

LEMMA Mapping ==
    /\ Custody!custodyVars = <<Bonds, Standings, claimable>>
    /\ Custody!custodyVars' = <<Bonds', Standings', claimable'>>
  BY DEF Custody!custodyVars, Bonds, Standings, StandingOf

LEMMA BondsAreNumbers ==
    ASSUME StakingTypeOK, NEW d \in Agents
    PROVE  Bond(d) \in Nat
  BY DEF StakingTypeOK, Stake, Bond

------------------------------------------------------------------------------
(* Steps that map to a stutter.                                            *)

LEMMA SameBonds ==
    ASSUME stakes' = stakes
    PROVE  Bonds' = Bonds
  BY DEF Bonds, Bond

LEMMA SameStandings ==
    ASSUME \A d \in Agents : StandingOf(d)' = StandingOf(d)
    PROVE  Standings' = Standings
  BY DEF Standings

LEMMA SameProposals ==
    ASSUME slashProposals' = slashProposals
    PROVE  Standings' = Standings
  BY SameStandings DEF StandingOf, Live

------------------------------------------------------------------------------
(* One lemma per operation that moves something.                           *)

LEMMA DepositFunds ==
    ASSUME SafetyInv, NEW d \in Agents, NEW caller \in Accounts, NEW received \in Deposits,
           DepositStake(d, caller, received)
    PROVE  Custody!Fund(d)
  <1>1. StakingTypeOK /\ received \in Nat
    BY StakingAssumption DEF SafetyInv, StakingAssumption
  <1>2. stakes' = [stakes EXCEPT ![d].amount = stakes[d].amount + received]
    BY DEF DepositStake
  <1>3. Standings' = Standings /\ claimable' = claimable
    BY SameProposals DEF DepositStake, slashVars
  <1>4. StandingOf(d) # "convicted"
    BY DEF DepositStake, SafetyInv, SlashedIsFinal, StandingOf
  <1>5. /\ \A e \in Agents : e # d => Bond(e)' = Bond(e)
        /\ Bond(d)' >= Bond(d)
    <2>1. stakes \in [Agents -> Stake]
      BY <1>1 DEF StakingTypeOK
    <2>2. \A e \in Agents : e # d => stakes'[e] = stakes[e]
      BY <1>2, <2>1
    <2>3. /\ stakes'[d].amount = stakes[d].amount + received
          /\ stakes'[d].unbondingAmount = stakes[d].unbondingAmount
      BY <1>2, <2>1 DEF Stake
    <2>4. stakes[d].amount \in Nat /\ stakes[d].unbondingAmount \in Nat
      BY <2>1 DEF Stake
    <2> QED BY <1>1, <2>2, <2>3, <2>4 DEF Bond
  <1>6. Bonds' = [Bonds EXCEPT ![d] = Bonds'[d]] /\ Bonds'[d] >= Bonds[d]
    BY <1>5 DEF Bonds
  <1>7. Standings[d] # "convicted"
    BY <1>4 DEF Standings
  <1> QED BY <1>3, <1>6, <1>7 DEF Custody!Fund, Bonds, Standings, StandingOf

LEMMA WithdrawalQueuedIsNothing ==
    ASSUME SafetyInv, NEW d \in Agents, NEW caller, NEW amount \in Withdrawals,
           InitiateWithdrawal(d, caller, amount)
    PROVE  UNCHANGED Custody!custodyVars
  <1>1. StakingTypeOK /\ amount \in Nat
    BY StakingAssumption DEF SafetyInv, StakingAssumption
  <1>2. /\ stakes[d].unbondingAmount = 0
        /\ stakes' = [stakes EXCEPT ![d] = [amount |-> stakes[d].amount - amount,
                                            unbondingAmount |-> amount, unbondingAt |-> now]]
    BY DEF InitiateWithdrawal
  <1>3. \A e \in Agents : Bond(e)' = Bond(e)
    BY <1>1, <1>2 DEF StakingTypeOK, Stake, Bond
  <1>4. Bonds' = Bonds
    BY <1>3 DEF Bonds
  <1>5. Standings' = Standings /\ claimable' = claimable
    BY SameProposals DEF InitiateWithdrawal, slashVars
  <1> QED BY <1>4, <1>5, Mapping

LEMMA ClaimReleases ==
    ASSUME SafetyInv, NEW d \in Agents, NEW caller, ClaimWithdrawal(d, caller)
    PROVE  Custody!Release(d)
  <1> DEFINE part == stakes[d].unbondingAmount
  <1>1. StakingTypeOK /\ stakes \in [Agents -> Stake]
    BY DEF SafetyInv, StakingTypeOK
  <1>2. stakes' = [stakes EXCEPT ![d].unbondingAmount = 0, ![d].unbondingAt = 0]
    BY DEF ClaimWithdrawal
  <1>3. part # 0 /\ part \in Nat /\ stakes[d].amount \in Nat /\ Bond(d) = stakes[d].amount + part
    BY <1>1 DEF ClaimWithdrawal, MayClaim, Stake, Bond
  <1>4. StandingOf(d) = "free"
    BY <1>3 DEF ClaimWithdrawal, MayClaim, SafetyInv, SlashedIsFinal, StandingOf
  <1>5. \A e \in Agents : e # d => Bond(e)' = Bond(e)
    BY <1>1, <1>2 DEF Bond
  <1>6. Bond(d)' = Bond(d) - part
    <2>1. stakes'[d].amount = stakes[d].amount /\ stakes'[d].unbondingAmount = 0
      BY <1>1, <1>2 DEF Stake
    <2> QED BY <1>3, <2>1 DEF Bond
  <1>7. part \in 1..Bonds[d]
    BY <1>3 DEF Bonds
  <1>8. Bonds' = [Bonds EXCEPT ![d] = @ - part]
    BY <1>5, <1>6 DEF Bonds
  <1>9. Standings' = Standings /\ claimable' = claimable /\ Standings[d] = "free"
    BY <1>4, SameProposals DEF ClaimWithdrawal, slashVars, Standings
  <1> HIDE DEF part
  <1> QED BY <1>7, <1>8, <1>9 DEF Custody!Release, Bonds, Standings, StandingOf

LEMMA FilingAccuses ==
    ASSUME SafetyInv, NEW d \in Agents, NEW reporter \in CommitteeCandidates,
           NEW victim \in Victims, NEW evidence \in Evidence,
           InitiateSlash(d, reporter, victim, evidence)
    PROVE  Custody!Accuse(d)
  <1>1. StakingTypeOK /\ IdentityTypeOK /\ slashProposals \in [Agents -> SlashProposal]
    BY DEF SafetyInv, StakingTypeOK
  <1>2. Registered(d) /\ Status(d) # "Slashed"
    BY <1>1, CoreEffect DEF InitiateSlash, AgentStatus
  <1>3. StandingOf(d) = "free"
    BY <1>2 DEF InitiateSlash, MayFile, SafetyInv, SlashedIsFinal, StandingOf
  <1>4. Bond(d) > 0
    BY <1>1, BondsAreNumbers DEF InitiateSlash, MayFile
  <1>5. /\ slashProposals'[d].state = "Pending"
        /\ \A e \in Agents : e # d => slashProposals'[e] = slashProposals[e]
    BY <1>1 DEF InitiateSlash
  <1>6. Standings' = [Standings EXCEPT ![d] = "accused"]
    BY <1>5 DEF Standings, StandingOf, Live
  <1>7. Bonds' = Bonds /\ claimable' = claimable /\ Bonds[d] > 0 /\ Standings[d] = "free"
    BY <1>3, <1>4, SameBonds DEF InitiateSlash, bondVars, Bonds, Standings
  <1> QED BY <1>6, <1>7 DEF Custody!Accuse, Bonds, Standings, StandingOf

LEMMA DisputeIsNothing ==
    ASSUME SafetyInv, NEW d \in Agents, NEW caller, DisputeSlash(d, caller)
    PROVE  UNCHANGED Custody!custodyVars
  <1>1. slashProposals \in [Agents -> SlashProposal]
    BY DEF SafetyInv, StakingTypeOK
  <1>2. slashProposals'[d].state = "Disputed" /\ slashProposals[d].state = "Pending"
    BY <1>1 DEF DisputeSlash, SlashProposal
  <1>3. \A e \in Agents : e # d => slashProposals'[e] = slashProposals[e]
    BY <1>1 DEF DisputeSlash
  <1>4. Standings' = Standings
    BY <1>2, <1>3, SameStandings DEF StandingOf, Live
  <1>5. Bonds' = Bonds /\ claimable' = claimable
    BY SameBonds DEF DisputeSlash, bondVars
  <1> QED BY <1>4, <1>5, Mapping

LEMMA DropAcquits ==
    ASSUME SafetyInv, NEW d \in Agents, Live(d), DropProposal(d)
    PROVE  Custody!Acquit(d)
  <1>1. StakingTypeOK
    BY DEF SafetyInv
  <1>2. slashProposals' = [slashProposals EXCEPT ![d].state = "Cancelled"]
    BY DEF DropProposal
  <1>3. \A e \in Agents : slashProposals'[e].state =
                              IF e = d THEN "Cancelled" ELSE slashProposals[e].state
    <2>1. slashProposals \in [Agents -> SlashProposal]
      BY <1>1 DEF StakingTypeOK
    <2>2. ASSUME NEW e \in Agents
          PROVE  slashProposals'[e] = IF e = d THEN [slashProposals[d] EXCEPT !.state = "Cancelled"]
                                               ELSE slashProposals[e]
      BY ONLY <1>2, <2>1, d \in Agents, e \in Agents
    <2>3. [slashProposals[d] EXCEPT !.state = "Cancelled"].state = "Cancelled"
      BY ONLY <2>1, d \in Agents DEF SlashProposal
    <2> QED BY ONLY <2>2, <2>3
  <1>4. Standings' = [Standings EXCEPT ![d] = "free"] /\ Standings[d] = "accused"
    BY <1>3 DEF Standings, StandingOf, Live
  <1>5. Bonds' = Bonds /\ claimable' = claimable
    BY SameBonds DEF DropProposal, bondVars
  <1> QED BY <1>4, <1>5 DEF Custody!Acquit, Bonds, Standings, StandingOf

LEMMA SettlementConvicts ==
    ASSUME SafetyInv, NEW d \in Agents, Live(d), SettleSlash(d)
    PROVE  \E victim \in Victims : Custody!Convict(d, victim)
  <1> DEFINE v == slashProposals[d].victim
  <1>1. StakingTypeOK /\ v \in Victims /\ stakes \in [Agents -> Stake]
    BY SafetyInvByAgent DEF AgentOK, Live, StakingTypeOK
  <1>2. slashProposals' = [slashProposals EXCEPT ![d].state = "Executed"]
    BY DEF SettleSlash
  <1>3. \A e \in Agents : slashProposals'[e].state =
                              IF e = d THEN "Executed" ELSE slashProposals[e].state
    <2>1. slashProposals \in [Agents -> SlashProposal]
      BY <1>1 DEF StakingTypeOK
    <2>2. ASSUME NEW e \in Agents
          PROVE  slashProposals'[e] = IF e = d THEN [slashProposals[d] EXCEPT !.state = "Executed"]
                                               ELSE slashProposals[e]
      BY ONLY <1>2, <2>1, d \in Agents, e \in Agents
    <2>3. [slashProposals[d] EXCEPT !.state = "Executed"].state = "Executed"
      BY ONLY <2>1, d \in Agents DEF SlashProposal
    <2> QED BY ONLY <2>2, <2>3
  <1>4. Standings' = [Standings EXCEPT ![d] = "convicted"] /\ Standings[d] = "accused"
    BY <1>3 DEF Standings, StandingOf, Live
  <1>5. /\ \A e \in Agents : e # d => Bond(e)' = Bond(e)
        /\ Bond(d)' = 0
    BY <1>1 DEF SettleSlash, Swept, EmptyStake, Bond
  <1>6. Bonds' = [Bonds EXCEPT ![d] = 0]
    BY <1>5 DEF Bonds
  <1>7. claimable' = [claimable EXCEPT ![v] = @ + Bonds[d] \div 4]
    <2>1. Bonds[d] = Bond(d)
      BY DEF Bonds
    <2> QED BY <2>1 DEF SettleSlash, ToVictim
  <1>8. PICK victim \in Victims : victim = v
    BY <1>1
  <1>9. claimable' = [claimable EXCEPT ![victim] = @ + Bonds[d] \div 4]
    BY <1>7, <1>8
  <1> HIDE DEF v
  <1>10. Custody!Convict(d, victim)
    BY <1>4, <1>6, <1>9 DEF Custody!Convict, Bonds, Standings, StandingOf
  <1> QED BY <1>10

LEMMA VictimCollects ==
    ASSUME SafetyInv, NEW a \in Victims, ClaimSlashProceeds(a)
    PROVE  Custody!Collect(a)
  <1>1. claimable \in [Victims -> Nat]
    BY DEF SafetyInv, StakingTypeOK
  <1>2. Bonds' = Bonds /\ Standings' = Standings
    BY SameBonds, SameProposals DEF ClaimSlashProceeds, slashVars
  <1>3. claimable[a] > 0 /\ claimable' = [claimable EXCEPT ![a] = 0]
    BY <1>1 DEF ClaimSlashProceeds
  <1> QED BY <1>2, <1>3 DEF Custody!Collect, Bonds, Standings, StandingOf

------------------------------------------------------------------------------
(* The refinement.                                                         *)

LEMMA CustodyStarts == Init => Custody!CustodyInit
  <1> SUFFICES ASSUME Init PROVE Custody!CustodyInit
    OBVIOUS
  <1>1. SafetyInv /\ StakingInit
    BY SafetyInvInit DEF Init
  <1>2. Bonds \in [Agents -> Nat]
    BY <1>1, BondsAreNumbers DEF SafetyInv, Bonds
  <1>3. Standings = [d \in Agents |-> "free"]
    BY <1>1 DEF StakingInit, NoProposal, Standings, StandingOf, Live
  <1>4. claimable = [a \in Victims |-> 0]
    BY <1>1 DEF StakingInit
  <1> QED BY <1>2, <1>3, <1>4 DEF Custody!CustodyInit, Bonds, Standings, StandingOf

LEMMA CustodyStep ==
    ASSUME SafetyInv, [Next]_vars
    PROVE  [Custody!CustodyNext]_(Custody!custodyVars)
  <1>1. ASSUME stakes' = stakes, slashProposals' = slashProposals, claimable' = claimable
        PROVE  UNCHANGED Custody!custodyVars
    BY <1>1, SameBonds, SameProposals, Mapping
  <1>2. CASE UNCHANGED vars
    BY <1>1, <1>2 DEF vars, stakingVars, bondVars, slashVars
  <1>3. CASE \/ (Tick \/ GuardNext) /\ UNCHANGED <<identityVars, stakingVars>>
             \/ IdentityGovernance /\ UNCHANGED stakingVars
    BY <1>1, <1>3 DEF stakingVars, bondVars, slashVars
  <1>4. CASE Settings
    BY <1>1, <1>4, SettingsLeaveProposals DEF bondVars
  <1>5. ASSUME NEW a \in Victims, ClaimSlashProceeds(a)
        PROVE  Custody!CustodyNext
    BY <1>5, VictimCollects DEF Custody!CustodyNext
  <1>6. ASSUME NEW d \in Agents, NEW caller \in Accounts, OperatorCalls(d, caller)
        PROVE  Custody!CustodyNext \/ UNCHANGED Custody!custodyVars
    <2>1. CASE UNCHANGED stakingVars
      BY <1>1, <2>1 DEF stakingVars, bondVars, slashVars
    <2>2. ASSUME NEW received \in Deposits, DepositStake(d, caller, received)
          PROVE  Custody!CustodyNext
      BY <2>2, DepositFunds DEF Custody!CustodyNext
    <2>3. ASSUME NEW amount \in Withdrawals, InitiateWithdrawal(d, caller, amount)
          PROVE  UNCHANGED Custody!custodyVars
      BY <2>3, WithdrawalQueuedIsNothing
    <2>4. CASE ClaimWithdrawal(d, caller)
      BY <2>4, ClaimReleases DEF Custody!CustodyNext
    <2>5. CASE DisputeSlash(d, caller)
      BY <2>5, DisputeIsNothing
    <2> QED BY <1>6, <2>1, <2>2, <2>3, <2>4, <2>5 DEF OperatorCalls
  <1>7. ASSUME NEW d \in Agents, Live(d), DropProposal(d)
        PROVE  Custody!CustodyNext
    BY <1>7, DropAcquits DEF Custody!CustodyNext
  <1>8. ASSUME NEW d \in Agents, Live(d), SettleSlash(d)
        PROVE  Custody!CustodyNext
    BY <1>8, SettlementConvicts DEF Custody!CustodyNext
  <1>9. ASSUME NEW d \in Agents, CommitteeCalls(d)
        PROVE  Custody!CustodyNext
    <2>1. ASSUME NEW reporter \in CommitteeCandidates, NEW victim \in Victims,
                 NEW evidence \in Evidence, InitiateSlash(d, reporter, victim, evidence)
          PROVE  Custody!CustodyNext
      BY <2>1, FilingAccuses DEF Custody!CustodyNext
    <2> QED BY <1>7, <1>9, <2>1 DEF CommitteeCalls, CancelSlash, Live
  <1>10. ASSUME NEW d \in Agents, AdminCalls(d) \/ AnyonesCalls(d)
         PROVE  Custody!CustodyNext
    BY <1>7, <1>8, <1>10 DEF AdminCalls, ResolveDispute, VetoSlash, AnyonesCalls,
                             ExpireDispute, ExpireSlash, ExecuteSlash, Live
  <1>11. ASSUME NEW d \in Agents, NEW score \in Scores, FinalizeReputation(d, score)
         PROVE  UNCHANGED Custody!custodyVars
    BY <1>1, <1>11 DEF FinalizeReputation, bondVars, slashVars
  <1> QED BY <1>2, <1>3, <1>4, <1>5, <1>6, <1>9, <1>10, <1>11 DEF Next

\* The bond contract keeps the promises of BondCustody: value leaves a bond only while
\* its agent is unaccused, and a conviction pays one victim a quarter and is for good.
THEOREM StakingImplementsCustody == Spec => ImplementsCustody
  <1>1. SafetyInv /\ [Next]_vars => [Custody!CustodyNext]_(Custody!custodyVars)
    BY CustodyStep
  <1> QED BY SafetyInvInit, SafetyInvStep, CustodyStarts, <1>1, PTL
          DEF Spec, ImplementsCustody, Custody!CustodySpec

------------------------------------------------------------------------------
(* The books, step by step, and what they add up to.                        *)

\* One bond and one credit move, and the balance moves by what they do together.
Balances(d, v) ==
    /\ \A e \in Agents : e # d => Bond(e)' = Bond(e)
    /\ \A w \in Victims : w # v => claimable'[w] = claimable[w]
    /\ balance' - balance = (Bond(d)' - Bond(d)) + (claimable'[v] - claimable[v])

\* One credit moves, and the balance with it.
Collects(v) ==
    /\ stakes' = stakes
    /\ \A w \in Victims : w # v => claimable'[w] = claimable[w]
    /\ balance' - balance = claimable'[v] - claimable[v]

Books ==
    \/ UNCHANGED <<stakes, claimable, balance>>
    \/ \E v \in Victims : Collects(v)
    \/ \E d \in Agents, v \in Victims : Balances(d, v)

LEMMA SettlementBalances ==
    ASSUME SafetyInv, NEW d \in Agents, Live(d), SettleSlash(d)
    PROVE  \E v \in Victims : Balances(d, v)
  <1> DEFINE v == slashProposals[d].victim
  <1>1. StakingTypeOK /\ v \in Victims /\ stakes \in [Agents -> Stake] /\ claimable \in [Victims -> Nat]
    BY SafetyInvByAgent DEF AgentOK, Live, StakingTypeOK
  <1>2. /\ \A e \in Agents : e # d => Bond(e)' = Bond(e)
        /\ Bond(d)' = 0
    BY <1>1 DEF SettleSlash, Swept, EmptyStake, Bond
  <1>3. claimable'[v] = claimable[v] + ToVictim(d) /\ \A w \in Victims : w # v => claimable'[w] = claimable[w]
    BY <1>1 DEF SettleSlash
  <1>4. balance' = balance - (Bond(d) - ToVictim(d)) /\ balance \in Int
    BY <1>1 DEF SettleSlash, Burned, StakingTypeOK
  <1>5. Bond(d) \in Nat /\ ToVictim(d) \in Nat /\ claimable[v] \in Nat
    BY <1>1, BondsAreNumbers DEF ToVictim
  <1> HIDE DEF v
  <1>6. Balances(d, v)
    BY <1>2, <1>3, <1>4, <1>5 DEF Balances
  <1> QED BY <1>1, <1>6

LEMMA BondCallsBalance ==
    ASSUME SafetyInv, NEW d \in Agents, NEW caller \in Accounts, NEW v \in Victims,
           \/ \E received \in Deposits : DepositStake(d, caller, received)
           \/ \E amount \in Withdrawals : InitiateWithdrawal(d, caller, amount)
           \/ ClaimWithdrawal(d, caller)
    PROVE  Balances(d, v)
  <1>1. /\ StakingTypeOK /\ stakes \in [Agents -> Stake] /\ balance \in Int
        /\ claimable[v] \in Nat /\ Bond(d) \in Nat
        /\ stakes[d].amount \in Nat /\ stakes[d].unbondingAmount \in Nat
    BY BondsAreNumbers DEF SafetyInv, StakingTypeOK, Stake
  <1>2. ASSUME NEW received \in Deposits, DepositStake(d, caller, received)
        PROVE  Balances(d, v)
    <2> DEFINE amount == stakes[d].amount + received
    <2>1. stakes' = [stakes EXCEPT ![d].amount = amount]
      BY <1>2 DEF DepositStake
    <2>2. balance' = balance + received /\ claimable' = claimable /\ received \in Nat
      BY <1>2, StakingAssumption DEF DepositStake
    <2>3. stakes'[d].amount = amount /\ stakes'[d].unbondingAmount = stakes[d].unbondingAmount
      <3> HIDE DEF amount
      <3> QED BY <1>1, <2>1 DEF Stake
    <2>4. Bond(d)' = Bond(d) + received
      BY <1>1, <2>2, <2>3 DEF Bond
    <2>5. \A e \in Agents : e # d => Bond(e)' = Bond(e)
      BY <1>1, <2>1 DEF Bond
    <2> QED BY <1>1, <2>2, <2>4, <2>5 DEF Balances
  <1>3. ASSUME NEW amount \in Withdrawals, InitiateWithdrawal(d, caller, amount)
        PROVE  Balances(d, v)
    <2>1. amount \in Nat /\ stakes[d].unbondingAmount = 0
      BY <1>3, StakingAssumption DEF InitiateWithdrawal
    <2>2. stakes' = [stakes EXCEPT ![d] =
              [amount |-> stakes[d].amount - amount, unbondingAmount |-> amount, unbondingAt |-> now]]
      BY <1>3 DEF InitiateWithdrawal
    <2>3. \A e \in Agents : Bond(e)' = Bond(e)
      BY <1>1, <2>1, <2>2 DEF Bond, Stake
    <2>4. balance' = balance /\ claimable' = claimable
      BY <1>3 DEF InitiateWithdrawal
    <2> QED BY <1>1, <2>3, <2>4 DEF Balances
  <1>4. CASE ClaimWithdrawal(d, caller)
    <2>1. stakes' = [stakes EXCEPT ![d].unbondingAmount = 0, ![d].unbondingAt = 0]
      BY <1>4 DEF ClaimWithdrawal
    <2>2. balance' = balance - stakes[d].unbondingAmount /\ claimable' = claimable
      BY <1>4 DEF ClaimWithdrawal
    <2>3. stakes'[d].amount = stakes[d].amount /\ stakes'[d].unbondingAmount = 0
      BY <1>1, <2>1 DEF Stake
    <2>4. \A e \in Agents : e # d => Bond(e)' = Bond(e)
      BY <1>1, <2>1 DEF Bond
    <2> QED BY <1>1, <2>2, <2>3, <2>4 DEF Balances, Bond
  <1> QED BY <1>2, <1>3, <1>4

LEMMA StepBalances ==
    ASSUME SafetyInv, [Next]_vars
    PROVE  Books
  <1>0. PICK someone \in Victims : TRUE
    BY StakingAssumption
  <1>1. ASSUME UNCHANGED <<bondVars, claimable>>
        PROVE  Books
    BY <1>1 DEF bondVars, Books
  <1>2. CASE \/ UNCHANGED vars
             \/ (Tick \/ GuardNext) /\ UNCHANGED <<identityVars, stakingVars>>
             \/ IdentityGovernance /\ UNCHANGED stakingVars
    BY <1>1, <1>2 DEF vars, stakingVars
  <1>3. CASE Settings
    BY <1>1, <1>3, SettingsLeaveProposals
  <1>4. ASSUME NEW a \in Victims, ClaimSlashProceeds(a)
        PROVE  Books
    <2>1. stakes' = stakes /\ balance' = balance - claimable[a] /\ claimable' = [claimable EXCEPT ![a] = 0]
      BY <1>4 DEF ClaimSlashProceeds
    <2>2. claimable \in [Victims -> Nat] /\ balance \in Int
      BY DEF SafetyInv, StakingTypeOK
    <2>3. claimable[a] \in Nat /\ claimable'[a] = 0
      BY <2>1, <2>2
    <2>4. Collects(a)
      BY <2>1, <2>2, <2>3 DEF Collects
    <2> QED BY <2>4 DEF Books
  <1>5. ASSUME NEW d \in Agents, NEW caller \in Accounts, OperatorCalls(d, caller)
        PROVE  Books
    <2>1. CASE UNCHANGED stakingVars \/ DisputeSlash(d, caller)
      BY <1>1, <2>1 DEF stakingVars, bondVars, DisputeSlash
    <2> QED BY <1>0, <1>5, <2>1, BondCallsBalance DEF OperatorCalls, Books
  <1>6. ASSUME NEW d \in Agents, CommitteeCalls(d) \/ AdminCalls(d) \/ AnyonesCalls(d)
        PROVE  Books
    <2>1. \/ DropProposal(d)
          \/ Live(d) /\ SettleSlash(d)
          \/ \E reporter \in CommitteeCandidates, victim \in Victims, evidence \in Evidence :
                 InitiateSlash(d, reporter, victim, evidence)
      BY <1>6 DEF CommitteeCalls, CancelSlash, AdminCalls, ResolveDispute, VetoSlash, AnyonesCalls,
                  ExpireDispute, ExpireSlash, ExecuteSlash, Live
    <2> QED BY <1>1, <2>1, SettlementBalances DEF DropProposal, InitiateSlash, Books
  <1>7. ASSUME NEW d \in Agents, NEW score \in Scores, FinalizeReputation(d, score)
        PROVE  Books
    BY <1>1, <1>7 DEF FinalizeReputation
  <1> QED BY <1>2, <1>3, <1>4, <1>5, <1>6, <1>7 DEF Next

\* What Solvency adds up, one step at a time: tokens move only with one agent's bond, one victim's credit, or
\* both, and by exactly what these do.
THEOREM BooksBalance == Spec => [][Books]_vars
  <1>1. SafetyInv /\ [Next]_vars => [Books]_vars
    BY StepBalances
  <1> QED BY SafetyInvInit, SafetyInvStep, <1>1, PTL DEF Spec

------------------------------------------------------------------------------
(* The totals.                                                             *)

LEMMA BooksTypes ==
    ASSUME StakingTypeOK
    PROVE  /\ Bonds \in [Agents -> Nat] /\ claimable \in [Victims -> Nat] /\ balance \in Int
           /\ IsFiniteSet(Agents) /\ IsFiniteSet(Victims)
           /\ Total(Bonds) \in Nat /\ Total(claimable) \in Nat
  <1>1. Bonds \in [Agents -> Nat]
    BY BondsAreNumbers DEF Bonds
  <1>2. claimable \in [Victims -> Nat] /\ balance \in Int
    BY DEF StakingTypeOK
  <1>3. IsFiniteSet(Agents) /\ IsFiniteSet(Victims)
    BY StakingAssumption DEF StakingAssumption
  <1> QED BY <1>1, <1>2, <1>3, TotalType

LEMMA SolvencyOfBonds == Solvency <=> balance = Total(Bonds) + Total(claimable)
  BY DEF Solvency, Bonds

LEMMA BooksKeepSolvency ==
    ASSUME StakingTypeOK, StakingTypeOK', Solvency, Books
    PROVE  Solvency'
  <1>1. /\ Bonds' \in [Agents -> Nat] /\ claimable' \in [Victims -> Nat]
        /\ Bonds \in [Agents -> Nat] /\ claimable \in [Victims -> Nat]
        /\ balance \in Int /\ balance' \in Int
        /\ IsFiniteSet(Agents) /\ IsFiniteSet(Victims)
        /\ Total(Bonds) \in Nat /\ Total(claimable) \in Nat
    <2>1. Bonds' \in [Agents -> Nat]
      BY DEF StakingTypeOK, Stake, Bonds, Bond
    <2>2. claimable' \in [Victims -> Nat] /\ balance' \in Int
      BY DEF StakingTypeOK
    <2> QED BY <2>1, <2>2, BooksTypes
  <1>2. balance = Total(Bonds) + Total(claimable)
    BY SolvencyOfBonds
  <1>3. SUFFICES balance' = Total(Bonds') + Total(claimable')
    BY DEF Solvency, Bonds
  <1>4. CASE UNCHANGED <<stakes, claimable, balance>>
    <2>1. Bonds' = Bonds
      BY <1>4 DEF Bonds, Bond
    <2> QED BY <1>2, <1>4, <2>1
  <1>5. ASSUME NEW v \in Victims, Collects(v)
        PROVE  balance' = Total(Bonds') + Total(claimable')
    <2>1. Bonds' = Bonds
      BY <1>5 DEF Collects, Bonds, Bond
    <2>2. Total(claimable') = Total(claimable) + (claimable'[v] - claimable[v])
      BY <1>1, <1>5, TotalMoves DEF Collects
    <2>3. balance' - balance = claimable'[v] - claimable[v]
      BY <1>5 DEF Collects
    <2>4. claimable[v] \in Nat /\ claimable'[v] \in Nat
      BY <1>1
    <2> QED BY <1>1, <1>2, <2>1, <2>2, <2>3, <2>4
  <1>6. ASSUME NEW d \in Agents, NEW v \in Victims, Balances(d, v)
        PROVE  balance' = Total(Bonds') + Total(claimable')
    <2>1. \A e \in Agents : Bonds[e] = Bond(e) /\ Bonds'[e] = Bond(e)'
      BY DEF Bonds
    <2>2. Total(Bonds') = Total(Bonds) + (Bonds'[d] - Bonds[d])
      BY <1>1, <1>6, <2>1, TotalMoves DEF Balances
    <2>3. Total(claimable') = Total(claimable) + (claimable'[v] - claimable[v])
      BY <1>1, <1>6, TotalMoves DEF Balances
    <2>4. balance' - balance = (Bonds'[d] - Bonds[d]) + (claimable'[v] - claimable[v])
      BY <1>6, <2>1 DEF Balances
    <2>5. /\ claimable[v] \in Nat /\ claimable'[v] \in Nat
          /\ Bonds[d] \in Nat /\ Bonds'[d] \in Nat
      BY <1>1
    <2> QED BY <1>1, <1>2, <2>2, <2>3, <2>4, <2>5
  <1> QED BY <1>4, <1>5, <1>6 DEF Books

\* At the start only the agents listed before the upgrade have bonds, all the same one.
LEMMA SolvencyInit == Init => Solvency
  <1> SUFFICES ASSUME StakingInit PROVE Solvency
    BY DEF Init
  <1>1. PICK queued \in 0..1 :
            /\ stakes = [d \in Agents |->
                   IF d \in LegacyAgents
                   THEN [amount |-> minimumStake, unbondingAmount |-> queued,
                         unbondingAt |-> queued]
                   ELSE EmptyStake]
            /\ balance = Len(LegacyList) * (minimumStake + queued)
    BY DEF StakingInit
  <1>2. minimumStake + queued \in Nat
    <2>1. minimumStake \in MinimumStakes
      BY DEF StakingInit
    <2>2. minimumStake \in Nat /\ queued \in Nat
      BY <2>1, StakingAssumption DEF StakingAssumption
    <2> QED BY <2>2
  <1> DEFINE each == minimumStake + queued
  <1>3. Bonds = [d \in Agents |-> IF d \in LegacyAgents THEN each ELSE 0]
    BY <1>1 DEF Bonds, Bond, EmptyStake
  <1>4. claimable = [a \in Victims |-> IF a \in {} THEN 0 ELSE 0]
    BY DEF StakingInit
  <1>5. IsFiniteSet(Agents) /\ IsFiniteSet(Victims)
    BY StakingAssumption DEF StakingAssumption
  <1>6. LegacyAgents \subseteq Agents /\ Cardinality(LegacyAgents) = Len(LegacyList)
    <2>1. /\ LegacyList \in Seq(Agents) /\ Len(LegacyList) \in Nat
          /\ \A i, j \in 1..Len(LegacyList) : LegacyList[i] = LegacyList[j] => i = j
      BY IdentityAssumption DEF IdentityAssumption
    <2>2. LegacyAgents \subseteq Agents
      BY <2>1 DEF LegacyAgents, Listed
    <2> DEFINE place == [i \in 1..Len(LegacyList) |-> LegacyList[i]]
    <2>3. LegacyAgents = {LegacyList[i] : i \in 1..Len(LegacyList)}
      BY DEF LegacyAgents, Listed
    <2>4. place \in [1..Len(LegacyList) -> LegacyAgents]
      BY <2>3
    <2>5. \A a, b \in 1..Len(LegacyList) : place[a] = place[b] => a = b
      BY <2>1
    <2>6. \A t \in LegacyAgents : \E i \in 1..Len(LegacyList) : place[i] = t
      BY <2>3
    <2> HIDE DEF place
    <2>7. place \in Bijection(1..Len(LegacyList), LegacyAgents)
      BY <2>4, <2>5, <2>6 DEF Bijection, IsInjective, Injection, Surjection
    <2>8. ExistsBijection(1..Len(LegacyList), LegacyAgents)
      BY <2>7 DEF ExistsBijection
    <2>9. Cardinality(LegacyAgents) = Len(LegacyList)
      BY <2>1, <2>8, FS_CountingElements
    <2> QED BY <2>9, <2>2
  <1> HIDE DEF each
  <1>7. Total(Bonds) = Cardinality(LegacyAgents) * each
    BY <1>2, <1>3, <1>5, <1>6, TotalOfEqual DEF each
  <1>8. Total(claimable) = 0
    <2>1. Total(claimable) = Cardinality({}) * 0
      BY <1>4, <1>5, TotalOfEqual
    <2> QED BY <2>1, FS_EmptySet
  <1>9. balance = Len(LegacyList) * each
    BY <1>1 DEF each
  <1>10. Len(LegacyList) * each \in Int
    BY <1>2, IdentityAssumption DEF each, IdentityAssumption
  <1> QED BY <1>6, <1>7, <1>8, <1>9, <1>10, SolvencyOfBonds

\* The contract holds exactly what it owes its agents and its victims, however deposits, exits, settlements
\* with their division, and collections are ordered.
THEOREM ContractIsSolvent == Spec => []Solvency
  <1>1. SafetyInv => StakingTypeOK
    BY DEF SafetyInv
  <1>2. SafetyInv /\ Solvency /\ [Next]_vars => SafetyInv' /\ Solvency'
    <2> SUFFICES ASSUME SafetyInv, Solvency, [Next]_vars PROVE SafetyInv' /\ Solvency'
      OBVIOUS
    <2>1. SafetyInv'
      BY SafetyInvStep
    <2>2. StakingTypeOK /\ StakingTypeOK'
      BY <2>1 DEF SafetyInv
    <2>3. Books
      BY StepBalances
    <2> QED BY <2>1, <2>2, <2>3, BooksKeepSolvency
  <1> QED BY SafetyInvInit, SolvencyInit, <1>2, PTL DEF Spec

------------------------------------------------------------------------------
(* The contract and the registry.                                          *)

LEMMA CoreUpdateIsACall ==
    ASSUME NEW d \in Agents, NEW s \in AgentStatus, NEW amount, CoreUpdateStatus(d, s, amount)
    PROVE  IdentityNext
  <1>1. UpdateStatus(d, StakingCore, s, amount >= minimumStake) /\ IdentityFrame
    BY DEF CoreUpdateStatus
  <1>2. \E bonded \in BOOLEAN : UpdateStatus(d, StakingCore, s, bonded)
    <2>1. CASE amount >= minimumStake
      <3>1. UpdateStatus(d, StakingCore, s, TRUE)
        BY <1>1, <2>1 DEF UpdateStatus, MayUpdateStatus
      <3> QED BY <3>1
    <2>2. CASE ~(amount >= minimumStake)
      <3>1. UpdateStatus(d, StakingCore, s, FALSE)
        BY <1>1, <2>2 DEF UpdateStatus, MayUpdateStatus
      <3> QED BY <3>1
    <2> QED BY <2>1, <2>2
  <1>3. \E bonded \in BOOLEAN : StakingCoreStep(d, bonded)
    BY <1>1, <1>2 DEF StakingCoreStep, IdentityFrame, clockVars
  <1> QED BY <1>3 DEF IdentityNext

LEMMA ClearingIsACall ==
    ASSUME NEW d \in Agents, ClearSlashSuspension(d) /\ IdentityFrame
    PROVE  IdentityNext
  <1>1. StakingCoreStep(d, TRUE)
    BY DEF StakingCoreStep, IdentityFrame, clockVars
  <1> QED BY <1>1 DEF IdentityNext

LEMMA OperatorStepIsACall ==
    ASSUME NEW d \in Agents, NEW caller \in Accounts, OperatorStep(d, caller, HasMinimumStake(d))
    PROVE  IdentityNext
  <1>1. \E bonded \in BOOLEAN : OperatorStep(d, caller, bonded)
    <2>1. CASE HasMinimumStake(d)
      <3>1. OperatorStep(d, caller, TRUE)
        BY <2>1 DEF OperatorStep, UpdateStatus, MayUpdateStatus, AcceptOperatorTransfer
      <3> QED BY <3>1
    <2>2. CASE ~HasMinimumStake(d)
      <3>1. OperatorStep(d, caller, FALSE)
        BY <2>2 DEF OperatorStep, UpdateStatus, MayUpdateStatus, AcceptOperatorTransfer
      <3> QED BY <3>1
    <2> QED BY <2>1, <2>2
  <1> QED BY <1>1 DEF IdentityNext

\* Dropping a proposal and settling one are calls of the registry.
LEMMA EndingIsACall ==
    ASSUME NEW d \in Agents, DropProposal(d) \/ SettleSlash(d)
    PROVE  IdentityNext
  <1>1. CASE SettleSlash(d)
    BY <1>1, CoreUpdateIsACall DEF SettleSlash, AgentStatus
  <1>2. CASE DropProposal(d)
    BY <1>2, CoreUpdateIsACall, ClearingIsACall DEF DropProposal, AgentStatus
  <1> QED BY <1>1, <1>2

LEMMA StepsAreCalls ==
    ASSUME [Next]_vars
    PROVE  [IdentityNext]_<<now, guardVars, identityVars>>
  <1>1. ASSUME UNCHANGED <<clockVars, identityVars>> PROVE UNCHANGED <<now, guardVars, identityVars>>
    BY <1>1 DEF clockVars
  <1>2. CASE Tick /\ UNCHANGED <<identityVars, stakingVars>>
    BY <1>2 DEF IdentityNext
  <1>3. CASE GuardNext /\ UNCHANGED <<identityVars, stakingVars>>
    BY <1>3 DEF IdentityNext
  <1>4. CASE IdentityGovernance /\ UNCHANGED stakingVars
    BY <1>4 DEF IdentityNext
  <1>5. CASE Settings \/ \E a \in Victims : ClaimSlashProceeds(a)
    BY <1>1, <1>5 DEF Settings, SetMinimumStake, SetChallengePeriod, SetUnbondingPeriod, GrantCommittee,
       RevokeCommittee, CommitteeFrame, ClaimSlashProceeds
  <1>6. ASSUME NEW d \in Agents, NEW caller \in Accounts, OperatorCalls(d, caller)
        PROVE  IdentityNext \/ UNCHANGED <<now, guardVars, identityVars>>
    <2>1. ASSUME NEW received \in Deposits, DepositStake(d, caller, received)
          PROVE  IdentityNext \/ UNCHANGED <<now, guardVars, identityVars>>
      <3>1. \/ CoreUpdateStatus(d, "Active", stakes[d].amount + received)
            \/ UNCHANGED <<clockVars, identityVars>>
        BY <2>1 DEF DepositStake
      <3> QED BY <1>1, <3>1, CoreUpdateIsACall DEF AgentStatus
    <2>2. CASE (\E amount \in Withdrawals : InitiateWithdrawal(d, caller, amount))
               \/ ClaimWithdrawal(d, caller) \/ DisputeSlash(d, caller)
      BY <1>1, <2>2 DEF InitiateWithdrawal, ClaimWithdrawal, DisputeSlash
    <2>3. CASE OperatorStep(d, caller, HasMinimumStake(d)) /\ UNCHANGED stakingVars
      BY <2>3, OperatorStepIsACall
    <2> QED BY <1>6, <2>1, <2>2, <2>3 DEF OperatorCalls
  <1>7. ASSUME NEW d \in Agents, CommitteeCalls(d) PROVE IdentityNext
    <2>1. ASSUME NEW reporter, NEW victim, NEW evidence, InitiateSlash(d, reporter, victim, evidence)
          PROVE  IdentityNext
      BY <2>1, CoreUpdateIsACall DEF InitiateSlash, AgentStatus
    <2> QED BY <1>7, <2>1, EndingIsACall DEF CommitteeCalls, CancelSlash
  <1>8. ASSUME NEW d \in Agents, AdminCalls(d) \/ AnyonesCalls(d) PROVE IdentityNext
    BY <1>8, EndingIsACall DEF AdminCalls, AnyonesCalls, ResolveDispute, VetoSlash, ExpireDispute, ExpireSlash, ExecuteSlash
  <1>9. ASSUME NEW d \in Agents, NEW score, FinalizeReputation(d, score)
        PROVE  UNCHANGED <<now, guardVars, identityVars>>
    BY <1>1, <1>9 DEF FinalizeReputation
  <1>10. CASE UNCHANGED vars
    BY <1>1, <1>10 DEF vars
  <1> QED BY <1>2, <1>3, <1>4, <1>5, <1>6, <1>7, <1>8, <1>9, <1>10 DEF Next

\* SigvaraStaking.sol is one of the staking cores the registry is specified with: each of its calls makes at most one
\* call of the registry, one that StakingCoreStep or OperatorStep allows.
THEOREM StakingIsACore == Spec => IdentitySpec
  <1>1. Init => \E view \in StakeViews \cup {NoAccount} : IdentityInit(view)
    BY StakingAssumption DEF Init, StakingAssumption
  <1>2. [Next]_vars => [IdentityNext]_<<now, guardVars, identityVars>>
    BY StepsAreCalls
  <1> QED BY <1>1, <1>2, PTL DEF Spec, IdentitySpec

\* So the lists of agents are exact through every slash, sale and exit.
THEOREM AgentsAreListedOnce == Spec => []OperatorIndexExact
  BY StakingIsACore, ListsStayExact, PTL

------------------------------------------------------------------------------
(* The keeper beside the contracts, for any number of agents: it never has *)
(* two transactions in flight, it never loses a live proposal from sight,  *)
(* and the contracts do nothing they would not do without it.              *)

\* The inductive invariant: the keeper's, and that of the contracts under it.
KeeperIInv == SafetyInv /\ KeeperInv

------------------------------------------------------------------------------
(* A step of the composition is a step of the contracts or none.           *)

LEMMA KeeperStepIsChainStep ==
    ASSUME [KeeperNext]_systemVars
    PROVE  [Next]_vars
  <1>1. ASSUME NEW d \in Agents, Mined(d)
        PROVE  [Next]_vars
    <2>1. CASE UNCHANGED vars
      BY <2>1
    <2>2. CASE ExecuteSlash(d)
      BY <2>2 DEF Next, AnyonesCalls
    <2> QED BY <1>1, <2>1, <2>2 DEF Mined
  <1>2. CASE KeeperWorks
    BY <1>2 DEF KeeperWorks, StartRun, FinishRun, Blocked, HearsDispute, HearsUnruled, HearsLapse,
                Forgets, LeavesAlone, DecidesToExecute, Simulates, Sends, Confirms, Unconfirmed,
                Turn, vars
  <1>3. CASE RunFails \/ Restart \/ ChainMoves
    BY <1>3 DEF RunFails, Restart, ChainMoves
  <1>4. CASE UNCHANGED systemVars
    BY <1>4 DEF systemVars
  <1> QED BY <1>1, <1>2, <1>3, <1>4 DEF KeeperNext

LEMMA ContractsStaySafe ==
    ASSUME SafetyInv, [KeeperNext]_systemVars
    PROVE  SafetyInv' /\ StakingTypeOK'
  <1>1. SafetyInv'
    BY KeeperStepIsChainStep, SafetyInvStep
  <1> QED BY <1>1 DEF SafetyInv

\* A transaction of the keeper that lands files nothing.
LEMMA ExecutionFilesNothing ==
    ASSUME StakingTypeOK, NEW e \in Agents, ExecuteSlash(e), NEW d \in Agents, Live(d)'
    PROVE  Live(d)
  <1>1. slashProposals \in [Agents -> SlashProposal]
    BY DEF StakingTypeOK
  <1>2. slashProposals' = [slashProposals EXCEPT ![e].state = "Executed"]
    BY DEF ExecuteSlash, SettleSlash
  <1>3. \A p \in SlashProposal : [p EXCEPT !.state = "Executed"].state = "Executed"
    BY DEF SlashProposal
  <1>4. slashProposals'[d].state = IF d = e THEN "Executed" ELSE slashProposals[d].state
    BY <1>1, <1>2, <1>3
  <1> QED BY <1>4 DEF Live

------------------------------------------------------------------------------
(* What a run does to its memory.                                          *)

HeardOK == heard \subseteq Agents \X (AlertKinds \cup Endings)

\* Nothing is taken off the watch list.
Keeps == mem' \in KeeperMemory /\ Open(mem) \subseteq Open(mem') /\ HeardOK'

LEMMA WatchListType ==
    ASSUME mem \in KeeperMemory, NEW d \in Agents, NEW v \in {"no", "unseen", "seen"}
    PROVE  /\ [mem EXCEPT !.open[d] = v] \in KeeperMemory
           /\ [mem EXCEPT !.open[d] = v].open = [mem.open EXCEPT ![d] = v]
           /\ [mem EXCEPT !.open[d] = v].executed = mem.executed
           /\ [mem EXCEPT !.open[d] = v].alerted = mem.alerted
           /\ mem.open \in [Agents -> {"no", "unseen", "seen"}]
           /\ mem.executed \subseteq Agents
           /\ mem.alerted \in [Agents -> [AlertKinds -> Int]]
  BY DEF KeeperMemory

LEMMA SeenKeeps ==
    ASSUME mem \in KeeperMemory, NEW d \in Agents, mem' = [mem EXCEPT !.open[d] = "seen"]
    PROVE  mem' \in KeeperMemory /\ Open(mem) \subseteq Open(mem')
  <1>1. mem' \in KeeperMemory /\ mem'.open = [mem.open EXCEPT ![d] = "seen"]
    BY WatchListType
  <1>2. mem.open \in [Agents -> {"no", "unseen", "seen"}]
    BY WatchListType
  <1> QED BY <1>1, <1>2 DEF Open

LEMMA AlertKeeps ==
    ASSUME mem \in KeeperMemory, run \in Runs, HeardOK, NEW d \in Agents,
           NEW kind \in AlertKinds, Alert(d, kind)
    PROVE  Keeps
  <1>1. CASE MayAlert(d, kind)
    <2> DEFINE seen == [mem EXCEPT !.open[d] = "seen"]
    <2>1. /\ seen \in KeeperMemory /\ seen.open = [mem.open EXCEPT ![d] = "seen"]
          /\ mem.open \in [Agents -> {"no", "unseen", "seen"}]
      BY WatchListType
    <2>2. mem' = [seen EXCEPT !.alerted[d][kind] = run.at] /\ heard' = heard \cup {<<d, kind>>}
      BY <1>1 DEF Alert
    <2>3. run.at \in Int
      BY DEF Runs
    <2> HIDE DEF seen
    <2>4. mem' \in KeeperMemory /\ mem'.open = seen.open
      BY <2>1, <2>2, <2>3 DEF KeeperMemory
    <2> QED BY <2>1, <2>2, <2>4 DEF Keeps, Open, HeardOK
  <1>2. CASE ~MayAlert(d, kind)
    BY <1>2, SeenKeeps DEF Alert, Keeps, HeardOK
  <1> QED BY <1>1, <1>2

LEMMA RunTypes ==
    ASSUME run \in Runs
    PROVE  /\ \A d \in Agents : [run EXCEPT !.todo = @ \ {d}] \in Runs
           /\ \A phase \in Phases : [run EXCEPT !.phase = phase] \in Runs
           /\ \A receipt \in Receipts : [run EXCEPT !.receipt = receipt] \in Runs
           /\ \A d \in Agents :
                 [run EXCEPT !.phase = "simulating", !.todo = @ \ {d}, !.on = {d}] \in Runs
           /\ [run EXCEPT !.phase = "checking", !.on = {}, !.receipt = "none"] \in Runs
           /\ Idle \in Runs
  BY DEF Runs, Phases, Receipts, Idle

------------------------------------------------------------------------------
(* Every action keeps the invariant.                                       *)

\* Whatever forgets nothing and sends nothing.
LEMMA KeepingIsSafe ==
    ASSUME KeeperIInv, StakingTypeOK', Keeps, run' \in Runs,
           UNCHANGED <<vars, unscanned, disk, skip, inFlight>>
    PROVE  KeeperInv'
  <1>1. \A d \in Agents : Live(d)' <=> Live(d)
    BY DEF Live, vars, stakingVars, slashVars
  <1>2. KeeperTypeOK'
    BY DEF KeeperIInv, KeeperInv, KeeperTypeOK, Keeps, HeardOK
  <1>3. LiveIsWatched'
    BY <1>1 DEF KeeperIInv, KeeperInv, LiveIsWatched, Keeps, Open
  <1>4. OneInFlight'
    BY DEF KeeperIInv, KeeperInv, OneInFlight
  <1> QED BY <1>2, <1>3, <1>4 DEF KeeperInv

\* A step that leaves the memory alone forgets nothing.
LEMMA UntouchedKeeps ==
    ASSUME KeeperIInv, UNCHANGED <<mem, heard>>
    PROVE  Keeps
  BY DEF KeeperIInv, KeeperInv, KeeperTypeOK, Keeps, HeardOK, Open

LEMMA KeeperParts ==
    ASSUME KeeperIInv
    PROVE  /\ StakingTypeOK /\ mem \in KeeperMemory /\ disk \in KeeperMemory /\ run \in Runs
           /\ unscanned \subseteq Agents /\ skip \subseteq Agents
           /\ inFlight \in [Agents -> Nat] /\ HeardOK /\ now \in Nat
  BY NumberTypes DEF KeeperIInv, KeeperInv, KeeperTypeOK, HeardOK

LEMMA TurnsKeep ==
    ASSUME KeeperIInv, StakingTypeOK', NEW d \in Agents,
           HearsDispute(d) \/ HearsUnruled(d) \/ HearsLapse(d) \/ LeavesAlone(d)
    PROVE  KeeperInv'
  <1>1. /\ run' = [run EXCEPT !.todo = @ \ {d}]
        /\ UNCHANGED <<vars, unscanned, disk, skip, inFlight>>
    BY DEF HearsDispute, HearsUnruled, HearsLapse, LeavesAlone, Turn
  <1>2. run' \in Runs
    BY <1>1, KeeperParts, RunTypes
  <1>3. \/ \E kind \in AlertKinds : Alert(d, kind)
        \/ mem' = [mem EXCEPT !.open[d] = "seen"] /\ UNCHANGED heard
    BY DEF HearsDispute, HearsUnruled, HearsLapse, LeavesAlone, AlertKinds
  <1>4. Keeps
    <2>1. CASE \E kind \in AlertKinds : Alert(d, kind)
      BY <2>1, KeeperParts, AlertKeeps
    <2>2. CASE mem' = [mem EXCEPT !.open[d] = "seen"] /\ UNCHANGED heard
      BY <2>2, KeeperParts, SeenKeeps DEF Keeps, HeardOK
    <2> QED BY <1>3, <2>1, <2>2
  <1> QED BY <1>1, <1>2, <1>4, KeepingIsSafe

LEMMA ExecutingKeeps ==
    ASSUME KeeperIInv, StakingTypeOK', NEW d \in Agents,
           DecidesToExecute(d) \/ Simulates(d) \/ Confirms(d) \/ Unconfirmed(d)
    PROVE  KeeperInv'
  <1>1. UNCHANGED <<vars, unscanned, disk, skip, inFlight>>
    BY DEF DecidesToExecute, Simulates, Confirms, Unconfirmed
  <1>2. run' \in Runs
    BY KeeperParts, RunTypes
       DEF DecidesToExecute, Simulates, Confirms, Unconfirmed, BackToLoop, Phases
  <1>3. CASE DecidesToExecute(d)
    BY <1>3, KeeperParts, SeenKeeps, <1>1, <1>2, KeepingIsSafe DEF DecidesToExecute, Keeps, HeardOK
  <1>4. CASE Simulates(d) \/ Unconfirmed(d)
    <2>1. Alert(d, "refused") \/ Alert(d, "failed") \/ UNCHANGED <<mem, heard>>
      BY <1>4 DEF Simulates, Unconfirmed
    <2>2. Keeps
      BY <2>1, KeeperParts, AlertKeeps, UntouchedKeeps DEF AlertKinds
    <2> QED BY <1>1, <1>2, <2>2, KeepingIsSafe
  <1>5. CASE Confirms(d)
    <2>1. /\ mem' = [mem EXCEPT !.executed = @ \cup {d}]
          /\ heard' = heard \cup {<<d, "executed">>}
      BY <1>5 DEF Confirms
    <2>2. mem' \in KeeperMemory /\ mem'.open = mem.open
      BY <2>1, KeeperParts DEF KeeperMemory
    <2>3. Keeps
      BY <2>1, <2>2, KeeperParts DEF Keeps, HeardOK, Open, Endings
    <2> QED BY <1>1, <1>2, <2>3, KeepingIsSafe
  <1> QED BY <1>3, <1>4, <1>5

\* What is forgotten was settled or dropped.
LEMMA ForgettingKeeps ==
    ASSUME KeeperIInv, StakingTypeOK', NEW d \in Agents, Forgets(d)
    PROVE  KeeperInv'
  <1>1. /\ run' = [run EXCEPT !.todo = @ \ {d}] /\ ~Live(d)
        /\ UNCHANGED <<vars, unscanned, disk, skip, inFlight, faults>>
        /\ mem' = [mem EXCEPT !.open[d] = "no", !.executed = @ \ {d}]
    BY DEF Forgets, Turn
  <1>2. mem' \in KeeperMemory /\ Open(mem) \ {d} \subseteq Open(mem')
    <2> DEFINE shut == [mem EXCEPT !.open[d] = "no"]
    <2>1. /\ shut \in KeeperMemory /\ shut.open = [mem.open EXCEPT ![d] = "no"]
          /\ mem.open \in [Agents -> {"no", "unseen", "seen"}]
      BY KeeperParts, WatchListType
    <2>2. mem' = [shut EXCEPT !.executed = @ \ {d}]
      BY <1>1
    <2> HIDE DEF shut
    <2>3. mem' \in KeeperMemory /\ mem'.open = shut.open
      BY <2>1, <2>2 DEF KeeperMemory
    <2> QED BY <2>1, <2>3 DEF Open
  <1>3. HeardOK'
    BY KeeperParts DEF Forgets, HeardOK, Endings
  <1>4. \A e \in Agents : Live(e)' <=> Live(e)
    BY <1>1 DEF Live, vars, stakingVars, slashVars
  <1>5. run' \in Runs
    BY <1>1, KeeperParts, RunTypes
  <1>6. KeeperTypeOK'
    BY <1>1, <1>2, <1>3, <1>5, KeeperParts DEF KeeperTypeOK, HeardOK
  <1>7. LiveIsWatched'
    BY <1>1, <1>2, <1>4 DEF KeeperIInv, KeeperInv, LiveIsWatched, Open
  <1>8. OneInFlight'
    BY <1>1 DEF KeeperIInv, KeeperInv, OneInFlight
  <1> QED BY <1>6, <1>7, <1>8 DEF KeeperInv

\* What the scan finds is watched, in memory and on disk, before it is no longer ahead.
LEMMA ScanKeeps ==
    ASSUME KeeperIInv, StakingTypeOK', StartRun
    PROVE  KeeperInv'
  <1>1. PICK found \in SUBSET unscanned :
            /\ LET scanned == [mem EXCEPT !.open =
                       [d \in Agents |-> IF d \in found /\ @[d] = "no" THEN "unseen" ELSE @[d]]]
               IN  /\ mem' = scanned
                   /\ disk' = SavedByScan(scanned)
                   /\ run' = [Idle EXCEPT !.phase = "checking", !.at = now, !.todo = Open(scanned)]
            /\ unscanned' = unscanned \ found
    BY DEF StartRun
  <1>2. UNCHANGED <<vars, skip, inFlight, heard, faults>>
    BY DEF StartRun
  <1> DEFINE listed ==
          [d \in Agents |-> IF d \in found /\ mem.open[d] = "no" THEN "unseen" ELSE mem.open[d]]
  <1>3. mem' = [mem EXCEPT !.open = listed] /\ disk' = mem'
    BY <1>1 DEF SavedByScan
  <1>4. /\ mem.open \in [Agents -> {"no", "unseen", "seen"}]
        /\ listed \in [Agents -> {"no", "unseen", "seen"}]
        /\ \A d \in Agents : listed[d] = "no" <=> d \notin found /\ mem.open[d] = "no"
    BY KeeperParts DEF KeeperMemory
  <1> HIDE DEF listed
  <1>5. mem' \in KeeperMemory /\ mem'.open = listed
    BY <1>3, <1>4, KeeperParts DEF KeeperMemory
  <1>6. Open(mem') = Open(mem) \cup found /\ Open(mem') \subseteq Agents
    BY <1>4, <1>5, KeeperParts DEF Open
  <1>7. run' = [Idle EXCEPT !.phase = "checking", !.at = now, !.todo = Open(mem')]
    BY <1>1, <1>3 DEF Open
  <1>8. run' \in Runs
    BY <1>6, <1>7, KeeperParts DEF Runs, Idle, Phases, Receipts
  <1>9. KeeperTypeOK'
    BY <1>1, <1>2, <1>3, <1>5, <1>8, KeeperParts DEF KeeperTypeOK, HeardOK
  <1>10. \A d \in Agents : Live(d)' <=> Live(d)
    BY <1>2 DEF Live, vars, stakingVars, slashVars
  <1>11. Open(disk') = Open(mem')
    BY <1>3 DEF Open
  <1>12. LiveIsWatched'
    <2> SUFFICES ASSUME NEW d \in Agents, Live(d)'
                 PROVE  d \in unscanned' \/ d \in Open(mem') \cap Open(disk')
      BY DEF LiveIsWatched, Open
    <2>1. d \in unscanned \/ d \in Open(mem)
      BY <1>10 DEF KeeperIInv, KeeperInv, LiveIsWatched
    <2> QED BY <1>1, <1>6, <1>11, <2>1
  <1>13. OneInFlight'
    BY <1>2 DEF KeeperIInv, KeeperInv, OneInFlight
  <1> QED BY <1>9, <1>12, <1>13 DEF KeeperInv

\* A run that ends, fails or is cut short leaves memory and disk with every live proposal.
LEMMA EndingsKeep ==
    ASSUME KeeperIInv, StakingTypeOK', FinishRun \/ RunFails \/ Restart \/ Blocked
    PROVE  KeeperInv'
  <1>1. UNCHANGED <<vars, unscanned, inFlight, heard>>
    BY DEF FinishRun, RunFails, Restart, Blocked
  <1>2. run' \in Runs
    BY KeeperParts, RunTypes DEF FinishRun, RunFails, Restart, Blocked, BackToLoop
  <1>3. {mem', disk'} \subseteq {mem, disk} /\ skip' \subseteq Agents
    BY KeeperParts DEF FinishRun, RunFails, Restart, Blocked
  <1>4. KeeperTypeOK'
    BY <1>1, <1>2, <1>3, KeeperParts DEF KeeperTypeOK, HeardOK
  <1>5. \A d \in Agents : Live(d)' <=> Live(d)
    BY <1>1 DEF Live, vars, stakingVars, slashVars
  <1>6. LiveIsWatched'
    BY <1>1, <1>3, <1>5 DEF KeeperIInv, KeeperInv, LiveIsWatched, Open
  <1>7. OneInFlight'
    BY <1>1 DEF KeeperIInv, KeeperInv, OneInFlight
  <1> QED BY <1>4, <1>6, <1>7 DEF KeeperInv

\* Nothing is sent beside a transaction in flight, so the one sent is the only one.
LEMMA SendingKeeps ==
    ASSUME KeeperIInv, StakingTypeOK', NEW d \in Agents, Sends(d)
    PROVE  KeeperInv'
  <1>1. /\ UNCHANGED <<vars, unscanned, mem, disk, skip, heard>>
        /\ inFlight' = [inFlight EXCEPT ![d] = @ + 1]
        /\ \A e \in Agents : inFlight[e] = 0
        /\ run' = [run EXCEPT !.phase = "waiting"]
    BY DEF Sends, NoneInFlight, RecordedAtSend
  <1>2. run' \in Runs
    BY <1>1, KeeperParts, RunTypes DEF Phases
  <1>3. KeeperTypeOK'
    BY <1>1, <1>2, KeeperParts DEF KeeperTypeOK, HeardOK
  <1>4. \A e \in Agents : Live(e)' <=> Live(e)
    BY <1>1 DEF Live, vars, stakingVars, slashVars
  <1>5. LiveIsWatched'
    BY <1>1, <1>4 DEF KeeperIInv, KeeperInv, LiveIsWatched, Open
  <1>6. \A e \in Agents : inFlight'[e] = IF e = d THEN 1 ELSE 0
    BY <1>1, KeeperParts
  <1>7. OneInFlight'
    BY <1>6 DEF OneInFlight
  <1> QED BY <1>3, <1>5, <1>7 DEF KeeperInv

\* Landing takes a transaction out of flight and leaves the watch list alone.
LEMMA LandingKeeps ==
    ASSUME KeeperIInv, StakingTypeOK', NEW d \in Agents, Mined(d)
    PROVE  KeeperInv'
  <1>1. /\ inFlight[d] > 0 /\ inFlight' = [inFlight EXCEPT ![d] = @ - 1]
        /\ UNCHANGED <<unscanned, mem, disk, skip, heard>>
        /\ ExecuteSlash(d) \/ UNCHANGED vars
    BY DEF Mined
  <1>2. run' \in Runs
    BY KeeperParts, RunTypes DEF Mined, Receipts
  <1>3. \A e \in Agents : inFlight'[e] \in Nat /\ inFlight'[e] <= inFlight[e]
    BY <1>1, KeeperParts
  <1>4. inFlight' \in [Agents -> Nat]
    BY <1>1, <1>3, KeeperParts
  <1>5. KeeperTypeOK'
    BY <1>1, <1>2, <1>4, KeeperParts DEF KeeperTypeOK, HeardOK
  <1>6. \A e \in Agents : Live(e)' => Live(e)
    BY <1>1, KeeperParts, ExecutionFilesNothing DEF Live, vars, stakingVars, slashVars
  <1>7. LiveIsWatched'
    BY <1>1, <1>6 DEF KeeperIInv, KeeperInv, LiveIsWatched, Open
  <1>8. OneInFlight'
    BY <1>3, KeeperParts DEF KeeperIInv, KeeperInv, OneInFlight
  <1> QED BY <1>5, <1>7, <1>8 DEF KeeperInv

\* A filing puts its agent ahead of the scan cursor in the same step.
LEMMA ChainKeeps ==
    ASSUME KeeperIInv, StakingTypeOK', ChainMoves
    PROVE  KeeperInv'
  <1>1. /\ unscanned' = unscanned \cup JustFiled
        /\ heard' \subseteq heard
        /\ UNCHANGED <<mem, disk, run, skip, inFlight>>
    BY DEF ChainMoves
  <1>2. JustFiled \subseteq Agents /\ \A d \in Agents : Live(d)' => Live(d) \/ d \in JustFiled
    BY DEF JustFiled
  <1>3. KeeperTypeOK'
    BY <1>1, <1>2, KeeperParts DEF KeeperTypeOK, HeardOK
  <1>4. LiveIsWatched'
    BY <1>1, <1>2 DEF KeeperIInv, KeeperInv, LiveIsWatched, Open
  <1>5. OneInFlight'
    BY <1>1 DEF KeeperIInv, KeeperInv, OneInFlight
  <1> QED BY <1>3, <1>4, <1>5 DEF KeeperInv

------------------------------------------------------------------------------
(* The theorems.                                                           *)

LEMMA KeeperIInvInit == KeeperInit => KeeperIInv
  <1> SUFFICES ASSUME KeeperInit PROVE KeeperIInv
    OBVIOUS
  <1>1. SafetyInv /\ StakingTypeOK
    BY SafetyInvInit DEF KeeperInit, SafetyInv
  <1>2. BlankMemory \in KeeperMemory
    <2>1. ALERT_AGAIN \in Nat
      BY KeeperAssumption DEF KeeperAssumption
    <2>2. -ALERT_AGAIN \in Int
      BY <2>1
    <2> QED BY <2>2 DEF BlankMemory, KeeperMemory
  <1>3. Idle \in Runs
    BY DEF Idle, Runs, Phases, Receipts
  <1>4. KeeperTypeOK
    BY <1>1, <1>2, <1>3 DEF KeeperInit, KeeperTypeOK
  <1>5. LiveIsWatched
    BY DEF KeeperInit, Init, StakingInit, NoProposal, LiveIsWatched, Live
  <1>6. OneInFlight
    BY DEF KeeperInit, OneInFlight
  <1> QED BY <1>1, <1>4, <1>5, <1>6 DEF KeeperIInv, KeeperInv

LEMMA KeeperIInvStep == KeeperIInv /\ [KeeperNext]_systemVars => KeeperIInv'
  <1> SUFFICES ASSUME KeeperIInv, [KeeperNext]_systemVars PROVE KeeperIInv'
    OBVIOUS
  <1>1. SafetyInv' /\ StakingTypeOK'
    BY ContractsStaySafe DEF KeeperIInv
  <1>2. CASE StartRun
    BY <1>1, <1>2, ScanKeeps DEF KeeperIInv
  <1>3. CASE FinishRun \/ RunFails \/ Restart \/ Blocked
    BY <1>1, <1>3, EndingsKeep DEF KeeperIInv
  <1>4. ASSUME NEW d \in Agents,
               \/ HearsDispute(d) \/ HearsUnruled(d) \/ HearsLapse(d) \/ LeavesAlone(d)
               \/ DecidesToExecute(d) \/ Simulates(d) \/ Confirms(d) \/ Unconfirmed(d)
               \/ Forgets(d) \/ Sends(d) \/ Mined(d)
        PROVE  KeeperIInv'
    BY <1>1, <1>4, TurnsKeep, ExecutingKeeps, ForgettingKeeps, SendingKeeps, LandingKeeps
       DEF KeeperIInv
  <1>5. CASE ChainMoves
    BY <1>1, <1>5, ChainKeeps DEF KeeperIInv
  <1>6. CASE UNCHANGED systemVars
    <2>1. UNCHANGED <<vars, unscanned, mem, disk, run, skip, inFlight, heard>>
      BY <1>6 DEF systemVars, keeperVars
    <2>2. Keeps /\ run' \in Runs
      BY <2>1, UntouchedKeeps, KeeperParts
    <2> QED BY <1>1, <2>1, <2>2, KeepingIsSafe DEF KeeperIInv
  <1> QED BY <1>2, <1>3, <1>4, <1>5, <1>6 DEF KeeperNext, KeeperWorks

\* The keeper has one transaction in flight at most and every live proposal in sight, whatever fails, times
\* out, restarts or lands late, for any number of agents (keeper.js, runKeeperOnce).
THEOREM KeeperLosesNothing == KeeperSpec => []KeeperInv
  <1>1. KeeperIInv => KeeperInv
    BY DEF KeeperIInv
  <1> QED BY <1>1, KeeperIInvInit, KeeperIInvStep, PTL DEF KeeperSpec

\* Beside the keeper the contracts do what they do without it, step by step: what is proved of Spec
\* holds of the composition (keeper.js only ever calls executeSlash).
THEOREM KeeperOnlyCalls == KeeperSpec => Spec
  <1>1. KeeperInit => Init
    BY DEF KeeperInit
  <1>2. [KeeperNext]_systemVars => [Next]_vars
    BY KeeperStepIsChainStep
  <1> QED BY <1>1, <1>2, PTL DEF KeeperSpec, Spec
==============================================================================
