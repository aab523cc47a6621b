-------------------------- MODULE SigvaraEpochProofs --------------------------
(***************************************************************************)
(* Proofs about primary and checker, for any window, grace, length of an   *)
(* epoch and number of faults, and whether or not the slot may change      *)
(* between the checker's read and its probe: fees buy proposals, what the  *)
(* checker makes live it agreed with, and a proposal in good standing      *)
(* is not written over.  Where the slot does not change in between, the    *)
(* checker leaves an empty slot to the primary for the grace.              *)
(***************************************************************************)
EXTENDS SigvaraEpoch, SequenceTheorems, TLAPS

------------------------------------------------------------------------------
(* The invariant.                                                          *)

Slots == [exists : BOOLEAN, by : Operators, score : Scores, age : Nat]
Kinds == {"finalize", "charge", "propose"}
Transactions == [kind : Kinds, score : Scores, age : 0..MaxStuck, replaced : BOOLEAN]
Results == {"none", "landed", "reverted", "unconfirmed"}
PrimaryPhases == {"idle", "guard", "finalizing", "score", "charging", "propose", "proposing"}
CheckerPhases == {"idle", "read", "decide", "finalizing", "proposing"}

QueueTypes == queue \in [Operators -> Seq(Transactions)]

PrimaryStates ==
    [phase : PrimaryPhases, action : {"propose", "finalize", "skip"}, epochAge : Nat,
     stopped : BOOLEAN, result : Results]
CheckerStates ==
    [phase : CheckerPhases, epochAge : 0..MaxEpoch, read : Slots, stranded : BOOLEAN, result : Results,
     lookAge : Nat, emptySeen : Nat, coveringLate : BOOLEAN]

EpochTypes ==
    /\ slot \in Slots /\ lastUpdated \in Nat /\ live \in Scores \cup {"none"}
    /\ agent \in {"bonded", "unbonded", "slashed"} /\ authorized \in BOOLEAN /\ charged \in BOOLEAN
    /\ QueueTypes
    /\ primary \in PrimaryStates
    /\ checker \in CheckerStates
    /\ faults \in Nat /\ unscored \in Nat
    /\ emptied \in [age : Nat, by : Operators \cup {"none", "slash", "committee"}]

InQueue(kind) == \E i \in DOMAIN queue["P"] : queue["P"][i].kind = kind
LastOf(q) == q[Len(q)]
Sent(phase) == CASE phase = "finalizing" -> "finalize" [] phase = "charging" -> "charge" [] OTHER -> "propose"

OneOfAKind ==
    \A i, j \in DOMAIN queue["P"] :
        queue["P"][i].kind = queue["P"][j].kind /\ queue["P"][i].kind \in {"charge", "propose"} => i = j

\* What the primary waits for is the last it sent; it has one charge and one proposal out at most, and an epoch
\* that found a transaction outstanding pays for nothing and proposes nothing.
QueueIsSound ==
    /\ primary.phase \in Awaits /\ primary.result = "none" =>
            queue["P"] # <<>> /\ LastOf(queue["P"]).kind = Sent(primary.phase)
    /\ OneOfAKind
    /\ primary.phase \in {"guard", "finalizing", "score"} /\ ~primary.stopped => ~InQueue("charge")
    /\ primary.phase \in {"guard", "finalizing", "score", "charging", "propose"} /\ ~primary.stopped => ~InQueue("propose")
    /\ primary.phase \in {"charging", "propose", "proposing"} => ~primary.stopped
    /\ \A i \in DOMAIN queue["C"] : queue["C"][i].kind # "charge"

\* Charges taken and under way since the primary's last proposal.
Owed == IF InQueue("charge") THEN unscored + 1 ELSE unscored

\* Each was followed by a fault, but for one whose proposal is still going to land.
FeesAreUsed ==
    \/ Owed <= faults
    \/ /\ Owed <= faults + 1 /\ MayPropose("P")
       /\ \/ primary.phase = "charging" /\ primary.result # "unconfirmed"
          \/ primary.phase = "propose"
          \/ primary.phase = "proposing" /\ primary.result = "none"
       /\ primary.result = "none" /\ queue["P"] # <<>> /\ primary.phase # "propose" => ~LastOf(queue["P"]).replaced

\* What a checker is going to finalize it agreed with, or it came too late to be final when that lands.
ChecksAreTrue ==
    /\ checker.phase = "decide" /\ slot.exists /\ slot.age > checker.epochAge =>
            checker.read.exists /\ checker.read.score = slot.score
    /\ \A i \in DOMAIN queue["C"] :
            queue["C"][i].kind = "finalize" /\ slot.exists => slot.score = "good" \/ slot.age <= queue["C"][i].age

\* The slot holds the primary's own proposal though it is about to propose: its authority was lost.
OwnIsLost ==
    slot.exists /\ slot.by = "P" => slot.age >= W /\ faults >= 1 /\ (authorized => faults >= 2)

WaitsItsOwnOut ==
    /\ ~authorized => faults >= 1
    /\ primary.phase = "guard" /\ primary.action = "propose" /\ ~primary.stopped => ~(slot.exists /\ slot.by = "P")
    /\ primary.phase = "finalizing" /\ primary.result = "landed" /\ ~primary.stopped => ~(slot.exists /\ slot.by = "P")
    /\ primary.phase \in {"score", "charging", "propose"} /\ ~primary.stopped => OwnIsLost
    /\ InQueue("propose") => OwnIsLost

EpochIInv == EpochTypes /\ QueueIsSound /\ FeesAreUsed /\ ChecksAreTrue /\ WaitsItsOwnOut /\ EpochInv

------------------------------------------------------------------------------
(* Queues.                                                                 *)

LEMMA Appended ==
    ASSUME NEW T, NEW q \in Seq(T), NEW e \in T
    PROVE  /\ Append(q, e) \in Seq(T) /\ Append(q, e) # <<>>
           /\ Len(Append(q, e)) = Len(q) + 1 /\ DOMAIN Append(q, e) = 1..(Len(q) + 1)
           /\ \A i \in 1..Len(q) : Append(q, e)[i] = q[i]
           /\ Append(q, e)[Len(q) + 1] = e
           /\ DOMAIN q = 1..Len(q) /\ Len(q) \in Nat
  OBVIOUS

LEMMA Shortened ==
    ASSUME NEW T, NEW q \in Seq(T), q # <<>>
    PROVE  /\ Tail(q) \in Seq(T) /\ Head(q) = q[1] /\ Head(q) \in T
           /\ Len(q) \in Nat \ {0} /\ Len(Tail(q)) = Len(q) - 1
           /\ DOMAIN q = 1..Len(q) /\ DOMAIN Tail(q) = 1..(Len(q) - 1)
           /\ \A i \in 1..(Len(q) - 1) : Tail(q)[i] = q[i + 1]
           /\ Tail(q) # <<>> <=> Len(q) # 1
<1>1. Len(q) \in Nat \ {0} /\ DOMAIN q = 1..Len(q) /\ Head(q) = q[1] /\ q[1] \in T
  OBVIOUS
<1>2. Tail(q) \in Seq(T) /\ Len(Tail(q)) = Len(q) - 1
  OBVIOUS
<1>3. DOMAIN Tail(q) = 1..(Len(q) - 1)
  BY <1>1, <1>2
<1>4. \A i \in 1..(Len(q) - 1) : Tail(q)[i] = q[i + 1]
  OBVIOUS
<1>5. Tail(q) # <<>> <=> Len(q) # 1
  <2>1. Len(<<>>) = 0 /\ (Tail(q) # <<>> => Len(Tail(q)) # 0)
    BY <1>2, EmptySeq
  <2>2. CASE Len(q) = 1
    BY <1>2, <2>1, <2>2
  <2>3. CASE Len(q) # 1
    <3>1. Len(Tail(q)) # 0
      BY <1>1, <1>2, <2>3
    <3> QED BY <2>1, <2>3, <3>1
  <2> QED BY <2>2, <2>3
<1> QED
  BY <1>1, <1>2, <1>3, <1>4, <1>5

LEMMA TransactionCopies ==
    ASSUME NEW t \in Transactions
    PROVE  /\ t.kind \in Kinds /\ t.score \in Scores /\ t.age \in 0..MaxStuck /\ t.replaced \in BOOLEAN
           /\ LET e == [t EXCEPT !.replaced = TRUE] IN
              e \in Transactions /\ e.kind = t.kind /\ e.age = t.age /\ e.replaced
           /\ LET e == [t EXCEPT !.age = @ + 1] IN
              /\ e = [kind |-> t.kind, score |-> t.score, age |-> t.age + 1, replaced |-> t.replaced]
              /\ t.age + 1 \in 0..MaxStuck => e \in Transactions
<1>1. t = [kind |-> t.kind, score |-> t.score, age |-> t.age, replaced |-> t.replaced]
  BY Zenon DEF Transactions
<1>2. t.kind \in Kinds /\ t.score \in Scores /\ t.age \in 0..MaxStuck /\ t.replaced \in BOOLEAN
  BY Zenon DEF Transactions
<1>3. [t EXCEPT !.replaced = TRUE] \in Transactions
  BY DEF Transactions
<1>4. [t EXCEPT !.replaced = TRUE].kind = t.kind /\ [t EXCEPT !.replaced = TRUE].age = t.age
  BY DEF Transactions
<1>5. [t EXCEPT !.replaced = TRUE].replaced
  BY Zenon DEF Transactions
<1>6. [t EXCEPT !.age = @ + 1] = [kind |-> t.kind, score |-> t.score, age |-> t.age + 1, replaced |-> t.replaced]
  BY DEF Transactions
<1>7. t.age + 1 \in 0..MaxStuck => [t EXCEPT !.age = @ + 1] \in Transactions
  BY <1>2, <1>6, Zenon DEF Transactions
<1> QED
  BY <1>2, <1>3, <1>4, <1>5, <1>6, <1>7, Zenon

LEMMA Replaced ==
    ASSUME EpochAssumption, NEW q \in Seq(Transactions), q # <<>>
    PROVE  /\ Replacement(q) \in Seq(Transactions) /\ Replacement(q) # <<>>
           /\ Len(Replacement(q)) = Len(q) /\ Len(q) \in Nat \ {0}
           /\ DOMAIN q = 1..Len(q) /\ DOMAIN Replacement(q) = 1..Len(q)
           /\ \A i \in 1..Len(q) : Replacement(q)[i].kind = q[i].kind /\ Replacement(q)[i].age = q[i].age
           /\ Replacement(q)[Len(q)].replaced
<1> DEFINE e == [q[Len(q)] EXCEPT !.replaced = TRUE]
           r == [q EXCEPT ![Len(q)] = e]
<1>1. Len(q) \in Nat \ {0} /\ DOMAIN q = 1..Len(q) /\ \A i \in 1..Len(q) : q[i] \in Transactions
  BY EmptySeq, LenProperties, ElementOfSeq
<1>2. e \in Transactions /\ e.replaced /\ e.kind = q[Len(q)].kind /\ e.age = q[Len(q)].age
  <2>1. q[Len(q)] \in Transactions
    BY <1>1
  <2> QED BY <2>1, TransactionCopies, Zenon
<1>3. Replacement(q) = r
  BY DEF Replacement
<1>4. r \in Seq(Transactions) /\ Len(r) = Len(q) /\ \A j \in 1..Len(q) : r[j] = IF j = Len(q) THEN e ELSE q[j]
  BY <1>1, <1>2, ExceptSeq
<1>5. DOMAIN r = 1..Len(q) /\ r # <<>>
  BY <1>1, <1>4, EmptySeq, LenProperties
<1>6. r[Len(q)].replaced
  BY <1>1, <1>2, <1>4
<1>7. ASSUME NEW i \in 1..Len(q)
      PROVE  r[i].kind = q[i].kind /\ r[i].age = q[i].age
  BY <1>1, <1>2, <1>4
<1> HIDE DEF e, r
<1> QED
  BY <1>1, <1>3, <1>4, <1>5, <1>6, <1>7, Zenon

Aged(q) == [i \in 1..Len(q) |-> [q[i] EXCEPT !.age = @ + 1]]

LEMMA AgedType ==
    ASSUME EpochAssumption, NEW q \in Seq(Transactions), \A i \in 1..Len(q) : q[i].age < MaxStuck
    PROVE  /\ Aged(q) \in Seq(Transactions) /\ (Aged(q) # <<>> <=> q # <<>>)
           /\ Len(Aged(q)) = Len(q) /\ Len(q) \in Nat
           /\ DOMAIN q = 1..Len(q) /\ DOMAIN Aged(q) = 1..Len(q)
           /\ \A i \in 1..Len(q) :
                  /\ Aged(q)[i].kind = q[i].kind /\ Aged(q)[i].age = q[i].age + 1
                  /\ Aged(q)[i].replaced = q[i].replaced /\ q[i] \in Transactions
<1>1. Len(q) \in Nat /\ DOMAIN q = 1..Len(q) /\ \A i \in 1..Len(q) : q[i] \in Transactions
  BY LenProperties, ElementOfSeq
<1>2. ASSUME NEW i \in 1..Len(q)
      PROVE  LET e == [q[i] EXCEPT !.age = @ + 1] IN
             /\ e \in Transactions /\ e.kind = q[i].kind /\ e.age = q[i].age + 1 /\ e.replaced = q[i].replaced
             /\ q[i] \in Transactions
  <2> DEFINE e == [q[i] EXCEPT !.age = @ + 1]
  <2>1. q[i] \in Transactions
    BY <1>1
  <2>2. /\ e = [kind |-> q[i].kind, score |-> q[i].score, age |-> q[i].age + 1, replaced |-> q[i].replaced]
        /\ q[i].kind \in Kinds /\ q[i].score \in Scores /\ q[i].age \in 0..MaxStuck /\ q[i].replaced \in BOOLEAN
    BY <2>1, TransactionCopies, Zenon
  <2>3. q[i].age + 1 \in 0..MaxStuck
    BY <2>2 DEF EpochAssumption
  <2>4. e \in Transactions
    BY <2>2, <2>3, Zenon DEF Transactions
  <2>5. e.kind = q[i].kind /\ e.age = q[i].age + 1 /\ e.replaced = q[i].replaced
    BY <2>2, Zenon
  <2> QED BY <2>1, <2>4, <2>5, Zenon
<1>3. Aged(q) \in Seq(Transactions) /\ Len(Aged(q)) = Len(q) /\ DOMAIN Aged(q) = 1..Len(q)
  <2>1. Aged(q) \in [1..Len(q) -> Transactions]
    BY <1>2 DEF Aged
  <2> QED BY <1>1, <2>1, LenProperties
<1>4. Aged(q) # <<>> <=> q # <<>>
  BY <1>1, <1>3, EmptySeq
<1> QED
  BY <1>1, <1>2, <1>3, <1>4 DEF Aged

------------------------------------------------------------------------------
(* What sending and mining do to a queue.                                  *)

LEMMA SendByPrimary ==
    ASSUME EpochAssumption, QueueTypes, NEW kind \in Kinds, NEW score \in Scores, Send("P", kind, score)
    PROVE  /\ QueueTypes' /\ queue'["C"] = queue["C"]
           /\ queue'["P"] # <<>> /\ LastOf(queue'["P"]).kind = kind /\ ~LastOf(queue'["P"]).replaced
           /\ \A k \in Kinds : InQueue(k)' <=> InQueue(k) \/ k = kind
           /\ OneOfAKind /\ (kind = "finalize" \/ ~InQueue(kind)) => OneOfAKind'
<1> DEFINE q == queue["P"]
           e == [kind |-> kind, score |-> score, age |-> 0, replaced |-> FALSE]
<1>1. q \in Seq(Transactions) /\ e \in Transactions
  BY DEF QueueTypes, Operators, Transactions, EpochAssumption
<1>2. queue' \in [Operators -> Seq(Transactions)] /\ queue'["C"] = queue["C"] /\ queue'["P"] = Append(q, e)
  BY <1>1 DEF Send, QueueTypes, Operators
<1>3. /\ Append(q, e) # <<>> /\ Len(Append(q, e)) = Len(q) + 1 /\ DOMAIN Append(q, e) = 1..(Len(q) + 1)
      /\ \A i \in 1..Len(q) : Append(q, e)[i] = q[i]
      /\ Append(q, e)[Len(q) + 1] = e
      /\ DOMAIN q = 1..Len(q) /\ Len(q) \in Nat
  BY <1>1, Appended
<1> HIDE DEF q
<1>4. ASSUME NEW k \in Kinds
      PROVE  InQueue(k)' <=> InQueue(k) \/ k = kind
  <2>1. InQueue(k)' <=> \E i \in 1..(Len(q) + 1) : Append(q, e)[i].kind = k
    BY <1>2, <1>3 DEF InQueue
  <2>2. InQueue(k) <=> \E i \in 1..Len(q) : q[i].kind = k
    BY <1>3 DEF InQueue, q
  <2>3. \A i \in 1..(Len(q) + 1) : i \in 1..Len(q) \/ i = Len(q) + 1
    BY <1>3
  <2>4. Len(q) + 1 \in 1..(Len(q) + 1) /\ \A i \in 1..Len(q) : i \in 1..(Len(q) + 1)
    BY <1>3
  <2>5. e.kind = kind
    OBVIOUS
  <2> HIDE DEF e
  <2> QED BY <1>3, <2>1, <2>2, <2>3, <2>4, <2>5
<1>5. ASSUME OneOfAKind, kind = "finalize" \/ ~InQueue(kind)
      PROVE  OneOfAKind'
  <2> SUFFICES ASSUME NEW i \in 1..(Len(q) + 1), NEW j \in 1..(Len(q) + 1),
                      Append(q, e)[i].kind = Append(q, e)[j].kind,
                      Append(q, e)[i].kind \in {"charge", "propose"}
               PROVE  i = j
    BY <1>2, <1>3 DEF OneOfAKind
  <2>1. e.kind = kind
    OBVIOUS
  <2>2. \A m \in 1..Len(q), n \in 1..Len(q) : q[m].kind = q[n].kind /\ q[m].kind \in {"charge", "propose"} => m = n
    BY <1>3, <1>5 DEF OneOfAKind, q
  <2>3. kind \in {"charge", "propose"} => \A m \in 1..Len(q) : q[m].kind # kind
    BY <1>3, <1>5 DEF InQueue, q
  <2> HIDE DEF e
  <2>4. CASE i = Len(q) + 1 /\ j = Len(q) + 1
    BY <2>4
  <2>5. CASE i = Len(q) + 1 /\ j \in 1..Len(q)
    BY <1>3, <2>1, <2>3, <2>5
  <2>6. CASE j = Len(q) + 1 /\ i \in 1..Len(q)
    BY <1>3, <2>1, <2>3, <2>6
  <2>7. CASE i \in 1..Len(q) /\ j \in 1..Len(q)
    BY <1>3, <2>2, <2>7
  <2> QED BY <1>3, <2>4, <2>5, <2>6, <2>7
<1>6. LastOf(queue'["P"]) = e
  BY <1>2, <1>3 DEF LastOf
<1>7. e.kind = kind /\ ~e.replaced
  OBVIOUS
<1> HIDE DEF e
<1> QED
  BY <1>2, <1>3, <1>4, <1>5, <1>6, <1>7 DEF QueueTypes

LEMMA SendByChecker ==
    ASSUME EpochAssumption, QueueTypes, NEW kind \in Kinds, NEW score \in Scores, Send("C", kind, score)
    PROVE  /\ QueueTypes' /\ queue'["P"] = queue["P"]
           /\ queue'["C"] # <<>> /\ LastOf(queue'["C"]).kind = kind
           /\ \A i \in DOMAIN queue'["C"] :
                  \/ i \in DOMAIN queue["C"] /\ queue'["C"][i] = queue["C"][i]
                  \/ queue'["C"][i].kind = kind /\ queue'["C"][i].age = 0
<1> DEFINE q == queue["C"]
           e == [kind |-> kind, score |-> score, age |-> 0, replaced |-> FALSE]
<1>1. q \in Seq(Transactions) /\ e \in Transactions
  BY DEF QueueTypes, Operators, Transactions, EpochAssumption
<1>2. queue' \in [Operators -> Seq(Transactions)] /\ queue'["P"] = queue["P"] /\ queue'["C"] = Append(q, e)
  BY <1>1 DEF Send, QueueTypes, Operators
<1>3. /\ Append(q, e) # <<>> /\ Len(Append(q, e)) = Len(q) + 1 /\ DOMAIN Append(q, e) = 1..(Len(q) + 1)
      /\ \A i \in 1..Len(q) : Append(q, e)[i] = q[i]
      /\ Append(q, e)[Len(q) + 1] = e
      /\ DOMAIN q = 1..Len(q) /\ Len(q) \in Nat
  <2> HIDE DEF q, e
  <2> QED BY <1>1, Appended
<1>4. e.kind = kind /\ e.age = 0
  OBVIOUS
<1> HIDE DEF e, q
<1>5. ASSUME NEW i \in 1..(Len(q) + 1)
      PROVE  \/ i \in DOMAIN q /\ Append(q, e)[i] = q[i]
             \/ Append(q, e)[i].kind = kind /\ Append(q, e)[i].age = 0
  BY <1>3, <1>4
<1>6. queue'["C"] # <<>> /\ LastOf(queue'["C"]).kind = kind
  BY <1>2, <1>3, <1>4 DEF LastOf
<1> QED
  BY <1>2, <1>3, <1>5, <1>6 DEF QueueTypes, q

LEMMA MinedByPrimary ==
    ASSUME EpochAssumption, QueueTypes, queue["P"] # <<>>, queue' = [queue EXCEPT !["P"] = Tail(@)]
    PROVE  /\ QueueTypes' /\ queue'["C"] = queue["C"] /\ Head(queue["P"]) \in Transactions
           /\ InQueue(Head(queue["P"]).kind)
           /\ \A k \in Kinds : InQueue(k)' => InQueue(k)
           /\ \A k \in Kinds : InQueue(k) /\ k # Head(queue["P"]).kind => InQueue(k)'
           /\ OneOfAKind => OneOfAKind'
           /\ \A k \in {"charge", "propose"} : OneOfAKind /\ Head(queue["P"]).kind = k => ~InQueue(k)'
           /\ Len(queue["P"]) = 1 => LastOf(queue["P"]) = Head(queue["P"]) /\ queue'["P"] = <<>>
           /\ Len(queue["P"]) # 1 => queue'["P"] # <<>> /\ LastOf(queue'["P"]) = LastOf(queue["P"])
           /\ OneOfAKind /\ LastOf(queue["P"]).kind \in {"charge", "propose"}
                  /\ LastOf(queue["P"]).kind = Head(queue["P"]).kind => Len(queue["P"]) = 1
<1> DEFINE q == queue["P"]
           h == Head(q)
<1>1. q \in Seq(Transactions)
  BY DEF QueueTypes, Operators
<1>2. queue' \in [Operators -> Seq(Transactions)] /\ queue'["C"] = queue["C"] /\ queue'["P"] = Tail(q)
  BY <1>1, Shortened DEF QueueTypes, Operators
<1>3. /\ h = q[1] /\ h \in Transactions
      /\ Len(q) \in Nat \ {0} /\ Len(Tail(q)) = Len(q) - 1
      /\ DOMAIN q = 1..Len(q) /\ DOMAIN Tail(q) = 1..(Len(q) - 1)
      /\ \A i \in 1..(Len(q) - 1) : Tail(q)[i] = q[i + 1]
      /\ Tail(q) # <<>> <=> Len(q) # 1
  BY <1>1, Shortened
<1>4. /\ \A k : InQueue(k) <=> \E i \in 1..Len(q) : q[i].kind = k
      /\ \A k : InQueue(k)' <=> \E i \in 1..(Len(q) - 1) : q[i + 1].kind = k
  BY <1>2, <1>3 DEF InQueue
<1>5. ASSUME OneOfAKind, NEW i \in 1..Len(q), NEW j \in 1..Len(q),
             q[i].kind = q[j].kind, q[i].kind \in {"charge", "propose"}
      PROVE  i = j
  BY <1>3, <1>5 DEF OneOfAKind
<1>6. LastOf(queue["P"]) = q[Len(q)] /\ (Len(q) # 1 => LastOf(queue'["P"]) = q[Len(q)])
  <2>1. Len(q) # 1 => Len(q) - 1 \in 1..(Len(q) - 1) /\ Len(q) - 1 + 1 = Len(q)
    BY <1>3
  <2> QED BY <1>2, <1>3, <2>1 DEF LastOf
<1> HIDE DEF q, h
<1>7. \A k \in Kinds : InQueue(k)' => InQueue(k)
  <2>1. \A i \in 1..(Len(q) - 1) : i + 1 \in 1..Len(q)
    BY <1>3
  <2> QED BY <1>4, <2>1
<1>8. \A k \in Kinds : InQueue(k) /\ k # h.kind => InQueue(k)'
  <2> SUFFICES ASSUME NEW k \in Kinds, k # h.kind, NEW i \in 1..Len(q), q[i].kind = k
               PROVE  \E j \in 1..(Len(q) - 1) : q[j + 1].kind = k
    BY <1>4
  <2>1. i - 1 \in 1..(Len(q) - 1) /\ i - 1 + 1 = i
    BY <1>3
  <2> QED BY <2>1
<1>9. OneOfAKind => OneOfAKind'
  <2> SUFFICES ASSUME OneOfAKind, NEW i \in 1..(Len(q) - 1), NEW j \in 1..(Len(q) - 1),
                      q[i + 1].kind = q[j + 1].kind, q[i + 1].kind \in {"charge", "propose"}
               PROVE  i = j
    BY <1>2, <1>3 DEF OneOfAKind
  <2>1. i + 1 \in 1..Len(q) /\ j + 1 \in 1..Len(q)
    BY <1>3
  <2>2. i + 1 = j + 1
    BY <1>5, <2>1
  <2> QED BY <1>3, <2>2
<1>10. \A k \in {"charge", "propose"} : OneOfAKind /\ h.kind = k => ~InQueue(k)'
  <2> SUFFICES ASSUME OneOfAKind, h.kind \in {"charge", "propose"},
                      NEW i \in 1..(Len(q) - 1), q[i + 1].kind = h.kind
               PROVE  FALSE
    BY <1>4
  <2>1. i + 1 \in 1..Len(q) /\ 1 \in 1..Len(q) /\ i + 1 # 1
    BY <1>3
  <2> QED BY <1>3, <1>5, <2>1
<1>11. InQueue(h.kind)
  <2>1. 1 \in 1..Len(q)
    BY <1>3
  <2> QED BY <1>3, <1>4, <2>1
<1>12. OneOfAKind /\ q[Len(q)].kind \in {"charge", "propose"} /\ q[Len(q)].kind = h.kind => Len(q) = 1
  <2>1. 1 \in 1..Len(q) /\ Len(q) \in 1..Len(q)
    BY <1>3
  <2> QED BY <1>3, <1>5, <2>1
<1> QED
  BY <1>2, <1>3, <1>6, <1>7, <1>8, <1>9, <1>10, <1>11, <1>12 DEF QueueTypes, q, h

LEMMA MinedByChecker ==
    ASSUME EpochAssumption, QueueTypes, queue["C"] # <<>>, queue' = [queue EXCEPT !["C"] = Tail(@)]
    PROVE  /\ QueueTypes' /\ queue'["P"] = queue["P"] /\ Head(queue["C"]) \in Transactions
           /\ \A i \in DOMAIN queue'["C"] : \E j \in DOMAIN queue["C"] : queue'["C"][i] = queue["C"][j]
           /\ \E j \in DOMAIN queue["C"] : queue["C"][j] = Head(queue["C"])
           /\ Len(queue["C"]) = 1 => LastOf(queue["C"]) = Head(queue["C"])
           /\ Len(queue["C"]) # 1 => queue'["C"] # <<>> /\ LastOf(queue'["C"]) = LastOf(queue["C"])
<1> DEFINE q == queue["C"]
<1>1. q \in Seq(Transactions)
  BY DEF QueueTypes, Operators
<1>2. queue' \in [Operators -> Seq(Transactions)] /\ queue'["P"] = queue["P"] /\ queue'["C"] = Tail(q)
  BY <1>1, Shortened DEF QueueTypes, Operators
<1>3. /\ Head(q) = q[1] /\ Head(q) \in Transactions /\ Len(q) \in Nat \ {0} /\ Len(Tail(q)) = Len(q) - 1
      /\ Tail(q) # <<>> <=> Len(q) # 1
      /\ DOMAIN q = 1..Len(q) /\ DOMAIN Tail(q) = 1..(Len(q) - 1)
      /\ \A i \in 1..(Len(q) - 1) : Tail(q)[i] = q[i + 1]
  BY <1>1, Shortened
<1>4. \A i \in 1..(Len(q) - 1) : i + 1 \in 1..Len(q)
  BY <1>3
<1>5. 1 \in 1..Len(q)
  BY <1>3
<1>6. LastOf(q) = q[Len(q)] /\ (Len(q) # 1 => LastOf(queue'["C"]) = q[Len(q)])
  <2>1. Len(q) # 1 => Len(q) - 1 \in 1..(Len(q) - 1) /\ Len(q) - 1 + 1 = Len(q)
    BY <1>3
  <2> QED BY <1>2, <1>3, <2>1 DEF LastOf
<1> QED
  BY <1>2, <1>3, <1>4, <1>5, <1>6 DEF QueueTypes

LEMMA ReplacedInQueue ==
    ASSUME EpochAssumption, QueueTypes, NEW op \in Operators, queue[op] # <<>>,
           queue' = [queue EXCEPT ![op] = Replacement(@)]
    PROVE  /\ QueueTypes' /\ (op = "P" => queue'["C"] = queue["C"]) /\ (op = "C" => queue'["P"] = queue["P"])
           /\ queue["P"] # <<>> => queue'["P"] # <<>> /\ LastOf(queue'["P"]).kind = LastOf(queue["P"]).kind
           /\ queue["C"] # <<>> => queue'["C"] # <<>> /\ LastOf(queue'["C"]).kind = LastOf(queue["C"]).kind
           /\ \A k : InQueue(k)' <=> InQueue(k)
           /\ OneOfAKind => OneOfAKind'
           /\ DOMAIN queue'["C"] = DOMAIN queue["C"]
           /\ \A i \in DOMAIN queue["C"] :
                  queue'["C"][i].kind = queue["C"][i].kind /\ queue'["C"][i].age = queue["C"][i].age
<1> DEFINE q == queue[op]
<1>1. q \in Seq(Transactions)
  BY DEF QueueTypes, Operators
<1>2. /\ Replacement(q) \in Seq(Transactions) /\ Replacement(q) # <<>>
      /\ Len(Replacement(q)) = Len(q) /\ Len(q) \in Nat \ {0}
      /\ DOMAIN q = 1..Len(q) /\ DOMAIN Replacement(q) = 1..Len(q)
      /\ \A i \in 1..Len(q) : Replacement(q)[i].kind = q[i].kind /\ Replacement(q)[i].age = q[i].age
  BY <1>1, Replaced
<1>3. queue' \in [Operators -> Seq(Transactions)] /\ queue'[op] = Replacement(q) /\ \A o \in Operators \ {op} : queue'[o] = queue[o]
  BY <1>1, <1>2 DEF QueueTypes
<1>4. Len(q) \in 1..Len(q)
  BY <1>2
<1>5. CASE op = "P"
  <2>1. queue'["P"] = Replacement(q) /\ queue["P"] = q /\ queue'["C"] = queue["C"]
    BY <1>3, <1>5 DEF Operators
  <2> HIDE DEF q
  <2>2. LastOf(queue'["P"]).kind = LastOf(queue["P"]).kind
    BY <1>2, <1>4, <2>1 DEF LastOf
  <2>3. \A k : InQueue(k)' <=> InQueue(k)
    BY <1>2, <2>1 DEF InQueue
  <2>4. OneOfAKind => OneOfAKind'
    <3> SUFFICES ASSUME OneOfAKind, NEW i \in 1..Len(q), NEW j \in 1..Len(q),
                        Replacement(q)[i].kind = Replacement(q)[j].kind,
                        Replacement(q)[i].kind \in {"charge", "propose"}
                 PROVE  i = j
      BY <1>2, <2>1 DEF OneOfAKind
    <3> QED BY <1>2, <2>1 DEF OneOfAKind
  <2> QED BY <1>2, <1>3, <1>5, <2>1, <2>2, <2>3, <2>4 DEF QueueTypes, LastOf
<1>6. CASE op = "C"
  <2>1. queue'["C"] = Replacement(q) /\ queue["C"] = q /\ queue'["P"] = queue["P"]
    BY <1>3, <1>6 DEF Operators
  <2>2. (\A k : InQueue(k)' <=> InQueue(k)) /\ (OneOfAKind => OneOfAKind')
    BY <2>1 DEF InQueue, OneOfAKind
  <2> HIDE DEF q
  <2>3. LastOf(queue'["C"]).kind = LastOf(queue["C"]).kind
    BY <1>2, <1>4, <2>1 DEF LastOf
  <2> QED BY <1>2, <1>3, <1>6, <2>1, <2>2, <2>3 DEF QueueTypes, LastOf
<1> QED
  BY <1>5, <1>6 DEF Operators

LEMMA AgedInQueue ==
    ASSUME EpochAssumption, QueueTypes,
           \A op \in Operators : \A i \in 1..Len(queue[op]) : queue[op][i].age < MaxStuck,
           queue' = [op \in Operators |-> [i \in 1..Len(queue[op]) |-> [queue[op][i] EXCEPT !.age = @ + 1]]]
    PROVE  /\ QueueTypes'
           /\ (queue'["P"] # <<>> <=> queue["P"] # <<>>)
           /\ queue["P"] # <<>> => LastOf(queue'["P"]).kind = LastOf(queue["P"]).kind
                                   /\ LastOf(queue'["P"]).replaced = LastOf(queue["P"]).replaced
           /\ queue["C"] # <<>> => queue'["C"] # <<>> /\ LastOf(queue'["C"]).kind = LastOf(queue["C"]).kind
           /\ \A k : InQueue(k)' <=> InQueue(k)
           /\ OneOfAKind => OneOfAKind'
           /\ DOMAIN queue'["C"] = DOMAIN queue["C"]
           /\ \A i \in DOMAIN queue["C"] :
                  /\ queue'["C"][i].kind = queue["C"][i].kind /\ queue'["C"][i].age = queue["C"][i].age + 1
                  /\ queue["C"][i] \in Transactions
<1>1. \A op \in Operators : queue[op] \in Seq(Transactions)
  BY DEF QueueTypes
<1>2. queue' = [op \in Operators |-> Aged(queue[op])]
  BY DEF Aged
<1>3. ASSUME NEW op \in Operators
      PROVE  LET q == queue[op] IN
             /\ Aged(q) \in Seq(Transactions) /\ (Aged(q) # <<>> <=> q # <<>>)
             /\ Len(Aged(q)) = Len(q) /\ Len(q) \in Nat
             /\ DOMAIN q = 1..Len(q) /\ DOMAIN Aged(q) = 1..Len(q)
             /\ \A i \in 1..Len(q) :
                    /\ Aged(q)[i].kind = q[i].kind /\ Aged(q)[i].age = q[i].age + 1
                    /\ Aged(q)[i].replaced = q[i].replaced /\ q[i] \in Transactions
  BY <1>1, AgedType
<1>4. queue' \in [Operators -> Seq(Transactions)]
  <2>1. \A op \in Operators : Aged(queue[op]) \in Seq(Transactions)
    BY <1>3
  <2> QED BY ONLY <1>2, <2>1
<1>5. "P" \in Operators /\ "C" \in Operators
  BY DEF Operators
<1> DEFINE q == queue["P"]
<1>6. queue'["P"] = Aged(q) /\ queue'["C"] = Aged(queue["C"])
  BY <1>2, <1>5
<1>7. /\ (Aged(q) # <<>> <=> q # <<>>)
      /\ Len(Aged(q)) = Len(q) /\ Len(q) \in Nat
      /\ DOMAIN q = 1..Len(q) /\ DOMAIN Aged(q) = 1..Len(q)
      /\ \A i \in 1..Len(q) :
             Aged(q)[i].kind = q[i].kind /\ Aged(q)[i].replaced = q[i].replaced
  BY <1>3, <1>5
<1>8. /\ DOMAIN Aged(queue["C"]) = DOMAIN queue["C"]
      /\ \A i \in DOMAIN queue["C"] :
             /\ Aged(queue["C"])[i].kind = queue["C"][i].kind /\ Aged(queue["C"])[i].age = queue["C"][i].age + 1
             /\ queue["C"][i] \in Transactions
  BY <1>3, <1>5
<1>9. q # <<>> => Len(q) \in 1..Len(q)
  BY <1>1, <1>5, <1>7, EmptySeq
<1> HIDE DEF q
<1>10. q # <<>> => LastOf(queue'["P"]).kind = LastOf(q).kind /\ LastOf(queue'["P"]).replaced = LastOf(q).replaced
  BY <1>6, <1>7, <1>9, Zenon DEF LastOf
<1>11. \A k : InQueue(k)' <=> InQueue(k)
  <2>1. \A k : InQueue(k) <=> \E i \in 1..Len(q) : q[i].kind = k
    BY <1>7 DEF InQueue, q
  <2>2. \A k : InQueue(k)' <=> \E i \in 1..Len(q) : Aged(q)[i].kind = k
    BY <1>6, <1>7 DEF InQueue
  <2> QED BY <1>7, <2>1, <2>2
<1>12. OneOfAKind => OneOfAKind'
  <2>1. PICK aged : aged = Aged(q)
    OBVIOUS
  <2>2. queue'["P"] = aged /\ DOMAIN aged = 1..Len(q) /\ \A i \in 1..Len(q) : aged[i].kind = q[i].kind
    BY <1>6, <1>7, <2>1
  <2>3. OneOfAKind => \A i, j \in 1..Len(q) : q[i].kind = q[j].kind /\ q[i].kind \in {"charge", "propose"} => i = j
    BY <1>7 DEF OneOfAKind, q
  <2>4. OneOfAKind' <=> \A i, j \in 1..Len(q) :
                            aged[i].kind = aged[j].kind /\ aged[i].kind \in {"charge", "propose"} => i = j
    BY ONLY <2>2 DEF OneOfAKind
  <2> QED BY ONLY <2>2, <2>3, <2>4
<1>13. queue["C"] # <<>> => queue'["C"] # <<>> /\ LastOf(queue'["C"]).kind = LastOf(queue["C"]).kind
  <2> DEFINE r == queue["C"]
  <2>1. /\ (Aged(r) # <<>> <=> r # <<>>) /\ Len(Aged(r)) = Len(r) /\ Len(r) \in Nat
        /\ \A i \in 1..Len(r) : Aged(r)[i].kind = r[i].kind
    BY <1>3, <1>5
  <2>2. r # <<>> => Len(r) \in 1..Len(r)
    BY <1>1, <1>5, <2>1, EmptySeq
  <2> HIDE DEF r
  <2>3. r # <<>> => queue'["C"] # <<>> /\ LastOf(queue'["C"]).kind = LastOf(r).kind
    <3>1. queue'["C"] = Aged(r)
      BY <1>6 DEF r
    <3> QED BY <2>1, <2>2, <3>1, Zenon DEF LastOf
  <2> QED BY <2>3 DEF r
<1> QED
  BY <1>13, <1>4, <1>6, <1>7, <1>8, <1>10, <1>11, <1>12 DEF QueueTypes, q

------------------------------------------------------------------------------
(* What a step leaves as it was.                                           *)

LEMMA PrimaryMoves ==
    ASSUME EpochTypes, NEW phase \in PrimaryPhases, PrimaryAt(phase)
    PROVE  /\ primary' \in PrimaryStates /\ primary'.phase = phase /\ primary'.result = "none"
           /\ primary'.stopped = primary.stopped /\ primary'.action = primary.action
<1>1. primary \in PrimaryStates /\ primary' = [primary EXCEPT !.phase = phase, !.result = "none"]
  BY DEF EpochTypes, PrimaryAt
<1>2. "none" \in Results
  BY DEF Results
<1>3. primary' \in PrimaryStates
  BY <1>1, <1>2 DEF PrimaryStates
<1>4. primary'.phase = phase /\ primary'.result = "none" /\ primary'.action = primary.action
  BY <1>1 DEF PrimaryStates
<1>5. primary'.stopped = primary.stopped
  BY <1>1, Zenon DEF PrimaryStates
<1> QED
  BY <1>3, <1>4, <1>5

LEMMA PrimaryEnds ==
    ASSUME PrimaryDone
    PROVE  primary' \in PrimaryStates /\ primary'.phase = "idle" /\ primary'.result = "none"
<1>1. primary' = [phase |-> "idle", action |-> "skip", epochAge |-> 0, stopped |-> FALSE, result |-> "none"]
  BY DEF PrimaryDone, Resting
<1> QED
  BY <1>1 DEF PrimaryStates, PrimaryPhases, Results

\* The phases of the primary's epoch in which it waits.
LEMMA Waiting ==
    ASSUME EpochTypes
    PROVE  primary.phase \in PrimaryPhases /\ primary.result \in Results
           /\ checker.phase \in CheckerPhases /\ checker.epochAge \in 0..MaxEpoch /\ checker.read \in Slots
  BY DEF EpochTypes, PrimaryStates, CheckerStates

\* A primary at rest upholds everything that is said of it.
LEMMA RestIsSound ==
    ASSUME EpochTypes, QueueIsSound, FeesAreUsed, WaitsItsOwnOut,
           PrimaryDone, UNCHANGED <<queue, unscored, slot, authorized, agent>>,
           faults' \in {faults, faults + 1}, Owed <= faults'
    PROVE  QueueIsSound' /\ FeesAreUsed' /\ WaitsItsOwnOut'
<1>1. primary'.phase = "idle"
  BY PrimaryEnds
<1>2. (\A k : InQueue(k)' <=> InQueue(k)) /\ (OneOfAKind' <=> OneOfAKind)
  BY DEF InQueue, OneOfAKind
<1>3. QueueIsSound'
  BY <1>1, <1>2 DEF QueueIsSound, Awaits
<1>4. Owed' = Owed
  BY <1>2 DEF Owed
<1>5. FeesAreUsed'
  BY <1>4 DEF FeesAreUsed
<1>6. WaitsItsOwnOut'
  BY <1>1, <1>2 DEF WaitsItsOwnOut, OwnIsLost, EpochTypes
<1> QED
  BY <1>3, <1>5, <1>6

\* Nothing a checker's record depends on moves.
LEMMA ChecksStay ==
    ASSUME ChecksAreTrue, UNCHANGED <<slot, checker>>, queue'["C"] = queue["C"]
    PROVE  ChecksAreTrue'
  BY DEF ChecksAreTrue

LEMMA WithinBudget ==
    ASSUME NEW u \in Nat, NEW f \in Nat, NEW g, g = f \/ g = f + 1, u <= 1 + f
    PROVE  u <= 1 + g
  OBVIOUS

LEMMA EpochStays ==
    ASSUME EpochTypes, EpochInv, UNCHANGED <<unscored, emptied, live, agent, slot>>, faults' \in {faults, faults + 1}
    PROVE  EpochInv'
<1>1. unscored \in Nat /\ faults \in Nat /\ unscored' = unscored /\ (faults' = faults \/ faults' = faults + 1)
  BY DEF EpochTypes
<1>2. unscored <= 1 + faults
  BY DEF EpochInv
<1>3. unscored' <= 1 + faults'
  BY <1>1, <1>2, WithinBudget, Zenon
<1> QED
  BY <1>3 DEF EpochInv

------------------------------------------------------------------------------
(* The primary's epoch.                                                    *)

LEMMA StartPrimaryKeeps ==
    ASSUME EpochAssumption, EpochIInv, StartPrimary
    PROVE  EpochIInv'
<1> USE DEF EpochIInv
<1>1. UNCHANGED <<slot, lastUpdated, live, agent, authorized, charged, emptied, unscored, queue, checker, faults>>
  BY DEF StartPrimary, chainVars
<1>2. /\ primary' \in PrimaryStates /\ primary'.phase = "guard" /\ primary'.result = "none"
      /\ primary'.action = DecideAction /\ (primary'.stopped <=> Stopped)
  <2>1. DecideAction \in {"propose", "finalize", "skip"} /\ Stopped \in BOOLEAN
    BY DEF DecideAction, Stopped
  <2>2. primary' = [phase |-> "guard", action |-> DecideAction, epochAge |-> 0, stopped |-> Stopped, result |-> "none"]
    BY DEF StartPrimary, Resting
  <2>3. primary'.stopped <=> Stopped
    BY <2>2, Zenon
  <2>4. primary' \in PrimaryStates
    BY <2>1, <2>2, Zenon DEF PrimaryStates, PrimaryPhases, Results
  <2> QED BY <2>2, <2>3, <2>4
<1>3. (\A k : InQueue(k)' <=> InQueue(k)) /\ (OneOfAKind' <=> OneOfAKind)
  BY <1>1 DEF InQueue, OneOfAKind
<1>4. queue["P"] = <<>> => \A k : ~InQueue(k)
  BY EmptySeq DEF InQueue
<1>5. EpochTypes'
  BY <1>1, <1>2 DEF EpochTypes, QueueTypes
<1>6. QueueIsSound'
  BY <1>1, <1>2, <1>3, <1>4 DEF QueueIsSound, Awaits, Stopped
<1>7. FeesAreUsed'
  <2>1. Owed' = Owed
    BY <1>1, <1>3 DEF Owed
  <2>2. primary.phase = "idle"
    BY DEF StartPrimary
  <2> QED BY <1>1, <2>1, <2>2 DEF FeesAreUsed
<1>8. WaitsItsOwnOut'
  BY <1>1, <1>2, <1>3 DEF WaitsItsOwnOut, OwnIsLost, DecideAction
<1>9. ChecksAreTrue' /\ EpochInv'
  BY <1>1, ChecksStay, EpochStays
<1> QED
  BY <1>5, <1>6, <1>7, <1>8, <1>9

\* Its own proposal is not in the slot where the primary goes on to score after a refused finalize.
LEMMA AfterRefused ==
    ASSUME EpochTypes, WaitsItsOwnOut, slot.exists => slot.age >= W /\ ~StillAuthorized
    PROVE  OwnIsLost
  BY DEF EpochTypes, WaitsItsOwnOut, OwnIsLost, StillAuthorized

\* A primary that goes on to score.
LEMMA ScoringIsSound ==
    ASSUME EpochTypes, QueueIsSound, FeesAreUsed, WaitsItsOwnOut,
           primary.phase \in {"guard", "finalizing"}, PrimaryAt("score"), OwnIsLost \/ primary.stopped,
           UNCHANGED <<queue, unscored, slot, authorized, agent, faults>>
    PROVE  QueueIsSound' /\ FeesAreUsed' /\ WaitsItsOwnOut'
<1>1. /\ primary'.phase = "score" /\ primary'.result = "none" /\ primary'.stopped = primary.stopped
  BY PrimaryMoves DEF PrimaryPhases
<1>2. (\A k : InQueue(k)' <=> InQueue(k)) /\ (OneOfAKind' <=> OneOfAKind)
  BY DEF InQueue, OneOfAKind
<1>3. QueueIsSound'
  BY <1>1, <1>2 DEF QueueIsSound, Awaits
<1>4. Owed' = Owed
  BY <1>2 DEF Owed
<1>5. FeesAreUsed'
  BY <1>4 DEF FeesAreUsed
<1>6. WaitsItsOwnOut'
  BY <1>1, <1>2 DEF WaitsItsOwnOut, OwnIsLost
<1> QED
  BY <1>3, <1>5, <1>6

LEMMA AfterRefusedFinalizeKeeps ==
    ASSUME EpochTypes, QueueIsSound, FeesAreUsed, WaitsItsOwnOut,
           primary.phase \in {"guard", "finalizing"}, AfterRefusedFinalize,
           UNCHANGED <<queue, unscored, slot, authorized, agent, faults>>
    PROVE  primary' \in PrimaryStates /\ QueueIsSound' /\ FeesAreUsed' /\ WaitsItsOwnOut'
<1>1. CASE slot.exists => slot.age >= W /\ ~StillAuthorized
  <2>1. OwnIsLost
    BY <1>1, AfterRefused
  <2>2. CASE PrimaryAt("score")
    BY <2>1, <2>2, ScoringIsSound, PrimaryMoves DEF PrimaryPhases
  <2>3. CASE PrimaryDone
    <3>1. Owed <= faults
      BY DEF FeesAreUsed
    <3> QED BY <2>3, <3>1, RestIsSound, PrimaryEnds
  <2> QED BY <2>2, <2>3 DEF AfterRefusedFinalize
<1>2. CASE ~(slot.exists => slot.age >= W /\ ~StillAuthorized)
  <2>1. PrimaryDone
    BY <1>2 DEF AfterRefusedFinalize
  <2>2. Owed <= faults
    BY DEF FeesAreUsed
  <2> QED BY <2>1, <2>2, RestIsSound, PrimaryEnds
<1> QED
  BY <1>1, <1>2

LEMMA GuardKeeps ==
    ASSUME EpochAssumption, EpochIInv, Guard
    PROVE  EpochIInv'
<1> USE DEF EpochIInv
<1>1. /\ UNCHANGED <<slot, lastUpdated, live, agent, authorized, charged, emptied, unscored, checker, faults>>
      /\ primary.phase = "guard"
  BY DEF Guard, chainVars
<1>2. Owed <= faults
  BY <1>1 DEF FeesAreUsed
<1>3. CASE PrimaryDone /\ UNCHANGED queue
  <2>1. QueueIsSound' /\ FeesAreUsed' /\ WaitsItsOwnOut' /\ primary' \in PrimaryStates
    BY <1>1, <1>2, <1>3, RestIsSound, PrimaryEnds
  <2> QED BY <1>1, <1>3, <2>1, ChecksStay, EpochStays DEF EpochTypes, QueueTypes
<1>4. CASE primary.action = "propose" /\ PrimaryAt("score") /\ UNCHANGED queue
  <2>1. OwnIsLost \/ primary.stopped
    BY <1>1, <1>4 DEF WaitsItsOwnOut, OwnIsLost
  <2>2. QueueIsSound' /\ FeesAreUsed' /\ WaitsItsOwnOut'
    BY <1>1, <1>4, <2>1, ScoringIsSound
  <2>3. primary' \in PrimaryStates
    BY <1>4, PrimaryMoves DEF PrimaryPhases
  <2> QED BY <1>1, <1>4, <2>2, <2>3, ChecksStay, EpochStays DEF EpochTypes, QueueTypes
<1>5. CASE PrimaryAt("finalizing") /\ Send("P", "finalize", "good")
  <2>1. primary' \in PrimaryStates /\ primary'.phase = "finalizing" /\ primary'.result = "none"
            /\ primary'.stopped = primary.stopped
    BY <1>5, PrimaryMoves DEF PrimaryPhases
  <2>2. /\ QueueTypes' /\ queue'["C"] = queue["C"]
        /\ queue'["P"] # <<>> /\ LastOf(queue'["P"]).kind = "finalize"
        /\ InQueue("charge")' <=> InQueue("charge")
        /\ InQueue("propose")' <=> InQueue("propose")
        /\ OneOfAKind => OneOfAKind'
    BY <1>5, SendByPrimary DEF EpochTypes, Kinds, Scores
  <2>3. QueueIsSound'
    BY <1>1, <2>1, <2>2 DEF QueueIsSound, Awaits, Sent
  <2>4. FeesAreUsed'
    <3>1. Owed' = Owed
      BY <1>1, <2>2 DEF Owed
    <3> QED BY <1>1, <1>2, <3>1 DEF FeesAreUsed
  <2>5. WaitsItsOwnOut'
    BY <1>1, <2>1, <2>2 DEF WaitsItsOwnOut, OwnIsLost
  <2> QED BY <1>1, <2>1, <2>2, <2>3, <2>4, <2>5, ChecksStay, EpochStays DEF EpochTypes
<1>6. CASE AfterRefusedFinalize /\ UNCHANGED queue
  <2>1. primary' \in PrimaryStates /\ QueueIsSound' /\ FeesAreUsed' /\ WaitsItsOwnOut'
    BY <1>1, <1>6, AfterRefusedFinalizeKeeps
  <2> QED BY <1>1, <1>6, <2>1, ChecksStay, EpochStays DEF EpochTypes, QueueTypes
<1> QED
  BY <1>3, <1>4, <1>5, <1>6 DEF Guard

LEMMA FinalizedKeeps ==
    ASSUME EpochAssumption, EpochIInv, Finalized
    PROVE  EpochIInv'
<1> USE DEF EpochIInv
<1>1. /\ UNCHANGED <<slot, lastUpdated, live, agent, authorized, charged, emptied, unscored, checker, faults, queue>>
      /\ primary.phase = "finalizing" /\ primary.result # "none"
  BY DEF Finalized, chainVars
<1>2. Owed <= faults
  BY <1>1 DEF FeesAreUsed
<1>3. CASE primary.result # "reverted" /\ (primary.result = "landed" \/ ~slot.exists) /\ PrimaryAt("score")
  <2>1. OwnIsLost \/ primary.stopped
    BY <1>1, <1>3 DEF WaitsItsOwnOut, OwnIsLost
  <2>2. QueueIsSound' /\ FeesAreUsed' /\ WaitsItsOwnOut'
    BY <1>1, <1>3, <2>1, ScoringIsSound
  <2>3. primary' \in PrimaryStates
    BY <1>3, PrimaryMoves DEF PrimaryPhases
  <2> QED BY <1>1, <2>2, <2>3, ChecksStay, EpochStays DEF EpochTypes, QueueTypes
<1>4. CASE AfterRefusedFinalize
  <2>1. primary' \in PrimaryStates /\ QueueIsSound' /\ FeesAreUsed' /\ WaitsItsOwnOut'
    BY <1>1, <1>4, AfterRefusedFinalizeKeeps
  <2> QED BY <1>1, <2>1, ChecksStay, EpochStays DEF EpochTypes, QueueTypes
<1>5. CASE PrimaryDone
  <2>1. QueueIsSound' /\ FeesAreUsed' /\ WaitsItsOwnOut' /\ primary' \in PrimaryStates
    BY <1>1, <1>2, <1>5, RestIsSound, PrimaryEnds
  <2> QED BY <1>1, <2>1, ChecksStay, EpochStays DEF EpochTypes, QueueTypes
<1> QED
  <2>1. primary.result \in {"landed", "reverted", "unconfirmed"}
    BY <1>1, Waiting DEF Results
  <2> QED BY <1>3, <1>4, <1>5, <2>1 DEF Finalized

LEMMA ChargeKeeps ==
    ASSUME EpochAssumption, EpochIInv, Charge
    PROVE  EpochIInv'
<1> USE DEF EpochIInv
<1>1. /\ UNCHANGED <<slot, lastUpdated, live, agent, authorized, charged, emptied, unscored, checker, faults>>
      /\ primary.phase = "score"
  BY DEF Charge, chainVars
<1>2. Owed <= faults
  BY <1>1 DEF FeesAreUsed
<1>3. CASE PrimaryDone /\ UNCHANGED queue
  <2>1. QueueIsSound' /\ FeesAreUsed' /\ WaitsItsOwnOut' /\ primary' \in PrimaryStates
    BY <1>1, <1>2, <1>3, RestIsSound, PrimaryEnds
  <2> QED BY <1>1, <1>3, <2>1, ChecksStay, EpochStays DEF EpochTypes, QueueTypes
<1>4. CASE ~primary.stopped /\ PrimaryAt("propose") /\ UNCHANGED queue
  <2>1. primary' \in PrimaryStates /\ primary'.phase = "propose" /\ primary'.result = "none"
            /\ primary'.stopped = primary.stopped
    BY <1>4, PrimaryMoves DEF PrimaryPhases
  <2>2. (\A k : InQueue(k)' <=> InQueue(k)) /\ (OneOfAKind' <=> OneOfAKind)
    BY <1>4 DEF InQueue, OneOfAKind
  <2>3. QueueIsSound'
    BY <1>1, <1>4, <2>1, <2>2 DEF QueueIsSound, Awaits
  <2>4. FeesAreUsed'
    <3>1. Owed' = Owed
      BY <1>1, <2>2 DEF Owed
    <3> QED BY <1>1, <1>2, <3>1 DEF FeesAreUsed
  <2>5. WaitsItsOwnOut'
    BY <1>1, <2>1, <2>2 DEF WaitsItsOwnOut, OwnIsLost
  <2> QED BY <1>1, <1>4, <2>1, <2>3, <2>4, <2>5, ChecksStay, EpochStays DEF EpochTypes, QueueTypes
<1>5. CASE ~primary.stopped /\ ~WouldBeRefused /\ PrimaryAt("charging") /\ Send("P", "charge", "good")
  <2>1. primary' \in PrimaryStates /\ primary'.phase = "charging" /\ primary'.result = "none"
            /\ primary'.stopped = primary.stopped
    BY <1>5, PrimaryMoves DEF PrimaryPhases
  <2>2. ~InQueue("charge") /\ ~InQueue("propose")
    BY <1>1, <1>5 DEF QueueIsSound
  <2>3. /\ QueueTypes' /\ queue'["C"] = queue["C"]
        /\ queue'["P"] # <<>> /\ LastOf(queue'["P"]).kind = "charge" /\ ~LastOf(queue'["P"]).replaced
        /\ InQueue("charge")' /\ ~InQueue("propose")'
        /\ OneOfAKind => OneOfAKind'
    BY <1>5, <2>2, SendByPrimary DEF EpochTypes, Kinds, Scores
  <2>4. QueueIsSound'
    BY <1>1, <1>5, <2>1, <2>2, <2>3 DEF QueueIsSound, Awaits, Sent
  <2>5. FeesAreUsed'
    <3>1. Owed' = Owed + 1 /\ Owed \in Nat
      BY <1>1, <2>2, <2>3 DEF Owed, EpochTypes
    <3>2. MayPropose("P")'
      BY <1>1, <1>5 DEF WouldBeRefused, MayPropose
    <3>3. Owed' <= faults' + 1
      BY <1>1, <1>2, <3>1 DEF EpochTypes
    <3> QED BY <2>1, <2>3, <3>2, <3>3 DEF FeesAreUsed
  <2>6. WaitsItsOwnOut'
    BY <1>1, <2>1, <2>3 DEF WaitsItsOwnOut, OwnIsLost
  <2> QED BY <1>1, <2>1, <2>3, <2>4, <2>5, <2>6, ChecksStay, EpochStays DEF EpochTypes
<1> QED
  BY <1>3, <1>4, <1>5 DEF Charge

LEMMA ChargedKeeps ==
    ASSUME EpochAssumption, EpochIInv, Charged
    PROVE  EpochIInv'
<1> USE DEF EpochIInv
<1>1. /\ UNCHANGED <<slot, lastUpdated, live, agent, authorized, charged, emptied, unscored, checker, faults, queue>>
      /\ primary.phase = "charging" /\ primary.result # "none"
  BY DEF Charged, chainVars
<1>2. CASE primary.result = "unconfirmed" /\ PrimaryDone
  <2>1. Owed <= faults
    BY <1>1, <1>2 DEF FeesAreUsed
  <2>2. QueueIsSound' /\ FeesAreUsed' /\ WaitsItsOwnOut' /\ primary' \in PrimaryStates
    BY <1>1, <1>2, <2>1, RestIsSound, PrimaryEnds
  <2> QED BY <1>1, <2>2, ChecksStay, EpochStays DEF EpochTypes, QueueTypes
<1>3. CASE PrimaryAt("propose")
  <2>1. primary' \in PrimaryStates /\ primary'.phase = "propose" /\ primary'.result = "none"
            /\ primary'.stopped = primary.stopped
    BY <1>3, PrimaryMoves DEF PrimaryPhases
  <2>2. (\A k : InQueue(k)' <=> InQueue(k)) /\ (OneOfAKind' <=> OneOfAKind)
    BY <1>1 DEF InQueue, OneOfAKind
  <2>3. QueueIsSound'
    BY <1>1, <2>1, <2>2 DEF QueueIsSound, Awaits
  <2>4. FeesAreUsed'
    <3>1. Owed' = Owed
      BY <1>1, <2>2 DEF Owed
    <3>2. MayPropose("P")' <=> MayPropose("P")
      BY <1>1 DEF MayPropose
    <3> QED BY <1>1, <2>1, <3>1, <3>2 DEF FeesAreUsed
  <2>5. WaitsItsOwnOut'
    BY <1>1, <2>1, <2>2 DEF WaitsItsOwnOut, OwnIsLost
  <2> QED BY <1>1, <2>1, <2>3, <2>4, <2>5, ChecksStay, EpochStays DEF EpochTypes, QueueTypes
<1> QED
  BY <1>2, <1>3 DEF Charged

LEMMA ProposePrimaryKeeps ==
    ASSUME EpochAssumption, EpochIInv, ProposePrimary
    PROVE  EpochIInv'
<1> USE DEF EpochIInv
<1>1. /\ UNCHANGED <<slot, lastUpdated, live, agent, authorized, charged, emptied, unscored, checker, faults>>
      /\ primary.phase = "propose"
  BY DEF ProposePrimary, chainVars
<1>2. CASE ~MayPropose("P") /\ PrimaryDone /\ UNCHANGED queue
  <2>1. Owed <= faults
    BY <1>2 DEF FeesAreUsed
  <2>2. QueueIsSound' /\ FeesAreUsed' /\ WaitsItsOwnOut' /\ primary' \in PrimaryStates
    BY <1>1, <1>2, <2>1, RestIsSound, PrimaryEnds
  <2> QED BY <1>1, <1>2, <2>2, ChecksStay, EpochStays DEF EpochTypes, QueueTypes
<1>3. ASSUME MayPropose("P"), PrimaryAt("proposing"), NEW s \in Scores, Send("P", "propose", s)
      PROVE  EpochIInv'
  <2>1. primary' \in PrimaryStates /\ primary'.phase = "proposing" /\ primary'.result = "none"
            /\ primary'.stopped = primary.stopped
    BY <1>3, PrimaryMoves DEF PrimaryPhases
  <2>2. ~InQueue("propose") /\ ~primary.stopped /\ OwnIsLost
    BY <1>1 DEF QueueIsSound, WaitsItsOwnOut
  <2>3. /\ QueueTypes' /\ queue'["C"] = queue["C"]
        /\ queue'["P"] # <<>> /\ LastOf(queue'["P"]).kind = "propose" /\ ~LastOf(queue'["P"]).replaced
        /\ InQueue("charge")' <=> InQueue("charge")
        /\ OneOfAKind => OneOfAKind'
    BY <1>3, <2>2, SendByPrimary DEF EpochTypes, Kinds
  <2>4. QueueIsSound'
    BY <1>1, <2>1, <2>2, <2>3 DEF QueueIsSound, Awaits, Sent
  <2>5. FeesAreUsed'
    <3>1. Owed' = Owed
      BY <1>1, <2>3 DEF Owed
    <3>2. MayPropose("P")'
      BY <1>1, <1>3 DEF MayPropose
    <3>3. Owed <= faults + 1
      BY DEF FeesAreUsed, Owed, EpochTypes
    <3> QED BY <1>1, <2>1, <2>3, <3>1, <3>2, <3>3 DEF FeesAreUsed
  <2>6. WaitsItsOwnOut'
    BY <1>1, <2>1, <2>2 DEF WaitsItsOwnOut, OwnIsLost
  <2> QED BY <1>1, <2>1, <2>3, <2>4, <2>5, <2>6, ChecksStay, EpochStays DEF EpochTypes
<1> QED
  BY <1>2, <1>3 DEF ProposePrimary

LEMMA ProposedPrimaryKeeps ==
    ASSUME EpochAssumption, EpochIInv, ProposedPrimary
    PROVE  EpochIInv'
<1> USE DEF EpochIInv
<1>1. /\ UNCHANGED <<slot, lastUpdated, live, agent, authorized, charged, emptied, unscored, checker, faults, queue>>
      /\ primary.phase = "proposing" /\ primary.result # "none" /\ PrimaryDone
  BY DEF ProposedPrimary, chainVars
<1>2. Owed <= faults
  BY <1>1 DEF FeesAreUsed
<1>3. QueueIsSound' /\ FeesAreUsed' /\ WaitsItsOwnOut' /\ primary' \in PrimaryStates
  BY <1>1, <1>2, RestIsSound, PrimaryEnds
<1> QED
  BY <1>1, <1>3, ChecksStay, EpochStays DEF EpochTypes, QueueTypes

LEMMA PrimaryFailsKeeps ==
    ASSUME EpochAssumption, EpochIInv, PrimaryFails
    PROVE  EpochIInv'
<1> USE DEF EpochIInv
<1>1. /\ UNCHANGED <<slot, lastUpdated, live, agent, authorized, charged, emptied, unscored, checker, queue>>
      /\ faults' = faults + 1 /\ PrimaryDone
  BY DEF PrimaryFails, chainVars
<1>2. Owed <= faults + 1 /\ faults' \in Nat
  BY <1>1 DEF FeesAreUsed, Owed, EpochTypes
<1>3. QueueIsSound' /\ FeesAreUsed' /\ WaitsItsOwnOut' /\ primary' \in PrimaryStates
  BY <1>1, <1>2, RestIsSound, PrimaryEnds
<1> QED
  BY <1>1, <1>2, <1>3, ChecksStay, EpochStays DEF EpochTypes, QueueTypes

------------------------------------------------------------------------------
(* The chain.                                                              *)

LEMMA EffectTypes ==
    ASSUME EpochAssumption, EpochTypes, NEW op \in Operators, NEW tx \in Transactions, Effect(op, tx)
    PROVE  /\ slot' \in Slots /\ lastUpdated' \in Nat /\ live' \in Scores \cup {"none"} /\ charged' \in BOOLEAN
           /\ unscored' \in Nat /\ emptied' \in [age : Nat, by : Operators \cup {"none", "slash", "committee"}]
           /\ slot' = slot \/ ~slot'.exists \/ slot'.age = 0
<1>0. tx.kind \in Kinds /\ tx.score \in Scores
  BY DEF Transactions
<1>1. CASE tx.kind = "finalize"
  <2>1. Emptied(op) /\ live' = slot.score /\ lastUpdated' = slot.age /\ UNCHANGED <<charged, unscored>>
    BY <1>1 DEF Effect
  <2>2. slot' \in Slots /\ ~slot'.exists
    <3>1. slot' = [exists |-> FALSE, by |-> "P", score |-> "good", age |-> 0]
      BY <2>1 DEF Emptied, EmptySlot
    <3>2. ~slot'.exists
      BY <3>1, Zenon
    <3> QED BY <3>1, <3>2 DEF Slots, Operators, Scores
  <2>3. emptied' \in [age : Nat, by : Operators \cup {"none", "slash", "committee"}]
    BY <2>1 DEF Emptied
  <2>4. slot.score \in Scores /\ slot.age \in Nat
    BY DEF EpochTypes, Slots
  <2> QED BY <2>1, <2>2, <2>3, <2>4 DEF EpochTypes
<1>2. CASE tx.kind = "charge"
  <2>1. charged' = TRUE /\ unscored' = unscored + 1 /\ UNCHANGED <<slot, lastUpdated, live, emptied>>
    BY <1>2 DEF Effect
  <2> QED BY <2>1 DEF EpochTypes
<1>3. CASE tx.kind = "propose"
  <2>1. /\ slot' = [exists |-> TRUE, by |-> op, score |-> tx.score, age |-> 0]
        /\ unscored' = IF op = "P" THEN 0 ELSE unscored
        /\ UNCHANGED <<lastUpdated, live, emptied, charged>>
    BY <1>3 DEF Effect
  <2>2. slot' \in Slots /\ slot'.age = 0
    BY <1>0, <2>1 DEF Slots
  <2> QED BY <2>1, <2>2 DEF EpochTypes
<1> QED
  BY <1>0, <1>1, <1>2, <1>3 DEF Kinds

\* What a mined transaction does, whoever sent it.
LEMMA MinedTypes ==
    ASSUME EpochAssumption, EpochTypes, NEW op \in Operators, Mine(op)
    PROVE  /\ queue[op] # <<>> /\ queue' = [queue EXCEPT ![op] = Tail(@)] /\ UNCHANGED <<agent, authorized, faults>>
           /\ Head(queue[op]) \in Transactions
           /\ \/ Succeeds(op, Head(queue[op])) /\ Effect(op, Head(queue[op]))
              \/ ~Succeeds(op, Head(queue[op])) /\ UNCHANGED <<slot, lastUpdated, live, charged, emptied, unscored>>
           /\ slot' \in Slots /\ lastUpdated' \in Nat /\ live' \in Scores \cup {"none"} /\ charged' \in BOOLEAN
           /\ unscored' \in Nat /\ emptied' \in [age : Nat, by : Operators \cup {"none", "slash", "committee"}]
           /\ slot' = slot \/ ~slot'.exists \/ slot'.age = 0
<1>1. queue[op] # <<>> /\ queue' = [queue EXCEPT ![op] = Tail(@)] /\ UNCHANGED <<agent, authorized, faults>>
  BY DEF Mine
<1>2. \/ Succeeds(op, Head(queue[op])) /\ Effect(op, Head(queue[op]))
      \/ ~Succeeds(op, Head(queue[op])) /\ UNCHANGED <<slot, lastUpdated, live, charged, emptied, unscored>>
  BY DEF Mine
<1>3. Head(queue[op]) \in Transactions
  BY <1>1, Shortened DEF EpochTypes, QueueTypes
<1> QED
  BY <1>1, <1>2, <1>3, EffectTypes DEF EpochTypes

LEMMA ToldTypes ==
    ASSUME EpochTypes, NEW result \in {"landed", "reverted"}
    PROVE  /\ Told(primary, "P", result) \in PrimaryStates
           /\ Told(primary, "P", result).phase = primary.phase
           /\ Told(primary, "P", result).stopped = primary.stopped
           /\ Told(primary, "P", result).result = IF primary.phase \in Awaits /\ primary.result = "none" /\ Len(queue["P"]) = 1
                                                  THEN result ELSE primary.result
           /\ Told(primary, "P", result).action = primary.action
           /\ Told(checker, "C", result) \in CheckerStates
           /\ Told(checker, "C", result).phase = checker.phase
           /\ Told(checker, "C", result).epochAge = checker.epochAge
           /\ Told(checker, "C", result).read = checker.read
           /\ Told(checker, "C", result).lookAge = checker.lookAge
           /\ Told(checker, "C", result).emptySeen = checker.emptySeen
           /\ Told(checker, "C", result).coveringLate = checker.coveringLate
           /\ Told(checker, "C", result).result = IF checker.phase \in Awaits /\ checker.result = "none" /\ Len(queue["C"]) = 1
                                                  THEN result ELSE checker.result
<1> DEFINE p == [primary EXCEPT !.result = result]
           c == [checker EXCEPT !.result = result]
<1>1. primary \in PrimaryStates /\ checker \in CheckerStates /\ result \in Results
  BY DEF EpochTypes, Results
<1>2. p \in PrimaryStates /\ p.phase = primary.phase /\ p.result = result /\ p.action = primary.action
  BY <1>1 DEF PrimaryStates
<1>3. p.stopped = primary.stopped
  BY <1>1, Zenon DEF PrimaryStates
<1>4. c \in CheckerStates /\ c.phase = checker.phase /\ c.epochAge = checker.epochAge /\ c.read = checker.read
      /\ c.lookAge = checker.lookAge /\ c.emptySeen = checker.emptySeen /\ c.result = result
  BY <1>1 DEF CheckerStates
<1>5. /\ Told(primary, "P", result) = IF primary.phase \in Awaits /\ primary.result = "none" /\ Len(queue["P"]) = 1
                                      THEN p ELSE primary
      /\ Told(checker, "C", result) = IF checker.phase \in Awaits /\ checker.result = "none" /\ Len(queue["C"]) = 1
                                      THEN c ELSE checker
  BY DEF Told
<1>6. c.coveringLate = checker.coveringLate
  BY <1>1, Zenon DEF CheckerStates
<1> HIDE DEF p, c
<1> QED
  BY <1>1, <1>2, <1>3, <1>4, <1>5, <1>6

\* The slot may have been written or emptied; what the checker's record says of it holds if its own queue only lost.
LEMMA ChecksOutlive ==
    ASSUME EpochAssumption, EpochTypes, ChecksAreTrue,
           slot' = slot \/ ~slot'.exists \/ slot'.age = 0,
           checker'.phase = checker.phase, checker'.epochAge = checker.epochAge, checker'.read = checker.read,
           \A i \in DOMAIN queue'["C"] : \E j \in DOMAIN queue["C"] : queue'["C"][i] = queue["C"][j]
    PROVE  ChecksAreTrue'
<1>1. checker.epochAge \in Nat
  BY Waiting DEF EpochAssumption
<1>2. \A j \in DOMAIN queue["C"] : queue["C"][j].age \in Nat
  <2>1. queue["C"] \in Seq(Transactions)
    BY DEF EpochTypes, QueueTypes, Operators
  <2>2. \A j \in DOMAIN queue["C"] : queue["C"][j] \in Transactions
    BY <2>1
  <2>3. \A t \in Transactions : t.age \in 0..MaxStuck
    BY DEF Transactions
  <2> QED BY <2>2, <2>3 DEF EpochAssumption
<1>3. checker'.phase = "decide" /\ slot'.exists /\ slot'.age > checker'.epochAge =>
          checker'.read.exists /\ checker'.read.score = slot'.score
  BY <1>1 DEF ChecksAreTrue
<1>4. ASSUME NEW i \in DOMAIN queue'["C"], queue'["C"][i].kind = "finalize", slot'.exists
      PROVE  slot'.score = "good" \/ slot'.age <= queue'["C"][i].age
  <2>1. PICK j \in DOMAIN queue["C"] : queue'["C"][i] = queue["C"][j]
    BY <1>4
  <2>2. CASE slot' = slot
    BY <1>4, <2>1, <2>2 DEF ChecksAreTrue
  <2>3. CASE slot'.age = 0
    BY <1>2, <2>1, <2>3
  <2> QED BY <1>4, <2>2, <2>3
<1> QED
  BY <1>3, <1>4 DEF ChecksAreTrue

LEMMA OwedShrinks ==
    ASSUME unscored \in Nat, InQueue("charge")' => InQueue("charge"),
           \/ unscored' = unscored
           \/ unscored' = unscored + 1 /\ InQueue("charge") /\ ~InQueue("charge")'
           \/ unscored' = 0
    PROVE  Owed \in Nat /\ Owed' \in Nat /\ Owed' <= Owed /\ unscored' <= Owed'
<1>1. CASE unscored' = unscored
  BY <1>1 DEF Owed
<1>2. CASE unscored' = unscored + 1 /\ InQueue("charge") /\ ~InQueue("charge")'
  BY <1>2 DEF Owed
<1>3. CASE unscored' = 0
  BY <1>3 DEF Owed
<1> QED
  BY <1>1, <1>2, <1>3

\* What the effects of a transaction leave in the slot.
LEMMA Effects ==
    ASSUME NEW op \in Operators, NEW tx \in Transactions
    PROVE  /\ tx.kind = "finalize" /\ Succeeds(op, tx) /\ Effect(op, tx) =>
                  slot' = EmptySlot /\ emptied'.by = op /\ unscored' = unscored /\ live' = slot.score /\ MayFinalize
           /\ tx.kind = "charge" /\ Effect(op, tx) =>
                  slot' = slot /\ live' = live /\ emptied' = emptied /\ unscored' = unscored + 1
           /\ tx.kind = "propose" /\ Succeeds(op, tx) /\ Effect(op, tx) =>
                  /\ live' = live /\ emptied' = emptied /\ unscored' = (IF op = "P" THEN 0 ELSE unscored)
                  /\ slot' = [exists |-> TRUE, by |-> op, score |-> tx.score, age |-> 0]
                  /\ (op = "P" => MayPropose(op)) /\ (op = "C" => MayFill(op))
<1>1. ASSUME tx.kind = "finalize", Succeeds(op, tx), Effect(op, tx)
      PROVE  slot' = EmptySlot /\ emptied'.by = op /\ unscored' = unscored /\ live' = slot.score /\ MayFinalize
  <2>1. Emptied(op) /\ live' = slot.score /\ UNCHANGED <<charged, unscored>> /\ MayFinalize
    BY <1>1 DEF Effect, Succeeds
  <2> QED BY <2>1 DEF Emptied
<1>2. ASSUME tx.kind = "charge", Effect(op, tx)
      PROVE  slot' = slot /\ live' = live /\ emptied' = emptied /\ unscored' = unscored + 1
  BY <1>2 DEF Effect
<1>3. ASSUME tx.kind = "propose", Succeeds(op, tx), Effect(op, tx)
      PROVE  /\ live' = live /\ emptied' = emptied /\ unscored' = (IF op = "P" THEN 0 ELSE unscored)
             /\ slot' = [exists |-> TRUE, by |-> op, score |-> tx.score, age |-> 0]
             /\ (op = "P" => MayPropose(op)) /\ (op = "C" => MayFill(op))
  BY <1>3 DEF Effect, Succeeds
<1> QED
  BY <1>1, <1>2, <1>3

LEMMA MineByPrimaryKeeps ==
    ASSUME EpochAssumption, EpochIInv, Mine("P")
    PROVE  EpochIInv'
<1> USE DEF EpochIInv
<1> DEFINE h == Head(queue["P"])
           result == IF Succeeds("P", h) THEN "landed" ELSE "reverted"
           awaited == primary.phase \in Awaits /\ primary.result = "none" /\ Len(queue["P"]) = 1
<1>0. "P" \in Operators
  BY DEF Operators
<1>1. /\ queue["P"] # <<>> /\ queue' = [queue EXCEPT !["P"] = Tail(@)] /\ UNCHANGED <<agent, authorized, faults>>
      /\ h \in Transactions
      /\ \/ Succeeds("P", h) /\ Effect("P", h)
         \/ ~Succeeds("P", h) /\ UNCHANGED <<slot, lastUpdated, live, charged, emptied, unscored>>
      /\ slot' \in Slots /\ lastUpdated' \in Nat /\ live' \in Scores \cup {"none"} /\ charged' \in BOOLEAN
      /\ unscored' \in Nat /\ emptied' \in [age : Nat, by : Operators \cup {"none", "slash", "committee"}]
      /\ slot' = slot \/ ~slot'.exists \/ slot'.age = 0
  BY <1>0, MinedTypes
<1>2. /\ QueueTypes' /\ queue'["C"] = queue["C"]
      /\ InQueue(h.kind)
      /\ \A k \in Kinds : InQueue(k)' => InQueue(k)
      /\ \A k \in Kinds : InQueue(k) /\ k # h.kind => InQueue(k)'
      /\ OneOfAKind => OneOfAKind'
      /\ \A k \in {"charge", "propose"} : OneOfAKind /\ h.kind = k => ~InQueue(k)'
      /\ Len(queue["P"]) = 1 => LastOf(queue["P"]) = h /\ queue'["P"] = <<>>
      /\ Len(queue["P"]) # 1 => queue'["P"] # <<>> /\ LastOf(queue'["P"]) = LastOf(queue["P"])
      /\ OneOfAKind /\ LastOf(queue["P"]).kind \in {"charge", "propose"} /\ LastOf(queue["P"]).kind = h.kind
             => Len(queue["P"]) = 1
  BY <1>1, MinedByPrimary DEF EpochTypes
<1>3. primary' = Told(primary, "P", result) /\ checker' = checker
  BY DEF Mine
<1>4. /\ primary' \in PrimaryStates /\ primary'.phase = primary.phase /\ primary'.stopped = primary.stopped
      /\ primary'.action = primary.action
      /\ primary'.result = IF awaited THEN result ELSE primary.result
  <2>1. result \in {"landed", "reverted"}
    OBVIOUS
  <2> HIDE DEF result
  <2> QED BY <1>3, <2>1, ToldTypes
<1>5. h.kind \in Kinds /\ h.score \in Scores
  BY <1>1 DEF Transactions
<1>6. OneOfAKind
  BY DEF QueueIsSound
<1>7. result # "none" /\ result # "unconfirmed" /\ (result = "landed" <=> Succeeds("P", h))
  OBVIOUS
<1>8. /\ h.kind = "finalize" => InQueue("charge")' = InQueue("charge") /\ InQueue("propose")' = InQueue("propose")
      /\ h.kind = "charge" => ~InQueue("charge")' /\ InQueue("charge") /\ InQueue("propose")' = InQueue("propose")
      /\ h.kind = "propose" => InQueue("charge")' = InQueue("charge") /\ InQueue("propose") /\ ~InQueue("propose")'
      /\ InQueue("charge")' => InQueue("charge")
      /\ InQueue("propose")' => InQueue("propose")
  BY <1>2, <1>5, <1>6 DEF Kinds, InQueue
<1>9. /\ h.kind = "finalize" /\ Succeeds("P", h) => ~slot'.exists /\ emptied'.by = "P" /\ unscored' = unscored
                                              /\ live' = slot.score /\ MayFinalize
      /\ h.kind = "charge" /\ Succeeds("P", h) => UNCHANGED <<slot, live, emptied>> /\ unscored' = unscored + 1
      /\ h.kind = "propose" /\ Succeeds("P", h) => UNCHANGED <<live, emptied>> /\ unscored' = 0
                                                    /\ slot'.by = "P" /\ slot'.age = 0 /\ MayPropose("P")
      /\ ~Succeeds("P", h) => UNCHANGED <<slot, live, emptied, unscored>>
  <2> HIDE DEF h, result
  <2>1. slot' = EmptySlot => ~slot'.exists
    <3>1. EmptySlot = [exists |-> FALSE, by |-> "P", score |-> "good", age |-> 0]
      BY DEF EmptySlot
    <3>2. ~EmptySlot.exists
      BY <3>1, Zenon
    <3> QED BY <3>2
  <2>2. CASE h.kind = "finalize" /\ Succeeds("P", h)
    BY <1>0, <1>1, <2>1, <2>2, Effects
  <2>3. CASE h.kind = "charge" /\ Succeeds("P", h)
    BY <1>0, <1>1, <2>3, Effects
  <2>4. CASE h.kind = "propose" /\ Succeeds("P", h)
    BY <1>0, <1>1, <2>4, Effects
  <2>5. CASE ~Succeeds("P", h)
    BY <1>1, <2>5
  <2> QED BY <2>2, <2>3, <2>4, <2>5
<1> HIDE DEF h, result
<1>10. QueueIsSound'
  <2>1. primary'.phase \in Awaits /\ primary'.result = "none" =>
            queue'["P"] # <<>> /\ LastOf(queue'["P"]).kind = Sent(primary'.phase)
    BY <1>2, <1>4, <1>7 DEF QueueIsSound
  <2> QED BY <1>2, <1>4, <1>6, <1>8, <2>1 DEF QueueIsSound
<1>11. WaitsItsOwnOut'
  <2>1. InQueue("propose")' => OwnIsLost'
    BY <1>1, <1>5, <1>8, <1>9 DEF WaitsItsOwnOut, OwnIsLost, Kinds
  <2>2. CASE primary.stopped
    BY <1>1, <1>4, <2>1, <2>2 DEF WaitsItsOwnOut
  <2>3. CASE ~primary.stopped
    <3>1. primary.phase \in {"guard", "finalizing", "score", "charging", "propose"} => h.kind # "propose"
      BY <1>8, <2>3 DEF QueueIsSound
    <3>2. h.kind # "propose" => ~slot'.exists \/ slot' = slot
      BY <1>5, <1>9 DEF Kinds
    <3>3. primary'.phase = "finalizing" /\ primary'.result = "landed" => ~(slot'.exists /\ slot'.by = "P")
      <4>1. CASE primary.phase = "finalizing" /\ awaited
        <5>1. h.kind = "finalize"
          BY <1>2, <4>1 DEF QueueIsSound, Sent
        <5> QED BY <1>4, <1>7, <1>9, <4>1, <5>1
      <4>2. CASE primary.phase = "finalizing" /\ ~awaited
        BY <1>4, <2>3, <3>1, <3>2, <4>2 DEF WaitsItsOwnOut
      <4> QED BY <1>4, <4>1, <4>2
    <3> QED BY <1>1, <1>4, <2>1, <2>3, <3>1, <3>2, <3>3 DEF WaitsItsOwnOut, OwnIsLost
  <2> QED BY <2>2, <2>3
<1>12. /\ Owed \in Nat /\ Owed' \in Nat /\ unscored' \in Nat /\ unscored' <= Owed'
       /\ faults' = faults /\ faults \in Nat /\ faults + 1 \in Nat
       /\ \A k \in Nat : Owed <= k => Owed' <= k
  <2>1. \/ unscored' = unscored
        \/ unscored' = unscored + 1 /\ InQueue("charge") /\ ~InQueue("charge")'
        \/ unscored' = 0
    BY <1>5, <1>8, <1>9 DEF Kinds
  <2>2. unscored \in Nat /\ faults \in Nat
    BY DEF EpochTypes
  <2>3. Owed \in Nat /\ Owed' \in Nat /\ Owed' <= Owed /\ unscored' <= Owed'
    BY <1>8, <2>1, <2>2, OwedShrinks
  <2>4. \A k \in Nat : Owed <= k => Owed' <= k
    <3>1. \A l, n, k \in Nat : l <= n /\ n <= k => l <= k
      OBVIOUS
    <3> QED BY <2>3, <3>1, Zenon
  <2>5. faults + 1 \in Nat
    BY <2>2
  <2> QED BY <1>1, <2>2, <2>3, <2>4, <2>5
<1>13. FeesAreUsed'
  <2>5. CASE Owed <= faults
    BY <1>12, <2>5, Zenon DEF FeesAreUsed
  <2>6. CASE ~(Owed <= faults)
    <3>1. /\ Owed <= faults + 1 /\ MayPropose("P")
          /\ \/ primary.phase = "charging" /\ primary.result # "unconfirmed"
             \/ primary.phase = "propose"
             \/ primary.phase = "proposing" /\ primary.result = "none"
          /\ primary.result = "none" /\ queue["P"] # <<>> /\ primary.phase # "propose" => ~LastOf(queue["P"]).replaced
      BY <2>6 DEF FeesAreUsed
    <3>2. MayPropose("P")' /\ Owed' <= faults' + 1
      <4>1. Owed' <= faults + 1
        BY <1>12, <3>1, Zenon
      <4> QED BY <1>1, <3>1, <4>1 DEF MayPropose
    <3>3. CASE primary.phase = "proposing" /\ awaited
      <4>1. h.kind = "propose"
        BY <1>2, <3>3 DEF QueueIsSound, Sent
      <4>2. Succeeds("P", h)
        BY <3>1, <4>1 DEF Succeeds
      <4>3. ~InQueue("charge")'
        BY <1>2, <3>3 DEF InQueue
      <4>4. Owed' = 0
        BY <1>9, <4>1, <4>2, <4>3 DEF Owed
      <4>5. Owed' <= faults
        BY <1>12, <4>4
      <4> QED BY <1>12, <4>5 DEF FeesAreUsed
    <3>4. CASE ~(primary.phase = "proposing" /\ awaited)
      <4>1. primary'.result = "none" /\ queue'["P"] # <<>> /\ primary'.phase # "propose" => ~LastOf(queue'["P"]).replaced
        BY <1>1, <1>2, <1>4, <1>7, <3>1
      <4>2. \/ primary'.phase = "charging" /\ primary'.result # "unconfirmed"
            \/ primary'.phase = "propose"
            \/ primary'.phase = "proposing" /\ primary'.result = "none"
        BY <1>4, <1>7, <3>1, <3>4
      <4> QED BY <3>2, <4>1, <4>2 DEF FeesAreUsed
    <3> QED BY <3>3, <3>4
  <2> QED BY <2>5, <2>6
<1>14. ChecksAreTrue'
  BY <1>1, <1>2, <1>3, ChecksOutlive
<1>15. EpochInv'
  <2>1. unscored' <= 1 + faults'
    <3>1. Owed' <= faults \/ Owed' <= faults + 1
      BY <1>12, <1>13 DEF FeesAreUsed
    <3>2. \A k, l, f \in Nat : k <= l /\ (l <= f \/ l <= f + 1) => k <= 1 + f
      OBVIOUS
    <3>3. unscored' <= 1 + faults
      BY <1>12, <3>1, <3>2, Zenon
    <3> QED BY <1>12, <3>3
  <2>2. (emptied'.by = "C" /\ live' # "none") => live' = "good"
    BY <1>5, <1>9 DEF EpochInv, Kinds
  <2>3. agent' = "slashed" => ~slot'.exists /\ live' = "none"
    BY <1>1, <1>5, <1>9 DEF EpochInv, Kinds, MayFinalize, MayPropose
  <2> QED BY <2>1, <2>2, <2>3 DEF EpochInv
<1>16. EpochTypes'
  BY <1>1, <1>2, <1>3, <1>4 DEF EpochTypes
<1> QED
  BY <1>10, <1>11, <1>13, <1>14, <1>15, <1>16

\* What is said of the primary, where a step leaves the primary and its queue alone.
LEMMA PrimaryStays ==
    ASSUME EpochTypes, QueueIsSound, FeesAreUsed, WaitsItsOwnOut,
           primary' = primary, queue'["P"] = queue["P"], unscored' = unscored, agent' = agent, authorized' = authorized,
           faults' = faults \/ faults' = faults + 1,
           slot' = slot \/ ~slot'.exists \/ slot'.by = "C",
           \A i \in DOMAIN queue'["C"] : queue'["C"][i].kind # "charge"
    PROVE  QueueIsSound' /\ FeesAreUsed' /\ WaitsItsOwnOut'
<1>1. (\A k : InQueue(k)' <=> InQueue(k)) /\ (OneOfAKind' <=> OneOfAKind)
  BY DEF InQueue, OneOfAKind
<1>2. QueueIsSound'
  BY <1>1 DEF QueueIsSound
<1>3. FeesAreUsed'
  <2>1. Owed' = Owed /\ faults \in Nat
    BY <1>1 DEF Owed, EpochTypes
  <2>2. Owed \in Nat
    BY DEF Owed, EpochTypes
  <2>3. MayPropose("P")' <=> MayPropose("P")
    BY DEF MayPropose
  <2>4. CASE faults' = faults
    BY <2>1, <2>3, <2>4 DEF FeesAreUsed
  <2>5. CASE faults' = faults + 1
    <3>1. Owed <= faults + 1
      BY <2>1, <2>2 DEF FeesAreUsed
    <3> QED BY <2>1, <2>5, <3>1 DEF FeesAreUsed
  <2> QED BY <2>4, <2>5
<1>4. OwnIsLost => OwnIsLost'
  <2>1. faults \in Nat /\ (faults >= 1 => faults' >= 1) /\ (faults >= 2 => faults' >= 2)
    BY DEF EpochTypes
  <2> QED BY <2>1 DEF OwnIsLost
<1>5. WaitsItsOwnOut'
  <2>1. faults \in Nat /\ (faults >= 1 => faults' >= 1)
    BY DEF EpochTypes
  <2> QED BY <1>1, <1>4, <2>1 DEF WaitsItsOwnOut
<1> QED
  BY <1>2, <1>3, <1>5

LEMMA MineByCheckerKeeps ==
    ASSUME EpochAssumption, EpochIInv, Mine("C")
    PROVE  EpochIInv'
<1> USE DEF EpochIInv
<1> DEFINE h == Head(queue["C"])
           result == IF Succeeds("C", h) THEN "landed" ELSE "reverted"
<1>0. "C" \in Operators
  BY DEF Operators
<1>1. /\ queue["C"] # <<>> /\ queue' = [queue EXCEPT !["C"] = Tail(@)] /\ UNCHANGED <<agent, authorized, faults>>
      /\ h \in Transactions
      /\ \/ Succeeds("C", h) /\ Effect("C", h)
         \/ ~Succeeds("C", h) /\ UNCHANGED <<slot, lastUpdated, live, charged, emptied, unscored>>
      /\ slot' \in Slots /\ lastUpdated' \in Nat /\ live' \in Scores \cup {"none"} /\ charged' \in BOOLEAN
      /\ unscored' \in Nat /\ emptied' \in [age : Nat, by : Operators \cup {"none", "slash", "committee"}]
      /\ slot' = slot \/ ~slot'.exists \/ slot'.age = 0
  BY <1>0, MinedTypes
<1>2. /\ QueueTypes' /\ queue'["P"] = queue["P"]
      /\ \A i \in DOMAIN queue'["C"] : \E j \in DOMAIN queue["C"] : queue'["C"][i] = queue["C"][j]
      /\ \E j \in DOMAIN queue["C"] : queue["C"][j] = h
  BY <1>1, MinedByChecker DEF EpochTypes
<1>3. primary' = primary /\ checker' = Told(checker, "C", result)
  BY DEF Mine
<1>4. /\ checker' \in CheckerStates /\ checker'.phase = checker.phase /\ checker'.epochAge = checker.epochAge
      /\ checker'.read = checker.read
  <2>1. result \in {"landed", "reverted"}
    OBVIOUS
  <2> HIDE DEF result
  <2> QED BY <1>3, <2>1, ToldTypes
<1> HIDE DEF h, result
<1>5. h.kind \in {"finalize", "propose"}
  <2>1. h.kind \in Kinds
    BY <1>1 DEF Transactions
  <2>2. h.kind # "charge"
    BY <1>2 DEF QueueIsSound
  <2> QED BY <2>1, <2>2 DEF Kinds
<1>6. ~EmptySlot.exists
  <2>1. EmptySlot = [exists |-> FALSE, by |-> "P", score |-> "good", age |-> 0]
    BY DEF EmptySlot
  <2> QED BY <2>1, Zenon
<1>7. CASE ~Succeeds("C", h)
  <2>1. UNCHANGED <<slot, live, emptied, unscored>>
    BY <1>1, <1>7
  <2>2. EpochInv'
    BY <1>1, <2>1, EpochStays
  <2>3. QueueIsSound' /\ FeesAreUsed' /\ WaitsItsOwnOut'
    BY <1>1, <1>2, <1>3, <2>1, PrimaryStays DEF QueueIsSound
  <2>4. ChecksAreTrue'
    BY <1>1, <1>2, <1>4, ChecksOutlive
  <2> QED BY <1>1, <1>2, <1>3, <1>4, <2>2, <2>3, <2>4 DEF EpochTypes
<1>8. CASE Succeeds("C", h) /\ h.kind = "finalize"
  <2>1. slot' = EmptySlot /\ emptied'.by = "C" /\ unscored' = unscored /\ live' = slot.score /\ MayFinalize
    BY <1>0, <1>1, <1>8, Effects
  <2>2. slot.score = "good"
    <3>1. slot.exists /\ slot.age >= W /\ slot.age \in Nat
      BY <2>1 DEF MayFinalize, EpochTypes, Slots
    <3>2. h.age \in 0..MaxStuck
      BY <1>1 DEF Transactions
    <3>3. slot.score = "good" \/ slot.age <= h.age
      BY <1>2, <1>8, <3>1 DEF ChecksAreTrue
    <3>4. ~(slot.age <= h.age)
      BY <3>1, <3>2 DEF EpochAssumption
    <3> QED BY <3>3, <3>4
  <2>3. EpochInv'
    <3>1. unscored' <= 1 + faults'
      BY <1>1, <2>1 DEF EpochInv
    <3>2. agent' # "slashed"
      BY <1>1, <2>1 DEF MayFinalize
    <3> QED BY <2>1, <2>2, <3>1, <3>2 DEF EpochInv
  <2>4. QueueIsSound' /\ FeesAreUsed' /\ WaitsItsOwnOut'
    BY <1>1, <1>2, <1>3, <1>6, <2>1, PrimaryStays DEF QueueIsSound
  <2>5. ChecksAreTrue'
    BY <1>1, <1>2, <1>4, ChecksOutlive
  <2> QED BY <1>1, <1>2, <1>3, <1>4, <2>3, <2>4, <2>5 DEF EpochTypes
<1>9. CASE Succeeds("C", h) /\ h.kind = "propose"
  <2>1. /\ live' = live /\ emptied' = emptied /\ unscored' = unscored /\ MayFill("C")
        /\ slot' = [exists |-> TRUE, by |-> "C", score |-> h.score, age |-> 0]
    BY <1>0, <1>1, <1>9, Effects
  <2>2. slot'.by = "C"
    BY <2>1
  <2>3. EpochInv'
    <3>1. unscored' <= 1 + faults'
      BY <1>1, <2>1 DEF EpochInv
    <3>2. agent' # "slashed"
      BY <1>1, <2>1 DEF MayFill, MayPropose
    <3> QED BY <2>1, <3>1, <3>2 DEF EpochInv
  <2>4. QueueIsSound' /\ FeesAreUsed' /\ WaitsItsOwnOut'
    BY <1>1, <1>2, <1>3, <2>1, <2>2, PrimaryStays DEF QueueIsSound
  <2>5. ChecksAreTrue'
    BY <1>1, <1>2, <1>4, ChecksOutlive
  <2> QED BY <1>1, <1>2, <1>3, <1>4, <2>3, <2>4, <2>5 DEF EpochTypes
<1> QED
  BY <1>5, <1>7, <1>8, <1>9

LEMMA ReplaceKeeps ==
    ASSUME EpochAssumption, EpochIInv, NEW op \in Operators, Replace(op)
    PROVE  EpochIInv'
<1> USE DEF EpochIInv
<1>1. /\ UNCHANGED <<slot, lastUpdated, live, agent, authorized, charged, emptied, unscored, primary, checker>>
      /\ faults' = faults + 1 /\ faults \in Nat /\ faults' \in Nat
      /\ queue[op] # <<>> /\ queue' = [queue EXCEPT ![op] = Replacement(@)]
  BY DEF Replace, chainVars, EpochTypes
<1>2. /\ QueueTypes'
      /\ queue["P"] # <<>> => queue'["P"] # <<>> /\ LastOf(queue'["P"]).kind = LastOf(queue["P"]).kind
      /\ \A k : InQueue(k)' <=> InQueue(k)
      /\ OneOfAKind => OneOfAKind'
      /\ DOMAIN queue'["C"] = DOMAIN queue["C"]
      /\ \A i \in DOMAIN queue["C"] :
             queue'["C"][i].kind = queue["C"][i].kind /\ queue'["C"][i].age = queue["C"][i].age
  BY <1>1, ReplacedInQueue DEF EpochTypes
<1>3. QueueIsSound'
  BY <1>1, <1>2 DEF QueueIsSound
<1>4. FeesAreUsed'
  <2>1. Owed' = Owed /\ Owed \in Nat
    BY <1>1, <1>2 DEF Owed, EpochTypes
  <2>2. Owed <= faults + 1
    BY <1>1, <2>1 DEF FeesAreUsed
  <2> QED BY <1>1, <2>1, <2>2 DEF FeesAreUsed
<1>5. WaitsItsOwnOut'
  <2>1. (faults >= 1 => faults' >= 1) /\ (faults >= 2 => faults' >= 2)
    BY <1>1
  <2> QED BY <1>1, <1>2, <2>1 DEF WaitsItsOwnOut, OwnIsLost
<1>6. ChecksAreTrue'
  BY <1>1, <1>2 DEF ChecksAreTrue
<1>7. EpochInv'
  BY <1>1, EpochStays
<1> QED
  BY <1>1, <1>2, <1>3, <1>4, <1>5, <1>6, <1>7 DEF EpochTypes

LEMMA GiveUpKeeps ==
    ASSUME EpochAssumption, EpochIInv, NEW op \in Operators, GiveUp(op)
    PROVE  EpochIInv'
<1> USE DEF EpochIInv
<1>1. UNCHANGED <<slot, lastUpdated, live, agent, authorized, charged, emptied, unscored, queue, faults>>
  BY DEF GiveUp, chainVars
<1>2. "unconfirmed" \in Results
  BY DEF Results
<1>3. CASE op = "P"
  <2>1. /\ primary.phase \in Awaits /\ queue["P"] # <<>> /\ primary.result = "none" /\ LastOf(queue["P"]).replaced
        /\ primary' = [primary EXCEPT !.result = "unconfirmed"] /\ checker' = checker
    BY <1>3 DEF GiveUp, Process, LastOf
  <2>2. /\ primary' \in PrimaryStates /\ primary'.phase = primary.phase /\ primary'.result = "unconfirmed"
        /\ primary'.action = primary.action
    BY <1>2, <2>1 DEF EpochTypes, PrimaryStates
  <2>3. primary'.stopped = primary.stopped
    BY <2>1, Zenon DEF EpochTypes, PrimaryStates
  <2>4. (\A k : InQueue(k)' <=> InQueue(k)) /\ (OneOfAKind' <=> OneOfAKind)
    BY <1>1 DEF InQueue, OneOfAKind
  <2>5. QueueIsSound'
    BY <1>1, <2>1, <2>2, <2>3, <2>4 DEF QueueIsSound
  <2>6. FeesAreUsed'
    <3>1. Owed' = Owed
      BY <1>1, <2>4 DEF Owed
    <3>2. Owed <= faults
      BY <2>1 DEF FeesAreUsed, Awaits
    <3> QED BY <1>1, <3>1, <3>2 DEF FeesAreUsed
  <2>7. WaitsItsOwnOut'
    BY <1>1, <2>1, <2>2, <2>3, <2>4 DEF WaitsItsOwnOut, OwnIsLost
  <2> QED BY <1>1, <2>1, <2>2, <2>5, <2>6, <2>7, ChecksStay, EpochStays DEF EpochTypes, QueueTypes
<1>4. CASE op = "C"
  <2>1. checker' = [checker EXCEPT !.result = "unconfirmed"] /\ primary' = primary
    BY <1>4 DEF GiveUp
  <2>2. checker' \in CheckerStates /\ checker'.phase = checker.phase /\ checker'.epochAge = checker.epochAge
            /\ checker'.read = checker.read
    BY <1>2, <2>1 DEF EpochTypes, CheckerStates
  <2>3. QueueIsSound' /\ FeesAreUsed' /\ WaitsItsOwnOut'
    BY <1>1, <2>1, PrimaryStays DEF QueueIsSound
  <2>4. ChecksAreTrue'
    BY <1>1, <2>2, ChecksOutlive
  <2> QED BY <1>1, <2>1, <2>2, <2>3, <2>4, EpochStays DEF EpochTypes, QueueTypes
<1> QED
  BY <1>3, <1>4 DEF Operators

------------------------------------------------------------------------------
(* The checker's epoch.                                                    *)

\* A step of the checker's that sends nothing.
LEMMA CheckerStays ==
    ASSUME EpochAssumption, EpochIInv, checker' \in CheckerStates, faults' = faults \/ faults' = faults + 1,
           UNCHANGED <<slot, lastUpdated, live, agent, authorized, charged, emptied, unscored, queue, primary>>,
           checker'.phase = "decide" /\ slot.exists /\ slot.age > checker'.epochAge =>
               checker'.read.exists /\ checker'.read.score = slot.score
    PROVE  EpochIInv'
<1> USE DEF EpochIInv
<1>1. QueueIsSound' /\ FeesAreUsed' /\ WaitsItsOwnOut'
  BY PrimaryStays DEF QueueIsSound
<1>2. ChecksAreTrue'
  BY DEF ChecksAreTrue
<1>3. faults' \in Nat
  BY DEF EpochTypes
<1> QED
  BY <1>1, <1>2, <1>3, EpochStays DEF EpochTypes, QueueTypes

LEMMA CheckerEnds ==
    ASSUME EpochAssumption, NEW c \in CheckerStates, CheckerDone(c)
    PROVE  checker' \in CheckerStates /\ checker'.phase = "idle"
<1>1. EmptySlot \in Slots
  BY DEF EmptySlot, Slots, Operators, Scores
<1>2. 0 \in 0..MaxEpoch
  BY DEF EpochAssumption
<1> QED
  BY <1>1, <1>2 DEF CheckerDone, CheckerStates, CheckerPhases, Results

LEMMA CheckerMoves ==
    ASSUME NEW c \in CheckerStates, NEW phase \in CheckerPhases, CheckerAt(c, phase)
    PROVE  checker' \in CheckerStates /\ checker'.phase = phase
  BY DEF CheckerAt, CheckerStates, Results

LEMMA StartCheckerKeeps ==
    ASSUME EpochAssumption, EpochIInv, StartChecker
    PROVE  EpochIInv'
<1>1. UNCHANGED <<slot, lastUpdated, live, agent, authorized, charged, emptied, unscored, queue, primary, faults>>
  BY DEF StartChecker, chainVars
<1>2. checker \in CheckerStates /\ 0 \in 0..MaxEpoch
  BY DEF EpochIInv, EpochTypes, EpochAssumption
<1>3. checker' \in CheckerStates /\ checker'.phase = "read"
  BY <1>2 DEF StartChecker, CheckerStates, CheckerPhases
<1> QED
  BY <1>1, <1>3, CheckerStays

LEMMA ReadSlotKeeps ==
    ASSUME EpochAssumption, EpochIInv, ReadSlot
    PROVE  EpochIInv'
<1>1. UNCHANGED <<slot, lastUpdated, live, agent, authorized, charged, emptied, unscored, queue, primary, faults>>
  BY DEF ReadSlot, chainVars
<1>2. checker \in CheckerStates /\ slot \in Slots
  BY DEF EpochIInv, EpochTypes
<1>3. CASE CheckerDone(checker)
  BY <1>1, <1>2, <1>3, CheckerEnds, CheckerStays
<1>4. CASE checker' = [checker EXCEPT !.phase = "decide", !.read = ReadPending]
  <2>1. slot.age \in Nat /\ checker.epochAge \in Nat
    BY <1>2 DEF Slots, CheckerStates, EpochAssumption
  <2> DEFINE a == IF slot.age >= checker.epochAge THEN slot.age - checker.epochAge ELSE 0
  <2>2. a \in Nat
    BY <2>1
  <2>3. ReadPending = [slot EXCEPT !.age = a]
    BY DEF ReadPending
  <2> HIDE DEF a
  <2>4. ReadPending \in Slots /\ ReadPending.score = slot.score
    BY <1>2, <2>2, <2>3 DEF Slots
  <2>5. ReadPending.exists = slot.exists
    BY <1>2, <2>3, Zenon DEF Slots
  <2>6. checker' \in CheckerStates /\ checker'.read = ReadPending
    BY <1>2, <1>4, <2>4 DEF CheckerStates, CheckerPhases
  <2> QED BY <1>1, <2>4, <2>5, <2>6, CheckerStays
<1> QED
  BY <1>3, <1>4 DEF ReadSlot

LEMMA RememberedType ==
    ASSUME EpochAssumption, EpochTypes
    PROVE  Remembered \in CheckerStates
<1>1. checker \in CheckerStates
  BY DEF EpochTypes
<1>2. Never \in Nat /\ checker.epochAge \in Nat
  BY <1>1 DEF Never, MaxAge, EpochAssumption, CheckerStates
<1>3. [checker EXCEPT !.emptySeen = Never, !.coveringLate = FALSE] \in CheckerStates
  BY <1>1, <1>2 DEF CheckerStates
<1>4. [checker EXCEPT !.emptySeen = checker.epochAge] \in CheckerStates
  BY <1>1, <1>2 DEF CheckerStates
<1> QED
  BY <1>1, <1>3, <1>4 DEF Remembered

\* A finalize or a proposal the checker sends.
LEMMA CheckerSends ==
    ASSUME EpochAssumption, EpochIInv, NEW kind \in {"finalize", "propose"}, Send("C", kind, "good"),
           checker' \in CheckerStates, checker'.phase # "decide",
           kind = "finalize" => slot.score = "good",
           UNCHANGED <<slot, lastUpdated, live, agent, authorized, charged, emptied, unscored, primary, faults>>
    PROVE  EpochIInv'
<1> USE DEF EpochIInv
<1>1. /\ QueueTypes' /\ queue'["P"] = queue["P"]
      /\ \A i \in DOMAIN queue'["C"] :
             \/ i \in DOMAIN queue["C"] /\ queue'["C"][i] = queue["C"][i]
             \/ queue'["C"][i].kind = kind /\ queue'["C"][i].age = 0
  BY SendByChecker DEF EpochTypes, Kinds, Scores
<1>2. QueueIsSound' /\ FeesAreUsed' /\ WaitsItsOwnOut'
  <2>1. \A i \in DOMAIN queue'["C"] : queue'["C"][i].kind # "charge"
    BY <1>1 DEF QueueIsSound
  <2> QED BY <1>1, <2>1, PrimaryStays
<1>3. ChecksAreTrue'
  BY <1>1 DEF ChecksAreTrue
<1> QED
  BY <1>1, <1>2, <1>3, EpochStays DEF EpochTypes

LEMMA DecideKeeps ==
    ASSUME EpochAssumption, EpochIInv, Decide
    PROVE  EpochIInv'
<1>1. /\ UNCHANGED <<slot, lastUpdated, live, agent, authorized, charged, emptied, unscored, primary, faults>>
      /\ checker.phase = "decide"
  BY DEF Decide, chainVars
<1>2. EpochTypes /\ Remembered \in CheckerStates
  BY RememberedType DEF EpochIInv
<1>3. CASE Decision = "finalize" /\ MayFinalize /\ CheckerAt(Remembered, "finalizing") /\ Send("C", "finalize", "good")
  <2>1. FreshPending.exists /\ FreshPending.score = "good"
    BY <1>3 DEF Decision, Agrees
  <2>2. FreshPending = checker.read
    <3>1. ~EmptySlot.exists
      <4>1. EmptySlot = [exists |-> FALSE, by |-> "P", score |-> "good", age |-> 0]
        BY DEF EmptySlot
      <4> QED BY <4>1, Zenon
    <3> QED BY <2>1, <3>1 DEF FreshPending
  <2>3. slot.exists /\ slot.age > checker.epochAge
    <3>1. slot.age \in Nat /\ checker.epochAge \in 0..MaxEpoch
      BY <1>2 DEF EpochTypes, Slots, CheckerStates
    <3>2. slot.exists /\ slot.age >= W
      BY <1>3 DEF MayFinalize
    <3> QED BY <3>1, <3>2 DEF EpochAssumption
  <2>4. slot.score = "good"
    BY <1>1, <2>1, <2>2, <2>3 DEF EpochIInv, ChecksAreTrue
  <2>5. checker' \in CheckerStates /\ checker'.phase = "finalizing"
    BY <1>2, <1>3, CheckerMoves DEF CheckerPhases
  <2> QED BY <1>1, <1>3, <2>4, <2>5, CheckerSends
<1>4. CASE CheckerAt([Remembered EXCEPT !.stranded = Stranded], "proposing") /\ Send("C", "propose", "good")
  <2>1. [Remembered EXCEPT !.stranded = Stranded] \in CheckerStates
    <3>1. Stranded \in BOOLEAN
      BY DEF Stranded
    <3> HIDE DEF Stranded
    <3> QED BY <1>2, <3>1 DEF CheckerStates
  <2>2. checker' \in CheckerStates /\ checker'.phase = "proposing"
    BY <1>4, <2>1, CheckerMoves DEF CheckerPhases
  <2> QED BY <1>1, <1>4, <2>2, CheckerSends
<1>5. CASE CheckerDone(Remembered) /\ UNCHANGED queue
  BY <1>1, <1>2, <1>5, CheckerEnds, CheckerStays
<1> QED
  BY <1>3, <1>4, <1>5 DEF Decide

LEMMA CheckerWroteKeeps ==
    ASSUME EpochAssumption, EpochIInv, CheckerWrote
    PROVE  EpochIInv'
<1>1. UNCHANGED <<slot, lastUpdated, live, agent, authorized, charged, emptied, unscored, queue, primary, faults>>
  BY DEF CheckerWrote, chainVars
<1> DEFINE late == checker.coveringLate \/ (checker.phase = "finalizing" /\ checker.result = "landed")
           c == [checker EXCEPT !.coveringLate = late]
<1>2. c \in CheckerStates
  <2>1. checker \in CheckerStates /\ late \in BOOLEAN
    BY DEF EpochIInv, EpochTypes
  <2> HIDE DEF late
  <2> QED BY <2>1 DEF CheckerStates
<1>3. CheckerDone(c)
  BY DEF CheckerWrote
<1> HIDE DEF c
<1> QED
  BY <1>1, <1>2, <1>3, CheckerEnds, CheckerStays

LEMMA ForgetfulType ==
    ASSUME EpochAssumption
    PROVE  Forgetful \in CheckerStates /\ Forgetful.phase = "idle"
<1>1. Never \in Nat /\ CheckerEvery \in Nat /\ 0 \in 0..MaxEpoch
  BY DEF Never, MaxAge, EpochAssumption
<1>2. EmptySlot \in Slots
  BY DEF EmptySlot, Slots, Operators, Scores
<1> QED
  BY <1>1, <1>2 DEF Forgetful, CheckerStates, CheckerPhases, Results

LEMMA RestartCheckerKeeps ==
    ASSUME EpochAssumption, EpochIInv, RestartChecker
    PROVE  EpochIInv'
<1>1. /\ UNCHANGED <<slot, lastUpdated, live, agent, authorized, charged, emptied, unscored, queue, primary>>
      /\ faults' = faults + 1 /\ checker' = Forgetful
  BY DEF RestartChecker, chainVars
<1> QED
  BY <1>1, ForgetfulType, CheckerStays

------------------------------------------------------------------------------
(* The world.                                                              *)

\* A step that empties the slot, or changes who may propose at the price of an intervention.
LEMMA WorldMoves ==
    ASSUME EpochAssumption, EpochIInv, UNCHANGED <<unscored, queue, primary, checker>>,
           \/ faults' = faults + 1 /\ agent' \in {"bonded", "unbonded", "slashed"} /\ authorized' \in BOOLEAN
           \/ faults' = faults /\ agent' = agent /\ authorized' = authorized,
           slot' = slot \/ slot' = EmptySlot
    PROVE  QueueTypes' /\ slot' \in Slots /\ faults' \in Nat
           /\ QueueIsSound' /\ FeesAreUsed' /\ WaitsItsOwnOut' /\ ChecksAreTrue'
<1> USE DEF EpochIInv
<1>1. ~EmptySlot.exists /\ EmptySlot \in Slots
  <2>1. EmptySlot = [exists |-> FALSE, by |-> "P", score |-> "good", age |-> 0]
    BY DEF EmptySlot
  <2>2. EmptySlot \in Slots
    BY <2>1 DEF Slots, Operators, Scores
  <2> QED BY <2>1, <2>2, Zenon
<1>2. QueueTypes' /\ slot' \in Slots /\ faults' \in Nat /\ faults \in Nat
  BY <1>1 DEF EpochTypes, QueueTypes
<1>3. ChecksAreTrue'
  <2>1. slot' = slot \/ ~slot'.exists
    BY <1>1
  <2> QED BY <2>1 DEF ChecksAreTrue
<1>4. (\A k : InQueue(k)' <=> InQueue(k)) /\ (OneOfAKind' <=> OneOfAKind)
  BY DEF InQueue, OneOfAKind
<1>5. QueueIsSound'
  BY <1>4 DEF QueueIsSound
<1>6. FeesAreUsed'
  <2>1. Owed' = Owed /\ Owed \in Nat
    BY <1>4 DEF Owed, EpochTypes
  <2>2. CASE faults' = faults + 1
    <3>1. Owed <= faults + 1
      BY <1>2, <2>1 DEF FeesAreUsed
    <3> QED BY <2>1, <2>2, <3>1 DEF FeesAreUsed
  <2>3. CASE faults' = faults /\ agent' = agent /\ authorized' = authorized
    BY <2>1, <2>3 DEF FeesAreUsed, MayPropose
  <2> QED BY <2>2, <2>3
<1>7. WaitsItsOwnOut'
  <2>1. faults >= 1 => faults' >= 1
    BY <1>2
  <2>2. ~authorized' => faults' >= 1
    BY <1>2 DEF WaitsItsOwnOut
  <2>3. OwnIsLost => OwnIsLost'
    <3>1. CASE faults' = faults /\ authorized' = authorized
      BY <1>1, <3>1 DEF OwnIsLost
    <3>2. CASE faults' = faults + 1
      <4>1. (faults >= 1 => faults' >= 2) /\ (faults >= 1 => faults' >= 1)
        BY <1>2, <3>2
      <4> QED BY <1>1, <4>1 DEF OwnIsLost
    <3> QED BY <3>1, <3>2
  <2> QED BY <1>1, <1>4, <2>1, <2>2, <2>3 DEF WaitsItsOwnOut
<1> QED
  BY <1>2, <1>3, <1>5, <1>6, <1>7

LEMMA InterveneKeeps ==
    ASSUME EpochAssumption, EpochIInv, Intervene
    PROVE  EpochIInv'
<1>0. EpochTypes /\ EpochInv
  BY DEF EpochIInv
<1>1. UNCHANGED <<charged, unscored, queue, primary, checker>> /\ faults' = faults + 1
  BY DEF Intervene
<1>2. \/ agent' \in {"bonded", "unbonded"} /\ agent # "slashed" /\ UNCHANGED <<slot, live, lastUpdated, emptied, authorized>>
      \/ authorized' = ~authorized /\ UNCHANGED <<slot, live, lastUpdated, emptied, agent>>
      \/ /\ agent' = "slashed" /\ slot' = EmptySlot /\ emptied' = [age |-> 0, by |-> "slash"]
         /\ live' = "none" /\ lastUpdated' = 0 /\ authorized' = authorized
  BY DEF Intervene, Emptied
<1>3. agent' \in {"bonded", "unbonded", "slashed"} /\ authorized' \in BOOLEAN /\ (slot' = slot \/ slot' = EmptySlot)
  BY <1>0, <1>2 DEF EpochTypes
<1>4. /\ QueueTypes' /\ slot' \in Slots /\ faults' \in Nat
      /\ QueueIsSound' /\ FeesAreUsed' /\ WaitsItsOwnOut' /\ ChecksAreTrue'
  BY <1>1, <1>3, WorldMoves
<1>5. EpochTypes'
  <2>1. lastUpdated' \in Nat /\ live' \in Scores \cup {"none"}
        /\ emptied' \in [age : Nat, by : Operators \cup {"none", "slash", "committee"}]
    BY <1>0, <1>2 DEF EpochTypes
  <2> QED BY <1>0, <1>1, <1>3, <1>4, <2>1 DEF EpochTypes
<1>6. EpochInv'
  <2>1. unscored' <= 1 + faults'
    <3>1. unscored \in Nat /\ faults \in Nat /\ unscored <= 1 + faults
      BY <1>0 DEF EpochTypes, EpochInv
    <3> QED BY <1>1, <3>1
  <2>2. ~EmptySlot.exists
    <3>1. EmptySlot = [exists |-> FALSE, by |-> "P", score |-> "good", age |-> 0]
      BY DEF EmptySlot
    <3> QED BY <3>1, Zenon
  <2>3. (emptied'.by = "C" /\ live' # "none") => live' = "good"
    BY <1>0, <1>2 DEF EpochInv
  <2>4. agent' = "slashed" => ~slot'.exists /\ live' = "none"
    BY <1>0, <1>2, <2>2 DEF EpochInv
  <2> QED BY <2>1, <2>3, <2>4 DEF EpochInv
<1> QED
  BY <1>4, <1>5, <1>6 DEF EpochIInv

LEMMA RejectReputationKeeps ==
    ASSUME EpochAssumption, EpochIInv, RejectReputation
    PROVE  EpochIInv'
<1>0. EpochTypes /\ EpochInv
  BY DEF EpochIInv
<1>1. /\ UNCHANGED <<lastUpdated, live, agent, authorized, charged, unscored, queue, primary, checker, faults>>
      /\ slot' = EmptySlot /\ emptied' = [age |-> 0, by |-> "committee"]
  BY DEF RejectReputation, Emptied
<1>2. /\ QueueTypes' /\ slot' \in Slots /\ faults' \in Nat
      /\ QueueIsSound' /\ FeesAreUsed' /\ WaitsItsOwnOut' /\ ChecksAreTrue'
  BY <1>1, WorldMoves
<1>3. EpochTypes'
  BY <1>0, <1>1, <1>2 DEF EpochTypes
<1>4. EpochInv'
  <2>1. ~EmptySlot.exists
    <3>1. EmptySlot = [exists |-> FALSE, by |-> "P", score |-> "good", age |-> 0]
      BY DEF EmptySlot
    <3> QED BY <3>1, Zenon
  <2> QED BY <1>0, <1>1, <2>1 DEF EpochInv
<1> QED
  BY <1>2, <1>3, <1>4 DEF EpochIInv

LEMMA OlderIs ==
    ASSUME EpochAssumption, NEW a \in Nat
    PROVE  /\ Older(a) \in Nat /\ Older(a) # 0 /\ Older(a) <= a + 1
           /\ a >= W => Older(a) >= W
<1>1. MaxAge \in Nat /\ MaxAge > W /\ W \in Nat
  BY DEF MaxAge, EpochAssumption
<1> QED
  BY <1>1 DEF Older

LEMMA TickKeeps ==
    ASSUME EpochAssumption, EpochIInv, Tick
    PROVE  EpochIInv'
<1> USE DEF EpochIInv
<1>1. /\ UNCHANGED <<live, agent, authorized, unscored, faults>> /\ charged' = FALSE
      /\ lastUpdated' = Older(lastUpdated) /\ emptied' = [emptied EXCEPT !.age = Older(@)]
      /\ slot' = IF slot.exists THEN [slot EXCEPT !.age = Older(@)] ELSE slot
      /\ checker.phase # "idle" => checker.epochAge < MaxEpoch
  BY DEF Tick
<1>2. /\ QueueTypes'
      /\ (queue'["P"] # <<>> <=> queue["P"] # <<>>)
      /\ queue["P"] # <<>> => LastOf(queue'["P"]).kind = LastOf(queue["P"]).kind
                              /\ LastOf(queue'["P"]).replaced = LastOf(queue["P"]).replaced
      /\ \A k : InQueue(k)' <=> InQueue(k)
      /\ OneOfAKind => OneOfAKind'
      /\ DOMAIN queue'["C"] = DOMAIN queue["C"]
      /\ \A i \in DOMAIN queue["C"] :
             /\ queue'["C"][i].kind = queue["C"][i].kind /\ queue'["C"][i].age = queue["C"][i].age + 1
             /\ queue["C"][i] \in Transactions
  <2>1. /\ \A op \in Operators : \A i \in 1..Len(queue[op]) : queue[op][i].age < MaxStuck
        /\ queue' = [op \in Operators |-> [i \in 1..Len(queue[op]) |-> [queue[op][i] EXCEPT !.age = @ + 1]]]
    BY DEF Tick
  <2> QED BY <2>1, AgedInQueue DEF EpochTypes
<1>3. /\ slot \in Slots /\ slot' \in Slots /\ slot.age \in Nat
      /\ slot'.by = slot.by /\ slot'.score = slot.score
      /\ (slot' = slot /\ ~slot.exists) \/ (slot.exists /\ slot'.age = Older(slot.age))
  <2>1. slot \in Slots /\ slot.age \in Nat
    BY DEF EpochTypes, Slots
  <2>2. Older(slot.age) \in Nat
    BY <2>1, OlderIs
  <2>3. LET s == [slot EXCEPT !.age = Older(slot.age)] IN
        s \in Slots /\ s.by = slot.by /\ s.score = slot.score /\ s.age = Older(slot.age)
    BY <2>1, <2>2 DEF Slots
  <2>4. CASE slot.exists
    <3>1. slot' = [slot EXCEPT !.age = Older(slot.age)]
      BY <1>1, <2>4
    <3>2. slot' \in Slots /\ slot'.by = slot.by /\ slot'.score = slot.score /\ slot'.age = Older(slot.age)
      BY <2>3, <3>1
    <3> QED BY <2>1, <2>4, <3>2, Zenon
  <2>5. CASE ~slot.exists
    <3>1. slot' = slot
      BY <1>1, <2>5
    <3> QED BY <2>1, <2>5, <3>1, Zenon
  <2> QED BY <2>4, <2>5
<1>4. slot'.exists = slot.exists
  <2>1. slot \in Slots
    BY DEF EpochTypes
  <2>2. [slot EXCEPT !.age = Older(slot.age)].exists = slot.exists
    BY <2>1, Zenon DEF Slots
  <2> QED BY <1>1, <2>2
<1>5. /\ primary' \in PrimaryStates /\ primary'.phase = primary.phase /\ primary'.result = primary.result
      /\ primary'.action = primary.action
  <2>1. primary' = IF primary.phase = "idle" THEN primary ELSE [primary EXCEPT !.epochAge = @ + 1]
    BY DEF Tick
  <2> QED BY <2>1 DEF EpochTypes, PrimaryStates
<1>6. primary'.stopped = primary.stopped
  <2>1. primary' = primary \/ primary' = [primary EXCEPT !.epochAge = @ + 1]
    BY DEF Tick
  <2>2. primary \in PrimaryStates
    BY DEF EpochTypes
  <2> QED BY <2>1, <2>2, Zenon DEF PrimaryStates
<1>7. /\ checker' \in CheckerStates /\ checker'.phase = checker.phase /\ checker'.read = checker.read
      /\ checker.phase = "decide" => checker'.epochAge = checker.epochAge + 1
  <2>1. checker \in CheckerStates
    BY DEF EpochTypes
  <2> DEFINE l == IF agent = "slashed" THEN checker.lookAge ELSE checker.lookAge + 1
             e == IF checker.phase = "idle" THEN 0 ELSE checker.epochAge + 1
             s == IF checker.emptySeen = Never THEN Never ELSE Older(checker.emptySeen)
  <2>2. checker' = [checker EXCEPT !.lookAge = l, !.epochAge = e, !.emptySeen = s]
    BY DEF Tick
  <2>3. l \in Nat
    BY <2>1 DEF CheckerStates
  <2>4. e \in 0..MaxEpoch /\ (checker.phase = "decide" => e = checker.epochAge + 1)
    <3>1. checker.epochAge \in 0..MaxEpoch /\ MaxEpoch \in Nat
      BY <2>1 DEF CheckerStates, EpochAssumption
    <3> QED BY <1>1, <3>1
  <2>5. s \in Nat
    <3>1. checker.emptySeen \in Nat /\ Never \in Nat
      BY <2>1 DEF CheckerStates, Never, MaxAge, EpochAssumption
    <3> QED BY <3>1, OlderIs
  <2> HIDE DEF l, e, s
  <2> QED BY <2>1, <2>2, <2>3, <2>4, <2>5 DEF CheckerStates
<1>8. QueueIsSound'
  BY <1>2, <1>5, <1>6 DEF QueueIsSound
<1>9. FeesAreUsed'
  <2>1. Owed' = Owed /\ (MayPropose("P")' <=> MayPropose("P"))
    BY <1>1, <1>2 DEF Owed, MayPropose
  <2> QED BY <1>1, <1>2, <1>5, <2>1 DEF FeesAreUsed
<1>10. WaitsItsOwnOut'
  <2>1. slot.exists /\ slot.age >= W => slot'.age >= W
    BY <1>3, OlderIs
  <2>2. OwnIsLost => OwnIsLost'
    BY <1>1, <1>3, <1>4, <2>1 DEF OwnIsLost
  <2> QED BY <1>1, <1>2, <1>3, <1>4, <1>5, <1>6, <2>2 DEF WaitsItsOwnOut
<1>11. ChecksAreTrue'
  <2>1. slot.exists => slot'.age <= slot.age + 1 /\ slot'.age \in Nat
    BY <1>3, OlderIs
  <2>2. \A a, b, c \in Nat : a <= b + 1 /\ a > c + 1 => b > c
    OBVIOUS
  <2>3. \A a, b, c \in Nat : a <= b + 1 /\ b <= c => a <= c + 1
    OBVIOUS
  <2>4. checker.epochAge \in Nat
    BY DEF EpochTypes, CheckerStates, EpochAssumption
  <2>5. ASSUME checker'.phase = "decide", slot'.exists, slot'.age > checker'.epochAge
        PROVE  checker'.read.exists /\ checker'.read.score = slot'.score
    <3>1. slot.age > checker.epochAge
      <4>1. slot'.age > checker.epochAge + 1
        BY <1>7, <2>5
      <4> QED BY <1>3, <1>4, <2>1, <2>2, <2>4, <2>5, <4>1, Zenon
    <3> QED BY <1>3, <1>4, <1>7, <2>5, <3>1 DEF ChecksAreTrue
  <2>6. ASSUME NEW i \in DOMAIN queue'["C"], queue'["C"][i].kind = "finalize", slot'.exists
        PROVE  slot'.score = "good" \/ slot'.age <= queue'["C"][i].age
    <3>1. slot.score = "good" \/ slot.age <= queue["C"][i].age
      BY <1>2, <1>4, <2>6 DEF ChecksAreTrue
    <3>2. queue["C"][i].age \in Nat
      BY <1>2, <2>6 DEF Transactions, EpochAssumption
    <3>3. slot.age <= queue["C"][i].age => slot'.age <= queue["C"][i].age + 1
      BY <1>3, <1>4, <2>1, <2>3, <2>6, <3>2, Zenon
    <3> QED BY <1>2, <1>3, <2>6, <3>1, <3>3
  <2> QED BY <2>5, <2>6 DEF ChecksAreTrue
<1>12. EpochInv'
  <2>1. emptied'.by = emptied.by
    BY <1>1 DEF EpochTypes
  <2>2. unscored' <= 1 + faults'
    BY <1>1 DEF EpochInv
  <2> QED BY <1>1, <1>4, <2>1, <2>2 DEF EpochInv
<1>13. EpochTypes'
  <2>1. lastUpdated' \in Nat /\ emptied' \in [age : Nat, by : Operators \cup {"none", "slash", "committee"}]
    <3>1. lastUpdated \in Nat /\ emptied.age \in Nat
      BY DEF EpochTypes
    <3>2. Older(lastUpdated) \in Nat /\ Older(emptied.age) \in Nat
      BY <3>1, OlderIs
    <3> QED BY <1>1, <3>2 DEF EpochTypes
  <2> QED BY <1>1, <1>2, <1>3, <1>5, <1>7, <2>1 DEF EpochTypes
<1> QED
  BY <1>8, <1>9, <1>10, <1>11, <1>12, <1>13

------------------------------------------------------------------------------
(* The specification.                                                      *)

LEMMA EpochIInvInit ==
    ASSUME EpochAssumption, Init
    PROVE  EpochIInv
<1>1. EmptySlot \in Slots /\ ~EmptySlot.exists
  <2>1. EmptySlot = [exists |-> FALSE, by |-> "P", score |-> "good", age |-> 0]
    BY DEF EmptySlot
  <2>2. ~EmptySlot.exists
    BY <2>1, Zenon
  <2> QED BY <2>1, <2>2 DEF Slots, Operators, Scores
<1>2. Resting \in PrimaryStates /\ Resting.phase = "idle"
  BY DEF Resting, PrimaryStates, PrimaryPhases, Results
<1>3. Forgetful \in CheckerStates /\ Forgetful.phase = "idle"
  BY ForgetfulType
<1>4. QueueTypes /\ queue["P"] = <<>> /\ queue["C"] = <<>>
  BY EmptySeq DEF Init, QueueTypes, Operators
<1>5. DOMAIN queue["P"] = {} /\ DOMAIN queue["C"] = {}
  BY <1>4
<1>6. EpochTypes
  BY <1>1, <1>2, <1>3, <1>4 DEF Init, EpochTypes, Operators
<1>7. QueueIsSound
  BY <1>2, <1>5 DEF Init, QueueIsSound, OneOfAKind, InQueue, Awaits
<1>8. FeesAreUsed
  BY <1>5 DEF Init, FeesAreUsed, Owed, InQueue
<1>9. ChecksAreTrue /\ WaitsItsOwnOut /\ EpochInv
  BY <1>1, <1>2, <1>3, <1>5 DEF Init, ChecksAreTrue, WaitsItsOwnOut, EpochInv, InQueue
<1> QED
  BY <1>6, <1>7, <1>8, <1>9 DEF EpochIInv

LEMMA EpochIInvStep ==
    ASSUME EpochAssumption, EpochIInv, [Next]_vars
    PROVE  EpochIInv'
<1>1. CASE UNCHANGED vars
  <2>1. UNCHANGED <<slot, lastUpdated, live, agent, authorized, charged, emptied, unscored, queue, primary, checker, faults>>
    BY <1>1 DEF vars, chainVars
  <2> QED
    BY <2>1 DEF EpochIInv, EpochTypes, QueueTypes, QueueIsSound, OneOfAKind, InQueue, LastOf, FeesAreUsed, Owed,
                MayPropose, ChecksAreTrue, WaitsItsOwnOut, OwnIsLost, EpochInv
<1>2. CASE PrimaryMovesOn
  BY <1>2, GuardKeeps, FinalizedKeeps, ChargeKeeps, ChargedKeeps, ProposePrimaryKeeps, ProposedPrimaryKeeps
  DEF PrimaryMovesOn
<1>3. CASE CheckerSteps
  BY <1>3, StartCheckerKeeps, ReadSlotKeeps, DecideKeeps, CheckerWroteKeeps DEF CheckerSteps
<1>4. ASSUME NEW op \in Operators, Undisturbed(Mine(op)) \/ Replace(op) \/ GiveUp(op)
      PROVE  EpochIInv'
  BY <1>4, MineByPrimaryKeeps, MineByCheckerKeeps, ReplaceKeeps, GiveUpKeeps DEF Undisturbed, Operators
<1> QED
  BY <1>1, <1>2, <1>3, <1>4, StartPrimaryKeeps, PrimaryFailsKeeps, RestartCheckerKeeps, InterveneKeeps,
     RejectReputationKeeps, TickKeeps
  DEF Next, Undisturbed

\* EpochInv: the primary is charged for no more epochs than it proposes in, but one for each fault; a score the
\* checker made final is one it agreed with, even when it was read before another took its place; a slashed agent
\* holds nothing (index.js, epoch-policy.js).
THEOREM EpochHolds == EpochAssumption => (Spec => []EpochInv)
<1> SUFFICES ASSUME EpochAssumption PROVE Spec => []EpochInv
  OBVIOUS
<1>1. Init => EpochIInv
  BY EpochIInvInit
<1>2. EpochIInv /\ [Next]_vars => EpochIInv'
  BY EpochIInvStep
<1>3. EpochIInv => EpochInv
  BY DEF EpochIInv
<1> QED
  BY <1>1, <1>2, <1>3, PTL DEF Spec

\* A proposal comes into the slot by a transaction that lands.
LEMMA FillsAreMined ==
    ASSUME EpochAssumption, EpochIInv, Next, slot'.exists, slot' # slot, slot'.age = 0
    PROVE  \E op \in Operators :
               /\ Mine(op) /\ queue[op] # <<>> /\ Head(queue[op]).kind = "propose"
               /\ slot'.by = op /\ (op = "P" => MayPropose(op)) /\ (op = "C" => MayFill(op))
<1>0. EpochTypes
  BY DEF EpochIInv
<1>1. ~EmptySlot.exists
  <2>1. EmptySlot = [exists |-> FALSE, by |-> "P", score |-> "good", age |-> 0]
    BY DEF EmptySlot
  <2> QED BY <2>1, Zenon
<1>2. ~Tick
  <2> SUFFICES ASSUME Tick PROVE FALSE
    OBVIOUS
  <2>1. slot.age \in Nat /\ slot \in Slots
    BY <1>0 DEF EpochTypes, Slots
  <2>2. slot' = [slot EXCEPT !.age = Older(slot.age)]
    BY DEF Tick
  <2>3. slot'.age = Older(slot.age)
    BY <2>1, <2>2 DEF Slots
  <2> QED BY <2>1, <2>3, OlderIs
<1>3. ~Intervene /\ ~RejectReputation
  BY <1>1 DEF Intervene, RejectReputation, Emptied
<1>4. PICK op \in Operators : Mine(op)
  <2>1. slot' # slot
    OBVIOUS
  <2>2. ~StartPrimary /\ ~PrimaryMovesOn /\ ~CheckerSteps /\ ~PrimaryFails /\ ~RestartChecker
    BY <2>1 DEF StartPrimary, PrimaryMovesOn, CheckerSteps, PrimaryFails, RestartChecker, chainVars, Guard, Finalized,
                Charge, Charged, ProposePrimary, ProposedPrimary, StartChecker, ReadSlot, Decide, CheckerWrote
  <2>3. \A o \in Operators : ~Replace(o) /\ ~GiveUp(o)
    BY <2>1 DEF Replace, GiveUp, chainVars
  <2> QED BY <1>2, <1>3, <2>2, <2>3 DEF Next, Undisturbed
<1> DEFINE h == Head(queue[op])
<1>5. queue[op] # <<>> /\ h \in Transactions /\ Succeeds(op, h) /\ Effect(op, h)
  BY <1>0, <1>4, MinedTypes
<1> HIDE DEF h
<1>6. h.kind = "propose"
  <2>1. h.kind \in Kinds
    BY <1>5 DEF Transactions
  <2> QED BY <1>1, <1>5, <2>1, Effects DEF Kinds
<1>7. /\ slot' = [exists |-> TRUE, by |-> op, score |-> h.score, age |-> 0]
      /\ (op = "P" => MayPropose(op)) /\ (op = "C" => MayFill(op))
  BY <1>5, <1>6, Effects
<1>8. slot'.by = op
  BY <1>7
<1> QED
  BY <1>4, <1>5, <1>6, <1>7, <1>8 DEF h

\* A proposal in good standing and the step that puts another in its place.
LEMMA StandingIsKept ==
    ASSUME EpochAssumption, EpochIInv, Next,
           slot.exists, StillAuthorized, slot'.exists, slot' # slot, slot'.age = 0
    PROVE  slot'.by = "P" /\ (slot.by = "C" \/ (slot.age >= W /\ faults >= 2))
<1>0. EpochTypes /\ WaitsItsOwnOut
  BY DEF EpochIInv
<1>1. PICK op \in Operators :
          /\ queue[op] # <<>> /\ Head(queue[op]).kind = "propose"
          /\ slot'.by = op /\ (op = "C" => MayFill(op))
  BY FillsAreMined
<1>2. op = "P"
  BY <1>1 DEF MayFill, Operators
<1>3. InQueue("propose")
  <2>1. queue["P"] \in Seq(Transactions)
    BY <1>0 DEF EpochTypes, QueueTypes, Operators
  <2>2. Head(queue["P"]) = queue["P"][1] /\ 1 \in DOMAIN queue["P"]
    BY <1>1, <1>2, <2>1, Shortened
  <2> QED BY <1>1, <1>2, <2>2 DEF InQueue
<1>4. slot.by \in Operators
  BY <1>0 DEF EpochTypes, Slots
<1> QED
  BY <1>0, <1>1, <1>2, <1>3, <1>4 DEF WaitsItsOwnOut, OwnIsLost, StillAuthorized, Operators

\* LiveProposalsStand: nobody writes over a proposal whose proposer may still propose, but the primary over a
\* checker's, and over its own when it lost its authority past the window and has it back (proposeIfEmpty, index.js).
THEOREM StandingProposalsAreKept == EpochAssumption => (Spec => LiveProposalsStand)
<1> SUFFICES ASSUME EpochAssumption PROVE Spec => LiveProposalsStand
  OBVIOUS
<1>1. Init => EpochIInv
  BY EpochIInvInit
<1>2. EpochIInv /\ [Next]_vars => EpochIInv'
  BY EpochIInvStep
<1>3. EpochIInv /\ [Next]_vars =>
          [slot.exists /\ StillAuthorized /\ slot'.exists /\ slot' # slot /\ slot'.age = 0
               => slot'.by = "P" /\ (slot.by = "C" \/ (slot.age >= W /\ faults >= 2))]_slot
  <2> SUFFICES ASSUME EpochIInv, [Next]_vars, slot' # slot
               PROVE  slot.exists /\ StillAuthorized /\ slot'.exists /\ slot' # slot /\ slot'.age = 0
                          => slot'.by = "P" /\ (slot.by = "C" \/ (slot.age >= W /\ faults >= 2))
    OBVIOUS
  <2>1. Next
    BY DEF vars, chainVars
  <2> QED BY <2>1, StandingIsKept
<1> QED
  BY <1>1, <1>2, <1>3, PTL DEF Spec, LiveProposalsStand

------------------------------------------------------------------------------
(* What the checker remembers of an empty slot, while no more than one     *)
(* fault or intervention happened and the agent is bonded.                 *)

Calm == faults <= 1 /\ agent = "bonded"

\* The clocks of the checker, and what it waits for.
CheckerIsTimed ==
    /\ checker.lookAge <= CheckerEvery
    /\ checker.phase # "idle" => checker.lookAge <= checker.epochAge
    /\ checker.emptySeen <= Never
    /\ checker.phase \in Awaits /\ checker.result = "none" =>
            queue["C"] # <<>> /\ LastOf(queue["C"]).kind = Sent(checker.phase)
    /\ checker.phase = "decide" => (checker.read.exists <=> slot.exists)
    /\ emptied.by = "slash" => agent = "slashed"
    /\ agent # "bonded" => faults >= 1

\* How long ago, at most, it last looked into the slot and wrote down what it found.
LookedAgo == IF checker.phase \in {"read", "decide"} THEN checker.lookAge + CheckerEvery ELSE checker.lookAge

\* A proposal that was there at the last look is remembered as such.
LookIsRemembered ==
    slot.exists /\ StillAuthorized /\ slot.age > LookedAgo =>
        checker.emptySeen = Never /\ ~checker.coveringLate

\* Its own finalize is recent, when it is told of it.
OwnFinalizeIsRecent ==
    checker.phase = "finalizing" /\ checker.result = "landed" =>
        /\ slot.exists => slot.age <= checker.lookAge
        /\ ~slot.exists => emptied.by \in {"C", "committee", "slash"}

\* A slot the primary emptied, or that never was filled, is not seen empty for longer than it is, but for an epoch.
EmptyIsKnown ==
    ~slot.exists /\ emptied.by \in {"P", "none"} =>
        /\ ~checker.coveringLate
        /\ checker.emptySeen # Never => checker.emptySeen <= emptied.age + MaxEpoch

\* A proposal on its way was due when it was sent, and would come after any other that stands.
FillIsDue ==
    \A i \in DOMAIN queue["C"] : queue["C"][i].kind = "propose" =>
        /\ ~slot.exists /\ emptied.by \in {"P", "none"} => emptied.age + MaxEpoch >= Grace
        /\ slot.exists /\ StillAuthorized => slot.age <= queue["C"][i].age

WaitInv == CheckerIsTimed /\ (Calm => LookIsRemembered /\ OwnFinalizeIsRecent /\ EmptyIsKnown /\ FillIsDue)

\* Calm is not regained.
LEMMA CalmBefore ==
    ASSUME EpochTypes, CheckerIsTimed, Calm', faults' = faults \/ faults' = faults + 1,
           agent' = agent \/ faults' = faults + 1
    PROVE  Calm
<1>1. faults \in Nat /\ faults' \in Nat /\ faults <= 1
  BY DEF EpochTypes, Calm
<1>2. agent # "bonded" => faults + 1 > 1
  BY <1>1 DEF CheckerIsTimed
<1> QED
  BY <1>1, <1>2 DEF Calm

\* A step that leaves the slot, the checker and what it sent alone, but for fees and a result it gives up.
LEMMA WaitStays ==
    ASSUME EpochTypes, WaitInv, faults' = faults \/ faults' = faults + 1,
           UNCHANGED <<slot, agent, authorized, emptied>>,
           checker'.phase = checker.phase, checker'.lookAge = checker.lookAge, checker'.epochAge = checker.epochAge,
           checker'.emptySeen = checker.emptySeen, checker'.coveringLate = checker.coveringLate,
           checker'.read = checker.read,
           checker'.result = checker.result \/ checker'.result = "unconfirmed",
           DOMAIN queue'["C"] = DOMAIN queue["C"],
           queue["C"] # <<>> => queue'["C"] # <<>> /\ LastOf(queue'["C"]).kind = LastOf(queue["C"]).kind,
           \A i \in DOMAIN queue["C"] :
               queue'["C"][i].kind = queue["C"][i].kind /\ queue'["C"][i].age = queue["C"][i].age
    PROVE  WaitInv'
<1>1. CheckerIsTimed /\ (Calm' => Calm)
  BY CalmBefore DEF WaitInv
<1>2. CheckerIsTimed'
  <2>1. faults >= 1 => faults' >= 1
    BY DEF EpochTypes
  <2> QED BY <1>1, <2>1 DEF CheckerIsTimed
<1>3. StillAuthorized' <=> StillAuthorized
  BY DEF StillAuthorized
<1>4. LookIsRemembered => LookIsRemembered'
  BY <1>3 DEF LookIsRemembered, LookedAgo
<1>5. OwnFinalizeIsRecent => OwnFinalizeIsRecent'
  BY DEF OwnFinalizeIsRecent
<1>6. EmptyIsKnown => EmptyIsKnown'
  BY DEF EmptyIsKnown
<1>7. FillIsDue => FillIsDue'
  BY <1>3 DEF FillIsDue
<1> QED
  BY <1>1, <1>2, <1>4, <1>5, <1>6, <1>7 DEF WaitInv

LEMMA PrimarySends ==
    ASSUME EpochTypes, NEW kind, NEW score, Send("P", kind, score)
    PROVE  queue'["C"] = queue["C"]
  BY DEF Send, EpochTypes, QueueTypes, Operators

LEMMA PrimaryWaits ==
    ASSUME EpochAssumption, EpochIInv, WaitInv, StartPrimary \/ PrimaryMovesOn \/ PrimaryFails
    PROVE  WaitInv'
<1>0. EpochTypes
  BY DEF EpochIInv
<1>1. UNCHANGED <<slot, agent, authorized, emptied, checker>> /\ (faults' = faults \/ faults' = faults + 1)
  BY DEF StartPrimary, PrimaryMovesOn, PrimaryFails, chainVars, Guard, Finalized, Charge, Charged,
         ProposePrimary, ProposedPrimary
<1>2. queue'["C"] = queue["C"]
  BY <1>0, PrimarySends DEF StartPrimary, PrimaryMovesOn, PrimaryFails, Guard, Finalized, Charge, Charged,
                            ProposePrimary, ProposedPrimary
<1> QED
  BY <1>0, <1>1, <1>2, WaitStays

LEMMA ReplaceWaits ==
    ASSUME EpochAssumption, EpochIInv, WaitInv, NEW op \in Operators, Replace(op) \/ GiveUp(op)
    PROVE  WaitInv'
<1>0. EpochTypes
  BY DEF EpochIInv
<1>1. CASE Replace(op)
  <2>1. /\ UNCHANGED <<slot, agent, authorized, emptied, checker>> /\ faults' = faults + 1
        /\ queue[op] # <<>> /\ queue' = [queue EXCEPT ![op] = Replacement(@)]
    BY <1>1 DEF Replace, chainVars
  <2>2. /\ queue["C"] # <<>> => queue'["C"] # <<>> /\ LastOf(queue'["C"]).kind = LastOf(queue["C"]).kind
        /\ DOMAIN queue'["C"] = DOMAIN queue["C"]
        /\ \A i \in DOMAIN queue["C"] :
               queue'["C"][i].kind = queue["C"][i].kind /\ queue'["C"][i].age = queue["C"][i].age
    BY <1>0, <2>1, ReplacedInQueue DEF EpochTypes
  <2> QED BY <1>0, <2>1, <2>2, WaitStays
<1>2. CASE GiveUp(op)
  <2>1. UNCHANGED <<slot, agent, authorized, emptied, queue, faults>>
    BY <1>2 DEF GiveUp, chainVars
  <2>2. checker' = checker \/ checker' = [checker EXCEPT !.result = "unconfirmed"]
    BY <1>2 DEF GiveUp
  <2>3. /\ checker'.phase = checker.phase /\ checker'.lookAge = checker.lookAge
        /\ checker'.epochAge = checker.epochAge /\ checker'.emptySeen = checker.emptySeen
        /\ checker'.read = checker.read /\ checker'.result \in {checker.result, "unconfirmed"}
    BY <1>0, <2>2 DEF EpochTypes, CheckerStates
  <2>4. checker'.coveringLate = checker.coveringLate
    <3>1. checker \in CheckerStates
      BY <1>0 DEF EpochTypes
    <3> QED BY <2>2, <3>1, Zenon DEF CheckerStates
  <2> QED BY <1>0, <2>1, <2>3, <2>4, WaitStays
<1> QED
  BY <1>1, <1>2

\* A step of the checker's that changes its phase and its memory.
LEMMA CheckerRemembers ==
    ASSUME EpochTypes, WaitInv, faults' = faults \/ faults' = faults + 1,
           UNCHANGED <<slot, agent, authorized, emptied>>,
           CheckerIsTimed', checker'.result = "none",
           Calm => LookIsRemembered' /\ EmptyIsKnown' /\ FillIsDue'
    PROVE  WaitInv'
<1>1. Calm' => Calm
  BY CalmBefore DEF WaitInv
<1>2. OwnFinalizeIsRecent'
  BY DEF OwnFinalizeIsRecent
<1> QED
  BY <1>1, <1>2 DEF WaitInv

LEMMA EndsWith ==
    ASSUME NEW c \in CheckerStates, CheckerDone(c)
    PROVE  /\ checker'.phase = "idle" /\ checker'.result = "none"
           /\ checker'.lookAge = c.lookAge /\ checker'.emptySeen = c.emptySeen
           /\ checker'.coveringLate = c.coveringLate
<1>1. /\ checker'.phase = "idle" /\ checker'.result = "none"
      /\ checker'.lookAge = c.lookAge /\ checker'.emptySeen = c.emptySeen
  BY DEF CheckerDone, CheckerStates
<1>2. checker'.coveringLate = c.coveringLate
  BY Zenon DEF CheckerDone, CheckerStates
<1> QED
  BY <1>1, <1>2

LEMMA MovesWith ==
    ASSUME NEW c \in CheckerStates, NEW phase, CheckerAt(c, phase)
    PROVE  /\ checker'.phase = phase /\ checker'.result = "none"
           /\ checker'.lookAge = c.lookAge /\ checker'.emptySeen = c.emptySeen
           /\ checker'.coveringLate = c.coveringLate /\ checker'.epochAge = c.epochAge
<1>1. /\ checker'.phase = phase /\ checker'.result = "none" /\ checker'.epochAge = c.epochAge
      /\ checker'.lookAge = c.lookAge /\ checker'.emptySeen = c.emptySeen
  BY DEF CheckerAt, CheckerStates
<1>2. checker'.coveringLate = c.coveringLate
  BY Zenon DEF CheckerAt, CheckerStates
<1> QED
  BY <1>1, <1>2

LEMMA StartCheckerWaits ==
    ASSUME EpochAssumption, EpochIInv, WaitInv, StartChecker
    PROVE  WaitInv'
<1>0. EpochTypes /\ CheckerIsTimed /\ checker \in CheckerStates
  BY DEF EpochIInv, EpochTypes, WaitInv
<1>1. /\ UNCHANGED <<slot, agent, authorized, emptied, queue, faults>> /\ checker.phase = "idle"
      /\ checker' = [checker EXCEPT !.phase = "read", !.epochAge = 0, !.lookAge = 0]
  BY DEF StartChecker, chainVars
<1>2. /\ checker'.phase = "read" /\ checker'.epochAge = 0 /\ checker'.lookAge = 0
      /\ checker'.emptySeen = checker.emptySeen /\ checker'.result = checker.result
  BY <1>0, <1>1 DEF CheckerStates
<1>3. checker'.coveringLate = checker.coveringLate
  BY <1>0, <1>1, Zenon DEF CheckerStates
<1>4. CheckerEvery \in Nat /\ checker.lookAge \in Nat /\ slot.age \in Nat
  BY <1>0 DEF EpochAssumption, EpochTypes, Slots, CheckerStates
<1>5. CheckerIsTimed'
  BY <1>0, <1>1, <1>2, <1>4 DEF CheckerIsTimed, Awaits
<1>6. Calm => LookIsRemembered'
  <2> SUFFICES ASSUME Calm, slot.exists, StillAuthorized, slot.age > 0 + CheckerEvery
               PROVE  checker.emptySeen = Never /\ ~checker.coveringLate
    BY <1>1, <1>2, <1>3 DEF LookIsRemembered, LookedAgo, StillAuthorized
  <2>1. slot.age > LookedAgo
    BY <1>0, <1>1, <1>4 DEF CheckerIsTimed, LookedAgo
  <2> QED BY <2>1 DEF WaitInv, LookIsRemembered
<1>7. Calm => EmptyIsKnown' /\ FillIsDue' /\ OwnFinalizeIsRecent'
  BY <1>1, <1>2, <1>3 DEF WaitInv, EmptyIsKnown, FillIsDue, StillAuthorized, OwnFinalizeIsRecent
<1> QED
  BY <1>0, <1>1, <1>5, <1>6, <1>7 DEF WaitInv, Calm

LEMMA RestartCheckerWaits ==
    ASSUME EpochAssumption, EpochIInv, WaitInv, RestartChecker
    PROVE  WaitInv'
<1>0. EpochTypes /\ CheckerIsTimed
  BY DEF EpochIInv, WaitInv
<1>1. /\ UNCHANGED <<slot, agent, authorized, emptied, queue>> /\ faults' = faults + 1
      /\ checker' = Forgetful
  BY DEF RestartChecker, chainVars
<1>2. /\ checker'.phase = "idle" /\ checker'.lookAge = CheckerEvery /\ checker'.emptySeen = Never
      /\ checker'.result = "none"
  BY <1>1 DEF Forgetful
<1>3. ~checker'.coveringLate
  BY <1>1, Zenon DEF Forgetful
<1>4. CheckerIsTimed'
  <2>1. CheckerEvery \in Nat /\ Never \in Nat /\ (faults >= 1 => faults' >= 1)
    BY <1>0, <1>1 DEF EpochAssumption, Never, MaxAge, EpochTypes
  <2> QED BY <1>0, <1>1, <1>2, <2>1 DEF CheckerIsTimed, Awaits
<1>5. Calm => LookIsRemembered' /\ EmptyIsKnown' /\ FillIsDue'
  BY <1>1, <1>2, <1>3 DEF WaitInv, LookIsRemembered, EmptyIsKnown, FillIsDue, StillAuthorized
<1> QED
  BY <1>0, <1>1, <1>2, <1>4, <1>5, CheckerRemembers

LEMMA ReadSlotWaits ==
    ASSUME EpochAssumption, EpochIInv, WaitInv, ReadSlot
    PROVE  WaitInv'
<1>0. EpochTypes /\ CheckerIsTimed /\ checker \in CheckerStates /\ slot \in Slots
  BY DEF EpochIInv, EpochTypes, WaitInv
<1>1. UNCHANGED <<slot, agent, authorized, emptied, queue, faults>> /\ checker.phase = "read"
  BY DEF ReadSlot, chainVars
<1>2. CASE agent # "bonded" /\ CheckerDone(checker)
  <2>1. /\ checker'.phase = "idle" /\ checker'.result = "none"
        /\ checker'.lookAge = checker.lookAge /\ checker'.emptySeen = checker.emptySeen
    BY <1>0, <1>2, EndsWith
  <2>2. CheckerIsTimed'
    BY <1>0, <1>1, <2>1 DEF CheckerIsTimed, Awaits
  <2>3. ~Calm
    BY <1>2 DEF Calm
  <2> QED BY <1>0, <1>1, <2>1, <2>2, <2>3, CheckerRemembers
<1>3. CASE checker' = [checker EXCEPT !.phase = "decide", !.read = ReadPending]
  <2>1. /\ checker'.phase = "decide" /\ checker'.read = ReadPending /\ checker'.epochAge = checker.epochAge
        /\ checker'.lookAge = checker.lookAge /\ checker'.emptySeen = checker.emptySeen
        /\ checker'.result = checker.result
    BY <1>0, <1>3 DEF CheckerStates
  <2>2. checker'.coveringLate = checker.coveringLate
    BY <1>0, <1>3, Zenon DEF CheckerStates
  <2>3. ReadPending.exists = slot.exists
    <3> DEFINE a == IF slot.age >= checker.epochAge THEN slot.age - checker.epochAge ELSE 0
    <3>1. ReadPending = [slot EXCEPT !.age = a]
      BY DEF ReadPending
    <3> HIDE DEF a
    <3> QED BY <1>0, <3>1, Zenon DEF Slots
  <2>4. CheckerIsTimed'
    BY <1>0, <1>1, <2>1, <2>3 DEF CheckerIsTimed, Awaits
  <2>5. Calm => LookIsRemembered' /\ EmptyIsKnown' /\ FillIsDue' /\ OwnFinalizeIsRecent'
    BY <1>1, <2>1, <2>2 DEF WaitInv, LookIsRemembered, LookedAgo, EmptyIsKnown, FillIsDue, StillAuthorized,
                            OwnFinalizeIsRecent
  <2> QED BY <1>1, <2>4, <2>5 DEF WaitInv, Calm
<1> QED
  BY <1>2, <1>3 DEF ReadSlot

LEMMA CheckerWroteWaits ==
    ASSUME EpochAssumption, EpochIInv, WaitInv, CheckerWrote
    PROVE  WaitInv'
<1>0. EpochTypes /\ CheckerIsTimed /\ checker \in CheckerStates
  BY DEF EpochIInv, EpochTypes, WaitInv
<1>1. UNCHANGED <<slot, agent, authorized, emptied, queue, faults>> /\ checker.phase \in Awaits
  BY DEF CheckerWrote, chainVars
<1> DEFINE late == checker.coveringLate \/ (checker.phase = "finalizing" /\ checker.result = "landed")
           c == [checker EXCEPT !.coveringLate = late]
<1>2. /\ c \in CheckerStates /\ c.lookAge = checker.lookAge /\ c.emptySeen = checker.emptySeen
      /\ c.coveringLate = late
  <2>1. late \in BOOLEAN
    <3>1. checker.coveringLate \in BOOLEAN
      BY <1>0, Zenon DEF CheckerStates
    <3> QED BY <3>1
  <2> HIDE DEF late
  <2>2. c \in CheckerStates /\ c.lookAge = checker.lookAge /\ c.emptySeen = checker.emptySeen
    BY <1>0, <2>1 DEF CheckerStates
  <2>3. c.coveringLate = late
    BY <1>0, Zenon DEF CheckerStates
  <2> QED BY <2>2, <2>3
<1>3. CheckerDone(c)
  BY DEF CheckerWrote
<1> HIDE DEF c, late
<1>4. /\ checker'.phase = "idle" /\ checker'.result = "none"
      /\ checker'.lookAge = checker.lookAge /\ checker'.emptySeen = checker.emptySeen
      /\ checker'.coveringLate = late
  BY <1>2, <1>3, EndsWith
<1>5. late <=> checker.coveringLate \/ (checker.phase = "finalizing" /\ checker.result = "landed")
  BY DEF late
<1>6. CheckerIsTimed'
  BY <1>0, <1>1, <1>4 DEF CheckerIsTimed, Awaits
<1>7. LookedAgo = checker.lookAge /\ LookedAgo' = checker'.lookAge
  BY <1>1, <1>4 DEF LookedAgo, Awaits
<1>8. Calm => LookIsRemembered'
  <2> SUFFICES ASSUME Calm, slot.exists, StillAuthorized, slot.age > checker.lookAge
               PROVE  checker.emptySeen = Never /\ ~late
    BY <1>1, <1>4, <1>7 DEF LookIsRemembered, StillAuthorized
  <2>1. checker.emptySeen = Never /\ ~checker.coveringLate
    BY <1>7 DEF WaitInv, LookIsRemembered
  <2>2. ~(checker.phase = "finalizing" /\ checker.result = "landed")
    <3>1. slot.age \in Nat /\ checker.lookAge \in Nat
      BY <1>0 DEF EpochTypes, Slots, CheckerStates
    <3>2. ~(slot.age <= checker.lookAge)
      BY <3>1
    <3> QED BY <3>2 DEF WaitInv, OwnFinalizeIsRecent
  <2> QED BY <1>5, <2>1, <2>2
<1>9. Calm => EmptyIsKnown'
  BY <1>1, <1>4, <1>5 DEF WaitInv, EmptyIsKnown, OwnFinalizeIsRecent
<1>10. Calm => FillIsDue'
  BY <1>1 DEF WaitInv, FillIsDue, StillAuthorized
<1> QED
  BY <1>0, <1>1, <1>4, <1>6, <1>8, <1>9, <1>10, CheckerRemembers

LEMMA EmptyIsNot == ~EmptySlot.exists
<1>1. EmptySlot = [exists |-> FALSE, by |-> "P", score |-> "good", age |-> 0]
  BY DEF EmptySlot
<1> QED
  BY <1>1, Zenon

LEMMA LeastIsAtMost ==
    ASSUME NEW a \in Nat, NEW b \in Nat
    PROVE  Min({a, b}) <= b /\ Min({a, b}) \in Nat
<1>1. \E x \in {a, b} : \A y \in {a, b} : x <= y
  <2>1. a <= b \/ b <= a
    OBVIOUS
  <2>2. a <= a /\ b <= b
    OBVIOUS
  <2> QED BY <2>1, <2>2
<1>2. Min({a, b}) \in {a, b} /\ \A y \in {a, b} : Min({a, b}) <= y
  BY <1>1 DEF Min
<1> QED
  BY <1>2

\* What the checker remembers after its look, by what it read.
LEMMA RememberedIs ==
    ASSUME EpochAssumption, EpochTypes, CheckerIsTimed, checker.phase = "decide"
    PROVE  /\ Remembered \in CheckerStates
           /\ Remembered.lookAge = checker.lookAge /\ Remembered.epochAge = checker.epochAge
           /\ Remembered.emptySeen \in {Never, checker.emptySeen, checker.epochAge}
           /\ slot.exists /\ StillAuthorized => Remembered.emptySeen = Never /\ ~Remembered.coveringLate
           /\ ~slot.exists =>
                  /\ ~Stranded /\ ~FreshPending.exists /\ Remembered.coveringLate = checker.coveringLate
                  /\ \/ Remembered.emptySeen = checker.epochAge
                     \/ Remembered.emptySeen = checker.emptySeen
                        /\ (~checker.coveringLate => checker.emptySeen # Never)
<1>1. checker \in CheckerStates /\ Remembered \in CheckerStates /\ Never \in Nat
  BY RememberedType DEF EpochTypes, Never, MaxAge, EpochAssumption
<1> DEFINE none == [checker EXCEPT !.emptySeen = Never, !.coveringLate = FALSE]
           now == [checker EXCEPT !.emptySeen = checker.epochAge]
<1>2. /\ none.lookAge = checker.lookAge /\ none.epochAge = checker.epochAge /\ none.emptySeen = Never
      /\ now.lookAge = checker.lookAge /\ now.epochAge = checker.epochAge /\ now.emptySeen = checker.epochAge
  BY <1>1 DEF CheckerStates
<1>3. ~none.coveringLate /\ now.coveringLate = checker.coveringLate
  BY <1>1, Zenon DEF CheckerStates
<1>4. /\ FreshPending.exists => Remembered = none
      /\ Stranded \/ checker.coveringLate \/ checker.emptySeen # Never => Remembered \in {none, checker}
      /\ ~FreshPending.exists /\ (checker.coveringLate \/ checker.emptySeen # Never) => Remembered = checker
      /\ ~FreshPending.exists /\ ~Stranded /\ ~(checker.coveringLate \/ checker.emptySeen # Never) => Remembered = now
      /\ Remembered \in {none, checker, now}
  BY DEF Remembered
<1> HIDE DEF none, now
<1>5. checker.read.exists <=> slot.exists
  BY DEF CheckerIsTimed
<1>6. slot.exists /\ StillAuthorized => FreshPending.exists
  <2>1. slot.exists /\ StillAuthorized => ~Stranded
    BY DEF Stranded, MayFill
  <2> QED BY <1>5, <2>1 DEF FreshPending
<1>7. ~slot.exists => ~Stranded /\ ~FreshPending.exists
  BY <1>5 DEF Stranded, FreshPending
<1>8. Remembered.lookAge = checker.lookAge /\ Remembered.epochAge = checker.epochAge
      /\ Remembered.emptySeen \in {Never, checker.emptySeen, checker.epochAge}
  BY <1>2, <1>4
<1>9. ASSUME slot.exists, StillAuthorized
      PROVE  Remembered.emptySeen = Never /\ ~Remembered.coveringLate
  BY <1>2, <1>3, <1>4, <1>6, <1>9
<1>10. ASSUME ~slot.exists
       PROVE  /\ Remembered.coveringLate = checker.coveringLate
              /\ \/ Remembered.emptySeen = checker.epochAge
                 \/ Remembered.emptySeen = checker.emptySeen
                    /\ (~checker.coveringLate => checker.emptySeen # Never)
  <2>1. CASE checker.coveringLate \/ checker.emptySeen # Never
    <3>1. Remembered = checker
      BY <1>4, <1>7, <1>10, <2>1
    <3> QED BY <2>1, <3>1
  <2>2. CASE ~(checker.coveringLate \/ checker.emptySeen # Never)
    <3>1. Remembered = now
      BY <1>4, <1>7, <1>10, <2>2
    <3> QED BY <1>2, <1>3, <3>1, Zenon
  <2> QED BY <2>1, <2>2
<1> QED
  BY <1>1, <1>7, <1>8, <1>9, <1>10

\* A proposal decided on for an empty slot is due.
LEMMA DecidedWhenDue ==
    ASSUME EpochAssumption, EpochTypes, CheckerIsTimed, checker.phase = "decide", Decision = "propose",
           EmptyIsKnown, ~slot.exists, emptied.by \in {"P", "none"}
    PROVE  emptied.age + MaxEpoch >= Grace
<1>1. /\ ~Stranded /\ ~FreshPending.exists /\ ~checker.coveringLate
      /\ Remembered \in CheckerStates
      /\ \/ Remembered.emptySeen = checker.epochAge
         \/ Remembered.emptySeen = checker.emptySeen /\ checker.emptySeen <= emptied.age + MaxEpoch
  BY RememberedIs DEF EmptyIsKnown
<1>2. Min({lastUpdated, Remembered.emptySeen}) - checker.epochAge >= Grace
  BY <1>1 DEF Decision, EmptyAge
<1>3. /\ lastUpdated \in Nat /\ Remembered.emptySeen \in Nat /\ checker.epochAge \in Nat
      /\ emptied.age \in Nat /\ checker.emptySeen \in Nat /\ Grace \in Nat \ {0} /\ MaxEpoch \in Nat
  BY <1>1 DEF EpochTypes, CheckerStates, EpochAssumption
<1>4. Min({lastUpdated, Remembered.emptySeen}) <= Remembered.emptySeen
      /\ Min({lastUpdated, Remembered.emptySeen}) \in Nat
  BY <1>3, LeastIsAtMost
<1> QED
  BY <1>1, <1>2, <1>3, <1>4

LEMMA DecideWaits ==
    ASSUME EpochAssumption, EpochIInv, WaitInv, Decide
    PROVE  WaitInv'
<1>0. EpochTypes /\ CheckerIsTimed /\ checker.phase = "decide" /\ checker \in CheckerStates
  BY DEF EpochIInv, WaitInv, Decide, EpochTypes
<1>1. UNCHANGED <<slot, agent, authorized, emptied, faults>>
  BY DEF Decide, chainVars
<1> DEFINE r == Remembered
<1>2. /\ r \in CheckerStates
      /\ r.lookAge = checker.lookAge /\ r.epochAge = checker.epochAge
      /\ r.emptySeen \in {Never, checker.emptySeen, checker.epochAge}
      /\ slot.exists /\ StillAuthorized => r.emptySeen = Never /\ ~r.coveringLate
      /\ ~slot.exists =>
             /\ r.coveringLate = checker.coveringLate
             /\ \/ r.emptySeen = checker.epochAge
                \/ r.emptySeen = checker.emptySeen
  BY <1>0, RememberedIs
<1> HIDE DEF r
<1>3. /\ checker'.result = "none" /\ checker'.phase \in {"idle", "finalizing", "proposing"}
      /\ checker'.phase # "idle" => checker'.epochAge = r.epochAge
      /\ checker'.lookAge = r.lookAge /\ checker'.emptySeen = r.emptySeen /\ checker'.coveringLate = r.coveringLate
      /\ \/ queue' = queue /\ checker'.phase = "idle"
         \/ Send("C", "finalize", "good") /\ checker'.phase = "finalizing"
         \/ Send("C", "propose", "good") /\ checker'.phase = "proposing" /\ Decision = "propose" /\ MayFill("C")
  <2>1. CASE CheckerAt(Remembered, "finalizing") /\ Send("C", "finalize", "good")
    BY <1>2, <2>1, MovesWith DEF r
  <2>2. CASE Decision = "propose" /\ MayFill("C")
             /\ CheckerAt([Remembered EXCEPT !.stranded = Stranded], "proposing") /\ Send("C", "propose", "good")
    <3> DEFINE s == [r EXCEPT !.stranded = Stranded]
    <3>1. s \in CheckerStates /\ s.lookAge = r.lookAge /\ s.epochAge = r.epochAge /\ s.emptySeen = r.emptySeen
      <4>1. Stranded \in BOOLEAN
        BY DEF Stranded
      <4> HIDE DEF Stranded
      <4> QED BY <1>2, <4>1 DEF CheckerStates
    <3>2. s.coveringLate = r.coveringLate
      BY <1>2, Zenon DEF CheckerStates
    <3>3. CheckerAt(s, "proposing")
      BY <2>2 DEF r
    <3> HIDE DEF s
    <3>4. /\ checker'.phase = "proposing" /\ checker'.result = "none"
          /\ checker'.lookAge = s.lookAge /\ checker'.emptySeen = s.emptySeen
          /\ checker'.coveringLate = s.coveringLate /\ checker'.epochAge = s.epochAge
      BY <3>1, <3>3, MovesWith
    <3> QED BY <2>2, <3>1, <3>2, <3>4
  <2>3. CASE CheckerDone(Remembered) /\ UNCHANGED queue
    BY <1>2, <2>3, EndsWith DEF r
  <2> QED BY <2>1, <2>2, <2>3 DEF Decide
<1>4. checker'.phase # "idle" => queue'["C"] # <<>> /\ LastOf(queue'["C"]).kind = Sent(checker'.phase)
  BY <1>0, <1>3, SendByChecker DEF EpochTypes, Kinds, Scores, Sent
<1>5. CheckerIsTimed'
  <2>1. checker'.emptySeen <= Never
    <3>1. checker.epochAge \in 0..MaxEpoch /\ MaxEpoch \in Nat /\ MaxEpoch <= Never /\ Never \in Nat
      BY <1>0 DEF CheckerStates, EpochAssumption, Never, MaxAge
    <3> QED BY <1>0, <1>2, <1>3, <3>1 DEF CheckerIsTimed
  <2> QED BY <1>0, <1>1, <1>2, <1>3, <1>4, <2>1 DEF CheckerIsTimed, Awaits
<1>6. Calm => LookIsRemembered'
  BY <1>1, <1>2, <1>3 DEF LookIsRemembered, StillAuthorized
<1>7. Calm => EmptyIsKnown'
  <2> SUFFICES ASSUME Calm, ~slot.exists, emptied.by \in {"P", "none"}
               PROVE  ~r.coveringLate /\ (r.emptySeen # Never => r.emptySeen <= emptied.age + MaxEpoch)
    BY <1>1, <1>3 DEF EmptyIsKnown
  <2>1. ~checker.coveringLate /\ (checker.emptySeen # Never => checker.emptySeen <= emptied.age + MaxEpoch)
    BY DEF WaitInv, EmptyIsKnown
  <2>2. checker.epochAge <= emptied.age + MaxEpoch
    <3>1. checker.epochAge \in 0..MaxEpoch /\ MaxEpoch \in Nat /\ emptied.age \in Nat
      BY <1>0 DEF CheckerStates, EpochAssumption, EpochTypes
    <3> QED BY <3>1
  <2> QED BY <1>2, <2>1, <2>2
<1>8. Calm => FillIsDue'
  <2> SUFFICES ASSUME Calm, NEW i \in DOMAIN queue'["C"], queue'["C"][i].kind = "propose"
               PROVE  /\ ~slot.exists /\ emptied.by \in {"P", "none"} => emptied.age + MaxEpoch >= Grace
                      /\ slot.exists /\ StillAuthorized => slot.age <= queue'["C"][i].age
    BY <1>1 DEF FillIsDue, StillAuthorized
  <2>1. CASE i \in DOMAIN queue["C"] /\ queue'["C"][i] = queue["C"][i]
    BY <2>1 DEF WaitInv, FillIsDue
  <2>2. CASE Send("C", "propose", "good") /\ Decision = "propose" /\ MayFill("C")
    <3>1. ~(slot.exists /\ StillAuthorized)
      BY <2>2 DEF MayFill
    <3>2. ~slot.exists /\ emptied.by \in {"P", "none"} => emptied.age + MaxEpoch >= Grace
      BY <1>0, <2>2, DecidedWhenDue DEF WaitInv
    <3> QED BY <3>1, <3>2
  <2>3. CASE Send("C", "finalize", "good")
    <3>1. \/ i \in DOMAIN queue["C"] /\ queue'["C"][i] = queue["C"][i]
          \/ queue'["C"][i].kind = "finalize"
      BY <1>0, <2>3, SendByChecker DEF EpochTypes, Kinds, Scores
    <3> QED BY <2>1, <3>1
  <2> QED BY <1>3, <2>1, <2>2, <2>3
<1> QED
  BY <1>0, <1>1, <1>3, <1>5, <1>6, <1>7, <1>8, CheckerRemembers

\* A transaction of the primary's lands while the checker is not deciding.
LEMMA MineByPrimaryWaits ==
    ASSUME EpochAssumption, EpochIInv, WaitInv, Mine("P"), checker.phase # "decide"
    PROVE  WaitInv'
<1> DEFINE h == Head(queue["P"])
<1>0. EpochTypes /\ CheckerIsTimed /\ "P" \in Operators /\ checker \in CheckerStates /\ slot \in Slots
  BY DEF EpochIInv, WaitInv, Operators, EpochTypes
<1>1. /\ queue["P"] # <<>> /\ queue' = [queue EXCEPT !["P"] = Tail(@)] /\ UNCHANGED <<agent, authorized, faults>>
      /\ h \in Transactions
      /\ \/ Succeeds("P", h) /\ Effect("P", h)
         \/ ~Succeeds("P", h) /\ UNCHANGED <<slot, lastUpdated, live, charged, emptied, unscored>>
  BY <1>0, MinedTypes
<1>2. queue'["C"] = queue["C"] /\ checker' = checker
  BY <1>0, <1>1, MinedByPrimary DEF EpochTypes, Mine
<1> HIDE DEF h
<1>3. h.kind \in Kinds
  BY <1>1 DEF Transactions
<1>4. CASE slot' = slot /\ emptied' = emptied
  BY <1>0, <1>1, <1>2, <1>4, WaitStays
<1>5. CASE slot' = EmptySlot /\ emptied' = [age |-> 0, by |-> "P"] /\ MayFinalize
  <2>1. ~slot'.exists /\ emptied'.by = "P" /\ emptied'.age = 0
    BY <1>5, EmptyIsNot
  <2>2. slot.exists /\ StillAuthorized /\ slot.age >= W /\ slot.age \in Nat
    BY <1>0, <1>5 DEF MayFinalize, Slots
  <2>3. CheckerIsTimed'
    BY <1>0, <1>1, <1>2, <2>1 DEF CheckerIsTimed
  <2>4. LookedAgo < W /\ checker.lookAge < W
    <3>1. /\ checker.lookAge \in Nat /\ checker.epochAge \in 0..MaxEpoch
          /\ checker.lookAge <= CheckerEvery /\ (checker.phase # "idle" => checker.lookAge <= checker.epochAge)
      BY <1>0 DEF CheckerStates, CheckerIsTimed
    <3> QED BY <3>1 DEF LookedAgo, EpochAssumption
  <2>5. ASSUME Calm
        PROVE  LookIsRemembered' /\ OwnFinalizeIsRecent' /\ EmptyIsKnown' /\ FillIsDue'
    <3>1. checker.emptySeen = Never /\ ~checker.coveringLate
      <4>1. LookedAgo \in Nat
        BY <1>0 DEF LookedAgo, CheckerStates, EpochAssumption
      <4>2. slot.age > LookedAgo
        BY <2>2, <2>4, <4>1 DEF EpochAssumption
      <4> QED BY <2>2, <2>5, <4>2 DEF WaitInv, LookIsRemembered
    <3>2. ~(checker.phase = "finalizing" /\ checker.result = "landed")
      <4>1. checker.lookAge \in Nat
        BY <1>0 DEF CheckerStates
      <4>2. ~(slot.age <= checker.lookAge)
        BY <2>2, <2>4, <4>1 DEF EpochAssumption
      <4> QED BY <2>2, <2>5, <4>2 DEF WaitInv, OwnFinalizeIsRecent
    <3>3. \A i \in DOMAIN queue["C"] : queue["C"][i].kind # "propose"
      <4> SUFFICES ASSUME NEW i \in DOMAIN queue["C"], queue["C"][i].kind = "propose" PROVE FALSE
        OBVIOUS
      <4>1. queue["C"] \in Seq(Transactions)
        BY <1>0 DEF EpochTypes, QueueTypes, Operators
      <4>2. queue["C"][i].age \in 0..MaxStuck
        <5>1. queue["C"][i] \in Transactions
          BY <4>1
        <5> QED BY <5>1 DEF Transactions
      <4>3. slot.age <= queue["C"][i].age
        BY <2>2, <2>5 DEF WaitInv, FillIsDue
      <4> QED BY <2>2, <4>2, <4>3 DEF EpochAssumption
    <3> QED BY <1>2, <2>1, <3>1, <3>2, <3>3 DEF LookIsRemembered, OwnFinalizeIsRecent, EmptyIsKnown, FillIsDue
  <2> QED BY <1>1, <2>3, <2>5 DEF WaitInv, Calm
<1>6. CASE emptied' = emptied /\ slot'.exists /\ slot'.age = 0 /\ slot'.by = "P"
  <2>1. CheckerIsTimed'
    BY <1>0, <1>1, <1>2, <1>6 DEF CheckerIsTimed
  <2>2. LookedAgo \in Nat /\ checker.lookAge \in Nat /\ LookedAgo' = LookedAgo
    BY <1>0, <1>2 DEF LookedAgo, CheckerStates, EpochAssumption
  <2>3. ~(0 > LookedAgo) /\ 0 <= checker.lookAge
    BY <2>2
  <2>4. \A i \in DOMAIN queue["C"] : 0 <= queue["C"][i].age
    <3>1. queue["C"] \in Seq(Transactions)
      BY <1>0 DEF EpochTypes, QueueTypes, Operators
    <3>2. \A i \in DOMAIN queue["C"] : queue["C"][i] \in Transactions
      BY <3>1
    <3> QED BY <3>2 DEF Transactions, EpochAssumption
  <2>5. LookIsRemembered' /\ OwnFinalizeIsRecent' /\ EmptyIsKnown' /\ FillIsDue'
    BY <1>2, <1>6, <2>2, <2>3, <2>4 DEF LookIsRemembered, OwnFinalizeIsRecent, EmptyIsKnown, FillIsDue
  <2> QED BY <2>1, <2>5 DEF WaitInv
<1>7. Succeeds("P", h) /\ Effect("P", h) =>
          \/ slot' = slot /\ emptied' = emptied
          \/ slot' = EmptySlot /\ emptied' = [age |-> 0, by |-> "P"] /\ MayFinalize
          \/ emptied' = emptied /\ slot'.exists /\ slot'.age = 0 /\ slot'.by = "P"
  <2> SUFFICES ASSUME Succeeds("P", h), Effect("P", h)
               PROVE  \/ slot' = slot /\ emptied' = emptied
                      \/ slot' = EmptySlot /\ emptied' = [age |-> 0, by |-> "P"] /\ MayFinalize
                      \/ emptied' = emptied /\ slot'.exists /\ slot'.age = 0 /\ slot'.by = "P"
    OBVIOUS
  <2>1. CASE h.kind = "finalize"
    <3>1. slot' = EmptySlot /\ MayFinalize
      BY <1>0, <1>1, <2>1, Effects
    <3>2. emptied' = [age |-> 0, by |-> "P"]
      BY <2>1 DEF Effect, Emptied
    <3> QED BY <3>1, <3>2
  <2>2. CASE h.kind = "charge"
    BY <1>0, <1>1, <2>2, Effects
  <2>3. CASE h.kind = "propose"
    <3>1. emptied' = emptied /\ slot' = [exists |-> TRUE, by |-> "P", score |-> h.score, age |-> 0]
      BY <1>0, <1>1, <2>3, Effects
    <3>2. slot'.exists
      BY <3>1, Zenon
    <3>3. slot'.age = 0 /\ slot'.by = "P"
      BY <3>1
    <3> QED BY <3>1, <3>2, <3>3
  <2> QED BY <1>3, <2>1, <2>2, <2>3 DEF Kinds
<1> QED
  BY <1>1, <1>4, <1>5, <1>6, <1>7

\* A transaction of the checker's lands.
LEMMA MineByCheckerWaits ==
    ASSUME EpochAssumption, EpochIInv, WaitInv, Mine("C"), checker.phase # "decide"
    PROVE  WaitInv'
<1> DEFINE h == Head(queue["C"])
           result == IF Succeeds("C", h) THEN "landed" ELSE "reverted"
<1>0. EpochTypes /\ CheckerIsTimed /\ "C" \in Operators /\ checker \in CheckerStates
  BY DEF EpochIInv, WaitInv, Operators, EpochTypes
<1>1. /\ queue["C"] # <<>> /\ queue' = [queue EXCEPT !["C"] = Tail(@)] /\ UNCHANGED <<agent, authorized, faults>>
      /\ h \in Transactions
      /\ \/ Succeeds("C", h) /\ Effect("C", h)
         \/ ~Succeeds("C", h) /\ UNCHANGED <<slot, lastUpdated, live, charged, emptied, unscored>>
  BY <1>0, MinedTypes
<1>2. /\ \A i \in DOMAIN queue'["C"] : \E j \in DOMAIN queue["C"] : queue'["C"][i] = queue["C"][j]
      /\ \E j \in DOMAIN queue["C"] : queue["C"][j] = h
      /\ Len(queue["C"]) = 1 => LastOf(queue["C"]) = h
      /\ Len(queue["C"]) # 1 => queue'["C"] # <<>> /\ LastOf(queue'["C"]) = LastOf(queue["C"])
      /\ QueueTypes'
  BY <1>0, <1>1, MinedByChecker DEF EpochTypes
<1>3. /\ checker'.phase = checker.phase /\ checker'.epochAge = checker.epochAge
      /\ checker'.lookAge = checker.lookAge /\ checker'.emptySeen = checker.emptySeen
      /\ checker'.coveringLate = checker.coveringLate
      /\ checker'.result = IF checker.phase \in Awaits /\ checker.result = "none" /\ Len(queue["C"]) = 1
                           THEN result ELSE checker.result
      /\ result \in {"landed", "reverted"} /\ (result = "landed" <=> Succeeds("C", h))
  <2>1. checker' = Told(checker, "C", result) /\ result \in {"landed", "reverted"}
        /\ (result = "landed" <=> Succeeds("C", h))
    BY DEF Mine
  <2> HIDE DEF result
  <2> QED BY <1>0, <2>1, ToldTypes
<1> HIDE DEF h, result
<1>4. h.kind \in {"finalize", "propose"}
  <2>1. h.kind \in Kinds
    BY <1>1 DEF Transactions
  <2>2. h.kind # "charge"
    BY <1>2 DEF EpochIInv, QueueIsSound
  <2> QED BY <2>1, <2>2 DEF Kinds
<1>5. \/ ~Succeeds("C", h) /\ slot' = slot /\ emptied' = emptied
      \/ slot' = EmptySlot /\ emptied' = [age |-> 0, by |-> "C"]
      \/ h.kind = "propose" /\ emptied' = emptied /\ slot'.exists /\ slot'.age = 0 /\ slot'.by = "C"
  <2>1. CASE ~Succeeds("C", h)
    BY <1>1, <2>1
  <2>2. CASE Succeeds("C", h) /\ h.kind = "finalize"
    <3>1. slot' = EmptySlot
      BY <1>0, <1>1, <2>2, Effects
    <3>2. emptied' = [age |-> 0, by |-> "C"]
      BY <1>1, <2>2 DEF Effect, Emptied
    <3> QED BY <3>1, <3>2
  <2>3. CASE Succeeds("C", h) /\ h.kind = "propose"
    <3>1. emptied' = emptied /\ slot' = [exists |-> TRUE, by |-> "C", score |-> h.score, age |-> 0]
      BY <1>0, <1>1, <2>3, Effects
    <3>2. slot'.exists
      BY <3>1, Zenon
    <3>3. slot'.age = 0 /\ slot'.by = "C"
      BY <3>1
    <3> QED BY <2>3, <3>1, <3>2, <3>3
  <2> QED BY <1>4, <2>1, <2>2, <2>3
<1>6. CheckerIsTimed'
  <2>1. checker'.phase \in Awaits /\ checker'.result = "none" =>
            queue'["C"] # <<>> /\ LastOf(queue'["C"]).kind = Sent(checker'.phase)
    <3> SUFFICES ASSUME checker.phase \in Awaits, checker'.result = "none"
                 PROVE  queue'["C"] # <<>> /\ LastOf(queue'["C"]).kind = Sent(checker.phase)
      BY <1>3
    <3>1. checker.result = "none" /\ Len(queue["C"]) # 1
      BY <1>3
    <3> QED BY <1>0, <1>2, <3>1 DEF CheckerIsTimed
  <2>2. emptied'.by = "slash" => emptied.by = "slash"
    BY <1>5
  <2> QED BY <1>0, <1>1, <1>3, <2>1, <2>2 DEF CheckerIsTimed
<1>7. LookedAgo \in Nat /\ checker.lookAge \in Nat /\ LookedAgo' = LookedAgo
  <2>1. LookedAgo \in Nat /\ checker.lookAge \in Nat
    BY <1>0 DEF LookedAgo, CheckerStates, EpochAssumption
  <2> QED BY <1>3, <2>1 DEF LookedAgo
<1>8. ASSUME Calm
      PROVE  LookIsRemembered' /\ OwnFinalizeIsRecent' /\ EmptyIsKnown' /\ FillIsDue'
  <2>0. LookIsRemembered /\ OwnFinalizeIsRecent /\ EmptyIsKnown /\ FillIsDue
    BY <1>8 DEF WaitInv
  <2>1. CASE ~Succeeds("C", h) /\ slot' = slot /\ emptied' = emptied
    <3>1. checker'.result = "landed" => checker.result = "landed"
      BY <1>3, <2>1
    <3>2. FillIsDue'
      BY <1>1, <1>2, <2>0, <2>1 DEF FillIsDue, StillAuthorized
    <3>3. LookIsRemembered'
      BY <1>1, <1>3, <1>7, <2>0, <2>1 DEF LookIsRemembered, StillAuthorized
    <3>4. OwnFinalizeIsRecent' /\ EmptyIsKnown'
      BY <1>3, <2>0, <2>1, <3>1 DEF OwnFinalizeIsRecent, EmptyIsKnown
    <3> QED BY <3>2, <3>3, <3>4
  <2>2. CASE slot' = EmptySlot /\ emptied' = [age |-> 0, by |-> "C"]
    <3>1. ~slot'.exists /\ emptied'.by = "C"
      BY <2>2, EmptyIsNot
    <3> QED BY <3>1 DEF LookIsRemembered, OwnFinalizeIsRecent, EmptyIsKnown, FillIsDue
  <2>3. CASE emptied' = emptied /\ slot'.exists /\ slot'.age = 0
    <3>1. \A i \in DOMAIN queue'["C"] : queue'["C"][i].age >= 0
      <4>1. queue'["C"] \in Seq(Transactions)
        BY <1>0, <1>2 DEF QueueTypes
      <4>2. \A i \in DOMAIN queue'["C"] : queue'["C"][i] \in Transactions
        BY <4>1
      <4> QED BY <4>2 DEF Transactions, EpochAssumption
    <3>2. ~(0 > LookedAgo) /\ 0 <= checker.lookAge
      BY <1>7
    <3>3. \A i \in DOMAIN queue'["C"] : slot'.age <= queue'["C"][i].age
      BY <2>3, <3>1
    <3>4. FillIsDue'
      BY <2>3, <3>3 DEF FillIsDue
    <3> QED BY <1>3, <1>7, <2>3, <3>2, <3>4 DEF LookIsRemembered, OwnFinalizeIsRecent, EmptyIsKnown
  <2> QED BY <1>5, <2>1, <2>2, <2>3
<1> QED
  BY <1>1, <1>6, <1>8 DEF WaitInv, Calm

LEMMA InterveneWaits ==
    ASSUME EpochAssumption, EpochIInv, WaitInv, Intervene, checker.phase # "decide"
    PROVE  WaitInv'
<1>0. EpochTypes /\ CheckerIsTimed /\ WaitsItsOwnOut
  BY DEF EpochIInv, WaitInv
<1>1. UNCHANGED <<queue, checker>> /\ faults' = faults + 1 /\ faults \in Nat
  BY <1>0 DEF Intervene, EpochTypes
<1>2. \/ agent' \in {"bonded", "unbonded"} \ {agent} /\ agent # "slashed" /\ UNCHANGED <<slot, emptied, authorized>>
      \/ authorized' = ~authorized /\ UNCHANGED <<slot, emptied, agent>>
      \/ agent' = "slashed" /\ slot' = EmptySlot /\ emptied' = [age |-> 0, by |-> "slash"]
  BY DEF Intervene, Emptied
<1>3. CheckerIsTimed'
  <2>1. emptied'.by = "slash" => agent' = "slashed"
    BY <1>0, <1>2 DEF CheckerIsTimed
  <2>2. faults' >= 1
    BY <1>1
  <2> QED BY <1>0, <1>1, <2>1, <2>2 DEF CheckerIsTimed
<1>4. ASSUME Calm'
      PROVE  LookIsRemembered' /\ OwnFinalizeIsRecent' /\ EmptyIsKnown' /\ FillIsDue'
  <2>1. faults = 0 /\ agent' = "bonded"
    BY <1>1, <1>4 DEF Calm
  <2>2. agent = "bonded" /\ authorized
    BY <1>0, <2>1 DEF CheckerIsTimed, WaitsItsOwnOut
  <2>3. UNCHANGED <<slot, emptied>> /\ (StillAuthorized' => StillAuthorized)
    BY <1>2, <2>1, <2>2 DEF StillAuthorized
  <2>4. LookIsRemembered /\ OwnFinalizeIsRecent /\ EmptyIsKnown /\ FillIsDue
    BY <2>1, <2>2 DEF WaitInv, Calm
  <2> QED BY <1>1, <2>3, <2>4 DEF LookIsRemembered, LookedAgo, OwnFinalizeIsRecent, EmptyIsKnown, FillIsDue
<1> QED
  BY <1>3, <1>4 DEF WaitInv

LEMMA RejectReputationWaits ==
    ASSUME EpochAssumption, EpochIInv, WaitInv, RejectReputation, checker.phase # "decide"
    PROVE  WaitInv'
<1>1. UNCHANGED <<agent, queue, checker, faults>> /\ slot' = EmptySlot
      /\ emptied' = [age |-> 0, by |-> "committee"]
  BY DEF RejectReputation, Emptied
<1>2. ~slot'.exists /\ emptied'.by = "committee"
  BY <1>1, EmptyIsNot
<1>3. CheckerIsTimed'
  BY <1>1, <1>2 DEF WaitInv, CheckerIsTimed
<1>4. LookIsRemembered' /\ OwnFinalizeIsRecent' /\ EmptyIsKnown' /\ FillIsDue'
  BY <1>2 DEF LookIsRemembered, OwnFinalizeIsRecent, EmptyIsKnown, FillIsDue
<1> QED
  BY <1>3, <1>4 DEF WaitInv

\* A unit of time makes an age one more, or leaves it where no guard tells it from a greater one.
LEMMA OlderGrows ==
    ASSUME EpochAssumption, NEW a \in Nat
    PROVE  /\ Older(a) \in Nat /\ a <= Older(a) /\ Older(a) <= a + 1
           /\ a <= MaxAge => Older(a) <= MaxAge
           /\ Older(a) = a + 1 \/ (Older(a) = a /\ a >= MaxAge)
           /\ MaxAge \in Nat
<1>1. MaxAge \in Nat
  BY DEF MaxAge, EpochAssumption
<1> QED
  BY <1>1 DEF Older

LEMMA TickWaits ==
    ASSUME EpochAssumption, EpochIInv, WaitInv, Tick
    PROVE  WaitInv'
<1>0. EpochTypes /\ CheckerIsTimed /\ checker \in CheckerStates /\ slot \in Slots
  BY DEF EpochIInv, WaitInv, EpochTypes
<1>1. /\ UNCHANGED <<agent, authorized, faults>> /\ emptied' = [emptied EXCEPT !.age = Older(@)]
      /\ slot' = IF slot.exists THEN [slot EXCEPT !.age = Older(@)] ELSE slot
      /\ checker.phase # "idle" => checker.epochAge < MaxEpoch
      /\ agent # "slashed" => checker.lookAge < CheckerEvery
  BY DEF Tick
<1>2. /\ queue["C"] # <<>> => queue'["C"] # <<>> /\ LastOf(queue'["C"]).kind = LastOf(queue["C"]).kind
      /\ DOMAIN queue'["C"] = DOMAIN queue["C"]
      /\ \A i \in DOMAIN queue["C"] :
             /\ queue'["C"][i].kind = queue["C"][i].kind /\ queue'["C"][i].age = queue["C"][i].age + 1
             /\ queue["C"][i] \in Transactions
  <2>1. /\ \A op \in Operators : \A i \in 1..Len(queue[op]) : queue[op][i].age < MaxStuck
        /\ queue' = [op \in Operators |-> [i \in 1..Len(queue[op]) |-> [queue[op][i] EXCEPT !.age = @ + 1]]]
    BY DEF Tick
  <2> QED BY <1>0, <2>1, AgedInQueue DEF EpochTypes
<1> DEFINE l == IF agent = "slashed" THEN checker.lookAge ELSE checker.lookAge + 1
           e == IF checker.phase = "idle" THEN 0 ELSE checker.epochAge + 1
           s == IF checker.emptySeen = Never THEN Never ELSE Older(checker.emptySeen)
<1>3. checker' = [checker EXCEPT !.lookAge = l, !.epochAge = e, !.emptySeen = s]
  BY DEF Tick
<1> HIDE DEF l, e, s
<1>4. /\ checker'.phase = checker.phase /\ checker'.result = checker.result /\ checker'.read = checker.read
      /\ checker'.lookAge = l /\ checker'.epochAge = e /\ checker'.emptySeen = s
  BY <1>0, <1>3 DEF CheckerStates
<1>5. checker'.coveringLate = checker.coveringLate
  BY <1>0, <1>3, Zenon DEF CheckerStates
<1>6. slot'.exists = slot.exists /\ slot'.by = slot.by /\ (slot.exists => slot'.age = Older(slot.age))
  <2> DEFINE t == [slot EXCEPT !.age = Older(slot.age)]
  <2>1. t.by = slot.by /\ t.age = Older(slot.age)
    BY <1>0 DEF Slots
  <2>2. t.exists = slot.exists
    BY <1>0, Zenon DEF Slots
  <2>3. slot' = t \/ (slot' = slot /\ ~slot.exists)
    BY <1>1
  <2> HIDE DEF t
  <2> QED BY <2>1, <2>2, <2>3
<1>7. emptied'.by = emptied.by /\ emptied'.age = Older(emptied.age)
  BY <1>0, <1>1 DEF EpochTypes
<1>8. /\ checker.lookAge \in Nat /\ checker.epochAge \in 0..MaxEpoch /\ checker.emptySeen \in Nat
      /\ slot.age \in Nat /\ emptied.age \in Nat /\ MaxAge \in Nat /\ Never = MaxAge + 1 /\ MaxEpoch \in Nat
      /\ CheckerEvery \in Nat /\ Grace \in Nat
  <2>1. emptied.age \in Nat
    BY <1>0 DEF EpochTypes
  <2>2. slot.age \in Nat
    BY <1>0 DEF Slots
  <2> QED BY <1>0, <2>1, <2>2 DEF CheckerStates, EpochAssumption, Never, MaxAge
<1>9. checker.emptySeen # Never => s = Older(checker.emptySeen) /\ checker.emptySeen <= MaxAge
  BY <1>0, <1>8 DEF s, CheckerIsTimed
<1>10. s <= Never /\ (s = Never <=> checker.emptySeen = Never)
  <2>1. CASE checker.emptySeen = Never
    BY <1>8, <2>1 DEF s
  <2>2. CASE checker.emptySeen # Never
    <3>1. s <= MaxAge /\ s \in Nat
      BY <1>8, <1>9, <2>2, OlderGrows
    <3> QED BY <1>8, <2>2, <3>1
  <2> QED BY <2>1, <2>2
<1>11. CheckerIsTimed'
  <2>1. l <= CheckerEvery /\ (checker.phase # "idle" => l <= e)
    BY <1>0, <1>1, <1>8 DEF CheckerIsTimed, l, e
  <2>2. checker.phase \in Awaits /\ checker.result = "none" =>
            queue'["C"] # <<>> /\ LastOf(queue'["C"]).kind = Sent(checker.phase)
    BY <1>0, <1>2 DEF CheckerIsTimed
  <2> QED BY <1>0, <1>1, <1>4, <1>6, <1>7, <1>10, <2>1, <2>2 DEF CheckerIsTimed
<1>12. StillAuthorized' <=> StillAuthorized
  BY <1>1, <1>6 DEF StillAuthorized
<1>13. ASSUME Calm
       PROVE  LookIsRemembered' /\ OwnFinalizeIsRecent' /\ EmptyIsKnown' /\ FillIsDue'
  <2>0. LookIsRemembered /\ OwnFinalizeIsRecent /\ EmptyIsKnown /\ FillIsDue /\ l = checker.lookAge + 1
    BY <1>13 DEF WaitInv, Calm, l
  <2>1. LookedAgo' = LookedAgo + 1 /\ LookedAgo \in Nat
    BY <1>4, <1>8, <2>0 DEF LookedAgo
  <2>2. LookIsRemembered'
    <3> SUFFICES ASSUME slot.exists, StillAuthorized, Older(slot.age) > LookedAgo + 1
                 PROVE  checker.emptySeen = Never /\ ~checker.coveringLate
      BY <1>4, <1>5, <1>6, <1>10, <1>12, <2>1 DEF LookIsRemembered
    <3>1. slot.age > LookedAgo
      BY <1>8, <2>1, OlderGrows
    <3> QED BY <2>0, <3>1 DEF LookIsRemembered
  <2>3. OwnFinalizeIsRecent'
    <3> SUFFICES ASSUME checker.phase = "finalizing", checker.result = "landed"
                 PROVE  /\ slot.exists => Older(slot.age) <= checker.lookAge + 1
                        /\ ~slot.exists => emptied.by \in {"C", "committee", "slash"}
      BY <1>4, <1>6, <1>7, <2>0 DEF OwnFinalizeIsRecent
    <3>1. slot.exists => slot.age <= checker.lookAge
      BY <2>0 DEF OwnFinalizeIsRecent
    <3>2. Older(slot.age) <= slot.age + 1 /\ Older(slot.age) \in Nat
      BY <1>8, OlderGrows
    <3>3. slot.exists => Older(slot.age) <= checker.lookAge + 1
      BY <1>8, <3>1, <3>2
    <3> QED BY <2>0, <3>3 DEF OwnFinalizeIsRecent
  <2>4. EmptyIsKnown'
    <3> SUFFICES ASSUME ~slot.exists, emptied.by \in {"P", "none"}
                 PROVE  /\ ~checker.coveringLate
                        /\ s # Never => s <= Older(emptied.age) + MaxEpoch
      BY <1>4, <1>5, <1>6, <1>7 DEF EmptyIsKnown
    <3>1. ~checker.coveringLate /\ (checker.emptySeen # Never => checker.emptySeen <= emptied.age + MaxEpoch)
      BY <2>0 DEF EmptyIsKnown
    <3>2. ASSUME s # Never
          PROVE  s <= Older(emptied.age) + MaxEpoch
      <4>1. /\ s = Older(checker.emptySeen) /\ checker.emptySeen <= MaxAge
            /\ checker.emptySeen <= emptied.age + MaxEpoch
        BY <1>9, <1>10, <3>1, <3>2
      <4>2. /\ Older(checker.emptySeen) \in Nat /\ Older(checker.emptySeen) <= checker.emptySeen + 1
            /\ Older(checker.emptySeen) <= MaxAge
        BY <1>8, <4>1, OlderGrows
      <4>3. Older(emptied.age) = emptied.age + 1 \/ (Older(emptied.age) = emptied.age /\ emptied.age >= MaxAge)
        BY <1>8, OlderGrows
      <4> QED BY <1>8, <4>1, <4>2, <4>3
    <3> QED BY <3>1, <3>2
  <2>5. FillIsDue'
    <3> SUFFICES ASSUME NEW i \in DOMAIN queue["C"], queue["C"][i].kind = "propose"
                 PROVE  /\ ~slot.exists /\ emptied.by \in {"P", "none"} => Older(emptied.age) + MaxEpoch >= Grace
                        /\ slot.exists /\ StillAuthorized => Older(slot.age) <= queue["C"][i].age + 1
      BY <1>2, <1>6, <1>7, <1>12 DEF FillIsDue
    <3>1. /\ ~slot.exists /\ emptied.by \in {"P", "none"} => emptied.age + MaxEpoch >= Grace
          /\ slot.exists /\ StillAuthorized => slot.age <= queue["C"][i].age
      BY <2>0 DEF FillIsDue
    <3>2. queue["C"][i].age \in Nat
      BY <1>2 DEF Transactions, EpochAssumption
    <3>3. /\ Older(emptied.age) \in Nat /\ emptied.age <= Older(emptied.age)
          /\ Older(slot.age) \in Nat /\ Older(slot.age) <= slot.age + 1
      BY <1>8, OlderGrows
    <3>4. emptied.age + MaxEpoch >= Grace => Older(emptied.age) + MaxEpoch >= Grace
      BY <1>8, <3>3
    <3>5. slot.age <= queue["C"][i].age => Older(slot.age) <= queue["C"][i].age + 1
      BY <1>8, <3>2, <3>3
    <3> QED BY <3>1, <3>4, <3>5
  <2> QED BY <2>2, <2>3, <2>4, <2>5
<1> QED
  BY <1>1, <1>11, <1>13 DEF WaitInv, Calm

LEMMA WaitInvInit ==
    ASSUME EpochAssumption, Init
    PROVE  WaitInv
<1>1. /\ slot = EmptySlot /\ agent = "bonded" /\ faults = 0 /\ emptied = [age |-> 0, by |-> "none"]
      /\ checker = Forgetful /\ queue = [op \in Operators |-> <<>>]
  BY DEF Init
<1>2. ~slot.exists /\ emptied.by = "none"
  BY <1>1, EmptyIsNot
<1>3. /\ checker.phase = "idle" /\ checker.lookAge = CheckerEvery /\ checker.emptySeen = Never
      /\ checker.result = "none"
  BY <1>1 DEF Forgetful
<1>4. ~checker.coveringLate
  BY <1>1, Zenon DEF Forgetful
<1>5. queue["C"] = <<>>
  BY <1>1 DEF Operators
<1>6. CheckerIsTimed
  <2>1. CheckerEvery \in Nat /\ Never \in Nat
    BY DEF EpochAssumption, Never, MaxAge
  <2> QED BY <1>1, <1>2, <1>3, <2>1 DEF CheckerIsTimed, Awaits
<1>7. LookIsRemembered /\ OwnFinalizeIsRecent /\ EmptyIsKnown /\ FillIsDue
  BY <1>2, <1>3, <1>4, <1>5 DEF LookIsRemembered, OwnFinalizeIsRecent, EmptyIsKnown, FillIsDue
<1> QED
  BY <1>6, <1>7 DEF WaitInv

LEMMA WaitInvStep ==
    ASSUME EpochAssumption, ~ProbeRace, EpochIInv, WaitInv, [Next]_vars
    PROVE  WaitInv'
<1>1. CASE UNCHANGED vars
  BY <1>1 DEF vars, chainVars, WaitInv, CheckerIsTimed, Calm, LookIsRemembered, LookedAgo, OwnFinalizeIsRecent,
              EmptyIsKnown, FillIsDue, StillAuthorized
<1>2. CASE StartPrimary \/ PrimaryMovesOn \/ PrimaryFails
  BY <1>2, PrimaryWaits
<1>3. CASE CheckerSteps \/ RestartChecker
  BY <1>3, StartCheckerWaits, ReadSlotWaits, DecideWaits, CheckerWroteWaits, RestartCheckerWaits DEF CheckerSteps
<1>4. ASSUME NEW op \in Operators, Undisturbed(Mine(op)) \/ Replace(op) \/ GiveUp(op)
      PROVE  WaitInv'
  BY <1>4, MineByPrimaryWaits, MineByCheckerWaits, ReplaceWaits DEF Undisturbed, Operators
<1>5. CASE Undisturbed(Intervene) \/ Undisturbed(RejectReputation)
  BY <1>5, InterveneWaits, RejectReputationWaits DEF Undisturbed
<1>6. CASE Tick
  BY <1>6, TickWaits
<1> QED
  BY <1>1, <1>2, <1>3, <1>4, <1>5, <1>6 DEF Next

\* The step by which the checker fills a slot.
LEMMA FillIsAwaited ==
    ASSUME EpochAssumption, EpochIInv, WaitInv, Next,
           slot'.exists, slot' # slot, slot'.age = 0, slot'.by = "C"
    PROVE  \/ slot.exists /\ ~StillAuthorized
           \/ emptied.by \in {"C", "committee"}
           \/ emptied.age + MaxEpoch >= Grace
           \/ faults >= 2
<1>0. EpochTypes /\ CheckerIsTimed
  BY DEF EpochIInv, WaitInv
<1>1. queue["C"] # <<>> /\ Head(queue["C"]).kind = "propose" /\ MayFill("C")
  BY FillsAreMined DEF Operators
<1>2. agent = "bonded" /\ ~(slot.exists /\ StillAuthorized)
  BY <1>1 DEF MayFill, MayPropose
<1>3. faults >= 2 \/ Calm
  BY <1>0, <1>2 DEF EpochTypes, Calm
<1>4. CASE Calm /\ ~slot.exists /\ emptied.by \in {"P", "none"}
  <2>1. queue["C"] \in Seq(Transactions)
    BY <1>0 DEF EpochTypes, QueueTypes, Operators
  <2>2. Head(queue["C"]) = queue["C"][1] /\ 1 \in DOMAIN queue["C"]
    BY <1>1, <2>1, Shortened
  <2> QED BY <1>1, <1>4, <2>2 DEF WaitInv, FillIsDue
<1>5. emptied.by \in Operators \cup {"none", "slash", "committee"}
  BY <1>0 DEF EpochTypes
<1>6. emptied.by # "slash"
  BY <1>0, <1>2 DEF CheckerIsTimed
<1> QED
  BY <1>2, <1>3, <1>4, <1>5, <1>6 DEF Operators

\* ProposalsStand: no proposal in good standing is written over, and the checker fills a slot only when its occupant
\* lost its authority, when the slot was emptied by the checker or the committee, when it has been empty for the grace,
\* or after two interventions, where the slot is not written between its read and its probe (epoch-policy.js, index.js).
THEOREM CheckersWait == EpochAssumption /\ ~ProbeRace => (Spec => ProposalsStand)
<1> SUFFICES ASSUME EpochAssumption, ~ProbeRace PROVE Spec => ProposalsStand
  OBVIOUS
<1> DEFINE Waited == \/ slot.exists /\ ~StillAuthorized
                     \/ emptied.by \in {"C", "committee"}
                     \/ emptied.age + MaxEpoch >= Grace
                     \/ faults >= 2
           WInv == EpochIInv /\ WaitInv
<1>1. Init => WInv
  BY EpochIInvInit, WaitInvInit
<1>2. WInv /\ [Next]_vars => WInv'
  BY EpochIInvStep, WaitInvStep
<1>3. WInv /\ [Next]_vars =>
          [(slot'.exists /\ slot' # slot /\ slot'.age = 0 /\ slot'.by = "C") => Waited]_slot
  <2> SUFFICES ASSUME WInv, [Next]_vars, slot' # slot
               PROVE  (slot'.exists /\ slot' # slot /\ slot'.age = 0 /\ slot'.by = "C") => Waited
    OBVIOUS
  <2>1. Next
    BY DEF vars, chainVars
  <2> QED BY <2>1, FillIsAwaited
<1>4. Spec => LiveProposalsStand
  BY StandingProposalsAreKept
<1>5. Spec => CheckerWaits
  BY <1>1, <1>2, <1>3, PTL DEF Spec, CheckerWaits
<1> QED
  BY <1>4, <1>5 DEF ProposalsStand
==============================================================================
