------------------------ MODULE SigvaraRequestProofs ------------------------
(***************************************************************************)
(* Proofs about the requests that race. The gate and the trust server, for *)
(* any agents, nonces and number of admissions that overlap, any lifetime  *)
(* and any of the stores: an answer is admitted once, nobody's is taken    *)
(* away, what is spent is forgotten in time, and an admission asked        *)
(* everything it had to.                                                   *)
(*                                                                         *)
(* And the oracle's POST /attest, /flag and /flag/resolve, for any         *)
(* payments, requests and cooldown: an outcome is tallied once, strangers' *)
(* reports are a cooldown apart, and what was answered 200 is on disk.     *)
(***************************************************************************)
EXTENDS SigvaraGate, SigvaraAttest, SequenceTheorems, WellFoundedInduction, TLAPS

------------------------------------------------------------------------------
(* The invariant.                                                          *)

Stores == {"memory", "pair", "shared", "server"}
Entries == [name : Names, age : Int]
Stages == {"key", "spend", "add", "prune", "prunePair", "standing"}
Admissions == [stage : {"over"}, ok : BOOLEAN] \cup
              [stage : Stages, name : Names, elapsed : 0..MaxRead, always : SUBSET Facts, ever : SUBSET Facts]

GateTypes ==
    /\ store \in Stores
    /\ payload \in [Names -> [age : Int, issued : BOOLEAN, key : Int, made : BOOLEAN]]
    /\ spent \in Seq(Entries) /\ backend \subseteq Entries
    /\ outstanding \subseteq Names
    /\ admits \in [Admits -> Admissions]
    /\ standing \in [Agents -> SUBSET Facts]
    /\ keyOf \in [Agents -> Int]
    /\ accepted \subseteq Names

\* What is being admitted is a challenge that was within its lifetime when the admission began.
HeldIsYoung ==
    \A s \in Admits : Running(s) =>
        /\ payload[admits[s].name].made
        /\ payload[admits[s].name].age >= -Skew
        /\ payload[admits[s].name].age <= TTL + admits[s].elapsed

\* One admission at a time is between seen and add for a challenge, and nobody spent it meanwhile.
PairIsLocked ==
    \A s \in Admits : At(s, "add") =>
        /\ store = "pair"
        /\ admits[s].name \in accepted => payload[admits[s].name].age > TTL
        /\ \A t \in Admits : At(t, "add") /\ admits[t].name = admits[s].name => t = s

\* What was spent is remembered for its lifetime: in the process's store, in the backend, or by its absence
\* from the trust server's map.
SpentIsKnown ==
    \A m \in accepted :
        /\ payload[m].made
        /\ store \in {"memory", "pair"} /\ payload[m].age <= TTL => \E i \in DOMAIN spent : spent[i] = Entry(m)
        /\ store = "shared" /\ payload[m].age < TTL => Entry(m) \in backend
        /\ store = "server" => m \notin outstanding

\* A challenge that can still be presented is remembered only because it was spent.
KnownIsSpent == \A m \in Names : InStore(m) /\ payload[m].made => m \in accepted

\* Entries are nearly in the order they expire.
Disorder == TTL + MaxRead + Skew
NearlyOrdered ==
    /\ \A i \in DOMAIN spent : spent[i].age >= -Skew
    /\ \A i, j \in DOMAIN spent : i < j => spent[j].age <= spent[i].age + Disorder

GateInv == GateTypes /\ HeldIsYoung /\ PairIsLocked /\ SpentIsKnown /\ KnownIsSpent /\ NearlyOrdered

------------------------------------------------------------------------------
(* The first of a set of numbers.                                          *)

LEMMA LeastIndex ==
    ASSUME NEW T, T \subseteq Nat, T # {}
    PROVE  \E i \in T : \A j \in T : i <= j
<1> DEFINE R == OpToRel(<, Nat)
<1>1. IsWellFoundedOn(R, Nat)
  BY NatLessThanWellFounded
<1>2. \A i, j \in Nat : j < i => <<j, i>> \in R
  BY DEF OpToRel
<1> HIDE DEF R
<1>3. PICK i \in T : \A j \in T : ~(<<j, i>> \in R)
  BY <1>1, WFMin
<1>4. ASSUME NEW j \in T PROVE i <= j
  <2>1. i \in Nat /\ j \in Nat
    OBVIOUS
  <2>2. ~(j < i)
    BY <1>2, <1>3, <2>1
  <2>3. QED
    BY <2>1, <2>2
<1>5. QED
  BY <1>4

------------------------------------------------------------------------------
(* What the definitions say of one admission.                              *)

LEMMA AdmissionFields ==
    ASSUME GateTypes, NEW s \in Admits
    PROVE  /\ ~Running(s) => admits[s] \in [stage : {"over"}, ok : BOOLEAN]
           /\ Running(s) => admits[s] \in [stage : Stages, name : Names, elapsed : 0..MaxRead,
                                           always : SUBSET Facts, ever : SUBSET Facts]
  BY DEF GateTypes, Admissions, Stages, Running

LEMMA OverIsAdmission ==
    ASSUME NEW reason
    PROVE  Over(reason) \in [stage : {"over"}, ok : BOOLEAN]
  BY DEF Over

LEMMA Numbers ==
    /\ TTL \in Nat /\ Skew \in Nat /\ Ahead \in Nat /\ MaxRead \in Nat /\ MaxOld \in Nat /\ MaxOutstanding \in Nat /\ MaxChanges \in Nat
    /\ TTL > 0 /\ MaxOld > 2 * (TTL + MaxRead) + Skew
    /\ Asking \subseteq Names /\ Writing \subseteq Names /\ Changing \subseteq Agents
  BY GateAssumption DEF GateAssumption

\* A clock that stops at MaxOld keeps what is older than a lifetime so.
LEMMA OlderIsMonotone ==
    ASSUME NEW age \in Int, NEW other \in Int
    PROVE  /\ Older(age) \in Int
           /\ Older(age) <= age + 1
           /\ age > TTL => Older(age) > TTL
           /\ age >= -Skew => Older(age) >= -Skew
           /\ Older(age) <= TTL => age <= TTL
           /\ Older(age) < TTL => age < TTL
           /\ age <= other + Disorder /\ other >= -Skew => Older(age) <= Older(other) + Disorder
  BY Numbers DEF Older, Disorder

------------------------------------------------------------------------------
(* Types.                                                                  *)

LEMMA InitTypes == Init => GateTypes
<1>1. ASSUME Init PROVE GateTypes
  <2>1. store \in Stores
    BY <1>1, GateAssumption DEF Init, GateAssumption, Stores
  <2>2. payload \in [Names -> [age : Int, issued : BOOLEAN, key : Int, made : BOOLEAN]]
    BY <1>1 DEF Init, NoPayload, Unsigned
  <2>3. spent \in Seq(Entries)
    BY <1>1, EmptySeq DEF Init
  <2>4. admits \in [Admits -> Admissions]
    BY <1>1, OverIsAdmission DEF Init, Admissions
  <2>5. QED
    BY <1>1, <2>1, <2>2, <2>3, <2>4 DEF Init, GateTypes
<1>2. QED
  BY <1>1

\* What a step that ends an admission, moves it on or begins it leaves well typed.
LEMMA AdmissionTypes ==
    ASSUME GateTypes, NEW s \in Admits
    PROVE  /\ \A reason : End(s, reason) => admits' \in [Admits -> Admissions]
           /\ \A stage \in Stages : Running(s) /\ To(s, stage) => admits' \in [Admits -> Admissions]
           /\ Running(s) /\ Ask(s) => admits' \in [Admits -> Admissions]
<1>1. admits \in [Admits -> Admissions] /\ standing \in [Agents -> SUBSET Facts]
  BY DEF GateTypes
<1>2. ASSUME NEW reason, End(s, reason) PROVE admits' \in [Admits -> Admissions]
  BY <1>1, <1>2, OverIsAdmission DEF End, Admissions
<1>3. ASSUME NEW stage \in Stages, Running(s), To(s, stage) PROVE admits' \in [Admits -> Admissions]
  BY <1>1, <1>3, AdmissionFields DEF To, Admissions
<1>4. ASSUME Running(s), Ask(s) PROVE admits' \in [Admits -> Admissions]
  <2>1. admits[s].name[1] \in Agents
    BY <1>4, AdmissionFields DEF Names
  <2>2. standing[admits[s].name[1]] \in SUBSET Facts
    BY <2>1, <1>1
  <2>3. QED
    BY <1>1, <1>4, <2>2, AdmissionFields DEF Ask, Admissions, Stages
<1>5. QED
  BY <1>2, <1>3, <1>4

LEMMA Appended ==
    ASSUME NEW S, NEW q \in Seq(S), NEW e \in S
    PROVE  /\ Append(q, e) \in Seq(S) /\ DOMAIN Append(q, e) = 1..(Len(q) + 1)
           /\ \A i \in 1..Len(q) : Append(q, e)[i] = q[i]
           /\ Append(q, e)[Len(q) + 1] = e
  BY AppendProperties

LEMMA Rest ==
    ASSUME NEW S, NEW q \in Seq(S), NEW k \in 1..Len(q)
    PROVE  /\ SubSeq(q, k, Len(q)) \in Seq(S) /\ DOMAIN SubSeq(q, k, Len(q)) = 1..(Len(q) - k + 1)
           /\ \A i \in 1..(Len(q) - k + 1) : SubSeq(q, k, Len(q))[i] = q[k + i - 1]
<1>1. Len(q) \in Nat /\ k \in 1..(Len(q) + 1) /\ Len(q) \in (k - 1)..Len(q)
  OBVIOUS
<1>2. QED
  BY <1>1, SubSeqProperties

LEMMA SpentList ==
    ASSUME GateTypes
    PROVE  /\ spent \in Seq(Entries) /\ DOMAIN spent = 1..Len(spent) /\ Len(spent) \in Nat
           /\ \A i \in DOMAIN spent : spent[i] \in Entries /\ spent[i].name \in Names /\ spent[i].age \in Int
<1>1. spent \in Seq(Entries)
  BY DEF GateTypes
<1>2. DOMAIN spent = 1..Len(spent) /\ Len(spent) \in Nat /\ \A i \in DOMAIN spent : spent[i] \in Entries
  BY <1>1
<1>3. QED
  BY <1>1, <1>2 DEF Entries

LEMMA EntryType ==
    ASSUME GateTypes, NEW m \in Names
    PROVE  Entry(m) \in Entries
  BY DEF GateTypes, Entry, Entries

LEMMA TakeTypes ==
    ASSUME GateTypes, NEW s \in Admits, Running(s), Take(s)
    PROVE  spent' \in Seq(Entries) /\ backend' \subseteq Entries /\ accepted' \subseteq Names
<1>1. admits[s].name \in Names /\ Entry(admits[s].name) \in Entries
  BY AdmissionFields, EntryType
<1>2. Append(spent, Entry(admits[s].name)) \in Seq(Entries)
  BY <1>1, Appended, SpentList
<1>3. QED
  BY <1>1, <1>2, SpentList DEF Take, GateTypes

\* A prune leaves a rest of the list, and drops nothing that had not expired when the admission began.
LEMMA LeftIsRest ==
    ASSUME GateTypes, NEW s \in Admits, Running(s)
    PROVE  \/ Left(s) = <<>> /\ \A i \in DOMAIN spent : spent[i].age > TTL + admits[s].elapsed
           \/ \E k \in DOMAIN spent :
                /\ Left(s) = SubSeq(spent, k, Len(spent))
                /\ spent[k].age <= TTL + admits[s].elapsed
                /\ \A i \in 1..(k - 1) : spent[i].age > TTL + admits[s].elapsed
<1> DEFINE live == {i \in DOMAIN spent : spent[i].age - admits[s].elapsed <= TTL}
<1>1. admits[s].elapsed \in Int
  BY AdmissionFields, Numbers
<1>2. \A i \in DOMAIN spent : i \in live <=> spent[i].age <= TTL + admits[s].elapsed
  BY <1>1, SpentList, Numbers
<1>3. live \subseteq DOMAIN spent /\ live \subseteq Nat
  BY SpentList
<1>4. Left(s) = IF live = {} THEN <<>> ELSE SubSeq(spent, CHOOSE i \in live : \A j \in live : i <= j, Len(spent))
  BY DEF Left
<1> HIDE DEF live
<1>5. CASE live = {}
  <2>1. \A i \in DOMAIN spent : spent[i].age > TTL + admits[s].elapsed
    BY <1>1, <1>2, <1>5, SpentList, Numbers
  <2>2. QED
    BY <1>4, <1>5, <2>1
<1>6. CASE live # {}
  <2> DEFINE k == CHOOSE n \in live : \A j \in live : n <= j
  <2>1. k \in live /\ \A j \in live : k <= j
    BY <1>3, <1>6, LeastIndex
  <2>2. Left(s) = SubSeq(spent, k, Len(spent))
    BY <1>4, <1>6
  <2> HIDE DEF k
  <2>3. \A i \in 1..(k - 1) : i \in DOMAIN spent /\ i \notin live
    BY <1>3, <2>1, SpentList
  <2>4. \A i \in 1..(k - 1) : spent[i].age > TTL + admits[s].elapsed
    BY <1>1, <1>2, <2>3, SpentList, Numbers
  <2>5. k \in DOMAIN spent /\ spent[k].age <= TTL + admits[s].elapsed
    BY <1>2, <1>3, <2>1
  <2>6. QED
    BY <2>2, <2>4, <2>5
<1>7. QED
  BY <1>5, <1>6

------------------------------------------------------------------------------
(* The invariant is kept.                                                  *)

LEMMA InvInit == Init => GateInv
<1>1. ASSUME Init PROVE GateInv
  <2>1. GateTypes
    BY <1>1, InitTypes
  <2>2. \A s \in Admits : ~Running(s) /\ ~At(s, "add")
    BY <1>1 DEF Init, Running, At, Over
  <2>3. HeldIsYoung /\ PairIsLocked
    BY <2>2 DEF HeldIsYoung, PairIsLocked
  <2>4. SpentIsKnown
    BY <1>1 DEF Init, SpentIsKnown
  <2>5. spent = <<>> /\ backend = {} /\ DOMAIN spent = {}
    BY <1>1 DEF Init
  <2>6. KnownIsSpent
    BY <2>5 DEF KnownIsSpent, InStore
  <2>7. NearlyOrdered
    BY <2>5 DEF NearlyOrdered
  <2>8. QED
    BY <2>1, <2>3, <2>4, <2>6, <2>7 DEF GateInv
<1>2. QED
  BY <1>1

\* A challenge is written under a name nothing refers to.
LEMMA WrittenIsNew ==
    ASSUME GateInv, NEW m \in Names, NEW p \in [age : Int, issued : BOOLEAN, key : Int, made : BOOLEAN],
           ~payload[m].made, ~InStore(m), ~Held(m),
           payload' = [payload EXCEPT ![m] = p], outstanding' \subseteq outstanding \cup {m},
           UNCHANGED <<store, spent, backend, admits, standing, keyOf, accepted>>
    PROVE  GateInv'
<1>1. GateTypes /\ HeldIsYoung /\ PairIsLocked /\ SpentIsKnown /\ KnownIsSpent /\ NearlyOrdered
  BY DEF GateInv
<1>2. GateTypes'
  BY <1>1 DEF GateTypes
<1>3. \A n \in Names : n # m => payload'[n] = payload[n]
  BY <1>1 DEF GateTypes
<1>4. \A s \in Admits : Running(s) => admits[s].name \in Names \ {m}
  BY <1>1, AdmissionFields DEF Held
<1>5. HeldIsYoung'
  BY <1>1, <1>3, <1>4 DEF HeldIsYoung, Running
<1>6. PairIsLocked'
  BY <1>1, <1>3, <1>4 DEF PairIsLocked, At, Running
<1>7. m \notin accepted /\ accepted \subseteq Names
  BY <1>1 DEF SpentIsKnown, GateTypes
<1>8. \A n \in accepted : payload'[n] = payload[n] /\ Entry(n)' = Entry(n)
  BY <1>3, <1>7 DEF Entry
<1>9. SpentIsKnown'
  BY <1>1, <1>7, <1>8 DEF SpentIsKnown
<1>10. KnownIsSpent'
  BY <1>1, <1>3 DEF KnownIsSpent, InStore
<1>11. NearlyOrdered'
  BY <1>1 DEF NearlyOrdered
<1>12. QED
  BY <1>2, <1>5, <1>6, <1>9, <1>10, <1>11 DEF GateInv

LEMMA ChallengeKeeps ==
    ASSUME GateInv, NEW m \in Asking, Challenge(m[1], m[2])
    PROVE  GateInv'
<1> DEFINE p == [age |-> 0, issued |-> TRUE, key |-> Unsigned, made |-> TRUE]
<1>1. m \in Names /\ m[1] \in Agents /\ m = <<m[1], m[2]>>
  BY Numbers DEF Names
<1>2. ~payload[m].made /\ ~InStore(m) /\ ~Held(m)
  BY <1>1 DEF Challenge, Unused
<1>3. outstanding' \subseteq outstanding \cup {m}
  BY <1>1 DEF Challenge, Kept
<1>4. payload' = [payload EXCEPT ![m] = p]
  BY <1>1 DEF Challenge, Put
<1>5. p \in [age : Int, issued : BOOLEAN, key : Int, made : BOOLEAN]
  BY DEF Unsigned
<1>6. QED
  BY <1>1, <1>2, <1>3, <1>4, <1>5, WrittenIsNew DEF Challenge

LEMMA OwnChallengeKeeps ==
    ASSUME GateInv, NEW m \in Writing, NEW age \in (-Ahead)..0, OwnChallenge(m[1], m[2], age)
    PROVE  GateInv'
<1> DEFINE p == [age |-> age, issued |-> FALSE, key |-> keyOf[m[1]], made |-> TRUE]
<1>1. m \in Names /\ m[1] \in Agents /\ m = <<m[1], m[2]>>
  BY Numbers DEF Names
<1>2. age \in Int /\ keyOf[m[1]] \in Int
  BY <1>1, Numbers DEF GateInv, GateTypes
<1>3. payload' = [payload EXCEPT ![m] = p] /\ p \in [age : Int, issued : BOOLEAN, key : Int, made : BOOLEAN]
  BY <1>1, <1>2 DEF OwnChallenge
<1>4. QED
  BY <1>1, <1>3, WrittenIsNew DEF OwnChallenge

LEMMA SignChallengeKeeps ==
    ASSUME GateInv, NEW m \in Asking, SignChallenge(m[1], m[2])
    PROVE  GateInv'
<1>1. GateTypes /\ HeldIsYoung /\ PairIsLocked /\ SpentIsKnown /\ KnownIsSpent /\ NearlyOrdered
  BY DEF GateInv
<1>2. m \in Names /\ m[1] \in Agents /\ m = <<m[1], m[2]>>
  BY Numbers DEF Names
<1>3. GateTypes'
  <2>1. keyOf[m[1]] \in Int
    BY <1>1, <1>2 DEF GateTypes
  <2>2. payload' \in [Names -> [age : Int, issued : BOOLEAN, key : Int, made : BOOLEAN]]
    BY <1>1, <1>2, <2>1 DEF GateTypes, SignChallenge
  <2>3. QED
    BY <1>1, <2>2 DEF GateTypes, SignChallenge
<1>4. \A n \in Names : payload'[n].age = payload[n].age /\ payload'[n].made = payload[n].made
  BY <1>1, <1>2 DEF GateTypes, SignChallenge
<1>5. \A s \in Admits : Running(s) => admits[s].name \in Names
  BY <1>1, AdmissionFields
<1>6. HeldIsYoung'
  BY <1>1, <1>4, <1>5 DEF HeldIsYoung, Running, SignChallenge
<1>7. PairIsLocked'
  BY <1>1, <1>4, <1>5 DEF PairIsLocked, At, Running, SignChallenge
<1>8. \A n \in accepted : n \in Names /\ Entry(n)' = Entry(n)
  BY <1>1, <1>4 DEF Entry, GateTypes
<1>9. SpentIsKnown'
  BY <1>1, <1>4, <1>8 DEF SpentIsKnown, SignChallenge
<1>10. KnownIsSpent' /\ NearlyOrdered'
  BY <1>1, <1>4 DEF KnownIsSpent, InStore, NearlyOrdered, SignChallenge
<1>11. QED
  BY <1>3, <1>6, <1>7, <1>9, <1>10 DEF GateInv

\* An admission begins, goes on to anything but an add, or ends, and nothing else moves.
LEMMA AdmissionKeeps ==
    ASSUME GateInv, NEW s \in Admits, admits' \in [Admits -> Admissions], ~At(s, "add")',
           \A t \in Admits \ {s} : admits'[t] = admits[t],
           Running(s)' => /\ payload[admits'[s].name].made
                          /\ payload[admits'[s].name].age >= -Skew
                          /\ payload[admits'[s].name].age <= TTL + admits'[s].elapsed,
           UNCHANGED <<store, payload, spent, backend, outstanding, standing, keyOf, accepted>>
    PROVE  GateInv'
<1>1. GateTypes /\ HeldIsYoung /\ PairIsLocked /\ SpentIsKnown /\ KnownIsSpent /\ NearlyOrdered
  BY DEF GateInv
<1>2. GateTypes'
  BY <1>1 DEF GateTypes
<1>3. HeldIsYoung'
  BY <1>1 DEF HeldIsYoung, Running
<1>4. PairIsLocked'
  BY <1>1 DEF PairIsLocked, At
<1>5. SpentIsKnown' /\ KnownIsSpent' /\ NearlyOrdered'
  BY <1>1 DEF SpentIsKnown, KnownIsSpent, NearlyOrdered, InStore, Entry
<1>6. QED
  BY <1>2, <1>3, <1>4, <1>5 DEF GateInv

LEMMA StartAdmitKeeps ==
    ASSUME GateInv, NEW s \in Admits, NEW m \in Asking \cup Writing, StartAdmit(s, m)
    PROVE  GateInv'
<1>1. m \in Names
  BY Numbers
<1>2. GateTypes /\ admits \in [Admits -> Admissions] /\ payload[m].age \in Int
  BY <1>1 DEF GateInv, GateTypes
<1>3. \A t \in Admits \ {s} : admits'[t] = admits[t]
  BY <1>2 DEF StartAdmit
<1>4. CASE Refusal(m) # "none"
  <2>1. admits' = [admits EXCEPT ![s] = Over(Refusal(m))]
    BY <1>4 DEF StartAdmit
  <2>2. admits' \in [Admits -> Admissions] /\ ~At(s, "add")' /\ ~Running(s)'
    BY <1>2, <2>1, OverIsAdmission DEF Admissions, At, Running, Over
  <2>3. QED
    BY <1>3, <2>2, AdmissionKeeps DEF StartAdmit
<1>5. CASE Refusal(m) = "none"
  <2> DEFINE a == [stage |-> "key", name |-> m, elapsed |-> 0, always |-> {}, ever |-> {}]
  <2>1. admits' = [admits EXCEPT ![s] = a]
    BY <1>5 DEF StartAdmit
  <2>2. a \in Admissions
    BY <1>1, Numbers DEF Admissions, Stages
  <2>3. admits' \in [Admits -> Admissions] /\ admits'[s] = a
    BY <1>2, <2>1, <2>2
  <2>4. ~At(s, "add")' /\ admits'[s].name = m /\ admits'[s].elapsed = 0
    BY <2>3 DEF At
  <2>5. payload[m].made
    BY DEF StartAdmit
  <2>6. ~IsExpired(payload[m].age)
    BY <1>5 DEF Refusal
  <2>7. payload[m].age >= -Skew /\ payload[m].age <= TTL
    BY <1>2, <2>6, Numbers DEF IsExpired
  <2>8. payload[m].age <= TTL + 0
    BY <1>2, <2>7, Numbers
  <2>9. QED
    BY <1>3, <2>3, <2>4, <2>5, <2>7, <2>8, AdmissionKeeps DEF StartAdmit
<1>6. QED
  BY <1>4, <1>5

\* What an admission that ends or goes on leaves of itself.
LEMMA GoesOn ==
    ASSUME GateInv, NEW s \in Admits, Running(s)
    PROVE  /\ \A reason : End(s, reason) =>
                /\ admits' \in [Admits -> Admissions]
                /\ \A t \in Admits \ {s} : admits'[t] = admits[t]
                /\ ~Running(s)' /\ ~At(s, "add")' /\ admits'[s] = Over(reason)
           /\ \A stage \in Stages : To(s, stage) =>
                /\ admits' \in [Admits -> Admissions]
                /\ \A t \in Admits \ {s} : admits'[t] = admits[t]
                /\ Running(s)' /\ admits'[s].stage = stage /\ admits'[s].name = admits[s].name
                /\ admits'[s].elapsed = admits[s].elapsed
           /\ Ask(s) =>
                /\ admits' \in [Admits -> Admissions]
                /\ \A t \in Admits \ {s} : admits'[t] = admits[t]
                /\ Running(s)' /\ admits'[s].stage = "standing" /\ admits'[s].name = admits[s].name
                /\ admits'[s].elapsed = admits[s].elapsed
<1>1. GateTypes /\ admits \in [Admits -> Admissions]
  BY DEF GateInv, GateTypes
<1>2. admits[s] \in [stage : Stages, name : Names, elapsed : 0..MaxRead, always : SUBSET Facts, ever : SUBSET Facts]
  BY <1>1, AdmissionFields
<1>3. ASSUME NEW reason, End(s, reason)
      PROVE  /\ \A t \in Admits \ {s} : admits'[t] = admits[t]
             /\ ~Running(s)' /\ ~At(s, "add")' /\ admits'[s] = Over(reason)
  BY <1>1, <1>3 DEF End, Running, At, Over
<1>4. ASSUME NEW stage \in Stages, To(s, stage)
      PROVE  /\ \A t \in Admits \ {s} : admits'[t] = admits[t]
             /\ Running(s)' /\ admits'[s].stage = stage /\ admits'[s].name = admits[s].name
             /\ admits'[s].elapsed = admits[s].elapsed
  BY <1>1, <1>2, <1>4 DEF To, Running, Stages
<1>5. ASSUME Ask(s)
      PROVE  /\ \A t \in Admits \ {s} : admits'[t] = admits[t]
             /\ Running(s)' /\ admits'[s].stage = "standing" /\ admits'[s].name = admits[s].name
             /\ admits'[s].elapsed = admits[s].elapsed
  BY <1>1, <1>2, <1>5 DEF Ask, Running
<1>6. QED
  BY <1>1, <1>3, <1>4, <1>5, AdmissionTypes

\* Steps that move one admission alone: its first reads, what a store answers to seen, its last reads.
LEMMA ReadsKeep ==
    ASSUME GateInv, NEW s \in Admits, ReadKey(s) \/ ReadFails(s) \/ ReadStanding(s)
    PROVE  GateInv'
<1>1. Running(s)
  BY DEF ReadKey, ReadFails, ReadStanding, At, Running
<1>2. (\E reason : End(s, reason)) \/ To(s, "spend")
  BY DEF ReadKey, ReadFails, ReadStanding
<1>3. UNCHANGED <<store, payload, spent, backend, outstanding, standing, keyOf, accepted>>
  BY DEF ReadKey, ReadFails, ReadStanding
<1>4. payload[admits[s].name].made /\ payload[admits[s].name].age >= -Skew
      /\ payload[admits[s].name].age <= TTL + admits[s].elapsed
  BY <1>1 DEF GateInv, HeldIsYoung
<1>5. CASE \E reason : End(s, reason)
  BY <1>1, <1>3, <1>5, GoesOn, AdmissionKeeps
<1>6. CASE To(s, "spend")
  <2>1. "spend" \in Stages
    BY DEF Stages
  <2>2. /\ admits' \in [Admits -> Admissions] /\ \A t \in Admits \ {s} : admits'[t] = admits[t]
        /\ admits'[s].stage = "spend" /\ admits'[s].name = admits[s].name /\ admits'[s].elapsed = admits[s].elapsed
    BY <1>1, <1>6, <2>1, GoesOn
  <2>3. ~At(s, "add")'
    BY <2>2 DEF At
  <2>4. QED
    BY <1>3, <1>4, <2>2, <2>3, AdmissionKeeps
<1>7. QED
  BY <1>2, <1>5, <1>6

LEMMA SeeKeeps ==
    ASSUME GateInv, NEW s \in Admits, See(s)
    PROVE  GateInv'
<1>1. Running(s) /\ store = "pair"
  BY DEF See, At, Running
<1>2. UNCHANGED <<store, payload, spent, backend, outstanding, standing, keyOf, accepted>>
  BY DEF See
<1>3. CASE End(s, "replayed")
  BY <1>1, <1>2, <1>3, GoesOn, AdmissionKeeps
<1>4. CASE To(s, "add") /\ ~Busy(admits[s].name) /\ ~Spent(admits[s].name)
  <2>1. GateTypes /\ HeldIsYoung /\ PairIsLocked /\ SpentIsKnown /\ KnownIsSpent /\ NearlyOrdered
    BY DEF GateInv
  <2>2. "add" \in Stages
    BY DEF Stages
  <2>3. /\ admits' \in [Admits -> Admissions] /\ \A t \in Admits \ {s} : admits'[t] = admits[t]
        /\ admits'[s].stage = "add" /\ admits'[s].name = admits[s].name /\ admits'[s].elapsed = admits[s].elapsed
    BY <1>1, <1>4, <2>2, GoesOn
  <2>4. GateTypes'
    BY <1>2, <2>1, <2>3 DEF GateTypes
  <2>5. HeldIsYoung'
    BY <1>1, <1>2, <2>1, <2>3 DEF HeldIsYoung, Running
  <2>6. \A t \in Admits : At(t, "add") => admits[t].name # admits[s].name
    BY <1>4 DEF Busy, KeyOf, InFlight, At
  <2>7. admits[s].name \in accepted => payload[admits[s].name].age > TTL
    <3>1. ASSUME admits[s].name \in accepted, payload[admits[s].name].age <= TTL PROVE FALSE
      <4>1. \E i \in DOMAIN spent : spent[i] = Entry(admits[s].name)
        BY <1>1, <2>1, <3>1 DEF SpentIsKnown
      <4>2. Spent(admits[s].name)
        BY <4>1 DEF Spent, KeyOf, InStore, Entry
      <4>3. QED
        BY <1>4, <4>2
    <3>2. admits[s].name \in Names /\ payload[admits[s].name].age \in Int
      BY <1>1, <2>1, AdmissionFields DEF GateTypes
    <3>3. QED
      BY <3>1, <3>2, Numbers
  <2>8. PairIsLocked'
    <3>1. ASSUME NEW t \in Admits, At(t, "add")'
          PROVE  /\ store' = "pair"
                 /\ admits'[t].name \in accepted' => payload'[admits'[t].name].age > TTL
                 /\ \A u \in Admits : At(u, "add")' /\ admits'[u].name = admits'[t].name => u = t
      <4>1. CASE t = s
        BY <1>1, <1>2, <2>3, <2>6, <2>7, <4>1 DEF At
      <4>2. CASE t # s
        <5>1. At(t, "add") /\ admits'[t] = admits[t]
          BY <2>3, <3>1, <4>2 DEF At
        <5>2. \A u \in Admits : At(u, "add")' /\ admits'[u].name = admits'[t].name => u = t
          BY <2>1, <2>3, <2>6, <5>1 DEF PairIsLocked, At
        <5>3. QED
          BY <1>1, <1>2, <2>1, <5>1, <5>2 DEF PairIsLocked
      <4>3. QED
        BY <4>1, <4>2
    <3>2. QED
      BY <3>1 DEF PairIsLocked
  <2>9. SpentIsKnown' /\ KnownIsSpent' /\ NearlyOrdered'
    BY <1>2, <2>1 DEF SpentIsKnown, KnownIsSpent, NearlyOrdered, InStore, Entry
  <2>10. QED
    BY <2>4, <2>5, <2>8, <2>9 DEF GateInv
<1>5. QED
  BY <1>3, <1>4 DEF See

\* An answer is taken: by consume, which no other store's admission is in the middle of, or by the add of the one
\* admission that holds the lock.
LEMMA TakeKeeps ==
    ASSUME GateInv, NEW s \in Admits, Running(s), Take(s), store # "server",
           admits' \in [Admits -> Admissions], \A t \in Admits \ {s} : admits'[t] = admits[t],
           Running(s)', ~At(s, "add")', admits'[s].name = admits[s].name, admits'[s].elapsed = admits[s].elapsed,
           At(s, "add") \/ store # "pair",
           UNCHANGED <<store, payload, outstanding, standing, keyOf>>
    PROVE  GateInv'
<1> DEFINE m == admits[s].name
<1>1. GateTypes /\ HeldIsYoung /\ PairIsLocked /\ SpentIsKnown /\ KnownIsSpent /\ NearlyOrdered
  BY DEF GateInv
<1>2. m \in Names /\ Entry(m) \in Entries /\ admits[s].elapsed \in 0..MaxRead
  BY <1>1, AdmissionFields, EntryType
<1>3. accepted' = accepted \cup {m} /\ \A n : Entry(n)' = Entry(n)
  BY DEF Take, Entry
<1>4. /\ store = "shared" => backend' = backend \cup {Entry(m)} /\ spent' = spent
      /\ store # "shared" => spent' = Append(spent, Entry(m)) /\ backend' = backend
  BY DEF Take
<1>5. /\ Append(spent, Entry(m)) \in Seq(Entries) /\ DOMAIN Append(spent, Entry(m)) = 1..(Len(spent) + 1)
      /\ \A i \in 1..Len(spent) : Append(spent, Entry(m))[i] = spent[i]
      /\ Append(spent, Entry(m))[Len(spent) + 1] = Entry(m)
  BY <1>1, <1>2, Appended, SpentList
<1>6. Entry(m).name = m /\ Entry(m).age = payload[m].age
  BY DEF Entry
<1>7. payload[m].made /\ payload[m].age \in Int /\ payload[m].age >= -Skew /\ payload[m].age <= TTL + admits[s].elapsed
  BY <1>1, <1>2 DEF HeldIsYoung, GateTypes
<1>8. GateTypes'
  <2>1. spent' \in Seq(Entries) /\ backend' \subseteq Entries /\ accepted' \subseteq Names
    BY <1>1, TakeTypes
  <2>2. QED
    BY <1>1, <2>1 DEF GateTypes
<1>9. HeldIsYoung'
  BY <1>1, <1>7 DEF HeldIsYoung, Running
<1>10. PairIsLocked'
  <2>1. ASSUME NEW t \in Admits, At(t, "add")'
        PROVE  t # s /\ At(t, "add") /\ admits'[t] = admits[t] /\ admits[t].name # m /\ store = "pair"
    <3>1. t # s /\ At(t, "add") /\ admits'[t] = admits[t]
      BY <2>1 DEF At
    <3>2. store = "pair"
      BY <1>1, <3>1 DEF PairIsLocked
    <3>3. admits[t].name # m
      BY <1>1, <3>1, <3>2 DEF PairIsLocked
    <3>4. QED
      BY <3>1, <3>2, <3>3
  <2>2. QED
    BY <1>1, <1>3, <2>1 DEF PairIsLocked
<1>11. SpentIsKnown'
  <2>1. ASSUME NEW n \in accepted', store \in {"memory", "pair"}, payload[n].age <= TTL
        PROVE  \E i \in DOMAIN spent' : spent'[i] = Entry(n)
    <3>1. CASE n = m
      <4>1. Len(spent) + 1 \in DOMAIN spent' /\ spent'[Len(spent) + 1] = Entry(n)
        BY <1>1, <1>4, <1>5, <2>1, <3>1, SpentList
      <4>2. QED
        BY <4>1
    <3>2. CASE n # m
      <4>1. PICK i \in DOMAIN spent : spent[i] = Entry(n)
        BY <1>1, <1>3, <2>1, <3>2 DEF SpentIsKnown
      <4>2. i \in 1..Len(spent) /\ i \in DOMAIN spent' /\ spent'[i] = spent[i]
        BY <1>1, <1>4, <1>5, <2>1, SpentList
      <4>3. QED
        BY <4>1, <4>2
    <3>3. QED
      BY <3>1, <3>2
  <2>2. ASSUME NEW n \in accepted', store = "shared", payload[n].age < TTL
        PROVE  Entry(n) \in backend'
    BY <1>1, <1>3, <1>4, <2>2 DEF SpentIsKnown
  <2>3. \A n \in accepted' : payload[n].made
    BY <1>1, <1>3, <1>7 DEF SpentIsKnown
  <2>4. QED
    BY <1>3, <2>1, <2>2, <2>3 DEF SpentIsKnown
<1>12. KnownIsSpent'
  <2>1. ASSUME NEW n \in Names, InStore(n)', n # m PROVE InStore(n)
    <3>1. CASE store = "shared"
      BY <1>4, <1>6, <2>1, <3>1 DEF InStore
    <3>2. CASE store # "shared"
      BY <1>1, <1>4, <1>5, <1>6, <2>1, <3>2, SpentList DEF InStore
    <3>3. QED
      BY <3>1, <3>2
  <2>2. QED
    BY <1>1, <1>3, <2>1 DEF KnownIsSpent
<1>13. NearlyOrdered'
  <2>1. CASE store = "shared"
    BY <1>1, <1>4, <2>1 DEF NearlyOrdered
  <2>2. CASE store # "shared"
    <3>1. \A i \in DOMAIN spent' : spent'[i].age >= -Skew
      BY <1>1, <1>4, <1>5, <1>6, <1>7, <2>2, SpentList DEF NearlyOrdered
    <3>2. ASSUME NEW i \in DOMAIN spent', NEW j \in DOMAIN spent', i < j
          PROVE  spent'[j].age <= spent'[i].age + Disorder
      <4>1. i \in 1..Len(spent) /\ spent'[i] = spent[i] /\ spent[i].age \in Int /\ spent[i].age >= -Skew
        BY <1>1, <1>4, <1>5, <2>2, <3>2, SpentList DEF NearlyOrdered
      <4>2. CASE j \in 1..Len(spent)
        BY <1>1, <1>4, <1>5, <2>2, <3>2, <4>1, <4>2, SpentList DEF NearlyOrdered
      <4>3. CASE j = Len(spent) + 1
        <5>1. spent'[j].age = payload[m].age
          BY <1>4, <1>5, <1>6, <2>2, <4>3
        <5>2. QED
          BY <1>2, <1>7, <4>1, <5>1, Numbers DEF Disorder
      <4>4. QED
        BY <1>1, <1>4, <1>5, <2>2, <4>2, <4>3, SpentList
    <3>3. QED
      BY <3>1, <3>2 DEF NearlyOrdered
  <2>3. QED
    BY <2>1, <2>2
<1>14. QED
  BY <1>8, <1>9, <1>10, <1>11, <1>12, <1>13 DEF GateInv

LEMMA ConsumeKeeps ==
    ASSUME GateInv, NEW s \in Admits, Consume(s)
    PROVE  GateInv'
<1>1. Running(s) /\ store \in {"memory", "shared"} /\ "prune" \in Stages
  BY DEF Consume, At, Running, Stages
<1>2. CASE End(s, "replayed") /\ UNCHANGED <<spent, backend, accepted>>
  BY <1>1, <1>2, GoesOn, AdmissionKeeps DEF Consume
<1>3. CASE Take(s) /\ (To(s, "prune") \/ Ask(s))
  <2>1. /\ admits' \in [Admits -> Admissions] /\ \A t \in Admits \ {s} : admits'[t] = admits[t]
        /\ Running(s)' /\ admits'[s].stage \in {"prune", "standing"}
        /\ admits'[s].name = admits[s].name /\ admits'[s].elapsed = admits[s].elapsed
    BY <1>1, <1>3, GoesOn
  <2>2. ~At(s, "add")'
    BY <2>1 DEF At
  <2>3. QED
    BY <1>1, <1>3, <2>1, <2>2, TakeKeeps DEF Consume
<1>4. QED
  BY <1>2, <1>3 DEF Consume

LEMMA AddKeeps ==
    ASSUME GateInv, NEW s \in Admits, Add(s)
    PROVE  GateInv'
<1>1. Running(s) /\ At(s, "add") /\ "prunePair" \in Stages
  BY DEF Add, At, Running, Stages
<1>2. store = "pair"
  BY <1>1 DEF GateInv, PairIsLocked
<1>3. /\ admits' \in [Admits -> Admissions] /\ \A t \in Admits \ {s} : admits'[t] = admits[t]
      /\ Running(s)' /\ admits'[s].stage = "prunePair"
      /\ admits'[s].name = admits[s].name /\ admits'[s].elapsed = admits[s].elapsed
  BY <1>1, GoesOn DEF Add
<1>4. ~At(s, "add")'
  BY <1>3 DEF At
<1>5. QED
  BY <1>1, <1>2, <1>3, <1>4, TakeKeeps DEF Add

\* A prune leaves what has its lifetime before it, in the order it was in.
LEMMA PruneKeeps ==
    ASSUME GateInv, NEW s \in Admits, Prune(s)
    PROVE  GateInv'
<1>1. GateTypes /\ HeldIsYoung /\ PairIsLocked /\ SpentIsKnown /\ KnownIsSpent /\ NearlyOrdered
  BY DEF GateInv
<1>2. Running(s) /\ spent' = Left(s) /\ UNCHANGED <<store, payload, backend, outstanding, standing, keyOf, accepted>>
  BY DEF Prune, Running
<1>3. /\ admits' \in [Admits -> Admissions] /\ \A t \in Admits \ {s} : admits'[t] = admits[t]
      /\ Running(s)' /\ admits'[s].stage = "standing"
      /\ admits'[s].name = admits[s].name /\ admits'[s].elapsed = admits[s].elapsed
  BY <1>2, GoesOn DEF Prune
<1>4. admits[s].elapsed \in Nat
  BY <1>1, <1>2, AdmissionFields, Numbers
<1>5. HeldIsYoung'
  BY <1>1, <1>2, <1>3 DEF HeldIsYoung, Running
<1>6. PairIsLocked'
  BY <1>1, <1>2, <1>3 DEF PairIsLocked, At
<1>7. \A n : Entry(n)' = Entry(n)
  BY <1>2 DEF Entry
<1>8. CASE spent' = <<>> /\ \A i \in DOMAIN spent : spent[i].age > TTL + admits[s].elapsed
  <2>1. spent' \in Seq(Entries) /\ DOMAIN spent' = {}
    BY <1>8, EmptySeq
  <2>2. GateTypes'
    BY <1>1, <1>2, <1>3, <2>1 DEF GateTypes
  <2>3. ASSUME NEW n \in accepted, payload[n].age <= TTL, NEW i \in DOMAIN spent, spent[i] = Entry(n) PROVE FALSE
    <3>1. spent[i].age = payload[n].age /\ spent[i].age \in Int
      BY <1>1, <2>3, SpentList DEF Entry
    <3>2. QED
      BY <1>4, <1>8, <2>3, <3>1, Numbers
  <2>4. SpentIsKnown'
    BY <1>1, <1>2, <1>7, <2>3 DEF SpentIsKnown
  <2>5. KnownIsSpent' /\ NearlyOrdered'
    BY <1>1, <1>2, <2>1 DEF KnownIsSpent, InStore, NearlyOrdered
  <2>6. QED
    BY <1>5, <1>6, <2>2, <2>4, <2>5 DEF GateInv
<1>9. CASE \E k \in DOMAIN spent :
             /\ spent' = SubSeq(spent, k, Len(spent))
             /\ \A i \in 1..(k - 1) : spent[i].age > TTL + admits[s].elapsed
  <2>1. PICK k \in DOMAIN spent :
             /\ spent' = SubSeq(spent, k, Len(spent))
             /\ \A i \in 1..(k - 1) : spent[i].age > TTL + admits[s].elapsed
    BY <1>9
  <2>2. k \in 1..Len(spent) /\ k \in Nat
    BY <1>1, SpentList
  <2>3. /\ spent' \in Seq(Entries) /\ DOMAIN spent' = 1..(Len(spent) - k + 1)
        /\ \A i \in 1..(Len(spent) - k + 1) : spent'[i] = spent[k + i - 1]
    BY <1>1, <2>1, <2>2, Rest, SpentList
  <2>4. \A i \in DOMAIN spent' : k + i - 1 \in DOMAIN spent /\ spent'[i] = spent[k + i - 1]
    BY <1>1, <2>2, <2>3, SpentList
  <2>5. GateTypes'
    BY <1>1, <1>2, <1>3, <2>3 DEF GateTypes
  <2>6. ASSUME NEW n \in accepted, store \in {"memory", "pair"}, payload[n].age <= TTL
        PROVE  \E i \in DOMAIN spent' : spent'[i] = Entry(n)
    <3>1. PICK i \in DOMAIN spent : spent[i] = Entry(n)
      BY <1>1, <2>6 DEF SpentIsKnown
    <3>2. spent[i].age = payload[n].age /\ spent[i].age \in Int
      BY <1>1, <3>1, SpentList DEF Entry
    <3>3. i \in 1..Len(spent) /\ i \in Nat /\ Len(spent) \in Nat
      BY <1>1, SpentList
    <3>4. ~(i \in 1..(k - 1))
      <4>1. ~(spent[i].age > TTL + admits[s].elapsed)
        BY <1>4, <2>6, <3>2, Numbers
      <4>2. QED
        BY <2>1, <4>1
    <3>5. PICK h \in 1..(Len(spent) - k + 1) : k + h - 1 = i
      <4>1. i - k + 1 \in 1..(Len(spent) - k + 1) /\ k + (i - k + 1) - 1 = i
        BY <2>2, <3>3, <3>4
      <4>2. QED
        BY <4>1
    <3>6. h \in DOMAIN spent' /\ spent'[h] = spent[i]
      BY <2>3, <3>5
    <3>7. QED
      BY <3>1, <3>6
  <2>7. SpentIsKnown'
    BY <1>1, <1>2, <1>7, <2>6 DEF SpentIsKnown
  <2>8. KnownIsSpent'
    BY <1>1, <1>2, <2>4 DEF KnownIsSpent, InStore
  <2>9. \A i \in DOMAIN spent' : spent'[i].age >= -Skew
    BY <1>1, <2>4 DEF NearlyOrdered
  <2>10. ASSUME NEW i \in DOMAIN spent', NEW j \in DOMAIN spent', i < j
         PROVE  spent'[j].age <= spent'[i].age + Disorder
    <3>1. k + i - 1 < k + j - 1
      BY <2>2, <2>3, <2>10
    <3>2. QED
      BY <1>1, <2>4, <3>1 DEF NearlyOrdered
  <2>11. NearlyOrdered'
    BY <2>9, <2>10 DEF NearlyOrdered
  <2>12. QED
    BY <1>5, <1>6, <2>5, <2>7, <2>8, <2>11 DEF GateInv
<1>10. QED
  BY <1>1, <1>2, <1>8, <1>9, LeftIsRest

LEMMA SpendIssuedKeeps ==
    ASSUME GateInv, NEW s \in Admits, SpendIssued(s)
    PROVE  GateInv'
<1>1. GateTypes /\ HeldIsYoung /\ PairIsLocked /\ SpentIsKnown /\ KnownIsSpent /\ NearlyOrdered
  BY DEF GateInv
<1>2. Running(s) /\ store = "server" /\ UNCHANGED <<store, payload, spent, backend, standing, keyOf>>
  BY DEF SpendIssued, At, Running
<1>3. CASE End(s, "unknown_challenge") /\ UNCHANGED <<outstanding, accepted>>
  BY <1>2, <1>3, GoesOn, AdmissionKeeps
<1>4. CASE /\ outstanding' = outstanding \ {admits[s].name} /\ accepted' = accepted \cup {admits[s].name} /\ Ask(s)
  <2>1. /\ admits' \in [Admits -> Admissions] /\ \A t \in Admits \ {s} : admits'[t] = admits[t]
        /\ Running(s)' /\ admits'[s].stage = "standing"
        /\ admits'[s].name = admits[s].name /\ admits'[s].elapsed = admits[s].elapsed
    BY <1>2, <1>4, GoesOn
  <2>2. admits[s].name \in Names /\ payload[admits[s].name].made
    BY <1>1, <1>2, AdmissionFields DEF HeldIsYoung
  <2>3. GateTypes'
    BY <1>1, <1>2, <1>4, <2>1, <2>2 DEF GateTypes
  <2>4. HeldIsYoung'
    BY <1>1, <1>2, <2>1 DEF HeldIsYoung, Running
  <2>5. PairIsLocked'
    BY <1>1, <1>2, <2>1 DEF PairIsLocked, At
  <2>6. SpentIsKnown'
    BY <1>1, <1>2, <1>4, <2>2 DEF SpentIsKnown
  <2>7. KnownIsSpent' /\ NearlyOrdered'
    BY <1>1, <1>2, <1>4 DEF KnownIsSpent, InStore, NearlyOrdered
  <2>8. QED
    BY <2>3, <2>4, <2>5, <2>6, <2>7 DEF GateInv
<1>5. QED
  BY <1>3, <1>4 DEF SpendIssued

LEMMA ChainKeeps ==
    ASSUME GateInv, \E a \in Changing : (\E f \in Facts : StandingChanges(a, f)) \/ KeyRotates(a)
    PROVE  GateInv'
<1>1. GateTypes /\ HeldIsYoung /\ PairIsLocked /\ SpentIsKnown /\ KnownIsSpent /\ NearlyOrdered
  BY DEF GateInv
<1>2. PICK a \in Changing : (\E f \in Facts : StandingChanges(a, f)) \/ KeyRotates(a)
  OBVIOUS
<1>3. a \in Agents
  BY Numbers
<1>4. UNCHANGED <<store, payload, spent, backend, outstanding, accepted>>
  BY <1>2 DEF StandingChanges, KeyRotates
<1>5. /\ standing' \in [Agents -> SUBSET Facts] /\ keyOf' \in [Agents -> Int]
      /\ admits' \in [Admits -> Admissions]
      /\ \A s \in Admits : admits'[s].stage = admits[s].stage
      /\ \A s \in Admits : Running(s) => admits'[s].name = admits[s].name /\ admits'[s].elapsed = admits[s].elapsed
  <2>1. CASE KeyRotates(a)
    BY <1>1, <1>3, <2>1 DEF KeyRotates, GateTypes
  <2>2. ASSUME NEW f \in Facts, StandingChanges(a, f)
        PROVE  <1>5!1 /\ <1>5!2 /\ <1>5!3 /\ <1>5!4
    <3>1. standing' \in [Agents -> SUBSET Facts] /\ keyOf' \in [Agents -> Int]
      BY <1>1, <1>3, <2>2 DEF StandingChanges, GateTypes
    <3>2. ASSUME NEW s \in Admits
          PROVE  /\ admits'[s] \in Admissions /\ admits'[s].stage = admits[s].stage
                 /\ Running(s) => admits'[s].name = admits[s].name /\ admits'[s].elapsed = admits[s].elapsed
      <4>1. admits[s] \in Admissions
        BY <1>1 DEF GateTypes
      <4>2. CASE ~(At(s, "standing") /\ admits[s].name[1] = a)
        <5>1. admits'[s] = admits[s]
          BY <2>2, <4>2 DEF StandingChanges
        <5>2. QED
          BY <4>1, <5>1
      <4>3. CASE At(s, "standing") /\ admits[s].name[1] = a
        <5> DEFINE new == [admits[s] EXCEPT !.always = @ \ {f}, !.ever = @ \cup {f}]
        <5>1. admits' = [t \in Admits |-> IF At(t, "standing") /\ admits[t].name[1] = a
                                          THEN [admits[t] EXCEPT !.always = @ \ {f}, !.ever = @ \cup {f}] ELSE admits[t]]
          BY <2>2 DEF StandingChanges
        <5>2. admits'[s] = new
          BY <4>3, <5>1
        <5>3. Running(s)
          BY <4>3 DEF At, Running
        <5>4. admits[s] \in [stage : Stages, name : Names, elapsed : 0..MaxRead, always : SUBSET Facts, ever : SUBSET Facts]
          BY <1>1, <5>3, AdmissionFields
        <5>5. /\ new \in [stage : Stages, name : Names, elapsed : 0..MaxRead, always : SUBSET Facts, ever : SUBSET Facts]
              /\ new.stage = admits[s].stage /\ new.name = admits[s].name /\ new.elapsed = admits[s].elapsed
          BY <5>4
        <5>6. QED
          BY <5>2, <5>5 DEF Admissions
      <4>4. QED
        BY <4>2, <4>3
    <3>3. admits' \in [Admits -> Admissions]
      BY <2>2, <3>2 DEF StandingChanges
    <3>4. QED
      BY <3>1, <3>2, <3>3
  <2>3. QED
    BY <1>2, <2>1, <2>2
<1>6. GateTypes'
  BY <1>1, <1>4, <1>5 DEF GateTypes
<1>7. HeldIsYoung'
  BY <1>1, <1>4, <1>5 DEF HeldIsYoung, Running
<1>8. \A s \in Admits : At(s, "add")' => At(s, "add") /\ admits'[s].name = admits[s].name
  BY <1>5 DEF At, Running
<1>9. PairIsLocked'
  BY <1>1, <1>4, <1>8 DEF PairIsLocked
<1>10. SpentIsKnown' /\ KnownIsSpent' /\ NearlyOrdered'
  BY <1>1, <1>4 DEF SpentIsKnown, KnownIsSpent, NearlyOrdered, InStore, Entry
<1>11. QED
  BY <1>6, <1>7, <1>9, <1>10 DEF GateInv

\* Time passes: what is remembered of a challenge and the challenge itself grow old together.
LEMMA TickKeeps ==
    ASSUME GateInv, Tick
    PROVE  GateInv'
<1>1. GateTypes /\ HeldIsYoung /\ PairIsLocked /\ SpentIsKnown /\ KnownIsSpent /\ NearlyOrdered
  BY DEF GateInv
<1>2. UNCHANGED <<store, standing, keyOf>> /\ accepted' = {m \in accepted : ~Useless(m)}
      /\ outstanding' = {m \in outstanding : ~Useless(m)}
  BY DEF Tick
<1>3. payload' = [m \in Names |-> IF ~payload[m].made \/ Useless(m) THEN NoPayload
                                  ELSE [payload[m] EXCEPT !.age = Older(@)]]
  BY DEF Tick
<1>4. \A m \in Names : payload[m] \in [age : Int, issued : BOOLEAN, key : Int, made : BOOLEAN]
  BY <1>1 DEF GateTypes
<1>5. NoPayload \in [age : Int, issued : BOOLEAN, key : Int, made : BOOLEAN] /\ ~NoPayload.made
  BY DEF NoPayload, Unsigned
<1>6. ASSUME NEW m \in Names, payload[m].made, ~Useless(m)
      PROVE  payload'[m].made /\ payload'[m].age = Older(payload[m].age)
  BY <1>3, <1>4, <1>6
<1>7. ASSUME NEW m \in Names, payload'[m].made
      PROVE  payload[m].made /\ ~Useless(m)
  BY <1>3, <1>5, <1>7
<1>8. payload' \in [Names -> [age : Int, issued : BOOLEAN, key : Int, made : BOOLEAN]]
  <2>1. ASSUME NEW m \in Names
        PROVE  [payload[m] EXCEPT !.age = Older(@)] \in [age : Int, issued : BOOLEAN, key : Int, made : BOOLEAN]
    <3>1. Older(payload[m].age) \in Int
      BY <1>4, OlderIsMonotone
    <3>2. QED
      BY <1>4, <3>1
  <2>2. QED
    BY <1>3, <1>5, <2>1
<1>9. /\ DOMAIN spent' = 1..Len(spent) /\ DOMAIN spent = 1..Len(spent) /\ spent' \in Seq(Entries)
      /\ \A i \in 1..Len(spent) :
            /\ spent'[i] = [name |-> spent[i].name, age |-> Older(spent[i].age)]
            /\ spent[i].age \in Int /\ spent[i].name \in Names
  <2>1. spent' = [i \in 1..Len(spent) |-> [spent[i] EXCEPT !.age = Older(@)]] /\ Len(spent) \in Nat
    BY <1>1, SpentList DEF Tick
  <2>2. \A i \in 1..Len(spent) : spent[i] \in Entries /\ spent[i].age \in Int /\ spent[i].name \in Names
    BY <1>1, SpentList
  <2>3. \A i \in 1..Len(spent) : [spent[i] EXCEPT !.age = Older(@)] = [name |-> spent[i].name, age |-> Older(spent[i].age)]
    BY <2>2 DEF Entries
  <2>4. \A i \in 1..Len(spent) : Older(spent[i].age) \in Int
    BY <2>2, OlderIsMonotone
  <2>5. \A i \in 1..Len(spent) : [name |-> spent[i].name, age |-> Older(spent[i].age)] \in Entries
    BY <2>2, <2>4 DEF Entries
  <2>6. spent' \in [1..Len(spent) -> Entries]
    BY <2>1, <2>3, <2>5
  <2>7. spent' \in Seq(Entries)
    BY <2>1, <2>6
  <2>8. QED
    BY <1>1, <2>1, <2>2, <2>3, <2>7, SpentList
<1>10. ASSUME NEW e
       PROVE  e \in backend' <=> \E b \in backend : e = [name |-> b.name, age |-> Older(b.age)] /\ e.age < TTL
  <2>1. \A b \in backend : b \in Entries
    BY <1>1 DEF GateTypes
  <2>2. \A b \in backend : [b EXCEPT !.age = Older(@)] = [name |-> b.name, age |-> Older(b.age)]
    BY <2>1 DEF Entries
  <2>3. e \in backend' <=> \E b \in backend : e = [b EXCEPT !.age = Older(@)] /\ e.age < TTL
    BY DEF Tick
  <2>4. QED
    BY <2>2, <2>3
<1>11. backend' \subseteq Entries
  <2>1. ASSUME NEW b \in backend PROVE [name |-> b.name, age |-> Older(b.age)] \in Entries
    <3>1. b.name \in Names /\ b.age \in Int
      BY <1>1 DEF GateTypes, Entries
    <3>2. Older(b.age) \in Int
      BY <3>1, OlderIsMonotone
    <3>3. QED
      BY <3>1, <3>2 DEF Entries
  <2>2. QED
    BY <1>10, <2>1
<1>12. ASSUME NEW s \in Admits
       PROVE  /\ ~Running(s) => admits'[s] = admits[s]
              /\ Running(s) => /\ admits'[s] \in [stage : Stages, name : Names, elapsed : 0..MaxRead,
                                                  always : SUBSET Facts, ever : SUBSET Facts]
                               /\ admits'[s].stage = admits[s].stage /\ admits'[s].name = admits[s].name
                               /\ admits'[s].elapsed = admits[s].elapsed + 1 /\ admits[s].elapsed \in Nat
  <2>1. admits' = [t \in Admits |-> IF Running(t) THEN [admits[t] EXCEPT !.elapsed = @ + 1] ELSE admits[t]]
    BY DEF Tick
  <2>2. CASE Running(s)
    <3>1. admits[s] \in [stage : Stages, name : Names, elapsed : 0..MaxRead, always : SUBSET Facts, ever : SUBSET Facts]
      BY <1>1, <2>2, AdmissionFields
    <3>2. admits[s].elapsed \in Nat /\ admits[s].elapsed + 1 \in 0..MaxRead
      BY <2>2, <3>1, Numbers DEF Tick
    <3>3. admits'[s] = [admits[s] EXCEPT !.elapsed = @ + 1]
      BY <2>1, <2>2
    <3>4. QED
      BY <2>2, <3>1, <3>2, <3>3
  <2>3. CASE ~Running(s)
    BY <2>1, <2>3
  <2>4. QED
    BY <2>2, <2>3
<1>13. admits' \in [Admits -> Admissions]
  <2>1. \A s \in Admits : admits'[s] \in Admissions
    BY <1>1, <1>12 DEF Admissions, GateTypes
  <2>2. QED
    BY <2>1 DEF Tick
<1>14. GateTypes'
  BY <1>1, <1>2, <1>8, <1>9, <1>11, <1>13 DEF GateTypes
<1>15. ASSUME NEW s \in Admits, Running(s)
       PROVE  admits[s].name \in Names /\ payload[admits[s].name].made /\ ~Useless(admits[s].name)
  BY <1>1, <1>15, AdmissionFields DEF HeldIsYoung, Useless, Held
<1>16. \A s \in Admits : Running(s)' => Running(s)
  BY <1>12 DEF Running
<1>17. HeldIsYoung'
  <2>1. ASSUME NEW s \in Admits, Running(s)'
        PROVE  /\ payload'[admits'[s].name].made
               /\ payload'[admits'[s].name].age >= -Skew
               /\ payload'[admits'[s].name].age <= TTL + admits'[s].elapsed
    <3> DEFINE m == admits[s].name
    <3>1. Running(s) /\ m \in Names /\ payload[m].made /\ ~Useless(m) /\ admits'[s].name = m
          /\ admits'[s].elapsed = admits[s].elapsed + 1 /\ admits[s].elapsed \in Nat
      BY <1>12, <1>15, <1>16, <2>1
    <3>2. payload'[m].made /\ payload'[m].age = Older(payload[m].age)
      BY <1>6, <3>1
    <3>3. payload[m].age \in Int /\ payload[m].age >= -Skew /\ payload[m].age <= TTL + admits[s].elapsed
      BY <1>1, <1>4, <3>1 DEF HeldIsYoung
    <3>4. Older(payload[m].age) \in Int /\ Older(payload[m].age) >= -Skew /\ Older(payload[m].age) <= payload[m].age + 1
      BY <3>3, OlderIsMonotone
    <3> HIDE DEF m
    <3>5. QED
      BY <3>1, <3>2, <3>3, <3>4, Numbers
  <2>2. QED
    BY <2>1 DEF HeldIsYoung
<1>18. PairIsLocked'
  <2>1. ASSUME NEW s \in Admits, At(s, "add")'
        PROVE  At(s, "add") /\ Running(s) /\ admits'[s].name = admits[s].name
    BY <1>12, <2>1 DEF At, Running
  <2>2. ASSUME NEW s \in Admits, At(s, "add")', admits'[s].name \in accepted'
        PROVE  payload'[admits'[s].name].age > TTL
    <3>1. admits[s].name \in accepted /\ payload[admits[s].name].age > TTL /\ payload[admits[s].name].age \in Int
      BY <1>1, <1>2, <1>4, <1>15, <2>1, <2>2 DEF PairIsLocked
    <3>2. payload'[admits[s].name].age = Older(payload[admits[s].name].age)
      BY <1>6, <1>15, <2>1, <2>2
    <3>3. QED
      BY <2>1, <2>2, <3>1, <3>2, OlderIsMonotone
  <2>3. QED
    BY <1>1, <1>2, <2>1, <2>2 DEF PairIsLocked
<1>19. ASSUME NEW m \in accepted'
       PROVE  /\ m \in accepted /\ m \in Names /\ payload[m].made /\ ~Useless(m) /\ payload'[m].made
              /\ payload[m].age \in Int /\ payload'[m].age = Older(payload[m].age)
              /\ Entry(m)' = [name |-> m, age |-> Older(payload[m].age)]
  <2>1. m \in accepted /\ m \in Names /\ payload[m].made /\ ~Useless(m)
    BY <1>1, <1>2 DEF SpentIsKnown, GateTypes
  <2>2. payload'[m].made /\ payload'[m].age = Older(payload[m].age)
    BY <1>6, <2>1
  <2>3. QED
    BY <1>4, <2>1, <2>2 DEF Entry
<1>20. SpentIsKnown'
  <2>1. ASSUME NEW m \in accepted', store \in {"memory", "pair"}, payload'[m].age <= TTL
        PROVE  \E i \in DOMAIN spent' : spent'[i] = Entry(m)'
    <3>1. payload[m].age <= TTL
      BY <1>19, <2>1, OlderIsMonotone
    <3>2. PICK i \in DOMAIN spent : spent[i] = Entry(m)
      BY <1>1, <1>19, <2>1, <3>1 DEF SpentIsKnown
    <3>3. spent[i].name = m /\ spent[i].age = payload[m].age
      BY <3>2 DEF Entry
    <3>4. i \in DOMAIN spent' /\ spent'[i] = Entry(m)'
      BY <1>9, <1>19, <3>2, <3>3
    <3>5. QED
      BY <3>4
  <2>2. ASSUME NEW m \in accepted', store = "shared", payload'[m].age < TTL
        PROVE  Entry(m)' \in backend'
    <3>1. payload[m].age < TTL
      BY <1>19, <2>2, OlderIsMonotone
    <3>2. Entry(m) \in backend
      BY <1>1, <1>19, <2>2, <3>1 DEF SpentIsKnown
    <3>3. Entry(m)' = [name |-> Entry(m).name, age |-> Older(Entry(m).age)] /\ Entry(m)'.age < TTL
      BY <1>19, <2>2 DEF Entry
    <3>4. QED
      BY <1>10, <3>2, <3>3
  <2>3. \A m \in accepted' : store = "server" => m \notin outstanding'
    BY <1>1, <1>2 DEF SpentIsKnown
  <2>4. QED
    BY <1>2, <1>19, <2>1, <2>2, <2>3 DEF SpentIsKnown
<1>21. KnownIsSpent'
  <2>1. ASSUME NEW m \in Names, InStore(m)' PROVE InStore(m)
    <3>1. CASE \E i \in DOMAIN spent' : spent'[i].name = m
      BY <1>9, <3>1 DEF InStore
    <3>2. CASE \E e \in backend' : e.name = m
      BY <1>10, <3>2 DEF InStore
    <3>3. QED
      BY <2>1, <3>1, <3>2 DEF InStore
  <2>2. QED
    BY <1>1, <1>2, <1>7, <2>1 DEF KnownIsSpent
<1>22. NearlyOrdered'
  <2>1. \A i \in DOMAIN spent' : i \in DOMAIN spent /\ spent'[i].age = Older(spent[i].age) /\ spent[i].age \in Int
                                 /\ spent[i].age >= -Skew
    BY <1>1, <1>9 DEF NearlyOrdered
  <2>2. \A i \in DOMAIN spent' : spent'[i].age >= -Skew
    BY <2>1, OlderIsMonotone
  <2>3. ASSUME NEW i \in DOMAIN spent', NEW j \in DOMAIN spent', i < j
        PROVE  spent'[j].age <= spent'[i].age + Disorder
    <3>1. spent[j].age <= spent[i].age + Disorder
      BY <1>1, <2>1, <2>3 DEF NearlyOrdered
    <3>2. QED
      BY <2>1, <3>1, OlderIsMonotone
  <2>4. QED
    BY <2>2, <2>3 DEF NearlyOrdered
<1>23. QED
  BY <1>14, <1>17, <1>18, <1>20, <1>21, <1>22 DEF GateInv

LEMMA InvStep == GateInv /\ [Next]_vars => GateInv'
<1>1. ASSUME GateInv, Next PROVE GateInv'
  <2>1. CASE \E m \in Asking : Challenge(m[1], m[2]) \/ SignChallenge(m[1], m[2])
    BY <1>1, <2>1, ChallengeKeeps, SignChallengeKeeps
  <2>2. CASE \E m \in Writing, age \in (-Ahead)..0 : OwnChallenge(m[1], m[2], age)
    BY <1>1, <2>2, OwnChallengeKeeps
  <2>3. CASE \E s \in Admits, m \in Asking \cup Writing : StartAdmit(s, m)
    BY <1>1, <2>3, StartAdmitKeeps
  <2>4. CASE \E s \in Admits : AdmitStep(s) \/ ReadFails(s)
    BY <1>1, <2>4, ReadsKeep, ConsumeKeeps, SeeKeeps, AddKeeps, PruneKeeps, SpendIssuedKeeps DEF AdmitStep
  <2>5. CASE \E a \in Changing : (\E f \in Facts : StandingChanges(a, f)) \/ KeyRotates(a)
    BY <1>1, <2>5, ChainKeeps
  <2>6. CASE Tick
    BY <1>1, <2>6, TickKeeps
  <2>7. QED
    BY <1>1, <2>1, <2>2, <2>3, <2>4, <2>5, <2>6 DEF Next
<1>2. ASSUME GateInv, UNCHANGED vars PROVE GateInv'
  BY <1>2 DEF vars, GateInv, GateTypes, HeldIsYoung, PairIsLocked, SpentIsKnown, KnownIsSpent, NearlyOrdered,
              Running, At, InStore, Entry
<1>3. QED
  BY <1>1, <1>2

\* GateInv: nonces held are fresh, a spent nonce is known for as long as a request naming it can be admitted, and one
\* request at a time is between a nonce's check and its spending (gate.ts, mcp.ts), for any TTL and skew.
THEOREM GateIsSound == Spec => []GateInv
<1>1. Init => GateInv
  BY InvInit
<1>2. GateInv /\ [Next]_vars => GateInv'
  BY InvStep
<1>3. QED
  BY <1>1, <1>2, PTL DEF Spec

------------------------------------------------------------------------------
(* What no step does.                                                      *)

\* Which steps take an admission past the memory of what was spent, and which end one there.
LEMMA OnlyTheseMove ==
    ASSUME GateInv, NEW s \in Admits, [Next]_vars, admits'[s].stage # admits[s].stage
    PROVE  \/ \E m \in Names : StartAdmit(s, m)
           \/ AdmitStep(s) \/ ReadFails(s)
<1>1. GateTypes /\ admits \in [Admits -> Admissions]
  BY DEF GateInv, GateTypes
<1>2. CASE UNCHANGED vars
  BY <1>2 DEF vars
<1>3. CASE \E m \in Asking : Challenge(m[1], m[2]) \/ SignChallenge(m[1], m[2])
  BY <1>3 DEF Challenge, SignChallenge
<1>4. CASE \E m \in Writing, age \in (-Ahead)..0 : OwnChallenge(m[1], m[2], age)
  BY <1>4 DEF OwnChallenge
<1>5. ASSUME NEW t \in Admits, NEW m \in Asking \cup Writing, StartAdmit(t, m)
      PROVE  \E n \in Names : StartAdmit(s, n)
  <2>1. t = s
    BY <1>1, <1>5 DEF StartAdmit
  <2>2. QED
    BY <1>5, <2>1, Numbers
<1>6. ASSUME NEW t \in Admits, AdmitStep(t) \/ ReadFails(t)
      PROVE  AdmitStep(s) \/ ReadFails(s)
  <2>1. Running(t)
    BY <1>6 DEF AdmitStep, ReadKey, ReadFails, ReadStanding, Consume, See, Add, Prune, SpendIssued, At, Running
  <2>2. \/ \E reason : End(t, reason)
        \/ \E stage \in Stages : To(t, stage)
        \/ Ask(t)
    BY <1>6 DEF AdmitStep, ReadKey, ReadFails, ReadStanding, Consume, See, Add, Prune, SpendIssued, Stages
  <2>3. \A u \in Admits \ {t} : admits'[u] = admits[u]
    BY <2>1, <2>2, GoesOn
  <2>4. QED
    BY <1>6, <2>3
<1>7. CASE \E a \in Changing : (\E f \in Facts : StandingChanges(a, f)) \/ KeyRotates(a)
  <2>1. PICK a \in Changing : (\E f \in Facts : StandingChanges(a, f)) \/ KeyRotates(a)
    BY <1>7
  <2>2. ASSUME NEW f \in Facts, StandingChanges(a, f) PROVE FALSE
    <3>1. admits' = [t \in Admits |-> IF At(t, "standing") /\ admits[t].name[1] = a
                                      THEN [admits[t] EXCEPT !.always = @ \ {f}, !.ever = @ \cup {f}] ELSE admits[t]]
      BY <2>2 DEF StandingChanges
    <3>2. At(s, "standing") /\ admits'[s] = [admits[s] EXCEPT !.always = @ \ {f}, !.ever = @ \cup {f}]
      BY <3>1
    <3>3. Running(s)
      BY <3>2 DEF At, Running
    <3>4. admits[s] \in [stage : Stages, name : Names, elapsed : 0..MaxRead, always : SUBSET Facts, ever : SUBSET Facts]
      BY <1>1, <3>3, AdmissionFields
    <3>5. QED
      BY <3>2, <3>4
  <2>3. QED
    BY <2>1, <2>2 DEF KeyRotates
<1>8. CASE Tick
  <2>1. admits' = [t \in Admits |-> IF Running(t) THEN [admits[t] EXCEPT !.elapsed = @ + 1] ELSE admits[t]]
    BY <1>8 DEF Tick
  <2>2. Running(s) /\ admits'[s] = [admits[s] EXCEPT !.elapsed = @ + 1]
    BY <2>1
  <2>3. admits[s] \in [stage : Stages, name : Names, elapsed : 0..MaxRead, always : SUBSET Facts, ever : SUBSET Facts]
    BY <1>1, <2>2, AdmissionFields
  <2>4. QED
    BY <2>2, <2>3
<1>9. QED
  BY <1>2, <1>3, <1>4, <1>5, <1>6, <1>7, <1>8 DEF Next

LEMMA NeverTwice ==
    ASSUME GateInv, NEW s \in Admits, [Next]_vars, Passes(s), admits[s].name \in accepted
    PROVE  /\ store # "server"
           /\ payload[admits[s].name].age >= (IF store = "shared" THEN TTL ELSE TTL + 1)
<1> DEFINE m == admits[s].name
<1>1. GateTypes /\ PairIsLocked /\ SpentIsKnown
  BY DEF GateInv
<1>2. Running(s) /\ admits'[s].stage # admits[s].stage /\ admits[s].stage \in {"spend", "add"}
      /\ admits'[s].stage \in {"prune", "prunePair", "standing"}
  BY DEF Passes, Running
<1>3. m \in Names /\ payload[m].age \in Int /\ store \in Stores
  BY <1>1, <1>2, AdmissionFields DEF GateTypes
<1>4. AdmitStep(s)
  <2>1. \A n \in Names : ~StartAdmit(s, n)
    BY <1>2 DEF StartAdmit
  <2>2. ~ReadFails(s)
    BY <1>2 DEF ReadFails
  <2>3. QED
    BY <1>2, <2>1, <2>2, OnlyTheseMove
<1>5. ~ReadKey(s) /\ ~Prune(s) /\ ~ReadStanding(s)
  BY <1>2 DEF ReadKey, Prune, ReadStanding, At
<1>6. \A reason : ~End(s, reason)
  BY <1>2, GoesOn DEF Running
<1>7. ~See(s)
  <2>1. "add" \in Stages
    BY DEF Stages
  <2>2. ~To(s, "add")
    BY <1>2, <2>1, GoesOn
  <2>3. QED
    BY <1>6, <2>2 DEF See
<1>8. CASE Consume(s)
  <2>1. store \in {"memory", "shared"} /\ ~InStore(m)
    BY <1>6, <1>8 DEF Consume, Spent, KeyOf
  <2>2. ASSUME store = "memory", payload[m].age <= TTL PROVE FALSE
    <3>1. \E i \in DOMAIN spent : spent[i] = Entry(m)
      BY <1>1, <2>2 DEF SpentIsKnown
    <3>2. QED
      BY <2>1, <3>1 DEF InStore, Entry
  <2>3. ASSUME store = "shared", payload[m].age < TTL PROVE FALSE
    <3>1. Entry(m) \in backend
      BY <1>1, <2>3 DEF SpentIsKnown
    <3>2. QED
      BY <2>1, <3>1 DEF InStore, Entry
  <2>4. QED
    BY <1>3, <2>1, <2>2, <2>3, Numbers
<1>9. CASE Add(s)
  <2>1. store = "pair" /\ payload[m].age > TTL
    BY <1>1, <1>9 DEF PairIsLocked, Add
  <2>2. QED
    BY <1>3, <2>1, Numbers
<1>10. CASE SpendIssued(s)
  <2>1. store = "server" /\ m \in outstanding
    BY <1>6, <1>10 DEF SpendIssued, StillIssued, Issued
  <2>2. QED
    BY <1>1, <2>1 DEF SpentIsKnown
<1>11. QED
  BY <1>4, <1>5, <1>7, <1>8, <1>9, <1>10 DEF AdmitStep

\* UsedOnce: two admissions of one answer never both get past the memory of spent challenges within the
\* challenge's lifetime, with any number of admissions under way and whichever the store (gate.ts, mcp.ts).
THEOREM AnswersAreUsedOnce == Spec => UsedOnce
<1>1. GateInv /\ [Next]_vars =>
        [\A s \in Admits : Passes(s) /\ admits[s].name \in accepted =>
            /\ store # "server"
            /\ payload[admits[s].name].age >= (IF store = "shared" THEN TTL ELSE TTL + 1)]_vars
  BY NeverTwice
<1>2. QED
  BY <1>1, GateIsSound, PTL DEF Spec, UsedOnce

LEMMA NobodyIsRobbed ==
    ASSUME GateInv, NEW s \in Admits, [Next]_vars, At(s, "spend"), store # "server", admits'[s].stage = "over"
    PROVE  admits[s].name \in accepted \/ Busy(admits[s].name)
<1> DEFINE m == admits[s].name
<1>1. GateTypes /\ HeldIsYoung /\ KnownIsSpent
  BY DEF GateInv
<1>2. Running(s) /\ admits'[s].stage # admits[s].stage
  BY DEF At, Running
<1>3. m \in Names /\ payload[m].made
  BY <1>1, <1>2, AdmissionFields DEF HeldIsYoung
<1>4. AdmitStep(s)
  <2>1. \A n \in Names : ~StartAdmit(s, n)
    BY <1>2 DEF StartAdmit
  <2>2. ~ReadFails(s)
    BY DEF ReadFails, At
  <2>3. QED
    BY <1>2, <2>1, <2>2, OnlyTheseMove
<1>5. ~Take(s) \/ ~(To(s, "prune") \/ Ask(s))
  <2>1. "prune" \in Stages
    BY DEF Stages
  <2>2. QED
    BY <1>2, <2>1, GoesOn
<1>6. "add" \in Stages /\ ~To(s, "add")
  <2>1. "add" \in Stages
    BY DEF Stages
  <2>2. QED
    BY <1>2, <2>1, GoesOn
<1>7. Consume(s) \/ See(s)
  BY <1>4 DEF AdmitStep, ReadKey, Add, Prune, SpendIssued, ReadStanding, At
<1>8. Busy(m) \/ Spent(m)
  BY <1>5, <1>6, <1>7 DEF Consume, See
<1>9. QED
  BY <1>1, <1>3, <1>8 DEF KnownIsSpent, Spent, KeyOf

LEMMA NothingLingers ==
    ASSUME GateInv, NEW s \in Admits, [Next]_vars, admits[s].stage \in {"prune", "prunePair"},
           admits'[s].stage = "standing", NEW i \in DOMAIN spent'
    PROVE  spent'[i].age - admits[s].elapsed - TTL <= TTL + Skew + MaxRead
<1>1. GateTypes /\ NearlyOrdered
  BY DEF GateInv
<1>2. Running(s) /\ admits'[s].stage # admits[s].stage
  BY DEF Running
<1>3. Prune(s)
  <2>1. \A n \in Names : ~StartAdmit(s, n)
    BY <1>2 DEF StartAdmit
  <2>2. AdmitStep(s)
    BY <1>2, <2>1, OnlyTheseMove DEF ReadFails
  <2>3. QED
    BY <2>2 DEF AdmitStep, ReadKey, Consume, See, Add, SpendIssued, ReadStanding, At
<1>4. admits[s].elapsed \in Nat
  BY <1>1, <1>2, AdmissionFields, Numbers
<1>5. PICK k \in DOMAIN spent : spent' = SubSeq(spent, k, Len(spent)) /\ spent[k].age <= TTL + admits[s].elapsed
  <2>1. spent' # <<>>
    OBVIOUS
  <2>2. QED
    BY <1>1, <1>2, <1>3, <2>1, LeftIsRest DEF Prune
<1>6. k \in 1..Len(spent) /\ k \in Nat /\ spent[k].age \in Int /\ Len(spent) \in Nat
  BY <1>1, SpentList
<1>7. i \in 1..(Len(spent) - k + 1) /\ spent'[i] = spent[k + i - 1]
  BY <1>1, <1>5, <1>6, Rest, SpentList
<1>8. k + i - 1 \in 1..Len(spent) /\ (i = 1 \/ k < k + i - 1)
  BY <1>6, <1>7
<1>9. k + i - 1 \in DOMAIN spent /\ spent[k + i - 1].age \in Int
  BY <1>1, <1>8, SpentList
<1>10. spent[k + i - 1].age <= spent[k].age + Disorder
  <2>1. CASE i = 1
    <3>1. k + i - 1 = k
      BY <1>6, <2>1
    <3>2. QED
      BY <1>6, <3>1, Numbers DEF Disorder
  <2>2. CASE k < k + i - 1
    BY <1>1, <1>9, <2>2 DEF NearlyOrdered
  <2>3. QED
    BY <1>8, <2>1, <2>2
<1>11. spent'[i].age \in Int /\ spent'[i].age <= spent[k].age + Disorder
  BY <1>7, <1>9, <1>10
<1>12. \A a, b, e \in Int : a <= b + Disorder /\ b <= TTL + e => a - e - TTL <= TTL + Skew + MaxRead
  BY Numbers DEF Disorder
<1>13. admits[s].elapsed \in Int
  BY <1>4
<1>14. QED
  BY <1>5, <1>6, <1>11, <1>12, <1>13

LEMMA AllWasAsked ==
    ASSUME GateInv, NEW s \in Admits, [Next]_vars, At(s, "standing"), admits'[s].stage = "over", admits'[s].ok
    PROVE  Facts \subseteq admits[s].ever
<1>1. Running(s) /\ admits'[s].stage # admits[s].stage
  BY DEF At, Running
<1>2. ReadFails(s) \/ ReadStanding(s)
  <2>1. \A n \in Names : ~StartAdmit(s, n)
    BY <1>1 DEF StartAdmit
  <2>2. AdmitStep(s) \/ ReadFails(s)
    BY <1>1, <2>1, OnlyTheseMove
  <2>3. QED
    BY <2>2 DEF AdmitStep, ReadKey, Consume, See, Add, Prune, SpendIssued, At
<1>3. \A reason : End(s, reason) => reason = "ok"
  <2>1. ASSUME NEW reason, End(s, reason) PROVE reason = "ok"
    <3>1. admits'[s] = Over(reason)
      BY <1>1, <2>1, GoesOn
    <3>2. Over(reason).ok = (reason = "ok")
      BY DEF Over
    <3>3. QED
      BY <3>1, <3>2, Zenon
  <2>2. QED
    BY <2>1
<1>4. PICK seen \in SUBSET admits[s].ever : End(s, Decision(seen))
  BY <1>2, <1>3 DEF ReadFails, ReadStanding
<1>5. Decision(seen) = "ok"
  BY <1>3, <1>4
<1>6. {"active", "bonded"} \subseteq seen /\ (Asked \cap {"stake"}) \subseteq seen
      /\ (Asked \cap {"fresh"}) \subseteq seen /\ "score" \in seen
  BY <1>5 DEF Decision
<1>7. Asked \subseteq {"stake", "fresh"}
  BY GateAssumption DEF GateAssumption
<1>8. QED
  BY <1>4, <1>6, <1>7 DEF Facts

\* AdmissionsAreSound: nobody else's admission uses up an agent's challenge, what a prune leaves behind expired
\* no longer ago than it may, and an agent is admitted only when every fact asked about held (gate.ts).
THEOREM AdmissionsHold == Spec => AdmissionsAreSound
<1>1. GateInv /\ [Next]_vars =>
        [\A s \in Admits : At(s, "spend") /\ store # "server" /\ admits'[s].stage = "over"
            => admits[s].name \in accepted \/ Busy(admits[s].name)]_vars
  BY NobodyIsRobbed
<1>2. GateInv /\ [Next]_vars =>
        [\A s \in Admits : admits[s].stage \in {"prune", "prunePair"} /\ admits'[s].stage = "standing" =>
            \A i \in DOMAIN spent' : spent'[i].age - admits[s].elapsed - TTL <= TTL + Skew + MaxRead]_vars
  BY NothingLingers
<1>3. GateInv /\ [Next]_vars =>
        [\A s \in Admits : At(s, "standing") /\ admits'[s].stage = "over" /\ admits'[s].ok
            => Facts \subseteq admits[s].ever]_vars
  BY AllWasAsked
<1>4. Spec => ReplayedMeansUsed
  BY <1>1, GateIsSound, PTL DEF Spec, ReplayedMeansUsed
<1>5. Spec => PruneCatchesUp
  BY <1>2, GateIsSound, PTL DEF Spec, PruneCatchesUp
<1>6. Spec => AdmittedHadStanding
  BY <1>3, GateIsSound, PTL DEF Spec, AdmittedHadStanding
<1>7. QED
  BY <1>4, <1>5, <1>6 DEF AdmissionsAreSound

------------------------------------------------------------------------------
(* POST /attest: the invariant.                                            *)

\* Told that something came of it.
IsAnswered(r) == req[r].status \in {"200", "202"}

Records == [kind : {"none", "attest", "flag", "resolve"}, tx : Txs \cup {None}, success : BOOLEAN, caller : BOOLEAN,
            status : {"none", "reading", "gone", "200", "202", "402", "409", "429", "502"}, at : Nat,
            took : SUBSET Requests]

AttestTypes ==
    /\ clock \in Nat
    /\ req \in [Requests -> Records]
    /\ \A r \in Requests :
        /\ req[r].at <= clock
        /\ req[r].kind = "attest" => req[r].tx \in Txs
        /\ "none" \in {req[r].status, req[r].kind} => req[r] = Idle
        /\ req[r].status = "reading" => req[r].kind = "attest"

\* What the maps in memory and the file are, each.
IsMap(e) == e = [k \in DOMAIN e |-> e[k]]

IsCopy(s) ==
    /\ s = [events |-> s.events, tally |-> s.tally, cooled |-> s.cooled, flags |-> s.flags]
    /\ IsMap(s.events)
    /\ s.tally \subseteq Requests
    /\ s.cooled \in [Payers -> Nat \cup {None}]
    /\ s.flags \in Seq(Requests)

Values(e) == {e[k] : k \in DOMAIN e}
PayerOf(r) == Legs[req[r].tx][1]

\* Only answered reports are tallied, and each outcome among them is its payment's.
AreReports(s) == \A r \in s.tally : req[r].kind = "attest" /\ IsAnswered(r)
OutcomesAreTallied(s) == {r \in s.tally : OutcomeOf(r) # None} = Values(s.events) \ {None}

\* A payment is credited whole or not at all: a report that credits a leg is of a payment nobody reported.
LegsTogether(s) == \A t \in Txs : Credited(s.events, t) \in {{}, Paying(t)}

\* Strangers' reports are a cooldown apart, the last is the one the cooldown runs from, and each cooldown
\* runs from a report.
ReportsApart(s) ==
    \A r, q \in s.tally :
        r # q /\ Throttled(r) /\ Throttled(q) /\ PayerOf(r) = PayerOf(q) =>
            req[r].at - req[q].at >= Cooldown \/ req[q].at - req[r].at >= Cooldown
CooledSince(s) ==
    \A r \in s.tally :
        Throttled(r) => s.cooled[PayerOf(r)] # None /\ req[r].at <= s.cooled[PayerOf(r)]
CooledForAReport(s) ==
    \A p \in Payers :
        s.cooled[p] # None =>
            \E q \in Requests :
                req[q].kind = "attest" /\ Throttled(q) /\ PayerOf(q) = p /\ IsAnswered(q) /\ req[q].at = s.cooled[p]

\* Every flag was raised, once, and those a resolve took and saved are gone.
FlagsAreRaised(s) ==
    /\ \A i \in DOMAIN s.flags : req[s.flags[i]].kind = "flag" /\ IsAnswered(s.flags[i])
    /\ \A i, j \in DOMAIN s.flags : s.flags[i] = s.flags[j] => i = j
GoneStayGone(s) ==
    \A r \in Requests : req[r].kind = "resolve" /\ req[r].status = "200" => req[r].took \cap ToSet(s.flags) = {}

CopyIsSound(s) ==
    /\ IsCopy(s) /\ AreReports(s) /\ OutcomesAreTallied(s) /\ LegsTogether(s)
    /\ ReportsApart(s) /\ CooledSince(s) /\ CooledForAReport(s) /\ FlagsAreRaised(s)

\* What is in the file and not in memory was taken by a resolve whose save failed.
Taken == UNION {req[q].took : q \in Requests}

DiskIsBehind ==
    /\ disk.tally \subseteq memory.tally
    /\ ToSet(disk.flags) \subseteq ToSet(memory.flags) \cup Taken

TookFlags == \A r \in Requests : \A f \in req[r].took : req[f].kind = "flag"

AttestIInv ==
    /\ AttestTypes /\ DiskIsBehind
    /\ CopyIsSound(memory) /\ GoneStayGone(memory) /\ CopyIsSound(disk) /\ GoneStayGone(disk)
    /\ TookFlags /\ ThrottledForACause /\ AnsweredIsKept

------------------------------------------------------------------------------
(* Crediting a payment.                                                    *)

LEMMA FirstPays ==
    ASSUME AttestAssumption, NEW t \in Txs, Legs[t][1] # OwnOperator
    PROVE  1 \in Paying(t)
    BY DEF AttestAssumption, Txs, Paying

LEMMA FirstIsPayer ==
    ASSUME AttestAssumption, NEW t \in Txs
    PROVE  Legs[t][1] \in Payers
    BY DEF AttestAssumption, Txs, Payers

\* The keys of a payment's legs.
LegKeys(t) == {<<t, Legs[t][i]>> : i \in Paying(t)}

\* What is credited stays, and nothing but the first leg of a new payment is given an outcome.
CreditedFrom(c, e, t, first) ==
    /\ IsMap(c) /\ DOMAIN c = DOMAIN e \cup LegKeys(t)
    /\ \A k \in DOMAIN e : c[k] = e[k]
    /\ \A k \in LegKeys(t) \ DOMAIN e : c[k] = IF k = <<t, Legs[t][1]>> THEN first ELSE None

LEMMA CreditedLegs ==
    ASSUME NEW e, NEW t \in Txs, NEW first
    PROVE  CreditedFrom(CreditLegs(e, t, first), e, t, first)
<1> DEFINE c == CreditLegs(e, t, first)
<1>1. /\ DOMAIN c = DOMAIN e \cup LegKeys(t)
      /\ IsMap(c)
      /\ \A k \in DOMAIN c : c[k] = IF k \in DOMAIN e THEN e[k] ELSE IF k[2] = Legs[t][1] THEN first ELSE None
    BY DEF CreditLegs, LegKeys, IsMap
<1>2. \A k \in LegKeys(t) : k[2] = Legs[t][1] <=> k = <<t, Legs[t][1]>>
    BY DEF LegKeys
<1> QED BY <1>1, <1>2 DEF CreditedFrom

\* Crediting one payment leaves the legs of every payment together.
LEMMA CreditKeepsTogether ==
    ASSUME NEW c, NEW e, NEW t \in Txs, NEW first, CreditedFrom(c, e, t, first),
           \A u \in Txs : Credited(e, u) \in {{}, Paying(u)}
    PROVE  \A u \in Txs : Credited(c, u) \in {{}, Paying(u)}
<1> SUFFICES ASSUME NEW u \in Txs PROVE Credited(c, u) \in {{}, Paying(u)}
    OBVIOUS
<1>1. DOMAIN c = DOMAIN e \cup LegKeys(t)
    BY DEF CreditedFrom
<1>2. CASE u = t
    BY <1>1, <1>2 DEF Credited, LegKeys
<1>3. CASE u # t
    <2>1. \A i : <<u, Legs[u][i]>> \in DOMAIN c <=> <<u, Legs[u][i]>> \in DOMAIN e
        BY <1>1, <1>3 DEF LegKeys
    <2>2. Credited(c, u) = Credited(e, u)
        BY <2>1 DEF Credited
    <2> QED BY <2>2
<1> QED BY <1>2, <1>3

\* Crediting with no outcome changes no value.
LEMMA CreditSetsNothing ==
    ASSUME NEW c, NEW e, NEW t \in Txs, CreditedFrom(c, e, t, None)
    PROVE  Values(c) \ {None} = Values(e) \ {None}
    BY DEF CreditedFrom, Values

\* A payment whose legs are credited already is left as it is.
LEMMA CreditAgainIsNothing ==
    ASSUME NEW c, NEW e, IsMap(e), NEW t \in Txs, NEW first, CreditedFrom(c, e, t, first),
           Credited(e, t) = Paying(t)
    PROVE  c = e
<1>1. LegKeys(t) \subseteq DOMAIN e
    BY DEF Credited, LegKeys
<1>2. IsMap(c) /\ DOMAIN c = DOMAIN e /\ \A k \in DOMAIN e : c[k] = e[k]
    BY <1>1 DEF CreditedFrom
<1> QED BY <1>2 DEF IsMap

\* A report that was accepted is the outcome of its payment, if it is one, and nothing else is.
LEMMA RecordedIsTallied ==
    ASSUME AttestAssumption, NEW r \in Requests, req[r].tx \in Txs, Accepted(r),
           IsMap(memory.events), LegsTogether(memory)
    PROVE  /\ IsMap(Recorded(r))
           /\ Values(Recorded(r)) \ {None} = (Values(memory.events) \ {None}) \cup ({OutcomeOf(r)} \ {None})
           /\ \A u \in Txs : Credited(Recorded(r), u) \in {{}, Paying(u)}
<1> DEFINE t == req[r].tx
           e == memory.events
           leg == <<t, Legs[t][1]>>
<1>1. Recorded(r) # e /\ Legs[t][1] # OwnOperator /\ OutcomeOf(r) \in {r, None} /\ r # None
    BY DEF Accepted, OutcomeOf, AttestAssumption
<1>2. 1 \in Paying(t) /\ leg \in LegKeys(t)
    BY <1>1, FirstPays DEF LegKeys
<1>3. \A u \in Txs : Credited(e, u) \in {{}, Paying(u)}
    BY DEF LegsTogether
<1>4. CASE leg \in DOMAIN e /\ OutcomeOf(r) # None
    <2>1. Credited(e, t) = Paying(t)
        BY <1>2, <1>3, <1>4 DEF Credited
    <2>2. CreditLegs(e, t, None) = e
        BY <2>1, CreditedLegs, CreditAgainIsNothing
    <2>3. Recorded(r) = SetPaymentOutcome(e, t, r)
        BY <1>4, <2>2 DEF Recorded
    <2>4. e[leg] = None /\ Recorded(r) = [e EXCEPT ![leg] = r]
        BY <1>1, <2>3 DEF SetPaymentOutcome
    <2> HIDE DEF leg, e
    <2>5. /\ IsMap(Recorded(r)) /\ DOMAIN Recorded(r) = DOMAIN e
          /\ Recorded(r)[leg] = r /\ \A k \in DOMAIN e : k # leg => Recorded(r)[k] = e[k]
        BY <1>4, <2>4 DEF IsMap
    <2>6. Values(Recorded(r)) \ {None} = (Values(e) \ {None}) \cup {r}
        BY <1>1, <1>4, <2>4, <2>5 DEF Values
    <2>7. \A u \in Txs : Credited(Recorded(r), u) = Credited(e, u)
        BY <2>5 DEF Credited
    <2> QED BY <1>1, <1>3, <1>4, <2>5, <2>6, <2>7 DEF e
<1>5. CASE OutcomeOf(r) = None
    <2>1. Recorded(r) = CreditLegs(e, t, None)
        BY <1>5 DEF Recorded
    <2>2. CreditedFrom(Recorded(r), e, t, None)
        BY <2>1, CreditedLegs
    <2>3. Values(Recorded(r)) \ {None} = Values(e) \ {None}
        BY <2>2, CreditSetsNothing
    <2>4. \A u \in Txs : Credited(Recorded(r), u) \in {{}, Paying(u)}
        BY <1>3, <2>2, CreditKeepsTogether
    <2> QED BY <1>5, <2>2, <2>3, <2>4 DEF CreditedFrom
<1>6. CASE leg \notin DOMAIN e /\ OutcomeOf(r) = r
    <2>1. Recorded(r) = CreditLegs(e, t, r)
        BY <1>6 DEF Recorded
    <2>2. CreditedFrom(Recorded(r), e, t, r)
        BY <2>1, CreditedLegs
    <2>3. \A u \in Txs : Credited(Recorded(r), u) \in {{}, Paying(u)}
        BY <1>3, <2>2, CreditKeepsTogether
    <2>5. /\ IsMap(Recorded(r)) /\ DOMAIN Recorded(r) = DOMAIN e \cup LegKeys(t)
          /\ \A k \in DOMAIN e : Recorded(r)[k] = e[k]
          /\ \A k \in LegKeys(t) \ DOMAIN e : Recorded(r)[k] = IF k = leg THEN r ELSE None
        BY <2>2 DEF CreditedFrom
    <2> HIDE DEF leg, e, t
    <2>4. Values(Recorded(r)) \ {None} = (Values(e) \ {None}) \cup {r}
        BY <1>1, <1>2, <1>6, <2>5 DEF Values
    <2> QED BY <1>1, <1>6, <2>3, <2>4, <2>5 DEF e
<1> QED BY <1>1, <1>4, <1>5, <1>6

------------------------------------------------------------------------------
(* Steps that answer nobody.                                               *)

\* What a copy stands for is told by the requests that were answered, which do not change.
AnsweredStay == \A q \in Requests : IsAnswered(q) => req'[q] = req[q]

LEMMA SoundnessStays ==
    ASSUME NEW s, CopyIsSound(s), AnsweredStay
    PROVE  CopyIsSound(s)'
<1>1. /\ s.tally \subseteq Requests /\ s.flags \in Seq(Requests)
      /\ \A r \in s.tally : req[r].kind = "attest" /\ IsAnswered(r)
    BY DEF CopyIsSound, IsCopy, AreReports
<1>2. \A r \in s.tally : req'[r] = req[r]
    BY <1>1 DEF AnsweredStay
<1>3. IsCopy(s)' /\ LegsTogether(s)'
    BY DEF CopyIsSound, IsCopy, LegsTogether
<1>4. AreReports(s)'
    BY <1>1, <1>2 DEF AreReports, IsAnswered
<1>5. OutcomesAreTallied(s)'
    <2>1. \A r \in s.tally : OutcomeOf(r)' = OutcomeOf(r)
        BY <1>2 DEF OutcomeOf
    <2> QED BY <2>1 DEF CopyIsSound, OutcomesAreTallied
<1>6. ReportsApart(s)'
    BY <1>2 DEF CopyIsSound, ReportsApart, Throttled, PayerOf
<1>7. CooledSince(s)'
    BY <1>2 DEF CopyIsSound, CooledSince, Throttled, PayerOf
<1>8. CooledForAReport(s)'
    BY DEF CopyIsSound, CooledForAReport, AnsweredStay, IsAnswered, Throttled, PayerOf
<1>9. FlagsAreRaised(s)'
    <2>1. \A i \in DOMAIN s.flags : s.flags[i] \in Requests
        BY <1>1
    <2> QED BY <2>1 DEF CopyIsSound, FlagsAreRaised, AnsweredStay, IsAnswered
<1> QED BY <1>3, <1>4, <1>5, <1>6, <1>7, <1>8, <1>9 DEF CopyIsSound

\* A request that a step leaves as it is, or takes on without an answer that says anything.
Outcomes == {"200", "202", "429"}
Unsettled(q) ==
    /\ req[q].kind \in {"none", "attest"} /\ req'[q].kind = "attest"
    /\ req[q].status \notin Outcomes /\ req'[q].status \notin Outcomes
    /\ req'[q].took = req[q].took

LEMMA NobodyIsAnswered ==
    ASSUME AttestIInv, AttestTypes',
           \/ memory' = memory /\ disk' \in {memory, disk}
           \/ memory' = disk /\ disk' = disk,
           \A q \in Requests : req'[q] = req[q] \/ Unsettled(q)
    PROVE  AttestIInv'
<1>1. AnsweredStay
    BY DEF AnsweredStay, Unsettled, Outcomes, IsAnswered
<1>2. \A q \in Requests : req'[q].took = req[q].took
    BY DEF Unsettled
<1>3. CopyIsSound(memory)' /\ CopyIsSound(disk)'
    <2>1. CopyIsSound(memory) /\ CopyIsSound(disk)
        BY DEF AttestIInv
    <2> QED BY <1>1, <2>1, SoundnessStays
<1>4. GoneStayGone(memory)' /\ GoneStayGone(disk)'
    BY DEF AttestIInv, GoneStayGone, Unsettled
<1>5. Taken' = Taken
    BY <1>2 DEF Taken
<1>6. DiskIsBehind'
    BY <1>5 DEF AttestIInv, DiskIsBehind
<1>7. TookFlags'
    <2>1. \A r \in Requests : req[r].took \subseteq Requests
        BY DEF AttestIInv, AttestTypes, Records
    <2> QED BY <1>2, <2>1 DEF AttestIInv, TookFlags, Unsettled
<1>8. ThrottledForACause'
    BY DEF AttestIInv, ThrottledForACause, Unsettled, Outcomes, Throttled, SamePayer
<1>9. AnsweredIsKept'
    <2> SUFFICES ASSUME NEW r \in Requests, req'[r].status = "200"
                 PROVE  CASE req'[r].kind = "attest" -> r \in disk'.tally
                          [] req'[r].kind = "flag" ->
                                r \in ToSet(disk'.flags) \/ \E q \in Requests : r \in req'[q].took
                          [] OTHER -> req'[r].took \cap ToSet(disk'.flags) = {}
        BY DEF AnsweredIsKept
    <2>1. req'[r] = req[r]
        BY DEF Unsettled, Outcomes
    <2>2. CASE req[r].kind = "attest"
        BY <2>1, <2>2 DEF AttestIInv, AnsweredIsKept, DiskIsBehind
    <2>3. CASE req[r].kind = "flag"
        <3>1. r \in ToSet(disk.flags) \/ r \in Taken
            BY <2>1, <2>3 DEF AttestIInv, AnsweredIsKept, Taken
        <3>2. r \in ToSet(disk'.flags) \/ r \in Taken'
            BY <1>5, <3>1 DEF AttestIInv, DiskIsBehind
        <3> QED BY <2>1, <2>3, <3>2 DEF Taken
    <2>4. CASE req[r].kind = "resolve"
        BY <1>4, <2>1, <2>4 DEF GoneStayGone
    <2>5. req[r].kind # "none" /\ req[r].kind \in {"none", "attest", "flag", "resolve"}
        BY <2>1 DEF AttestIInv, AttestTypes, Records, Idle
    <2> QED BY <2>2, <2>3, <2>4, <2>5
<1> QED BY <1>3, <1>4, <1>6, <1>7, <1>8, <1>9 DEF AttestIInv

LEMMA StepsThatAnswerNobody ==
    ASSUME AttestAssumption, AttestIInv,
           Arrive \/ ReadsFail \/ Saves \/ DiskTurns \/ Restart \/ TimePasses \/ UNCHANGED attestVars
    PROVE  AttestIInv'
<1> USE DEF AttestIInv
<1>1. CASE Arrive
    <2>1. PICK r \in Requests, t \in Txs, s \in BOOLEAN, caller \in BOOLEAN :
            /\ req[r].status = "none"
            /\ req' = [req EXCEPT ![r] = [Idle EXCEPT !.kind = "attest", !.status = "reading",
                                                      !.tx = t, !.success = s, !.caller = caller]]
            /\ UNCHANGED <<clock, memory, disk, roomy, turns>>
        BY <1>1 DEF Arrive
    <2>2. req[r] = Idle
        BY <2>1 DEF AttestTypes
    <2>3. AttestTypes'
        BY <2>1 DEF AttestTypes, Records, Idle
    <2>4. /\ \A q \in Requests \ {r} : req'[q] = req[q]
          /\ req'[r].kind = "attest" /\ req'[r].status = "reading" /\ req'[r].took = {}
        BY <2>1 DEF AttestTypes, Idle
    <2>5. Unsettled(r)
        BY <2>2, <2>4 DEF Unsettled, Outcomes, Idle
    <2> QED BY <2>1, <2>3, <2>4, <2>5, NobodyIsAnswered
<1>2. CASE ReadsFail
    <2>1. PICK r \in Requests :
            /\ req[r].status = "reading"
            /\ req' = [req EXCEPT ![r].status = "502", ![r].at = clock]
            /\ UNCHANGED <<clock, memory, disk, roomy, turns>>
        BY <1>2 DEF ReadsFail, Answer
    <2> DEFINE new == [req[r] EXCEPT !.status = "502", !.at = clock]
    <2>6. new \in Records
        BY DEF AttestTypes, Records
    <2>7. req' = [req EXCEPT ![r] = new]
        BY <2>1 DEF AttestTypes
    <2> HIDE DEF new
    <2>8. req' \in [Requests -> Records] /\ req[r] \in Records
        BY <2>6, <2>7 DEF AttestTypes
    <2> USE DEF new
    <2>3. /\ req' \in [Requests -> Records] /\ \A q \in Requests \ {r} : req'[q] = req[q]
          /\ req'[r] = [req[r] EXCEPT !.status = "502", !.at = clock] /\ req[r] \in Records
        BY <2>7, <2>8 DEF AttestTypes
    <2>2. AttestTypes'
        BY <2>1, <2>3 DEF AttestTypes, Records
    <2>4. Unsettled(r)
        BY <2>1, <2>3 DEF AttestTypes, Records, Unsettled, Outcomes
    <2> QED BY <2>1, <2>2, <2>3, <2>4, NobodyIsAnswered
<1>3. CASE Saves \/ DiskTurns \/ TimePasses \/ UNCHANGED attestVars
    <2>1. req' = req /\ memory' = memory /\ disk' \in {memory, disk} /\ (clock' = clock \/ clock' = clock + 1)
        BY <1>3 DEF Saves, Saved, DiskTurns, TimePasses, attestVars
    <2>2. AttestTypes'
        <3>1. clock' \in Nat /\ \A r \in Requests : req[r].at \in Nat /\ req[r].at <= clock'
            BY <2>1 DEF AttestTypes, Records
        <3> QED BY <2>1, <3>1 DEF AttestTypes, Idle
    <2> QED BY <2>1, <2>2, NobodyIsAnswered
<1>4. CASE Restart
    <2>1. memory' = disk /\ disk' = disk /\ clock' = clock
        BY <1>4 DEF Restart
    <2>2. AttestTypes'
        BY <1>4 DEF Restart, AttestTypes, Records
    <2>3. \A q \in Requests : req'[q] = req[q] \/ Unsettled(q)
        BY <1>4 DEF Restart, AttestTypes, Records, Unsettled, Outcomes
    <2> QED BY <2>1, <2>2, <2>3, NobodyIsAnswered
<1> QED BY <1>1, <1>2, <1>3, <1>4

------------------------------------------------------------------------------
(* Steps that answer one request.                                          *)

\* What every answer has to see to: the record it leaves is of its kind, and what it says is borne
\* out by the copy that was saved, the flags that were taken, or a report before it.
LEMMA OneIsAnswered ==
    ASSUME AttestIInv, NEW r \in Requests, NEW new \in Records,
           clock' = clock, req' = [req EXCEPT ![r] = new],
           req[r].status \in {"none", "reading"},
           new.at = clock, new.kind # "none", new.status \notin {"none", "reading"},
           new.kind = "attest" => new.tx \in Txs,
           disk' \in {disk, memory'},
           CopyIsSound(memory)', GoneStayGone(memory)', GoneStayGone(disk)',
           memory.tally \subseteq memory'.tally,
           ToSet(memory.flags) \subseteq ToSet(memory'.flags) \cup new.took,
           req[r].took \subseteq new.took, \A f \in new.took : req[f].kind = "flag",
           new.status = "200" /\ new.kind = "attest" => r \in disk'.tally,
           new.status = "200" /\ new.kind = "flag" => r \in ToSet(disk'.flags),
           new.status = "429" =>
                \E q \in Requests :
                    /\ req[q].kind = "attest" /\ Throttled(q) /\ IsAnswered(q)
                    /\ PayerOf(q) = Legs[new.tx][1]
                    /\ req[q].at <= clock /\ clock - req[q].at < Cooldown
    PROVE  AttestIInv'
<1> USE DEF AttestIInv
<1>1. req'[r] = new /\ \A q \in Requests \ {r} : req'[q] = req[q]
    BY DEF AttestTypes
<1>2. req[r].kind \in {"none", "attest"} /\ ~IsAnswered(r)
    BY DEF AttestTypes, Idle, IsAnswered
<1>3. AttestTypes'
    <2>1. req' \in [Requests -> Records]
        BY DEF AttestTypes
    <2>2. \A q \in Requests : req'[q].at <= clock'
        BY <1>1 DEF AttestTypes, Records
    <2>3. ASSUME NEW q \in Requests
          PROVE  /\ req'[q].kind = "attest" => req'[q].tx \in Txs
                 /\ "none" \in {req'[q].status, req'[q].kind} => req'[q] = Idle
                 /\ req'[q].status = "reading" => req'[q].kind = "attest"
        BY <1>1 DEF AttestTypes
    <2> QED BY <2>1, <2>2, <2>3 DEF AttestTypes, Idle
<1>4. AnsweredStay
    BY <1>1, <1>2 DEF AnsweredStay
<1>5. CopyIsSound(disk)'
    <2>1. CASE disk' = disk
        BY <1>4, <2>1, SoundnessStays
    <2>2. CASE disk' = memory'
        BY <2>2
    <2> QED BY <2>1, <2>2
<1>6. Taken' = Taken \cup new.took
    BY <1>1 DEF Taken
<1>7. DiskIsBehind'
    <2>1. disk'.tally \subseteq memory'.tally
        BY DEF DiskIsBehind
    <2>2. ToSet(disk'.flags) \subseteq ToSet(memory'.flags) \cup Taken'
        BY <1>6 DEF DiskIsBehind
    <2> QED BY <2>1, <2>2 DEF DiskIsBehind
<1>8. TookFlags'
    <2>1. \A q \in Requests : req[q].took \subseteq Requests
        BY DEF AttestTypes, Records
    <2>2. new.took \subseteq Requests
        BY DEF Records
    <2>3. ASSUME NEW q \in Requests, NEW f \in req'[q].took
          PROVE  req'[f].kind = "flag"
        <3>1. f \in Requests /\ req[f].kind = "flag"
            BY <1>1, <2>1, <2>2 DEF TookFlags
        <3>2. f # r
            BY <1>2, <3>1
        <3> QED BY <1>1, <3>1, <3>2
    <2> QED BY <2>3 DEF TookFlags
<1>9. ThrottledForACause'
    <2> SUFFICES ASSUME NEW q \in Requests, req'[q].status = "429"
                 PROVE  \E w \in Requests :
                            /\ req'[w].kind = "attest" /\ ~req'[w].caller
                            /\ Legs[req'[q].tx][1] = Legs[req'[w].tx][1]
                            /\ req'[w].status \in {"200", "202"}
                            /\ req'[w].at <= req'[q].at /\ req'[q].at - req'[w].at < Cooldown
        BY DEF ThrottledForACause, Throttled, SamePayer
    <2>1. PICK w \in Requests :
            /\ req[w].kind = "attest" /\ ~req[w].caller /\ IsAnswered(w)
            /\ Legs[req'[q].tx][1] = Legs[req[w].tx][1]
            /\ req[w].at <= req'[q].at /\ req'[q].at - req[w].at < Cooldown
        <3>1. CASE q = r
            BY <1>1, <3>1 DEF Throttled, PayerOf
        <3>2. CASE q # r
            BY <1>1, <3>2 DEF ThrottledForACause, Throttled, SamePayer, IsAnswered
        <3> QED BY <3>1, <3>2
    <2>2. req'[w] = req[w]
        BY <1>1, <1>2, <2>1
    <2> QED BY <2>1, <2>2 DEF IsAnswered
<1>10. AnsweredIsKept'
    <2> SUFFICES ASSUME NEW q \in Requests, req'[q].status = "200"
                 PROVE  CASE req'[q].kind = "attest" -> q \in disk'.tally
                          [] req'[q].kind = "flag" ->
                                q \in ToSet(disk'.flags) \/ \E w \in Requests : q \in req'[w].took
                          [] OTHER -> req'[q].took \cap ToSet(disk'.flags) = {}
        BY DEF AnsweredIsKept
    <2>1. CASE req'[q].kind = "attest"
        <3>1. q \in disk'.tally
            BY <1>1, <2>1 DEF AnsweredIsKept, DiskIsBehind
        <3> QED BY <2>1, <3>1
    <2>2. CASE req'[q].kind = "flag"
        <3>1. CASE q = r
            BY <1>1, <2>2, <3>1
        <3>2. CASE q # r
            <4>1. q \in ToSet(disk.flags) \/ q \in Taken
                BY <1>1, <2>2, <3>2 DEF AnsweredIsKept, Taken
            <4>2. q \in ToSet(disk'.flags) \/ q \in Taken'
                BY <1>6, <4>1 DEF DiskIsBehind
            <4> QED BY <2>2, <4>2 DEF Taken
        <3> QED BY <3>1, <3>2
    <2>3. CASE req'[q].kind = "resolve"
        BY <2>3 DEF GoneStayGone
    <2>4. req'[q].kind # "none" /\ req'[q].kind \in {"none", "attest", "flag", "resolve"}
        BY <1>3 DEF AttestTypes, Records, Idle
    <2> QED BY <2>1, <2>2, <2>3, <2>4
<1> QED BY <1>3, <1>5, <1>7, <1>8, <1>9, <1>10

------------------------------------------------------------------------------
(* The copies each step makes.                                             *)

\* Scan: a payment credited.
LEMMA CreditKeepsSound ==
    ASSUME NEW s, NEW t \in Txs, CopyIsSound(s)
    PROVE  CopyIsSound([s EXCEPT !.events = CreditLegs(s.events, t, None)])
<1> DEFINE c == CreditLegs(s.events, t, None)
           m == [s EXCEPT !.events = c]
<1>1. /\ m.events = c /\ m.tally = s.tally /\ m.cooled = s.cooled /\ m.flags = s.flags
      /\ m = [events |-> m.events, tally |-> m.tally, cooled |-> m.cooled, flags |-> m.flags]
    BY DEF CopyIsSound, IsCopy
<1>2. CreditedFrom(c, s.events, t, None)
    BY CreditedLegs
<1>3. IsMap(c) /\ Values(c) \ {None} = Values(s.events) \ {None}
    BY <1>2, CreditSetsNothing DEF CreditedFrom
<1>4. \A u \in Txs : Credited(c, u) \in {{}, Paying(u)}
    <2>1. \A u \in Txs : Credited(s.events, u) \in {{}, Paying(u)}
        BY DEF CopyIsSound, LegsTogether
    <2> QED BY <1>2, <2>1, CreditKeepsTogether
<1> HIDE DEF c, m
<1>5. IsCopy(m) /\ LegsTogether(m) /\ OutcomesAreTallied(m)
    BY <1>1, <1>3, <1>4 DEF CopyIsSound, IsCopy, LegsTogether, OutcomesAreTallied
<1>6. AreReports(m) /\ ReportsApart(m) /\ CooledSince(m) /\ CooledForAReport(m) /\ FlagsAreRaised(m)
    BY <1>1 DEF CopyIsSound, AreReports, ReportsApart, CooledSince, CooledForAReport, FlagsAreRaised
<1>7. CopyIsSound(m)
    BY <1>5, <1>6 DEF CopyIsSound
<1> QED BY <1>7 DEF m, c

\* POST /flag/resolve: the newest flags dropped.
LEMMA ResolveKeepsSound ==
    ASSUME NEW s, CopyIsSound(s), NEW n \in 0..Len(s.flags)
    PROVE  /\ CopyIsSound([s EXCEPT !.flags = SubSeq(s.flags, 1, n)])
           /\ ToSet(s.flags) = ToSet(SubSeq(s.flags, 1, n)) \cup {s.flags[i] : i \in n + 1..Len(s.flags)}
           /\ ToSet(SubSeq(s.flags, 1, n)) \cap {s.flags[i] : i \in n + 1..Len(s.flags)} = {}
<1> DEFINE f == SubSeq(s.flags, 1, n)
<1> HIDE DEF f
<1> DEFINE m == [s EXCEPT !.flags = f]
<1>1. /\ m.events = s.events /\ m.tally = s.tally /\ m.cooled = s.cooled /\ m.flags = f
      /\ m = [events |-> m.events, tally |-> m.tally, cooled |-> m.cooled, flags |-> m.flags]
    BY DEF CopyIsSound, IsCopy
<1>2. s.flags \in Seq(Requests) /\ Len(s.flags) \in Nat /\ DOMAIN s.flags = 1..Len(s.flags)
    BY DEF CopyIsSound, IsCopy
<1>3. f \in Seq(Requests) /\ Len(f) = n /\ DOMAIN f = 1..n /\ \A i \in 1..n : f[i] = s.flags[i]
    BY <1>2 DEF f
<1> HIDE DEF m
<1>4. \A i \in DOMAIN f : i \in DOMAIN s.flags /\ f[i] = s.flags[i]
    BY <1>2, <1>3
<1>5. FlagsAreRaised(m)
    BY <1>1, <1>4 DEF CopyIsSound, FlagsAreRaised
<1>6. IsCopy(m)
    BY <1>1, <1>3 DEF CopyIsSound, IsCopy
<1>7. /\ AreReports(m) /\ OutcomesAreTallied(m) /\ LegsTogether(m)
      /\ ReportsApart(m) /\ CooledSince(m) /\ CooledForAReport(m)
    BY <1>1 DEF CopyIsSound, AreReports, OutcomesAreTallied, LegsTogether, ReportsApart, CooledSince, CooledForAReport
<1>8. CopyIsSound(m)
    BY <1>5, <1>6, <1>7 DEF CopyIsSound
<1>9. ToSet(s.flags) = {s.flags[i] : i \in 1..Len(s.flags)} /\ ToSet(f) = {s.flags[i] : i \in 1..n}
    BY <1>2, <1>3 DEF ToSet
<1>10. ToSet(s.flags) = ToSet(f) \cup {s.flags[i] : i \in n + 1..Len(s.flags)}
    BY <1>2, <1>9
<1>11. ToSet(f) \cap {s.flags[i] : i \in n + 1..Len(s.flags)} = {}
    <2>1. \A i \in 1..n, j \in n + 1..Len(s.flags) : s.flags[i] # s.flags[j]
        BY <1>2 DEF CopyIsSound, FlagsAreRaised
    <2> QED BY <1>9, <2>1
<1> QED BY <1>8, <1>10, <1>11 DEF m, f

\* POST /flag: a flag added, by a request that had not been answered.
LEMMA FlagKeepsSound ==
    ASSUME NEW s, NEW r \in Requests, CopyIsSound(s), AnsweredStay, ~IsAnswered(r),
           req'[r].kind = "flag", IsAnswered(r)'
    PROVE  /\ CopyIsSound([s EXCEPT !.flags = Append(s.flags, r)])'
           /\ ToSet(Append(s.flags, r)) = ToSet(s.flags) \cup {r}
<1> DEFINE f == Append(s.flags, r)
<1> HIDE DEF f
<1> DEFINE m == [s EXCEPT !.flags = f]
<1>1. /\ m.events = s.events /\ m.tally = s.tally /\ m.cooled = s.cooled /\ m.flags = f
      /\ m = [events |-> m.events, tally |-> m.tally, cooled |-> m.cooled, flags |-> m.flags]
    BY DEF CopyIsSound, IsCopy
<1>2. s.flags \in Seq(Requests) /\ Len(s.flags) \in Nat /\ DOMAIN s.flags = 1..Len(s.flags)
    BY DEF CopyIsSound, IsCopy
<1>3. /\ f \in Seq(Requests) /\ DOMAIN f = 1..Len(s.flags) + 1
      /\ \A i \in 1..Len(s.flags) : f[i] = s.flags[i]
      /\ f[Len(s.flags) + 1] = r
    BY <1>2 DEF f
<1> HIDE DEF m
<1>4. \A i \in DOMAIN f : (f[i] = r /\ i = Len(s.flags) + 1) \/ (i \in DOMAIN s.flags /\ f[i] = s.flags[i])
    <2> SUFFICES ASSUME NEW i \in DOMAIN f
                 PROVE  (f[i] = r /\ i = Len(s.flags) + 1) \/ (i \in DOMAIN s.flags /\ f[i] = s.flags[i])
        OBVIOUS
    <2>1. i = Len(s.flags) + 1 \/ i \in 1..Len(s.flags)
        BY <1>2, <1>3
    <2> QED BY <1>2, <1>3, <2>1
<1>5. CopyIsSound(s)'
    BY SoundnessStays
<1>6. r \notin ToSet(s.flags)
    BY <1>2 DEF CopyIsSound, FlagsAreRaised, ToSet
<1>7. FlagsAreRaised(m)'
    <2>1. \A i \in DOMAIN f : req'[f[i]].kind = "flag" /\ req'[f[i]].status \in {"200", "202"}
        BY <1>4, <1>5 DEF CopyIsSound, FlagsAreRaised, IsAnswered
    <2>2. \A i, j \in DOMAIN f : f[i] = f[j] => i = j
        BY <1>4, <1>5, <1>6 DEF CopyIsSound, FlagsAreRaised, ToSet
    <2> QED BY <1>1, <2>1, <2>2 DEF FlagsAreRaised, IsAnswered
<1>8. IsCopy(m)'
    BY <1>1, <1>3, <1>5 DEF CopyIsSound, IsCopy
<1>9. /\ AreReports(m)' /\ OutcomesAreTallied(m)' /\ LegsTogether(m)'
      /\ ReportsApart(m)' /\ CooledSince(m)' /\ CooledForAReport(m)'
    BY <1>1, <1>5 DEF CopyIsSound, AreReports, OutcomesAreTallied, LegsTogether, ReportsApart, CooledSince, CooledForAReport
<1>10. CopyIsSound(m)'
    BY <1>7, <1>8, <1>9 DEF CopyIsSound
<1>11. ToSet(f) = ToSet(s.flags) \cup {r}
    BY <1>2, <1>3, <1>4 DEF ToSet
<1> QED BY <1>10, <1>11 DEF m, f

\* POST /attest: a report accepted is tallied, credited and armed together.
LEMMA ReportKeepsSound ==
    ASSUME AttestAssumption, AttestIInv, NEW r \in Requests, req[r].status = "reading", Accepted(r),
           AnsweredStay, NEW new, req'[r] = new, IsAnswered(r)',
           new.kind = "attest", new.tx = req[r].tx, new.caller = req[r].caller,
           new.success = req[r].success, new.at = clock,
           NEW m, m = [memory EXCEPT !.events = Recorded(r), !.tally = memory.tally \cup {r}, !.cooled = Armed(r)]
    PROVE  CopyIsSound(m)'
<1> DEFINE p == PayerOf(r)
<1>1. PICK s : s = memory
    OBVIOUS
<1>2. CopyIsSound(s) /\ CopyIsSound(s)'
    <2>1. CopyIsSound(s)
        BY <1>1 DEF AttestIInv
    <2> QED BY <2>1, SoundnessStays
<1>3. /\ m.events = Recorded(r) /\ m.tally = s.tally \cup {r} /\ m.cooled = Armed(r) /\ m.flags = s.flags
      /\ m = [events |-> m.events, tally |-> m.tally, cooled |-> m.cooled, flags |-> m.flags]
    BY <1>1, <1>2 DEF CopyIsSound, IsCopy
<1>4. req[r].kind = "attest" /\ req[r].tx \in Txs /\ clock \in Nat /\ clock # None /\ p \in Payers
    BY FirstIsPayer DEF AttestIInv, AttestTypes, PayerOf, AttestAssumption
<1>5. /\ IsMap(m.events) /\ \A u \in Txs : Credited(m.events, u) \in {{}, Paying(u)}
      /\ Values(m.events) \ {None} = (Values(s.events) \ {None}) \cup ({OutcomeOf(r)} \ {None})
    BY <1>1, <1>2, <1>3, <1>4, RecordedIsTallied DEF CopyIsSound, IsCopy
<1>6. /\ Throttled(r)' = Throttled(r) /\ PayerOf(r)' = p /\ OutcomeOf(r)' = OutcomeOf(r)
      /\ OutcomeOf(r) \in {r, None}
    BY DEF Throttled, PayerOf, OutcomeOf
<1>7. r \notin s.tally /\ \A q \in s.tally : q \in Requests /\ req'[q] = req[q]
    BY <1>2 DEF CopyIsSound, IsCopy, AreReports, IsAnswered, AnsweredStay
<1>8. s.cooled \in [Payers -> Nat \cup {None}]
    BY <1>2 DEF CopyIsSound, IsCopy
<1>9. m.cooled = IF Throttled(r) THEN [s.cooled EXCEPT ![p] = clock] ELSE s.cooled
    BY <1>1, <1>3 DEF Armed, PayerOf
<1>10. Throttled(r) => s.cooled[p] = None \/ clock - s.cooled[p] >= Cooldown
    BY <1>1 DEF Accepted, MayAttest, PayerOf
<1> HIDE DEF p
<1>11. IsCopy(m)'
    <2>1. m.cooled \in [Payers -> Nat \cup {None}]
        BY <1>4, <1>8, <1>9
    <2> QED BY <1>2, <1>3, <1>5, <2>1 DEF CopyIsSound, IsCopy
<1>12. AreReports(m)'
    BY <1>2, <1>3 DEF CopyIsSound, AreReports
<1>13. OutcomesAreTallied(m)'
    <2>1. {q \in s.tally : OutcomeOf(q)' # None} = Values(s.events) \ {None}
        BY <1>2 DEF CopyIsSound, OutcomesAreTallied
    <2>2. {q \in m.tally : OutcomeOf(q)' # None} = Values(m.events) \ {None}
        BY <1>3, <1>5, <1>6, <2>1
    <2> QED BY <2>2 DEF OutcomesAreTallied
<1>14. LegsTogether(m)'
    BY <1>5 DEF LegsTogether
<1>15. ASSUME NEW q \in s.tally, Throttled(q)', PayerOf(q)' = p
       PROVE  /\ s.cooled[p] # None /\ s.cooled[p] \in Nat /\ req'[q].at \in Nat
              /\ req'[q].at <= s.cooled[p] /\ req'[q].at <= clock
    <2>1. s.cooled[p] # None /\ req'[q].at <= s.cooled[p]
        BY <1>2, <1>15 DEF CopyIsSound, CooledSince
    <2>2. req'[q].at \in Nat /\ req'[q].at <= clock
        BY <1>7 DEF AttestIInv, AttestTypes, Records
    <2> QED BY <1>4, <1>8, <2>1, <2>2
<1>16. ReportsApart(m)'
    <2> SUFFICES ASSUME NEW q1 \in m.tally, NEW q2 \in m.tally, q1 # q2, Throttled(q1)', Throttled(q2)',
                        PayerOf(q1)' = PayerOf(q2)'
                 PROVE  req'[q1].at - req'[q2].at >= Cooldown \/ req'[q2].at - req'[q1].at >= Cooldown
        BY DEF ReportsApart
    <2>4. ASSUME NEW q \in s.tally, Throttled(r), Throttled(q)', PayerOf(q)' = p
          PROVE  req'[r].at - req'[q].at >= Cooldown
        <3>1. s.cooled[p] \in Nat /\ req'[q].at \in Nat /\ req'[q].at <= s.cooled[p] /\ s.cooled[p] # None
            BY <1>15, <2>4
        <3>2. clock - s.cooled[p] >= Cooldown /\ Cooldown \in Nat
            BY <1>10, <2>4, <3>1 DEF AttestAssumption
        <3> QED BY <1>4, <3>1, <3>2
    <2>1. CASE q1 \in s.tally /\ q2 \in s.tally
        BY <1>2, <2>1 DEF CopyIsSound, ReportsApart
    <2>2. CASE q1 = r /\ q2 \in s.tally
        BY <1>6, <2>2, <2>4
    <2>3. CASE q2 = r /\ q1 \in s.tally
        BY <1>6, <2>3, <2>4
    <2> QED BY <1>3, <2>1, <2>2, <2>3
<1>17. CooledSince(m)'
    <2> SUFFICES ASSUME NEW q \in m.tally, Throttled(q)'
                 PROVE  m.cooled[PayerOf(q)'] # None /\ req'[q].at <= m.cooled[PayerOf(q)']
        BY DEF CooledSince
    <2>1. CASE q = r
        BY <1>4, <1>6, <1>8, <1>9, <2>1
    <2>2. CASE q \in s.tally /\ PayerOf(q)' = p
        BY <1>4, <1>8, <1>9, <1>15, <2>2
    <2>3. CASE q \in s.tally /\ PayerOf(q)' # p
        <3>1. s.cooled[PayerOf(q)'] # None /\ req'[q].at <= s.cooled[PayerOf(q)']
            BY <1>2, <2>3 DEF CopyIsSound, CooledSince
        <3>2. PayerOf(q)' \in Payers
            <4>1. req'[q].tx \in Txs
                BY <1>2, <1>7, <2>3 DEF CopyIsSound, AreReports, AttestIInv, AttestTypes
            <4> QED BY <4>1, FirstIsPayer DEF PayerOf
        <3> QED BY <1>8, <1>9, <2>3, <3>1, <3>2
    <2> QED BY <1>3, <2>1, <2>2, <2>3
<1>18. CooledForAReport(m)'
    <2> SUFFICES ASSUME NEW w \in Payers, m.cooled[w] # None
                 PROVE  \E q \in Requests :
                            /\ req'[q].kind = "attest" /\ Throttled(q)' /\ PayerOf(q)' = w
                            /\ IsAnswered(q)' /\ req'[q].at = m.cooled[w]
        BY DEF CooledForAReport
    <2>1. CASE Throttled(r) /\ w = p
        <3>1. m.cooled[w] = clock
            BY <1>4, <1>8, <1>9, <2>1
        <3>2. Throttled(r)' /\ PayerOf(r)' = w /\ req'[r].kind = "attest" /\ req'[r].at = clock
            BY <1>6, <2>1
        <3> QED BY <3>1, <3>2
    <2>2. CASE ~(Throttled(r) /\ w = p)
        <3>1. m.cooled[w] = s.cooled[w]
            BY <1>8, <1>9, <2>2
        <3> QED BY <1>2, <3>1 DEF CopyIsSound, CooledForAReport
    <2> QED BY <2>1, <2>2
<1>19. FlagsAreRaised(m)'
    BY <1>2, <1>3 DEF CopyIsSound, FlagsAreRaised
<1> QED BY <1>11, <1>12, <1>13, <1>14, <1>16, <1>17, <1>18, <1>19 DEF CopyIsSound

------------------------------------------------------------------------------
(* The steps.                                                              *)

LEMMA AttestStarts == AttestAssumption /\ AttestInit => AttestIInv
<1> SUFFICES ASSUME AttestAssumption, AttestInit PROVE AttestIInv
    OBVIOUS
<1> USE DEF AttestInit
<1>1. Idle \in Records
    BY DEF Idle, Records
<1>2. AttestTypes
    BY <1>1 DEF AttestTypes, Idle
<1>3. IsCopy(Empty)
    BY DEF IsCopy, IsMap, Empty
<1>4. OutcomesAreTallied(Empty) /\ LegsTogether(Empty)
    BY DEF OutcomesAreTallied, LegsTogether, Credited, Values, Empty
<1>5. /\ AreReports(Empty) /\ ReportsApart(Empty) /\ CooledSince(Empty)
      /\ CooledForAReport(Empty) /\ FlagsAreRaised(Empty)
    BY DEF AreReports, ReportsApart, CooledSince, CooledForAReport, FlagsAreRaised, Empty
<1>6. CopyIsSound(Empty)
    BY <1>3, <1>4, <1>5 DEF CopyIsSound
<1>7. GoneStayGone(Empty) /\ TookFlags /\ ThrottledForACause /\ AnsweredIsKept
    BY DEF GoneStayGone, TookFlags, ThrottledForACause, AnsweredIsKept, Idle
<1> QED BY <1>2, <1>6, <1>7 DEF AttestIInv, DiskIsBehind

LEMMA ScanHolds == ASSUME AttestIInv, Scan PROVE AttestIInv'
<1> USE DEF AttestIInv
<1>1. PICK t \in Txs :
        /\ memory' = [memory EXCEPT !.events = CreditLegs(memory.events, t, None)]
        /\ UNCHANGED <<clock, disk, roomy, turns, req>>
    BY DEF Scan
<1>2. CopyIsSound(memory)' /\ CopyIsSound(disk)'
    <2>1. AnsweredStay
        BY <1>1 DEF AnsweredStay
    <2>2. CopyIsSound([memory EXCEPT !.events = CreditLegs(memory.events, t, None)])
        BY CreditKeepsSound
    <2>3. CopyIsSound(disk)
        OBVIOUS
    <2> QED BY <1>1, <2>1, <2>2, <2>3, SoundnessStays
<1>3. memory'.tally = memory.tally /\ memory'.flags = memory.flags
    BY <1>1 DEF CopyIsSound, IsCopy
<1>4. GoneStayGone(memory)' /\ GoneStayGone(disk)' /\ DiskIsBehind' /\ TookFlags'
    BY <1>1, <1>3 DEF GoneStayGone, DiskIsBehind, TookFlags, Taken
<1>5. AttestTypes' /\ ThrottledForACause' /\ AnsweredIsKept'
    BY <1>1 DEF AttestTypes, ThrottledForACause, Throttled, SamePayer, AnsweredIsKept
<1> QED BY <1>2, <1>4, <1>5

LEMMA FlagHolds == ASSUME AttestIInv, Flag PROVE AttestIInv'
<1> USE DEF AttestIInv
<1>1. PICK r \in Requests :
        /\ req[r].status = "none"
        /\ memory' = [memory EXCEPT !.flags = Append(memory.flags, r)]
        /\ disk' = IF roomy THEN memory' ELSE disk
        /\ req' = [req EXCEPT ![r] = [Idle EXCEPT !.kind = "flag", !.at = clock,
                                                  !.status = IF roomy THEN "200" ELSE "202"]]
        /\ UNCHANGED <<clock, roomy, turns>>
    BY DEF Flag, Saved
<1> DEFINE new == [Idle EXCEPT !.kind = "flag", !.at = clock, !.status = IF roomy THEN "200" ELSE "202"]
<1>2. /\ new \in Records /\ new.kind = "flag" /\ new.at = clock /\ new.took = {}
      /\ new.status = IF roomy THEN "200" ELSE "202"
    BY DEF Idle, Records, AttestTypes
<1>3. req[r] = Idle /\ req[r].took = {} /\ ~IsAnswered(r) /\ req[r].kind = "none"
    BY <1>1 DEF AttestTypes, Idle, IsAnswered
<1>4. req' = [req EXCEPT ![r] = new]
    BY <1>1
<1> HIDE DEF new
<1>5. req'[r] = new /\ \A q \in Requests \ {r} : req'[q] = req[q]
    BY <1>4 DEF AttestTypes
<1>6. AnsweredStay /\ IsAnswered(r)'
    BY <1>2, <1>3, <1>5 DEF AnsweredStay, IsAnswered
<1>7. CopyIsSound(memory)' /\ ToSet(memory'.flags) = ToSet(memory.flags) \cup {r} /\ memory'.tally = memory.tally
    <2>1. PICK s : s = memory /\ CopyIsSound(s)
        OBVIOUS
    <2>2. /\ CopyIsSound([s EXCEPT !.flags = Append(s.flags, r)])'
          /\ ToSet(Append(s.flags, r)) = ToSet(s.flags) \cup {r}
        BY <1>2, <1>3, <1>5, <1>6, <2>1, FlagKeepsSound
    <2>3. memory'.flags = Append(memory.flags, r) /\ memory'.tally = memory.tally
        BY <1>1 DEF CopyIsSound, IsCopy
    <2>4. memory' = [s EXCEPT !.flags = Append(s.flags, r)]
        BY <1>1, <2>1
    <2>5. CopyIsSound(memory)'
        BY <2>2, <2>4
    <2> QED BY <2>1, <2>2, <2>3, <2>5
<1>8. GoneStayGone(memory)' /\ GoneStayGone(disk)'
    <2>1. \A q \in Requests : r \notin req[q].took
        BY <1>3 DEF TookFlags
    <2>2. GoneStayGone(memory)'
        BY <1>2, <1>5, <1>7, <2>1 DEF GoneStayGone
    <2>3. GoneStayGone(disk)'
        BY <1>1, <1>2, <1>5, <2>2 DEF GoneStayGone
    <2> QED BY <2>2, <2>3
<1>9. disk' \in {disk, memory'} /\ (new.status = "200" => r \in ToSet(disk'.flags))
    BY <1>1, <1>2, <1>7
<1> QED BY <1>1, <1>2, <1>3, <1>4, <1>7, <1>8, <1>9, OneIsAnswered

LEMMA ResolveHolds == ASSUME AttestIInv, Resolve PROVE AttestIInv'
<1> USE DEF AttestIInv
<1> DEFINE left(count) == IF Len(memory.flags) > count THEN Len(memory.flags) - count ELSE 0
           dropped(count) == {memory.flags[i] : i \in left(count) + 1..Len(memory.flags)}
<1>1. PICK r \in Requests, count \in 1..2 :
        /\ req[r].status = "none"
        /\ memory' = [memory EXCEPT !.flags = SubSeq(memory.flags, 1, left(count))]
        /\ IF dropped(count) # {} THEN disk' = IF roomy THEN memory' ELSE disk ELSE disk' = disk
        /\ req' = [req EXCEPT ![r] = [Idle EXCEPT !.kind = "resolve", !.took = dropped(count), !.at = clock,
                                                  !.status = IF roomy \/ dropped(count) = {} THEN "200" ELSE "202"]]
        /\ UNCHANGED <<clock, roomy, turns>>
    BY DEF Resolve, Saved
<1> DEFINE after == left(count)
           gone == dropped(count)
           new == [Idle EXCEPT !.kind = "resolve", !.took = gone, !.at = clock,
                               !.status = IF roomy \/ gone = {} THEN "200" ELSE "202"]
<1>2. memory.flags \in Seq(Requests) /\ Len(memory.flags) \in Nat
    BY DEF CopyIsSound, IsCopy
<1>3. after \in 0..Len(memory.flags)
    BY <1>2
<1>4. gone \subseteq ToSet(memory.flags) /\ \A f \in gone : f \in Requests /\ req[f].kind = "flag"
    <2>1. \A i \in after + 1..Len(memory.flags) : i \in DOMAIN memory.flags
        BY <1>2, <1>3
    <2>2. gone \subseteq ToSet(memory.flags)
        BY <2>1 DEF ToSet
    <2>3. \A i \in DOMAIN memory.flags : memory.flags[i] \in Requests
        BY <1>2
    <2> QED BY <2>1, <2>2, <2>3 DEF CopyIsSound, FlagsAreRaised
<1>5. /\ req[r].status = "none" /\ clock' = clock /\ req' = [req EXCEPT ![r] = new]
      /\ memory' = [memory EXCEPT !.flags = SubSeq(memory.flags, 1, after)]
      /\ disk' = IF gone # {} /\ roomy THEN memory' ELSE disk
    BY <1>1
<1> HIDE DEF left
<1>6. /\ CopyIsSound([memory EXCEPT !.flags = SubSeq(memory.flags, 1, after)])
      /\ ToSet(memory.flags) = ToSet(SubSeq(memory.flags, 1, after)) \cup gone
      /\ ToSet(SubSeq(memory.flags, 1, after)) \cap gone = {}
    BY <1>3, ResolveKeepsSound
<1> HIDE DEF dropped, gone
<1>7. /\ new \in Records /\ new.kind = "resolve" /\ new.at = clock /\ new.took = gone
      /\ new.status = IF roomy \/ gone = {} THEN "200" ELSE "202"
    BY <1>4 DEF Idle, Records, AttestTypes
<1>8. req[r] = Idle /\ req[r].took = {} /\ ~IsAnswered(r)
    BY <1>5 DEF AttestTypes, Idle, IsAnswered
<1> HIDE DEF new
<1>9. req'[r] = new /\ \A q \in Requests \ {r} : req'[q] = req[q]
    BY <1>5 DEF AttestTypes
<1>10. AnsweredStay
    BY <1>8, <1>9 DEF AnsweredStay
<1>11. CopyIsSound(memory)'
    BY <1>5, <1>6, <1>10, SoundnessStays
<1>12. memory'.flags = SubSeq(memory.flags, 1, after) /\ memory'.tally = memory.tally
    BY <1>5 DEF CopyIsSound, IsCopy
<1>13. GoneStayGone(memory)'
    <2>1. ToSet(memory'.flags) \subseteq ToSet(memory.flags) /\ ToSet(memory'.flags) \cap gone = {}
        BY <1>6, <1>12
    <2> QED BY <1>7, <1>9, <2>1 DEF GoneStayGone
<1>14. GoneStayGone(disk)'
    <2>1. CASE disk' = memory'
        BY <1>13, <2>1 DEF GoneStayGone
    <2>2. CASE disk' = disk /\ disk' # memory'
        <3>1. new.status = "200" => gone = {}
            BY <1>5, <1>7, <2>2
        <3> QED BY <1>7, <1>9, <2>2, <3>1 DEF GoneStayGone
    <2> QED BY <1>5, <2>1, <2>2
<1>15. /\ disk' \in {disk, memory'} /\ memory.tally \subseteq memory'.tally
       /\ ToSet(memory.flags) \subseteq ToSet(memory'.flags) \cup new.took
       /\ req[r].took \subseteq new.took /\ \A f \in new.took : req[f].kind = "flag"
    BY <1>4, <1>5, <1>6, <1>7, <1>8, <1>12
<1>16. new.status \in {"200", "202"}
    BY <1>7
<1> QED BY <1>5, <1>7, <1>11, <1>13, <1>14, <1>15, <1>16, OneIsAnswered

\* The report that was accepted.
LEMMA AcceptedHolds ==
    ASSUME AttestAssumption, AttestIInv, NEW r \in Requests, req[r].status = "reading", Accepted(r),
           memory' = [memory EXCEPT !.events = Recorded(r), !.tally = memory.tally \cup {r}, !.cooled = Armed(r)],
           disk' = IF roomy THEN memory' ELSE disk,
           Answer(r, IF roomy THEN "200" ELSE "202"), clock' = clock
    PROVE  AttestIInv'
<1> USE DEF AttestIInv
<1> DEFINE new == [req[r] EXCEPT !.status = IF roomy THEN "200" ELSE "202", !.at = clock]
<1>1. req[r] \in Records /\ req[r].kind = "attest" /\ req[r].tx \in Txs /\ clock \in Nat /\ ~IsAnswered(r)
    BY DEF AttestTypes, IsAnswered
<1>2. /\ new \in Records /\ new.status = IF roomy THEN "200" ELSE "202"
      /\ new.kind = "attest" /\ new.tx = req[r].tx /\ new.caller = req[r].caller /\ new.success = req[r].success
      /\ new.at = clock /\ new.took = req[r].took
    BY <1>1 DEF Records
<1>3. req' = [req EXCEPT ![r] = new]
    BY <1>1 DEF Answer, AttestTypes
<1> HIDE DEF new
<1>4. req'[r] = new /\ \A q \in Requests \ {r} : req'[q] = req[q]
    BY <1>3 DEF AttestTypes
<1>5. AnsweredStay /\ IsAnswered(r)'
    BY <1>1, <1>2, <1>4 DEF AnsweredStay, IsAnswered
<1>6. PICK m : m = memory'
    OBVIOUS
<1>7. CopyIsSound(memory)'
    <2>1. m = [memory EXCEPT !.events = Recorded(r), !.tally = memory.tally \cup {r}, !.cooled = Armed(r)]
        BY <1>6
    <2>2. CopyIsSound(m)'
        BY <1>2, <1>4, <1>5, <2>1, ReportKeepsSound
    <2> QED BY <1>6, <2>2
<1>8. memory'.flags = memory.flags /\ memory'.tally = memory.tally \cup {r}
    BY DEF CopyIsSound, IsCopy
<1>9. GoneStayGone(memory)' /\ GoneStayGone(disk)'
    BY <1>2, <1>4, <1>8 DEF GoneStayGone
<1>10. \A f \in req[r].took : req[f].kind = "flag"
    BY DEF TookFlags
<1>11. disk' \in {disk, memory'} /\ (new.status = "200" => r \in disk'.tally)
    BY <1>2, <1>8
<1>12. /\ memory.tally \subseteq memory'.tally /\ ToSet(memory.flags) \subseteq ToSet(memory'.flags) \cup new.took
       /\ req[r].took \subseteq new.took /\ \A f \in new.took : req[f].kind = "flag"
    BY ONLY <1>2, <1>8, <1>10
<1>13. new.kind # "none" /\ new.status \in {"200", "202"} /\ new.tx \in Txs
    BY ONLY <1>1, <1>2
<1>14. /\ new.status \notin {"none", "reading", "429"}
       /\ ~(new.status = "200" /\ new.kind = "flag")
    BY ONLY <1>2, <1>13
<1> HIDE DEF AttestIInv
<1> QED BY <1>2, <1>3, <1>7, <1>9, <1>11, <1>12, <1>13, <1>14, OneIsAnswered

\* The report that was not: nothing is armed, and a 429 is on account of the report that armed it.
LEMMA RefusedHolds ==
    ASSUME AttestAssumption, AttestIInv, NEW r \in Requests, req[r].status = "reading", ~Accepted(r),
           memory' = IF RefusedWith(r) = "409" THEN [memory EXCEPT !.cooled = Armed(r)] ELSE memory,
           disk' = disk, Answer(r, RefusedWith(r)), clock' = clock
    PROVE  AttestIInv'
<1> USE DEF AttestIInv
<1> DEFINE p == PayerOf(r)
           status == RefusedWith(r)
           new == [req[r] EXCEPT !.status = status, !.at = clock]
<1>1. /\ req[r] \in Records /\ req[r].kind = "attest" /\ req[r].tx \in Txs /\ clock \in Nat /\ ~IsAnswered(r)
      /\ p \in Payers /\ memory.cooled \in [Payers -> Nat \cup {None}]
    BY FirstIsPayer DEF AttestTypes, IsAnswered, CopyIsSound, IsCopy, PayerOf
<1>2. status \in {"402", "409", "429"} /\ (status = "429" => Throttled(r) /\ ~MayAttest(p))
    BY DEF RefusedWith, PayerOf
<1> HIDE DEF status, p
<1>3. /\ new \in Records /\ new.status = status /\ new.kind = "attest" /\ new.tx = req[r].tx
      /\ new.at = clock /\ new.took = req[r].took
    BY <1>1, <1>2 DEF Records
<1>4. req' = [req EXCEPT ![r] = new]
    BY <1>1 DEF Answer, AttestTypes, status
<1> HIDE DEF new
<1>5. req'[r] = new /\ \A q \in Requests \ {r} : req'[q] = req[q]
    BY <1>4 DEF AttestTypes
<1>6. AnsweredStay
    BY <1>1, <1>5 DEF AnsweredStay
<1>7. memory' = memory
    BY DEF Armed, CopyIsSound, IsCopy
<1>8. CopyIsSound(memory)'
    <2>1. CopyIsSound(memory)
        OBVIOUS
    <2> QED BY <1>6, <1>7, <2>1, SoundnessStays
<1>9. GoneStayGone(memory)' /\ GoneStayGone(disk)'
    BY <1>3, <1>5, <1>7 DEF GoneStayGone
<1>10. \A f \in req[r].took : req[f].kind = "flag"
    BY DEF TookFlags
<1>11. ASSUME status = "429"
       PROVE  \E q \in Requests :
                    /\ req[q].kind = "attest" /\ Throttled(q) /\ IsAnswered(q) /\ PayerOf(q) = Legs[new.tx][1]
                    /\ req[q].at <= clock /\ clock - req[q].at < Cooldown
    <2>1. memory.cooled[p] # None /\ clock - memory.cooled[p] < Cooldown
        <3>1. memory.cooled[p] # None /\ ~(clock - memory.cooled[p] >= Cooldown)
            BY <1>2, <1>11 DEF MayAttest
        <3>2. memory.cooled[p] \in Nat /\ Cooldown \in Nat
            BY <1>1, <3>1 DEF AttestAssumption
        <3> QED BY <1>1, <3>1, <3>2
    <2>2. PICK q \in Requests :
            req[q].kind = "attest" /\ Throttled(q) /\ PayerOf(q) = p /\ IsAnswered(q) /\ req[q].at = memory.cooled[p]
        BY <1>1, <2>1 DEF CopyIsSound, CooledForAReport
    <2>3. req[q].at <= clock /\ Legs[new.tx][1] = p
        BY <1>3 DEF AttestTypes, PayerOf, p
    <2> QED BY <2>1, <2>2, <2>3
<1> QED BY <1>1, <1>2, <1>3, <1>4, <1>7, <1>8, <1>9, <1>10, <1>11, OneIsAnswered

LEMMA AttestHolds == ASSUME AttestAssumption, AttestIInv, Attest PROVE AttestIInv'
<1>1. PICK r \in Requests :
        /\ req[r].status = "reading"
        /\ IF Accepted(r)
           THEN /\ memory' = [memory EXCEPT !.events = Recorded(r), !.tally = memory.tally \cup {r}, !.cooled = Armed(r)]
                /\ disk' = IF roomy THEN memory' ELSE disk
                /\ Answer(r, IF roomy THEN "200" ELSE "202")
           ELSE /\ memory' = IF RefusedWith(r) = "409" THEN [memory EXCEPT !.cooled = Armed(r)] ELSE memory
                /\ Answer(r, RefusedWith(r))
                /\ disk' = disk
        /\ clock' = clock
    BY DEF Attest, Saved
<1>2. CASE Accepted(r)
    BY <1>1, <1>2, AcceptedHolds
<1>3. CASE ~Accepted(r)
    BY <1>1, <1>3, RefusedHolds
<1> QED BY <1>2, <1>3

LEMMA AttestStepHolds ==
    ASSUME AttestAssumption, AttestIInv, [AttestNext]_attestVars PROVE AttestIInv'
    BY StepsThatAnswerNobody, AttestHolds, FlagHolds, ResolveHolds, ScanHolds DEF AttestNext

LEMMA AttestInvFollows == AttestIInv => AttestInv
<1> SUFFICES ASSUME AttestIInv PROVE AttestInv
    OBVIOUS
<1> USE DEF AttestIInv
<1>1. TalliedOnce
    BY DEF TalliedOnce, CopyIsSound, OutcomesAreTallied, Values
<1>2. AcceptedApart
    BY DEF AcceptedApart, SamePayer, CopyIsSound, ReportsApart, PayerOf
<1> QED BY <1>1, <1>2 DEF AttestInv

\* However reports, replays, the scan, flags, resolves, failed saves and restarts interleave on POST
\* /attest and its neighbours (index.js): an outcome is tallied once and is its payment's, reports that
\* were throttled are a cooldown apart, none waits but on account of one that counted, and what was
\* answered 200 is on disk, for any payments, requests and cooldown.
THEOREM AnswersHold == AttestAssumption /\ AttestSpec => []AttestInv
<1> SUFFICES ASSUME AttestAssumption PROVE AttestSpec => []AttestInv
    OBVIOUS
<1>1. AttestInit => AttestIInv
    BY AttestStarts
<1>2. AttestIInv /\ [AttestNext]_attestVars => AttestIInv'
    BY AttestStepHolds
<1>3. AttestIInv => AttestInv
    BY AttestInvFollows
<1> QED BY <1>1, <1>2, <1>3, PTL DEF AttestSpec
==============================================================================
