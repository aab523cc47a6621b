------------------------ MODULE SigvaraEvidenceProofs ------------------------
(***************************************************************************)
(* The evidence store, for any chain, any payments and any number of       *)
(* failures: no payment due falls between the checkpoint and the replay    *)
(* record, nothing else is credited, and what was acknowledged is kept.    *)
(*                                                                         *)
(* Two things are asked of the environment: a scan's head is no further    *)
(* past the epoch's registry read than the confirmations, and a process    *)
(* that loaded its backup lives until its next save.                       *)
(*                                                                         *)
(* And the outcomes operators import from each other, for any payments and *)
(* clocks: an import passes nothing over, and outcomes are final.          *)
(***************************************************************************)
EXTENDS SigvaraEvidence, SigvaraOutcomes, FiniteSetTheorems, WellFoundedInduction, TLAPS

CopyOrNone == Copies \cup {NoFile, Unreadable}
Phases == {"idle", "listed", "planned", "scored"}

Shapes ==
    /\ head \in 1..MaxBlock /\ chain \in Histories
    /\ up \in BOOLEAN /\ recovering \in BOOLEAN /\ mem \in Copies /\ seen \in 0..head
    /\ epoch \in [phase : Phases, to : 0..head, plan : SUBSET Legs, broken : BOOLEAN]
    /\ files \in [state : CopyOrNone, backup : CopyOrNone]
    /\ acked \in [Legs -> Outcomes] /\ excused \subseteq Legs /\ faults \in 0..MaxFaults

\* A copy a scan or a restart may build on: not ahead of the chain, without a replay key of the
\* second generation, which no code in force writes; every payment its checkpoint has passed in
\* its replay record, and no event but of a customer's payment.
Sound(c) ==
    /\ c.registry <= head /\ c.reach <= head
    /\ \A t \in Txs, a \in Agents : <<t, a>> \notin c.used
    /\ \A l \in Legs : Payable(l) /\ Mined(l) <= c.reach =>
            {KeyOf(l), <<l.tx>>} \cap c.used # {} \/ l \in excused
    /\ \A l \in Legs : c.events[l] # "absent" => Payable(l) /\ IsCredited(c, l)

HeldAreSound == Sound(mem) /\ \A c \in {files.state, files.backup} \cap Copies : Sound(c)

\* Nothing a scan will step over is left out of its plan, unless its query was broken.
PlanIsComplete ==
    epoch.phase = "planned" /\ ~epoch.broken =>
        \A l \in Legs :
            Payable(l) /\ Mined(l) > mem.reach /\ Mined(l) <= epoch.to =>
                l \in epoch.plan \/ {KeyOf(l), <<l.tx>>} \cap mem.used # {}

ScanIsSound ==
    /\ ~up => epoch.phase = "idle"
    /\ epoch.phase = "listed" => head - seen <= MaxLag
    /\ \A l \in epoch.plan : Payable(l)
    /\ epoch.phase = "planned" /\ epoch.broken => epoch.plan = {}

\* A copy from which a restart takes up all that was acknowledged.
Keeps(c) == \A l \in Legs : Rank[acked[l]] <= Rank[c.events[l]]

\* Where that copy is when the process is not recovering.
DiskKeeps ==
    \/ files.state \in Copies /\ Keeps(files.state)
    \/ files.state = NoFile /\ Keeps(Empty)
    \/ ~up /\ files.state = Unreadable /\ files.backup \in Copies /\ Keeps(files.backup)

FilesAreSound ==
    /\ recovering => up /\ files.state \in {NoFile, Unreadable}
    /\ ~recovering => DiskKeeps

\* The inductive invariant: besides EvidenceInv, that the running scan leaves nothing out and
\* that the files can give back what was acknowledged.
EvidenceIInv ==
    /\ Shapes /\ HeldAreSound
    /\ up => Keeps(mem)
    /\ PlanIsComplete /\ ScanIsSound /\ FilesAreSound

LEMMA IInvIsEnough == EvidenceIInv => EvidenceInv
  <1> SUFFICES ASSUME EvidenceIInv
               PROVE  EvidenceInv
    OBVIOUS
  <1>1. /\ Shapes /\ mem \in Copies /\ files \in [state : CopyOrNone, backup : CopyOrNone]
        /\ DOMAIN files = {"state", "backup"}
    BY DEF EvidenceIInv, Shapes
  <1>2. \A c \in Held : Sound(c)
    BY <1>1, NoCopyAssumption DEF Held, EvidenceIInv, HeldAreSound, CopyOrNone
  <1>3. EvidenceTypeOK
    BY <1>1 DEF EvidenceTypeOK, Shapes, CopyOrNone, Phases
  <1> QED BY <1>2, <1>3 DEF EvidenceIInv, EvidenceInv, Sound, Keeps, ScanMissesNothing, OnlyPayments,
                        AckedIsKept

------------------------------------------------------------------------------
(* The data.                                                               *)

LEMMA ChainFacts ==
    ASSUME chain \in Histories, NEW l \in Legs
    PROVE  /\ l.tx \in Txs /\ l.agent \in Agents /\ l.payer \in Payers
           /\ Mined(l) \in Nat /\ Mined(l) > 0
           /\ Registered(l) \in Nat /\ chain.sold[l.agent] \in Nat
  <1>1. l.tx \in Txs /\ l.agent \in Agents /\ l.payer \in Payers
    BY EvidenceAssumption DEF EvidenceAssumption, Txs
  <1>2. chain.mined \in [Txs -> Nat \ {0}] /\ chain.registered \in [Agents -> Nat \ {0}]
        /\ chain.sold \in [Agents -> Nat \ {0}]
    BY EvidenceAssumption DEF EvidenceAssumption, Txs
  <1>3. chain.mined[l.tx] \in Nat \ {0} /\ chain.registered[l.agent] \in Nat \ {0}
        /\ chain.sold[l.agent] \in Nat \ {0}
    BY <1>1, <1>2
  <1> QED BY <1>1, <1>3 DEF Mined, Registered

LEMMA RankFacts ==
    /\ \A o \in Outcomes : Rank[o] \in Nat
    /\ Rank["absent"] = 0 /\ Rank["unreported"] = 1 /\ Rank["reported"] = 2 /\ Rank["signed"] = 3
  BY DEF Rank, Outcomes

\* The generations of keys do not mix.
LEMMA KeysDiffer ==
    ASSUME NEW l \in Legs
    PROVE  /\ KeyOf(l) \in Keys
           /\ \A t, a : KeyOf(l) # <<t, a>>
           /\ \A t, x, a : <<t>> # <<x, a>>
  BY DEF KeyOf, Keys

LEMMA EmptyIsSound ==
    ASSUME head \in Nat, chain \in Histories
    PROVE  Empty \in Copies /\ Sound(Empty)
  <1>1. Empty \in Copies
    BY EvidenceAssumption DEF Empty, Copies, Outcomes, EvidenceAssumption
  <1>2. ASSUME NEW l \in Legs, Mined(l) <= 0
        PROVE  FALSE
    BY <1>2, ChainFacts
  <1> QED BY <1>1, <1>2 DEF Sound, Empty

\* What was sound stays so while the chain grows.
LEMMA SoundStays ==
    ASSUME NEW c \in Copies, Sound(c), chain \in Histories, chain' = chain, head \in Nat, head' \in Nat,
           head' >= head, excused \subseteq excused'
    PROVE  Sound(c)'
  <1>0. c.reach \in Nat /\ c.registry \in Nat
    BY EvidenceAssumption DEF Copies, EvidenceAssumption
  <1>1. ASSUME NEW l \in Legs
        PROVE  /\ Mined(l)' = Mined(l) /\ Mined(l) \in Nat
               /\ Payable(l) => Payable(l)'
               /\ Payable(l)' /\ Mined(l) <= head => Payable(l)
    BY ChainFacts DEF Payable, Mined, Registered, Operator
  <1>2. ASSUME NEW l \in Legs, Payable(l)', Mined(l) <= c.reach
        PROVE  {KeyOf(l), <<l.tx>>} \cap c.used # {} \/ l \in excused
    BY <1>0, <1>1, <1>2 DEF Sound
  <1> QED BY <1>0, <1>1, <1>2 DEF Sound, IsCredited

LEMMA CopyParts ==
    ASSUME NEW c \in Copies
    PROVE  /\ c.registry \in Nat /\ c.reach \in Nat /\ c.used \subseteq Keys
           /\ c.reach <= MaxBlock /\ c.registry <= MaxBlock
           /\ \A l \in Legs : c.events[l] \in Outcomes /\ Rank[c.events[l]] \in Nat
  BY EvidenceAssumption, RankFacts DEF Copies, EvidenceAssumption

------------------------------------------------------------------------------
(* The store.                                                              *)

LEMMA CreditDoes ==
    ASSUME NEW c \in Copies, NEW legs \in SUBSET Legs, NEW reported
    PROVE  LET d == CreditPayments(c, legs, reported)
           IN  /\ d \in Copies /\ d.registry = c.registry /\ d.reach = c.reach
               /\ c.used \subseteq d.used
               /\ \A k \in d.used \ c.used : \E l \in legs : k = KeyOf(l)
               /\ \A l \in legs : ~IsCredited(c, l) => KeyOf(l) \in d.used
               /\ \A l \in Legs : l \notin legs \/ IsCredited(c, l) => d.events[l] = c.events[l]
               /\ \A l \in legs : ~IsCredited(c, l) => d.events[l] \in {"reported", "unreported"}
  <1> DEFINE d == CreditPayments(c, legs, reported)
             fresh == {k \in legs : ~IsCredited(c, k)}
             used == c.used \cup {KeyOf(l) : l \in fresh}
             records == [l \in Legs |-> IF l \notin fresh THEN c.events[l]
                                       ELSE IF l \in reported THEN "reported" ELSE "unreported"]
  <1>1. d = [c EXCEPT !.used = used, !.events = records]
    BY DEF CreditPayments
  <1> HIDE DEF d
  <1>2. used \subseteq Keys
    BY CopyParts, KeysDiffer
  <1>3. records \in [Legs -> Outcomes]
    BY CopyParts DEF Outcomes
  <1>4. /\ d \in Copies
        /\ d.registry = c.registry /\ d.reach = c.reach /\ d.used = used /\ d.events = records
    <2> HIDE DEF used, records
    <2> QED BY <1>1, <1>2, <1>3 DEF Copies
  <1>5. /\ \A l \in Legs : l \notin legs \/ IsCredited(c, l) => records[l] = c.events[l]
        /\ \A l \in legs : ~IsCredited(c, l) => records[l] \in {"reported", "unreported"}
    OBVIOUS
  <1>6. /\ c.used \subseteq used
        /\ \A k \in used \ c.used : \E l \in legs : k = KeyOf(l)
        /\ \A l \in legs : ~IsCredited(c, l) => KeyOf(l) \in used
    OBVIOUS
  <1>7. /\ d \in Copies /\ d.registry = c.registry /\ d.reach = c.reach
        /\ c.used \subseteq d.used
        /\ \A k \in d.used \ c.used : \E l \in legs : k = KeyOf(l)
        /\ \A l \in legs : ~IsCredited(c, l) => KeyOf(l) \in d.used
        /\ \A l \in Legs : l \notin legs \/ IsCredited(c, l) => d.events[l] = c.events[l]
        /\ \A l \in legs : ~IsCredited(c, l) => d.events[l] \in {"reported", "unreported"}
    <2> HIDE DEF used, records
    <2> QED BY <1>4, <1>5, <1>6
  <1> QED BY <1>7 DEF d

\* c may be followed by d: what was credited stays so, no outcome is weakened, and what is new is
\* a customer's payment.
GrowsTo(c, d) ==
    /\ d \in Copies /\ d.registry = c.registry /\ d.reach = c.reach
    /\ c.used \subseteq d.used
    /\ \A k \in d.used \ c.used : \E l \in Legs : k = KeyOf(l)
    /\ \A l \in Legs : Rank[c.events[l]] <= Rank[d.events[l]]
    /\ \A l \in Legs : d.events[l] # "absent" => c.events[l] # "absent" \/ (Payable(l) /\ IsCredited(d, l))
    /\ \A l \in Legs : IsCredited(c, l) /\ c.events[l] = "absent" => d.events[l] = "absent"

LEMMA CreditGrows ==
    ASSUME NEW c \in Copies, Sound(c), NEW legs \in SUBSET Legs, NEW reported,
           \A l \in legs : Payable(l)
    PROVE  /\ GrowsTo(c, CreditPayments(c, legs, reported))
           /\ \A l \in legs : IsCredited(CreditPayments(c, legs, reported), l)
           /\ \A l \in legs : ~IsCredited(c, l) => KeyOf(l) \in CreditPayments(c, legs, reported).used
  <1> DEFINE d == CreditPayments(c, legs, reported)
  <1> HIDE DEF d
  <1>1. /\ d \in Copies /\ d.registry = c.registry /\ d.reach = c.reach
        /\ c.used \subseteq d.used
        /\ \A k \in d.used \ c.used : \E l \in legs : k = KeyOf(l)
        /\ \A l \in legs : ~IsCredited(c, l) => KeyOf(l) \in d.used
        /\ \A l \in Legs : l \notin legs \/ IsCredited(c, l) => d.events[l] = c.events[l]
        /\ \A l \in legs : ~IsCredited(c, l) => d.events[l] \in {"reported", "unreported"}
    BY CreditDoes DEF d
  <1>2. ASSUME NEW l \in legs
        PROVE  IsCredited(d, l) /\ (~IsCredited(c, l) => KeyOf(l) \in d.used)
    BY <1>1 DEF IsCredited
  <1>3. ASSUME NEW l \in Legs
        PROVE  /\ Rank[c.events[l]] <= Rank[d.events[l]]
               /\ d.events[l] # "absent" => c.events[l] # "absent" \/ (Payable(l) /\ IsCredited(d, l))
               /\ IsCredited(c, l) /\ c.events[l] = "absent" => d.events[l] = "absent"
    <2>1. Rank[c.events[l]] \in Nat
      BY CopyParts
    <2>2. ~IsCredited(c, l) => c.events[l] = "absent"
      BY DEF Sound
    <2> QED BY <1>1, <1>2, <2>1, <2>2, RankFacts
  <1>4. \A k \in d.used \ c.used : \E l \in Legs : k = KeyOf(l)
    BY <1>1
  <1> QED BY <1>1, <1>2, <1>3, <1>4 DEF GrowsTo, d

\* One more outcome, where there was a lesser one.
LEMMA OutcomeGrows ==
    ASSUME NEW c \in Copies, NEW d \in Copies, GrowsTo(c, d), NEW l \in Legs, NEW o \in Outcomes,
           NEW e, e = [d EXCEPT !.events[l] = o],
           d.events[l] # "absent", Rank[d.events[l]] <= Rank[o]
    PROVE  GrowsTo(c, e)
  <1>1. /\ e \in Copies /\ e.registry = d.registry /\ e.reach = d.reach /\ e.used = d.used
        /\ \A k \in Legs : e.events[k] = IF k = l THEN o ELSE d.events[k]
    BY DEF Copies
  <1>2. \A k \in Legs : IsCredited(e, k) = IsCredited(d, k)
    BY <1>1 DEF IsCredited
  <1>3. \A k \in Legs : Rank[c.events[k]] \in Nat /\ Rank[d.events[k]] \in Nat /\ Rank[o] \in Nat
    BY CopyParts, RankFacts
  <1>4. \A k \in Legs : Rank[c.events[k]] <= Rank[e.events[k]]
    BY <1>1, <1>3 DEF GrowsTo
  <1> QED BY <1>1, <1>2, <1>4 DEF GrowsTo

LEMMA SettingGrows ==
    ASSUME NEW c \in Copies, NEW d \in Copies, GrowsTo(c, d), NEW l \in Legs
    PROVE  GrowsTo(c, SetPaymentOutcome(d, l))
  BY OutcomeGrows, RankFacts DEF SetPaymentOutcome, Outcomes

LEMMA RecordingGrows ==
    ASSUME NEW c \in Copies, NEW d \in Copies, GrowsTo(c, d), NEW l \in Legs, NEW alone \in BOOLEAN
    PROVE  GrowsTo(c, RecordPayerOutcome(d, l, alone))
  BY OutcomeGrows, RankFacts DEF RecordPayerOutcome, Outcomes

LEMMA GrownIsSound ==
    ASSUME NEW c \in Copies, NEW d \in Copies, GrowsTo(c, d), Sound(c), chain \in Histories
    PROVE  Sound(d)
  <1>1. ASSUME NEW t \in Txs, NEW a \in Agents, <<t, a>> \in d.used
        PROVE  FALSE
    <2>1. <<t, a>> \in d.used \ c.used
      BY <1>1 DEF Sound
    <2>2. PICK l \in Legs : <<t, a>> = KeyOf(l)
      BY <2>1 DEF GrowsTo
    <2> QED BY <2>2, KeysDiffer
  <1>2. ASSUME NEW l \in Legs, d.events[l] # "absent"
        PROVE  Payable(l) /\ IsCredited(d, l)
    BY <1>2 DEF GrowsTo, Sound, IsCredited
  <1> QED BY <1>1, <1>2 DEF GrowsTo, Sound

\* Pruning takes events out and nothing else.
LEMMA PruneDoes ==
    ASSUME NEW c \in Copies
    PROVE  /\ PruneEvents(c) \in Copies /\ PruneEvents(c).registry = c.registry
           /\ PruneEvents(c).reach = c.reach /\ PruneEvents(c).used = c.used
           /\ \A l \in Legs : PruneEvents(c).events[l] \in {c.events[l], "absent"}
  <1> DEFINE records == [l \in Legs |-> IF Mined(l) < head - RETENTION THEN "absent" ELSE c.events[l]]
  <1>1. records \in [Legs -> Outcomes]
    BY CopyParts DEF Outcomes
  <1>2. PruneEvents(c) = [c EXCEPT !.events = records]
    BY DEF PruneEvents
  <1>3. /\ PruneEvents(c) \in Copies /\ PruneEvents(c).registry = c.registry
        /\ PruneEvents(c).reach = c.reach /\ PruneEvents(c).used = c.used
        /\ PruneEvents(c).events = records
    <2> HIDE DEF records
    <2> QED BY <1>1, <1>2 DEF Copies
  <1> QED BY <1>3

------------------------------------------------------------------------------
(* Saves and requests.                                                     *)

LEMMA FilesAfterSave ==
    ASSUME Shapes, NEW c \in Copies, NEW r \in Saves
    PROVE  /\ FilesAfter(c, r) \in [state : CopyOrNone, backup : CopyOrNone]
           /\ FilesAfter(c, r).state = IF r = "saved" THEN c ELSE files.state
           /\ FilesAfter(c, r).backup \in {files.state, files.backup, NoFile}
  BY DEF FilesAfter, Saves, Shapes, CopyOrNone

\* A save that lands, fails or is died in keeps the invariant, when c is what may follow the memory
\* and acknowledges no more than it holds.
LEMMA SaveKeeps ==
    ASSUME EvidenceIInv, ~MayDieRecovering, up,
           NEW c \in Copies, Sound(c), c.reach = mem.reach, mem.used \subseteq c.used,
           NEW e, e = Idle \/ (e = epoch /\ seen' = seen), NEW r \in Saves, PersistState(c, e, r),
           acked' \in [Legs -> Outcomes],
           \A l \in Legs : Rank[acked'[l]] <= Rank[c.events[l]],
           r = "saved" \/ \A l \in Legs : Rank[acked'[l]] <= Rank[acked[l]],
           UNCHANGED <<chainVars, excused>>, seen' \in 0..head
    PROVE  EvidenceIInv'
  <1>1. Shapes /\ chain \in Histories /\ head \in Nat /\ head' = head /\ chain' = chain /\ excused' = excused
    BY EvidenceAssumption DEF EvidenceIInv, Shapes, chainVars, EvidenceAssumption
  <1>2. /\ files' \in [state : CopyOrNone, backup : CopyOrNone]
        /\ files'.state = IF r = "saved" THEN c ELSE files.state
        /\ files'.backup \in {files.state, files.backup, NoFile}
    BY <1>1, FilesAfterSave DEF PersistState
  <1>3. mem' = (IF r \in Deaths THEN Empty ELSE c) /\ up' = (r \notin Deaths)
    BY DEF PersistState
  <1>4. Idle \in [phase : Phases, to : 0..head, plan : SUBSET Legs, broken : BOOLEAN]
    BY <1>1 DEF Idle, Phases
  <1>5. epoch' = (IF r \in Deaths THEN Idle ELSE e)
    BY DEF PersistState
  <1>6. faults' \in 0..MaxFaults
    BY EvidenceAssumption DEF EvidenceIInv, Shapes, PersistState, EvidenceAssumption
  <1>7. Shapes'
    <2>1. mem' \in Copies
      BY <1>1, <1>3, EmptyIsSound
    <2>2. epoch' \in [phase : Phases, to : 0..head, plan : SUBSET Legs, broken : BOOLEAN]
      BY <1>4, <1>5 DEF EvidenceIInv, Shapes
    <2>3. up' \in BOOLEAN /\ recovering' \in BOOLEAN
      BY DEF PersistState
    <2> QED BY <1>1, <1>2, <1>6, <2>1, <2>2, <2>3 DEF EvidenceIInv, Shapes
  <1>8. HeldAreSound'
    <2>1. ASSUME NEW d \in Copies, Sound(d)
          PROVE  Sound(d)'
      BY <1>1, <2>1, SoundStays
    <2>2. PICK d \in Copies : Sound(d) /\ mem' = d
      BY <1>1, <1>3, EmptyIsSound
    <2>3. Sound(mem)'
      BY <2>1, <2>2 DEF Sound, IsCredited
    <2>4. \A f \in {files'.state, files'.backup} \cap Copies : Sound(f)
      BY <1>2, NoCopyAssumption DEF EvidenceIInv, HeldAreSound
    <2>5. \A f \in {files'.state, files'.backup} \cap Copies : Sound(f)'
      BY <2>1, <2>4
    <2> QED BY <2>3, <2>5 DEF HeldAreSound, Sound, IsCredited
  <1>9. (up => Keeps(mem))'
    BY <1>3 DEF Keeps
  <1>10. PlanIsComplete' /\ ScanIsSound'
    <2>1. CASE epoch' = Idle
      BY <1>1, <2>1 DEF PlanIsComplete, ScanIsSound, Idle
    <2>2. CASE epoch' = epoch /\ r \notin Deaths /\ seen' = seen
      <3>1. \A l \in Legs : Payable(l)' = Payable(l) /\ Mined(l)' = Mined(l)
        BY <1>1 DEF Payable, Mined, Registered, Operator
      <3>2. mem' = c /\ up'
        BY <1>3, <2>2
      <3>3. \A l \in Legs : l \in epoch.plan => Payable(l)
        BY DEF EvidenceIInv, ScanIsSound
      <3> QED BY <1>1, <2>2, <3>1, <3>2, <3>3 DEF EvidenceIInv, PlanIsComplete, ScanIsSound, Shapes
    <2> QED BY <1>5, <2>1, <2>2
  <1>11. FilesAreSound'
    <2>1. CASE r = "saved"
      BY <1>2, <2>1 DEF PersistState, FilesAreSound, DiskKeeps, Keeps, Deaths
    <2>2. CASE r # "saved"
      <3>1. \A l \in Legs : Rank[acked'[l]] <= Rank[acked[l]] /\ Rank[acked'[l]] \in Nat /\ Rank[acked[l]] \in Nat
        BY <2>2, RankFacts DEF EvidenceIInv, Shapes
      <3>2. ASSUME NEW d \in Copies, Keeps(d)
            PROVE  Keeps(d)'
        BY <3>1, <3>2, CopyParts DEF Keeps
      <3>3. r \in Deaths => ~recovering
        BY DEF PersistState, MayDie
      <3>4. CASE recovering
        BY <1>2, <1>3, <2>2, <3>3, <3>4 DEF EvidenceIInv, FilesAreSound, PersistState
      <3>5. CASE ~recovering
        <4>1. \/ files.state \in Copies /\ Keeps(files.state)
              \/ files.state = NoFile /\ Keeps(Empty)
          BY <3>5 DEF EvidenceIInv, FilesAreSound, DiskKeeps
        <4>2. files'.state = files.state /\ Empty \in Copies /\ ~recovering'
          BY <1>1, <1>2, <2>2, <3>5, EmptyIsSound DEF PersistState
        <4> QED BY <3>2, <4>1, <4>2 DEF FilesAreSound, DiskKeeps
      <3> QED BY <3>4, <3>5
    <2> QED BY <2>1, <2>2
  <1> QED BY <1>7, <1>8, <1>9, <1>10, <1>11 DEF EvidenceIInv

\* A request leaves the scan alone and adds what it verified.
LEMMA RequestKeeps ==
    ASSUME EvidenceIInv, ~MayDieRecovering, up, NEW c, GrowsTo(mem, c), NEW r \in Saves,
           PersistState(c, epoch, r), NEW l \in Legs,
           acked' = acked \/ Answer(l, c, r), UNCHANGED <<chainVars, seen, excused>>
    PROVE  EvidenceIInv'
  <1>1. /\ Shapes /\ mem \in Copies /\ c \in Copies /\ Sound(mem) /\ Keeps(mem) /\ chain \in Histories
        /\ seen \in 0..head /\ acked \in [Legs -> Outcomes]
    BY DEF EvidenceIInv, Shapes, HeldAreSound, GrowsTo
  <1>2. Sound(c) /\ c.reach = mem.reach /\ mem.used \subseteq c.used
    BY <1>1, GrownIsSound DEF GrowsTo
  <1>3. \A k \in Legs : Rank[acked[k]] <= Rank[c.events[k]]
    <2> SUFFICES ASSUME NEW k \in Legs
                 PROVE  Rank[acked[k]] <= Rank[c.events[k]]
      OBVIOUS
    <2>1. Rank[acked[k]] \in Nat /\ Rank[mem.events[k]] \in Nat /\ Rank[c.events[k]] \in Nat
      BY <1>1, RankFacts, CopyParts
    <2>2. Rank[acked[k]] <= Rank[mem.events[k]] /\ Rank[mem.events[k]] <= Rank[c.events[k]]
      BY <1>1 DEF Keeps, GrowsTo
    <2> QED BY <2>1, <2>2
  <1>4. c.events[l] \in Outcomes /\ Rank[c.events[l]] \in Nat
    BY <1>1, CopyParts
  <1>5. acked' = acked \/ (r = "saved" /\ acked' = [acked EXCEPT ![l] = c.events[l]])
    BY DEF Answer
  <1>6. acked' \in [Legs -> Outcomes]
    BY <1>1, <1>4, <1>5
  <1>7. \A k \in Legs : Rank[acked'[k]] <= Rank[c.events[k]]
    BY <1>1, <1>3, <1>4, <1>5
  <1>8. r = "saved" \/ \A k \in Legs : Rank[acked'[k]] <= Rank[acked[k]]
    BY <1>1, <1>5, RankFacts
  <1> QED BY <1>1, <1>2, <1>6, <1>7, <1>8, SaveKeeps

LEMMA PaidLegsArePayable ==
    ASSUME NEW t, NEW a
    PROVE  PaidLegs(t, a) \in SUBSET Legs /\ \A l \in PaidLegs(t, a) : Payable(l)
  BY DEF PaidLegs

LEMMA StrangerKeeps ==
    ASSUME EvidenceIInv, ~MayDieRecovering, NEW t \in Txs, NEW a \in Agents, AttestStranger(t, a)
    PROVE  EvidenceIInv'
  <1> DEFINE c == CreditPayments(mem, PaidLegs(t, a), {})
  <1>1. PICK r \in Saves : PersistState(c, epoch, r)
    BY DEF AttestStranger
  <1>2. GrowsTo(mem, c)
    <2>1. mem \in Copies /\ Sound(mem)
      BY DEF EvidenceIInv, Shapes, HeldAreSound
    <2> QED BY <2>1, CreditGrows, PaidLegsArePayable
  <1>3. PICK l \in PaidLegs(t, a) : l.largest
    BY DEF AttestStranger
  <1>4. l \in Legs /\ up /\ acked' = acked /\ UNCHANGED <<chainVars, seen, excused>>
    BY DEF PaidLegs, AttestStranger
  <1> HIDE DEF c
  <1> QED BY <1>1, <1>2, <1>4, RequestKeeps

LEMMA CredentialedKeeps ==
    ASSUME EvidenceIInv, ~MayDieRecovering, NEW l \in Legs, AttestCredentialed(l)
    PROVE  EvidenceIInv'
  <1> DEFINE d == CreditPayments(mem, PaidLegs(l.tx, l.agent), {l})
             c == SetPaymentOutcome(d, l)
  <1>1. PICK r \in Saves : PersistState(c, epoch, r) /\ Answer(l, c, r)
    BY DEF AttestCredentialed
  <1>2. GrowsTo(mem, d) /\ d \in Copies
    <2>1. mem \in Copies /\ Sound(mem)
      BY DEF EvidenceIInv, Shapes, HeldAreSound
    <2>2. GrowsTo(mem, d)
      BY <2>1, CreditGrows, PaidLegsArePayable
    <2> QED BY <2>2 DEF GrowsTo
  <1>3. GrowsTo(mem, c)
    <2> HIDE DEF d
    <2> QED BY <1>2, SettingGrows DEF EvidenceIInv, Shapes
  <1>4. up /\ UNCHANGED <<chainVars, seen, excused>>
    BY DEF AttestCredentialed
  <1> HIDE DEF c
  <1> QED BY <1>1, <1>3, <1>4, RequestKeeps

LEMMA PayerOutcomeKeeps ==
    ASSUME EvidenceIInv, ~MayDieRecovering, NEW l \in Legs, AdmitPayerOutcome(l)
    PROVE  EvidenceIInv'
  <1> DEFINE paid == PaidLegs(l.tx, l.agent)
             d == CreditPayments(mem, paid, {})
             c == RecordPayerOutcome(d, l, paid = {l})
  <1>1. PICK r \in Saves : PersistState(c, epoch, r) /\ Answer(l, c, r)
    BY DEF AdmitPayerOutcome
  <1>2. GrowsTo(mem, d) /\ d \in Copies
    <2>1. mem \in Copies /\ Sound(mem)
      BY DEF EvidenceIInv, Shapes, HeldAreSound
    <2>2. GrowsTo(mem, d)
      BY <2>1, CreditGrows, PaidLegsArePayable
    <2> QED BY <2>2 DEF GrowsTo
  <1>3. GrowsTo(mem, c)
    <2> HIDE DEF d
    <2> QED BY <1>2, RecordingGrows DEF EvidenceIInv, Shapes
  <1>4. up /\ UNCHANGED <<chainVars, seen, excused>>
    BY DEF AdmitPayerOutcome
  <1> HIDE DEF c
  <1> QED BY <1>1, <1>3, <1>4, RequestKeeps

------------------------------------------------------------------------------
(* The chain, restarts and damage.                                         *)

\* The copies are as they were: what was sound stays so.
LEMMA HeldStay ==
    ASSUME EvidenceIInv, chain' = chain, head' \in Nat, head' >= head, excused \subseteq excused',
           UNCHANGED <<mem, files>>
    PROVE  HeldAreSound'
  <1>1. chain \in Histories /\ head \in Nat /\ mem \in Copies
    BY EvidenceAssumption DEF EvidenceIInv, Shapes, EvidenceAssumption
  <1>2. ASSUME NEW c \in Copies, Sound(c)
        PROVE  Sound(c)'
    BY <1>1, <1>2, SoundStays
  <1>3. \A c \in {mem} \cup ({files.state, files.backup} \cap Copies) : Sound(c)'
    BY <1>1, <1>2 DEF EvidenceIInv, HeldAreSound
  <1> QED BY <1>3 DEF HeldAreSound, Sound, IsCredited

LEMMA NewBlockKeeps ==
    ASSUME EvidenceIInv, NewBlock
    PROVE  EvidenceIInv'
  <1>1. /\ head \in Nat /\ head' = head + 1 /\ head' \in 1..MaxBlock /\ MaxBlock \in Nat
        /\ chain' = chain /\ chain \in Histories /\ seen \in 0..head
        /\ UNCHANGED <<up, mem, seen, epoch, files, recovering, acked, excused, faults>>
    BY EvidenceAssumption DEF EvidenceIInv, Shapes, NewBlock, EvidenceAssumption
  <1>2. Shapes'
    <2>1. 0..head \subseteq 0..head'
      BY <1>1
    <2>2. epoch \in [phase : Phases, to : 0..head', plan : SUBSET Legs, broken : BOOLEAN]
      BY <2>1 DEF EvidenceIInv, Shapes
    <2> QED BY <1>1, <2>1, <2>2 DEF EvidenceIInv, Shapes
  <1>3. HeldAreSound'
    BY <1>1, HeldStay
  <1>4. ASSUME NEW l \in Legs
        PROVE  /\ Mined(l)' = Mined(l) /\ Mined(l) \in Nat
               /\ Payable(l) => Payable(l)'
               /\ Payable(l)' /\ Mined(l) <= head => Payable(l)
    BY <1>1, ChainFacts DEF Payable, Mined, Registered, Operator
  <1>5. PlanIsComplete'
    <2>1. epoch.to \in 0..head
      BY DEF EvidenceIInv, Shapes
    <2> QED BY <1>1, <1>4, <2>1 DEF EvidenceIInv, PlanIsComplete
  <1>6. ScanIsSound'
    <2>1. epoch.phase = "listed" => head - seen < MaxLag
      BY DEF NewBlock
    <2>2. \A l \in epoch.plan : l \in Legs /\ Payable(l)
      BY DEF EvidenceIInv, Shapes, ScanIsSound
    <2>3. MaxLag \in Nat
      BY EvidenceAssumption DEF EvidenceAssumption
    <2> QED BY <1>1, <1>4, <2>1, <2>2, <2>3 DEF EvidenceIInv, ScanIsSound
  <1>7. (up => Keeps(mem))' /\ FilesAreSound'
    BY <1>1 DEF EvidenceIInv, Keeps, FilesAreSound, DiskKeeps
  <1> QED BY <1>2, <1>3, <1>5, <1>6, <1>7 DEF EvidenceIInv

LEMMA IdleIsSound ==
    ASSUME Shapes', epoch' = Idle
    PROVE  PlanIsComplete' /\ ScanIsSound'
  BY DEF PlanIsComplete, ScanIsSound, Idle

LEMMA DeathKeeps ==
    ASSUME EvidenceIInv, ~MayDieRecovering, Dies
    PROVE  EvidenceIInv'
  <1>1. /\ UNCHANGED <<head, chain, seen, files, acked, excused>> /\ Shapes
        /\ up' = FALSE /\ recovering' = FALSE
        /\ mem' = Empty /\ epoch' = Idle /\ faults' = faults + 1 /\ ~recovering /\ up
        /\ faults < MaxFaults
    BY DEF Dies, chainVars, MayDie, EvidenceIInv
  <1>2. Empty \in Copies /\ Sound(Empty) /\ head \in Nat /\ chain \in Histories
    BY <1>1, EmptyIsSound, EvidenceAssumption DEF EvidenceAssumption, Shapes
  <1>3. Shapes'
    <2>1. faults' \in 0..MaxFaults
      BY <1>1, EvidenceAssumption DEF Shapes, EvidenceAssumption
    <2>2. epoch' \in [phase : Phases, to : 0..head, plan : SUBSET Legs, broken : BOOLEAN]
      BY <1>1, <1>2 DEF Idle, Phases
    <2> QED BY <1>1, <1>2, <2>1, <2>2 DEF Shapes
  <1>4. HeldAreSound'
    <2>1. \A c \in {Empty} \cup ({files.state, files.backup} \cap Copies) : Sound(c)'
      BY <1>1, <1>2, SoundStays DEF EvidenceIInv, HeldAreSound
    <2> QED BY <1>1, <2>1 DEF HeldAreSound, Sound, IsCredited
  <1>5. FilesAreSound'
    BY <1>1 DEF EvidenceIInv, FilesAreSound, DiskKeeps, Keeps
  <1> QED BY <1>1, <1>3, <1>4, <1>5, IdleIsSound DEF EvidenceIInv

LEMMA DamageKeeps ==
    ASSUME EvidenceIInv, FileDamaged
    PROVE  EvidenceIInv'
  <1>1. /\ UNCHANGED <<head, chain, seen, excused>> /\ Shapes
        /\ up' = FALSE /\ recovering' = FALSE
        /\ mem' = Empty /\ epoch' = Idle /\ faults' = faults + 1 /\ faults < MaxFaults
        /\ files' = [files EXCEPT !.state = Unreadable]
        /\ acked' = [l \in Legs |-> IF Rank[files.backup.events[l]] < Rank[acked[l]]
                                    THEN "absent" ELSE acked[l]]
    BY DEF FileDamaged, chainVars, EvidenceIInv
  <1>2. /\ Empty \in Copies /\ Sound(Empty) /\ head \in Nat /\ chain \in Histories
        /\ files \in [state : CopyOrNone, backup : CopyOrNone] /\ files.backup \in Copies
    <2>1. chain \in Histories /\ head \in Nat
      BY <1>1, EvidenceAssumption DEF EvidenceAssumption, Shapes
    <2>2. files \in [state : CopyOrNone, backup : CopyOrNone]
      BY <1>1 DEF Shapes
    <2>3. files.backup \notin {NoFile, Unreadable}
      BY DEF FileDamaged
    <2> QED BY <2>1, <2>2, <2>3, EmptyIsSound DEF CopyOrNone
  <1>3. files' \in [state : CopyOrNone, backup : CopyOrNone] /\ files'.state = Unreadable
        /\ files'.backup = files.backup
    BY <1>1, <1>2 DEF CopyOrNone
  <1>4. acked' \in [Legs -> Outcomes] /\ \A l \in Legs : Rank[acked'[l]] <= Rank[files.backup.events[l]]
    <2>1. \A l \in Legs : Rank[acked[l]] \in Nat /\ Rank[files.backup.events[l]] \in Nat
      BY <1>1, <1>2, RankFacts, CopyParts DEF Shapes
    <2> QED BY <1>1, <2>1, RankFacts DEF Shapes, Outcomes
  <1>5. Shapes'
    <2>1. faults' \in 0..MaxFaults
      BY <1>1, EvidenceAssumption DEF Shapes, EvidenceAssumption
    <2>2. epoch' \in [phase : Phases, to : 0..head, plan : SUBSET Legs, broken : BOOLEAN]
      BY <1>1, <1>2 DEF Idle, Phases
    <2> QED BY <1>1, <1>2, <1>3, <1>4, <2>1, <2>2 DEF Shapes
  <1>6. HeldAreSound'
    <2>1. \A c \in {Empty, files.backup} : Sound(c)'
      BY <1>1, <1>2, SoundStays DEF EvidenceIInv, HeldAreSound
    <2> QED BY <1>1, <1>3, <2>1, NoCopyAssumption DEF HeldAreSound, Sound, IsCredited
  <1>7. FilesAreSound'
    BY <1>1, <1>2, <1>3, <1>4 DEF FilesAreSound, DiskKeeps, Keeps
  <1> QED BY <1>1, <1>5, <1>6, <1>7, IdleIsSound DEF EvidenceIInv

\* A restart takes up a copy that holds all that was acknowledged.
LEMMA LoadKeeps ==
    ASSUME EvidenceIInv, Load
    PROVE  EvidenceIInv'
  <1>1. /\ UNCHANGED <<head, chain, epoch, acked, excused, faults>> /\ Shapes /\ up' /\ ~up
        /\ seen' = mem'.registry /\ recovering' = (files.state = Unreadable)
        /\ ~recovering /\ DiskKeeps
    BY DEF Load, chainVars, EvidenceIInv, FilesAreSound
  <1>2. /\ Empty \in Copies /\ Sound(Empty) /\ head \in Nat /\ chain \in Histories
        /\ files \in [state : CopyOrNone, backup : CopyOrNone]
    BY <1>1, EmptyIsSound, EvidenceAssumption DEF EvidenceAssumption, Shapes
  <1>3. /\ mem' \in Copies /\ Sound(mem') /\ Keeps(mem')
        /\ files' \in [state : CopyOrNone, backup : CopyOrNone]
        /\ \A c \in {files'.state, files'.backup} \cap Copies : Sound(c)
        /\ IF files.state = Unreadable THEN files'.state \in {NoFile, Unreadable}
           ELSE files'.state = files.state /\ (files.state \in Copies => mem' = files.state)
    <2>1. CASE files.state = NoFile
      <3>1. mem' = Empty /\ files' = [files EXCEPT !.backup = NoFile] /\ Keeps(Empty)
        BY <2>1, <1>1, NoCopyAssumption, EvidenceAssumption DEF Load, DiskKeeps, EvidenceAssumption
      <3> QED BY <3>1, <1>2, <2>1, NoCopyAssumption, EvidenceAssumption DEF CopyOrNone, EvidenceAssumption
    <2>2. CASE files.state = Unreadable
      <3>1. /\ mem' = files.backup /\ files.backup \in Copies /\ Keeps(files.backup)
            /\ \E aside \in {NoFile, Unreadable} : files' = [files EXCEPT !.state = aside]
        BY <2>2, <1>1, NoCopyAssumption, EvidenceAssumption DEF Load, DiskKeeps, EvidenceAssumption
      <3> QED BY <3>1, <1>2, <2>2, NoCopyAssumption DEF CopyOrNone, EvidenceIInv, HeldAreSound
    <2>3. CASE files.state \in Copies
      <3>1. mem' = files.state /\ files' = files /\ Keeps(files.state)
        BY <2>3, <1>1, NoCopyAssumption DEF Load, DiskKeeps
      <3> QED BY <3>1, <1>2, <2>3, NoCopyAssumption DEF EvidenceIInv, HeldAreSound
    <2> QED BY <1>2, <2>1, <2>2, <2>3 DEF CopyOrNone
  <1>4. Shapes'
    <2>1. mem'.registry \in 0..head
      BY <1>2, <1>3, CopyParts DEF Sound
    <2> QED BY <1>1, <1>3, <2>1 DEF Shapes
  <1>5. HeldAreSound'
    <2>1. \A c \in {mem'} \cup ({files'.state, files'.backup} \cap Copies) : c \in Copies /\ Sound(c)
      BY <1>3
    <2>2. ASSUME NEW c \in Copies, Sound(c)
          PROVE  Sound(c)'
      BY <1>1, <1>2, <2>2, SoundStays
    <2>3. PICK d \in Copies : mem' = d /\ Sound(d)'
      BY <1>3, <2>2
    <2>4. Sound(mem)'
      BY <2>3 DEF Sound, IsCredited
    <2>5. \A c \in {files'.state, files'.backup} \cap Copies : Sound(c)'
      BY <1>3, <2>2
    <2> QED BY <2>4, <2>5 DEF HeldAreSound, Sound, IsCredited
  <1>6. Keeps(mem)'
    BY <1>1, <1>3 DEF Keeps
  <1>7. FilesAreSound'
    <2>1. CASE files.state = Unreadable
      BY <1>1, <1>3, <2>1 DEF FilesAreSound
    <2>2. CASE files.state # Unreadable
      BY <1>1, <1>2, <1>3, <2>2 DEF FilesAreSound, DiskKeeps, Keeps, CopyOrNone
    <2> QED BY <2>1, <2>2
  <1>8. PlanIsComplete' /\ ScanIsSound'
    BY <1>1 DEF EvidenceIInv, ScanIsSound, PlanIsComplete, Payable, Mined, Registered, Operator
  <1> QED BY <1>4, <1>5, <1>6, <1>7, <1>8 DEF EvidenceIInv

------------------------------------------------------------------------------
(* The epoch.                                                              *)

LEMMA ListingKeeps ==
    ASSUME EvidenceIInv, GetRegisteredAgents
    PROVE  EvidenceIInv'
  <1>1. /\ UNCHANGED <<head, chain, up, mem, files, recovering, acked, excused, faults>> /\ up
        /\ seen' = head /\ epoch' = [Idle EXCEPT !.phase = "listed"] /\ head \in Nat
    BY EvidenceAssumption DEF GetRegisteredAgents, chainVars, EvidenceIInv, Shapes, EvidenceAssumption
  <1>2. epoch'.phase = "listed" /\ epoch'.plan = {} /\ ~epoch'.broken
        /\ epoch' \in [phase : Phases, to : 0..head, plan : SUBSET Legs, broken : BOOLEAN]
    <2>1. epoch' = [phase |-> "listed", to |-> 0, plan |-> {}, broken |-> FALSE]
      BY <1>1 DEF Idle
    <2>2. 0 \in 0..head
      BY <1>1
    <2> QED BY <2>1, <2>2 DEF Phases
  <1>3. Shapes'
    BY <1>1, <1>2 DEF EvidenceIInv, Shapes
  <1>4. HeldAreSound'
    BY <1>1, HeldStay
  <1>5. PlanIsComplete' /\ ScanIsSound'
    BY <1>1, <1>2, EvidenceAssumption DEF PlanIsComplete, ScanIsSound, EvidenceAssumption
  <1>6. (up => Keeps(mem))' /\ FilesAreSound'
    BY <1>1 DEF EvidenceIInv, Keeps, FilesAreSound, DiskKeeps
  <1> QED BY <1>3, <1>4, <1>5, <1>6 DEF EvidenceIInv

LEMMA FailedListingKeeps ==
    ASSUME EvidenceIInv, ~MayDieRecovering, RegistryReadFails
    PROVE  EvidenceIInv'
  <1>1. PICK reached \in seen..(head - 1) :
            seen' = reached /\ \E r \in Saves : PersistState([mem EXCEPT !.registry = reached], Idle, r)
    BY DEF RegistryReadFails
  <1> DEFINE c == [mem EXCEPT !.registry = reached]
  <1>2. PICK r \in Saves : PersistState(c, Idle, r)
    BY <1>1
  <1>3. /\ mem \in Copies /\ Sound(mem) /\ Keeps(mem) /\ up /\ seen \in 0..head /\ head \in 1..MaxBlock
        /\ acked \in [Legs -> Outcomes] /\ epoch.phase = "idle"
        /\ UNCHANGED <<chainVars, acked, excused>>
    BY DEF RegistryReadFails, EvidenceIInv, Shapes, HeldAreSound
  <1>4. reached \in 0..MaxBlock /\ reached <= head /\ reached \in 0..head /\ head \in Nat
    BY <1>1, <1>3, EvidenceAssumption DEF EvidenceAssumption
  <1>5. /\ c \in Copies /\ c.registry = reached /\ c.reach = mem.reach /\ c.used = mem.used
        /\ c.events = mem.events
    BY <1>3, <1>4 DEF Copies
  <1> HIDE DEF c
  <1>6. Sound(c)
    BY <1>3, <1>4, <1>5 DEF Sound, IsCredited
  <1>7. \A l \in Legs : Rank[acked'[l]] <= Rank[c.events[l]]
    BY <1>3, <1>5 DEF Keeps
  <1>8. \A l \in Legs : Rank[acked'[l]] <= Rank[acked[l]]
    BY <1>3, RankFacts
  <1>9. seen' \in 0..head
    BY <1>1, <1>4
  <1> QED BY <1>2, <1>3, <1>5, <1>6, <1>7, <1>8, <1>9, SaveKeeps

LEMMA EndKeeps ==
    ASSUME EvidenceIInv, ~MayDieRecovering, EndEpoch
    PROVE  EvidenceIInv'
  <1> DEFINE listed == [mem EXCEPT !.registry = seen]
             c == PruneEvents(listed)
  <1>1. PICK r \in Saves : PersistState(c, Idle, r)
    BY DEF EndEpoch
  <1>2. /\ mem \in Copies /\ Sound(mem) /\ Keeps(mem) /\ up /\ seen \in 0..head /\ head \in 1..MaxBlock
        /\ acked \in [Legs -> Outcomes] /\ UNCHANGED <<chainVars, seen, excused>>
        /\ acked' = [l \in Legs |-> IF c.events[l] = "absent" THEN "absent" ELSE acked[l]]
    BY DEF EndEpoch, EvidenceIInv, Shapes, HeldAreSound
  <1>3. seen \in 0..MaxBlock /\ seen <= head /\ head \in Nat
    BY <1>2, EvidenceAssumption DEF EvidenceAssumption
  <1>4. /\ listed \in Copies /\ listed.registry = seen /\ listed.reach = mem.reach
        /\ listed.used = mem.used /\ listed.events = mem.events
    BY <1>2, <1>3 DEF Copies
  <1> HIDE DEF listed
  <1>5. /\ c \in Copies /\ c.registry = seen /\ c.reach = mem.reach /\ c.used = mem.used
        /\ \A l \in Legs : c.events[l] \in {mem.events[l], "absent"}
    BY <1>4, PruneDoes
  <1> HIDE DEF c
  <1>6. Sound(c)
    BY <1>2, <1>3, <1>5 DEF Sound, IsCredited
  <1>7. acked' \in [Legs -> Outcomes]
    BY <1>2 DEF Outcomes
  <1>8. ASSUME NEW l \in Legs
        PROVE  Rank[acked'[l]] <= Rank[c.events[l]] /\ Rank[acked'[l]] <= Rank[acked[l]]
    <2>1. /\ Rank[acked[l]] \in Nat /\ Rank[c.events[l]] \in Nat /\ Rank[mem.events[l]] \in Nat
          /\ Rank[acked[l]] <= Rank[mem.events[l]]
      BY <1>2, <1>5, RankFacts, CopyParts DEF Keeps
    <2>2. acked'[l] = IF c.events[l] = "absent" THEN "absent" ELSE acked[l]
      BY <1>2
    <2> QED BY <1>5, <2>1, <2>2, RankFacts
  <1>9. seen' \in 0..head
    BY <1>2
  <1> QED BY <1>1, <1>2, <1>5, <1>6, <1>7, <1>8, <1>9, SaveKeeps

\* The head of a scan is final and no further from the registry read than MaxLag: every agent and
\* operator that matters to it is known.
LEMMA PlanIsDue ==
    ASSUME EvidenceIInv, MaxLag <= CONF, epoch.phase = "listed", NEW l \in Legs,
           Mined(l) > mem.reach, Mined(l) <= SafeHead
    PROVE  /\ l \in PlanCredits => Payable(l)
           /\ Payable(l) => l \in PlanCredits \/ {KeyOf(l), <<l.tx>>} \cap mem.used # {}
  <1>1. /\ head \in Nat /\ seen \in Nat /\ CONF \in Nat /\ MaxLag \in Nat /\ mem.reach \in Nat
        /\ head - seen <= MaxLag /\ chain \in Histories /\ Sound(mem)
    BY EvidenceAssumption, CopyParts
    DEF EvidenceAssumption, EvidenceIInv, Shapes, ScanIsSound, HeldAreSound
  <1>2. /\ Mined(l) \in Nat /\ Mined(l) > 0 /\ Registered(l) \in Nat /\ chain.sold[l.agent] \in Nat
        /\ l.tx \in Txs /\ l.agent \in Agents
    BY <1>1, ChainFacts
  <1>3. Mined(l) <= head - CONF
    BY <1>1, <1>2 DEF SafeHead
  <1>4. Mined(l) <= seen /\ Mined(l) <= head
    BY <1>1, <1>2, <1>3
  <1>5. OperatorAt(l.agent, Mined(l)) = Operator(l.agent, Mined(l))
    BY <1>1, <1>2, <1>4 DEF OperatorAt, Operator
  <1>6. Registered(l) <= Mined(l) => Listed(l.agent)
    BY <1>1, <1>2, <1>4 DEF Listed, Registered
  <1>7. IsCredited(mem, l) => {KeyOf(l), <<l.tx>>} \cap mem.used # {}
    BY <1>1, <1>2 DEF IsCredited, Sound
  <1>8. Mined(l) \in (mem.reach + 1)..SafeHead
    BY <1>1, <1>2 DEF SafeHead
  <1> QED BY <1>4, <1>5, <1>6, <1>7, <1>8 DEF PlanCredits, Payable

LEMMA ReadingKeeps ==
    ASSUME EvidenceIInv, MaxLag <= CONF, ReadPayments
    PROVE  EvidenceIInv'
  <1>1. /\ UNCHANGED <<head, chain, up, mem, seen, files, recovering, acked, excused>> /\ up
        /\ epoch.phase = "listed" /\ head \in Nat /\ mem \in Copies
        /\ epoch \in [phase : Phases, to : 0..head, plan : SUBSET Legs, broken : BOOLEAN]
    BY EvidenceAssumption DEF ReadPayments, chainVars, EvidenceIInv, Shapes, EvidenceAssumption
  <1>2. PICK how \in {"reads", "reads_nothing", "fails"} :
            /\ how # "reads" => faults < MaxFaults
            /\ faults' = IF how = "reads" THEN faults ELSE faults + 1
            /\ epoch' = IF how = "fails" \/ mem.reach >= SafeHead THEN [Idle EXCEPT !.phase = "scored"]
                        ELSE [epoch EXCEPT !.phase = "planned", !.to = SafeHead,
                                  !.plan = IF how = "reads" THEN PlanCredits ELSE {},
                                  !.broken = (how = "reads_nothing")]
    BY DEF ReadPayments
  <1>3. SafeHead \in 0..head /\ PlanCredits \subseteq Legs
    BY <1>1, EvidenceAssumption DEF SafeHead, PlanCredits, EvidenceAssumption
  <1>4. \/ /\ epoch'.phase = "scored" /\ epoch'.plan = {}
        \/ /\ epoch'.phase = "planned" /\ epoch'.to = SafeHead
           /\ epoch'.plan = IF how = "reads" THEN PlanCredits ELSE {}
           /\ epoch'.broken = (how = "reads_nothing") /\ how # "fails"
    BY <1>1, <1>2 DEF Idle
  <1>5. epoch' \in [phase : Phases, to : 0..head, plan : SUBSET Legs, broken : BOOLEAN]
    <2>1. 0 \in 0..head /\ (how = "reads_nothing") \in BOOLEAN
      BY <1>1
    <2>2. CASE epoch' = [Idle EXCEPT !.phase = "scored"]
      <3>1. epoch' = [phase |-> "scored", to |-> 0, plan |-> {}, broken |-> FALSE]
        BY <2>2 DEF Idle
      <3> QED BY <2>1, <3>1 DEF Phases
    <2>3. CASE epoch' = [epoch EXCEPT !.phase = "planned", !.to = SafeHead,
                             !.plan = IF how = "reads" THEN PlanCredits ELSE {},
                             !.broken = (how = "reads_nothing")]
      BY <1>1, <1>3, <2>1, <2>3 DEF Phases
    <2> QED BY <1>2, <2>2, <2>3
  <1>6. Shapes'
    <2>1. faults' \in 0..MaxFaults
      BY <1>2, EvidenceAssumption DEF EvidenceIInv, Shapes, EvidenceAssumption
    <2> QED BY <1>1, <1>5, <2>1 DEF EvidenceIInv, Shapes
  <1>7. HeldAreSound'
    BY <1>1, HeldStay
  <1>8. \A l \in Legs : Payable(l)' = Payable(l) /\ Mined(l)' = Mined(l)
    BY <1>1 DEF Payable, Mined, Registered, Operator
  <1>9. \A l \in PlanCredits : l \in Legs /\ Payable(l)
    <2> SUFFICES ASSUME NEW l \in PlanCredits
                 PROVE  l \in Legs /\ Payable(l)
      OBVIOUS
    <2>1. l \in Legs /\ Mined(l) \in (mem.reach + 1)..SafeHead
      BY DEF PlanCredits
    <2>2. mem.reach \in Nat /\ SafeHead \in Nat
      BY <1>1, <1>3, CopyParts
    <2>3. Mined(l) > mem.reach /\ Mined(l) <= SafeHead
      BY <2>1, <2>2
    <2> QED BY <1>1, <2>1, <2>3, PlanIsDue
  <1>10. PlanIsComplete'
    BY <1>1, <1>4, <1>8, PlanIsDue DEF PlanIsComplete
  <1>11. ScanIsSound'
    BY <1>1, <1>4, <1>8, <1>9 DEF ScanIsSound
  <1>12. (up => Keeps(mem))' /\ FilesAreSound'
    BY <1>1 DEF EvidenceIInv, Keeps, FilesAreSound, DiskKeeps
  <1> QED BY <1>6, <1>7, <1>10, <1>11, <1>12 DEF EvidenceIInv

LEMMA ScanKeeps ==
    ASSUME EvidenceIInv, FinishPaymentScan
    PROVE  EvidenceIInv'
  <1> DEFINE unresolvedAt(bs) == {l \in epoch.plan : Mined(l) \in bs}
             creditedAt(bs) == {l \in epoch.plan \ unresolvedAt(bs) : ~IsCredited(mem, l)}
             storeAt(bs) == CreditPayments(mem, creditedAt(bs), {})
  <1>1. PICK blocks \in SUBSET {Mined(l) : l \in epoch.plan}, canary \in
                {"not_run", "unavailable", "failed", "passed"} :
            /\ blocks # {} => faults < MaxFaults
            /\ faults' = IF blocks = {} THEN faults ELSE faults + 1
            /\ canary \in Canary(creditedAt(blocks), storeAt(blocks))
            /\ \E n \in mem.reach..epoch.to :
                /\ CheckpointAfter(n, unresolvedAt(blocks), canary)
                /\ mem' = [storeAt(blocks) EXCEPT !.reach = n]
            /\ excused' = IF epoch.broken /\ canary = "unavailable"
                          THEN excused \cup {l \in Legs : Mined(l) \in (mem.reach + 1)..epoch.to}
                          ELSE excused
    BY DEF FinishPaymentScan
  <1> DEFINE unresolved == unresolvedAt(blocks)
             credited == creditedAt(blocks)
             c == CreditPayments(mem, credited, {})
  <1>2. PICK n \in mem.reach..epoch.to :
            CheckpointAfter(n, unresolved, canary) /\ mem' = [c EXCEPT !.reach = n]
    BY <1>1
  <1>3. /\ UNCHANGED <<head, chain, up, seen, files, recovering, acked>> /\ up
        /\ epoch.phase = "planned" /\ epoch' = [Idle EXCEPT !.phase = "scored"]
        /\ mem \in Copies /\ Sound(mem) /\ Keeps(mem) /\ chain \in Histories
        /\ epoch \in [phase : Phases, to : 0..head, plan : SUBSET Legs, broken : BOOLEAN]
        /\ \A l \in epoch.plan : Payable(l)
        /\ excused \subseteq Legs
    BY DEF FinishPaymentScan, chainVars, EvidenceIInv, Shapes, HeldAreSound, ScanIsSound
  <1>4. /\ head \in Nat /\ head \in 1..MaxBlock /\ MaxBlock \in Nat /\ mem.reach \in Nat /\ epoch.to \in Nat
        /\ epoch.to <= head /\ n \in Nat /\ mem.reach <= n /\ n <= epoch.to
    <2>1. head \in Nat /\ head \in 1..MaxBlock /\ MaxBlock \in Nat
      BY EvidenceAssumption DEF EvidenceIInv, Shapes, EvidenceAssumption
    <2>2. mem.reach \in Nat
      BY <1>3, CopyParts
    <2>3. epoch.to \in Nat /\ epoch.to <= head
      BY <1>3, <2>1
    <2> QED BY <2>1, <2>2, <2>3
  <1>5. credited \in SUBSET Legs /\ (\A l \in credited : Payable(l)) /\ credited \subseteq epoch.plan
    BY <1>3
  <1>6. /\ GrowsTo(mem, c)
        /\ \A l \in credited : ~IsCredited(mem, l) => KeyOf(l) \in c.used
    <2> HIDE DEF credited
    <2> QED BY <1>3, <1>5, CreditGrows
  <1>7. canary \in Canary(credited, c)
    BY <1>1
  <1>8. \A l \in epoch.plan : l \in unresolved \/ l \in credited \/ IsCredited(mem, l)
    OBVIOUS
  <1>9. unresolved \subseteq epoch.plan
    OBVIOUS
  <1> HIDE DEF c, credited, unresolved
  <1>10. c \in Copies /\ Sound(c) /\ c.reach = mem.reach /\ c.registry = mem.registry /\ mem.used \subseteq c.used
    BY <1>3, <1>6, GrownIsSound DEF GrowsTo
  <1>11. /\ mem' \in Copies /\ mem'.registry = c.registry /\ mem'.reach = n /\ mem'.used = c.used
         /\ mem'.events = c.events
    <2>1. n \in 0..MaxBlock
      BY <1>4
    <2> QED BY <1>2, <1>10, <2>1 DEF Copies
  <1>12. excused \subseteq excused' /\ excused' \subseteq Legs
    BY <1>1, <1>3
  \* The heart of it: what the checkpoint steps over is credited or excused.
  <1>13. ASSUME NEW l \in Legs, Payable(l), Mined(l) <= n
         PROVE  {KeyOf(l), <<l.tx>>} \cap c.used # {} \/ l \in excused'
    <2>1. Mined(l) \in Nat /\ l.tx \in Txs /\ l.agent \in Agents
      BY <1>3, ChainFacts
    <2>2. CASE Mined(l) <= mem.reach
      BY <1>10, <1>12, <1>13, <2>2 DEF Sound
    <2>3. CASE Mined(l) > mem.reach /\ epoch.broken
      <3>1. credited = {}
        BY <1>3, <1>5, <2>3 DEF EvidenceIInv, ScanIsSound
      <3>2. canary \in {"unavailable", "failed"}
        BY <1>7, <2>3, <3>1 DEF Canary
      <3>3. canary # "failed"
        BY <1>2, <1>4, <1>13, <2>1, <2>3 DEF CheckpointAfter
      <3>4. Mined(l) \in (mem.reach + 1)..epoch.to
        BY <1>4, <1>13, <2>1, <2>3
      <3> QED BY <1>1, <2>3, <3>2, <3>3, <3>4
    <2>4. CASE Mined(l) > mem.reach /\ ~epoch.broken
      <3>1. l \in epoch.plan \/ {KeyOf(l), <<l.tx>>} \cap mem.used # {}
        BY <1>3, <1>4, <1>13, <2>1, <2>4 DEF EvidenceIInv, PlanIsComplete
      <3>2. canary # "failed"
        BY <1>2, <1>4, <1>13, <2>1, <2>4 DEF CheckpointAfter
      <3>3. l \notin unresolved
        BY <1>2, <1>4, <1>13, <2>1, <3>2 DEF CheckpointAfter
      <3>4. IsCredited(mem, l) => {KeyOf(l), <<l.tx>>} \cap mem.used # {}
        BY <1>3, <2>1 DEF IsCredited, Sound
      <3> QED BY <1>6, <1>8, <1>10, <3>1, <3>3, <3>4
    <2> QED BY <1>3, <1>4, <2>1, <2>2, <2>3, <2>4
  <1>14. HeldAreSound'
    <2>1. \A d \in {files.state, files.backup} \cap Copies : Sound(d)'
      BY <1>3, <1>4, <1>12, SoundStays DEF EvidenceIInv, HeldAreSound
    <2>2. \A l \in Legs : Payable(l)' = Payable(l) /\ Mined(l)' = Mined(l)
      BY <1>3 DEF Payable, Mined, Registered, Operator
    <2>3. \A l \in Legs : IsCredited(mem, l)' = IsCredited(c, l)
      BY <1>11 DEF IsCredited
    <2>4. mem'.reach <= head
      BY <1>4, <1>11
    <2>5. Sound(mem)'
      BY <1>3, <1>10, <1>11, <1>13, <2>2, <2>3, <2>4 DEF Sound
    <2> QED BY <1>3, <2>1, <2>5 DEF HeldAreSound, Sound, IsCredited
  <1>15. epoch'.phase = "scored" /\ epoch'.plan = {}
         /\ epoch' \in [phase : Phases, to : 0..head, plan : SUBSET Legs, broken : BOOLEAN]
    <2>1. epoch' = [phase |-> "scored", to |-> 0, plan |-> {}, broken |-> FALSE]
      BY <1>3 DEF Idle
    <2>2. 0 \in 0..head
      BY <1>4
    <2> QED BY <2>1, <2>2 DEF Phases
  <1>16. Shapes'
    <2>1. faults' \in 0..MaxFaults
      BY <1>1, EvidenceAssumption DEF EvidenceIInv, Shapes, EvidenceAssumption
    <2> QED BY <1>3, <1>11, <1>12, <1>15, <2>1 DEF EvidenceIInv, Shapes
  <1>17. PlanIsComplete' /\ ScanIsSound'
    BY <1>3, <1>15 DEF PlanIsComplete, ScanIsSound
  <1>18. (up => Keeps(mem))'
    <2> SUFFICES ASSUME NEW l \in Legs
                 PROVE  Rank[acked[l]] <= Rank[c.events[l]]
      BY <1>3, <1>11 DEF Keeps
    <2>1. Rank[acked[l]] \in Nat /\ Rank[mem.events[l]] \in Nat /\ Rank[c.events[l]] \in Nat
      BY <1>3, <1>10, RankFacts, CopyParts DEF EvidenceIInv, Shapes
    <2> QED BY <1>3, <1>6, <2>1 DEF Keeps, GrowsTo
  <1>19. FilesAreSound'
    BY <1>3 DEF EvidenceIInv, Keeps, FilesAreSound, DiskKeeps
  <1> QED BY <1>14, <1>16, <1>17, <1>18, <1>19 DEF EvidenceIInv

------------------------------------------------------------------------------
(* The theorems.                                                           *)

LEMMA EvidenceIInvInit == Init => EvidenceIInv
  <1> SUFFICES ASSUME Init
               PROVE  EvidenceIInv
    OBVIOUS
  <1>1. PICK old \in {{}, {t \in Txs : chain.mined[t] = 1}} :
            files = [state |-> IF old = {} THEN NoFile ELSE
                        [Empty EXCEPT !.registry = 1, !.reach = 1, !.used = {<<t>> : t \in old}],
                     backup |-> NoFile]
    BY DEF Init
  <1> DEFINE first == [Empty EXCEPT !.registry = 1, !.reach = 1, !.used = {<<t>> : t \in old}]
  <1>2. /\ head = 1 /\ chain \in Histories /\ up = FALSE /\ mem = Empty /\ seen = 0 /\ epoch = Idle
        /\ recovering = FALSE /\ acked = [l \in Legs |-> "absent"] /\ excused = {} /\ faults = 0
        /\ head \in 1..MaxBlock /\ head \in Nat /\ 0 \in 0..MaxFaults
    BY EvidenceAssumption DEF Init, EvidenceAssumption
  <1>3. Empty \in Copies /\ Sound(Empty)
    BY <1>2, EmptyIsSound
  <1>4. /\ first \in Copies /\ first.registry = 1 /\ first.reach = 1 /\ first.used = {<<t>> : t \in old}
        /\ first.events = [l \in Legs |-> "absent"]
    <2> DEFINE keys == {<<t>> : t \in old}
    <2>1. keys \subseteq Keys
      BY DEF Keys
    <2>2. 1 \in 0..MaxBlock
      BY <1>2
    <2>3. [l \in Legs |-> "absent"] \in [Legs -> Outcomes]
      BY DEF Outcomes
    <2> HIDE DEF keys
    <2>4. first = [Empty EXCEPT !.registry = 1, !.reach = 1, !.used = keys]
      BY DEF keys
    <2>5. Empty.events = [l \in Legs |-> "absent"]
      BY DEF Empty
    <2> HIDE DEF first
    <2>6. /\ first \in Copies /\ first.registry = 1 /\ first.reach = 1 /\ first.used = keys
          /\ first.events = Empty.events
      BY <1>3, <2>1, <2>2, <2>4 DEF Copies
    <2> QED BY <2>5, <2>6 DEF keys
  <1> HIDE DEF first
  <1>5. old # {} => Sound(first)
    <2> SUFFICES ASSUME old = {t \in Txs : chain.mined[t] = 1}
                 PROVE  Sound(first)
      OBVIOUS
    <2>1. \A t \in Txs, a \in Agents : <<t, a>> \notin first.used
      <3>1. \A t, x, a : <<t>> # <<x, a>>
        OBVIOUS
      <3> QED BY <1>4, <3>1
    <2>3. \A l \in Legs : first.events[l] = "absent"
      BY <1>4
    <2>2. ASSUME NEW l \in Legs, Mined(l) <= 1
          PROVE  <<l.tx>> \in first.used
      <3>1. l.tx \in Txs /\ chain.mined[l.tx] = 1
        BY <1>2, <2>2, ChainFacts DEF Mined
      <3> QED BY <1>4, <3>1
    <2>4. \A l \in Legs : Mined(l) <= first.reach => {KeyOf(l), <<l.tx>>} \cap first.used # {}
      BY <1>4, <2>2
    <2>5. first.registry <= head /\ first.reach <= head
      BY <1>2, <1>4
    <2> QED BY <2>1, <2>3, <2>4, <2>5 DEF Sound
  <1>6. files.state = (IF old = {} THEN NoFile ELSE first) /\ files.backup = NoFile
        /\ files \in [state : CopyOrNone, backup : CopyOrNone]
    BY <1>1, <1>4 DEF CopyOrNone, first
  <1>7. Shapes
    <2>1. Idle \in [phase : Phases, to : 0..head, plan : SUBSET Legs, broken : BOOLEAN]
      BY <1>2 DEF Idle, Phases
    <2>2. acked \in [Legs -> Outcomes]
      BY <1>2 DEF Outcomes
    <2>3. seen \in 0..head
      BY <1>2
    <2> QED BY <1>2, <1>3, <1>6, <2>1, <2>2, <2>3 DEF Shapes
  <1>8. HeldAreSound
    BY <1>2, <1>3, <1>5, <1>6, NoCopyAssumption DEF HeldAreSound
  <1>9. PlanIsComplete /\ ScanIsSound
    BY <1>2 DEF PlanIsComplete, ScanIsSound, Idle
  <1>10. FilesAreSound
    <2>1. \A l \in Legs : Rank[acked[l]] = 0
      BY <1>2, RankFacts
    <2>2. Keeps(Empty) /\ Keeps(first)
      BY <1>3, <1>4, <2>1, CopyParts DEF Keeps
    <2> QED BY <1>2, <1>4, <1>6, <2>2 DEF FilesAreSound, DiskKeeps
  <1> QED BY <1>2, <1>7, <1>8, <1>9, <1>10 DEF EvidenceIInv

LEMMA EvidenceIInvStep ==
    ASSUME EvidenceIInv, ~MayDieRecovering, MaxLag <= CONF, [Next]_vars
    PROVE  EvidenceIInv'
  <1>1. CASE NewBlock
    BY <1>1, NewBlockKeeps
  <1>2. CASE Load \/ Dies \/ FileDamaged
    BY <1>2, LoadKeeps, DeathKeeps, DamageKeeps
  <1>3. CASE GetRegisteredAgents \/ RegistryReadFails
    BY <1>3, ListingKeeps, FailedListingKeeps
  <1>4. CASE ReadPayments \/ FinishPaymentScan \/ EndEpoch
    BY <1>4, ReadingKeeps, ScanKeeps, EndKeeps
  <1>5. CASE \E t \in Txs, a \in Agents : AttestStranger(t, a)
    BY <1>5, StrangerKeeps
  <1>6. CASE \E l \in Legs : AttestCredentialed(l) \/ AdmitPayerOutcome(l)
    BY <1>6, CredentialedKeeps, PayerOutcomeKeeps
  <1>7. CASE UNCHANGED vars
    <2>1. \A l \in Legs : Payable(l)' = Payable(l) /\ Mined(l)' = Mined(l)
      BY <1>7 DEF vars, chainVars, Payable, Mined, Registered, Operator
    <2>2. /\ UNCHANGED <<head, chain, up, mem, seen, epoch, files, recovering, acked, excused, faults>>
          /\ head \in Nat
      BY <1>7, EvidenceAssumption DEF vars, chainVars, EvidenceIInv, Shapes, EvidenceAssumption
    <2>3. HeldAreSound'
      BY <2>2, HeldStay
    <2>4. Shapes' /\ (up => Keeps(mem))' /\ FilesAreSound'
      BY <2>2 DEF EvidenceIInv, Shapes, Keeps, FilesAreSound, DiskKeeps
    <2>5. PlanIsComplete'
      BY <2>1, <2>2 DEF EvidenceIInv, PlanIsComplete
    <2>6. ScanIsSound'
      <3>1. \A l \in epoch.plan : l \in Legs
        BY DEF EvidenceIInv, Shapes
      <3> QED BY <2>1, <2>2, <3>1 DEF EvidenceIInv, ScanIsSound
    <2> QED BY <2>3, <2>4, <2>5, <2>6 DEF EvidenceIInv
  <1> QED BY <1>1, <1>2, <1>3, <1>4, <1>5, <1>6, <1>7 DEF Next

\* Whatever is credited, saved, lost, damaged and read again in between, no payment falls between the
\* checkpoint and the replay record, every event is a customer's payment, and what a 200 acknowledged
\* is there whenever the oracle runs (payment-scan.js, store.js, index.js).
THEOREM EvidenceHolds ==
    ~MayDieRecovering /\ MaxLag <= CONF => (Spec => []EvidenceInv)
  <1> SUFFICES ASSUME ~MayDieRecovering /\ MaxLag <= CONF
               PROVE  Spec => []EvidenceInv
    OBVIOUS
  <1>1. EvidenceIInv /\ [Next]_vars => EvidenceIInv'
    BY EvidenceIInvStep
  <1> QED BY <1>1, EvidenceIInvInit, IInvIsEnough, PTL DEF Spec

------------------------------------------------------------------------------
(* What a step never takes back.                                           *)

OnlyGrows(c, d) ==
    \A l \in Legs :
        /\ IsCredited(c, l) => IsCredited(d, l)
        /\ IsCredited(c, l) /\ c.events[l] = "absent" => d.events[l] = "absent"
        /\ d.events[l] # "absent" => Rank[c.events[l]] <= Rank[d.events[l]]
        /\ c.events[l] = "signed" => d.events[l] \in {"signed", "absent"}

LEMMA GrownOnlyGrows ==
    ASSUME NEW c \in Copies, NEW d \in Copies, GrowsTo(c, d)
    PROVE  OnlyGrows(c, d)
  <1> SUFFICES ASSUME NEW l \in Legs
               PROVE  /\ IsCredited(c, l) => IsCredited(d, l)
                      /\ IsCredited(c, l) /\ c.events[l] = "absent" => d.events[l] = "absent"
                      /\ d.events[l] # "absent" => Rank[c.events[l]] <= Rank[d.events[l]]
                      /\ c.events[l] = "signed" => d.events[l] \in {"signed", "absent"}
    BY DEF OnlyGrows
  <1>1. IsCredited(c, l) => IsCredited(d, l)
    BY DEF IsCredited, GrowsTo
  <1>2. d.events[l] \in Outcomes
    BY CopyParts
  <1>3. c.events[l] = "signed" => d.events[l] = "signed"
    BY <1>2, RankFacts DEF GrowsTo, Outcomes
  <1> QED BY <1>1, <1>3 DEF GrowsTo

LEMMA PrunedOnlyGrows ==
    ASSUME NEW c \in Copies, NEW d \in Copies, d.used = c.used,
           \A l \in Legs : d.events[l] \in {c.events[l], "absent"}
    PROVE  OnlyGrows(c, d)
  BY CopyParts DEF OnlyGrows, IsCredited

\* What a save leaves in a process that survives it.
LEMMA SavedMemory ==
    ASSUME NEW c, NEW e, NEW r \in Saves, PersistState(c, e, r), up'
    PROVE  mem' = c
  BY DEF PersistState

LEMMA StepOnlyGrows ==
    ASSUME EvidenceIInv, [Next]_vars, up, up'
    PROVE  OnlyGrows(mem, mem')
  <1>1. mem \in Copies /\ Sound(mem)
    BY DEF EvidenceIInv, Shapes, HeldAreSound
  <1>2. ASSUME UNCHANGED mem
        PROVE  OnlyGrows(mem, mem')
    BY <1>1, <1>2, PrunedOnlyGrows
  <1>3. CASE NewBlock \/ Load \/ Dies \/ FileDamaged \/ GetRegisteredAgents \/ ReadPayments \/ UNCHANGED vars
    BY <1>2, <1>3 DEF NewBlock, Load, Dies, FileDamaged, GetRegisteredAgents, ReadPayments, vars
  <1>4. CASE RegistryReadFails
    <2>1. PICK reached \in seen..(head - 1), r \in Saves :
              PersistState([mem EXCEPT !.registry = reached], Idle, r)
      BY <1>4 DEF RegistryReadFails
    <2>2. seen \in 0..head /\ head \in 1..MaxBlock /\ MaxBlock \in Nat
      BY EvidenceAssumption DEF EvidenceIInv, Shapes, EvidenceAssumption
    <2>3. reached \in 0..MaxBlock
      BY <2>2
    <2>4. mem' = [mem EXCEPT !.registry = reached]
      BY <2>1, SavedMemory
    <2>5. mem' \in Copies /\ mem'.used = mem.used /\ mem'.events = mem.events
      BY <1>1, <2>3, <2>4 DEF Copies
    <2> QED BY <1>1, <2>5, PrunedOnlyGrows
  <1>5. CASE FinishPaymentScan
    <2>1. PICK blocks \in SUBSET {Mined(l) : l \in epoch.plan}, n \in mem.reach..epoch.to :
              mem' = [CreditPayments(mem, {l \in epoch.plan \ {k \in epoch.plan : Mined(k) \in blocks} :
                                               ~IsCredited(mem, l)}, {}) EXCEPT !.reach = n]
      BY <1>5 DEF FinishPaymentScan
    <2> DEFINE credited == {l \in epoch.plan \ {k \in epoch.plan : Mined(k) \in blocks} :
                                ~IsCredited(mem, l)}
               c == CreditPayments(mem, credited, {})
    <2>2. credited \in SUBSET Legs /\ \A l \in credited : Payable(l)
      BY DEF EvidenceIInv, Shapes, ScanIsSound
    <2>3. mem' = [c EXCEPT !.reach = n]
      BY <2>1
    <2> HIDE DEF credited
    <2>4. GrowsTo(mem, c) /\ c \in Copies
      <3>1. GrowsTo(mem, c)
        BY <1>1, <2>2, CreditGrows
      <3> QED BY <3>1 DEF GrowsTo
    <2> HIDE DEF c
    <2>5. n \in 0..MaxBlock
      <3>1. epoch.to \in 0..head /\ head \in 1..MaxBlock /\ MaxBlock \in Nat /\ mem.reach \in Nat
        BY <1>1, CopyParts, EvidenceAssumption DEF EvidenceIInv, Shapes, EvidenceAssumption
      <3> QED BY <3>1
    <2>6. mem' \in Copies /\ mem'.used = c.used /\ mem'.events = c.events
      BY <2>3, <2>4, <2>5 DEF Copies
    <2>7. OnlyGrows(mem, c)
      BY <1>1, <2>4, GrownOnlyGrows
    <2> QED BY <2>6, <2>7 DEF OnlyGrows, IsCredited
  <1>6. CASE EndEpoch
    <2> DEFINE listed == [mem EXCEPT !.registry = seen]
    <2>1. PICK r \in Saves : PersistState(PruneEvents(listed), Idle, r)
      BY <1>6 DEF EndEpoch
    <2>2. seen \in 0..MaxBlock
      <3>1. seen \in 0..head /\ head \in 1..MaxBlock /\ MaxBlock \in Nat
        BY EvidenceAssumption DEF EvidenceIInv, Shapes, EvidenceAssumption
      <3> QED BY <3>1
    <2>3. listed \in Copies /\ listed.used = mem.used /\ listed.events = mem.events
      BY <1>1, <2>2 DEF Copies
    <2>4. mem' = PruneEvents(listed)
      BY <2>1, SavedMemory
    <2> HIDE DEF listed
    <2> QED BY <1>1, <2>3, <2>4, PruneDoes, PrunedOnlyGrows
  <1>7. ASSUME NEW t \in Txs, NEW a \in Agents, AttestStranger(t, a)
        PROVE  OnlyGrows(mem, mem')
    <2> DEFINE c == CreditPayments(mem, PaidLegs(t, a), {})
    <2>1. mem' = c
      BY <1>7, SavedMemory DEF AttestStranger
    <2>2. GrowsTo(mem, c)
      BY <1>1, CreditGrows, PaidLegsArePayable
    <2> HIDE DEF c
    <2>3. c \in Copies
      BY <2>2 DEF GrowsTo
    <2> QED BY <1>1, <2>1, <2>2, <2>3, GrownOnlyGrows
  <1>8. ASSUME NEW l \in Legs, AttestCredentialed(l)
        PROVE  OnlyGrows(mem, mem')
    <2> DEFINE d == CreditPayments(mem, PaidLegs(l.tx, l.agent), {l})
               c == SetPaymentOutcome(d, l)
    <2>1. mem' = c
      BY <1>8, SavedMemory DEF AttestCredentialed
    <2>2. GrowsTo(mem, d)
      BY <1>1, CreditGrows, PaidLegsArePayable
    <2> HIDE DEF d
    <2>3. d \in Copies
      BY <2>2 DEF GrowsTo
    <2>4. GrowsTo(mem, c)
      BY <1>1, <2>2, <2>3, SettingGrows
    <2> HIDE DEF c
    <2>5. c \in Copies
      BY <2>4 DEF GrowsTo
    <2> QED BY <1>1, <2>1, <2>4, <2>5, GrownOnlyGrows
  <1>9. ASSUME NEW l \in Legs, AdmitPayerOutcome(l)
        PROVE  OnlyGrows(mem, mem')
    <2> DEFINE paid == PaidLegs(l.tx, l.agent)
               d == CreditPayments(mem, paid, {})
               c == RecordPayerOutcome(d, l, paid = {l})
    <2>1. mem' = c
      BY <1>9, SavedMemory DEF AdmitPayerOutcome
    <2>2. GrowsTo(mem, d)
      BY <1>1, CreditGrows, PaidLegsArePayable
    <2> HIDE DEF d
    <2>3. d \in Copies
      BY <2>2 DEF GrowsTo
    <2>4. GrowsTo(mem, c)
      BY <1>1, <2>2, <2>3, RecordingGrows
    <2> HIDE DEF c
    <2>5. c \in Copies
      BY <2>4 DEF GrowsTo
    <2> QED BY <1>1, <2>1, <2>4, <2>5, GrownOnlyGrows
  <1> QED BY <1>3, <1>4, <1>5, <1>6, <1>7, <1>8, <1>9 DEF Next

\* A payment credited once is never credited again by the same process, even after its event was pruned,
\* and an outcome is never taken back or weakened while the event is held (creditPayments,
\* setPaymentOutcome, recordPayerOutcome, pruneEvents).
THEOREM NothingIsTakenBack ==
    ~MayDieRecovering /\ MaxLag <= CONF => (Spec => EvidenceOnlyGrows)
  <1> SUFFICES ASSUME ~MayDieRecovering /\ MaxLag <= CONF
               PROVE  Spec => EvidenceOnlyGrows
    OBVIOUS
  <1> DEFINE Step == up /\ up' => OnlyGrows(mem, mem')
  <1>1. EvidenceIInv /\ [Next]_vars => EvidenceIInv' /\ [Step]_vars
    BY EvidenceIInvStep, StepOnlyGrows
  <1>2. [Step]_vars =>
            [up /\ up' => \A l \in Legs :
                /\ IsCredited(mem, l) => IsCredited(mem, l)'
                /\ IsCredited(mem, l) /\ mem.events[l] = "absent" => mem'.events[l] = "absent"
                /\ mem'.events[l] # "absent" => Rank[mem.events[l]] <= Rank[mem'.events[l]]
                /\ mem.events[l] = "signed" => mem'.events[l] \in {"signed", "absent"}]_vars
    BY DEF OnlyGrows, IsCredited
  <1> HIDE DEF Step
  <1> QED BY <1>1, <1>2, EvidenceIInvInit, PTL DEF Spec, EvidenceOnlyGrows

------------------------------------------------------------------------------
(* The import of outcomes: the invariant.                                  *)

NotSigned == [source : {"none", "credentialed"}, checkedAt : {0}, signedAt : {0}, acceptedAt : {0}]
Signed == [source : {"payer"}, checkedAt : Int, signedAt : Nat, acceptedAt : Nat \ {0}]
HeldOutcomes == [Operators -> [Payments -> NotSigned \cup Signed]]
Reasons == {"import_late", "outcome_recorded", "stalled"}

OutcomesTypes ==
    /\ now \in Nat /\ signed \subseteq [leg : Payments, at : Nat]
    /\ events \in HeldOutcomes /\ saved \in HeldOutcomes
    /\ imports \in [Operators -> [cursor : Nat, stalls : Int]]
    /\ down \subseteq Operators
    /\ refusals \in [Operators -> [Payments -> SUBSET Reasons]]

\* What an operator holds was signed and checked in time, and the file holds no other payer's outcome.
OutcomesAreTimely ==
    \A o \in Operators, l \in Payments :
        /\ HasPayerOutcome(o, l) =>
            LET s == [leg |-> l, at |-> events[o][l].signedAt]
                checkedAt == events[o][l].checkedAt
            IN  ~Early(s) /\ checkedAt >= Settled[l] /\ ~BeforeSigned(s, checkedAt) /\ ~Expired(s, checkedAt)
        /\ ByPayer(saved[o][l]) => saved[o][l] = events[o][l]

PayerLegs(o) == {l \in Payments : HasPayerOutcome(o, l)}

\* No two outcomes have one time of taking, and the times run ahead of the clock by no more than
\* outcomes are held, so that a unit of time later they are behind it.
TakenInOrder ==
    \A o \in Operators :
        /\ \A l, k \in PayerLegs(o) : events[o][l].acceptedAt = events[o][k].acceptedAt => l = k
        /\ \A l \in Payments : events[o][l].acceptedAt < Clock(o) + Fine
        /\ o \notin down => \A l \in Payments : events[o][l].acceptedAt <= Clock(o) + Cardinality(PayerLegs(o))

\* A cursor is behind whatever the peer takes next: behind its clock, or behind what it holds, or
\* it points at what the peer lost when it died, and will be behind when the peer's next unit begins.
CursorIsBehind(c, p) ==
    \/ c = 0 \/ c < Clock(p)
    \/ \E l \in Payments : c <= events[p][l].acceptedAt
    \/ p \in down /\ c < Clock(p) + Fine

OutcomesIInv ==
    /\ OutcomesTypes /\ OutcomesAreTimely /\ TakenInOrder
    /\ \A o \in Operators : CursorIsBehind(imports[o].cursor, Other(o))
    /\ ImportsMissNothing
------------------------------------------------------------------------------
(* Numbers.                                                                *)

LEMMA LeastNumber ==
    ASSUME NEW T, T \subseteq Nat, T # {}
    PROVE  \E i \in T : \A j \in T : i <= j
  <1> DEFINE R == OpToRel(<, Nat)
  <1>1. IsWellFoundedOn(R, Nat)
    BY NatLessThanWellFounded
  <1>2. \A i, j \in Nat : j < i => <<j, i>> \in R
    BY DEF OpToRel
  <1> HIDE DEF R
  <1>3. PICK i \in T : \A j \in T : ~(<<j, i>> \in R)
    BY <1>1, WFMin
  <1>4. \A j \in T : i \in Nat /\ j \in Nat /\ ~(j < i)
    BY <1>2, <1>3
  <1> QED BY <1>4

\* What is bounded has a greatest element, which Max is.
LEMMA MaxOfBounded ==
    ASSUME NEW S, S \subseteq Nat, S # {}, NEW b \in Nat, \A x \in S : x <= b
    PROVE  Max(S) \in S /\ \A y \in S : Max(S) >= y
  <1> DEFINE T == {b - x : x \in S}
  <1>1. T \subseteq Nat /\ T # {}
    <2>1. \A x \in S : b - x \in Nat
      OBVIOUS
    <2> QED BY <2>1
  <1>2. PICK i \in T : \A j \in T : i <= j
    BY <1>1, LeastNumber
  <1>3. PICK x \in S : i = b - x
    OBVIOUS
  <1>4. ASSUME NEW y \in S PROVE x >= y
    <2>1. b - y \in T
      OBVIOUS
    <2>2. b - x <= b - y
      BY <1>2, <1>3, <2>1
    <2> QED BY <2>2
  <1>5. \E z \in S : \A y \in S : z >= y
    BY <1>4
  <1> QED BY <1>5 DEF Max

LEMMA OutcomesNumbers ==
    /\ {HeadLag, Window, Lifetime, ImportGrace, CheckLag, MaxFuture, MaxStalls, MaxTime} \subseteq Nat
    /\ Fine \in Nat /\ Fine > 0 /\ IsFiniteSet(Payments) /\ Cardinality(Payments) \in Nat
    /\ Fine = Cardinality(Payments) + 1
    /\ \A l \in Payments : Settled[l] \in Nat
    /\ \A o \in Operators : Ahead[o] \in Nat
  <1>1. Settled \in [Payments -> 0..MaxTime] /\ MaxTime \in Nat
    BY OutcomesAssumption
  <1>2. \A l \in Payments : Settled[l] \in Nat
    BY <1>1
  <1>3. Cardinality(Payments) \in Nat
    BY OutcomesAssumption, FS_CardinalityType
  <1> QED BY <1>2, <1>3, OutcomesAssumption DEF Fine

\* An operator has another to import from.
LEMMA OtherIsAnother ==
    ASSUME NEW o \in Operators
    PROVE  Other(o) \in Operators /\ Other(o) # o
  BY OutcomesAssumption DEF Other

LEMMA ClocksGoByFine ==
    /\ \A a, b \in Nat : (a + b) * Fine \in Nat
    /\ \A a, b \in Nat : ((a + 1) + b) * Fine = (a + b) * Fine + Fine
  <1>1. ASSUME NEW f \in Nat, NEW a \in Nat, NEW b \in Nat
        PROVE  (a + b) * f \in Nat /\ ((a + 1) + b) * f = (a + b) * f + f
    OBVIOUS
  <1> QED BY <1>1, OutcomesNumbers

LEMMA ClockIsANumber ==
    ASSUME OutcomesTypes, NEW o \in Operators
    PROVE  Clock(o) \in Nat
  BY ClocksGoByFine, OutcomesNumbers DEF Clock, OutcomesTypes

LEMMA HeldFields ==
    ASSUME NEW e \in NotSigned \cup Signed
    PROVE  /\ e.acceptedAt \in Nat /\ e.source \in {"none", "credentialed", "payer"}
           /\ e.signedAt \in Nat /\ e.checkedAt \in Int
           /\ ByPayer(e) <=> e \in Signed
           /\ ByPayer(e) => e.acceptedAt > 0
           /\ ~ByPayer(e) => e.acceptedAt = 0
  BY DEF NotSigned, Signed, ByPayer

LEMMA HeldIsTyped ==
    ASSUME OutcomesTypes, NEW o \in Operators, NEW l \in Payments
    PROVE  events[o][l] \in NotSigned \cup Signed /\ saved[o][l] \in NotSigned \cup Signed
  BY DEF OutcomesTypes, HeldOutcomes

\* The time of taking that is next is after every other's, and not before the clock.
LEMMA NextIsLater ==
    ASSUME OutcomesTypes, TakenInOrder, NEW o \in Operators, NEW m \in Payments
    PROVE  /\ NextAcceptedAt(o) \in Nat \ {0} /\ NextAcceptedAt(o) >= Clock(o)
           /\ \A l \in Payments : events[o][l].acceptedAt < NextAcceptedAt(o)
           /\ \/ NextAcceptedAt(o) = Clock(o)
              \/ \E l \in Payments : NextAcceptedAt(o) = events[o][l].acceptedAt + 1
  <1> DEFINE S == {events[o][l].acceptedAt : l \in Payments}
             N == {Clock(o), LastAcceptedAt(o) + 1}
             b == Clock(o) + Fine
  <1>1. \A l \in Payments : events[o][l].acceptedAt \in Nat
    BY HeldIsTyped, HeldFields
  <1>2. Clock(o) \in Nat /\ b \in Nat
    BY ClockIsANumber, OutcomesNumbers
  <1>3. \A l \in Payments : events[o][l].acceptedAt <= b
    BY <1>1, <1>2 DEF TakenInOrder
  <1> HIDE DEF b
  <1>4. S \subseteq Nat /\ S # {} /\ \A x \in S : x <= b
    BY <1>1, <1>3
  <1>5. LastAcceptedAt(o) \in S /\ \A y \in S : LastAcceptedAt(o) >= y
    BY <1>2, <1>4, MaxOfBounded DEF LastAcceptedAt
  <1>6. LastAcceptedAt(o) \in Nat
    BY <1>4, <1>5
  <1>7. Max(N) \in N /\ \A y \in N : Max(N) >= y
    <2>1. N \subseteq Nat /\ N # {}
      BY <1>2, <1>6
    <2>2. Clock(o) + LastAcceptedAt(o) + 1 \in Nat /\ \A x \in N : x <= Clock(o) + LastAcceptedAt(o) + 1
      BY <1>2, <1>6
    <2> QED BY <2>1, <2>2, MaxOfBounded
  <1>8. NextAcceptedAt(o) = Max(N)
    BY DEF NextAcceptedAt
  <1>9. /\ NextAcceptedAt(o) \in {Clock(o), LastAcceptedAt(o) + 1} /\ NextAcceptedAt(o) >= Clock(o)
        /\ NextAcceptedAt(o) >= LastAcceptedAt(o) + 1
    BY <1>7, <1>8
  <1>10. PICK k \in Payments : LastAcceptedAt(o) = events[o][k].acceptedAt
    BY <1>5
  <1>11. \A l \in Payments : LastAcceptedAt(o) >= events[o][l].acceptedAt
    BY <1>5
  <1> HIDE DEF S, N
  <1>12. NextAcceptedAt(o) \in Nat \ {0}
    BY <1>2, <1>6, <1>9
  <1>13. \A l \in Payments : events[o][l].acceptedAt < NextAcceptedAt(o)
    BY <1>1, <1>6, <1>9, <1>11, <1>12
  <1> QED BY <1>9, <1>10, <1>12, <1>13

------------------------------------------------------------------------------
(* Taking an outcome.                                                      *)

Timely(l, e) ==
    LET s == [leg |-> l, at |-> e.signedAt]
    IN  ~Early(s) /\ e.checkedAt >= Settled[l] /\ ~BeforeSigned(s, e.checkedAt) /\ ~Expired(s, e.checkedAt)

\* An operator takes an outcome it did not have, as the latest.
Takes(o, l, e) ==
    /\ o \in Operators \ down /\ l \in Payments /\ ~HasPayerOutcome(o, l)
    /\ e \in Signed /\ e.acceptedAt = NextAcceptedAt(o) /\ Timely(l, e)
    /\ events' = [events EXCEPT ![o] = [events[o] EXCEPT ![l] = e]]
    /\ UNCHANGED <<now, down>>

LEMMA TakenAlone ==
    ASSUME OutcomesTypes, NEW o, NEW l, NEW e, Takes(o, l, e)
    PROVE  /\ events' \in HeldOutcomes /\ events'[o][l] = e
           /\ \A q \in Operators, k \in Payments : q # o \/ k # l => events'[q][k] = events[q][k]
           /\ \A q \in Operators : Clock(q)' = Clock(q)
  BY DEF Takes, OutcomesTypes, HeldOutcomes, Clock

LEMMA TakingIsInOrder ==
    ASSUME OutcomesTypes, TakenInOrder, NEW o, NEW l, NEW e, Takes(o, l, e)
    PROVE  TakenInOrder'
  <1>1. /\ o \in Operators \ down /\ l \in Payments /\ ~HasPayerOutcome(o, l) /\ e \in Signed
        /\ e.acceptedAt = NextAcceptedAt(o) /\ down' = down
    BY DEF Takes
  <1>2. /\ events'[o][l] = e
        /\ \A q \in Operators, k \in Payments : q # o \/ k # l => events'[q][k] = events[q][k]
        /\ \A q \in Operators : Clock(q)' = Clock(q)
    BY TakenAlone
  <1>3. \A q \in Operators : Clock(q) \in Nat
    BY ClockIsANumber
  <1>4. \A q \in Operators, k \in Payments : events[q][k].acceptedAt \in Nat
    BY HeldIsTyped, HeldFields
  <1>5. /\ NextAcceptedAt(o) \in Nat
        /\ \A k \in Payments : events[o][k].acceptedAt < NextAcceptedAt(o)
        /\ \/ NextAcceptedAt(o) = Clock(o)
           \/ \E k \in Payments : NextAcceptedAt(o) = events[o][k].acceptedAt + 1
    BY <1>1, NextIsLater
  <1>6. /\ \A q \in Operators : q # o => PayerLegs(q)' = PayerLegs(q)
        /\ PayerLegs(o)' = PayerLegs(o) \cup {l} /\ l \notin PayerLegs(o)
    <2>1. \A q \in Operators : q # o => PayerLegs(q)' = PayerLegs(q)
      BY <1>2 DEF PayerLegs, HasPayerOutcome
    <2>2. ByPayer(e)
      BY <1>1, HeldFields
    <2>3. HasPayerOutcome(o, l)'
      BY <1>2, <2>2 DEF HasPayerOutcome, ByPayer
    <2>4. \A k \in Payments \ {l} : HasPayerOutcome(o, k)' <=> HasPayerOutcome(o, k)
      BY <1>1, <1>2 DEF HasPayerOutcome, ByPayer
    <2>5. PayerLegs(o)' = PayerLegs(o) \cup {l}
      BY <1>1, <2>3, <2>4 DEF PayerLegs
    <2> QED BY <1>1, <2>1, <2>5 DEF PayerLegs
  <1>7. /\ Cardinality(PayerLegs(o)) \in Nat
        /\ Cardinality(PayerLegs(o))' = Cardinality(PayerLegs(o)) + 1
        /\ Cardinality(PayerLegs(o))' <= Cardinality(Payments)
    <2>1. PayerLegs(o) \subseteq Payments /\ PayerLegs(o)' \subseteq Payments
      BY <1>1, <1>6 DEF PayerLegs
    <2>2. IsFiniteSet(PayerLegs(o))
      BY <2>1, FS_Subset, OutcomesNumbers
    <2>3. Cardinality(PayerLegs(o) \cup {l}) = Cardinality(PayerLegs(o)) + 1
      BY <1>6, <2>2, FS_AddElement
    <2> QED BY <1>6, <2>1, <2>2, <2>3, FS_CardinalityType, FS_Subset, OutcomesNumbers
  <1>8. \A q \in Operators : \A k, m \in PayerLegs(q) :
            events[q][k].acceptedAt = events[q][m].acceptedAt => k = m
    BY DEF TakenInOrder
  <1>9. e.acceptedAt <= Clock(o) + Cardinality(PayerLegs(o))'
    <2>1. \A k \in Payments : events[o][k].acceptedAt <= Clock(o) + Cardinality(PayerLegs(o))
      BY <1>1 DEF TakenInOrder
    <2>2. NextAcceptedAt(o) <= Clock(o) + (Cardinality(PayerLegs(o)) + 1)
      BY <1>1, <1>3, <1>4, <1>5, <1>7, <2>1
    <2> QED BY <1>1, <1>7, <2>2
  <1>10. ASSUME NEW q \in Operators, NEW k \in PayerLegs(q)', NEW m \in PayerLegs(q)',
                events'[q][k].acceptedAt = events'[q][m].acceptedAt
         PROVE  k = m
    <2>0. PayerLegs(q)' \subseteq Payments
      BY DEF PayerLegs
    <2>1. CASE q # o
      BY <1>2, <1>6, <1>8, <1>10, <2>0, <2>1
    <2>2. CASE q = o /\ k # l /\ m # l
      BY <1>2, <1>6, <1>8, <1>10, <2>0, <2>2
    <2>3. CASE q = o /\ (k = l \/ m = l)
      <3>1. SUFFICES ASSUME k # m PROVE FALSE
        OBVIOUS
      <3>2. PICK j \in Payments : j # l /\ events'[o][j].acceptedAt = events'[o][l].acceptedAt
        BY <1>10, <2>0, <2>3, <3>1
      <3>3. events[o][j].acceptedAt = NextAcceptedAt(o)
        BY <1>1, <1>2, <3>2
      <3> QED BY <1>1, <1>4, <1>5, <3>3
    <2> QED BY <2>1, <2>2, <2>3
  <1>11. ASSUME NEW q \in Operators, NEW k \in Payments
         PROVE  events'[q][k].acceptedAt < Clock(q) + Fine
    <2>1. CASE q = o /\ k = l
      <3>1. Clock(o) + Cardinality(PayerLegs(o))' < Clock(o) + Fine
        BY <1>1, <1>3, <1>7, OutcomesNumbers
      <3> QED BY <1>1, <1>2, <1>3, <1>5, <1>7, <1>9, <2>1, <3>1, OutcomesNumbers
    <2>2. CASE q # o \/ k # l
      BY <1>2, <2>2 DEF TakenInOrder
    <2> QED BY <2>1, <2>2
  <1>12. ASSUME NEW q \in Operators \ down, NEW k \in Payments
         PROVE  events'[q][k].acceptedAt <= Clock(q) + Cardinality(PayerLegs(q))'
    <2>1. CASE q = o /\ k = l
      BY <1>2, <1>9, <2>1
    <2>2. CASE q = o /\ k # l
      <3>1. events[o][k].acceptedAt <= Clock(o) + Cardinality(PayerLegs(o))
        BY <1>1 DEF TakenInOrder
      <3> QED BY <1>1, <1>2, <1>3, <1>4, <1>7, <2>2, <3>1
    <2>3. CASE q # o
      BY <1>2, <1>6, <2>3 DEF TakenInOrder
    <2> QED BY <2>1, <2>2, <2>3
  <1> QED BY <1>1, <1>2, <1>10, <1>11, <1>12 DEF TakenInOrder

\* A cursor that was behind is behind what is taken, and stays so.
LEMMA TakingIsAhead ==
    ASSUME OutcomesTypes, TakenInOrder, NEW o, NEW l, NEW e, Takes(o, l, e), NEW c \in Nat, NEW p \in Operators,
           CursorIsBehind(c, p)
    PROVE  CursorIsBehind(c, p)' /\ (p = o => c < e.acceptedAt)
  <1>1. /\ o \in Operators \ down /\ l \in Payments /\ ~HasPayerOutcome(o, l)
        /\ e.acceptedAt = NextAcceptedAt(o) /\ down' = down
    BY DEF Takes
  <1>2. /\ events'[o][l] = e
        /\ \A q \in Operators, k \in Payments : q # o \/ k # l => events'[q][k] = events[q][k]
        /\ Clock(p)' = Clock(p)
    BY TakenAlone
  <1>3. Clock(p) \in Nat /\ Clock(o) \in Nat
    BY <1>1, ClockIsANumber
  <1>4. /\ NextAcceptedAt(o) \in Nat \ {0} /\ NextAcceptedAt(o) >= Clock(o)
        /\ \A k \in Payments : events[o][k].acceptedAt < NextAcceptedAt(o)
    BY <1>1, NextIsLater
  <1>5. \A k \in Payments : events[o][k].acceptedAt \in Nat
    BY <1>1, HeldIsTyped, HeldFields
  <1>6. CursorIsBehind(c, p)'
    <2>1. CASE c = 0 \/ c < Clock(p)
      BY <1>2, <2>1 DEF CursorIsBehind
    <2>2. ASSUME NEW k \in Payments, c <= events[p][k].acceptedAt
          PROVE  CursorIsBehind(c, p)'
      <3>1. CASE p # o \/ k # l
        BY <1>2, <2>2, <3>1 DEF CursorIsBehind
      <3>2. CASE p = o /\ k = l
        <4>1. c <= events'[o][l].acceptedAt
          BY <1>1, <1>2, <1>4, <1>5, <2>2, <3>2
        <4> QED BY <1>1, <3>2, <4>1 DEF CursorIsBehind
      <3> QED BY <3>1, <3>2
    <2>3. CASE p \in down /\ c < Clock(p) + Fine
      BY <1>1, <1>2, <2>3 DEF CursorIsBehind
    <2> QED BY <2>1, <2>2, <2>3 DEF CursorIsBehind
  <1>7. ASSUME p = o PROVE c < e.acceptedAt
    BY <1>1, <1>3, <1>4, <1>5, <1>7 DEF CursorIsBehind
  <1> QED BY <1>6, <1>7

LEMMA TakenIsTimely ==
    ASSUME OutcomesTypes, OutcomesAreTimely, NEW o, NEW l, NEW e, Takes(o, l, e),
           \A q \in Operators, k \in Payments : saved'[q][k] = saved[q][k] \/ saved'[q][k] = events'[q][k]
    PROVE  OutcomesAreTimely'
  <1>1. /\ o \in Operators /\ l \in Payments /\ ~HasPayerOutcome(o, l) /\ Timely(l, e)
    BY DEF Takes
  <1>2. /\ events'[o][l] = e
        /\ \A q \in Operators, k \in Payments : q # o \/ k # l => events'[q][k] = events[q][k]
    BY TakenAlone
  <1>3. ASSUME NEW q \in Operators, NEW k \in Payments, HasPayerOutcome(q, k)'
        PROVE  Timely(k, events'[q][k])
    <2>1. CASE q = o /\ k = l
      BY <1>1, <1>2, <2>1
    <2>2. CASE q # o \/ k # l
      BY <1>2, <1>3, <2>2 DEF OutcomesAreTimely, Timely, HasPayerOutcome
    <2> QED BY <2>1, <2>2
  <1>4. ASSUME NEW q \in Operators, NEW k \in Payments, ByPayer(saved'[q][k])
        PROVE  saved'[q][k] = events'[q][k]
    <2>1. CASE saved'[q][k] = saved[q][k]
      <3>1. ByPayer(saved[q][k]) /\ saved[q][k] = events[q][k] /\ HasPayerOutcome(q, k)
        BY <1>4, <2>1 DEF OutcomesAreTimely, HasPayerOutcome
      <3> QED BY <1>1, <1>2, <2>1, <3>1
    <2> QED BY <2>1
  <1> QED BY <1>3, <1>4 DEF OutcomesAreTimely, Timely, HasPayerOutcome, ByPayer, Early, BeforeSigned, Expired

\* What a step may do to what is held, but for a death and a credentialed outcome.
Grows == (\E o, l, e : Takes(o, l, e)) \/ UNCHANGED <<events, now, down>>

LEMMA GrowingKeeps ==
    ASSUME OutcomesIInv, Grows
    PROVE  /\ events' \in HeldOutcomes /\ TakenInOrder'
           /\ \A p \in Operators, k \in Payments : HasPayerOutcome(p, k) =>
                    events'[p][k] = events[p][k] /\ HasPayerOutcome(p, k)'
           /\ \A c \in Nat, p \in Operators : CursorIsBehind(c, p) =>
                    /\ CursorIsBehind(c, p)'
                    /\ \A k \in Payments : HasPayerOutcome(p, k)' => HasPayerOutcome(p, k) \/ c < events'[p][k].acceptedAt
  <1>1. OutcomesTypes /\ TakenInOrder
    BY DEF OutcomesIInv
  <1>2. CASE \E o, l, e : Takes(o, l, e)
    <2>1. PICK o, l, e : Takes(o, l, e)
      BY <1>2
    <2>0. o \in Operators /\ l \in Payments /\ ~HasPayerOutcome(o, l)
      BY <2>1 DEF Takes
    <2>2. /\ events' \in HeldOutcomes /\ events'[o][l] = e
          /\ \A q \in Operators, k \in Payments : q # o \/ k # l => events'[q][k] = events[q][k]
      BY <1>1, <2>1, TakenAlone
    <2>3. TakenInOrder'
      BY <1>1, <2>1, TakingIsInOrder
    <2>4. ASSUME NEW p \in Operators, NEW k \in Payments, HasPayerOutcome(p, k)
          PROVE  events'[p][k] = events[p][k] /\ HasPayerOutcome(p, k)'
      BY <2>0, <2>2, <2>4 DEF HasPayerOutcome, ByPayer
    <2>5. ASSUME NEW c \in Nat, NEW p \in Operators, CursorIsBehind(c, p)
          PROVE  CursorIsBehind(c, p)' /\ (p = o => c < e.acceptedAt)
      BY <1>1, <2>1, <2>5, TakingIsAhead
    <2>6. ASSUME NEW c \in Nat, NEW p \in Operators, CursorIsBehind(c, p),
                 NEW k \in Payments, HasPayerOutcome(p, k)'
          PROVE  HasPayerOutcome(p, k) \/ c < events'[p][k].acceptedAt
      BY <2>0, <2>2, <2>5, <2>6 DEF HasPayerOutcome, ByPayer
    <2> QED BY <2>2, <2>3, <2>4, <2>5, <2>6
  <1>3. CASE UNCHANGED <<events, now, down>>
    <2>1. events' \in HeldOutcomes /\ TakenInOrder'
      BY <1>1, <1>3 DEF OutcomesTypes, TakenInOrder, PayerLegs, HasPayerOutcome, Clock
    <2>2. \A c \in Nat, p \in Operators : CursorIsBehind(c, p) => CursorIsBehind(c, p)'
      BY <1>3 DEF CursorIsBehind, Clock
    <2> QED BY <1>3, <2>1, <2>2 DEF HasPayerOutcome, ByPayer
  <1> QED BY <1>2, <1>3 DEF Grows

\* What no import has passed over stays so, whatever else an operator does.
LEMMA NothingIsPassed ==
    ASSUME OutcomesIInv, Grows, NEW o \in Operators, NEW l \in Payments,
           refusals[o][l] \subseteq refusals'[o][l],
           HasPayerOutcome(Other(o), l)', events'[Other(o)][l].acceptedAt <= imports[o].cursor
    PROVE  HasPayerOutcome(o, l)' \/ refusals'[o][l] # {}
  <1>1. imports[o].cursor \in Nat /\ Other(o) \in Operators
    BY OtherIsAnother DEF OutcomesIInv, OutcomesTypes
  <1>2. CursorIsBehind(imports[o].cursor, Other(o))
    BY DEF OutcomesIInv
  <1>3. HasPayerOutcome(Other(o), l) \/ imports[o].cursor < events'[Other(o)][l].acceptedAt
    BY <1>1, <1>2, GrowingKeeps
  <1>4. events'[Other(o)][l].acceptedAt \in Nat
    BY <1>1, GrowingKeeps, HeldFields DEF HeldOutcomes
  <1>5. HasPayerOutcome(Other(o), l) /\ events'[Other(o)][l] = events[Other(o)][l]
    BY <1>1, <1>3, <1>4, GrowingKeeps
  <1>6. HasPayerOutcome(o, l) \/ refusals[o][l] # {}
    BY <1>5 DEF OutcomesIInv, ImportsMissNothing, HasPayerOutcome
  <1> QED BY <1>6, GrowingKeeps

\* A step that leaves imports and refusals alone and takes an outcome at most.
LEMMA GrowingMissesNothing ==
    ASSUME OutcomesIInv, Grows, UNCHANGED <<imports, refusals>>
    PROVE  ImportsMissNothing' /\ \A o \in Operators : CursorIsBehind(imports[o].cursor, Other(o))'
  <1>1. \A o \in Operators, l \in Payments :
            HasPayerOutcome(Other(o), l)' /\ events'[Other(o)][l].acceptedAt <= imports[o].cursor =>
                HasPayerOutcome(o, l)' \/ refusals'[o][l] # {}
    BY NothingIsPassed
  <1>2. \A o \in Operators, l \in Payments : refusals[o][l] \subseteq Reasons
    BY DEF OutcomesIInv, OutcomesTypes
  <1>3. ImportsMissNothing'
    BY <1>1, <1>2 DEF ImportsMissNothing, HasPayerOutcome, Reasons
  <1>4. \A o \in Operators : imports[o].cursor \in Nat /\ Other(o) \in Operators /\ CursorIsBehind(imports[o].cursor, Other(o))
    BY OtherIsAnother DEF OutcomesIInv, OutcomesTypes
  <1> QED BY <1>3, <1>4, GrowingKeeps

------------------------------------------------------------------------------
(* Verdicts.                                                               *)

LEMMA OkIsTimely ==
    ASSUME OutcomesTypes, NEW o \in Operators, NEW s \in [leg : Payments, at : Nat], NEW checkedAt \in Int,
           NEW h \in Int, NEW fromPeer \in BOOLEAN, Verdict(o, s, checkedAt, h, fromPeer) = "ok"
    PROVE  /\ ~Early(s) /\ h >= Settled[s.leg] /\ (fromPeer => checkedAt >= Settled[s.leg])
           /\ ~BeforeSigned(s, checkedAt) /\ ~Expired(s, checkedAt)
           /\ MayReplace(o, s.leg, h)
  <1>1. s.leg \in Payments /\ Settled[s.leg] \in Nat
    BY OutcomesNumbers
  <1>2. /\ ~Early(s) /\ ~(h < Settled[s.leg]) /\ ~(fromPeer /\ checkedAt < Settled[s.leg])
        /\ ~BeforeSigned(s, checkedAt) /\ ~Expired(s, checkedAt) /\ MayReplace(o, s.leg, h)
    BY DEF Verdict
  <1> QED BY <1>1, <1>2

LEMMA PeersAreTimely ==
    ASSUME NEW o, NEW s, NEW checkedAt \in Int, NEW h \in Int, Settled[s.leg] \in Nat,
           ~Early(s), checkedAt >= Settled[s.leg], ~BeforeSigned(s, checkedAt), ~Expired(s, checkedAt)
    PROVE  Verdict(o, s, checkedAt, h, TRUE) \in {"retry", "import_late", "outcome_recorded", "ok"}
  BY DEF Verdict

\* What may be replaced is no payer's, and a credential's only inside the window.
LEMMA ReplacedInTime ==
    ASSUME OutcomesTypes, NEW o \in Operators, NEW l \in Payments, NEW h \in Int, MayReplace(o, l, h)
    PROVE  /\ ~HasPayerOutcome(o, l)
           /\ events[o][l].source = "credentialed" => h - Settled[l] <= Window
  <1>1. events[o][l].source \in {"none", "credentialed", "payer"}
    BY HeldIsTyped, HeldFields
  <1> QED BY <1>1 DEF MayReplace, HasPayerOutcome, ByPayer

LEMMA OkIsTaken ==
    ASSUME OutcomesTypes, NEW o \in Operators \ down, NEW s \in [leg : Payments, at : Nat], NEW checkedAt \in Int,
           NEW h \in Int, NEW fromPeer \in BOOLEAN, Verdict(o, s, checkedAt, h, fromPeer) = "ok",
           fromPeer \/ checkedAt = h,
           events' = [events EXCEPT ![o] = Recorded(o, s, checkedAt)], UNCHANGED <<now, down>>,
           TakenInOrder
    PROVE  \E e : Takes(o, s.leg, e) /\ ByPayer(e)
  <1> DEFINE e == [source |-> "payer", checkedAt |-> checkedAt, signedAt |-> s.at, acceptedAt |-> NextAcceptedAt(o)]
  <1>1. s.leg \in Payments /\ s.at \in Nat
    OBVIOUS
  <1>2. NextAcceptedAt(o) \in Nat \ {0}
    BY <1>1, NextIsLater
  <1>3. e \in Signed
    BY <1>1, <1>2 DEF Signed
  <1>4. ~HasPayerOutcome(o, s.leg)
    BY <1>1, OkIsTimely, ReplacedInTime
  <1>5. s = [leg |-> s.leg, at |-> e.signedAt]
    OBVIOUS
  <1>6. Timely(s.leg, e)
    BY <1>5, OkIsTimely DEF Timely
  <1>7. events' = [events EXCEPT ![o] = [events[o] EXCEPT ![s.leg] = e]]
    BY DEF Recorded
  <1>8. e.acceptedAt = NextAcceptedAt(o) /\ ByPayer(e)
    BY DEF ByPayer
  <1> HIDE DEF e
  <1>9. Takes(o, s.leg, e)
    BY <1>1, <1>3, <1>4, <1>6, <1>7, <1>8 DEF Takes
  <1> QED BY <1>8, <1>9

------------------------------------------------------------------------------
(* One lemma per operation.                                                *)

LEMMA AdmitPostedKeeps ==
    ASSUME OutcomesIInv, NEW o \in Operators, NEW s \in signed, AdmitPosted(o, s)
    PROVE  OutcomesIInv'
  <1>1. OutcomesTypes /\ TakenInOrder /\ OutcomesAreTimely /\ s \in [leg : Payments, at : Nat] /\ o \in Operators \ down
    BY DEF OutcomesIInv, OutcomesTypes, AdmitPosted
  <1>2. UNCHANGED <<now, signed, imports, down, refusals>>
    BY DEF AdmitPosted
  <1>3. PICK h \in Heads : Verdict(o, s, h, h, FALSE) = "ok" /\ events' = [events EXCEPT ![o] = Recorded(o, s, h)]
    BY DEF AdmitPosted
  <1>4. h \in Int
    BY <1>1, OutcomesNumbers DEF Heads, OutcomesTypes
  <1>5. PICK e : Takes(o, s.leg, e)
    BY <1>1, <1>2, <1>3, <1>4, OkIsTaken
  <1>6. Grows
    BY <1>5 DEF Grows
  <1>7. events' \in HeldOutcomes /\ TakenInOrder'
    BY <1>6, GrowingKeeps
  <1>8. saved' = saved \/ saved' = [saved EXCEPT ![o] = events'[o]]
    BY DEF AdmitPosted
  <1>9. /\ saved' \in HeldOutcomes
        /\ \A q \in Operators, k \in Payments : saved'[q][k] = saved[q][k] \/ saved'[q][k] = events'[q][k]
    BY <1>1, <1>7, <1>8 DEF OutcomesTypes, HeldOutcomes
  <1>10. OutcomesAreTimely'
    BY <1>1, <1>5, <1>9, TakenIsTimely
  <1>11. OutcomesTypes'
    BY <1>1, <1>2, <1>7, <1>9 DEF OutcomesTypes
  <1>12. ImportsMissNothing' /\ \A p \in Operators : CursorIsBehind(imports[p].cursor, Other(p))'
    BY <1>2, <1>6, GrowingMissesNothing
  <1> QED BY <1>2, <1>7, <1>10, <1>11, <1>12 DEF OutcomesIInv

LEMMA AdmitCredentialedKeeps ==
    ASSUME OutcomesIInv, NEW o \in Operators, NEW l \in Payments, AdmitCredentialed(o, l)
    PROVE  OutcomesIInv'
  <1> DEFINE e == [NoOutcome EXCEPT !.source = "credentialed"]
  <1>1. /\ OutcomesTypes /\ TakenInOrder /\ OutcomesAreTimely /\ ImportsMissNothing
        /\ \A p \in Operators : CursorIsBehind(imports[p].cursor, Other(p))
    BY DEF OutcomesIInv
  <1>2. /\ events[o][l].source = "none" /\ events' = [events EXCEPT ![o][l] = e]
        /\ saved' = [saved EXCEPT ![o] = events'[o]] /\ UNCHANGED <<now, signed, imports, down, refusals>>
    BY DEF AdmitCredentialed
  <1>3. e \in NotSigned /\ ~ByPayer(e) /\ e.acceptedAt = 0
    BY DEF NotSigned, NoOutcome, ByPayer
  <1> HIDE DEF e
  <1>4. /\ events' \in HeldOutcomes /\ saved' \in HeldOutcomes /\ events'[o][l] = e
        /\ \A q \in Operators, k \in Payments : q # o \/ k # l => events'[q][k] = events[q][k]
        /\ \A q \in Operators, k \in Payments : saved'[q][k] = saved[q][k] \/ saved'[q][k] = events'[q][k]
        /\ saved'[o][l] = e
    BY <1>1, <1>2, <1>3 DEF OutcomesTypes, HeldOutcomes
  <1>5. ~HasPayerOutcome(o, l)
    BY <1>2 DEF HasPayerOutcome, ByPayer
  <1>6. \A q \in Operators, k \in Payments :
            /\ HasPayerOutcome(q, k)' <=> HasPayerOutcome(q, k)
            /\ HasPayerOutcome(q, k) => events'[q][k] = events[q][k]
    BY <1>3, <1>4, <1>5 DEF HasPayerOutcome, ByPayer
  <1>7. \A q \in Operators : PayerLegs(q)' = PayerLegs(q) /\ PayerLegs(q) \subseteq Payments
    BY <1>6 DEF PayerLegs
  <1>8. \A q \in Operators : Clock(q)' = Clock(q) /\ Clock(q) \in Nat
    BY <1>1, <1>2, ClockIsANumber DEF Clock
  <1>9. \A q \in Operators : Cardinality(PayerLegs(q)) \in Nat
    BY <1>7, FS_Subset, FS_CardinalityType, OutcomesNumbers
  <1>10. TakenInOrder'
    <2>1. \A q \in Operators : \A k, m \in PayerLegs(q) : events'[q][k].acceptedAt = events'[q][m].acceptedAt => k = m
      BY <1>1, <1>6, <1>7 DEF TakenInOrder, PayerLegs
    <2>2. \A q \in Operators, k \in Payments : events'[q][k].acceptedAt < Clock(q) + Fine
      BY <1>1, <1>3, <1>4, <1>8, OutcomesNumbers DEF TakenInOrder
    <2>3. \A q \in Operators \ down, k \in Payments : events'[q][k].acceptedAt <= Clock(q) + Cardinality(PayerLegs(q))
      BY <1>1, <1>3, <1>4, <1>8, <1>9 DEF TakenInOrder
    <2> QED BY <1>2, <1>7, <1>8, <2>1, <2>2, <2>3 DEF TakenInOrder
  <1>11. OutcomesAreTimely'
    <2>1. ASSUME NEW q \in Operators, NEW k \in Payments, HasPayerOutcome(q, k)'
          PROVE  Timely(k, events'[q][k])
      BY <1>1, <1>6, <2>1 DEF OutcomesAreTimely, Timely
    <2>2. ASSUME NEW q \in Operators, NEW k \in Payments, ByPayer(saved'[q][k])
          PROVE  saved'[q][k] = events'[q][k]
      <3>1. CASE saved'[q][k] = saved[q][k]
        <4>1. q # o \/ k # l
          BY <1>3, <1>4, <2>2
        <4> QED BY <1>1, <1>4, <2>2, <3>1, <4>1 DEF OutcomesAreTimely
      <3> QED BY <1>4, <3>1
    <2> QED BY <2>1, <2>2 DEF OutcomesAreTimely, Timely, HasPayerOutcome, ByPayer, Early, BeforeSigned, Expired
  <1>12. ASSUME NEW p \in Operators
         PROVE  CursorIsBehind(imports[p].cursor, Other(p))'
    <2>1. Other(p) \in Operators /\ imports[p].cursor \in Nat
      BY <1>1, OtherIsAnother DEF OutcomesTypes
    <2>2. ASSUME NEW k \in Payments, imports[p].cursor <= events[Other(p)][k].acceptedAt
          PROVE  imports[p].cursor = 0 \/ imports[p].cursor <= events'[Other(p)][k].acceptedAt
      <3>1. CASE Other(p) = o /\ k = l
        <4>1. events[o][l].acceptedAt = 0
          BY <1>1, <1>5, HeldIsTyped, HeldFields DEF HasPayerOutcome
        <4> QED BY <2>1, <2>2, <3>1, <4>1
      <3>2. CASE Other(p) # o \/ k # l
        BY <1>4, <2>1, <2>2, <3>2
      <3> QED BY <3>1, <3>2
    <2> QED BY <1>1, <1>2, <1>8, <2>1, <2>2 DEF CursorIsBehind
  <1>13. ImportsMissNothing'
    <2>1. ASSUME NEW p \in Operators, NEW k \in Payments
          PROVE  /\ HasPayerOutcome(Other(p), k)' /\ events'[Other(p)][k].acceptedAt <= imports[p].cursor =>
                        HasPayerOutcome(p, k)' \/ refusals[p][k] # {}
                 /\ refusals[p][k] \subseteq Reasons
      BY <1>1, <1>6, OtherIsAnother DEF ImportsMissNothing, HasPayerOutcome, Reasons
    <2> QED BY <1>2, <2>1 DEF ImportsMissNothing, HasPayerOutcome, Reasons
  <1>14. OutcomesTypes'
    BY <1>1, <1>2, <1>4 DEF OutcomesTypes
  <1> QED BY <1>2, <1>10, <1>11, <1>12, <1>13, <1>14 DEF OutcomesIInv

LEMMA ImportItemKeeps ==
    ASSUME OutcomesIInv, NEW o \in Operators, ImportItem(o)
    PROVE  OutcomesIInv'
  <1> DEFINE p == Other(o)
  <1>1. /\ OutcomesTypes /\ TakenInOrder /\ OutcomesAreTimely /\ ImportsMissNothing
        /\ \A q \in Operators : CursorIsBehind(imports[q].cursor, Other(q))
        /\ o \in Operators \ down /\ p \in Operators /\ p # o
    BY OtherIsAnother DEF OutcomesIInv, ImportItem
  <1>2. UNCHANGED <<now, signed, saved, down>>
    BY DEF ImportItem
  <1>3. PICK l \in NextServed(Other(o), imports[o].cursor), h \in Heads, unreadable \in BOOLEAN :
         LET item == events[Other(o)][l]
             verdict == ImportOne(o, l, item, h)
             fails == verdict = "retry" \/ (unreadable /\ verdict # "held") IN
         /\ Importable(o, l)
         /\ fails => failures < MaxFailures
         /\ failures' = IF fails THEN failures + 1 ELSE failures
         /\ imports' = [imports EXCEPT ![o] =
                IF fails THEN AfterStall(o, item) ELSE [cursor |-> item.acceptedAt, stalls |-> 0]]
         /\ events' = IF verdict = "ok" /\ ~fails
                      THEN [events EXCEPT ![o] = Recorded(o,
                              [leg |-> l, at |-> item.signedAt], item.checkedAt)]
                      ELSE events
         /\ refusals' = IF ~fails /\ verdict \in {"ok", "held"} THEN refusals
                        ELSE IF imports'[o].cursor # item.acceptedAt THEN refusals
                        ELSE [refusals EXCEPT ![o][l] = @ \cup {IF fails THEN "stalled" ELSE verdict}]
    BY DEF ImportItem
  <1> DEFINE item == events[p][l]
             s == [leg |-> l, at |-> item.signedAt]
             verdict == ImportOne(o, l, item, h)
             fails == verdict = "retry" \/ (unreadable /\ verdict # "held")
  <1>4. /\ l \in Payments /\ HasPayerOutcome(p, l) /\ item.acceptedAt > imports[o].cursor
        /\ \A k \in Payments : HasPayerOutcome(p, k) /\ events[p][k].acceptedAt > imports[o].cursor =>
                item.acceptedAt <= events[p][k].acceptedAt
    BY DEF NextServed
  <1>5. h \in Int
    BY <1>1, OutcomesNumbers DEF Heads, OutcomesTypes
  <1>6. /\ item \in NotSigned \cup Signed /\ item.acceptedAt \in Nat /\ item.checkedAt \in Int
        /\ s \in [leg : Payments, at : Nat] /\ s.leg = l
    BY <1>1, <1>4, HeldIsTyped, HeldFields
  <1>7. ~Early(s) /\ item.checkedAt >= Settled[s.leg] /\ ~BeforeSigned(s, item.checkedAt) /\ ~Expired(s, item.checkedAt)
    BY <1>1, <1>4, <1>6 DEF OutcomesAreTimely
  <1>8. /\ HasPayerOutcome(o, l) => verdict = "held"
        /\ ~HasPayerOutcome(o, l) => /\ verdict \in {"retry", "import_late", "outcome_recorded", "ok"}
                                     /\ verdict = Verdict(o, s, item.checkedAt, h, TRUE)
    <2>1. Verdict(o, s, item.checkedAt, h, TRUE) \in {"retry", "import_late", "outcome_recorded", "ok"}
      BY <1>4, <1>5, <1>6, <1>7, OutcomesNumbers, PeersAreTimely
    <2> QED BY <2>1 DEF ImportOne
  <1>9. /\ imports' = [imports EXCEPT ![o] =
                IF fails THEN AfterStall(o, item) ELSE [cursor |-> item.acceptedAt, stalls |-> 0]]
        /\ events' = IF verdict = "ok" /\ ~fails THEN [events EXCEPT ![o] = Recorded(o, s, item.checkedAt)] ELSE events
        /\ refusals' = IF ~fails /\ verdict \in {"ok", "held"} THEN refusals
                       ELSE IF imports'[o].cursor # item.acceptedAt THEN refusals
                       ELSE [refusals EXCEPT ![o][l] = @ \cup {IF fails THEN "stalled" ELSE verdict}]
    BY <1>3
  <1>10. verdict \in {"held", "retry", "import_late", "outcome_recorded", "ok"}
    BY <1>8
  <1>11. ASSUME verdict = "ok" /\ ~fails
         PROVE  Grows /\ OutcomesAreTimely' /\ HasPayerOutcome(o, l)'
    <2>1. ~HasPayerOutcome(o, l) /\ Verdict(o, s, item.checkedAt, h, TRUE) = "ok"
      BY <1>8, <1>11
    <2>2. events' = [events EXCEPT ![o] = Recorded(o, s, item.checkedAt)]
      BY <1>9, <1>11
    <2>3. \E e : Takes(o, s.leg, e) /\ ByPayer(e)
      BY <1>1, <1>2, <1>5, <1>6, <2>1, <2>2, OkIsTaken
    <2>4. PICK e : Takes(o, l, e) /\ ByPayer(e)
      BY <1>6, <2>3
    <2>5. events'[o][l] = e
      BY <1>1, <2>4, TakenAlone
    <2>6. HasPayerOutcome(o, l)'
      BY <2>4, <2>5 DEF HasPayerOutcome, ByPayer
    <2>7. Grows
      BY <2>4 DEF Grows
    <2>8. OutcomesAreTimely'
      BY <1>1, <1>2, <2>4, TakenIsTimely
    <2>9. refusals' = refusals /\ imports'[o].cursor = item.acceptedAt
      BY <1>1, <1>9, <1>11 DEF OutcomesTypes
    <2> QED BY <2>4, <2>6, <2>7, <2>8
  <1>12. ASSUME ~(verdict = "ok" /\ ~fails)
         PROVE  Grows /\ OutcomesAreTimely' /\ events' = events
    <2>1. events' = events
      BY <1>9, <1>12
    <2>2. Grows
      BY <1>2, <2>1 DEF Grows
    <2>3. OutcomesAreTimely'
      BY <1>1, <1>2, <2>1 DEF OutcomesAreTimely, HasPayerOutcome
    <2> QED BY <2>1, <2>2, <2>3
  <1>13. Grows /\ OutcomesAreTimely'
    BY <1>11, <1>12
  <1>14. /\ imports' \in [Operators -> [cursor : Nat, stalls : Int]]
         /\ \A q \in Operators : q # o => imports'[q] = imports[q]
         /\ imports'[o].cursor \in {imports[o].cursor, item.acceptedAt}
    <2> DEFINE new == IF fails THEN AfterStall(o, item) ELSE [cursor |-> item.acceptedAt, stalls |-> 0]
    <2>1. imports \in [Operators -> [cursor : Nat, stalls : Int]]
      BY <1>1 DEF OutcomesTypes
    <2>2. AfterStall(o, item) \in [cursor : Nat, stalls : Int] /\ AfterStall(o, item).cursor \in {imports[o].cursor, item.acceptedAt}
      BY <1>1, <1>6, <2>1 DEF AfterStall
    <2>3. [cursor |-> item.acceptedAt, stalls |-> 0] \in [cursor : Nat, stalls : Int]
      BY <1>6
    <2>4. new \in [cursor : Nat, stalls : Int] /\ new.cursor \in {imports[o].cursor, item.acceptedAt}
      BY <2>2, <2>3
    <2>5. imports' = [imports EXCEPT ![o] = new]
      BY <1>9
    <2> HIDE DEF new
    <2> QED BY <1>1, <2>1, <2>4, <2>5
  <1>15. /\ refusals' \in [Operators -> [Payments -> SUBSET Reasons]]
         /\ \A q \in Operators, k \in Payments : refusals[q][k] \subseteq refusals'[q][k]
         /\ imports'[o].cursor = item.acceptedAt /\ ~(~fails /\ verdict \in {"ok", "held"}) => refusals'[o][l] # {}
    <2> DEFINE why == IF fails THEN "stalled" ELSE verdict
    <2>1. refusals \in [Operators -> [Payments -> SUBSET Reasons]]
      BY <1>1 DEF OutcomesTypes
    <2>2. ASSUME ~(~fails /\ verdict \in {"ok", "held"})
          PROVE  why \in Reasons
      BY <1>10, <2>2 DEF Reasons
    <2>3. CASE (~fails /\ verdict \in {"ok", "held"}) \/ imports'[o].cursor # item.acceptedAt
      <3>1. refusals' = refusals
        BY <1>9, <2>3
      <3> QED BY <2>1, <2>3, <3>1
    <2>4. CASE ~(~fails /\ verdict \in {"ok", "held"}) /\ imports'[o].cursor = item.acceptedAt
      <3>1. refusals' = [refusals EXCEPT ![o][l] = @ \cup {why}]
        BY <1>9, <2>4
      <3>2. why \in Reasons
        BY <2>2, <2>4
      <3> HIDE DEF why
      <3> QED BY <1>1, <1>4, <2>1, <3>1, <3>2
    <2> QED BY <2>3, <2>4
  <1>16. imports'[o].cursor = item.acceptedAt => HasPayerOutcome(o, l)' \/ refusals'[o][l] # {}
    <2>1. CASE verdict = "ok" /\ ~fails
      BY <1>11, <2>1
    <2>2. CASE verdict = "held" /\ ~fails
      <3>1. events' = events /\ HasPayerOutcome(o, l)
        BY <1>8, <1>12, <2>2
      <3> QED BY <3>1 DEF HasPayerOutcome
    <2>3. CASE ~(~fails /\ verdict \in {"ok", "held"})
      BY <1>15, <2>3
    <2> QED BY <2>1, <2>2, <2>3
  <1>17. CursorIsBehind(item.acceptedAt, p)
    BY <1>4, <1>6 DEF CursorIsBehind
  <1> HIDE DEF item, fails, verdict, s, p
  <1>18. ASSUME NEW q \in Operators
         PROVE  CursorIsBehind(imports[q].cursor, Other(q))'
    <2>1. Other(q) \in Operators /\ imports'[q].cursor \in Nat
      BY <1>14, OtherIsAnother
    <2>2. CursorIsBehind(imports'[q].cursor, Other(q))
      BY <1>1, <1>14, <1>17 DEF p
    <2>3. \A c \in Nat, r \in Operators : CursorIsBehind(c, r) => CursorIsBehind(c, r)'
      BY <1>13, GrowingKeeps
    <2> QED BY <2>1, <2>2, <2>3
  <1>19. ASSUME NEW q \in Operators, NEW k \in Payments,
                HasPayerOutcome(Other(q), k)', events'[Other(q)][k].acceptedAt <= imports'[q].cursor
         PROVE  HasPayerOutcome(q, k)' \/ refusals'[q][k] # {}
    <2>1. CASE events'[Other(q)][k].acceptedAt <= imports[q].cursor
      BY <1>13, <1>15, <1>19, <2>1, NothingIsPassed
    <2>2. CASE ~(events'[Other(q)][k].acceptedAt <= imports[q].cursor)
      <3>1. q = o /\ imports'[o].cursor = item.acceptedAt
        BY <1>14, <1>19, <2>2
      <3>2. HasPayerOutcome(p, k)' /\ events'[p][k].acceptedAt <= item.acceptedAt
        BY <1>19, <3>1 DEF p
      <3>3. events' \in HeldOutcomes /\ events'[p][k].acceptedAt \in Nat
        BY <1>1, <1>13, GrowingKeeps, HeldFields DEF HeldOutcomes
      <3>4. HasPayerOutcome(p, k) \/ item.acceptedAt < events'[p][k].acceptedAt
        BY <1>1, <1>6, <1>13, <1>17, <3>2, GrowingKeeps
      <3>5. HasPayerOutcome(p, k) /\ events'[p][k] = events[p][k]
        BY <1>1, <1>6, <1>13, <3>2, <3>3, <3>4, GrowingKeeps
      <3>6. events[p][k].acceptedAt > imports[o].cursor
        <4>1. imports[o].cursor \in Nat
          BY <1>1 DEF OutcomesTypes
        <4> QED BY <2>2, <3>1, <3>3, <3>5, <4>1 DEF p
      <3>7. events[p][k].acceptedAt = item.acceptedAt
        BY <1>4, <1>6, <3>2, <3>3, <3>5, <3>6
      <3>8. k = l
        BY <1>1, <1>4, <3>5, <3>7 DEF TakenInOrder, PayerLegs, item
      <3> QED BY <1>16, <3>1, <3>8
    <2> QED BY <2>1, <2>2
  <1>20. ImportsMissNothing'
    BY <1>15, <1>19 DEF ImportsMissNothing, HasPayerOutcome, Reasons
  <1>21. events' \in HeldOutcomes /\ TakenInOrder'
    BY <1>13, GrowingKeeps
  <1>22. OutcomesTypes'
    BY <1>1, <1>2, <1>14, <1>15, <1>21 DEF OutcomesTypes
  <1> QED BY <1>13, <1>18, <1>20, <1>21, <1>22 DEF OutcomesIInv

\* What a step does that takes nothing and only saves or signs.
LEMMA QuietKeeps ==
    ASSUME OutcomesIInv, UNCHANGED <<now, events, imports, down, refusals>>,
           signed' \subseteq [leg : Payments, at : Nat],
           saved' \in HeldOutcomes, \A q \in Operators, k \in Payments : saved'[q][k] = saved[q][k] \/ saved'[q][k] = events[q][k]
    PROVE  OutcomesIInv'
  <1>1. OutcomesTypes /\ OutcomesAreTimely
    BY DEF OutcomesIInv
  <1>2. Grows
    BY DEF Grows
  <1>3. TakenInOrder'
    BY <1>2, GrowingKeeps
  <1>4. ImportsMissNothing' /\ \A o \in Operators : CursorIsBehind(imports[o].cursor, Other(o))'
    BY <1>2, GrowingMissesNothing
  <1>5. OutcomesTypes'
    BY <1>1 DEF OutcomesTypes
  <1>6. \A q \in Operators, k \in Payments : ByPayer(saved'[q][k]) => saved'[q][k] = events'[q][k]
    BY <1>1 DEF OutcomesAreTimely
  <1>7. OutcomesAreTimely'
    BY <1>1, <1>6 DEF OutcomesAreTimely, HasPayerOutcome, ByPayer, Early, BeforeSigned, Expired
  <1> QED BY <1>3, <1>4, <1>5, <1>7 DEF OutcomesIInv

LEMMA PayerSignsKeeps ==
    ASSUME OutcomesIInv, NEW l \in Payments, PayerSigns(l)
    PROVE  OutcomesIInv'
  <1>1. signed \subseteq [leg : Payments, at : Nat] /\ saved \in HeldOutcomes /\ now \in Nat
    BY DEF OutcomesIInv, OutcomesTypes
  <1>2. signed' = signed \cup {[leg |-> l, at |-> now]} /\ UNCHANGED <<now, events, saved, imports, down, refusals>>
    BY DEF PayerSigns
  <1> QED BY <1>1, <1>2, QuietKeeps

LEMMA SaveImportsKeeps ==
    ASSUME OutcomesIInv, NEW o \in Operators, SaveImports(o)
    PROVE  OutcomesIInv'
  <1>1. signed \subseteq [leg : Payments, at : Nat] /\ saved \in HeldOutcomes /\ events \in HeldOutcomes
    BY DEF OutcomesIInv, OutcomesTypes
  <1>2. saved' = [saved EXCEPT ![o] = events[o]] /\ UNCHANGED <<now, signed, events, imports, down, refusals>>
    BY DEF SaveImports
  <1>3. saved' \in HeldOutcomes /\ \A q \in Operators, k \in Payments : saved'[q][k] = saved[q][k] \/ saved'[q][k] = events[q][k]
    BY <1>1, <1>2 DEF HeldOutcomes
  <1> QED BY <1>1, <1>2, <1>3, QuietKeeps

\* A death loses what no save kept: what is left is as it was, and is before the clock's next unit.
LEMMA RestartKeeps ==
    ASSUME OutcomesIInv, NEW o \in Operators, Restart(o)
    PROVE  OutcomesIInv'
  <1>1. /\ OutcomesTypes /\ TakenInOrder /\ OutcomesAreTimely /\ ImportsMissNothing
        /\ \A q \in Operators : CursorIsBehind(imports[q].cursor, Other(q))
    BY DEF OutcomesIInv
  <1>2. /\ events' = [events EXCEPT ![o] = saved[o]] /\ imports' = [imports EXCEPT ![o] = Fresh]
        /\ refusals' = [refusals EXCEPT ![o] = [l \in Payments |-> {}]] /\ down' = down \cup {o}
        /\ UNCHANGED <<now, signed, saved>>
    BY DEF Restart
  <1>3. OutcomesTypes'
    <2>1. events' \in HeldOutcomes
      BY <1>1, <1>2 DEF OutcomesTypes, HeldOutcomes
    <2>2. Fresh \in [cursor : Nat, stalls : Int]
      BY DEF Fresh
    <2>3. imports' \in [Operators -> [cursor : Nat, stalls : Int]]
      BY <1>1, <1>2, <2>2 DEF OutcomesTypes
    <2> QED BY <1>1, <1>2, <2>1, <2>3 DEF OutcomesTypes
  <1>4. /\ \A q \in Operators : Clock(q)' = Clock(q) /\ Clock(q) \in Nat
        /\ \A q \in Operators, k \in Payments : q # o => events'[q][k] = events[q][k]
        /\ \A k \in Payments : events'[o][k] = saved[o][k]
        /\ \A q \in Operators : q # o => imports'[q] = imports[q] /\ refusals'[q] = refusals[q]
        /\ imports'[o].cursor = 0 /\ \A k \in Payments : refusals'[o][k] = {}
    <2>1. \A q \in Operators : Clock(q)' = Clock(q) /\ Clock(q) \in Nat
      BY <1>1, <1>2, ClockIsANumber DEF Clock
    <2> QED BY <1>1, <1>2, <2>1 DEF OutcomesTypes, HeldOutcomes, Fresh
  <1>5. \A q \in Operators, k \in Payments :
            /\ events'[q][k] \in NotSigned \cup Signed /\ events'[q][k].acceptedAt \in Nat
            /\ events[q][k].acceptedAt \in Nat
    BY <1>1, <1>4, HeldIsTyped, HeldFields
  \* An outcome of the payer's that is left is the one that was held, and the others have no time.
  <1>6. \A q \in Operators, k \in Payments :
            \/ ByPayer(events'[q][k]) /\ events'[q][k] = events[q][k]
            \/ ~ByPayer(events'[q][k]) /\ events'[q][k].acceptedAt = 0
    <2>1. ASSUME NEW q \in Operators, NEW k \in Payments, ByPayer(events'[q][k])
          PROVE  events'[q][k] = events[q][k]
      <3>1. CASE q = o
        <4>1. events'[q][k] = saved[q][k]
          BY <1>4, <3>1
        <4> QED BY <1>1, <2>1, <4>1 DEF OutcomesAreTimely
      <3>2. CASE q # o
        BY <1>4, <3>2
      <3> QED BY <3>1, <3>2
    <2> QED BY <1>5, <2>1, HeldFields
  <1>7. OutcomesAreTimely'
    <2>1. ASSUME NEW q \in Operators, NEW k \in Payments, ByPayer(events'[q][k])
          PROVE  Timely(k, events'[q][k])
      <3>1. events'[q][k] = events[q][k] /\ HasPayerOutcome(q, k)
        BY <1>6, <2>1 DEF HasPayerOutcome
      <3> QED BY <1>1, <3>1 DEF OutcomesAreTimely, Timely
    <2>2. ASSUME NEW q \in Operators, NEW k \in Payments, ByPayer(saved'[q][k])
          PROVE  saved'[q][k] = events'[q][k]
      <3>1. saved'[q][k] = saved[q][k]
        BY <1>2
      <3>2. saved[q][k] = events[q][k]
        BY <1>1, <2>2, <3>1 DEF OutcomesAreTimely
      <3> QED BY <1>4, <3>1, <3>2
    <2> QED BY <2>1, <2>2 DEF OutcomesAreTimely, HasPayerOutcome, ByPayer, Timely, Early, BeforeSigned, Expired
  <1>8. TakenInOrder'
    <2>1. ASSUME NEW q \in Operators, NEW k \in PayerLegs(q)', NEW m \in PayerLegs(q)',
                 events'[q][k].acceptedAt = events'[q][m].acceptedAt
          PROVE  k = m
      <3>1. k \in Payments /\ m \in Payments /\ ByPayer(events'[q][k]) /\ ByPayer(events'[q][m])
        BY DEF PayerLegs, HasPayerOutcome, ByPayer
      <3>2. events'[q][k] = events[q][k] /\ events'[q][m] = events[q][m]
        BY <1>6, <3>1
      <3>3. k \in PayerLegs(q) /\ m \in PayerLegs(q)
        BY <3>1, <3>2 DEF PayerLegs, HasPayerOutcome
      <3> QED BY <1>1, <2>1, <3>2, <3>3 DEF TakenInOrder
    <2>2. ASSUME NEW q \in Operators, NEW k \in Payments
          PROVE  events'[q][k].acceptedAt < Clock(q) + Fine
      <3>1. Clock(q) \in Nat /\ events[q][k].acceptedAt < Clock(q) + Fine
        BY <1>1, <1>4 DEF TakenInOrder
      <3> QED BY <1>6, <3>1, OutcomesNumbers
    <2>3. ASSUME NEW q \in Operators \ down', NEW k \in Payments
          PROVE  events'[q][k].acceptedAt <= Clock(q) + Cardinality(PayerLegs(q))'
      <3>1. q # o /\ q \in Operators \ down
        BY <1>2, <2>3
      <3>2. PayerLegs(q)' = PayerLegs(q)
        BY <1>4, <3>1 DEF PayerLegs, HasPayerOutcome
      <3>3. events[q][k].acceptedAt <= Clock(q) + Cardinality(PayerLegs(q))
        BY <1>1, <3>1 DEF TakenInOrder
      <3> QED BY <1>4, <3>1, <3>2, <3>3
    <2> QED BY <1>2, <1>4, <2>1, <2>2, <2>3 DEF TakenInOrder
  <1>9. ASSUME NEW q \in Operators
        PROVE  CursorIsBehind(imports[q].cursor, Other(q))'
    <2>1. Other(q) \in Operators /\ imports[q].cursor \in Nat
      BY <1>1, OtherIsAnother DEF OutcomesTypes
    <2>2. CASE q = o
      BY <1>4, <2>2 DEF CursorIsBehind
    <2>3. CASE q # o
      <3>1. imports'[q].cursor = imports[q].cursor
        BY <1>4, <2>3
      <3>2. CursorIsBehind(imports[q].cursor, Other(q))
        BY <1>1
      <3>3. CASE imports[q].cursor = 0 \/ imports[q].cursor < Clock(Other(q))
        BY <1>4, <2>1, <3>1, <3>3 DEF CursorIsBehind
      <3>4. CASE Other(q) \in down /\ imports[q].cursor < Clock(Other(q)) + Fine
        BY <1>2, <1>4, <2>1, <3>1, <3>4 DEF CursorIsBehind
      <3>5. ASSUME NEW k \in Payments, imports[q].cursor <= events[Other(q)][k].acceptedAt
            PROVE  CursorIsBehind(imports[q].cursor, Other(q))'
        <4>1. CASE Other(q) # o
          BY <1>4, <2>1, <3>1, <3>5, <4>1 DEF CursorIsBehind
        <4>2. CASE Other(q) = o
          <5>1. events[o][k].acceptedAt < Clock(o) + Fine
            BY <1>1, <4>2 DEF TakenInOrder
          <5>2. imports[q].cursor < Clock(o) + Fine
            BY <1>4, <1>5, <2>1, <3>5, <4>2, <5>1, OutcomesNumbers
          <5> QED BY <1>2, <1>4, <3>1, <4>2, <5>2 DEF CursorIsBehind
        <4> QED BY <4>1, <4>2
      <3> QED BY <3>2, <3>3, <3>4, <3>5 DEF CursorIsBehind
    <2> QED BY <2>2, <2>3
  <1>10. ASSUME NEW q \in Operators, NEW k \in Payments
         PROVE  /\ ByPayer(events'[Other(q)][k]) /\ events'[Other(q)][k].acceptedAt <= imports'[q].cursor =>
                      ByPayer(events'[q][k]) \/ refusals'[q][k] # {}
                /\ refusals'[q][k] \subseteq Reasons
    <2>1. Other(q) \in Operators /\ Other(q) # q
      BY OtherIsAnother
    <2>2. CASE q = o
      <3>1. ~ByPayer(events'[Other(q)][k]) \/ events'[Other(q)][k].acceptedAt > 0
        BY <1>5, <2>1, HeldFields
      <3> QED BY <1>4, <1>5, <2>1, <2>2, <3>1
    <2>3. CASE q # o
      <3>1. /\ ByPayer(events[Other(q)][k]) /\ events[Other(q)][k].acceptedAt <= imports[q].cursor =>
                  ByPayer(events[q][k]) \/ refusals[q][k] # {}
            /\ refusals[q][k] \subseteq Reasons
        BY <1>1 DEF ImportsMissNothing, HasPayerOutcome, Reasons
      <3> QED BY <1>4, <1>6, <2>1, <2>3, <3>1
    <2> QED BY <2>2, <2>3
  <1>11. ImportsMissNothing'
    BY <1>10 DEF ImportsMissNothing, HasPayerOutcome, ByPayer, Reasons
  <1> QED BY <1>3, <1>7, <1>8, <1>9, <1>11 DEF OutcomesIInv

LEMMA TickKeeps ==
    ASSUME OutcomesIInv, Tick
    PROVE  OutcomesIInv'
  <1>1. /\ OutcomesTypes /\ TakenInOrder /\ OutcomesAreTimely /\ ImportsMissNothing
        /\ \A q \in Operators : CursorIsBehind(imports[q].cursor, Other(q))
    BY DEF OutcomesIInv
  <1>2. now' = now + 1 /\ down' = {} /\ UNCHANGED <<signed, events, saved, imports, refusals>>
    BY DEF Tick
  <1>3. OutcomesTypes'
    BY <1>1, <1>2 DEF OutcomesTypes
  <1>4. \A q \in Operators : Clock(q)' = Clock(q) + Fine /\ Clock(q) \in Nat
    <2>1. now \in Nat
      BY <1>1 DEF OutcomesTypes
    <2> QED BY <1>1, <1>2, <2>1, ClocksGoByFine, ClockIsANumber, OutcomesNumbers DEF Clock
  <1>5. OutcomesAreTimely' /\ ImportsMissNothing'
    <2>1. OutcomesAreTimely'
      BY <1>1, <1>2 DEF OutcomesAreTimely, HasPayerOutcome
    <2>2. ImportsMissNothing'
      BY <1>1, <1>2 DEF ImportsMissNothing, HasPayerOutcome
    <2> QED BY <2>1, <2>2
  <1>6. \A q \in Operators, k \in Payments : events[q][k].acceptedAt < Clock(q) + Fine /\ events[q][k].acceptedAt \in Nat
    BY <1>1, HeldIsTyped, HeldFields DEF TakenInOrder
  <1>7. TakenInOrder'
    <2>1. \A q \in Operators : PayerLegs(q)' = PayerLegs(q) /\ Cardinality(PayerLegs(q)) \in Nat
      <3>1. \A q \in Operators : PayerLegs(q)' = PayerLegs(q) /\ PayerLegs(q) \subseteq Payments
        BY <1>2 DEF PayerLegs, HasPayerOutcome
      <3> QED BY <3>1, FS_Subset, FS_CardinalityType, OutcomesNumbers
    <2>2. ASSUME NEW q \in Operators, NEW k \in Payments
          PROVE  /\ events[q][k].acceptedAt < (Clock(q) + Fine) + Fine
                 /\ events[q][k].acceptedAt <= (Clock(q) + Fine) + Cardinality(PayerLegs(q))
      BY <1>4, <1>6, <2>1, OutcomesNumbers
    <2>3. \A q \in Operators : \A k, m \in PayerLegs(q) : events[q][k].acceptedAt = events[q][m].acceptedAt => k = m
      BY <1>1 DEF TakenInOrder
    <2>4. \A q \in Operators, k \in Payments :
             events'[q][k].acceptedAt < Clock(q)' + Fine /\ events'[q][k].acceptedAt <= Clock(q)' + Cardinality(PayerLegs(q))'
      BY <1>2, <1>4, <2>1, <2>2
    <2> QED BY <1>2, <2>1, <2>3, <2>4 DEF TakenInOrder
  <1>8. ASSUME NEW q \in Operators
        PROVE  CursorIsBehind(imports[q].cursor, Other(q))'
    <2>1. Other(q) \in Operators /\ imports[q].cursor \in Nat /\ CursorIsBehind(imports[q].cursor, Other(q))
      BY <1>1, OtherIsAnother DEF OutcomesTypes
    <2>2. imports[q].cursor = 0 \/ imports[q].cursor < Clock(Other(q)) + Fine
      BY <1>4, <1>6, <2>1, OutcomesNumbers DEF CursorIsBehind
    <2> QED BY <1>2, <1>4, <2>1, <2>2 DEF CursorIsBehind
  <1> QED BY <1>3, <1>5, <1>7, <1>8 DEF OutcomesIInv

------------------------------------------------------------------------------
(* The theorems.                                                           *)

LEMMA OutcomesInitKeeps ==
    ASSUME OutcomesInit
    PROVE  OutcomesIInv
  <1>1. /\ events = [o \in Operators |-> [l \in Payments |-> NoOutcome]] /\ saved = events
        /\ imports = [o \in Operators |-> Fresh] /\ refusals = [o \in Operators |-> [l \in Payments |-> {}]]
        /\ now = 0 /\ signed = {} /\ down = {}
    BY DEF OutcomesInit
  <1>2. NoOutcome \in NotSigned /\ NoOutcome.acceptedAt = 0 /\ ~ByPayer(NoOutcome)
    BY DEF NoOutcome, NotSigned, ByPayer
  <1>3. Fresh \in [cursor : Nat, stalls : Int] /\ Fresh.cursor = 0
    BY DEF Fresh
  <1>4. OutcomesTypes
    BY <1>1, <1>2, <1>3 DEF OutcomesTypes, HeldOutcomes
  <1>5. \A o \in Operators, l \in Payments : events[o][l] = NoOutcome /\ saved[o][l] = NoOutcome /\ ~HasPayerOutcome(o, l)
    BY <1>1, <1>2 DEF HasPayerOutcome
  <1>6. OutcomesAreTimely
    BY <1>2, <1>5 DEF OutcomesAreTimely
  <1>7. TakenInOrder
    <2>1. \A o \in Operators : PayerLegs(o) = {} /\ Cardinality(PayerLegs(o)) = 0 /\ Clock(o) \in Nat
      BY <1>4, <1>5, FS_EmptySet, ClockIsANumber DEF PayerLegs
    <2>2. \A o \in Operators, l \in Payments :
             events[o][l].acceptedAt < Clock(o) + Fine /\ events[o][l].acceptedAt <= Clock(o) + Cardinality(PayerLegs(o))
      BY <1>2, <1>5, <2>1, OutcomesNumbers
    <2> QED BY <2>1, <2>2 DEF TakenInOrder
  <1>8. \A o \in Operators : CursorIsBehind(imports[o].cursor, Other(o))
    BY <1>1, <1>3 DEF CursorIsBehind
  <1>9. ImportsMissNothing
    <2>1. \A o \in Operators, l \in Payments : ~ByPayer(events[Other(o)][l]) /\ refusals[o][l] = {}
      BY <1>1, <1>5, OtherIsAnother DEF HasPayerOutcome
    <2> QED BY <2>1 DEF ImportsMissNothing
  <1> QED BY <1>4, <1>6, <1>7, <1>8, <1>9 DEF OutcomesIInv

LEMMA OutcomesNextKeeps ==
    ASSUME OutcomesIInv, [OutcomesNext]_outcomesVars
    PROVE  OutcomesIInv'
  <1>1. ASSUME NEW o \in Operators, NEW s \in signed, AdmitPosted(o, s) PROVE OutcomesIInv'
    BY <1>1, AdmitPostedKeeps
  <1>2. ASSUME NEW o \in Operators, NEW l \in Payments, AdmitCredentialed(o, l) PROVE OutcomesIInv'
    BY <1>2, AdmitCredentialedKeeps
  <1>3. ASSUME NEW o \in Operators, ImportItem(o) PROVE OutcomesIInv'
    BY <1>3, ImportItemKeeps
  <1>4. ASSUME NEW o \in Operators, SaveImports(o) PROVE OutcomesIInv'
    BY <1>4, SaveImportsKeeps
  <1>5. ASSUME NEW o \in Operators, Restart(o) PROVE OutcomesIInv'
    BY <1>5, RestartKeeps
  <1>6. ASSUME NEW l \in Payments, PayerSigns(l) PROVE OutcomesIInv'
    BY <1>6, PayerSignsKeeps
  <1>7. CASE Tick
    BY <1>7, TickKeeps
  <1>8. CASE UNCHANGED outcomesVars
    <2>1. UNCHANGED <<now, signed, events, saved, imports, down, refusals>>
      BY <1>8 DEF outcomesVars
    <2>2. signed \subseteq [leg : Payments, at : Nat] /\ saved \in HeldOutcomes
      BY DEF OutcomesIInv, OutcomesTypes
    <2> QED BY <2>1, <2>2, QuietKeeps
  <1> QED BY <1>1, <1>2, <1>3, <1>4, <1>5, <1>6, <1>7, <1>8 DEF OutcomesNext

\* The invariant of the outcomes two operators keep: taken one by one in the order of their times,
\* each in time, and no import ahead of what the peer will take next (recordPayerOutcome,
\* payerOutcomesSince, importFromPeer).
THEOREM OutcomesHold == OutcomesSpec => []OutcomesIInv
  <1>1. OutcomesInit => OutcomesIInv
    BY OutcomesInitKeeps
  <1>2. OutcomesIInv /\ [OutcomesNext]_outcomesVars => OutcomesIInv'
    BY OutcomesNextKeeps
  <1> QED BY <1>1, <1>2, PTL DEF OutcomesSpec

\* An import passes nothing over: what the peer took at or before the cursor is held here or was
\* refused here for a reason an import may have (payerOutcomesSince, importFromPeer, importOne).
THEOREM ImportsPassNothingOver == OutcomesSpec => []ImportsMissNothing
  <1>1. OutcomesIInv => ImportsMissNothing
    BY DEF OutcomesIInv
  <1> QED BY <1>1, OutcomesHold, PTL

\* What is taken is taken over nothing of a payer's, and over a credentialed outcome only inside
\* the window.
LEMMA TakingIsFinal ==
    ASSUME OutcomesIInv, NEW o \in Operators, NEW l \in Payments, NEW h \in Heads, MayReplace(o, l, h),
           NEW e, ByPayer(e), events' = [events EXCEPT ![o] = [events[o] EXCEPT ![l] = e]]
    PROVE  \A q \in Operators, k \in Payments : events'[q][k] # events[q][k] /\ events[q][k].source # "none" =>
               events[q][k].source = "credentialed" /\ ByPayer(events'[q][k]) /\ now - HeadLag - Settled[k] <= Window
  <1>1. OutcomesTypes /\ now \in Nat
    BY DEF OutcomesIInv, OutcomesTypes
  <1>2. h \in Int /\ h >= now - HeadLag /\ Settled[l] \in Nat
    BY <1>1, OutcomesNumbers DEF Heads
  <1>3. ~HasPayerOutcome(o, l) /\ (events[o][l].source = "credentialed" => h - Settled[l] <= Window)
    BY <1>1, <1>2, ReplacedInTime
  <1>4. events[o][l].source \in {"none", "credentialed"}
    BY <1>1, <1>3, HeldIsTyped, HeldFields DEF HasPayerOutcome, ByPayer
  <1>5. /\ events'[o][l] = e
        /\ \A q \in Operators, k \in Payments : q # o \/ k # l => events'[q][k] = events[q][k]
    BY <1>1 DEF OutcomesTypes, HeldOutcomes
  <1>6. events[o][l].source # "none" => now - HeadLag - Settled[l] <= Window
    BY <1>1, <1>2, <1>3, <1>4, OutcomesNumbers
  <1> QED BY <1>4, <1>5, <1>6

LEMMA OutcomesStay ==
    ASSUME OutcomesIInv, [OutcomesNext]_outcomesVars
    PROVE  \A q \in Operators, k \in Payments : events'[q][k] # events[q][k] /\ events[q][k].source # "none" =>
               \/ q \in down'
               \/ events[q][k].source = "credentialed" /\ ByPayer(events'[q][k]) /\ now - HeadLag - Settled[k] <= Window
  <1> DEFINE Stays == \A q \in Operators, k \in Payments : events'[q][k] # events[q][k] /\ events[q][k].source # "none" =>
               \/ q \in down'
               \/ events[q][k].source = "credentialed" /\ ByPayer(events'[q][k]) /\ now - HeadLag - Settled[k] <= Window
  <1>0. OutcomesTypes /\ \A h \in Heads : h \in Int
    BY OutcomesNumbers DEF OutcomesIInv, OutcomesTypes, Heads
  <1>1. ASSUME NEW o \in Operators, NEW s \in signed, AdmitPosted(o, s) PROVE Stays
    <2>1. s \in [leg : Payments, at : Nat] /\ s.leg \in Payments
      BY <1>0 DEF OutcomesTypes
    <2>2. PICK h \in Heads : Verdict(o, s, h, h, FALSE) = "ok" /\ events' = [events EXCEPT ![o] = Recorded(o, s, h)]
      BY <1>1 DEF AdmitPosted
    <2> DEFINE e == [source |-> "payer", checkedAt |-> h, signedAt |-> s.at, acceptedAt |-> NextAcceptedAt(o)]
    <2>3. MayReplace(o, s.leg, h)
      BY <1>0, <2>1, <2>2, OkIsTimely
    <2>4. ByPayer(e) /\ events' = [events EXCEPT ![o] = [events[o] EXCEPT ![s.leg] = e]]
      BY <2>2 DEF ByPayer, Recorded
    <2> HIDE DEF e
    <2> QED BY <2>1, <2>3, <2>4, TakingIsFinal
  <1>2. ASSUME NEW o \in Operators, NEW l \in Payments, AdmitCredentialed(o, l) PROVE Stays
    <2>1. /\ events[o][l].source = "none"
          /\ \A q \in Operators, k \in Payments : q # o \/ k # l => events'[q][k] = events[q][k]
      BY <1>0, <1>2 DEF AdmitCredentialed, OutcomesTypes, HeldOutcomes
    <2> QED BY <2>1
  <1>3. ASSUME NEW o \in Operators, ImportItem(o) PROVE Stays
    <2>1. \/ events' = events
          \/ \E l \in NextServed(Other(o), imports[o].cursor), h \in Heads :
               LET item == events[Other(o)][l] IN
               /\ ImportOne(o, l, item, h) = "ok"
               /\ events' = [events EXCEPT ![o] = Recorded(o, [leg |-> l, at |-> item.signedAt], item.checkedAt)]
      BY <1>3 DEF ImportItem
    <2>2. CASE events' = events
      BY <2>2
    <2>3. ASSUME NEW l \in NextServed(Other(o), imports[o].cursor), NEW h \in Heads,
                 ImportOne(o, l, events[Other(o)][l], h) = "ok",
                 events' = [events EXCEPT ![o] = Recorded(o, [leg |-> l, at |-> events[Other(o)][l].signedAt],
                                                             events[Other(o)][l].checkedAt)]
          PROVE  Stays
      <3> DEFINE item == events[Other(o)][l]
                 s == [leg |-> l, at |-> item.signedAt]
                 e == [source |-> "payer", checkedAt |-> item.checkedAt, signedAt |-> s.at,
                       acceptedAt |-> NextAcceptedAt(o)]
      <3>1. l \in Payments
        BY DEF NextServed
      <3>2. item.signedAt \in Nat /\ item.checkedAt \in Int
        BY <1>0, <3>1, OtherIsAnother, HeldIsTyped, HeldFields
      <3>3. Verdict(o, s, item.checkedAt, h, TRUE) = "ok"
        BY <2>3 DEF ImportOne
      <3>4. s \in [leg : Payments, at : Nat] /\ s.leg = l
        BY <3>1, <3>2
      <3>5. ByPayer(e) /\ events' = [events EXCEPT ![o] = [events[o] EXCEPT ![l] = e]]
        BY <2>3 DEF ByPayer, Recorded
      <3> HIDE DEF e, s, item
      <3>6. MayReplace(o, l, h)
        BY <1>0, <3>2, <3>3, <3>4, OkIsTimely
      <3> QED BY <3>1, <3>5, <3>6, TakingIsFinal
    <2> QED BY <2>1, <2>2, <2>3
  <1>4. ASSUME NEW o \in Operators, Restart(o) PROVE Stays
    <2>1. o \in down' /\ \A q \in Operators : q # o => events'[q] = events[q]
      BY <1>0, <1>4 DEF Restart, OutcomesTypes, HeldOutcomes
    <2> QED BY <2>1
  <1>5. CASE UNCHANGED events
    BY <1>5
  <1>7. ASSUME NEW o \in Operators, SaveImports(o) PROVE Stays
    BY <1>5, <1>7 DEF SaveImports
  <1>8. ASSUME NEW l \in Payments, PayerSigns(l) PROVE Stays
    BY <1>5, <1>8 DEF PayerSigns
  <1>9. CASE Tick
    BY <1>5, <1>9 DEF Tick
  <1>10. CASE UNCHANGED outcomesVars
    BY <1>5, <1>10 DEF outcomesVars
  <1> QED BY <1>1, <1>2, <1>3, <1>4, <1>7, <1>8, <1>9, <1>10 DEF OutcomesNext

\* An operator's outcome for a payment does not change once the payer's is taken, except by a death
\* that loses what no save kept, and a credentialed one gives way to the payer's alone, inside the
\* window (recordPayerOutcome, importOne, the restart's load).
THEOREM OutcomesStayFinal == OutcomesSpec => OutcomesAreFinal
  <1>1. OutcomesIInv /\ [OutcomesNext]_outcomesVars =>
          [\A o \in Operators, l \in Payments : events'[o][l] # events[o][l] /\ events[o][l].source # "none" =>
             \/ o \in down'
             \/ events[o][l].source = "credentialed" /\ ByPayer(events'[o][l]) /\ now - HeadLag - Settled[l] <= Window]_outcomesVars
    BY OutcomesStay
  <1> QED BY <1>1, OutcomesHold, PTL DEF OutcomesSpec, OutcomesAreFinal

==============================================================================
