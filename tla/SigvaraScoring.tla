---------------------------- MODULE SigvaraScoring ----------------------------
(***************************************************************************)
(* The factors measured from one agent's payments, and the standing of its *)
(* payers that they rest on.  The standing is read from the chain in       *)
(* chunks, with waits between them, into a cache that the epoch empties    *)
(* when it begins and that GET /score shares.                              *)
(*                                                                         *)
(* A unit of time is a half-life of evidence. Bounds: MaxTime, MaxPaid     *)
(* payments, MaxMoves of a payer's standing, MaxFaults reads that fail.    *)
(***************************************************************************)
EXTENDS Naturals, Sequences, SequencesExt, FiniteSets, FiniteSetsExt

CONSTANTS
    Payers, Amounts, Outcomes,   \* an outcome is "good", "bad" or "none"
    Requests,         \* what scores at the same time: "epoch", and queries
    FeeUnit, MaxPerPayer,
    MaxHard,          \* MAX_HARD_SCORE, the most a payer's standing can be
    TrustWeight,
    ChunkSize,        \* PAYER_READ_CHUNK
    HalfLifeDays,
    MaxTime, MaxPaid, MaxMoves, MaxFaults

ScoringAssumption ==
    /\ {FeeUnit, MaxPerPayer, MaxHard, ChunkSize} \subseteq Nat \ {0}
    /\ {TrustWeight, HalfLifeDays, MaxTime, MaxPaid, MaxMoves, MaxFaults} \subseteq Nat

VARIABLES
    now,
    events,     \* the agent's payments, in the order evidence has
    standing,   \* each payer's standing on chain
    cache,      \* payerScoreCache
    reading,    \* per request, where its reading of the payers has got to
    used,       \* history: per request, the standings its last score used
    since,      \* history: per payer, the standings it had since the epoch began or its reads were sent
    moves, faults

vars == <<now, events, standing, cache, reading, used, since, moves, faults>>

Unknown == MaxHard + 1     \* not in the map: undefined
Hards == {0, MaxHard}
Idle == [on |-> FALSE, held |-> <<>>, misses |-> <<>>, got |-> <<>>, at |-> 0]
NoScore == [p \in Payers |-> 0]

------------------------------------------------------------------------------
(* The factors.                                                            *)

Scale == 10000             \* WEIGHT_SCALE, a hundredth of the code's, whose products TLC cannot hold
Milli == Scale \div 1000
TrustScale == 1000         \* TRUST_SCALE

\* decayWeight, at whole half-lives, to the nearest unit.
DecayWeight(age) == (2 * Scale + 2 ^ age) \div (2 * 2 ^ age)

HasOutcome(e) == e.outcome # "none"

From(evs, p) == SelectSeq(evs, LAMBDA e : e.payer = p)
PayersOf(evs) == {evs[i].payer : i \in DOMAIN evs}
Total(evs, Value(_)) == FoldLeft(LAMBDA sum, e : sum + Value(e), 0, evs)

\* byPayer.
ByPayer(evs, p, t) ==
    LET mine == From(evs, p)
        w(e) == DecayWeight(t - e.at)
    IN [volume |-> Total(mine, LAMBDA e : (e.amount * w(e)) \div Scale),
        weight |-> Total(mine, LAMBDA e : IF HasOutcome(e) THEN w(e) ELSE 0),
        good   |-> Total(mine, LAMBDA e : IF e.outcome = "good" THEN w(e) ELSE 0)]

\* A standing nothing is known of counts as none.
Hard(scores, p) == IF scores[p] = Unknown THEN 0 ELSE scores[p]

\* Mutant: no cap.
CappedAt_Uncapped(base, hard) == 1000 * base

\* trustMultiplier and cappedAt.
CappedAt(base, hard) == (base * (TrustScale + (TrustScale * TrustWeight * hard) \div MaxHard)) \div TrustScale

Sum(S, Value(_)) == MapThenSumSet(Value, S)
Least(a, b) == IF a < b THEN a ELSE b

\* diversifiedVolume, and feeScoreFromVolume with its cap of 20.
FeeScore(evs, scores, t) ==
    Least(20, Sum(PayersOf(evs), LAMBDA p : Least(ByPayer(evs, p, t).volume, CappedAt(FeeUnit * MaxPerPayer, Hard(scores, p)))) \div FeeUnit)

\* diversifiedAttestations, in thousandths, and successScore with SUCCESS_PRIOR 5 and its cap of 15. What a
\* capped payer said counts for less, in the same proportion.
SuccessScore(evs, scores, t) ==
    LET cap(p) == CappedAt(MaxPerPayer * Scale, Hard(scores, p))
        of == [p \in PayersOf(evs) |-> ByPayer(evs, p, t)]
        weight(p) == Least(of[p].weight, cap(p)) \div Milli
        good(p) == IF of[p].weight <= cap(p) THEN of[p].good \div Milli
                   ELSE ((of[p].good \div Milli) * (cap(p) \div Milli)) \div (of[p].weight \div Milli)
        total == Sum(PayersOf(evs), weight)
    IN IF total = 0 THEN 0 ELSE (15 * Sum(PayersOf(evs), good)) \div (total + 5000)

\* ageCurve: three times the logarithm of the days and one, at most 30.
AgeCurve(days) == IF days = 0 THEN 0 ELSE Cardinality({k \in 1..30 : 2 ^ k <= (days + 1) ^ 3})

\* activityWindow and ageScore: tenure runs from the first payment to the last, and fades with the last.
AgeScore(evs, t) ==
    IF evs = <<>> THEN 0
    ELSE LET ats == {evs[i].at : i \in DOMAIN evs}
         IN (AgeCurve(HalfLifeDays * (Max(ats) - Min(ats))) * DecayWeight(t - Max(ats))) \div Scale

\* propagationScore: once per payer, however much it paid.
Propagation(evs, scores) == Least(5, Sum(PayersOf(evs), LAMBDA p : Hard(scores, p)) \div MaxHard)

Measured(evs, scores, t) == [fee |-> FeeScore(evs, scores, t), success |-> SuccessScore(evs, scores, t),
                             age |-> AgeScore(evs, t), propagation |-> Propagation(evs, scores)]

------------------------------------------------------------------------------
(* Reading the payers' standing.                                           *)

\* The payers in the order their first payments have.
Unique(evs) == FoldLeft(LAMBDA acc, e : IF Contains(acc, e.payer) THEN acc ELSE Append(acc, e.payer), <<>>, evs)
Misses(evs, kept) == SelectSeq(Unique(evs), LAMBDA p : kept[p] = Unknown)
Chunk(r) == SubSeq(reading[r].misses, 1, Least(ChunkSize, Len(reading[r].misses)))
Asking(kept) == [Idle EXCEPT !.on = TRUE, !.held = events, !.misses = Misses(events, kept), !.at = now]

Emptied == [p \in Payers |-> Unknown]

Answered(r, p) == {reading[r].got[i][2] : i \in {j \in DOMAIN reading[r].got : reading[r].got[j][1] = p}}

\* The epoch begins: what it scores from here on is read from here on, or by a query already under way.
StartEpoch ==
    /\ "epoch" \in Requests /\ ~reading["epoch"].on
    /\ cache' = Emptied
    /\ reading' = [reading EXCEPT !["epoch"] = Asking(Emptied)]
    /\ since' = [p \in Payers |-> {standing[p]} \cup UNION {Answered(r, p) : r \in Requests}]
    /\ UNCHANGED <<now, events, standing, used, moves, faults>>

StartQuery(r) ==
    /\ r # "epoch" /\ ~reading[r].on
    /\ reading' = [reading EXCEPT ![r] = Asking(cache)]
    /\ UNCHANGED <<now, events, standing, cache, used, since, moves, faults>>

\* The chain answers a chunk of reads, which count once all of them have come back.
ReadChunk(r) ==
    /\ reading[r].on /\ reading[r].misses # <<>> /\ reading[r].got = <<>>
    /\ reading' = [reading EXCEPT ![r].got = [i \in DOMAIN Chunk(r) |-> <<Chunk(r)[i], standing[Chunk(r)[i]]>>]]
    /\ UNCHANGED <<now, events, standing, cache, used, since, moves, faults>>

Kept(got) == [p \in Payers |-> IF \E i \in DOMAIN got : got[i][1] = p
                               THEN got[CHOOSE i \in DOMAIN got : got[i][1] = p][2] ELSE cache[p]]

KeepChunk(r) ==
    /\ reading[r].on /\ reading[r].got # <<>>
    /\ cache' = Kept(reading[r].got)
    /\ reading' = [reading EXCEPT ![r].got = <<>>, ![r].misses = SubSeq(@, Len(Chunk(r)) + 1, Len(@))]
    /\ UNCHANGED <<now, events, standing, used, since, moves, faults>>

\* One read of the chunk fails after its retries: the others are kept, and nothing is scored.
ChunkFails(r) ==
    /\ faults < MaxFaults /\ faults' = faults + 1
    /\ reading[r].on /\ reading[r].got # <<>>
    /\ \E i \in DOMAIN reading[r].got : cache' = Kept(RemoveAt(reading[r].got, i))
    /\ reading' = [reading EXCEPT ![r] = Idle]
    /\ UNCHANGED <<now, events, standing, used, since, moves>>

\* What the payers of the evidence are taken to have: whatever the cache says by now.
Out(r) == [p \in Payers |-> IF p \in PayersOf(reading[r].held) THEN cache[p] ELSE 0]

\* The score is made. A query's is served, the epoch's proposed.
Finish(r) ==
    /\ reading[r].on /\ reading[r].misses = <<>>
    /\ used' = [used EXCEPT ![r] = Out(r)]
    /\ reading' = [reading EXCEPT ![r] = Idle]
    /\ UNCHANGED <<now, events, standing, cache, since, moves, faults>>

------------------------------------------------------------------------------
(* The world.                                                              *)

Pay(p, amount, outcome) ==
    /\ Len(events) < MaxPaid
    /\ events' = Append(events, [payer |-> p, amount |-> amount, outcome |-> outcome, at |-> now])
    /\ UNCHANGED <<now, standing, cache, reading, used, since, moves, faults>>

\* A payer's own score is finalized, or it is slashed.
StandingMoves(p) ==
    /\ moves < MaxMoves /\ moves' = moves + 1
    /\ \E h \in Hards \ {standing[p]} : standing' = [standing EXCEPT ![p] = h] /\ since' = [since EXCEPT ![p] = @ \cup {h}]
    /\ UNCHANGED <<now, events, cache, reading, used, faults>>

\* Half-lives are months: no reading of payers lasts that long.
TimePasses ==
    /\ now < MaxTime /\ now' = now + 1 /\ \A r \in Requests : ~reading[r].on
    /\ UNCHANGED <<events, standing, cache, reading, used, since, moves, faults>>

Init ==
    /\ now = 0 /\ events = <<>> /\ standing \in [Payers -> Hards]
    /\ cache = [p \in Payers |-> Unknown]
    /\ reading = [r \in Requests |-> Idle] /\ used = [r \in Requests |-> NoScore]
    /\ since = [p \in Payers |-> {standing[p]}]
    /\ moves = 0 /\ faults = 0

Next ==
    \/ StartEpoch \/ TimePasses
    \/ \E r \in Requests : StartQuery(r) \/ ReadChunk(r) \/ KeepChunk(r) \/ ChunkFails(r) \/ Finish(r)
    \/ \E p \in Payers, amount \in Amounts, outcome \in Outcomes : Pay(p, amount, outcome)
    \/ \E p \in Payers : StandingMoves(p)

Spec == Init /\ [][Next]_vars

------------------------------------------------------------------------------
(* What it should guarantee.                                               *)

Current == Measured(events, standing, now)

\* A payment speaks only for what was said of it. One that nobody reported on leaves the success factor where it
\* was, a good one never lowers it and a bad one never raises it, through the caps on what one payer can say;
\* and no payment lowers the fee factor or inherited trust.
OutcomesSpeak ==
    [][events' # events =>
        LET before == Current.success  after == Current'.success
        IN CASE Last(events').outcome = "none" -> after = before
             [] Last(events').outcome = "good" -> after >= before
             [] Last(events').outcome = "bad"  -> after <= before]_vars

\* However much it pays and however often, one payer buys no more than its cap, raised by its own standing; an
\* agent that was never paid scores nothing from having been registered for long; and what an agent that is
\* no longer paid has earned in fees and tenure only fades.
EvidenceBounds ==
    [][LET m == Current'
       IN /\ m.fee <= Sum(PayersOf(events'), LAMBDA p : MaxPerPayer * (IF standing'[p] = MaxHard THEN 1 + TrustWeight ELSE 1))
          /\ events' = <<>> => m = [fee |-> 0, success |-> 0, age |-> 0, propagation |-> 0]
          /\ now' > now => m.fee <= Current.fee /\ m.age <= Current.age]_<<now, events, standing>>

Proposes == "epoch" \in Requests /\ reading["epoch"].on /\ ~reading'["epoch"].on /\ used' # used

\* The epoch counts each payer by a standing it had since the epoch began, or since a read under way then was
\* answered, and leaves no payer of the evidence out.
EpochKnowsPayers ==
    [][Proposes =>
        \A p \in PayersOf(reading["epoch"].held) : used'["epoch"][p] \in since[p]]_vars

==============================================================================
