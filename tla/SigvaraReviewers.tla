--------------------------- MODULE SigvaraReviewers ---------------------------
(***************************************************************************)
(* Which ERC-8004 feedback the external factor counts.  A reviewer counts  *)
(* when it paid the agent and is in good standing, and reviewers that one  *)
(* party funds or runs count once between them.  Everything is read as of  *)
(* a snapshot, one read after another, while the chain goes on, and two    *)
(* operators have to come to the same number.                              *)
(*                                                                         *)
(* A block holds one move. Bounds: the length of Stamps, MaxFaults reads    *)
(* that fail, and one score from each operator.                            *)
(***************************************************************************)
EXTENDS Integers, Sequences, SequencesExt, FiniteSets, FiniteSetsExt, Relation

CONSTANTS
    Operators,        \* oracle operators, each of which scores
    Reviewers,        \* the linked agent's reviewers, in the order their feedback is listed
    OperatorOf,       \* each reviewer's operator
    Own,              \* the agent's own side: its address and its operator
    PublicFunders,
    Rich,             \* wallets that hold Plenty from the start
    Rating,           \* each reviewer's mean rating, out of Stars
    Past, Moves,      \* what has happened on chain, and what may
    Stamps,           \* the time of each block
    Day,              \* SNAPSHOT_SECONDS
    Floor,            \* FUNDING_FLOOR
    FullWeight,       \* FULL_WEIGHT_CLUSTERS
    MaxFaults

Stars == 4
Cap == 25                 \* MAX_EXTERNAL_SCORE
Whole == 16               \* the weight of a reviewer that paid within the last half-life
Plenty == 10

ReviewersAssumption ==
    /\ {Day, Floor, FullWeight} \subseteq Nat \ {0} /\ MaxFaults \in Nat /\ Floor < Plenty
    /\ \A i \in 2..Len(Stamps) : Stamps[i - 1] <= Stamps[i]
    /\ \A i \in DOMAIN Reviewers : Rating[Reviewers[i]] \in 0..Stars /\ Reviewers[i] \notin Own

VARIABLES
    blocks,     \* the move in each block mined so far
    runs,       \* per operator, the scoring it is in
    scores,     \* per operator, the last score it made and what it was made from
    faults

vars == <<blocks, runs, scores, faults>>

Height == Len(blocks)
Clock == Stamps[Height]
NoRun == [on |-> FALSE, sec |-> 0, at |-> 0, firm |-> FALSE, left |-> <<>>, verdicts |-> <<>>]
NoScore == [sec |-> -1, at |-> 0, firm |-> FALSE, score |-> 0]

------------------------------------------------------------------------------
(* The chain, as of a block.                                               *)

Sum(S, Value(_)) == MapThenSumSet(Value, S)
Sends(a, b) == {i \in 1..b : blocks[i].kind \in {"send", "pay", "permit"} /\ blocks[i].from = a}
Receipts(a, b) == {i \in 1..b : blocks[i].kind \in {"send", "pay", "permit"} /\ blocks[i].to = a}
Balance(a, b) == (IF a \in Rich THEN Plenty ELSE 0) + Sum(Receipts(a, b), LAMBDA i : blocks[i].value)
                                                     - Sum(Sends(a, b), LAMBDA i : blocks[i].value)

\* A permit moves an account's money without a transaction of its own.
Touched(a, b) == Balance(a, b) >= Floor \/ \E i \in Sends(a, b) : blocks[i].kind # "permit"

\* Registered, Active, bonded, of the tenure and with the score asked for.
InStanding(r, b) == Cardinality({i \in 1..b : blocks[i].kind = "standing" /\ blocks[i].from = r}) % 2 = 0

Mine(move) ==
    /\ Height < Len(Stamps) /\ ~Contains(blocks, move)
    /\ move.kind \in {"send", "pay", "permit"} => Balance(move.from, Height) >= move.value
    /\ blocks' = Append(blocks, move)
    /\ UNCHANGED <<runs, scores, faults>>

------------------------------------------------------------------------------
(* Reading it.                                                             *)

SnapshotOf(t) == (t \div Day) * Day

\* The last block at or before a time, which is the head while the head has reached no later one.
BlockAtOrBefore(sec) == Max({0} \cup {i \in 1..Height : Stamps[i] <= sec})

\* The payments settled by the snapshot, with their blocks.
Evidence(sec) == SelectSeq([i \in 1..Height |-> [move |-> blocks[i], block |-> i]],
                           LAMBDA e : e.move.kind = "pay" /\ Stamps[e.block] <= sec)

\* Mutant: over all there is.
Landing_Head(a, cap) ==
    LET Search[lo \in 0..Height, hi \in 0..Height] ==
            IF lo >= hi THEN hi
            ELSE LET mid == (lo + hi) \div 2 IN IF Touched(a, mid) THEN Search[lo, mid] ELSE Search[mid + 1, hi]
    IN Search[0, Height]

\* findFirstFunder's search, over 0..cap.
Landing(a, cap) ==
    LET Search[lo \in 0..cap, hi \in 0..cap] ==
            IF lo >= hi THEN hi
            ELSE LET mid == (lo + hi) \div 2 IN IF Touched(a, mid) THEN Search[lo, mid] ELSE Search[mid + 1, hi]
    IN Search[0, cap]

\* Who first funded a wallet by a block, if a search finds anyone; when it had dropped below the floor again, the
\* block before is tried.
FindFirstFunder(a, cap) ==
    LET from == IF Touched(a, cap) THEN cap ELSE cap - 1
        landed == IF from >= 0 /\ Touched(a, from) THEN {Landing(a, from)} \ {0} ELSE {}
    IN {[funder |-> blocks[i].from, block |-> i] :
            i \in {j \in landed : /\ blocks[j].kind \in {"send", "pay", "permit"}
                                  /\ blocks[j].to = a /\ blocks[j].value >= Floor}}

\* traceFunding, FUNDER_HOPS being two: the wallets behind one, or that its own side is among them, or that no
\* funder was found. A public funder ends the trace.
Trace(a, cap) ==
    LET first == FindFirstFunder(a, cap)
        private(hop) == {f \in hop : f.funder \notin PublicFunders}
        second == UNION {FindFirstFunder(f.funder, f.block) : f \in {g \in private(first) : g.funder \notin Own}}
        behind == {f.funder : f \in private(first \cup second)}
    IN [found |-> first # {}, self |-> behind \cap Own # {}, keys |-> behind]

Dismissed == [ok |-> FALSE, keys |-> {}, weight |-> 0]

\* verdictFor: paid, not the agent's own, in good standing, and funded by someone else, it and its operator.
VerdictFor(r, sec, at) ==
    LET paid == SelectSeq(Evidence(sec), LAMBDA e : e.move.from = r)
        mine == Trace(r, Head(paid).block)
        theirs == Trace(OperatorOf[r], at)
        age == Max({0, sec - Stamps[Last(paid).block]}) \div Day
    IN IF paid = <<>> \/ OperatorOf[r] \in Own \/ ~InStanding(r, at) THEN Dismissed
       ELSE IF ~mine.found \/ mine.self \/ theirs.self THEN Dismissed
       ELSE [ok |-> TRUE, keys |-> {r, OperatorOf[r]} \cup mine.keys \cup theirs.keys, weight |-> Whole \div (2 ^ age)]

------------------------------------------------------------------------------
(* The factor.                                                             *)

\* clustersOf, one reviewer at a time: it joins every cluster that has one of its keys.
Joined(clusters, m) ==
    LET near == {c \in clusters : \E n \in c : n.keys \cap m.keys # {}}
    IN (clusters \ near) \cup {UNION near \cup {m}}

Clusters(counted) == FoldLeft(Joined, {}, counted)

\* scoreReviews: a cluster rates as its members do by weight, and weighs as its most recent; the whole is scaled
\* by how many full weights there are, and rounded.
ScoreOf(weights) ==
    LET total == Sum(weights, LAMBDA c : c.weight)
        sum == Sum(weights, LAMBDA c : (100 * c.weight * c.rated) \div c.by)
        full == Max({total, FullWeight * Whole})
    IN IF total = 0 THEN 0 ELSE (2 * Cap * sum + 100 * Stars * full) \div (2 * 100 * Stars * full)

ScoreReviews(verdicts) ==
    LET all == [i \in DOMAIN verdicts |-> [keys |-> verdicts[i].keys, weight |-> verdicts[i].weight,
                                           rating |-> Rating[Reviewers[i]], who |-> Reviewers[i], ok |-> verdicts[i].ok]]
        counted == SelectSeq(all, LAMBDA m : m.ok)
    IN ScoreOf({[of |-> c, weight |-> Max({m.weight : m \in c}),
                 rated |-> Sum(c, LAMBDA m : m.weight * m.rating), by |-> Sum(c, LAMBDA m : m.weight)] : c \in Clusters(counted)})

\* externalScoreFor: the snapshot is taken, then each reviewer is judged.
StartScoring(o) ==
    /\ Height > 0 /\ ~runs[o].on /\ scores[o] = NoScore
    /\ LET sec == SnapshotOf(Clock)
       IN runs' = [runs EXCEPT ![o] = [on |-> TRUE, sec |-> sec, at |-> BlockAtOrBefore(sec), firm |-> Clock > sec,
                                       left |-> Reviewers, verdicts |-> <<>>]]
    /\ UNCHANGED <<blocks, scores, faults>>

JudgeOne(o) ==
    /\ runs[o].on /\ runs[o].left # <<>>
    /\ runs' = [runs EXCEPT ![o].left = Tail(@),
                            ![o].verdicts = Append(@, VerdictFor(runs[o].left[1], runs[o].sec, runs[o].at))]
    /\ UNCHANGED <<blocks, scores, faults>>

\* A read fails after its retries: the agent is not scored this time.
ReadFails(o) ==
    /\ runs[o].on /\ faults < MaxFaults /\ faults' = faults + 1
    /\ runs' = [runs EXCEPT ![o] = NoRun]
    /\ UNCHANGED <<blocks, scores>>

FinishScoring(o) ==
    /\ runs[o].on /\ runs[o].left = <<>>
    /\ scores' = [scores EXCEPT ![o] = [sec |-> runs[o].sec, at |-> runs[o].at, firm |-> runs[o].firm,
                                        score |-> ScoreReviews(runs[o].verdicts)]]
    /\ runs' = [runs EXCEPT ![o] = NoRun]
    /\ UNCHANGED <<blocks, faults>>

Init ==
    /\ blocks = Past /\ faults = 0
    /\ runs = [o \in Operators |-> NoRun]
    /\ scores = [o \in Operators |-> NoScore]

Next ==
    \/ \E move \in Moves : Mine(move)
    \/ \E o \in Operators : StartScoring(o) \/ JudgeOne(o) \/ ReadFails(o) \/ FinishScoring(o)

Spec == Init /\ [][Next]_vars

------------------------------------------------------------------------------
(* What it should guarantee.                                               *)

\* Two operators that score on one day make the same number, however far apart they read and whatever the chain
\* does in between. Only one that read in the very second the day began may have missed a block of that second.
OperatorsAgree ==
    \A o, p \in Operators : scores[o].firm /\ scores[p].firm /\ scores[o].sec = scores[p].sec => scores[o].score = scores[p].score

\* The wallet a search names did bring the one it asks about from nothing over the floor, by the block asked about.
\* A search reads the chain alone, so it is looked at before anybody scores.
Untouched == \A o \in Operators : ~runs[o].on /\ scores[o] = NoScore
FunderIsAFirst ==
    Untouched => \A i \in DOMAIN Reviewers : \A cap \in 1..Height :
        LET r == Reviewers[i]
        IN \A f \in FindFirstFunder(r, cap) :
               /\ f.block <= cap /\ Touched(r, f.block) /\ ~Touched(r, f.block - 1)
               /\ blocks[f.block].from = f.funder /\ blocks[f.block].to = r

\* However many wallets a party spreads its reviews over, they bring no more than one wallet would that paid
\* when its latest did and gave the best rating of any. A party is everyone tied by an operator or a funder,
\* directly or through others.
Parties(v) ==
    LET ok == {i \in DOMAIN Reviewers : v[i].ok}
        tied == TransitiveClosure([<<i, j>> \in ok \X ok |-> v[i].keys \cap v[j].keys # {}], ok)
        party(i) == {j \in ok : tied[i, j]}
    IN {[of |-> P, weight |-> Max({v[j].weight : j \in P}), rated |-> Max({Rating[Reviewers[j]] : j \in P}), by |-> 1]
            : P \in {party(i) : i \in ok}}
Verdicts(s) == [i \in DOMAIN Reviewers |-> VerdictFor(Reviewers[i], s.sec, s.at)]
PartiesCountOnce ==
    \A s \in {scores[o] : o \in Operators} :
        s.firm => \E v \in {Verdicts(s)} : s.score <= ScoreOf(Parties(v))

==============================================================================
