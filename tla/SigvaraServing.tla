----------------------------- MODULE SigvaraServing -----------------------------
(***************************************************************************)
(* What GET /evidence serves: the payments that count by the cut-off, the  *)
(* memo that hands the same array back while the same payments count, and  *)
(* the cache of bodies, which takes the array itself for the revision.  An *)
(* array is a number and what it holds.                                    *)
(*                                                                         *)
(* Bounds: Payments, MaxArrays made, MaxTime.                              *)
(***************************************************************************)
EXTENDS Integers, Sequences, FiniteSets, SequencesExt

CONSTANTS Agents, Payments, MaxBytes, MaxArrays, MaxTime

VARIABLES
    now,
    stored,         \* the array the store holds on each agent
    memo,           \* eventsAt's last answer, and for which array
    cache,          \* the bodies kept, least recently used first
    totalBytes,
    arrays,         \* how many arrays were made
    served          \* ghost: the last body served, and what counted then

vars == <<now, stored, memo, cache, totalBytes, arrays, served>>

ServingAssumption == {MaxBytes, MaxArrays, MaxTime} \subseteq Nat

NoMemo == [of |-> 0, array |-> [n |-> 0, holds |-> {}]]

\* A credit, an outcome and a prune each put a new array in the place of the old.
Replaced(a, holds) ==
    /\ arrays < MaxArrays
    /\ arrays' = arrays + 1
    /\ stored' = [stored EXCEPT ![a] = [n |-> arrays + 1, holds |-> holds]]
    /\ UNCHANGED <<now, memo, cache, totalBytes, served>>

\* A payment of the scored chain counts once it has settled, one of a payment chain at the
\* end of its delay; either may be found late.
Credit ==
    \E a \in Agents, p \in Payments, at \in 0..MaxTime, scored \in BOOLEAN :
        /\ \A e \in stored[a].holds : e.id # p
        /\ scored => at <= now
        /\ Replaced(a, stored[a].holds \cup {[id |-> p, at |-> at, scored |-> scored, outcome |-> FALSE]})

SetOutcome ==
    \E a \in Agents : \E e \in stored[a].holds :
        /\ ~e.outcome
        /\ Replaced(a, (stored[a].holds \ {e}) \cup {[e EXCEPT !.outcome = TRUE]})

\* Pruning drops the oldest, and leaves the array alone when it dropped nothing.
Prune ==
    \E a \in Agents : \E e \in stored[a].holds :
        /\ \A f \in stored[a].holds : e.at <= f.at
        /\ Replaced(a, stored[a].holds \ {e})

------------------------------------------------------------------------------
(* eventsAt.                                                               *)

Counting(a, cut) == {e \in stored[a].holds : e.at <= cut}

Remembered(a, counting) ==
    memo[a].of = stored[a].n /\ Cardinality(memo[a].array.holds) = Cardinality(counting)

Unchanged(a, counting) == counting = stored[a].holds /\ \A e \in counting : e.scored

EventsAt(a, cut) ==
    LET counting == Counting(a, cut)
    IN  IF Remembered(a, counting) THEN memo[a].array
        ELSE IF Unchanged(a, counting) THEN stored[a]
        ELSE [n |-> arrays + 1, holds |-> counting]

\* What asking leaves behind: the answer, and a new array if one was made.
Asked(a, array) ==
    /\ array.n <= MaxArrays
    /\ memo' = [memo EXCEPT ![a] = [of |-> stored[a].n, array |-> array]]
    /\ arrays' = IF array.n > arrays THEN array.n ELSE arrays

\* An epoch, an audit or a score asks for some earlier cut-off, or this one.
AskedElsewhere ==
    /\ \E a \in Agents, cut \in 0..now : Asked(a, EventsAt(a, cut))
    /\ UNCHANGED <<now, stored, cache, totalBytes, served>>

------------------------------------------------------------------------------
(* The cache.                                                              *)

Bytes(body) == Cardinality(body) + 1

\* evictTo: from the front, until the rest fits.
EvictTo(entries, total) ==
    LET fits == {k \in 0..Len(entries) :
                    total - FoldLeft(LAMBDA s, e : s + e.bytes, 0, SubSeq(entries, 1, k)) <= MaxBytes}
        k == CHOOSE x \in fits : \A y \in fits : x <= y
    IN  [entries |-> SubSeq(entries, k + 1, Len(entries)),
         total |-> total - FoldLeft(LAMBDA s, e : s + e.bytes, 0, SubSeq(entries, 1, k))]

Serve ==
    /\ \E a \in Agents :
          LET array == EventsAt(a, now)
              others == SelectSeq(cache, LAMBDA e : e.agent # a)
              held == {i \in DOMAIN cache : cache[i].agent = a}
              freed == IF held = {} THEN 0 ELSE cache[CHOOSE i \in held : TRUE].bytes
              hit == {i \in held : cache[i].revision = array.n}
              made == [agent |-> a, revision |-> array.n, body |-> array.holds, bytes |-> Bytes(array.holds)]
              kept == EvictTo(Append(others, made), totalBytes - freed + made.bytes)
          IN  /\ Asked(a, array)
              /\ IF hit # {}
                 THEN LET e == cache[CHOOSE i \in hit : TRUE]
                      IN  /\ cache' = Append(others, e)
                          /\ served' = [body |-> e.body, counting |-> Counting(a, now)]
                          /\ UNCHANGED totalBytes
                 ELSE /\ served' = [body |-> made.body, counting |-> Counting(a, now)]
                      /\ IF made.bytes > MaxBytes
                         THEN cache' = others /\ totalBytes' = totalBytes - freed
                         ELSE cache' = kept.entries /\ totalBytes' = kept.total
    /\ UNCHANGED <<now, stored>>

Tick ==
    /\ now < MaxTime
    /\ now' = now + 1
    /\ UNCHANGED <<stored, memo, cache, totalBytes, arrays, served>>

Init ==
    /\ now = 0
    /\ stored = [a \in Agents |-> [n |-> CHOOSE n \in 1..Cardinality(Agents) :
                                          SetToSeq(Agents)[n] = a, holds |-> {}]]
    /\ memo = [a \in Agents |-> NoMemo]
    /\ cache = <<>> /\ totalBytes = 0 /\ arrays = Cardinality(Agents)
    /\ served = [body |-> {}, counting |-> {}]

Next == Credit \/ SetOutcome \/ Prune \/ AskedElsewhere \/ Serve \/ Tick

Spec == Init /\ [][Next]_vars

------------------------------------------------------------------------------
(* Properties.                                                             *)

\* Nobody is served evidence of another moment: the body is of the payments that counted
\* when it was asked for, whatever was credited, reported, pruned or asked in between.
ServedIsCurrent == served.body = served.counting

\* The bytes counted are those of the bodies kept, one for an agent, and within the budget.
CacheIsCounted ==
    /\ totalBytes = FoldLeft(LAMBDA s, e : s + e.bytes, 0, cache)
    /\ totalBytes <= MaxBytes
    /\ \A i, j \in DOMAIN cache : cache[i].agent = cache[j].agent => i = j

\* The two together.
ServingInv == ServedIsCurrent /\ CacheIsCounted
================================================================================
