----------------------------- MODULE SigvaraLimiter -----------------------------
(***************************************************************************)
(* The fixed-window rate limiter of the oracle's routes, with its sweep,   *)
(* and the badge route in front of it: a cache of short-lived answers,     *)
(* reads of the chain that take their time, and a limit on the misses.     *)
(* Every other metered route asks the limiter and is refused or goes on.   *)
(*                                                                         *)
(* Bounds: MaxTime, MaxAsked requests of any kind, MaxRead for one read of *)
(* the chain, MaxMoves slashes.                     *)
(***************************************************************************)
EXTENDS Integers, Sequences, FiniteSets, SequencesExt

CONSTANTS
    Clients, Classes,
    Window, Quota,        \* RATE_WINDOW_MS, RATE_MAX
    Kept, KeptUnavailable,  \* how long a badge is cached, read or not
    MaxEntries,             \* badges cached at most
    Addresses,
    MaxRead, MaxTime, MaxAsked, MaxMoves

VARIABLES
    now,
    buckets, lastSweep,     \* the limiter's state, one bucket for a key
    asked,                  \* ghost: every metered request, with its answer
    standing, since,        \* what the chain says of each agent, and since when
    badges,                 \* the cache, oldest first
    reads,                  \* reads of the chain on their way, and what they saw
    shown,                  \* ghost: the badge sent last
    moves           \* slashes so far

vars == <<now, buckets, lastSweep, asked, standing, since, badges, reads, shown, moves>>

LimiterAssumption ==
    {Window, Quota, Kept, KeptUnavailable, MaxEntries, MaxRead, MaxTime, MaxAsked, MaxMoves} \subseteq Nat

------------------------------------------------------------------------------
(* The limiter.                                                            *)

\* One bucket for a client and a class of routes.
RateKey(client, class) == <<client, class>>

Expired(b) == now >= b.reset

\* sweepRateBuckets: expired buckets go, once a window at most.
Sweeps == now - lastSweep >= Window
Swept == IF Sweeps THEN {b \in buckets : ~Expired(b)} ELSE buckets

\* rateLimited: the bucket of the key after this request, and whether it was one too many.
Bucket(key) ==
    LET own == {b \in Swept : b.key = key /\ ~Expired(b)}
    IN  IF own = {} THEN [key |-> key, count |-> 1, reset |-> now + Window]
        ELSE LET b == CHOOSE b \in own : TRUE IN [b EXCEPT !.count = @ + 1]

Limited(key) == Bucket(key).count > Quota

Meters(client, class) ==
    LET key == RateKey(client, class)
    IN  /\ Len(asked) < MaxAsked
        /\ buckets' = {b \in Swept : b.key # key} \cup {Bucket(key)}
        /\ lastSweep' = IF Sweeps THEN now ELSE lastSweep
        /\ asked' = Append(asked, [client |-> client, class |-> class, at |-> now, refused |-> Limited(key)])

Request ==
    /\ \E client \in Clients, class \in Classes : Meters(client, class)
    /\ UNCHANGED <<now, standing, since, badges, reads, shown, moves>>

------------------------------------------------------------------------------
(* The badge.                                                              *)

Live(e) == e.until > now
CachedOf(x) == {i \in DOMAIN badges : badges[i].address = x}

\* The cache with a badge set: it goes to the back, and the oldest make room.
WithBadge(x, value) ==
    LET others == SelectSeq(badges, LAMBDA e : e.address # x)
        all == Append(others, [address |-> x, value |-> value, until |-> now +
                                  IF value = "unavailable" THEN KeptUnavailable ELSE Kept])
    IN  IF Len(all) > MaxEntries THEN Tail(all) ELSE all

\* What is shown, and for how long the agent had been slashed when its score was.
Show(x, value) ==
    shown' = [value |-> value, late |->
                 IF value = "scored" /\ standing[x] = "slashed" THEN now - since[x] ELSE 0]

Hit(i) == Live(badges[i])

\* A badge found is served, a miss over the limit is shown as unavailable and not kept, and
\* any other miss reads the chain.
AskBadge ==
    /\ \E x \in Addresses, client \in Clients :
          LET held == {i \in CachedOf(x) : Hit(i)}
          IN  IF held # {}
              THEN /\ LET e == badges[CHOOSE i \in held : TRUE] IN Show(x, e.value)
                   /\ UNCHANGED <<badges, buckets, lastSweep, asked, reads>>
              ELSE /\ badges' = SelectSeq(badges, LAMBDA e : e.address # x)
                   /\ Meters(client, "read")
                   /\ IF Limited(RateKey(client, "read"))
                      THEN Show(x, "unavailable") /\ UNCHANGED reads
                      ELSE /\ reads' = Append(reads, [address |-> x, at |-> now, status |-> "unread"])
                           /\ UNCHANGED shown
    /\ UNCHANGED <<now, standing, since, moves>>

\* readBadgeState: whether the agent is registered and slashed first, its score after.
ReadStatus ==
    /\ \E i \in DOMAIN reads :
          /\ reads[i].status = "unread"
          /\ reads' = [reads EXCEPT ![i].status = standing[reads[i].address]]
    /\ UNCHANGED <<now, buckets, lastSweep, asked, standing, since, badges, shown, moves>>

\* The read ends, with what it saw first or, when the chain did not answer, with nothing.
ReadEnds ==
    /\ \E i \in DOMAIN reads :
          \E value \in {reads[i].status, "unavailable"} \ {"unread"} :
              /\ badges' = WithBadge(reads[i].address, value)
              /\ Show(reads[i].address, value)
              /\ reads' = RemoveAt(reads, i)
    /\ UNCHANGED <<now, buckets, lastSweep, asked, standing, since, moves>>

\* An agent is slashed.
Slash ==
    /\ moves < MaxMoves
    /\ \E x \in Addresses :
          /\ standing[x] # "slashed"
          /\ standing' = [standing EXCEPT ![x] = "slashed"]
          /\ since' = [since EXCEPT ![x] = now]
    /\ moves' = moves + 1
    /\ UNCHANGED <<now, buckets, lastSweep, asked, badges, reads, shown>>

Tick ==
    /\ now < MaxTime
    /\ \A i \in DOMAIN reads : now - reads[i].at < MaxRead
    /\ now' = now + 1
    /\ UNCHANGED <<buckets, lastSweep, asked, standing, since, badges, reads, shown, moves>>

Init ==
    /\ now = 0 /\ buckets = {} /\ lastSweep = 0 /\ asked = <<>>
    /\ standing = [x \in Addresses |-> "scored"] /\ since = [x \in Addresses |-> 0]
    /\ badges = <<>> /\ reads = <<>> /\ shown = [value |-> "unavailable", late |-> 0] /\ moves = 0

Next == Request \/ AskBadge \/ ReadStatus \/ ReadEnds \/ Slash \/ Tick

Spec == Init /\ [][Next]_vars

------------------------------------------------------------------------------
(* Properties.                                                             *)

Of(client, class) == {i \in DOMAIN asked : asked[i].client = client /\ asked[i].class = class}

\* A client is refused a class of routes only for its own requests to it: more than the
\* allowance within the window before.
RefusedForItsOwn ==
    \A i \in DOMAIN asked : asked[i].refused =>
        Cardinality({j \in Of(asked[i].client, asked[i].class) :
            j <= i /\ asked[j].at > asked[i].at - Window}) > Quota

\* A client gets no more than twice the allowance through in any window, however the sweeps
\* and the ends of its buckets fall.
TwiceAtMost ==
    \A i \in DOMAIN asked :
        Cardinality({j \in Of(asked[i].client, asked[i].class) :
            j <= i /\ asked[j].at > asked[i].at - Window /\ ~asked[j].refused}) <= 2 * Quota

\* A slashed agent is shown a score no longer than a badge may be kept and a read may take.
BadgeIsRecent == shown.late <= MaxRead + Kept

\* The three together.
LimiterInv == RefusedForItsOwn /\ TwiceAtMost /\ BadgeIsRecent
================================================================================
