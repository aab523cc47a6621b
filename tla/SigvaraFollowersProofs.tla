------------------------ MODULE SigvaraFollowersProofs ------------------------
(***************************************************************************)
(* What TLAPS proves of the components that follow the chain from outside: *)
(* the watcher of the checker's disputes, and the event index with the     *)
(* page that reads it.                                                     *)
(***************************************************************************)
EXTENDS SigvaraWatcher, SigvaraIndexer, SequenceTheorems, FiniteSetTheorems, WellFoundedInduction, TLAPS

------------------------------------------------------------------------------
(* The least of some numbers.                                             *)

LEMMA LeastOf ==
    ASSUME NEW T, T \subseteq Nat, T # {}
    PROVE  \E i \in T : \A j \in T : i <= j
<1> DEFINE R == OpToRel(<, Nat)
<1>1. IsWellFoundedOn(R, Nat)
    BY NatLessThanWellFounded
<1>2. \A i, j \in Nat : j < i => <<j, i>> \in R
    BY DEF OpToRel
<1> HIDE DEF R
<1>3. PICK i \in T : \A j \in T : ~(<<j, i>> \in R)
    BY <1>1, WFMin
<1>4. ASSUME NEW j \in T PROVE i <= j
    <2>1. i \in Nat /\ j \in Nat
        BY <1>3
    <2>2. ~(j < i)
        BY <1>2, <1>3, <2>1
    <2> QED BY <2>1, <2>2
<1> QED BY <1>3, <1>4

LEMMA FirstOfSome ==
    ASSUME NEW T, T \subseteq Nat, T # {}
    PROVE  Min(T) \in T
    BY LeastOf DEF Min

------------------------------------------------------------------------------
(* The watcher: the invariant.                                             *)

PollRecord(stage, age, list, reads, alerts, at) ==
    [stage |-> stage, age |-> age, list |-> list, reads |-> reads, alerts |-> alerts, at |-> at]

IsRecord(q) ==
    q = PollRecord(q.stage, q.age, q.list, q.reads, q.alerts, q.at)

\* A poll: what it was told, by position, and what it read since.
IsPoll(q) ==
    /\ IsRecord(q)
    /\ q.stage \in {"idle", "answered", "refused", "read", "alert", "last"}
    /\ q.age \in 0..MaxPoll /\ DOMAIN q.list \subseteq Nat
    /\ q.reads \in [Agents -> Int] /\ \A a \in Agents : q.reads[a] <= made
    /\ q.at \in [Keys -> Nat]
    /\ q.stage = "answered" => \A a \in Agents : q.reads[a] = None

WatcherTypes ==
    /\ made \in Nat /\ slot \in [Agents -> Nat] /\ \A a \in Agents : slot[a] <= made
    /\ left \in [Keys -> Nat] /\ gone \in [Keys -> Nat] /\ raised \in [Keys \X {0, 1} -> Nat]
    /\ polls \in [Polls -> {polls[p] : p \in Polls}] /\ \A p \in Polls : IsPoll(polls[p])

\* What is pending and open has not gone, and what is to come has not either.
NotGoneYet == \A k \in Keys : k[2] > made \/ (Pending(k) /\ left[k] > 0) => gone[k] = 0

\* What a poll found open, it found so not longer ago than it is old.
FoundOpen(q, k) ==
    /\ q.reads[k[1]] = k[2]
    /\ \/ q.stage = "read" /\ left[k] > 0
       \/ q.stage \in {"alert", "last"} /\ q.at[k] > 0
FoundLately(q) == \A k \in Keys : FoundOpen(q, k) => gone[k] <= q.age

\* What is left to alert on was found open.
AlertsAreOpen(q) ==
    q.stage = "alert" =>
        /\ q.alerts # {} /\ q.alerts \subseteq DOMAIN q.list
        /\ \A i \in q.alerts :
                q.reads[q.list[i][1]] = q.list[i][2] /\ q.at[q.list[i]] > 0

WatcherInv ==
    /\ WatcherTypes /\ NotGoneYet
    /\ \A p \in Polls : FoundLately(polls[p]) /\ AlertsAreOpen(polls[p])

------------------------------------------------------------------------------
(* The watcher: its steps.                                                 *)

\* The chain, the clock and other polls stay, and one poll becomes another.
LEMMA OnePollMoves ==
    ASSUME WatcherInv, NEW p \in Polls, NEW new, polls' = [polls EXCEPT ![p] = new],
           UNCHANGED <<slot, left, made, gone>>, raised' \in [Keys \X {0, 1} -> Nat],
           IsPoll(new), FoundLately(new), AlertsAreOpen(new)
    PROVE  WatcherInv'
<1> USE DEF WatcherInv
<1>1. DOMAIN polls = Polls
    BY DEF WatcherTypes
<1>2. polls' = [q \in Polls |-> polls'[q]] /\ \A q \in Polls : polls'[q] = IF q = p THEN new ELSE polls[q]
    BY <1>1
<1>3. \A q \in Polls : IsPoll(polls'[q]) /\ FoundLately(polls'[q]) /\ AlertsAreOpen(polls'[q])
    BY <1>2 DEF WatcherTypes
<1>4. \A q \in Polls : IsPoll(polls[q])' /\ FoundLately(polls[q])' /\ AlertsAreOpen(polls[q])'
    BY <1>3 DEF IsPoll, FoundLately, FoundOpen, AlertsAreOpen
<1>5. WatcherTypes'
    BY <1>2, <1>4 DEF WatcherTypes
<1>6. NotGoneYet'
    BY DEF NotGoneYet, Pending
<1> QED BY <1>4, <1>5, <1>6

\* A poll's record with other fields.
LEMMA ChangedPoll ==
    ASSUME NEW q, IsRecord(q), NEW stage, NEW x
    PROVE  /\ [q EXCEPT !.stage = stage] = PollRecord(stage, q.age, q.list, q.reads, q.alerts, q.at)
           /\ [q EXCEPT !.age = x] = PollRecord(q.stage, x, q.list, q.reads, q.alerts, q.at)
           /\ [q EXCEPT !.reads = x] = PollRecord(q.stage, q.age, q.list, x, q.alerts, q.at)
           /\ [q EXCEPT !.alerts = x] = PollRecord(q.stage, q.age, q.list, q.reads, x, q.at)
           /\ [q EXCEPT !.stage = stage, !.list = x] = PollRecord(stage, q.age, x, q.reads, q.alerts, q.at)
           /\ [q EXCEPT !.stage = stage, !.alerts = x] = PollRecord(stage, q.age, q.list, q.reads, x, q.at)
<1>1. /\ [q EXCEPT !.stage = stage] = PollRecord(stage, q.age, q.list, q.reads, q.alerts, q.at)
      /\ [q EXCEPT !.age = x] = PollRecord(q.stage, x, q.list, q.reads, q.alerts, q.at)
      /\ [q EXCEPT !.reads = x] = PollRecord(q.stage, q.age, q.list, x, q.alerts, q.at)
      /\ [q EXCEPT !.alerts = x] = PollRecord(q.stage, q.age, q.list, q.reads, x, q.at)
    BY DEF IsRecord, PollRecord
<1> DEFINE mid == [q EXCEPT !.stage = stage]
<1>2. [q EXCEPT !.stage = stage, !.list = x] = PollRecord(stage, q.age, x, q.reads, q.alerts, q.at)
    <2> DEFINE new == [q EXCEPT !.stage = stage, !.list = x]
    <2>1. new = [mid EXCEPT !.list = x]
        OBVIOUS
    <2> HIDE DEF mid, new
    <2>2. mid = PollRecord(stage, q.age, q.list, q.reads, q.alerts, q.at)
        BY <1>1 DEF mid
    <2>3. new = PollRecord(stage, q.age, x, q.reads, q.alerts, q.at)
        BY ONLY <2>1, <2>2 DEF PollRecord
    <2> QED BY <2>3 DEF new
<1>3. [q EXCEPT !.stage = stage, !.alerts = x] = PollRecord(stage, q.age, q.list, q.reads, x, q.at)
    <2> DEFINE new == [q EXCEPT !.stage = stage, !.alerts = x]
    <2>1. new = [mid EXCEPT !.alerts = x]
        OBVIOUS
    <2> HIDE DEF mid, new
    <2>2. mid = PollRecord(stage, q.age, q.list, q.reads, q.alerts, q.at)
        BY <1>1 DEF mid
    <2>3. new = PollRecord(stage, q.age, q.list, q.reads, x, q.at)
        BY ONLY <2>1, <2>2 DEF PollRecord
    <2> QED BY <2>3 DEF new
<1> QED BY <1>1, <1>2, <1>3

LEMMA OpenedPoll ==
    ASSUME NEW q, IsRecord(q), NEW now
    PROVE  [q EXCEPT !.stage = "alert", !.at = now] =
            PollRecord("alert", q.age, q.list, q.reads, q.alerts, now)
<1> DEFINE mid == [q EXCEPT !.stage = "alert"]
           new == [q EXCEPT !.stage = "alert", !.at = now]
<1>1. new = [mid EXCEPT !.at = now]
    OBVIOUS
<1>2. mid = PollRecord("alert", q.age, q.list, q.reads, q.alerts, q.at)
    BY ChangedPoll
<1> HIDE DEF mid, new
<1>3. new = PollRecord("alert", q.age, q.list, q.reads, q.alerts, now)
    BY ONLY <1>1, <1>2 DEF PollRecord
<1> QED BY <1>3 DEF new

LEMMA IdleIsSound ==
    ASSUME made \in Nat
    PROVE  IsPoll(Idle) /\ FoundLately(Idle) /\ AlertsAreOpen(Idle)
<1> DEFINE unread == [a \in Agents |-> None]
           never == [k \in Keys |-> 0]
<1>1. Idle = PollRecord("idle", 0, <<>>, unread, {}, never)
    BY DEF Idle, PollRecord
<1>2. unread \in [Agents -> Int] /\ never \in [Keys -> Nat] /\ \A a \in Agents : unread[a] = -1
    BY DEF None
<1> HIDE DEF unread, never
<1>3. IsRecord(Idle)
    BY <1>1 DEF IsRecord, PollRecord
<1>4. \A a \in Agents : Idle.reads[a] <= made
    BY <1>1, <1>2 DEF PollRecord
<1>5. IsPoll(Idle)
    BY <1>1, <1>2, <1>3, <1>4, WatcherAssumption DEF PollRecord, IsPoll, WatcherAssumption
<1>6. FoundLately(Idle) /\ AlertsAreOpen(Idle)
    BY <1>1 DEF PollRecord, FoundLately, FoundOpen, AlertsAreOpen
<1> QED BY <1>5, <1>6

\* What becomes of a poll that has gone through its list, or has more of it to alert on.
LEMMA UpcomingIsSound ==
    ASSUME NEW q, IsPoll(q), FoundLately(q), q.stage = "alert",
           NEW alerts \in SUBSET (DOMAIN q.list),
           \A i \in alerts : q.reads[q.list[i][1]] = q.list[i][2] /\ q.at[q.list[i]] > 0
    PROVE  LET new == Upcoming(alerts, q) IN IsPoll(new) /\ FoundLately(new) /\ AlertsAreOpen(new)
<1> DEFINE last == {i \in DOMAIN q.list : q.reads[q.list[i][1]] # Unread}
<1> HIDE DEF last
<1> DEFINE more == [q EXCEPT !.alerts = alerts]
           done == [q EXCEPT !.stage = "last", !.alerts = last]
<1>1. IsRecord(q)
    BY DEF IsPoll
<1>2. more = PollRecord(q.stage, q.age, q.list, q.reads, alerts, q.at)
    BY <1>1, ChangedPoll
<1>3. done = PollRecord("last", q.age, q.list, q.reads, last, q.at)
    BY <1>1, ChangedPoll
<1>4. Upcoming(alerts, q) = IF alerts # {} THEN more ELSE done
    BY DEF Upcoming, last
<1> HIDE DEF more, done
<1>5. IsRecord(more) /\ IsRecord(done)
    BY <1>2, <1>3 DEF IsRecord, PollRecord
<1>6. CASE alerts # {}
    <2>1. IsPoll(more) /\ FoundLately(more) /\ AlertsAreOpen(more)
        BY <1>2, <1>5, <1>6 DEF PollRecord, IsPoll, FoundLately, FoundOpen, AlertsAreOpen
    <2> QED BY <1>4, <1>6, <2>1
<1>7. CASE alerts = {}
    <2>1. IsPoll(done) /\ FoundLately(done) /\ AlertsAreOpen(done)
        BY <1>3, <1>5 DEF PollRecord, IsPoll, FoundLately, FoundOpen, AlertsAreOpen
    <2> QED BY <1>4, <1>7, <2>1
<1> QED BY <1>6, <1>7

\* Nothing it is about moves.
LEMMA NothingMoves ==
    ASSUME WatcherInv, UNCHANGED <<made, slot, left, gone, raised, polls>>
    PROVE  WatcherInv' /\ RaisesOnlyTheLive
<1>1. \A q \in Polls : IsPoll(polls[q])' /\ FoundLately(polls[q])' /\ AlertsAreOpen(polls[q])'
    BY DEF WatcherInv, WatcherTypes, IsPoll, FoundLately, FoundOpen, AlertsAreOpen
<1>2. WatcherTypes'
    BY <1>1 DEF WatcherInv, WatcherTypes
<1>3. NotGoneYet'
    BY DEF WatcherInv, NotGoneYet, Pending
<1>4. RaisesOnlyTheLive
    BY DEF WatcherInv, WatcherTypes, RaisesOnlyTheLive
<1> QED BY <1>1, <1>2, <1>3, <1>4 DEF WatcherInv

\* The chain moves under the polls, and time stands.
LEMMA ProposeKeeps ==
    ASSUME WatcherInv, NEW a \in Agents, Propose(a)
    PROVE  WatcherInv' /\ RaisesOnlyTheLive
<1> USE DEF WatcherInv
<1>1. /\ made' = made + 1 /\ slot' = [slot EXCEPT ![a] = made + 1]
      /\ left' = [left EXCEPT ![<<a, made + 1>>] = Window]
      /\ UNCHANGED <<polls, gone, raised>>
    BY DEF Propose, watcherVars, history
<1>2. made' \in Nat /\ slot' \in [Agents -> Nat] /\ left' \in [Keys -> Nat] /\ \A b \in Agents : slot'[b] <= made'
    <2>1. made' \in Nat /\ slot' \in [Agents -> Nat]
        BY <1>1 DEF WatcherTypes
    <2>2. left' \in [Keys -> Nat]
        BY <1>1, WatcherAssumption DEF WatcherTypes, WatcherAssumption
    <2>3. \A b \in Agents : slot'[b] <= made'
        BY <1>1 DEF WatcherTypes
    <2> QED BY <2>1, <2>2, <2>3
<1>3. ASSUME NEW q \in Polls PROVE IsPoll(polls[q])' /\ FoundLately(polls[q])' /\ AlertsAreOpen(polls[q])'
    <2>1. IsPoll(polls[q])'
        BY <1>1 DEF WatcherTypes, IsPoll
    <2>2. ASSUME NEW k \in Keys, polls[q].reads[k[1]] = k[2] PROVE left'[k] = left[k]
        <3>1. k[1] \in Agents /\ k[2] \in Nat /\ k[2] <= made
            BY <2>2 DEF Keys, WatcherTypes, IsPoll
        <3>2. k # <<a, made + 1>>
            BY <3>1 DEF WatcherTypes
        <3> QED BY <1>1, <3>2 DEF WatcherTypes
    <2>3. FoundLately(polls[q])'
        BY <1>1, <2>2 DEF FoundLately, FoundOpen
    <2>4. AlertsAreOpen(polls[q])'
        BY <1>1 DEF AlertsAreOpen
    <2> QED BY <2>1, <2>3, <2>4
<1>4. WatcherTypes'
    BY <1>1, <1>2, <1>3 DEF WatcherTypes
<1>5. NotGoneYet'
    <2> SUFFICES ASSUME NEW k \in Keys, k[2] > made' \/ (slot'[k[1]] = k[2] /\ left'[k] > 0) PROVE gone[k] = 0
        BY <1>1 DEF NotGoneYet, Pending
    <2>1. k[1] \in Agents /\ k[2] \in Nat /\ k = <<k[1], k[2]>>
        BY DEF Keys
    <2>2. CASE k[2] > made'
        BY <1>1, <2>1, <2>2 DEF NotGoneYet, WatcherTypes
    <2>3. CASE k[1] = a /\ slot'[k[1]] = k[2]
        BY <1>1, <2>1, <2>3 DEF NotGoneYet, WatcherTypes
    <2>4. CASE k[1] # a /\ slot'[k[1]] = k[2] /\ left'[k] > 0
        BY <1>1, <2>1, <2>4 DEF NotGoneYet, WatcherTypes, Pending
    <2> QED BY <2>2, <2>3, <2>4
<1>6. RaisesOnlyTheLive
    BY <1>1 DEF WatcherTypes, RaisesOnlyTheLive
<1> QED BY <1>3, <1>4, <1>5, <1>6

LEMMA CloseKeeps ==
    ASSUME WatcherInv, NEW a \in Agents, Close(a)
    PROVE  WatcherInv' /\ RaisesOnlyTheLive
<1> USE DEF WatcherInv
<1>1. slot' = [slot EXCEPT ![a] = 0] /\ UNCHANGED <<left, made, polls, gone, raised>>
    BY DEF Close, watcherVars, history
<1>2. \A q \in Polls : IsPoll(polls[q])' /\ FoundLately(polls[q])' /\ AlertsAreOpen(polls[q])'
    BY <1>1 DEF WatcherTypes, IsPoll, FoundLately, FoundOpen, AlertsAreOpen
<1>3. WatcherTypes'
    BY <1>1, <1>2 DEF WatcherTypes
<1>4. NotGoneYet'
    <2> SUFFICES ASSUME NEW k \in Keys, k[2] > made \/ (slot'[k[1]] = k[2] /\ left[k] > 0) PROVE gone[k] = 0
        BY <1>1 DEF NotGoneYet, Pending
    <2>1. k[1] \in Agents /\ k[2] \in Nat /\ k[2] # 0
        BY DEF Keys
    <2>2. slot'[k[1]] = k[2] => slot[k[1]] = k[2]
        BY <1>1, <2>1 DEF WatcherTypes
    <2> QED BY <2>2 DEF NotGoneYet, Pending
<1>5. RaisesOnlyTheLive
    BY <1>1 DEF WatcherTypes, RaisesOnlyTheLive
<1> QED BY <1>2, <1>3, <1>4, <1>5

------------------------------------------------------------------------------
(* A poll.                                                                 *)

\* A poll that has raised nothing.
LEMMA QuietPoll ==
    ASSUME WatcherInv, NEW p \in Polls, NEW new, polls' = [polls EXCEPT ![p] = new],
           UNCHANGED <<slot, left, made, gone, raised>>,
           IsPoll(new), FoundLately(new), AlertsAreOpen(new)
    PROVE  WatcherInv' /\ RaisesOnlyTheLive
<1>1. raised' \in [Keys \X {0, 1} -> Nat]
    BY DEF WatcherInv, WatcherTypes
<1>2. WatcherInv'
    BY <1>1, OnePollMoves
<1>3. RaisesOnlyTheLive
    BY DEF WatcherInv, WatcherTypes, RaisesOnlyTheLive
<1> QED BY <1>2, <1>3

LEMMA FetchKeeps ==
    ASSUME WatcherInv, NEW p \in Polls, Fetch(p)
    PROVE  WatcherInv' /\ RaisesOnlyTheLive
<1> DEFINE firstPage == Page
<1> HIDE DEF firstPage
<1> DEFINE answered == [Idle EXCEPT !.stage = "answered", !.list = firstPage]
           refused == [Idle EXCEPT !.stage = "refused"]
           unread == [a \in Agents |-> None]
           never == [k \in Keys |-> 0]
<1>1. /\ polls' = [polls EXCEPT ![p] = answered] \/ polls' = [polls EXCEPT ![p] = refused]
      /\ UNCHANGED <<slot, left, made, gone, raised>>
    BY DEF Fetch, chainVars, history, firstPage
<1>2. DOMAIN firstPage \subseteq Nat
    BY DEF firstPage, Page
<1>a. Idle = [stage |-> "idle", age |-> 0, list |-> <<>>, reads |-> unread, alerts |-> {}, at |-> never]
    BY DEF Idle
<1>b. unread \in [Agents -> Int] /\ never \in [Keys -> Nat] /\ \A a \in Agents : unread[a] = -1
    BY DEF None
<1> HIDE DEF unread, never
<1>c. /\ Idle.stage = "idle" /\ Idle.age = 0 /\ Idle.list = <<>> /\ Idle.reads = unread
      /\ Idle.alerts = {} /\ Idle.at = never
    BY ONLY <1>a
<1>d. IsRecord(Idle)
    BY ONLY <1>a, <1>c DEF IsRecord, PollRecord
<1>e. answered = PollRecord("answered", Idle.age, firstPage, Idle.reads, Idle.alerts, Idle.at)
    BY <1>d, ChangedPoll
<1>f. refused = PollRecord("refused", Idle.age, Idle.list, Idle.reads, Idle.alerts, Idle.at)
    BY <1>d, ChangedPoll
<1> HIDE DEF answered, refused
<1>3. /\ answered = PollRecord("answered", 0, firstPage, unread, {}, never)
      /\ refused = PollRecord("refused", 0, <<>>, unread, {}, never)
      /\ IsRecord(answered) /\ IsRecord(refused)
    BY <1>c, <1>e, <1>f DEF IsRecord, PollRecord
<1>4. IsPoll(answered) /\ FoundLately(answered) /\ AlertsAreOpen(answered)
    BY <1>2, <1>3, <1>b, WatcherAssumption DEF PollRecord, WatcherAssumption, WatcherInv,
       WatcherTypes, IsPoll, Keys, FoundLately, FoundOpen, AlertsAreOpen, None
<1>5. IsPoll(refused) /\ FoundLately(refused) /\ AlertsAreOpen(refused)
    BY <1>3, <1>b, WatcherAssumption DEF PollRecord, WatcherAssumption, WatcherInv,
       WatcherTypes, IsPoll, Keys, FoundLately, FoundOpen, AlertsAreOpen, None
<1> QED BY <1>1, <1>4, <1>5, QuietPoll

LEMMA EndedKeeps ==
    ASSUME WatcherInv, NEW p \in Polls, polls' = [polls EXCEPT ![p] = Idle],
           UNCHANGED <<slot, left, made, gone, raised>>
    PROVE  WatcherInv' /\ RaisesOnlyTheLive
<1>1. made \in Nat
    BY DEF WatcherInv, WatcherTypes
<1> QED BY <1>1, IdleIsSound, QuietPoll

LEMMA RefusedKeeps ==
    ASSUME WatcherInv, NEW p \in Polls, Refused(p)
    PROVE  WatcherInv' /\ RaisesOnlyTheLive
    BY EndedKeeps DEF Refused, Ended, chainVars, history

LEMMA FinishKeeps ==
    ASSUME WatcherInv, NEW p \in Polls, Finish(p)
    PROVE  WatcherInv' /\ RaisesOnlyTheLive
    BY EndedKeeps DEF Finish, Ended, chainVars, history

LEMMA AnsweredKeeps ==
    ASSUME WatcherInv, NEW p \in Polls, Answered(p)
    PROVE  WatcherInv' /\ RaisesOnlyTheLive
<1>1. UNCHANGED <<slot, left, made, gone, raised>>
    BY DEF Answered, chainVars, history
<1>2. CASE polls' = [polls EXCEPT ![p] = Idle]
    BY <1>1, <1>2, EndedKeeps
<1>3. CASE To(p, "read")
    <2> DEFINE old == polls[p]
               new == [old EXCEPT !.stage = "read"]
    <2>1. IsPoll(old) /\ old.stage = "answered"
        BY DEF WatcherInv, WatcherTypes, Answered, At
    <2>2. polls' = [polls EXCEPT ![p] = new]
        BY <1>3 DEF To
    <2> HIDE DEF old
    <2>3. new = PollRecord("read", old.age, old.list, old.reads, old.alerts, old.at)
        BY <2>1, ChangedPoll DEF IsPoll
    <2> HIDE DEF new
    <2>4. IsRecord(new)
        BY <2>3 DEF IsRecord, PollRecord
    <2>5. IsPoll(new) /\ AlertsAreOpen(new)
        BY <2>1, <2>3, <2>4 DEF PollRecord, IsPoll, AlertsAreOpen
    <2>6. \A k \in Keys : new.reads[k[1]] # k[2]
        BY <2>1, <2>3 DEF PollRecord, IsPoll, Keys, None
    <2>7. FoundLately(new)
        BY <2>6 DEF FoundLately, FoundOpen
    <2> QED BY <1>1, <2>2, <2>5, <2>7, QuietPoll
<1> QED BY <1>2, <1>3 DEF Answered, Ended

\* What is read of an agent is what is in its slot, or nothing.
LEMMA ReadsAreSound ==
    ASSUME WatcherInv, NEW old, IsPoll(old), FoundLately(old), old.stage = "read", NEW a,
           NEW reads, reads = [old.reads EXCEPT ![a] = IF rpc THEN slot[a] ELSE Unread]
    PROVE  /\ reads \in [Agents -> Int] /\ \A b \in Agents : reads[b] <= made
           /\ \A k \in Keys : reads[k[1]] = k[2] /\ left[k] > 0 => gone[k] <= old.age
<1> USE DEF WatcherInv
<1>1. CASE a \in Agents
    <2>1. slot[a] \in Nat /\ slot[a] <= made /\ made \in Nat
        BY <1>1 DEF WatcherTypes
    <2>2. reads \in [Agents -> Int] /\ \A b \in Agents : reads[b] <= made
        BY <1>1, <2>1 DEF IsPoll, Unread
    <2>3. ASSUME NEW k \in Keys, reads[k[1]] = k[2], left[k] > 0 PROVE gone[k] <= old.age
        <3>1. k[1] \in Agents /\ k[2] \in Nat
            BY DEF Keys
        <3>2. CASE k[1] = a
            <4>1. reads[k[1]] = IF rpc THEN slot[a] ELSE Unread
                BY <1>1, <3>2 DEF IsPoll
            <4>2. rpc /\ slot[k[1]] = k[2]
                BY <2>3, <3>1, <3>2, <4>1 DEF Unread
            <4>3. gone[k] = 0
                BY <2>3, <4>2 DEF NotGoneYet, Pending
            <4> QED BY <4>3 DEF IsPoll
        <3>3. CASE k[1] # a
            BY <2>3, <3>1, <3>3 DEF IsPoll, FoundLately, FoundOpen
        <3> QED BY <3>2, <3>3
    <2> QED BY <2>2, <2>3
<1>2. CASE a \notin Agents
    <2>1. reads = old.reads
        BY <1>2 DEF IsPoll
    <2> QED BY <2>1 DEF IsPoll, FoundLately, FoundOpen
<1> QED BY <1>1, <1>2

LEMMA TriagedIsSound ==
    ASSUME WatcherInv, NEW q, IsPoll(q), FoundLately(q), q.stage = "read"
    PROVE  LET new == Triaged(q) IN IsPoll(new) /\ FoundLately(new) /\ AlertsAreOpen(new)
<1> DEFINE open == [q EXCEPT !.stage = "alert", !.at = left]
           alerts == {i \in DOMAIN q.list : Actionable(q.reads, q.list[i]) /\ ~Seen(q.list[i])}
<1>0. IsRecord(q)
    BY DEF IsPoll
<1>1. open = PollRecord("alert", q.age, q.list, q.reads, q.alerts, left)
    <2>1. PICK now : now = left
        OBVIOUS
    <2>2. [q EXCEPT !.stage = "alert", !.at = now] =
            PollRecord("alert", q.age, q.list, q.reads, q.alerts, now)
        BY ONLY <1>0, OpenedPoll
    <2> QED BY <2>1, <2>2
<1>2. /\ alerts \in SUBSET (DOMAIN q.list)
      /\ \A i \in alerts : q.reads[q.list[i][1]] = q.list[i][2] /\ left[q.list[i]] > 0
    BY DEF Actionable
<1>3. Triaged(q) = Upcoming(alerts, open)
    BY DEF Triaged
<1> HIDE DEF open, alerts
<1>4. IsRecord(open)
    BY <1>1 DEF IsRecord, PollRecord
<1>5. IsPoll(open) /\ open.stage = "alert"
    BY <1>1, <1>4 DEF PollRecord, IsPoll, WatcherInv, WatcherTypes
<1>6. FoundLately(open)
    BY <1>1 DEF PollRecord, FoundLately, FoundOpen
<1>7. /\ alerts \in SUBSET (DOMAIN open.list)
      /\ \A i \in alerts : open.reads[open.list[i][1]] = open.list[i][2] /\ open.at[open.list[i]] > 0
    BY <1>1, <1>2 DEF PollRecord
<1> QED BY <1>3, <1>5, <1>6, <1>7, UpcomingIsSound

LEMMA ReadKeeps ==
    ASSUME WatcherInv, NEW p \in Polls, Read(p)
    PROVE  WatcherInv' /\ RaisesOnlyTheLive
<1> DEFINE old == polls[p]
<1>1. IsPoll(old) /\ FoundLately(old) /\ AlertsAreOpen(old) /\ old.stage = "read"
    BY DEF WatcherInv, WatcherTypes, Read, At
<1>2. UNCHANGED <<slot, left, made, gone, raised>>
    BY DEF Read, chainVars, history
<1> DEFINE unread(reads) == {a \in Disputed(old.list) : reads[a] = None}
           a == CHOOSE a \in unread(old.reads) : TRUE
           reads == [old.reads EXCEPT ![a] = IF rpc THEN slot[a] ELSE Unread]
           next == [old EXCEPT !.reads = reads]
<1>3. polls' = [polls EXCEPT ![p] = IF unread(reads) = {} THEN Triaged(next) ELSE next]
    BY DEF Read
<1>4. polls' = [polls EXCEPT ![p] = next] \/ polls' = [polls EXCEPT ![p] = Triaged(next)]
    BY <1>3
<1> HIDE DEF old, a
<1>5. /\ reads \in [Agents -> Int] /\ \A b \in Agents : reads[b] <= made
      /\ \A k \in Keys : reads[k[1]] = k[2] /\ left[k] > 0 => gone[k] <= old.age
    BY <1>1, ReadsAreSound
<1> HIDE DEF reads
<1>6. next = PollRecord(old.stage, old.age, old.list, reads, old.alerts, old.at)
    BY <1>1, ChangedPoll DEF IsPoll
<1> HIDE DEF next
<1>8. IsRecord(next)
    BY <1>6 DEF IsRecord, PollRecord
<1>9. IsPoll(next) /\ AlertsAreOpen(next) /\ next.stage = "read"
    BY <1>1, <1>5, <1>6, <1>8 DEF PollRecord, IsPoll, AlertsAreOpen
<1>10. FoundLately(next)
    BY <1>1, <1>5, <1>6 DEF PollRecord, FoundLately, FoundOpen
<1>11. LET new == Triaged(next) IN IsPoll(new) /\ FoundLately(new) /\ AlertsAreOpen(new)
    BY <1>9, <1>10, TriagedIsSound
<1> QED BY <1>2, <1>4, <1>9, <1>10, <1>11, QuietPoll

\* An alert is counted, and of no other proposal.
LEMMA RaiseCounts ==
    ASSUME WatcherInv, NEW k, NEW level \in {0, 1}, Raise(k, level), k \in Keys => gone[k] <= MaxPoll
    PROVE  raised' \in [Keys \X {0, 1} -> Nat] /\ RaisesOnlyTheLive
<1>1. raised' = [raised EXCEPT ![<<k, level>>] = IF @ < 2 THEN @ + 1 ELSE @]
    BY DEF Raise
<1>2. raised \in [Keys \X {0, 1} -> Nat]
    BY DEF WatcherInv, WatcherTypes
<1>3. raised' \in [Keys \X {0, 1} -> Nat]
    <2>1. CASE <<k, level>> \in Keys \X {0, 1}
        <3>1. raised[<<k, level>>] \in Nat
            BY <1>2, <2>1
        <3> QED BY <1>1, <1>2, <2>1, <3>1
    <2>2. CASE <<k, level>> \notin Keys \X {0, 1}
        BY <1>1, <1>2, <2>2
    <2> QED BY <2>1, <2>2
<1>4. \A x \in Keys \X {0, 1} : raised'[x] > raised[x] => x[1] = k
    BY <1>1, <1>2
<1> QED BY <1>3, <1>4 DEF RaisesOnlyTheLive

LEMMA AlertKeeps ==
    ASSUME WatcherInv, NEW p \in Polls, Alert(p)
    PROVE  WatcherInv' /\ RaisesOnlyTheLive
<1> DEFINE old == polls[p]
           i == Min(old.alerts)
           rest == old.alerts \ {i}
<1>1. IsPoll(old) /\ FoundLately(old) /\ AlertsAreOpen(old) /\ old.stage = "alert"
    BY DEF WatcherInv, WatcherTypes, Alert, At
<1>2. UNCHANGED <<slot, left, made, gone>>
    BY DEF Alert, chainVars, history
<1>3. Raise(old.list[i], 0) /\ polls' = [polls EXCEPT ![p] = Upcoming(rest, old)]
    BY DEF Alert
<1> HIDE DEF old
<1>4. i \in old.alerts
    BY <1>1, FirstOfSome DEF IsPoll, AlertsAreOpen
<1> HIDE DEF i
<1>5. /\ rest \in SUBSET (DOMAIN old.list)
      /\ \A j \in rest : old.reads[old.list[j][1]] = old.list[j][2] /\ old.at[old.list[j]] > 0
    BY <1>1 DEF AlertsAreOpen
<1> HIDE DEF rest
<1>6. LET new == Upcoming(rest, old) IN IsPoll(new) /\ FoundLately(new) /\ AlertsAreOpen(new)
    BY <1>1, <1>5, UpcomingIsSound
<1>7. ASSUME old.list[i] \in Keys PROVE gone[old.list[i]] <= MaxPoll
    <2>1. FoundOpen(old, old.list[i])
        BY <1>1, <1>4 DEF AlertsAreOpen, FoundOpen
    <2>2. gone[old.list[i]] <= old.age /\ gone[old.list[i]] \in Nat /\ old.age \in 0..MaxPoll
        BY <1>1, <1>7, <2>1 DEF FoundLately, WatcherInv, WatcherTypes, IsPoll
    <2> QED BY <2>2, WatcherAssumption DEF WatcherAssumption
<1>8. raised' \in [Keys \X {0, 1} -> Nat] /\ RaisesOnlyTheLive
    BY <1>3, <1>7, RaiseCounts
<1> QED BY <1>2, <1>3, <1>6, <1>8, OnePollMoves

LEMMA LastCallKeeps ==
    ASSUME WatcherInv, NEW p \in Polls, LastCall(p)
    PROVE  WatcherInv' /\ RaisesOnlyTheLive
<1> DEFINE old == polls[p]
           i == Min(old.alerts)
           k == old.list[i]
           rest == old.alerts \ {i}
           new == [old EXCEPT !.alerts = rest]
<1>1. IsPoll(old) /\ FoundLately(old) /\ old.stage = "last"
    BY DEF WatcherInv, WatcherTypes, LastCall, At
<1>2. UNCHANGED <<slot, left, made, gone>>
    BY DEF LastCall, chainVars, history
<1>3. polls' = [polls EXCEPT ![p] = new]
    BY DEF LastCall
<1>4. \/ old.reads[k[1]] = k[2] /\ old.at[k] > 0 /\ Raise(k, 1)
      \/ UNCHANGED raised
    BY DEF LastCall, Closing
<1> HIDE DEF old, k, rest
<1>5. new = PollRecord(old.stage, old.age, old.list, old.reads, rest, old.at)
    BY <1>1, ChangedPoll DEF IsPoll
<1> HIDE DEF new
<1>6. IsRecord(new)
    BY <1>5 DEF IsRecord, PollRecord
<1>7. IsPoll(new) /\ FoundLately(new) /\ AlertsAreOpen(new)
    BY <1>1, <1>5, <1>6 DEF PollRecord, IsPoll, FoundLately, FoundOpen, AlertsAreOpen
<1>8. CASE old.reads[k[1]] = k[2] /\ old.at[k] > 0 /\ Raise(k, 1)
    <2>1. ASSUME k \in Keys PROVE gone[k] <= MaxPoll
        <3>1. FoundOpen(old, k)
            BY <1>1, <1>8 DEF FoundOpen
        <3>2. gone[k] <= old.age /\ gone[k] \in Nat /\ old.age \in 0..MaxPoll
            BY <1>1, <2>1, <3>1 DEF FoundLately, WatcherInv, WatcherTypes, IsPoll
        <3> QED BY <3>2, WatcherAssumption DEF WatcherAssumption
    <2>2. raised' \in [Keys \X {0, 1} -> Nat] /\ RaisesOnlyTheLive
        BY <1>8, <2>1, RaiseCounts
    <2> QED BY <1>2, <1>3, <1>7, <2>2, OnePollMoves
<1>9. CASE UNCHANGED raised
    BY <1>2, <1>3, <1>7, <1>9, QuietPoll
<1> QED BY <1>4, <1>8, <1>9

------------------------------------------------------------------------------
(* The timer, and a restart.                                               *)

LEMMA RestartKeeps ==
    ASSUME WatcherInv, Restart
    PROVE  WatcherInv' /\ RaisesOnlyTheLive
<1> USE DEF WatcherInv
<1>1. /\ UNCHANGED <<slot, left, made, gone>>
      /\ polls' = [p \in Polls |-> Idle] /\ raised' = [x \in Keys \X {0, 1} |-> 0]
    BY DEF Restart, chainVars
<1>2. IsPoll(Idle) /\ FoundLately(Idle) /\ AlertsAreOpen(Idle)
    BY IdleIsSound DEF WatcherTypes
<1>3. \A q \in Polls : IsPoll(polls'[q]) /\ FoundLately(polls'[q]) /\ AlertsAreOpen(polls'[q])
    BY <1>1, <1>2
<1>4. \A q \in Polls : IsPoll(polls[q])' /\ FoundLately(polls[q])' /\ AlertsAreOpen(polls[q])'
    BY <1>1, <1>3 DEF IsPoll, FoundLately, FoundOpen, AlertsAreOpen
<1>5. WatcherTypes'
    BY <1>1, <1>4 DEF WatcherTypes
<1>6. NotGoneYet'
    BY <1>1 DEF NotGoneYet, Pending
<1>7. RaisesOnlyTheLive
    BY <1>1 DEF RaisesOnlyTheLive, WatcherTypes
<1> QED BY <1>4, <1>5, <1>6, <1>7

\* A tick takes as much from a window as it adds to what has gone and to the age of a poll.
LEMMA TickMoves ==
    ASSUME WatcherInv, Tick
    PROVE  /\ UNCHANGED <<slot, made, raised>>
           /\ left' \in [Keys -> Nat] /\ gone' \in [Keys -> Nat]
           /\ \A k \in Keys :
                /\ left'[k] > 0 => left[k] > 0
                /\ k[2] > made \/ (Pending(k) /\ left[k] > 0) => gone'[k] = 0
                /\ gone'[k] <= gone[k] + 1
<1>1. /\ UNCHANGED <<slot, made, raised>>
      /\ left' = [k \in Keys |-> IF left[k] > 0 THEN left[k] - 1 ELSE 0]
      /\ gone' = [k \in Keys |-> IF k[2] > made \/ (Pending(k) /\ left[k] > 0) THEN 0
                                 ELSE IF gone[k] <= MaxPoll THEN gone[k] + 1 ELSE gone[k]]
    BY DEF Tick
<1>2. left \in [Keys -> Nat] /\ gone \in [Keys -> Nat]
    BY DEF WatcherInv, WatcherTypes
<1>3. left' \in [Keys -> Nat] /\ gone' \in [Keys -> Nat]
    BY <1>1, <1>2
<1>4. \A k \in Keys :
        /\ left'[k] > 0 => left[k] > 0
        /\ k[2] > made \/ (Pending(k) /\ left[k] > 0) => gone'[k] = 0
        /\ gone'[k] <= gone[k] + 1
    BY <1>1, <1>2
<1> QED BY <1>1, <1>3, <1>4

LEMMA TickKeeps ==
    ASSUME WatcherInv, Tick
    PROVE  WatcherInv' /\ RaisesOnlyTheLive
<1> USE DEF WatcherInv
<1>1. /\ UNCHANGED <<slot, made, raised>>
      /\ left' \in [Keys -> Nat] /\ gone' \in [Keys -> Nat]
      /\ \A k \in Keys :
            /\ left'[k] > 0 => left[k] > 0
            /\ k[2] > made \/ (Pending(k) /\ left[k] > 0) => gone'[k] = 0
            /\ gone'[k] <= gone[k] + 1
    BY TickMoves
<1>2. ASSUME NEW q \in Polls
      PROVE IsPoll(polls[q])' /\ FoundLately(polls[q])' /\ AlertsAreOpen(polls[q])'
    <2>1. CASE polls'[q] = Idle
        <3>1. made' \in Nat
            BY <1>1 DEF WatcherTypes
        <3>2. Idle.reads = [a \in Agents |-> None] /\ Idle.stage = "idle"
            BY DEF Idle
        <3>3. IsPoll(Idle) /\ AlertsAreOpen(Idle)
            BY IdleIsSound DEF WatcherTypes
        <3> QED BY <1>1, <2>1, <3>2, <3>3 DEF IsPoll, FoundLately, FoundOpen, AlertsAreOpen
    <2>2. CASE polls[q].age < MaxPoll /\ polls'[q] = [polls[q] EXCEPT !.age = @ + 1]
        <3> DEFINE old == polls[q]
                   new == polls'[q]
        <3>1. IsPoll(old) /\ FoundLately(old) /\ AlertsAreOpen(old)
            BY DEF WatcherTypes
        <3>2. new = [old EXCEPT !.age = old.age + 1] /\ old.age < MaxPoll
            BY <2>2
        <3> HIDE DEF old, new
        <3>3. new = PollRecord(old.stage, old.age + 1, old.list, old.reads, old.alerts, old.at)
            BY <3>1, <3>2, ChangedPoll DEF IsPoll
        <3>4. IsRecord(new)
            BY <3>3 DEF IsRecord, PollRecord
        <3>5. old.age + 1 \in 0..MaxPoll
            BY <3>1, <3>2, WatcherAssumption DEF IsPoll, WatcherAssumption
        <3>6. IsPoll(new) /\ AlertsAreOpen(new)
            BY <3>1, <3>3, <3>4, <3>5 DEF PollRecord, IsPoll, AlertsAreOpen
        <3>7. ASSUME NEW k \in Keys,
                     /\ new.reads[k[1]] = k[2]
                     /\ \/ new.stage = "read" /\ left'[k] > 0
                        \/ new.stage \in {"alert", "last"} /\ new.at[k] > 0
              PROVE gone'[k] <= new.age
            <4>1. FoundOpen(old, k)
                BY <1>1, <3>3, <3>7 DEF PollRecord, FoundOpen
            <4>2. gone[k] <= old.age /\ gone[k] \in Nat /\ gone'[k] \in Nat /\ old.age \in Nat
                BY <1>1, <3>1, <4>1 DEF FoundLately, WatcherTypes, IsPoll
            <4>3. new.age = old.age + 1 /\ gone'[k] <= gone[k] + 1
                BY <1>1, <3>3 DEF PollRecord
            <4> QED BY <4>2, <4>3
        <3>8. FoundLately(polls[q])'
            BY <3>7 DEF FoundLately, FoundOpen, new
        <3>9. IsPoll(polls[q])' /\ AlertsAreOpen(polls[q])'
            BY <1>1, <3>6 DEF IsPoll, AlertsAreOpen, new
        <3> QED BY <3>8, <3>9
    <2> QED BY <2>1, <2>2 DEF Tick
<1>3. polls' = [q \in Polls |-> polls'[q]]
    BY DEF Tick
<1>4. WatcherTypes'
    BY <1>1, <1>2, <1>3 DEF WatcherTypes
<1>5. NotGoneYet'
    BY <1>1 DEF NotGoneYet, Pending
<1>6. RaisesOnlyTheLive
    BY <1>1 DEF WatcherTypes, RaisesOnlyTheLive
<1> QED BY <1>2, <1>4, <1>5, <1>6

------------------------------------------------------------------------------
LEMMA WatcherStarts == Init => WatcherInv
<1> SUFFICES ASSUME Init PROVE WatcherInv
    OBVIOUS
<1> USE DEF Init
<1>1. WatcherTypes
    <2>1. made \in Nat /\ slot \in [Agents -> Nat] /\ \A a \in Agents : slot[a] <= made
        OBVIOUS
    <2>2. left \in [Keys -> Nat] /\ gone \in [Keys -> Nat] /\ raised \in [Keys \X {0, 1} -> Nat]
        OBVIOUS
    <2>3. polls = [q \in Polls |-> Idle]
        OBVIOUS
    <2>4. IsPoll(Idle)
        BY <2>1, IdleIsSound
    <2> QED BY <2>1, <2>2, <2>3, <2>4 DEF WatcherTypes
<1>2. NotGoneYet
    BY DEF NotGoneYet
<1>3. IsPoll(Idle) /\ FoundLately(Idle) /\ AlertsAreOpen(Idle)
    BY <1>1, IdleIsSound DEF WatcherTypes
<1>4. \A p \in Polls : FoundLately(polls[p]) /\ AlertsAreOpen(polls[p])
    BY <1>3
<1> QED BY <1>1, <1>2, <1>4 DEF WatcherInv

LEMMA WatcherSteps ==
    WatcherInv /\ [Next]_vars => WatcherInv' /\ RaisesOnlyTheLive
<1> SUFFICES ASSUME WatcherInv, [Next]_vars PROVE WatcherInv' /\ RaisesOnlyTheLive
    OBVIOUS
<1>1. ASSUME NEW a \in Agents, Propose(a) PROVE WatcherInv' /\ RaisesOnlyTheLive
    BY <1>1, ProposeKeeps
<1>2. ASSUME NEW a \in Agents, Close(a) PROVE WatcherInv' /\ RaisesOnlyTheLive
    BY <1>2, CloseKeeps
<1>3. ASSUME NEW a \in Agents, Record(a) PROVE WatcherInv' /\ RaisesOnlyTheLive
    BY <1>3, NothingMoves DEF Record, chainVars, watcherVars, history
<1>4. ASSUME NEW p \in Polls, PollStep(p) PROVE WatcherInv' /\ RaisesOnlyTheLive
    BY <1>4, FetchKeeps, RefusedKeeps, AnsweredKeeps, ReadKeeps, AlertKeeps, LastCallKeeps, FinishKeeps DEF PollStep
<1>5. ASSUME Fails PROVE WatcherInv' /\ RaisesOnlyTheLive
    BY <1>5, NothingMoves DEF Fails, chainVars, watcherVars
<1>6. ASSUME Restart PROVE WatcherInv' /\ RaisesOnlyTheLive
    BY <1>6, RestartKeeps
<1>7. ASSUME Tick PROVE WatcherInv' /\ RaisesOnlyTheLive
    BY <1>7, TickKeeps
<1>8. ASSUME UNCHANGED vars PROVE WatcherInv' /\ RaisesOnlyTheLive
    BY <1>8, NothingMoves DEF vars, chainVars, watcherVars, history
<1> QED BY <1>1, <1>2, <1>3, <1>4, <1>5, <1>6, <1>7, <1>8 DEF Next

\* AlertsWereLive: whatever polls overlap, a human is only told of a proposal that was still in its slot
\* and in its window no longer ago than a poll takes (watcher.js poll, classifyDivergence), for any window,
\* page, poll length and number of disputes.
THEOREM AlertsHold == Spec => AlertsWereLive
<1>1. Init => WatcherInv
    BY WatcherStarts
<1>2. WatcherInv /\ [Next]_vars => WatcherInv' /\ RaisesOnlyTheLive
    BY WatcherSteps
<1> QED BY <1>1, <1>2, PTL DEF Spec, AlertsWereLive

------------------------------------------------------------------------------
(* The index: the invariant.                                               *)

\* What is held is whole up to a block there is: every log up to it, in chain order.
IsHeld(held) ==
    /\ held = [to |-> held.to, logs |-> held.logs]
    /\ held.to \in 0..head /\ held.logs \in Seq(Nat \X Nat)
    /\ ChainOrder(held.logs) /\ ToSet(held.logs) = LogsIn(1, held.to)

\* Spans without a gap or an overlap, from a block on.
Spans == [from : Nat, to : Nat]
Ahead(spans, from) ==
    /\ spans \in Seq(Spans)
    /\ \A i \in DOMAIN spans : from <= spans[i].from /\ spans[i].from <= spans[i].to
    /\ \A i, j \in DOMAIN spans : i < j => spans[i].to < spans[j].from
    /\ \A i \in DOMAIN spans : spans[i].from = IF i = 1 THEN from ELSE spans[i - 1].to + 1

\* What a poll is to read goes on from what the index holds: the pieces first, then the rest.
IsReading(from, todo, pieces) ==
    /\ Ahead(pieces, from)
    /\ Ahead(todo, IF pieces = <<>> THEN from ELSE Last(pieces).to + 1)

PollGoesOn ==
    /\ poll = [stage |-> poll.stage, todo |-> poll.todo, pieces |-> poll.pieces, held |-> poll.held,
               through |-> poll.through]
    /\ poll.stage \in {"idle", "batch", "take", "save"}
    /\ poll.stage \in {"batch", "take"} => IsReading(index.to + 1, poll.todo, poll.pieces)
    /\ poll.stage = "take" =>
        /\ Reading # <<>> /\ poll.through = Through /\ poll.through <= head
        /\ poll.held = LogsIn(index.to + 1, poll.through)

\* What the page has shown by its cursor, and by the block its index got to.
PageIsSound ==
    /\ page = [stage |-> page.stage, rows |-> page.rows, after |-> page.after, pages |-> page.pages, to |-> page.to,
               latest |-> page.latest, missed |-> page.missed]
    /\ page.stage \in {"closed", "pages", "head", "shown"}
    /\ page.to \in 0..head /\ page.latest \in -1..head
    /\ page.rows \subseteq LogsIn(1, head)
    /\ page.stage = "pages" =>
        /\ page.after \in (0..head) \X Nat
        /\ \A l \in LogsIn(1, head) : ~Past(l, page.after) => l \in page.rows
    /\ page.stage = "head" => LogsIn(1, page.to) \subseteq page.rows
    /\ page.stage = "shown" =>
        \A l \in LogsIn(1, head) :
            l[1] <= Most(page.to, page.latest) /\ l[1] \notin page.missed => l \in page.rows

IndexTypes ==
    /\ chain \in [1..MaxBlock -> Nat] /\ head \in 1..MaxBlock /\ lag \in Nat
    /\ IsHeld(index) /\ IsHeld(file)

IndexIInv == IndexTypes /\ PollGoesOn /\ PageIsSound

------------------------------------------------------------------------------
(* The logs of blocks, and their order.                                    *)

LEMMA LogIsPair ==
    ASSUME chain \in [1..MaxBlock -> Nat], NEW a \in Nat \ {0}, NEW b \in Int, b <= MaxBlock, MaxBlock \in Nat,
           NEW l \in LogsIn(a, b)
    PROVE  l \in Nat \X Nat /\ l[1] \in a..b /\ l[2] \in 1..chain[l[1]]
<1>1. PICK n \in a..b : l \in {n} \X (1..chain[n])
    BY DEF LogsIn
<1>2. PICK k : l = <<n, k>> /\ k \in 1..chain[n]
    BY <1>1
<1>3. n \in Nat /\ n \in 1..MaxBlock /\ chain[n] \in Nat
    OBVIOUS
<1>4. k \in Nat
    BY <1>2, <1>3
<1>5. l[1] = n /\ l[2] = k
    BY <1>2
<1> QED BY <1>1, <1>2, <1>3, <1>4, <1>5

LEMMA LogOfBlock ==
    ASSUME NEW a, NEW b, NEW l \in Nat \X Nat, l[1] \in a..b, l[2] \in 1..chain[l[1]]
    PROVE  l \in LogsIn(a, b)
<1>1. l = <<l[1], l[2]>>
    OBVIOUS
<1> QED BY <1>1 DEF LogsIn

LEMMA LogsAreFinite ==
    ASSUME chain \in [1..MaxBlock -> Nat], NEW a \in Nat \ {0}, NEW b \in Int, b <= MaxBlock, MaxBlock \in Nat
    PROVE  IsFiniteSet(LogsIn(a, b))
<1> DEFINE logs == [n \in a..b |-> {n} \X (1..chain[n])]
           blocks == {{n} \X (1..chain[n]) : n \in a..b}
<1>1. logs \in Surjection(a..b, blocks)
    BY DEF Surjection
<1>2. IsFiniteSet(blocks)
    BY <1>1, FS_Interval, FS_Surjection
<1>3. \A n \in a..b : IsFiniteSet({n} \X (1..chain[n]))
    <2> SUFFICES ASSUME NEW n \in a..b PROVE IsFiniteSet({n} \X (1..chain[n]))
        OBVIOUS
    <2>1. chain[n] \in Int
        OBVIOUS
    <2>2. IsFiniteSet(1..chain[n])
        BY <2>1, FS_Interval
    <2>3. IsFiniteSet({n})
        BY FS_Singleton
    <2> QED BY <2>2, <2>3, FS_Product
<1>4. IsFiniteSet(UNION blocks)
    BY <1>2, <1>3, FS_UNION
<1> QED BY <1>4 DEF LogsIn

\* Logs in order are a sequence of all of them.
LEMMA OrderedLogs ==
    ASSUME NEW S, IsFiniteSet(S), NEW T, S \subseteq T, NEW logs \in InOrder(S)
    PROVE  logs \in Seq(T) /\ ToSet(logs) = S /\ ChainOrder(logs)
<1>1. Cardinality(S) \in Nat
    BY FS_CardinalityType
<1>2. logs \in Seq(S)
    BY <1>1 DEF InOrder
<1> QED BY <1>2, SeqMonotonic DEF InOrder

LEMMA PastIsAnOrder ==
    ASSUME NEW k \in Nat \X Nat, NEW l \in Nat \X Nat
    PROVE  /\ Past(k, l) => ~Past(l, k)
           /\ k[1] < l[1] => Past(l, k)
           /\ Past(l, k) => k[1] <= l[1]
           /\ ~Past(k, l) /\ ~Past(l, k) => k = l
           /\ \A m \in Nat \X Nat : Past(k, l) /\ Past(l, m) => Past(k, m)
    BY DEF Past

LEMMA JoinedInOrder ==
    ASSUME NEW T, T = Nat \X Nat, NEW s \in Seq(T), NEW t \in Seq(T), ChainOrder(s), ChainOrder(t),
           \A k \in ToSet(s), l \in ToSet(t) : Past(l, k)
    PROVE  s \o t \in Seq(T) /\ ToSet(s \o t) = ToSet(s) \cup ToSet(t) /\ ChainOrder(s \o t)
<1>1. PICK n \in Nat : n = Len(s)
    BY LenProperties
<1>2. PICK m \in Nat : m = Len(t)
    BY LenProperties
<1>3. PICK logs \in Seq(T) : logs = s \o t
    BY ConcatProperties
<1>4. DOMAIN s = 1..n /\ DOMAIN t = 1..m /\ DOMAIN logs = 1..(n + m)
    BY <1>1, <1>2, <1>3, ConcatProperties, LenProperties
<1>5. \A i \in 1..(n + m) : logs[i] = IF i <= n THEN s[i] ELSE t[i - n]
    BY <1>1, <1>2, <1>3, ConcatProperties
<1>6. \A i \in 1..n : logs[i] = s[i] /\ i \in 1..(n + m)
    BY <1>5
<1>7. \A i \in 1..m : logs[n + i] = t[i] /\ n + i \in 1..(n + m)
    BY <1>5
<1>8. \A i \in 1..(n + m) : i \in 1..n \/ (i - n \in 1..m /\ n + (i - n) = i)
    OBVIOUS
<1>9. ToSet(logs) = ToSet(s) \cup ToSet(t)
    <2>1. \A i \in 1..(n + m) : logs[i] \in ToSet(s) \cup ToSet(t)
        BY <1>4, <1>6, <1>7, <1>8 DEF ToSet
    <2>2. \A i \in 1..n : s[i] \in ToSet(logs)
        BY <1>4, <1>6 DEF ToSet
    <2>3. \A i \in 1..m : t[i] \in ToSet(logs)
        BY <1>4, <1>7 DEF ToSet
    <2>4. ToSet(logs) \subseteq ToSet(s) \cup ToSet(t)
        BY <1>4, <2>1 DEF ToSet
    <2>5. ToSet(s) \subseteq ToSet(logs) /\ ToSet(t) \subseteq ToSet(logs)
        BY <1>4, <2>2, <2>3 DEF ToSet
    <2> QED BY <2>4, <2>5
<1>10. ASSUME NEW i \in 1..(n + m), NEW j \in 1..(n + m), i < j PROVE Past(logs[j], logs[i])
    <2>1. CASE i \in 1..n /\ j \in 1..n
        BY <1>4, <1>6, <1>10, <2>1 DEF ChainOrder
    <2>2. CASE i - n \in 1..m /\ n + (i - n) = i /\ j - n \in 1..m /\ n + (j - n) = j
        <3>1. i - n < j - n
            BY <1>10
        <3>2. logs[i] = t[i - n] /\ logs[j] = t[j - n]
            BY <1>7, <2>2
        <3> QED BY <1>4, <2>2, <3>1, <3>2 DEF ChainOrder
    <2>3. CASE i \in 1..n /\ j - n \in 1..m /\ n + (j - n) = j
        <3>1. logs[i] = s[i] /\ logs[j] = t[j - n]
            BY <1>6, <1>7, <2>3
        <3>2. s[i] \in ToSet(s) /\ t[j - n] \in ToSet(t)
            BY <1>4, <2>3 DEF ToSet
        <3> QED BY <3>1, <3>2
    <2>4. ~(i - n \in 1..m /\ j \in 1..n)
        BY <1>10
    <2> QED BY <1>8, <2>1, <2>2, <2>3, <2>4
<1>11. ChainOrder(logs)
    BY <1>4, <1>10 DEF ChainOrder
<1> QED BY <1>3, <1>9, <1>11

\* What is whole stays so with the logs of the blocks after it.
LEMMA HeldGrows ==
    ASSUME IndexTypes, MaxBlock \in Nat, NEW held, IsHeld(held), NEW through \in Nat, held.to <= through, through <= head,
           NEW fresh \in InOrder(LogsIn(held.to + 1, through))
    PROVE  IsHeld([to |-> through, logs |-> held.logs \o fresh])
<1> DEFINE new == LogsIn(held.to + 1, through)
           old == LogsIn(1, held.to)
<1>1. /\ head \in Nat /\ head <= MaxBlock /\ chain \in [1..MaxBlock -> Nat]
      /\ held.to \in Nat /\ held.to <= head
    BY DEF IndexTypes, IsHeld
<1>2. IsFiniteSet(new) /\ \A l \in new : l \in Nat \X Nat /\ l[1] > held.to
    BY <1>1, LogsAreFinite, LogIsPair
<1>3. \A l \in old : l \in Nat \X Nat /\ l[1] <= held.to
    BY <1>1, LogIsPair
<1>4. fresh \in Seq(Nat \X Nat) /\ ToSet(fresh) = new /\ ChainOrder(fresh)
    BY <1>2, OrderedLogs
<1>5. held.logs \in Seq(Nat \X Nat) /\ ToSet(held.logs) = old /\ ChainOrder(held.logs)
    BY DEF IsHeld
<1>6. LogsIn(1, through) = old \cup new
    <2>1. 1..through = (1..held.to) \cup ((held.to + 1)..through)
        BY <1>1
    <2> QED BY <2>1 DEF LogsIn
<1> HIDE DEF new, old
<1>7. \A k \in old, l \in new : Past(l, k)
    <2> SUFFICES ASSUME NEW k \in old, NEW l \in new PROVE Past(l, k)
        OBVIOUS
    <2>1. k \in Nat \X Nat /\ l \in Nat \X Nat /\ k[1] \in Nat /\ l[1] \in Nat /\ k[1] <= held.to /\ held.to < l[1]
        BY <1>1, <1>2, <1>3
    <2>2. k[1] < l[1]
        BY <1>1, <2>1
    <2> QED BY <2>2 DEF Past
<1> DEFINE logs == held.logs \o fresh
<1>8. logs \in Seq(Nat \X Nat) /\ ToSet(logs) = LogsIn(1, through) /\ ChainOrder(logs)
    BY <1>4, <1>5, <1>6, <1>7, JoinedInOrder
<1> HIDE DEF logs
<1> DEFINE copy == [to |-> through, logs |-> logs]
<1>9. copy.to = through /\ copy.logs = logs
    OBVIOUS
<1>10. through \in 0..head
    BY <1>1
<1>11. IsHeld(copy)
    BY <1>8, <1>9, <1>10 DEF IsHeld
<1> QED BY <1>11 DEF logs

------------------------------------------------------------------------------
(* Spans ahead of the index.                                               *)

LEMMA NothingAhead == ASSUME NEW from PROVE Ahead(<<>>, from)
    BY DEF Ahead

\* The first n of the spans, and the rest after them.
LEMMA AheadInParts ==
    ASSUME NEW from, NEW s, Ahead(s, from), NEW n \in 1..Len(s)
    PROVE  /\ Ahead(SubSeq(s, 1, n), from) /\ Len(SubSeq(s, 1, n)) = n /\ SubSeq(s, 1, n)[n] = s[n]
           /\ Ahead(SubSeq(s, n + 1, Len(s)), s[n].to + 1)
<1>1. PICK m \in Nat : m = Len(s) /\ DOMAIN s = 1..m /\ s \in Seq(Spans)
    BY LenProperties DEF Ahead
<1>2. n \in 1..m /\ \A i \in 1..m : s[i] \in Spans
    BY <1>1, ElementOfSeq
<1>3. PICK a : a = SubSeq(s, 1, n)
    OBVIOUS
<1>4. PICK b : b = SubSeq(s, n + 1, m)
    OBVIOUS
<1>5. a \in Seq(Spans) /\ Len(a) = n /\ \A i \in 1..n : a[i] = s[i]
    BY <1>2, <1>3, SubSeqProperties
<1>6. b \in Seq(Spans) /\ Len(b) = m - n /\ \A i \in 1..(m - n) : b[i] = s[n + i]
    <2>1. n + 1 \in Int /\ \A i \in (n + 1)..m : s[i] \in Spans
        BY <1>2
    <2>2. b \in Seq(Spans) /\ Len(b) = (IF n + 1 <= m THEN m - (n + 1) + 1 ELSE 0)
          /\ \A i \in 1..(m - (n + 1) + 1) : b[i] = s[(n + 1) + i - 1]
        BY <1>4, <2>1, SubSeqProperties
    <2>3. m - (n + 1) + 1 = m - n /\ \A i \in 1..(m - n) : (n + 1) + i - 1 = n + i
        BY <1>2
    <2> QED BY <1>2, <2>2, <2>3
<1>7. DOMAIN a = 1..n /\ DOMAIN b = 1..(m - n)
    BY <1>5, <1>6, LenProperties
<1>8. /\ \A i \in 1..m : from <= s[i].from /\ s[i].from <= s[i].to
      /\ \A i, j \in 1..m : i < j => s[i].to < s[j].from
      /\ \A i \in 1..m : s[i].from = IF i = 1 THEN from ELSE s[i - 1].to + 1
    BY <1>1 DEF Ahead
<1>9. Ahead(a, from)
    <2>1. \A i \in 1..n : i \in 1..m /\ (i # 1 => i - 1 \in 1..n)
        BY <1>2
    <2> QED BY <1>5, <1>7, <1>8, <2>1 DEF Ahead
<1>10. Ahead(b, s[n].to + 1)
    <2>1. \A i \in 1..(m - n) : n + i \in 1..m /\ n < n + i /\ n + i # 1 /\ (n + i) - 1 = n + (i - 1)
        BY <1>2
    <2>2. ASSUME NEW i \in 1..(m - n) PROVE s[n].to + 1 <= b[i].from /\ b[i].from <= b[i].to
        <3>1. s[n].to < s[n + i].from /\ s[n + i].from <= s[n + i].to
            BY <1>2, <1>8, <2>1
        <3>2. s[n].to \in Nat /\ s[n + i].from \in Nat
            <4>1. s[n] \in Spans /\ s[n + i] \in Spans
                BY <1>2, <2>1
            <4> QED BY <4>1 DEF Spans
        <3>3. s[n].to + 1 <= s[n + i].from
            BY ONLY <3>1, <3>2
        <3>4. b[i] = s[n + i]
            BY <1>6
        <3> QED BY <3>1, <3>3, <3>4
    <2>3. ASSUME NEW i \in 1..(m - n), NEW j \in 1..(m - n), i < j PROVE b[i].to < b[j].from
        <3>1. n + i \in 1..m /\ n + j \in 1..m /\ n + i < n + j
            BY <1>2, <2>1, <2>3
        <3>2. s[n + i].to < s[n + j].from
            BY <1>8, <3>1
        <3>3. b[i] = s[n + i] /\ b[j] = s[n + j]
            BY <1>6
        <3> QED BY <3>2, <3>3
    <2>4. ASSUME NEW i \in 1..(m - n) PROVE b[i].from = IF i = 1 THEN s[n].to + 1 ELSE b[i - 1].to + 1
        <3>1. s[n + i].from = s[n + (i - 1)].to + 1
            BY <1>8, <2>1
        <3>2. CASE i = 1
            <4>1. n + (i - 1) = n
                BY <1>2, <3>2
            <4> QED BY <1>6, <3>1, <3>2, <4>1
        <3>3. CASE i # 1
            <4>1. i - 1 \in 1..(m - n)
                BY <3>3
            <4> QED BY <1>6, <3>1, <3>3, <4>1
        <3> QED BY <3>2, <3>3
    <2> QED BY <1>6, <1>7, <2>2, <2>3, <2>4 DEF Ahead
<1> QED BY <1>1, <1>2, <1>3, <1>4, <1>5, <1>9, <1>10

\* The spans of a poll.
LEMMA PlanIsAhead ==
    ASSUME LogSpan \in Nat \ {0}, NEW from \in Nat, NEW to \in Int
    PROVE  Ahead(PlanSpans(from, to), from)
<1>1. PICK n \in Nat : n = IF from > to THEN 0 ELSE (to - from) \div LogSpan + 1
    OBVIOUS
<1>2. PICK at : at = [k \in 0..n |-> from + k * LogSpan]
    OBVIOUS
<1>3. PICK s : s = [k \in 1..n |-> [from |-> at[k - 1], to |-> Least(to, at[k] - 1)]]
    OBVIOUS
<1>4. PlanSpans(from, to) = s
    <2>1. \A k \in 1..n : at[k - 1] = from + (k - 1) * LogSpan /\ at[k] = from + k * LogSpan
        BY <1>1, <1>2
    <2>2. s = [k \in 1..n |-> [from |-> from + (k - 1) * LogSpan, to |-> Least(to, from + k * LogSpan - 1)]]
        BY <1>3, <2>1
    <2> QED BY <1>1, <2>2 DEF PlanSpans
<1>5. \A k \in 0..n : at[k] \in Nat
    <2> SUFFICES ASSUME NEW k \in 0..n PROVE at[k] \in Nat
        OBVIOUS
    <2>1. k * LogSpan \in Nat
        BY <1>1
    <2> QED BY <1>2, <2>1
<1>6. at[0] = from
    BY <1>1, <1>2
<1>7. \A k \in 1..n : k - 1 \in 0..n /\ k \in 0..n /\ at[k] = at[k - 1] + LogSpan
    <2> SUFFICES ASSUME NEW k \in 1..n PROVE k - 1 \in 0..n /\ k \in 0..n /\ at[k] = at[k - 1] + LogSpan
        OBVIOUS
    <2>1. k - 1 \in 0..n /\ k \in 0..n
        BY <1>1
    <2>2. k * LogSpan = (k - 1) * LogSpan + LogSpan
        OBVIOUS
    <2>3. PICK d \in Int : d = (k - 1) * LogSpan
        OBVIOUS
    <2>4. at[k] = from + k * LogSpan /\ at[k - 1] = from + (k - 1) * LogSpan
        BY <1>2, <2>1
    <2> QED BY <2>1, <2>2, <2>3, <2>4
<1>8. \A i, j \in 0..n : i <= j => at[i] <= at[j]
    <2> SUFFICES ASSUME NEW i \in 0..n, NEW j \in 0..n, i <= j PROVE at[i] <= at[j]
        OBVIOUS
    <2>1. i * LogSpan <= j * LogSpan /\ i * LogSpan \in Nat /\ j * LogSpan \in Nat
        BY <1>1
    <2> QED BY <1>2, <2>1
<1>9. \A k \in 1..n : at[k - 1] <= to
    <2> SUFFICES ASSUME NEW k \in 1..n PROVE at[k - 1] <= to
        OBVIOUS
    <2>1. from <= to /\ n = (to - from) \div LogSpan + 1
        BY <1>1
    <2>2. PICK q \in Nat, r \in Nat : q = (to - from) \div LogSpan /\ to - from = q * LogSpan + r
        <3>1. to - from \in Nat
            BY <2>1
        <3> QED BY <3>1
    <2>3. q \in 0..n /\ k - 1 \in 0..n /\ k - 1 <= q
        BY <1>1, <2>1, <2>2
    <2>4. at[q] = from + q * LogSpan
        BY <1>2, <2>3
    <2>5. PICK d \in Int : d = q * LogSpan
        OBVIOUS
    <2>6. at[q] <= to
        BY <2>2, <2>4, <2>5
    <2> QED BY <1>5, <1>8, <2>3, <2>6
<1>10. \A k \in 1..n : /\ s[k].from = at[k - 1] /\ s[k].to = Least(to, at[k] - 1)
                       /\ s[k] = [from |-> s[k].from, to |-> s[k].to]
    BY <1>3
<1>11. \A k \in 1..n : /\ s[k] \in Spans /\ from <= s[k].from /\ s[k].from <= s[k].to /\ s[k].to < at[k]
                       /\ k < n => s[k].to = at[k] - 1
    <2> SUFFICES ASSUME NEW k \in 1..n
        PROVE  /\ s[k] \in Spans /\ from <= s[k].from /\ s[k].from <= s[k].to /\ s[k].to < at[k]
               /\ k < n => s[k].to = at[k] - 1
        OBVIOUS
    <2>1. PICK c \in Nat : c = at[k - 1]
        BY <1>5, <1>7
    <2>2. at[k] = c + LogSpan /\ c <= to /\ from <= c
        <3>1. 0 \in 0..n /\ 0 <= k - 1
            BY <1>1
        <3> QED BY <1>6, <1>7, <1>8, <1>9, <2>1, <3>1
    <2>3. k < n => c + LogSpan <= to
        <3> SUFFICES ASSUME k < n PROVE c + LogSpan <= to
            OBVIOUS
        <3>1. k + 1 \in 1..n /\ (k + 1) - 1 = k
            BY <1>1
        <3> QED BY <1>9, <2>2, <3>1
    <2>4. s[k].from = c /\ s[k].to = Least(to, c + LogSpan - 1)
        <3>1. at[k] - 1 = c + LogSpan - 1
            BY <2>1, <2>2
        <3> QED BY <1>10, <2>1, <3>1
    <2>5. /\ s[k].to \in Nat /\ s[k].from \in Nat /\ s[k].from <= s[k].to /\ s[k].to < c + LogSpan
          /\ c + LogSpan <= to => s[k].to = c + LogSpan - 1
        BY <2>2, <2>4 DEF Least
    <2>6. s[k] \in Spans
        <3>1. PICK f : f = s[k].from
            OBVIOUS
        <3>2. PICK t : t = s[k].to
            OBVIOUS
        <3>3. s[k] = [from |-> f, to |-> t] /\ f \in Nat /\ t \in Nat
            BY <1>10, <2>5, <3>1, <3>2
        <3> QED BY <3>3 DEF Spans
    <2> QED BY <2>2, <2>3, <2>4, <2>5, <2>6
<1>12. DOMAIN s = 1..n
    BY <1>3
<1>13. s \in Seq(Spans)
    <2>1. s \in [1..n -> Spans]
        BY <1>3, <1>11
    <2> QED BY <1>1, <2>1
<1>14. ASSUME NEW i \in 1..n, NEW j \in 1..n, i < j PROVE s[i].to < s[j].from
    <2>1. i \in 0..n /\ j - 1 \in 0..n /\ i <= j - 1
        BY <1>1, <1>14
    <2>2. at[i] <= at[j - 1] /\ at[i] \in Nat /\ at[j - 1] \in Nat
        BY <1>5, <1>8, <2>1
    <2>3. s[i].to < at[i] /\ s[j].from = at[j - 1]
        BY <1>10, <1>11
    <2>4. s[i].to \in Nat
        <3>1. s[i] \in Spans
            BY <1>11
        <3> QED BY <3>1 DEF Spans
    <2> QED BY <2>2, <2>3, <2>4
<1>15. ASSUME NEW i \in 1..n PROVE s[i].from = IF i = 1 THEN from ELSE s[i - 1].to + 1
    <2>1. CASE i = 1
        <3>1. i - 1 = 0
            BY <2>1
        <3> QED BY <1>6, <1>10, <2>1, <3>1
    <2>2. CASE i # 1
        <3>1. i - 1 \in 1..n /\ i - 1 < n /\ i - 1 \in 0..n
            BY <1>1, <2>2
        <3>2. s[i - 1].to = at[i - 1] - 1 /\ s[i].from = at[i - 1] /\ at[i - 1] \in Nat
            BY <1>5, <1>10, <1>11, <3>1
        <3>3. s[i].from = s[i - 1].to + 1
            BY <3>2
        <3> QED BY <2>2, <3>3
    <2> QED BY <2>1, <2>2
<1> QED BY <1>4, <1>11, <1>12, <1>13, <1>14, <1>15 DEF Ahead

\* The first of them in halves.
LEMMA HalvesAreAhead ==
    ASSUME NEW from \in Nat, NEW s, Ahead(s, from), s # <<>>, s[1].from # s[1].to
    PROVE  LET mid == (s[1].from + s[1].to) \div 2
           IN /\ Ahead(<<[from |-> s[1].from, to |-> mid], [from |-> mid + 1, to |-> s[1].to]>> \o Tail(s), from)
              /\ <<[from |-> s[1].from, to |-> mid], [from |-> mid + 1, to |-> s[1].to]>> \o Tail(s) # <<>>
              /\ Last(<<[from |-> s[1].from, to |-> mid], [from |-> mid + 1, to |-> s[1].to]>> \o Tail(s)).to = Last(s).to
<1>1. PICK m \in Nat : m = Len(s) /\ m # 0 /\ DOMAIN s = 1..m /\ s \in Seq(Spans)
    BY LenProperties, EmptySeq DEF Ahead
<1>2. \A i \in 1..m : s[i] \in Spans
    BY <1>1, ElementOfSeq
<1>3. PICK b \in Nat : s[1].from = from /\ s[1].to = b /\ from < b
    BY <1>1, <1>2 DEF Ahead, Spans
<1>4. PICK mid \in Nat : mid = (s[1].from + s[1].to) \div 2 /\ from <= mid /\ mid < b
    BY <1>3
<1>5. PICK two : two = <<[from |-> from, to |-> mid], [from |-> mid + 1, to |-> b]>>
    OBVIOUS
<1>6. /\ two \in Seq(Spans) /\ Len(two) = 2
      /\ two[1].from = from /\ two[1].to = mid /\ two[2].from = mid + 1 /\ two[2].to = b
    BY <1>5 DEF Spans
<1>7. PICK rest : rest = Tail(s)
    OBVIOUS
<1>8. rest \in Seq(Spans) /\ Len(rest) = m - 1 /\ \A i \in 1..(m - 1) : rest[i] = s[i + 1]
    BY <1>1, <1>7, HeadTailProperties
<1>9. PICK t : t = two \o rest
    OBVIOUS
<1>10. t \in Seq(Spans) /\ Len(t) = m + 1 /\ \A i \in 1..(m + 1) : t[i] = IF i <= 2 THEN two[i] ELSE rest[i - 2]
    <2>1. 2 + (m - 1) = m + 1
        OBVIOUS
    <2>2. /\ t \in Seq(Spans) /\ Len(t) = Len(two) + Len(rest)
          /\ \A i \in 1..(Len(two) + Len(rest)) : t[i] = IF i <= Len(two) THEN two[i] ELSE rest[i - Len(two)]
        <3>1. two \in Seq(Spans) /\ rest \in Seq(Spans)
            BY <1>6, <1>8
        <3> QED BY <1>9, <3>1, ConcatProperties
    <2>3. Len(two) = 2 /\ Len(rest) = m - 1 /\ Len(two) + Len(rest) = m + 1
        BY <1>6, <1>8, <2>1
    <2> QED BY <2>2, <2>3
<1>11. /\ t[1] = two[1] /\ t[2] = two[2] /\ \A i \in 3..(m + 1) : t[i] = s[i - 1] /\ i - 1 \in 2..m
    <2>1. \A i \in 3..(m + 1) : i - 2 \in 1..(m - 1) /\ (i - 2) + 1 = i - 1 /\ i - 1 \in 2..m /\ ~(i <= 2) /\ i \in 1..(m + 1)
        OBVIOUS
    <2>2. 1 \in 1..(m + 1) /\ 2 \in 1..(m + 1) /\ 1 <= 2
        BY <1>1
    <2>3. t[1] = two[1] /\ t[2] = two[2]
        BY <1>10, <2>2
    <2>4. ASSUME NEW i \in 3..(m + 1) PROVE t[i] = s[i - 1] /\ i - 1 \in 2..m
        <3>1. t[i] = rest[i - 2]
            BY <1>10, <2>1
        <3>2. rest[i - 2] = s[(i - 2) + 1]
            BY <1>8, <2>1
        <3> QED BY <2>1, <3>1, <3>2
    <2> QED BY <2>3, <2>4
<1>12. DOMAIN t = 1..(m + 1)
    BY <1>10, LenProperties
<1>13. /\ \A i \in 1..m : from <= s[i].from /\ s[i].from <= s[i].to
       /\ \A i, j \in 1..m : i < j => s[i].to < s[j].from
       /\ \A i \in 1..m : s[i].from = IF i = 1 THEN from ELSE s[i - 1].to + 1
    BY <1>1 DEF Ahead
<1>14. \A i \in 1..(m + 1) : i = 1 \/ i = 2 \/ i \in 3..(m + 1)
    OBVIOUS
<1>15. \A i \in 3..(m + 1) : b < t[i].from /\ t[i].from <= t[i].to /\ t[i] \in Spans
    <2> SUFFICES ASSUME NEW i \in 3..(m + 1) PROVE b < t[i].from /\ t[i].from <= t[i].to /\ t[i] \in Spans
        OBVIOUS
    <2>1. t[i] = s[i - 1] /\ i - 1 \in 1..m /\ 1 \in 1..m /\ 1 < i - 1
        BY <1>11
    <2> QED BY <1>2, <1>3, <1>13, <2>1
<1>16. \A i \in 1..(m + 1) : from <= t[i].from /\ t[i].from <= t[i].to
    <2> SUFFICES ASSUME NEW i \in 1..(m + 1) PROVE from <= t[i].from /\ t[i].from <= t[i].to
        OBVIOUS
    <2>1. CASE i = 1 \/ i = 2
        BY <1>4, <1>6, <1>11, <2>1
    <2>2. CASE i \in 3..(m + 1)
        BY <1>3, <1>15, <2>2 DEF Spans
    <2> QED BY <1>14, <2>1, <2>2
<1>17. \A i, j \in 1..(m + 1) : i < j => t[i].to < t[j].from
    <2> SUFFICES ASSUME NEW i \in 1..(m + 1), NEW j \in 1..(m + 1), i < j PROVE t[i].to < t[j].from
        OBVIOUS
    <2>1. CASE i = 1 /\ j = 2
        BY <1>6, <1>11, <2>1
    <2>2. CASE i \in {1, 2} /\ j \in 3..(m + 1)
        <3>1. t[i].to \in Nat /\ t[i].to <= b
            BY <1>4, <1>6, <1>11, <2>2
        <3>2. b < t[j].from /\ t[j].from \in Nat
            BY <1>15, <2>2 DEF Spans
        <3> QED BY <1>3, <3>1, <3>2
    <2>3. CASE i \in 3..(m + 1) /\ j \in 3..(m + 1)
        <3>1. t[i] = s[i - 1] /\ t[j] = s[j - 1] /\ i - 1 \in 1..m /\ j - 1 \in 1..m /\ i - 1 < j - 1
            BY <1>11, <2>3
        <3> QED BY <1>13, <3>1
    <2>4. (i = 1 /\ j = 2) \/ (i \in {1, 2} /\ j \in 3..(m + 1)) \/ (i \in 3..(m + 1) /\ j \in 3..(m + 1))
        OBVIOUS
    <2> QED BY <2>1, <2>2, <2>3, <2>4
<1>18. \A i \in 1..(m + 1) : t[i].from = IF i = 1 THEN from ELSE t[i - 1].to + 1
    <2> SUFFICES ASSUME NEW i \in 1..(m + 1) PROVE t[i].from = IF i = 1 THEN from ELSE t[i - 1].to + 1
        OBVIOUS
    <2>1. CASE i = 1 \/ i = 2
        BY <1>6, <1>11, <2>1
    <2>2. CASE i = 3
        <3>1. t[3] = s[2] /\ 2 \in 1..m
            BY <1>11, <2>2
        <3>2. s[2].from = s[1].to + 1
            BY <1>13, <3>1
        <3> QED BY <1>3, <1>6, <1>11, <2>2, <3>1, <3>2
    <2>3. CASE i \in 4..(m + 1)
        <3>1. t[i] = s[i - 1] /\ i - 1 \in 1..m /\ i - 1 # 1 /\ i - 1 \in 3..(m + 1)
            BY <1>11, <2>3
        <3>2. t[i - 1] = s[(i - 1) - 1]
            BY <1>11, <3>1
        <3> QED BY <1>13, <2>3, <3>1, <3>2
    <2>4. i = 1 \/ i = 2 \/ i = 3 \/ i \in 4..(m + 1)
        OBVIOUS
    <2> QED BY <2>1, <2>2, <2>3, <2>4
<1>19. Ahead(t, from)
    BY <1>10, <1>12, <1>16, <1>17, <1>18 DEF Ahead
<1>20. t[m + 1].to = s[m].to
    <2>1. CASE m = 1
        BY <1>3, <1>6, <1>11, <2>1
    <2>2. CASE m # 1
        <3>1. m + 1 \in 3..(m + 1) /\ (m + 1) - 1 = m
            BY <1>1, <2>2
        <3> QED BY <1>11, <3>1
    <2> QED BY <2>1, <2>2
<1> QED BY <1>1, <1>3, <1>4, <1>5, <1>7, <1>9, <1>10, <1>19, <1>20 DEF Last

LEMMA TailIsAhead ==
    ASSUME NEW from, NEW s, Ahead(s, from), s # <<>>
    PROVE  /\ Ahead(<<s[1]>>, from) /\ Ahead(Tail(s), s[1].to + 1)
           /\ s[1] \in Spans /\ s[1].from = from /\ from <= s[1].to
           /\ IF Tail(s) = <<>> THEN Last(s) = s[1] ELSE Last(Tail(s)) = Last(s)
<1>1. PICK m \in Nat : m = Len(s) /\ m # 0 /\ DOMAIN s = 1..m /\ s \in Seq(Spans)
    BY LenProperties, EmptySeq DEF Ahead
<1>2. 1 \in 1..m /\ s[1] \in Spans
    BY <1>1, ElementOfSeq
<1>3. s[1].from = from /\ s[1].from <= s[1].to
    BY <1>1, <1>2 DEF Ahead
<1>4. Ahead(<<s[1]>>, from)
    <2>1. PICK x : x = s[1]
        OBVIOUS
    <2>2. PICK one : one = <<x>>
        OBVIOUS
    <2>3. one \in Seq(Spans) /\ DOMAIN one = 1..1 /\ one[1] = x /\ \A i \in 1..1 : i = 1
        BY <1>2, <2>1, <2>2
    <2>4. from <= x.from /\ x.from <= x.to /\ x.from = from
        <3>1. from <= s[1].from
            BY <1>1, <1>2 DEF Ahead
        <3> QED BY <1>3, <2>1, <3>1
    <2>5. Ahead(one, from)
        BY <2>3, <2>4 DEF Ahead
    <2> QED BY <2>1, <2>2, <2>5
<1>5. Tail(s) = SubSeq(s, 2, m)
    BY <1>1, TailIsSubSeq
<1>6. Ahead(SubSeq(s, 1 + 1, m), s[1].to + 1)
    BY <1>1, <1>2, AheadInParts
<1>7. Ahead(Tail(s), s[1].to + 1)
    <2>1. 1 + 1 = 2
        OBVIOUS
    <2> QED BY <1>5, <1>6, <2>1
<1>8. IF Tail(s) = <<>> THEN Last(s) = s[1] ELSE Last(Tail(s)) = Last(s)
    <2>1. PICK t : t = Tail(s)
        OBVIOUS
    <2>2. t \in Seq(Spans) /\ Len(t) = m - 1 /\ \A i \in 1..(m - 1) : t[i] = s[i + 1]
        BY <1>1, <2>1, HeadTailProperties
    <2>3. CASE m = 1
        <3>1. t = <<>>
            BY <2>2, <2>3, EmptySeq
        <3> QED BY <1>1, <2>1, <2>3, <3>1 DEF Last
    <2>4. CASE m # 1
        <3>1. m - 1 \in 1..(m - 1) /\ (m - 1) + 1 = m
            BY <1>1, <2>4
        <3>2. t # <<>> /\ t[m - 1] = s[m]
            BY <2>2, <3>1, EmptySeq
        <3> QED BY <1>1, <2>1, <2>2, <3>2 DEF Last
    <2> QED BY <2>3, <2>4
<1> QED BY <1>2, <1>3, <1>4, <1>7, <1>8

------------------------------------------------------------------------------
(* What is read, and what is left to be read.                              *)

LEMMA IndexerBounds ==
    ASSUME IndexerAssumption
    PROVE  /\ LogSpan \in Nat \ {0} /\ Batch \in Nat \ {0} /\ SpansPerPoll \in Nat /\ PageRows \in Nat \ {0}
           /\ TailBlocks \in Nat /\ MaxBlock \in Nat /\ Lag \in Nat /\ HeadMargin \in Nat /\ MaxBlock # 0
           /\ Chains \subseteq [1..MaxBlock -> Nat]
    BY DEF IndexerAssumption

LEMMA ReadingIsNext ==
    ASSUME IndexerAssumption, NEW from \in Nat, IsReading(from, poll.todo, poll.pieces), Reading # <<>>
    PROVE  /\ Through \in Nat /\ from <= Through /\ Reading[1].from = from
           /\ poll.pieces # <<>> => IsReading(Through + 1, poll.todo, Tail(poll.pieces))
           /\ poll.pieces = <<>> => IsReading(from, Later, Reading) /\ IsReading(Through + 1, Later, <<>>)
<1>1. PICK p : p = poll.pieces
    OBVIOUS
<1>2. PICK t : t = poll.todo
    OBVIOUS
<1>3. PICK r : r = Reading
    OBVIOUS
<1>4. Ahead(p, from) /\ Ahead(t, IF p = <<>> THEN from ELSE Last(p).to + 1)
    BY <1>1, <1>2 DEF IsReading
<1>5. Through = Last(r).to
    BY <1>3 DEF Through
<1>6. CASE p # <<>>
    <2>1. r = <<p[1]>>
        BY <1>1, <1>3, <1>6 DEF Reading
    <2>2. Last(r) = p[1] /\ r[1] = p[1]
        <3>1. PICK x : x = p[1]
            OBVIOUS
        <3>2. Len(<<x>>) = 1 /\ <<x>>[1] = x
            OBVIOUS
        <3> QED BY <2>1, <3>1, <3>2 DEF Last
    <2>3. /\ Ahead(Tail(p), p[1].to + 1) /\ p[1] \in Spans /\ p[1].from = from /\ from <= p[1].to
          /\ IF Tail(p) = <<>> THEN Last(p) = p[1] ELSE Last(Tail(p)) = Last(p)
        BY <1>4, <1>6, TailIsAhead
    <2>4. p[1].to \in Nat
        BY <2>3 DEF Spans
    <2>5. IsReading(p[1].to + 1, t, Tail(p))
        BY <1>4, <1>6, <2>3 DEF IsReading
    <2> QED BY <1>1, <1>2, <1>3, <1>5, <1>6, <2>2, <2>3, <2>4, <2>5
<1>7. CASE p = <<>>
    <2>1. PICK m \in Nat : m = Len(t)
        BY <1>4, LenProperties DEF Ahead
    <2>2. PICK n \in Nat : n = Least(Batch, m)
        BY <2>1, IndexerBounds DEF Least
    <2>3. r = SubSeq(t, 1, n)
        BY <1>1, <1>2, <1>3, <1>7, <2>1, <2>2 DEF Reading
    <2>4. n \in 1..m
        <3>1. m # 0
            <4> SUFFICES ASSUME m = 0 PROVE FALSE
                OBVIOUS
            <4>1. n = 0
                BY <2>2, IndexerBounds DEF Least
            <4>2. SubSeq(t, 1, 0) = <<>>
                BY SubSeqEmpty
            <4> QED BY <1>3, <2>3, <4>1, <4>2
        <3> QED BY <2>1, <2>2, <3>1, IndexerBounds DEF Least
    <2>5. /\ Ahead(r, from) /\ Len(r) = n /\ r[n] = t[n]
          /\ Ahead(SubSeq(t, n + 1, m), t[n].to + 1)
        BY <1>4, <1>7, <2>1, <2>3, <2>4, AheadInParts
    <2>6. Last(r) = t[n] /\ Later = SubSeq(t, n + 1, m)
        BY <1>2, <1>3, <2>1, <2>5 DEF Last, Later
    <2>7. t[n] \in Spans /\ r[1].from = from /\ from <= t[n].from /\ t[n].from <= t[n].to
        <3>1. t \in Seq(Spans) /\ DOMAIN t = 1..m
            BY <1>4, <2>1, LenProperties DEF Ahead
        <3>2. t[n] \in Spans
            BY <2>1, <2>4, <3>1, ElementOfSeq
        <3>3. from <= t[n].from /\ t[n].from <= t[n].to
            BY <1>4, <1>7, <2>4, <3>1 DEF Ahead
        <3>4. r[1].from = from
            BY <1>3, <2>5, TailIsAhead
        <3> QED BY <3>2, <3>3, <3>4
    <2>8. t[n].to \in Nat /\ from <= t[n].to
        <3>1. PICK s \in Spans : s = t[n]
            BY <2>7
        <3>2. s.from \in Nat /\ s.to \in Nat
            BY ONLY <3>1 DEF Spans
        <3>3. from <= s.from /\ s.from <= s.to
            BY <2>7, <3>1
        <3>4. from <= s.to
            BY ONLY from \in Nat, <3>2, <3>3
        <3> QED BY ONLY <3>1, <3>2, <3>4
    <2>9. IsReading(from, Later, r)
        BY <1>3, <2>5, <2>6 DEF IsReading
    <2>10. IsReading(t[n].to + 1, Later, <<>>)
        BY <2>5, <2>6, NothingAhead DEF IsReading
    <2> QED BY <1>1, <1>3, <1>5, <1>7, <2>6, <2>7, <2>8, <2>9, <2>10
<1> QED BY <1>6, <1>7

------------------------------------------------------------------------------
(* What a step leaves as it was.                                           *)

\* The index got to a block there is, and goes on from the next.
LEMMA IndexGoesOn ==
    ASSUME IndexTypes
    PROVE  index.to \in Nat /\ index.to + 1 \in Nat /\ index.to \in 0..head
<1>1. PICK e : e = index.to
    OBVIOUS
<1>2. e \in 0..head
    <2>1. IsHeld(index)
        BY DEF IndexTypes
    <2> QED BY ONLY <1>1, <2>1 DEF IsHeld
<1>3. e \in Nat /\ e + 1 \in Nat
    BY ONLY <1>2
<1> QED BY ONLY <1>1, <1>2, <1>3

\* The chain's head is a block of it, and a log up to there is one of a block there is.
LEMMA HeadIsABlock ==
    ASSUME IndexerAssumption, IndexTypes
    PROVE  /\ head \in Nat \ {0} /\ head \in Int /\ head <= MaxBlock /\ MaxBlock \in Nat
           /\ chain \in [1..MaxBlock -> Nat]
<1>1. MaxBlock \in Nat
    BY IndexerBounds
<1>2. head \in 1..MaxBlock /\ chain \in [1..MaxBlock -> Nat]
    BY DEF IndexTypes
<1> QED BY ONLY <1>1, <1>2

LEMMA LogUpToHead ==
    ASSUME IndexerAssumption, IndexTypes, NEW l \in LogsIn(1, head)
    PROVE  l \in Nat \X Nat /\ l[1] \in 1..head /\ l[2] \in 1..chain[l[1]]
<1>1. 1 \in Nat \ {0}
    OBVIOUS
<1> QED BY <1>1, HeadIsABlock, LogIsPair

\* The logs up to a block are among those up to a later one.
LEMMA LogsUpTo ==
    ASSUME NEW a \in Int, NEW b \in Int, a <= b
    PROVE  LogsIn(1, a) \subseteq LogsIn(1, b)
<1>1. 1..a \subseteq 1..b
    OBVIOUS
<1> QED BY ONLY <1>1 DEF LogsIn

LEMMA TypesKept ==
    ASSUME IndexTypes, UNCHANGED <<chain, head, lag, index, file>>
    PROVE  IndexTypes'
    BY DEF IndexTypes, IsHeld, LogsIn

LEMMA PollKept ==
    ASSUME PollGoesOn, UNCHANGED <<chain, head, index, poll>>
    PROVE  PollGoesOn'
    BY DEF PollGoesOn, Reading, Through, LogsIn

LEMMA PageKept ==
    ASSUME PageIsSound, UNCHANGED <<chain, head, page>>
    PROVE  PageIsSound'
    BY DEF PageIsSound, LogsIn

\* The step of a poll that is to read on, and of one that is not.
LEMMA PollReadsOn ==
    ASSUME NEW todo, NEW pieces, poll' = ToRead(todo, pieces), IsReading(index'.to + 1, todo, pieces)
    PROVE  PollGoesOn'
<1>1. /\ poll'.stage = "batch" /\ poll'.todo = todo /\ poll'.pieces = pieces /\ poll'.held = {} /\ poll'.through = 0
      /\ poll' = [stage |-> poll'.stage, todo |-> poll'.todo, pieces |-> poll'.pieces, held |-> poll'.held,
                  through |-> poll'.through]
    BY DEF ToRead
<1> QED BY <1>1 DEF PollGoesOn

LEMMA PollStops ==
    ASSUME NEW stage \in {"idle", "save"}, poll' = [AtRest EXCEPT !.stage = stage]
    PROVE  PollGoesOn'
<1>1. /\ poll'.stage = stage
      /\ poll' = [stage |-> poll'.stage, todo |-> poll'.todo, pieces |-> poll'.pieces, held |-> poll'.held,
                  through |-> poll'.through]
    BY DEF AtRest
<1> QED BY <1>1 DEF PollGoesOn

LEMMA PollRests ==
    ASSUME poll' = AtRest
    PROVE  PollGoesOn'
<1>1. AtRest = [AtRest EXCEPT !.stage = "idle"]
    BY DEF AtRest
<1> QED BY <1>1, PollStops

\* A refused read is asked for again from where the index is, without a gap.
LEMMA SmallerGoesOn ==
    ASSUME IndexerAssumption, IndexTypes, PollGoesOn, poll.stage \in {"batch", "take"}, Reading # <<>>, Smaller,
           UNCHANGED index
    PROVE  PollGoesOn'
<1>1. PICK from \in Nat : from = index.to + 1
    BY IndexGoesOn
<1>2. IsReading(from, poll.todo, poll.pieces)
    BY <1>1 DEF PollGoesOn
<1>3. index'.to + 1 = from
    BY <1>1
<1>4. CASE poll.pieces = <<>>
    <2>1. poll' = ToRead(Later, Reading)
        BY <1>4 DEF Smaller
    <2>2. IsReading(from, Later, Reading)
        BY <1>2, <1>4, ReadingIsNext
    <2>3. PICK todo : todo = Later
        OBVIOUS
    <2>4. PICK pieces : pieces = Reading
        OBVIOUS
    <2> QED BY <1>3, <2>1, <2>2, <2>3, <2>4, PollReadsOn
<1>5. CASE poll.pieces # <<>>
    <2>1. PICK p : p = poll.pieces
        OBVIOUS
    <2>2. PICK todo : todo = poll.todo
        OBVIOUS
    <2>3. p # <<>> /\ Ahead(p, from) /\ Ahead(todo, Last(p).to + 1)
        BY <1>2, <1>5, <2>1, <2>2 DEF IsReading
    <2>4. CASE p[1].from = p[1].to
        <3>1. GivesUp
            BY <1>5, <2>1, <2>4 DEF Smaller
        <3> QED BY <3>1, PollStops DEF GivesUp
    <2>5. CASE p[1].from # p[1].to
        <3>1. PICK mid : mid = (p[1].from + p[1].to) \div 2
            OBVIOUS
        <3>2. PICK t : t = <<[from |-> p[1].from, to |-> mid], [from |-> mid + 1, to |-> p[1].to]>> \o Tail(p)
            OBVIOUS
        <3>3. Ahead(t, from) /\ t # <<>> /\ Last(t).to = Last(p).to
            BY <2>3, <2>5, <3>1, <3>2, HalvesAreAhead
        <3>4. poll' = ToRead(todo, t)
            BY <1>5, <2>1, <2>2, <2>5, <3>1, <3>2 DEF Smaller
        <3>5. IsReading(from, todo, t)
            BY <2>3, <3>3 DEF IsReading
        <3> QED BY <1>3, <3>4, <3>5, PollReadsOn
    <2> QED BY <2>4, <2>5
<1> QED BY <1>4, <1>5

------------------------------------------------------------------------------
(* The daemon's steps.                                                     *)

LEMMA IndexStarts ==
    ASSUME IndexerAssumption, IndexerInit
    PROVE  IndexIInv
<1>1. MaxBlock \in Nat /\ MaxBlock # 0 /\ Lag \in Nat /\ chain \in [1..MaxBlock -> Nat]
    BY IndexerBounds DEF IndexerInit
<1>2. IsHeld(Fresh)
    <2>1. Fresh.to = 0 /\ Fresh.logs = <<>> /\ Fresh = [to |-> Fresh.to, logs |-> Fresh.logs]
        BY DEF Fresh
    <2>2. LogsIn(1, 0) = {}
        BY DEF LogsIn
    <2>3. ToSet(<<>>) = {} /\ ChainOrder(<<>>) /\ <<>> \in Seq(Nat \X Nat)
        BY DEF ToSet, ChainOrder
    <2>4. 0 \in 0..head
        BY DEF IndexerInit
    <2> QED BY <2>1, <2>2, <2>3, <2>4 DEF IsHeld
<1>3. IndexTypes
    BY <1>1, <1>2 DEF IndexTypes, IndexerInit
<1>4. PollGoesOn
    BY DEF PollGoesOn, IndexerInit, AtRest
<1>5. PageIsSound
    BY <1>1 DEF PageIsSound, IndexerInit, Closed, Unasked
<1> QED BY <1>3, <1>4, <1>5 DEF IndexIInv

LEMMA PollHeadStep ==
    ASSUME IndexerAssumption, IndexIInv, PollHead
    PROVE  IndexIInv'
<1>1. UNCHANGED <<chain, head, lag, index, file, page>>
    BY DEF PollHead
<1>2. IndexTypes' /\ PageIsSound'
    BY <1>1, TypesKept, PageKept DEF IndexIInv
<1>3. PICK from \in Nat : from = index.to + 1
    BY IndexGoesOn DEF IndexIInv
<1>4. PICK h \in Heads : poll' = ToRead(PlanSpans(from, Least(h - HeadMargin, index.to + SpansPerPoll * LogSpan)), <<>>)
    BY <1>3 DEF PollHead
<1>5. PICK end \in Int : end = Least(h - HeadMargin, index.to + SpansPerPoll * LogSpan)
    <2>1. h \in Int
        BY DEF Heads
    <2>2. PICK e \in Int : e = index.to
        BY IndexGoesOn DEF IndexIInv
    <2>3. PICK d \in Int : d = SpansPerPoll * LogSpan
        BY IndexerBounds
    <2>4. PICK m \in Int : m = HeadMargin
        BY IndexerBounds
    <2>5. Least(h - m, e + d) \in Int
        BY ONLY <2>1, <2>2, <2>3, <2>4 DEF Least
    <2> QED BY ONLY <2>2, <2>3, <2>4, <2>5
<1>6. PICK todo : todo = PlanSpans(from, end)
    OBVIOUS
<1>7. IsReading(from, todo, <<>>)
    BY <1>6, PlanIsAhead, NothingAhead, IndexerBounds DEF IsReading
<1>8. poll' = ToRead(todo, <<>>) /\ index'.to + 1 = from
    BY <1>1, <1>3, <1>4, <1>5, <1>6
<1>9. PollGoesOn'
    BY <1>7, <1>8, PollReadsOn
<1> QED BY <1>2, <1>9 DEF IndexIInv

LEMMA HeadsAreThere ==
    ASSUME IndexTypes, IndexerAssumption, NEW h \in Heads
    PROVE  h \in 0..head
    BY IndexerBounds DEF Heads, IndexTypes, Least

LEMMA ReadSpansStep ==
    ASSUME IndexerAssumption, IndexIInv, ReadSpans
    PROVE  IndexIInv'
<1>1. UNCHANGED <<chain, head, lag, index, file, page>> /\ poll.stage = "batch" /\ Reading # <<>>
    BY DEF ReadSpans
<1>2. IndexTypes' /\ PageIsSound'
    BY <1>1, TypesKept, PageKept DEF IndexIInv
<1>3. PICK h \in Heads :
        IF TooMany(h) THEN Smaller
        ELSE IF ~HasLast(h) THEN GivesUp
        ELSE poll' = [poll EXCEPT !.stage = "take", !.held = Answer(h), !.through = Through]
    BY DEF ReadSpans
<1>4. CASE Smaller
    BY <1>1, <1>2, <1>4, SmallerGoesOn DEF IndexIInv
<1>5. CASE GivesUp
    BY <1>2, <1>5, PollStops DEF IndexIInv, GivesUp
<1>6. CASE HasLast(h) /\ poll' = [poll EXCEPT !.stage = "take", !.held = Answer(h), !.through = Through]
    <2>1. PICK from \in Nat : from = index.to + 1
        BY IndexGoesOn DEF IndexIInv
    <2>2. IsReading(from, poll.todo, poll.pieces)
        BY <1>1, <2>1 DEF IndexIInv, PollGoesOn
    <2>3. PICK t \in Nat : t = Through
        BY <1>1, <2>2, ReadingIsNext
    <2>4. PICK a : a = Answer(h)
        OBVIOUS
    <2>5. h \in 0..head /\ head \in Nat /\ t <= h
        <3>1. h \in 0..head /\ head \in Nat
            BY HeadsAreThere, HeadIsABlock DEF IndexIInv
        <3>2. t <= h
            BY ONLY <1>6, <2>3, <3>1 DEF HasLast
        <3> QED BY ONLY <3>1, <3>2
    <2>6. a = LogsIn(from, t)
        <3>1. Reading[1].from = from
            BY <1>1, <2>2, ReadingIsNext
        <3>2. Least(h, t) = t
            BY <2>5 DEF Least
        <3> QED BY <2>3, <2>4, <3>1, <3>2 DEF Answer
    <2>7. PICK todo : todo = poll.todo
        OBVIOUS
    <2>8. PICK pieces : pieces = poll.pieces
        OBVIOUS
    <2>9. PICK s : s = poll.stage
        OBVIOUS
    <2>10. PICK hd : hd = poll.held
        OBVIOUS
    <2>11. PICK th : th = poll.through
        OBVIOUS
    <2>12. poll = [stage |-> s, todo |-> todo, pieces |-> pieces, held |-> hd, through |-> th]
        BY <2>7, <2>8, <2>9, <2>10, <2>11 DEF IndexIInv, PollGoesOn
    <2>13. poll' = [stage |-> "take", todo |-> todo, pieces |-> pieces, held |-> a, through |-> t]
        BY <1>6, <2>3, <2>4, <2>12
    <2>14. Reading' = Reading /\ Through' = Through
        BY <2>7, <2>8, <2>13 DEF Reading, Through
    <2>15. LogsIn(from, t)' = LogsIn(from, t) /\ index'.to + 1 = from /\ head' = head
        BY <1>1, <2>1 DEF LogsIn
    <2>16. /\ poll'.stage = "take" /\ poll'.todo = todo /\ poll'.pieces = pieces /\ poll'.held = a /\ poll'.through = t
        BY <2>13
    <2>17. IsReading(index'.to + 1, poll'.todo, poll'.pieces)
        BY <2>2, <2>7, <2>8, <2>15, <2>16
    <2>18. poll'.held = LogsIn(index.to + 1, poll.through)'
        BY <2>6, <2>15, <2>16
    <2>19. t <= head'
        BY <2>5, <2>15
    <2>20. PollGoesOn'
        BY <1>1, <2>3, <2>13, <2>14, <2>16, <2>17, <2>18, <2>19 DEF PollGoesOn
    <2> QED BY <1>2, <2>20 DEF IndexIInv
<1> QED BY <1>3, <1>4, <1>5, <1>6

LEMMA ReadFailsStep ==
    ASSUME IndexerAssumption, IndexIInv, ReadFails
    PROVE  IndexIInv'
<1>1. UNCHANGED <<chain, head, lag, index, file, page>> /\ poll.stage \in {"batch", "take"} /\ Reading # <<>>
    BY DEF ReadFails
<1>2. IndexTypes' /\ PageIsSound'
    BY <1>1, TypesKept, PageKept DEF IndexIInv
<1>3. CASE Smaller
    BY <1>1, <1>2, <1>3, SmallerGoesOn DEF IndexIInv
<1>4. CASE GivesUp
    BY <1>2, <1>4, PollStops DEF IndexIInv, GivesUp
<1> QED BY <1>3, <1>4 DEF ReadFails

LEMMA TakeReadStep ==
    ASSUME IndexerAssumption, IndexIInv, TakeRead
    PROVE  IndexIInv'
<1>1. UNCHANGED <<chain, head, lag, file, page>> /\ poll.stage = "take"
    BY DEF TakeRead
<1>2. PageIsSound'
    BY <1>1, PageKept DEF IndexIInv
<1>3. CASE GivesUp /\ UNCHANGED index
    BY <1>1, <1>2, <1>3, TypesKept, PollStops DEF IndexIInv, GivesUp
<1>4. ASSUME NEW fresh \in InOrder(poll.held), index' = [to |-> poll.through, logs |-> index.logs \o fresh], poll' = Rest
      PROVE  IndexIInv'
    <2>1. PICK t : t = poll.through
        OBVIOUS
    <2>2. PICK held : held = index
        OBVIOUS
    <2>3. PICK from \in Nat : from = held.to + 1 /\ held.to \in Nat
        BY <2>2, IndexGoesOn DEF IndexIInv
    <2>4. IsReading(from, poll.todo, poll.pieces) /\ Reading # <<>> /\ t = Through /\ t <= head
          /\ poll.held = LogsIn(from, t)
        BY <1>1, <2>1, <2>2, <2>3 DEF IndexIInv, PollGoesOn
    <2>5. t \in Nat /\ from <= t
        BY <2>4, ReadingIsNext
    <2>6. held.to <= t
        <3>1. PICK e \in Nat : e = held.to /\ from = e + 1
            BY <2>3
        <3> QED BY ONLY <2>5, <3>1
    <2>7. IsHeld([to |-> t, logs |-> held.logs \o fresh])
        <3>1. IsHeld(held)
            BY <2>2 DEF IndexIInv, IndexTypes
        <3>2. LogsIn(held.to + 1, t) = poll.held
            BY <2>3, <2>4
        <3> QED BY <1>4, <2>4, <2>5, <2>6, <3>1, <3>2, HeldGrows, IndexerBounds DEF IndexIInv
    <2>8. PICK copy : copy = [to |-> t, logs |-> held.logs \o fresh]
        OBVIOUS
    <2>9. index' = copy /\ copy.to = t
        BY <1>4, <2>1, <2>2, <2>8
    <2>10. IsHeld(index)' /\ IsHeld(file)'
        <3>1. IsHeld(copy) /\ IsHeld(file)
            BY <2>7, <2>8 DEF IndexIInv, IndexTypes
        <3> QED BY <1>1, <2>9, <3>1 DEF IsHeld, LogsIn
    <2>11. IndexTypes'
        BY <1>1, <2>10 DEF IndexIInv, IndexTypes
    <2>12. index'.to + 1 = t + 1
        BY <2>9
    <2>13. PollGoesOn'
        <3>1. CASE poll.pieces # <<>>
            <4>1. poll' = ToRead(poll.todo, Tail(poll.pieces))
                BY <1>4, <3>1 DEF Rest
            <4>2. IsReading(t + 1, poll.todo, Tail(poll.pieces))
                BY <2>4, <3>1, ReadingIsNext
            <4>3. PICK todo : todo = poll.todo
                OBVIOUS
            <4>4. PICK pieces : pieces = Tail(poll.pieces)
                OBVIOUS
            <4> QED BY <2>12, <4>1, <4>2, <4>3, <4>4, PollReadsOn
        <3>2. CASE poll.pieces = <<>>
            <4>1. poll' = ToRead(Later, <<>>)
                BY <1>4, <3>2 DEF Rest
            <4>2. IsReading(t + 1, Later, <<>>)
                BY <2>4, <3>2, ReadingIsNext
            <4>3. PICK todo : todo = Later
                OBVIOUS
            <4> QED BY <2>12, <4>1, <4>2, <4>3, PollReadsOn
        <3> QED BY <3>1, <3>2
    <2> QED BY <1>2, <2>11, <2>13 DEF IndexIInv
<1> QED BY <1>3, <1>4 DEF TakeRead

LEMMA EndPollStep ==
    ASSUME IndexIInv, EndPoll
    PROVE  IndexIInv'
<1>1. UNCHANGED <<chain, head, lag, index, page>> /\ poll' = AtRest /\ (file' = file \/ file' = index)
    BY DEF EndPoll
<1>2. IndexTypes'
    <2>1. IsHeld(index)' /\ IsHeld(file)'
        <3>1. IsHeld(index) /\ IsHeld(file)
            BY DEF IndexIInv, IndexTypes
        <3> QED BY <1>1, <3>1 DEF IsHeld, LogsIn
    <2> QED BY <1>1, <2>1 DEF IndexIInv, IndexTypes
<1> QED BY <1>1, <1>2, PollRests, PageKept DEF IndexIInv

LEMMA StartOverStep ==
    ASSUME IndexerAssumption, IndexIInv, StartOver
    PROVE  IndexIInv'
<1>1. UNCHANGED <<chain, head, lag, page>> /\ poll' = AtRest /\ index' \in {index, file, Fresh} /\ file' = index'
    BY DEF StartOver
<1>2. IsHeld(Fresh)
    <2>1. Fresh.to = 0 /\ Fresh.logs = <<>> /\ Fresh = [to |-> Fresh.to, logs |-> Fresh.logs]
        BY DEF Fresh
    <2>2. LogsIn(1, 0) = {}
        BY DEF LogsIn
    <2>3. ToSet(<<>>) = {} /\ ChainOrder(<<>>) /\ <<>> \in Seq(Nat \X Nat)
        BY DEF ToSet, ChainOrder
    <2>4. 0 \in 0..head
        BY DEF IndexIInv, IndexTypes
    <2> QED BY <2>1, <2>2, <2>3, <2>4 DEF IsHeld
<1>3. PICK kept : index' = kept /\ file' = kept /\ IsHeld(kept)
    BY <1>1, <1>2 DEF IndexIInv, IndexTypes
<1>4. IsHeld(index)' /\ IsHeld(file)'
    BY <1>1, <1>3 DEF IsHeld, LogsIn
<1>5. IndexTypes'
    BY <1>1, <1>4 DEF IndexIInv, IndexTypes
<1> QED BY <1>1, <1>5, PollRests, PageKept DEF IndexIInv

------------------------------------------------------------------------------
(* The page.                                                               *)

LEMMA MostOf ==
    ASSUME NEW n \in Nat, NEW T, T \subseteq 1..n, T # {}
    PROVE  Max(T) \in T /\ \A j \in T : j <= Max(T)
<1> DEFINE D == {k \in Nat : n - k \in T}
<1>1. D \subseteq Nat /\ D # {}
    <2>1. PICK i \in T : i \in 1..n
        OBVIOUS
    <2>2. n - i \in Nat /\ n - (n - i) = i
        BY <2>1
    <2> QED BY <2>1, <2>2
<1>2. PICK k \in D : \A j \in D : k <= j
    BY <1>1, LeastOf
<1>3. n - k \in T
    BY <1>2
<1>4. ASSUME NEW j \in T PROVE j <= n - k
    <2>1. j \in 1..n /\ n - j \in Nat /\ n - (n - j) = j /\ k \in Nat
        OBVIOUS
    <2>2. n - j \in D
        BY <2>1
    <2>3. k <= n - j
        BY <1>2, <2>2
    <2> QED BY <2>1, <2>3
<1>5. ASSUME NEW j \in T PROVE n - k >= j
    <2>1. j \in 1..n /\ k \in Nat
        OBVIOUS
    <2> QED BY <1>4, <2>1
<1> HIDE DEF D
<1>6. \E x \in T : \A y \in T : x >= y
    BY <1>3, <1>5
<1>7. Max(T) \in T /\ \A y \in T : Max(T) >= y
    BY <1>6 DEF Max
<1>8. ASSUME NEW j \in T PROVE j <= Max(T)
    <2>1. j \in 1..n /\ Max(T) \in 1..n
        BY <1>7
    <2>2. PICK m \in 1..n : m = Max(T)
        BY <2>1
    <2>3. m >= j
        BY <1>7, <2>2
    <2>4. j <= m
        BY <2>1, <2>3
    <2> QED BY <2>2, <2>4
<1> QED BY <1>7, <1>8

\* The positions of a page are the first past the cursor.
LEMMA PageIsFirst ==
    ASSUME IndexerAssumption, NEW n \in Nat, DOMAIN index.logs = 1..n
    PROVE  /\ OnPage \subseteq Matching /\ Matching \subseteq 1..n
           /\ \A i \in OnPage, j \in Matching : j <= i => j \in OnPage
           /\ More => OnPage # {}
<1>1. OnPage \subseteq Matching /\ Matching \subseteq 1..n
    BY DEF OnPage, Matching
<1> DEFINE before(i) == {j \in Matching : j < i}
<1>2. ASSUME NEW i \in OnPage, NEW j \in Matching, j <= i PROVE j \in OnPage
    <2>1. i \in Matching /\ Cardinality(before(i)) < PageRows
        BY DEF OnPage
    <2>2. \A k \in Matching : k < j => k < i
        <3> SUFFICES ASSUME NEW k \in Matching, k < j PROVE k < i
            OBVIOUS
        <3>1. k \in Int /\ j \in Int /\ i \in Int
            BY <1>1, <2>1
        <3> QED BY <1>2, <3>1
    <2>3. before(j) \subseteq before(i) /\ before(i) \subseteq 1..n
        BY <1>1, <2>2
    <2>4. IsFiniteSet(before(i))
        <3>1. n \in Int /\ 1 \in Int
            OBVIOUS
        <3>2. IsFiniteSet(1..n)
            BY <3>1, FS_Interval
        <3> QED BY <2>3, <3>2, FS_Subset
    <2>5. Cardinality(before(j)) <= Cardinality(before(i)) /\ Cardinality(before(j)) \in Nat /\ Cardinality(before(i)) \in Nat
        <3>1. IsFiniteSet(before(j)) /\ Cardinality(before(j)) <= Cardinality(before(i))
            BY <2>3, <2>4, FS_Subset
        <3> QED BY <2>4, <3>1, FS_CardinalityType
    <2>6. Cardinality(before(j)) < PageRows
        <3> HIDE DEF before
        <3> QED BY <2>1, <2>5, IndexerBounds
    <2> QED BY <2>6 DEF OnPage
<1>3. ASSUME More PROVE OnPage # {}
    <2>1. Matching # {} /\ Matching \subseteq Nat
        <3>1. 1..n \subseteq Nat
            OBVIOUS
        <3>2. Matching # {}
            <4> SUFFICES ASSUME Matching = {} PROVE FALSE
                OBVIOUS
            <4>1. OnPage = {}
                BY <1>1
            <4> QED BY <1>3, <4>1 DEF More
        <3> QED BY <1>1, <3>1, <3>2
    <2>2. PICK i \in Matching : \A j \in Matching : i <= j
        BY <2>1, LeastOf
    <2>3. before(i) = {}
        <3> SUFFICES ASSUME NEW j \in Matching, j < i PROVE FALSE
            OBVIOUS
        <3>1. i <= j /\ i \in Nat /\ j \in Nat
            BY <2>1, <2>2
        <3> QED BY <3>1
    <2>4. Cardinality(before(i)) < PageRows
        <3>1. Cardinality(before(i)) = 0
            BY <2>3, FS_EmptySet
        <3> HIDE DEF before
        <3>2. 0 < PageRows
            BY IndexerBounds
        <3> QED BY <3>1, <3>2
    <2> QED BY <2>2, <2>4 DEF OnPage
<1> QED BY <1>1, <1>2, <1>3

LEMMA PageFields ==
    ASSUME NEW stage, NEW rows, NEW after, NEW pages, NEW to, NEW latest, NEW missed, NEW p,
           p = [stage |-> stage, rows |-> rows, after |-> after, pages |-> pages, to |-> to, latest |-> latest,
                missed |-> missed]
    PROVE  /\ p.stage = stage /\ p.rows = rows /\ p.after = after /\ p.to = to /\ p.latest = latest
           /\ p = [stage |-> p.stage, rows |-> p.rows, after |-> p.after, pages |-> p.pages, to |-> p.to,
                   latest |-> p.latest, missed |-> p.missed]
           /\ \A s : [p EXCEPT !.stage = s] =
                        [stage |-> s, rows |-> rows, after |-> after, pages |-> pages, to |-> to, latest |-> latest,
                         missed |-> missed]
    OBVIOUS

LEMMA ClosedFields ==
    ASSUME NEW s
    PROVE  LET p == [Closed EXCEPT !.stage = s]
           IN /\ p.stage = s /\ p.rows = {} /\ p.after = <<0, 0>> /\ p.to = 0 /\ p.latest = -1
              /\ p = [stage |-> p.stage, rows |-> p.rows, after |-> p.after, pages |-> p.pages, to |-> p.to,
                      latest |-> p.latest, missed |-> p.missed]
              /\ s = "closed" => p = Closed
<1>1. PICK after : after = <<0, 0>>
    OBVIOUS
<1>2. PICK zero : zero = 0
    OBVIOUS
<1>3. PICK latest : latest = -1
    OBVIOUS
<1>4. PICK rows : rows = {}
    OBVIOUS
<1>5. PICK closed : closed = "closed"
    OBVIOUS
<1>6. PICK c : c = Closed
    OBVIOUS
<1>7. c = [stage |-> closed, rows |-> rows, after |-> after, pages |-> zero, to |-> zero, latest |-> latest,
           missed |-> rows]
    BY <1>1, <1>2, <1>3, <1>4, <1>5, <1>6 DEF Closed, Nothing, Unasked
<1>8. PICK p : p = [c EXCEPT !.stage = s]
    OBVIOUS
<1>9. p = [stage |-> s, rows |-> rows, after |-> after, pages |-> zero, to |-> zero, latest |-> latest,
           missed |-> rows]
    BY <1>7, <1>8, PageFields
<1>10. /\ p.stage = s /\ p.rows = rows /\ p.after = after /\ p.to = zero /\ p.latest = latest
       /\ p = [stage |-> p.stage, rows |-> p.rows, after |-> p.after, pages |-> p.pages, to |-> p.to,
               latest |-> p.latest, missed |-> p.missed]
    BY <1>9, PageFields
<1>11. s = "closed" => p = c
    BY <1>5, <1>7, <1>9
<1>12. p.rows = {} /\ p.after = <<0, 0>>
    BY <1>1, <1>4, <1>10
<1>13. p.to = 0 /\ p.latest = -1
    BY <1>2, <1>3, <1>10
<1> QED BY <1>6, <1>8, <1>10, <1>11, <1>12, <1>13

\* A page that is closed, or only just opened, has shown nothing.
LEMMA PageOpens ==
    ASSUME IndexerAssumption, IndexTypes, UNCHANGED <<chain, head>>, NEW stage \in {"closed", "pages"},
           page' = [Closed EXCEPT !.stage = stage]
    PROVE  PageIsSound'
<1>1. /\ page'.stage = stage /\ page'.rows = {} /\ page'.after = <<0, 0>> /\ page'.to = 0 /\ page'.latest = -1
      /\ page' = [stage |-> page'.stage, rows |-> page'.rows, after |-> page'.after, pages |-> page'.pages,
                  to |-> page'.to, latest |-> page'.latest, missed |-> page'.missed]
    BY ClosedFields
<1>2. /\ head \in Nat /\ head' = head /\ head <= MaxBlock /\ MaxBlock \in Nat
      /\ chain \in [1..MaxBlock -> Nat] /\ chain' = chain
    BY IndexerBounds DEF IndexTypes
<1>3. LogsIn(1, head)' = LogsIn(1, head)
    BY <1>2 DEF LogsIn
<1>4. ASSUME NEW l \in LogsIn(1, head) PROVE Past(l, <<0, 0>>)
    <2>1. l[1] \in 1..head
        <3>1. 1 \in Nat \ {0} /\ head \in Int /\ head <= MaxBlock /\ MaxBlock \in Nat /\ chain \in [1..MaxBlock -> Nat]
            BY <1>2
        <3> QED BY <1>4, <3>1, LogIsPair
    <2>2. l[1] > 0
        BY <1>2, <2>1
    <2> QED BY <2>2 DEF Past
<1>5. /\ page'.to \in 0..head' /\ page'.latest \in -1..head' /\ page'.after \in (0..head') \X Nat
      /\ page'.rows \subseteq LogsIn(1, head)'
    <2>1. 0 \in 0..head /\ -1 \in -1..head /\ <<0, 0>> \in (0..head) \X Nat
        BY <1>2
    <2> QED BY <1>1, <1>2, <2>1
<1>6. \A l \in LogsIn(1, head)' : Past(l, page'.after)
    <2>1. \A l \in LogsIn(1, head) : Past(l, <<0, 0>>)
        BY <1>4
    <2>2. PICK S : S = LogsIn(1, head)
        OBVIOUS
    <2>3. PICK zero : zero = <<0, 0>>
        OBVIOUS
    <2>4. \A l \in S : Past(l, zero)
        BY ONLY <2>1, <2>2, <2>3
    <2>5. page'.after = zero /\ LogsIn(1, head)' = S
        BY <1>1, <1>3, <2>2, <2>3
    <2> QED BY ONLY <2>4, <2>5 DEF Past
<1> QED BY <1>1, <1>5, <1>6 DEF PageIsSound

LEMMA OpenPageStep ==
    ASSUME IndexerAssumption, IndexIInv, OpenPage
    PROVE  IndexIInv'
<1>1. UNCHANGED <<chain, head, lag, index, file, poll>> /\ page' = [Closed EXCEPT !.stage = "pages"]
    BY DEF OpenPage, daemonVars
<1> QED BY <1>1, PageOpens, TypesKept, PollKept DEF IndexIInv

\* What a page brings, and what the cursor has gone past with it.
LEMMA PageBrings ==
    ASSUME IndexerAssumption, IndexTypes
    PROVE  /\ PageLogs \subseteq LogsIn(1, head)
           /\ ~More => \A l \in LogsIn(1, index.to) : Past(l, page.after) => l \in PageLogs
           /\ More => /\ index.logs[Max(OnPage)] \in (0..head) \X Nat
                      /\ \A l \in LogsIn(1, head) :
                            Past(l, page.after) /\ ~Past(l, index.logs[Max(OnPage)]) => l \in PageLogs
<1>1. PICK n \in Nat : n = Len(index.logs) /\ DOMAIN index.logs = 1..n
    BY LenProperties DEF IndexTypes, IsHeld
<1>2. /\ OnPage \subseteq Matching /\ Matching \subseteq 1..n
      /\ \A i \in OnPage, j \in Matching : j <= i => j \in OnPage
      /\ More => OnPage # {}
    BY <1>1, PageIsFirst
<1>3. /\ head \in Nat /\ head <= MaxBlock /\ MaxBlock \in Nat /\ chain \in [1..MaxBlock -> Nat]
      /\ index.to \in Nat /\ index.to <= head
    <2>1. head \in Nat /\ head <= MaxBlock /\ MaxBlock \in Nat /\ chain \in [1..MaxBlock -> Nat]
        BY HeadIsABlock
    <2>2. index.to \in 0..head
        BY IndexGoesOn
    <2> QED BY ONLY <2>1, <2>2
<1>4. ToSet(index.logs) = LogsIn(1, index.to) /\ ChainOrder(index.logs)
    BY DEF IndexTypes, IsHeld
<1>5. \A i \in 1..n : index.logs[i] \in LogsIn(1, index.to)
    BY <1>1, <1>4 DEF ToSet
<1>6. \A l \in LogsIn(1, index.to) : \E i \in 1..n : l = index.logs[i]
    BY <1>1, <1>4 DEF ToSet
<1>7. \A l \in LogsIn(1, index.to) : l \in Nat \X Nat /\ l[1] \in 1..index.to
    <2> SUFFICES ASSUME NEW l \in LogsIn(1, index.to) PROVE l \in Nat \X Nat /\ l[1] \in 1..index.to
        OBVIOUS
    <2>1. PICK e : e = index.to
        OBVIOUS
    <2>2. e \in Int /\ e <= MaxBlock /\ 1 \in Nat \ {0}
        BY ONLY <1>3, <2>1
    <2>3. l \in LogsIn(1, e)
        BY <2>1
    <2>4. l \in Nat \X Nat /\ l[1] \in 1..e
        BY ONLY <1>3, <2>2, <2>3, LogIsPair
    <2> QED BY ONLY <2>1, <2>4
<1>8. LogsIn(1, index.to) \subseteq LogsIn(1, head)
    <2>1. PICK e \in Nat : e = index.to /\ e <= head
        <3>1. PICK e : e = index.to
            OBVIOUS
        <3>2. e \in Nat /\ e <= head
            BY ONLY <1>3, <3>1
        <3> QED BY ONLY <3>1, <3>2
    <2>2. LogsIn(1, e) \subseteq LogsIn(1, head)
        <3>1. e \in Int /\ head \in Int /\ e <= head
            BY ONLY <1>3, <2>1
        <3> QED BY ONLY <3>1, LogsUpTo
    <2> QED BY ONLY <2>1, <2>2
<1>9. PageLogs \subseteq LogsIn(1, head)
    BY <1>2, <1>5, <1>8 DEF PageLogs
<1>10. ASSUME ~More, NEW l \in LogsIn(1, index.to), Past(l, page.after) PROVE l \in PageLogs
    <2>1. PICK i \in 1..n : l = index.logs[i]
        BY <1>6
    <2>2. i \in Matching
        BY <1>1, <1>10, <2>1 DEF Matching
    <2>3. i \in OnPage
        BY <1>10, <2>2 DEF More
    <2> QED BY <2>1, <2>3 DEF PageLogs
<1>11. ASSUME More
       PROVE  /\ index.logs[Max(OnPage)] \in (0..head) \X Nat
              /\ \A l \in LogsIn(1, head) :
                    Past(l, page.after) /\ ~Past(l, index.logs[Max(OnPage)]) => l \in PageLogs
    <2>1. Max(OnPage) \in OnPage /\ \A j \in OnPage : j <= Max(OnPage)
        <3>1. OnPage \subseteq 1..n /\ OnPage # {}
            BY <1>2, <1>11
        <3> QED BY <3>1, MostOf
    <2>2. PICK m \in 1..n : m = Max(OnPage) /\ m \in OnPage
        BY <1>2, <2>1
    <2>3. PICK last : last = index.logs[m]
        OBVIOUS
    <2>4. last \in LogsIn(1, index.to) /\ last \in Nat \X Nat /\ last[1] \in 1..index.to
        BY <1>5, <1>7, <2>3
    <2>5. last \in (0..head) \X Nat
        <3>1. PICK e \in Nat : e = index.to /\ e <= head
            <4>1. PICK e : e = index.to
                OBVIOUS
            <4>2. e \in Nat /\ e <= head
                BY ONLY <1>3, <4>1
            <4> QED BY ONLY <4>1, <4>2
        <3>2. PICK b, k \in Nat : last = <<b, k>>
            BY ONLY <2>4
        <3>3. b \in 1..e
            BY ONLY <2>4, <3>1, <3>2
        <3>4. head \in Nat
            BY <1>3
        <3>5. b \in 0..head
            BY ONLY <3>1, <3>3, <3>4
        <3> QED BY ONLY <3>2, <3>5
    <2>6. ASSUME NEW l \in LogsIn(1, head), Past(l, page.after), ~Past(l, last) PROVE l \in PageLogs
        <3>1. l \in Nat \X Nat /\ l[1] \in 1..head /\ l[2] \in 1..chain[l[1]]
            BY LogUpToHead
        <3>2. l[1] <= last[1]
            <4>1. PICK b \in Nat : b = l[1]
                BY ONLY <3>1
            <4>2. PICK c \in Nat : c = last[1]
                BY ONLY <2>4
            <4>3. ~(b > c)
                BY ONLY <2>6, <4>1, <4>2 DEF Past
            <4>4. b <= c
                BY ONLY <4>1, <4>2, <4>3
            <4> QED BY ONLY <4>1, <4>2, <4>4
        <3>3. l[1] \in 1..index.to
            <4>1. PICK b : b = l[1]
                OBVIOUS
            <4>2. PICK c : c = last[1]
                OBVIOUS
            <4>3. PICK e : e = index.to
                OBVIOUS
            <4>4. b \in 1..head /\ c \in 1..e /\ b <= c /\ e \in Nat /\ head \in Nat
                BY <1>3, <2>4, <3>1, <3>2, <4>1, <4>2, <4>3
            <4>5. b \in 1..e
                BY ONLY <4>4
            <4> QED BY <4>1, <4>3, <4>5
        <3>4. l \in LogsIn(1, index.to)
            BY <3>1, <3>3, LogOfBlock
        <3>5. PICK i \in 1..n : l = index.logs[i]
            BY <1>6, <3>4
        <3>6. i \in Matching
            BY <1>1, <2>6, <3>5 DEF Matching
        <3>7. ~(m < i)
            BY <1>1, <1>4, <2>3, <2>6, <3>5 DEF ChainOrder
        <3>8. i <= m
            BY <3>7
        <3>9. i \in OnPage
            BY <1>2, <2>2, <3>6, <3>8
        <3> QED BY <3>5, <3>9 DEF PageLogs
    <2> QED BY <2>2, <2>3, <2>5, <2>6
<1> QED BY <1>9, <1>10, <1>11

LEMMA ReadPageStep ==
    ASSUME IndexerAssumption, IndexIInv, ReadPage
    PROVE  IndexIInv'
<1>1. UNCHANGED <<chain, head, lag, index, file, poll>> /\ page.stage = "pages"
    BY DEF ReadPage, daemonVars
<1>2. IndexTypes' /\ PollGoesOn'
    BY <1>1, TypesKept, PollKept DEF IndexIInv
<1>3. CASE page' = Closed
    <2>1. Closed = [Closed EXCEPT !.stage = "closed"]
        BY ClosedFields
    <2> QED BY <1>1, <1>2, <1>3, <2>1, PageOpens DEF IndexIInv
<1>4. CASE page' = [stage |-> IF More THEN "pages" ELSE "head", rows |-> page.rows \cup PageLogs,
                    after |-> IF More THEN index.logs[Max(OnPage)] ELSE page.after,
                    pages |-> page.pages + 1, to |-> TakesOver,
                    latest |-> IF ~More /\ page.pages > 0 THEN Unasked ELSE page.latest, missed |-> {}]
    <2>1. PICK stage : stage = IF More THEN "pages" ELSE "head"
        OBVIOUS
    <2>2. PICK rows : rows = page.rows \cup PageLogs
        OBVIOUS
    <2>3. PICK after : after = IF More THEN index.logs[Max(OnPage)] ELSE page.after
        OBVIOUS
    <2>4. PICK latest : latest = IF ~More /\ page.pages > 0 THEN Unasked ELSE page.latest
        OBVIOUS
    <2>5. PICK pages : pages = page.pages + 1
        OBVIOUS
    <2>6. PICK to : to = index.to
        OBVIOUS
    <2>7. page' = [stage |-> stage, rows |-> rows, after |-> after, pages |-> pages, to |-> to, latest |-> latest,
                   missed |-> {}]
        BY <1>4, <2>1, <2>2, <2>3, <2>4, <2>5, <2>6 DEF TakesOver
    <2>8. /\ page'.stage = stage /\ page'.rows = rows /\ page'.after = after /\ page'.to = to /\ page'.latest = latest
          /\ page' = [stage |-> page'.stage, rows |-> page'.rows, after |-> page'.after, pages |-> page'.pages,
                      to |-> page'.to, latest |-> page'.latest, missed |-> page'.missed]
        BY <2>7
    <2>9. /\ page.latest \in -1..head /\ page.rows \subseteq LogsIn(1, head)
          /\ \A l \in LogsIn(1, head) : ~Past(l, page.after) => l \in page.rows
        BY <1>1 DEF IndexIInv, PageIsSound
    <2>10. head \in Nat /\ to \in 0..head
        BY <2>6, IndexGoesOn, HeadIsABlock DEF IndexIInv
    <2>11. LogsIn(1, head)' = LogsIn(1, head) /\ head' = head /\ LogsIn(1, to)' = LogsIn(1, to)
        BY <1>1 DEF LogsIn
    <2>12. /\ PageLogs \subseteq LogsIn(1, head)
           /\ ~More => \A l \in LogsIn(1, to) : Past(l, page.after) => l \in PageLogs
           /\ More => /\ after \in (0..head) \X Nat
                      /\ \A l \in LogsIn(1, head) : Past(l, page.after) /\ ~Past(l, after) => l \in PageLogs
        BY <2>3, <2>6, PageBrings DEF IndexIInv
    <2>13. rows \subseteq LogsIn(1, head) /\ latest \in -1..head
        BY <2>2, <2>4, <2>9, <2>10, <2>12 DEF Unasked
    <2>14. More => /\ after \in (0..head) \X Nat
                   /\ \A l \in LogsIn(1, head) : ~Past(l, after) => l \in rows
        BY <2>2, <2>9, <2>12
    <2>15. ~More => LogsIn(1, to) \subseteq rows
        <3>1. LogsIn(1, to) \subseteq LogsIn(1, head)
            <4>1. to \in Int /\ head \in Int /\ to <= head
                BY ONLY <2>10
            <4> QED BY ONLY <4>1, LogsUpTo
        <3> QED BY <2>2, <2>9, <2>12, <3>1
    <2>16. PageIsSound'
        <3>1. CASE More
            BY <2>1, <2>8, <2>10, <2>11, <2>13, <2>14, <3>1 DEF PageIsSound
        <3>2. CASE ~More
            <4>1. LogsIn(1, page.to)' = LogsIn(1, to)
                BY <2>8, <1>1 DEF LogsIn
            <4> QED BY <2>1, <2>8, <2>10, <2>11, <2>13, <2>15, <3>2, <4>1 DEF PageIsSound
        <3> QED BY <3>1, <3>2
    <2> QED BY <1>2, <2>16 DEF IndexIInv
<1> QED BY <1>3, <1>4 DEF ReadPage

LEMMA ReadHeadStep ==
    ASSUME IndexerAssumption, IndexIInv, ReadHead
    PROVE  IndexIInv'
<1>1. UNCHANGED <<chain, head, lag, index, file, poll>> /\ page.stage \in {"pages", "head"}
    BY DEF ReadHead, daemonVars
<1>2. IndexTypes' /\ PollGoesOn'
    BY <1>1, TypesKept, PollKept DEF IndexIInv
<1>3. PICK h \in Heads : page' = [page EXCEPT !.latest = h]
    BY DEF ReadHead
<1>4. h \in 0..head /\ head \in Nat
    BY HeadsAreThere DEF IndexIInv, IndexTypes
<1>5. page = [stage |-> page.stage, rows |-> page.rows, after |-> page.after, pages |-> page.pages, to |-> page.to,
              latest |-> page.latest, missed |-> page.missed]
    BY DEF IndexIInv, PageIsSound
<1>6. /\ page'.stage = page.stage /\ page'.rows = page.rows /\ page'.after = page.after /\ page'.to = page.to
      /\ page'.latest = h
      /\ page' = [stage |-> page'.stage, rows |-> page'.rows, after |-> page'.after, pages |-> page'.pages,
                  to |-> page'.to, latest |-> page'.latest, missed |-> page'.missed]
    BY <1>3, <1>5
<1>7. LogsIn(1, head)' = LogsIn(1, head) /\ head' = head /\ LogsIn(1, page.to)' = LogsIn(1, page.to)
    BY <1>1, <1>6 DEF LogsIn
<1>8. h \in -1..head
    BY <1>4
<1>9. PageIsSound'
    BY <1>1, <1>6, <1>7, <1>8 DEF IndexIInv, PageIsSound
<1> QED BY <1>2, <1>9 DEF IndexIInv

LEMMA ReadTailStep ==
    ASSUME IndexerAssumption, IndexIInv, ReadTail
    PROVE  IndexIInv'
<1>1. UNCHANGED <<chain, head, lag, index, file, poll>> /\ page.stage = "head"
    BY DEF ReadTail, daemonVars
<1>2. IndexTypes' /\ PollGoesOn'
    BY <1>1, TypesKept, PollKept DEF IndexIInv
<1>3. CASE page' = Closed
    <2>1. Closed = [Closed EXCEPT !.stage = "closed"]
        BY ClosedFields
    <2> QED BY <1>1, <1>2, <1>3, <2>1, PageOpens DEF IndexIInv
<1>4. PICK to : to = page.to
    OBVIOUS
<1>5. PICK latest : latest = page.latest
    OBVIOUS
<1>6. PICK from : from = Most(to + 1, latest - TailBlocks + 1)
    OBVIOUS
<1>7. PICK missed : missed = IF from > to + 1 THEN (to + 1)..(from - 1) ELSE {}
    OBVIOUS
<1>8. PICK tail : tail = LogsIn(from, latest)
    OBVIOUS
<1>9. CASE page' = [page EXCEPT !.stage = "shown", !.rows = @ \cup tail, !.missed = missed]
    <2>1. page = [stage |-> page.stage, rows |-> page.rows, after |-> page.after, pages |-> page.pages, to |-> page.to,
                  latest |-> page.latest, missed |-> page.missed]
        BY DEF IndexIInv, PageIsSound
    <2>2. PICK rows : rows = page.rows \cup tail
        OBVIOUS
    <2>3. /\ page'.stage = "shown" /\ page'.rows = rows /\ page'.to = to /\ page'.latest = latest /\ page'.missed = missed
          /\ page' = [stage |-> page'.stage, rows |-> page'.rows, after |-> page'.after, pages |-> page'.pages,
                      to |-> page'.to, latest |-> page'.latest, missed |-> page'.missed]
        <3>1. PICK after : after = page.after
            OBVIOUS
        <3>2. PICK pages : pages = page.pages
            OBVIOUS
        <3>3. PICK old : old = page.rows
            OBVIOUS
        <3>4. PICK st : st = page.stage
            OBVIOUS
        <3>5. PICK mi : mi = page.missed
            OBVIOUS
        <3>6. page = [stage |-> st, rows |-> old, after |-> after, pages |-> pages, to |-> to, latest |-> latest,
                      missed |-> mi]
            BY <1>4, <1>5, <2>1, <3>1, <3>2, <3>3, <3>4, <3>5
        <3>7. page' = [stage |-> "shown", rows |-> old \cup tail, after |-> after, pages |-> pages, to |-> to,
                       latest |-> latest, missed |-> missed]
            BY <1>9, <3>6
        <3>8. rows = old \cup tail
            BY <2>2, <3>3
        <3> QED BY <3>7, <3>8
    <2>4. /\ to \in 0..head /\ latest \in -1..head /\ head \in Nat /\ page.rows \subseteq LogsIn(1, head)
          /\ LogsIn(1, to) \subseteq page.rows /\ head <= MaxBlock /\ MaxBlock \in Nat /\ chain \in [1..MaxBlock -> Nat]
        <3>1. PageIsSound /\ IndexTypes
            BY DEF IndexIInv
        <3>2. /\ page.to \in 0..head /\ page.latest \in -1..head /\ page.rows \subseteq LogsIn(1, head)
              /\ LogsIn(1, page.to) \subseteq page.rows
            BY ONLY <1>1, <3>1 DEF PageIsSound
        <3>3. head \in Nat /\ head <= MaxBlock /\ MaxBlock \in Nat /\ chain \in [1..MaxBlock -> Nat]
            BY <3>1, HeadIsABlock
        <3> QED BY ONLY <1>4, <1>5, <3>2, <3>3
    <2>5. from \in Nat \ {0} /\ to + 1 <= from
        <3>1. PICK d \in Int : d = latest - TailBlocks + 1
            BY <2>4, IndexerBounds
        <3>2. to \in Nat /\ from = Most(to + 1, d)
            BY <1>6, <2>4, <3>1
        <3> QED BY ONLY <3>2 DEF Most
    <2>6. tail \subseteq LogsIn(1, head)
        <3>1. from..latest \subseteq 1..head
            BY <2>4, <2>5
        <3> QED BY <1>8, <3>1 DEF LogsIn
    <2>7. rows \subseteq LogsIn(1, head)
        BY <2>2, <2>4, <2>6
    <2>8. ASSUME NEW l \in LogsIn(1, head), l[1] <= Most(to, latest), l[1] \notin missed PROVE l \in rows
        <3>1. l \in Nat \X Nat /\ l[1] \in 1..head /\ l[2] \in 1..chain[l[1]]
            BY LogUpToHead DEF IndexIInv
        <3>2. PICK n \in Nat : n = l[1] /\ n \in 1..head
            BY <3>1
        <3>3. n <= Most(to, latest) /\ n \notin missed
            BY <2>8, <3>2
        <3>4. CASE n <= to
            <4>1. l[1] \in 1..to
                BY <2>4, <3>2, <3>4
            <4>2. l \in LogsIn(1, to)
                BY <3>1, <4>1, LogOfBlock
            <4> QED BY <2>2, <2>4, <4>2
        <3>5. CASE to < n
            <4>1. n <= latest
                BY <2>4, <3>3, <3>5 DEF Most
            <4>2. from <= n
                <5> SUFFICES ASSUME n < from PROVE FALSE
                    BY <2>5
                <5>1. n \in (to + 1)..(from - 1)
                    <6>1. from \in Nat /\ to \in Nat
                        BY <2>4, <2>5
                    <6> QED BY ONLY n < from, <3>2, <3>5, <6>1
                <5>2. from > to + 1
                    <6>1. from \in Nat /\ to \in Nat
                        BY <2>4, <2>5
                    <6> QED BY ONLY <5>1, <6>1
                <5> QED BY ONLY <1>7, <3>3, <5>1, <5>2
            <4>3. n \in from..latest
                BY ONLY <2>4, <2>5, <3>2, <4>1, <4>2
            <4>4. l[1] \in from..latest
                BY ONLY <3>2, <4>3
            <4>5. l \in LogsIn(from, latest)
                BY <3>1, <4>4, LogOfBlock
            <4> QED BY ONLY <1>8, <2>2, <4>5
        <3>6. n <= to \/ to < n
            <4>1. to \in Int
                BY ONLY <2>4
            <4> QED BY ONLY <3>2, <4>1
        <3> QED BY ONLY <3>4, <3>5, <3>6
    <2>9. LogsIn(1, head)' = LogsIn(1, head) /\ head' = head
        BY <1>1 DEF LogsIn
    <2>10. PageIsSound'
        BY <2>3, <2>4, <2>7, <2>8, <2>9 DEF PageIsSound
    <2> QED BY <1>2, <2>10 DEF IndexIInv
<1>10. page' = Closed \/ page' = [page EXCEPT !.stage = "shown", !.rows = @ \cup tail, !.missed = missed]
    BY <1>4, <1>5, <1>6, <1>7, <1>8 DEF ReadTail
<1> QED BY <1>3, <1>9, <1>10

------------------------------------------------------------------------------
(* The chain's steps, and the theorem.                                     *)

LEMMA MineStep ==
    ASSUME IndexerAssumption, IndexIInv, Mine
    PROVE  IndexIInv'
<1>1. UNCHANGED <<chain, lag, index, file, poll, page>> /\ head' = head + 1 /\ head < MaxBlock
    BY DEF Mine, daemonVars
<1>2. /\ head \in Nat \ {0} /\ head' = head + 1 /\ head' \in 1..MaxBlock /\ 0..head \subseteq 0..head' /\ head' <= MaxBlock
      /\ MaxBlock \in Nat /\ chain \in [1..MaxBlock -> Nat] /\ -1..head \subseteq -1..head'
    BY <1>1, IndexerBounds DEF IndexIInv, IndexTypes
<1>3. \A a, b : LogsIn(a, b)' = LogsIn(a, b)
    BY <1>1 DEF LogsIn
<1>4. IndexTypes'
    <2>1. IsHeld(index)' /\ IsHeld(file)'
        <3>1. IsHeld(index) /\ IsHeld(file)
            BY DEF IndexIInv, IndexTypes
        <3> QED BY <1>1, <1>2, <3>1 DEF IsHeld, LogsIn
    <2> QED BY <1>1, <1>2, <2>1 DEF IndexIInv, IndexTypes
<1>5. PollGoesOn'
    <2>1. Reading' = Reading /\ Through' = Through
        BY <1>1 DEF Reading, Through
    <2>2. poll.stage = "take" => poll.through <= head'
        <3> SUFFICES ASSUME poll.stage = "take" PROVE poll.through <= head'
            OBVIOUS
        <3>1. PICK from \in Nat : from = index.to + 1
            BY IndexGoesOn DEF IndexIInv
        <3>2. IsReading(from, poll.todo, poll.pieces) /\ Reading # <<>> /\ poll.through = Through /\ poll.through <= head
            BY <3>1 DEF IndexIInv, PollGoesOn
        <3>3. poll.through \in Nat
            BY <3>2, ReadingIsNext
        <3> QED BY <1>2, <3>2, <3>3
    <2>3. LogsIn(index.to + 1, poll.through)' = LogsIn(index.to + 1, poll.through)
        BY <1>1 DEF LogsIn
    <2> QED BY <1>1, <2>1, <2>2, <2>3 DEF IndexIInv, PollGoesOn
<1>6. PageIsSound'
    <2>1. LogsIn(1, head) \subseteq LogsIn(1, head)'
        <3>1. 1..head \subseteq 1..head'
            BY <1>2
        <3>2. LogsIn(1, head)' = UNION {{n} \X (1..chain[n]) : n \in 1..head'}
            BY <1>1 DEF LogsIn
        <3> QED BY <3>1, <3>2 DEF LogsIn
    <2>2. ASSUME NEW l \in LogsIn(1, head)' PROVE l \in LogsIn(1, head) \/ l[1] = head + 1
        <3>1. l \in LogsIn(1, head + 1)
            BY <1>1, <2>2 DEF LogsIn
        <3>2. head + 1 <= MaxBlock /\ head + 1 \in Int
            BY <1>1, <1>2
        <3>3. l \in Nat \X Nat /\ l[1] \in 1..(head + 1) /\ l[2] \in 1..chain[l[1]]
            <4>1. PICK b \in Int : b = head + 1 /\ b <= MaxBlock
                BY <3>2
            <4>2. 1 \in Nat \ {0} /\ MaxBlock \in Nat /\ chain \in [1..MaxBlock -> Nat] /\ l \in LogsIn(1, b)
                BY <1>2, <3>1, <4>1
            <4>3. l \in Nat \X Nat /\ l[1] \in 1..b /\ l[2] \in 1..chain[l[1]]
                BY ONLY <4>1, <4>2, LogIsPair
            <4> QED BY ONLY <4>1, <4>3
        <3>4. CASE l[1] \in 1..head
            BY <3>3, <3>4, LogOfBlock
        <3>5. PICK n : n = l[1]
            OBVIOUS
        <3>6. n \in 1..head \/ n = head + 1
            BY <1>2, <3>3, <3>5
        <3> QED BY <3>4, <3>5, <3>6
    <2>3. LogsIn(1, page.to)' = LogsIn(1, page.to)
        BY <1>1 DEF LogsIn
    <2>4. page.stage = "pages" =>
            /\ page.after \in (0..head') \X Nat
            /\ \A l \in LogsIn(1, head)' : ~Past(l, page.after) => l \in page.rows
        <3> SUFFICES ASSUME page.stage = "pages" PROVE
                /\ page.after \in (0..head') \X Nat
                /\ \A l \in LogsIn(1, head)' : ~Past(l, page.after) => l \in page.rows
            OBVIOUS
        <3>1. page.after \in (0..head) \X Nat /\ \A l \in LogsIn(1, head) : ~Past(l, page.after) => l \in page.rows
            BY DEF IndexIInv, PageIsSound
        <3>2. \A l : l[1] = head + 1 => Past(l, page.after)
            <4>1. PICK n \in 0..head : n = page.after[1]
                BY <3>1
            <4>2. head + 1 > n
                BY <1>2
            <4>3. \A l : l[1] = head + 1 => l[1] > page.after[1]
                BY <4>1, <4>2
            <4> QED BY <4>3 DEF Past
        <3> QED BY <1>2, <2>2, <3>1, <3>2
    <2>5. page.to \in 0..head /\ page.latest \in -1..head
        BY DEF IndexIInv, PageIsSound
    <2>6. page.stage = "shown" =>
            \A l \in LogsIn(1, head)' :
                l[1] <= Most(page.to, page.latest) /\ l[1] \notin page.missed => l \in page.rows
        <3>1. PICK to \in 0..head : to = page.to
            BY <2>5
        <3>2. PICK latest \in -1..head : latest = page.latest
            BY <2>5
        <3>3. ~(head + 1 <= Most(to, latest))
            BY <1>2 DEF Most
        <3>4. \A l : l[1] = head + 1 => ~(l[1] <= Most(page.to, page.latest))
            BY <3>1, <3>2, <3>3
        <3> QED BY <2>2, <3>4 DEF IndexIInv, PageIsSound
    <2>7. page.rows \subseteq LogsIn(1, head)'
        BY <2>1 DEF IndexIInv, PageIsSound
    <2>8. page.to \in 0..head' /\ page.latest \in -1..head'
        BY <1>2, <2>5
    <2> QED BY <1>1, <2>3, <2>4, <2>6, <2>7, <2>8 DEF IndexIInv, PageIsSound
<1> QED BY <1>4, <1>5, <1>6 DEF IndexIInv

LEMMA NodesCatchUpStep ==
    ASSUME IndexIInv, NodesCatchUp
    PROVE  IndexIInv'
<1>1. UNCHANGED <<chain, head, index, file, poll, page>> /\ lag' = 0
    BY DEF NodesCatchUp, daemonVars
<1>2. IndexTypes'
    <2>1. IsHeld(index)' /\ IsHeld(file)'
        <3>1. IsHeld(index) /\ IsHeld(file)
            BY DEF IndexIInv, IndexTypes
        <3> QED BY <1>1, <3>1 DEF IsHeld, LogsIn
    <2> QED BY <1>1, <2>1 DEF IndexIInv, IndexTypes
<1> QED BY <1>1, <1>2, PollKept, PageKept DEF IndexIInv

LEMMA IndexStep ==
    ASSUME IndexerAssumption, IndexIInv, [IndexerNext]_indexerVars
    PROVE  IndexIInv'
<1>1. CASE IndexerNext
    BY <1>1, PollHeadStep, ReadSpansStep, ReadFailsStep, TakeReadStep, EndPollStep, StartOverStep, OpenPageStep,
       ReadPageStep, ReadHeadStep, ReadTailStep, MineStep, NodesCatchUpStep DEF IndexerNext, Daemon, Pages
<1>2. CASE UNCHANGED indexerVars
    BY <1>2, TypesKept, PollKept, PageKept DEF IndexIInv, indexerVars
<1> QED BY <1>1, <1>2

\* The invariant has what the index and the page promise in it.
LEMMA IndexInvIsEnough ==
    ASSUME IndexerAssumption, IndexIInv
    PROVE  IndexIsWhole
<1>1. NoHole
    BY DEF IndexIInv, IndexTypes, IsHeld, NoHole
<1>2. ASSUME page.stage = "shown", NEW l \in LogsIn(1, MaxBlock)
      PROVE  /\ l[1] <= Most(page.to, page.latest) /\ l[1] \notin page.missed => l \in page.rows
             /\ l[1] > head => l \notin page.rows
    <2>1. /\ head \in Nat /\ head <= MaxBlock /\ MaxBlock \in Nat /\ chain \in [1..MaxBlock -> Nat]
          /\ page.to \in 0..head /\ page.latest \in -1..head /\ page.rows \subseteq LogsIn(1, head)
        <3>1. PageIsSound /\ IndexTypes
            BY DEF IndexIInv
        <3>2. page.to \in 0..head /\ page.latest \in -1..head /\ page.rows \subseteq LogsIn(1, head)
            BY ONLY <3>1 DEF PageIsSound
        <3> QED BY <3>1, <3>2, HeadIsABlock
    <2>2. l \in Nat \X Nat /\ l[1] \in 1..MaxBlock /\ l[2] \in 1..chain[l[1]]
        <3>1. 1 \in Nat \ {0} /\ MaxBlock \in Int /\ MaxBlock <= MaxBlock
            BY ONLY <2>1
        <3> QED BY <1>2, <2>1, <3>1, LogIsPair
    <2>3. l[1] <= head => l \in LogsIn(1, head)
        <3> SUFFICES ASSUME l[1] <= head PROVE l \in LogsIn(1, head)
            OBVIOUS
        <3>1. PICK n \in Nat : n = l[1] /\ n \in 1..MaxBlock /\ n <= head
            BY <2>2
        <3>2. n \in 1..head
            BY <2>1, <3>1
        <3> QED BY <2>2, <3>1, <3>2, LogOfBlock
    <2>4. l \in LogsIn(1, head) => l[1] <= head
        <3> SUFFICES ASSUME l \in LogsIn(1, head) PROVE l[1] <= head
            OBVIOUS
        <3>1. PICK n : n = l[1]
            OBVIOUS
        <3>2. n \in 1..head
            BY <3>1, LogUpToHead DEF IndexIInv
        <3>3. n <= head
            BY ONLY <2>1, <3>2
        <3> QED BY ONLY <3>1, <3>3
    <2>5. l[1] <= Most(page.to, page.latest) => l[1] <= head
        <3>1. PICK to \in 0..head : to = page.to
            BY <2>1
        <3>2. PICK latest \in -1..head : latest = page.latest
            BY <2>1
        <3>3. PICK n \in Nat : n = l[1]
            BY <2>2
        <3>4. n <= Most(to, latest) => n <= head
            BY <2>1 DEF Most
        <3> QED BY <3>1, <3>2, <3>3, <3>4
    <2>6. l[1] > head => ~(l[1] <= head)
        BY <2>1, <2>2
    <2> QED BY <1>2, <2>1, <2>3, <2>4, <2>5, <2>6 DEF IndexIInv, PageIsSound
<1> QED BY <1>1, <1>2 DEF IndexIsWhole, PageIsWhole

\* The index, and the file it is restarted from, hold exactly the logs of the blocks they claim, and the page shows
\* every log up to the newest block it knows of, whichever nodes answered and wherever the daemon stopped.
THEOREM IndexHolds == IndexerSpec => []IndexIsWhole
<1>1. IndexerInit => IndexIInv
    BY IndexerAssumption, IndexStarts
<1>2. IndexIInv /\ [IndexerNext]_indexerVars => IndexIInv'
    BY IndexerAssumption, IndexStep
<1>3. IndexIInv => IndexIsWhole
    BY IndexerAssumption, IndexInvIsEnough
<1> QED BY <1>1, <1>2, <1>3, PTL DEF IndexerSpec
===============================================================================
