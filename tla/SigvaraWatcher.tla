---------------------------- MODULE SigvaraWatcher ----------------------------
(***************************************************************************)
(* The divergence watcher.  It polls a checking operator's list of         *)
(* disputes, reads each disputed slot again on chain and tells a human     *)
(* while the slashing committee can still reject; and it tells a human     *)
(* when the checker, or it itself, is not looking.  A poll that takes      *)
(* longer than the interval overlaps the next.                             *)
(*                                                                         *)
(* A tick is the interval between polls. Bounds: MaxPoll, the length of a   *)
(* poll in ticks, and a plan: how many proposals and records are made,     *)
(* changes of what answers, alerts the webhook refuses, and restarts.      *)
(***************************************************************************)
EXTENDS Integers, Sequences, SequencesExt, FiniteSets

CONSTANTS
    Agents,
    Window,           \* the challenge window
    FinalWarning,
    PageSize,         \* DIVERGENCE_PAGE
    PerAgent,         \* MAX_DIVERGENCES_PER_AGENT
    Threshold,        \* polls in a row that fail before an alert
    MaxPoll, MaxProposals,
    Plans             \* the bounds to try

ASSUME WatcherAssumption ==
    /\ {Window, PageSize, PerAgent, Threshold, MaxPoll} \subseteq Nat \ {0}
    /\ {FinalWarning, MaxProposals} \subseteq Nat
    /\ Plans \subseteq [proposals : 0..MaxProposals, records : Nat, faults : Nat, lost : Nat, restarts : Nat]

Polls == 1..(MaxPoll + 1)           \* as many as can be under way at once
Keys == Agents \X (1..MaxProposals) \* a proposal: its agent, and when it was made

VARIABLES
    plan,
    slot,       \* per agent, the number of its pending proposal, or 0
    left,       \* per proposal, the time its window has left
    made, recorded,
    records,    \* the checker's divergences, oldest first
    up, rpc,    \* whether the checker answers as one that is checking, and whether the watcher's RPC does
    faults,
    sent,       \* the alerts sent of each proposal: none, the first, the last call
    wasOk, failures, alerted,   \* checkerWasOk, pollHealth
    polls, due,
    told,       \* history: whether an alert stands about the checker, and about the watcher
    raised,     \* history: every alert this process has sent, and how often
    heard, lost, \* history: those that were delivered
    exposed,    \* history: how long each proposal could have been raised
    gone,       \* history: for how long it could not be: it has left its slot, or its window is over
    restarts

chainVars == <<plan, slot, left, made>>
checkerVars == <<recorded, records>>
answers == <<up, rpc, faults>>
watcherVars == <<sent, wasOk, failures, alerted, polls, due, told, raised, heard, lost>>
history == <<exposed, gone>>
vars == <<chainVars, checkerVars, answers, watcherVars, history, restarts>>

None == -1
Idle == [stage |-> "idle", age |-> 0, list |-> <<>>, reads |-> [a \in Agents |-> None], alerts |-> {}, at |-> [k \in Keys |-> 0]]
Pending(k) == slot[k[1]] = k[2]

------------------------------------------------------------------------------
(* The checker and the chain.                                              *)

\* A proposal that the checker disagrees with fills or replaces the slot.
Propose(a) ==
    /\ made < plan.proposals /\ made' = made + 1
    /\ slot' = [slot EXCEPT ![a] = made + 1]
    /\ left' = [left EXCEPT ![<<a, made + 1>>] = Window]
    /\ UNCHANGED <<plan, checkerVars, answers, watcherVars, history, restarts>>

\* It is rejected, or finalized once its window is over.
Close(a) ==
    /\ slot[a] # 0 /\ slot' = [slot EXCEPT ![a] = 0]
    /\ UNCHANGED <<plan, left, made, checkerVars, answers, watcherVars, history, restarts>>

\* recordDivergence, in each epoch of the checker that still finds the proposal there.
Record(a) ==
    /\ slot[a] # 0 /\ recorded < plan.records /\ recorded' = recorded + 1
    /\ LET mine == SelectSeq(records, LAMBDA k : k[1] = a)
           kept == IF Len(mine) < PerAgent THEN records ELSE Remove(records, mine[1])
       IN records' = Append(kept, <<a, slot[a]>>)
    /\ UNCHANGED <<chainVars, answers, watcherVars, history, restarts>>

\* GET /divergence: the newest first, at most a page.
Page == [i \in 1..(IF Len(records) < PageSize THEN Len(records) ELSE PageSize) |-> records[Len(records) + 1 - i]]
Listed(k) == Contains(Page, k)

Fails ==
    /\ faults < plan.faults /\ faults' = faults + 1
    /\ (up' = ~up /\ UNCHANGED rpc) \/ (rpc' = ~rpc /\ UNCHANGED up)
    /\ exposed' = [k \in Keys |-> 0]
    /\ UNCHANGED <<chainVars, checkerVars, watcherVars, gone, restarts>>

------------------------------------------------------------------------------
(* A poll: one action up to each await.                                    *)

At(p, stage) == polls[p].stage = stage
To(p, stage) == polls' = [polls EXCEPT ![p].stage = stage]

\* /health and /divergence: the change, when there is one, is told before it is remembered.
Fetch(p) ==
    /\ due /\ due' = FALSE
    /\ At(p, "idle") /\ \A q \in 1..(p - 1) : ~At(q, "idle")
    /\ polls' = [polls EXCEPT ![p] = IF up THEN [Idle EXCEPT !.stage = "answered", !.list = Page] ELSE [Idle EXCEPT !.stage = "refused"]]
    /\ told' = IF up = wasOk THEN told ELSE [told EXCEPT !.checker = ~up]
    /\ UNCHANGED <<chainVars, checkerVars, answers, sent, wasOk, failures, alerted, raised, heard, lost, history, restarts>>

\* trackPollOutcome, at the end of each poll, whatever came of it.
Ended(p, ok) ==
    /\ polls' = [polls EXCEPT ![p] = Idle]
    /\ failures' = IF ok THEN 0 ELSE IF failures < Threshold THEN failures + 1 ELSE failures
    /\ alerted' = (~ok /\ (alerted \/ failures + 1 >= Threshold))

\* Whether its outcome is told.
Tells(checker) == [checker |-> checker, watcher |-> alerted']

\* A checker that is not checking ends the poll, which did what it could.
Refused(p) ==
    /\ At(p, "refused") /\ wasOk' = FALSE
    /\ Ended(p, TRUE) /\ told' = Tells(told.checker)
    /\ UNCHANGED <<chainVars, checkerVars, answers, sent, due, raised, heard, lost, history, restarts>>

\* The first read is of the challenge window; the rest of the RPC may fail where that does not.
Answered(p) ==
    /\ At(p, "answered") /\ wasOk' = TRUE
    /\ \/ polls[p].list = <<>> /\ Ended(p, TRUE) /\ told' = Tells(told.checker)
       \/ polls[p].list # <<>> /\ To(p, "read") /\ UNCHANGED <<failures, alerted, told>>
       \/ polls[p].list # <<>> /\ ~rpc /\ Ended(p, FALSE) /\ told' = Tells(told.checker)
    /\ UNCHANGED <<chainVars, checkerVars, answers, sent, due, raised, heard, lost, history, restarts>>

Disputed(list) == {list[i][1] : i \in DOMAIN list}
Unread == -2

\* Mutant: what the checker recorded.
Actionable_Recorded(reads, k) == reads[k[1]] # Unread /\ left[k] > 0

\* classifyDivergence: the slot still holds that proposal, and its window is open.
Actionable(reads, k) == reads[k[1]] = k[2] /\ left[k] > 0

Seen(k) == sent[k] # None

\* What of the list is left to alert on, by position; then the list once more, for the last call.
Upcoming(alerts, poll) ==
    IF alerts # {} THEN [poll EXCEPT !.alerts = alerts]
    ELSE [poll EXCEPT !.stage = "last", !.alerts = {i \in DOMAIN poll.list : poll.reads[poll.list[i][1]] # Unread}]

\* triage, over the moment's time and the alerts sent by then.
Triaged(poll) ==
    Upcoming({i \in DOMAIN poll.list : Actionable(poll.reads, poll.list[i]) /\ ~Seen(poll.list[i])},
             [poll EXCEPT !.stage = "alert", !.at = left])

\* getPendingScore, one agent at a time; one that cannot be read is left out.
Read(p) ==
    /\ At(p, "read")
    /\ LET unread(reads) == {a \in Disputed(polls[p].list) : reads[a] = None}
           a == CHOOSE a \in unread(polls[p].reads) : TRUE
           reads == [polls[p].reads EXCEPT ![a] = IF rpc THEN slot[a] ELSE Unread]
           next == [polls[p] EXCEPT !.reads = reads]
       IN polls' = [polls EXCEPT ![p] = IF unread(reads) = {} THEN Triaged(next) ELSE next]
    /\ UNCHANGED <<chainVars, checkerVars, answers, sent, wasOk, failures, alerted, due, told, raised, heard, lost, history, restarts>>

\* sent is set first; then the webhook takes the alert or does not.
Raise(k, level) ==
    /\ sent' = [sent EXCEPT ![k] = level]
    /\ raised' = [raised EXCEPT ![<<k, level>>] = IF @ < 2 THEN @ + 1 ELSE @]
    /\ \/ heard' = heard \cup {k} /\ UNCHANGED lost
       \/ lost < plan.lost /\ lost' = lost + 1 /\ UNCHANGED heard

Alert(p) ==
    /\ At(p, "alert")
    /\ LET i == Min(polls[p].alerts)
       IN Raise(polls[p].list[i], 0) /\ polls' = [polls EXCEPT ![p] = Upcoming(@.alerts \ {i}, @)]
    /\ UNCHANGED <<chainVars, checkerVars, answers, wasOk, failures, alerted, due, told, history, restarts>>

Closing(p, k) == polls[p].at[k] > 0 /\ polls[p].at[k] <= FinalWarning

LastCall(p) ==
    /\ At(p, "last") /\ polls[p].alerts # {}
    /\ LET i == Min(polls[p].alerts)
           k == polls[p].list[i]
       IN /\ polls' = [polls EXCEPT ![p].alerts = @ \ {i}]
          /\ IF sent[k] = 0 /\ polls[p].reads[k[1]] = k[2] /\ Closing(p, k) THEN Raise(k, 1)
             ELSE /\ sent' = IF sent[k] = 0 /\ polls[p].reads[k[1]] # k[2] THEN [sent EXCEPT ![k] = None] ELSE sent
                  /\ UNCHANGED <<raised, heard, lost>>
    /\ UNCHANGED <<chainVars, checkerVars, answers, wasOk, failures, alerted, due, told, history, restarts>>

\* Mutant: agents it could not read are logged and forgotten.
Checked_Anyway(p) == TRUE

\* An agent it could not read has not been checked.
Checked(p) == \A a \in Disputed(polls[p].list) : polls[p].reads[a] # Unread

Finish(p) ==
    /\ At(p, "last") /\ polls[p].alerts = {}
    /\ Ended(p, Checked(p)) /\ told' = Tells(told.checker)
    /\ UNCHANGED <<chainVars, checkerVars, answers, sent, wasOk, due, raised, heard, lost, history, restarts>>

------------------------------------------------------------------------------
\* What was sent is in memory.
Restart ==
    /\ restarts < plan.restarts /\ restarts' = restarts + 1
    /\ sent' = [k \in Keys |-> None] /\ wasOk' = TRUE /\ failures' = 0 /\ alerted' = FALSE
    /\ polls' = [p \in Polls |-> Idle] /\ due' = TRUE
    /\ told' = [checker |-> FALSE, watcher |-> FALSE]
    /\ raised' = [x \in Keys \X {0, 1} |-> 0]
    /\ exposed' = [k \in Keys |-> 0]
    /\ UNCHANGED <<chainVars, checkerVars, answers, heard, lost, gone>>

\* How long each has been listed, open and readable: enough is a tick, a poll, and the poll before it.
Enough == MaxPoll + 2
Tick ==
    /\ ~due /\ due' = TRUE
    /\ \A p \in Polls : ~At(p, "idle") => polls[p].age < MaxPoll
    /\ polls' = [p \in Polls |-> IF At(p, "idle") THEN Idle ELSE [polls[p] EXCEPT !.age = @ + 1]]
    /\ left' = [k \in Keys |-> IF left[k] > 0 THEN left[k] - 1 ELSE 0]
    /\ exposed' = [k \in Keys |-> IF ~(up /\ rpc /\ Listed(k) /\ Pending(k) /\ left[k] > 0) THEN 0
                                  ELSE IF exposed[k] < Enough THEN exposed[k] + 1 ELSE exposed[k]]
    /\ gone' = [k \in Keys |-> IF k[2] > made \/ (Pending(k) /\ left[k] > 0) THEN 0 ELSE IF gone[k] <= MaxPoll THEN gone[k] + 1 ELSE gone[k]]
    /\ UNCHANGED <<plan, slot, made, checkerVars, answers, sent, wasOk, failures, alerted, told, raised, heard, lost, restarts>>

Init ==
    /\ plan \in Plans
    /\ slot = [a \in Agents |-> 0] /\ left = [k \in Keys |-> 0] /\ made = 0
    /\ recorded = 0 /\ records = <<>> /\ up = TRUE /\ rpc = TRUE /\ faults = 0
    /\ sent = [k \in Keys |-> None] /\ wasOk = TRUE /\ failures = 0 /\ alerted = FALSE
    /\ polls = [p \in Polls |-> Idle] /\ due = TRUE
    /\ told = [checker |-> FALSE, watcher |-> FALSE]
    /\ raised = [x \in Keys \X {0, 1} |-> 0] /\ heard = {} /\ lost = 0
    /\ exposed = [k \in Keys |-> 0] /\ gone = [k \in Keys |-> 0] /\ restarts = 0

PollStep(p) ==
    Fetch(p) \/ Refused(p) \/ Answered(p) \/ Read(p) \/ Alert(p) \/ LastCall(p) \/ Finish(p)

Next ==
    \/ \E a \in Agents : Propose(a) \/ Close(a) \/ Record(a)
    \/ \E p \in Polls : PollStep(p)
    \/ Fails \/ Restart \/ Tick

Spec == Init /\ [][Next]_vars

\* The timer fires, and a poll gets on.
FairSpec == Spec /\ WF_vars(Tick) /\ \A p \in Polls : WF_vars(PollStep(p))

------------------------------------------------------------------------------
(* What it should guarantee.                                               *)

\* A dispute that stayed on the checker's page and in its slot for Enough ticks, while both could be read,
\* has been raised; and one whose window was that near its end has been raised for the last time.
RaisedInTime ==
    \A k \in Keys :
        exposed[k] = Enough => IF left[k] + Enough <= FinalWarning THEN raised[<<k, 1>>] > 0 ELSE raised[<<k, 0>>] > 0

\* An alert is about a proposal that a human could still act on when the poll read it: it has been out of its
\* slot, or past its window, for no longer than a poll takes.
RaisesOnlyTheLive == \A x \in Keys \X {0, 1} : raised'[x] > raised[x] => gone[x[1]] <= MaxPoll
AlertsWereLive == [][RaisesOnlyTheLive]_vars

\* When nothing can be checked any more, because the checker does not answer or the disputes cannot be read,
\* an alert comes to say so, and no notice takes it back.
Blind == ~up \/ (~rpc /\ records # <<>>)
Told == told.checker \/ told.watcher
==============================================================================
