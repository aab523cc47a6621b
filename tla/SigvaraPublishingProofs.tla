------------------------ MODULE SigvaraPublishingProofs ------------------------
(***************************************************************************)
(* The feedback publisher and its signer, for any sets of agents and 8004  *)
(* agents, any cap on a run, any set of requests, any window and any       *)
(* number of changes, failures and restarts: one feedback at most is live  *)
(* on an 8004 agent and runs leave it right, and the signer signs what it  *)
(* answers once and no hour of it more than its cap.                       *)
(***************************************************************************)
EXTENDS SigvaraPublisher, SigvaraSigner, FiniteSetTheorems, SequenceTheorems, TLAPS

------------------------------------------------------------------------------
(* Plans, and what is live after one.                                      *)

LEMMA EmptyToSeq == SetToSeq({}) = <<>>
<1>1. Cardinality({}) = 0
  BY FS_EmptySet
<1>2. <<>> \in [1..0 -> {}]
  OBVIOUS
<1>3. IsInjective(<<>>)
  BY DEF IsInjective
<1>4. SetToSeq({}) \in [1..0 -> {}]
  BY <1>1, <1>2, <1>3 DEF SetToSeq
<1> QED
  BY <1>4

LEMMA OneToSeq == ASSUME NEW x PROVE SetToSeq({x}) = <<x>>
<1>1. Cardinality({x}) = 1
  BY FS_Singleton
<1>2. <<x>> \in [1..1 -> {x}]
  OBVIOUS
<1>3. IsInjective(<<x>>)
  BY DEF IsInjective
<1>4. SetToSeq({x}) \in [1..1 -> {x}]
  BY <1>1, <1>2, <1>3 DEF SetToSeq
<1> QED
  BY <1>4

\* planUpdate where the feedbacks fs are live.
PlanFor(fs, e, d, wanted) ==
    LET holding == {f \in fs : f.value \in wanted}
        keep    == IF holding = {} THEN {} ELSE {CHOOSE f \in holding : TRUE}
    IN  SetToSeq({Revoke(e, f) : f \in fs \ keep})
        \o (IF wanted # {} /\ keep = {} THEN <<Post(e, d, CHOOSE v \in wanted : TRUE)>>
            ELSE <<>>)

\* The set has one element; or one at most.
Only(S, x) == S = {x}
OneAtMost(S) == S = {} \/ \E x \in S : S = {x}

\* A score v is wanted, or none.
Wants(w, v) == w = {} \/ w = {v}

Shows(f, v) == f.value = v

\* One is live, and it shows v.
ShowsOnly(fs, v) == \E f \in fs : Only(fs, f) /\ Shows(f, v)

LEMMA PlanIs == ASSUME NEW e, NEW d, NEW w PROVE Plan(e, d, w) = PlanFor(live[e], e, d, w)
  BY DEF Plan, PlanFor

LEMMA Concatenations ==
    ASSUME NEW a, NEW b
    PROVE  <<a>> \o <<b>> = <<a, b>> /\ <<a>> \o <<>> = <<a>> /\ <<>> \o <<>> = <<>>
<1>1. <<a>> \o <<b>> = <<a, b>>
  <2> DEFINE S == {a, b}
  <2>1. <<a>> \in Seq(S) /\ <<b>> \in Seq(S) /\ <<a, b>> \in Seq(S)
    OBVIOUS
  <2> HIDE DEF S
  <2>2. <<a>> \o <<b>> \in Seq(S) /\ Len(<<a>> \o <<b>>) = 2
    BY <2>1
  <2>3. \A i \in 1..2 : (<<a>> \o <<b>>)[i] = <<a, b>>[i]
    BY <2>1
  <2> QED
    BY <2>1, <2>2, <2>3, SeqEqual
<1>2. <<a>> \o <<>> = <<a>>
  OBVIOUS
<1>3. <<>> \o <<>> = <<>>
  OBVIOUS
<1> QED
  BY <1>1, <1>2, <1>3

\* With nothing live a plan is a post, if a score is wanted.
LEMMA PlanRests == ASSUME NEW e, NEW d PROVE PlanFor({}, e, d, {}) = <<>>
<1>1. {f \in {} : f.value \in {}} = {} /\ {Revoke(e, f) : f \in {} \ {}} = {}
  OBVIOUS
<1> QED
  BY <1>1, Concatenations, EmptyToSeq DEF PlanFor

LEMMA PlanPosts ==
    ASSUME NEW e, NEW d, NEW w, NEW v, Only(w, v)
    PROVE  PlanFor({}, e, d, w) = <<Post(e, d, v)>>
<1> DEFINE p == Post(e, d, v)
<1>1. {f \in {} : f.value \in w} = {} /\ {Revoke(e, f) : f \in {} \ {}} = {}
  OBVIOUS
<1>2. (CHOOSE u \in w : TRUE) = v /\ w # {}
  BY DEF Only
<1>3. PlanFor({}, e, d, w) = <<>> \o <<p>>
  BY <1>1, <1>2, EmptyToSeq DEF PlanFor
<1>4. <<>> \o <<p>> = <<p>>
  OBVIOUS
<1> QED
  BY <1>3, <1>4

\* With one live, and no score wanted, it is revoked.
LEMMA PlanRevokes ==
    ASSUME NEW fs, NEW f, Only(fs, f), NEW e, NEW d
    PROVE  PlanFor(fs, e, d, {}) = <<Revoke(e, f)>>
<1> DEFINE r == Revoke(e, f)
<1>1. {Revoke(e, g) : g \in fs \ {}} = {r} /\ {g \in fs : g.value \in {}} = {}
  BY DEF Only
<1>2. PlanFor(fs, e, d, {}) = <<r>> \o <<>>
  BY <1>1, OneToSeq DEF PlanFor
<1>3. <<r>> \o <<>> = <<r>>
  BY Concatenations
<1> QED
  BY <1>2, <1>3

\* One that shows what is wanted is kept.
LEMMA PlanKeeps ==
    ASSUME NEW fs, NEW f, Only(fs, f), NEW e, NEW d, NEW w, NEW v, Only(w, v), Shows(f, v)
    PROVE  PlanFor(fs, e, d, w) = <<>>
<1>1. {g \in fs : g.value \in w} = {f} /\ (CHOOSE g \in {f} : TRUE) = f
  BY DEF Only, Shows
<1>2. {f} # {} /\ {Revoke(e, g) : g \in fs \ {f}} = {}
  BY DEF Only
<1>3. PlanFor(fs, e, d, w) = <<>> \o <<>>
  BY <1>1, <1>2, EmptyToSeq DEF PlanFor
<1> QED
  BY <1>3, Concatenations

\* One that shows something else is revoked and replaced.
LEMMA PlanReplaces ==
    ASSUME NEW fs, NEW f, Only(fs, f), NEW e, NEW d, NEW w, NEW v, Only(w, v), ~Shows(f, v)
    PROVE  PlanFor(fs, e, d, w) = <<Revoke(e, f), Post(e, d, v)>>
<1> DEFINE r == Revoke(e, f)  p == Post(e, d, v)
<1>1. {Revoke(e, g) : g \in fs \ {}} = {r}
  BY DEF Only
<1>2. {g \in fs : g.value \in w} = {} /\ (CHOOSE u \in w : TRUE) = v /\ w # {}
  BY DEF Only, Shows
<1>3. PlanFor(fs, e, d, w) = <<r>> \o <<p>>
  BY <1>1, <1>2, OneToSeq DEF PlanFor
<1>4. <<r>> \o <<p>> = <<r, p>>
  BY Concatenations
<1> QED
  BY <1>3, <1>4

\* What a plan for one score or none can be.
PlanCase(fs, e, d, w, v, plan) ==
    \/ fs = {} /\ w = {} /\ plan = <<>>
    \/ fs = {} /\ Only(w, v) /\ plan = <<Post(e, d, v)>>
    \/ ShowsOnly(fs, v) /\ Only(w, v) /\ plan = <<>>
    \/ \E f : Only(fs, f) /\ w = {} /\ plan = <<Revoke(e, f)>>
    \/ \E f : /\ Only(fs, f) /\ Only(w, v) /\ plan = <<Revoke(e, f), Post(e, d, v)>>
              /\ PlanFor({}, e, d, w) = <<Post(e, d, v)>>

LEMMA PlanCases ==
    ASSUME NEW fs, OneAtMost(fs), NEW e, NEW d, NEW w, NEW v, Wants(w, v)
    PROVE  PlanCase(fs, e, d, w, v, PlanFor(fs, e, d, w))
<1>1. w = {} \/ Only(w, v)
  BY DEF Wants, Only
<1>2. fs = {} \/ \E f : Only(fs, f)
  BY DEF OneAtMost, Only
<1> DEFINE plan == PlanFor(fs, e, d, w)
<1>3. CASE fs = {} /\ w = {}
  <2>1. plan = <<>>
    BY <1>3, PlanRests
  <2> HIDE DEF plan
  <2> QED
    BY <1>3, <2>1 DEF PlanCase, plan
<1>4. CASE fs = {} /\ Only(w, v)
  <2>1. plan = <<Post(e, d, v)>>
    BY <1>4, PlanPosts
  <2> HIDE DEF plan
  <2> QED
    BY <1>4, <2>1 DEF PlanCase, plan
<1>5. ASSUME NEW f, Only(fs, f), w = {}
      PROVE  PlanCase(fs, e, d, w, v, plan)
  <2>1. plan = <<Revoke(e, f)>>
    BY <1>5, PlanRevokes
  <2> HIDE DEF plan
  <2> QED
    BY <1>5, <2>1 DEF PlanCase
<1>6. ASSUME NEW f, Only(fs, f), Only(w, v), Shows(f, v)
      PROVE  PlanCase(fs, e, d, w, v, plan)
  <2>1. ShowsOnly(fs, v)
    BY <1>6 DEF Only, ShowsOnly
  <2>2. plan = <<>>
    BY <1>6, PlanKeeps
  <2> HIDE DEF plan
  <2> QED
    BY <1>6, <2>1, <2>2 DEF PlanCase
<1>7. ASSUME NEW f, Only(fs, f), Only(w, v), ~Shows(f, v)
      PROVE  PlanCase(fs, e, d, w, v, plan)
  <2>1. plan = <<Revoke(e, f), Post(e, d, v)>>
    BY <1>7, PlanReplaces
  <2>2. PlanFor({}, e, d, w) = <<Post(e, d, v)>>
    BY <1>7, PlanPosts
  <2> HIDE DEF plan
  <2> QED
    BY <1>7, <2>1, <2>2 DEF PlanCase
<1> QED
  BY <1>1, <1>2, <1>3, <1>4, <1>5, <1>6, <1>7

\* Sequences of one and of two.
LEMMA Shorts ==
    ASSUME NEW r, NEW p
    PROVE  /\ <<p>> # <<>> /\ Head(<<p>>) = p /\ Tail(<<p>>) = <<>> /\ <<p>>[1] = p
           /\ Len(<<>>) = 0 /\ Len(<<p>>) = 1
           /\ <<r, p>> # <<>> /\ Head(<<r, p>>) = r /\ Tail(<<r, p>>) = <<p>>
           /\ Len(<<r, p>>) = 2
  OBVIOUS

\* With nothing left to do, what is live is what is wanted.
LEMMA DoneShown ==
    ASSUME NEW fs, OneAtMost(fs), NEW e, NEW d, NEW w, NEW v, Only(w, v),
           PlanFor(fs, e, d, w) = <<>>
    PROVE  ShowsOnly(fs, v)
<1>1. Wants(w, v) /\ w # {}
  BY DEF Wants, Only
<1>2. <<Post(e, d, v)>> # <<>> /\ \A f : <<Revoke(e, f), Post(e, d, v)>> # <<>>
  BY Shorts
<1>3. PlanCase(fs, e, d, w, v, PlanFor(fs, e, d, w))
  BY <1>1, PlanCases
<1> QED
  BY <1>1, <1>2, <1>3 DEF PlanCase

LEMMA DoneBare ==
    ASSUME NEW fs, OneAtMost(fs), NEW e, NEW d, NEW w, w = {}, PlanFor(fs, e, d, w) = <<>>
    PROVE  fs = {}
<1>1. Wants(w, 0) /\ ~Only(w, 0)
  BY DEF Wants, Only
<1>2. \A f : <<Revoke(e, f)>> # <<>>
  BY Shorts
<1>3. PlanCase(fs, e, d, w, 0, PlanFor(fs, e, d, w))
  BY <1>1, PlanCases
<1> QED
  BY <1>1, <1>2, <1>3 DEF PlanCase

\* A plan for one score or none is no longer than a revoke and a post.
LEMMA PlanLength ==
    ASSUME NEW fs, OneAtMost(fs), NEW e, NEW d, NEW w, NEW v, Wants(w, v),
           NEW plan, plan = PlanFor(fs, e, d, w)
    PROVE  Len(plan) \in Nat /\ (Posts(plan) => plan # <<>> /\ w # {})
<1> DEFINE p == Post(e, d, v)
<1>1. ~Posts(<<>>) /\ Len(<<>>) = 0
  BY DEF Posts
<1>2. CASE plan = <<>>
  BY <1>1, <1>2
<1>3. CASE plan = <<p>> /\ Only(w, v)
  BY <1>3, Shorts DEF Only
<1>4. ASSUME NEW f, plan = <<Revoke(e, f)>> PROVE Len(plan) = 1 /\ ~Posts(plan)
  <2>1. Revoke(e, f).kind = "revoke"
    BY DEF Revoke
  <2>2. Len(plan) = 1 /\ plan[1] = Revoke(e, f)
    BY <1>4, Shorts
  <2> QED
    BY <2>1, <2>2 DEF Posts
<1>5. ASSUME NEW f, plan = <<Revoke(e, f), p>>, Only(w, v)
      PROVE  Len(plan) = 2 /\ plan # <<>> /\ w # {}
  BY <1>5, Shorts DEF Only
<1> HIDE DEF p
<1>6. \/ plan = <<>> \/ (plan = <<p>> /\ Only(w, v))
      \/ (\E f : plan = <<Revoke(e, f)>>)
      \/ (\E f : plan = <<Revoke(e, f), p>> /\ Only(w, v))
  <2>1. PlanCase(fs, e, d, w, v, plan)
    BY PlanCases
  <2> QED
    BY <2>1 DEF PlanCase, p
<1>7. plan = <<p>> /\ Only(w, v) => Len(plan) = 1 /\ plan # <<>> /\ w # {}
  BY Shorts DEF Only
<1> QED
  BY <1>2, <1>4, <1>5, <1>6, <1>7

\* What is live after a transaction of a plan lands.
LEMMA LandedIs ==
    ASSUME DOMAIN live = Exts, NEW tx, tx.ext \in Exts
    PROVE  /\ DOMAIN Landed(tx) = Exts
           /\ \A e \in Exts : e # tx.ext => Landed(tx)[e] = live[e]
           /\ tx.kind = "revoke" =>
                 Landed(tx)[tx.ext] = {f \in live[tx.ext] : f.id # tx.id}
           /\ tx.kind # "revoke" =>
                 \E id : Landed(tx)[tx.ext] =
                            live[tx.ext] \cup {[id |-> id, of |-> tx.of, value |-> tx.value]}
<1>1. Landed(tx) = [live EXCEPT ![tx.ext] =
          IF tx.kind = "revoke" THEN {f \in live[tx.ext] : f.id # tx.id}
          ELSE live[tx.ext] \cup {[id |-> FreshId(tx.ext), of |-> tx.of, value |-> tx.value]}]
  BY DEF Landed
<1> QED
  BY <1>1

\* What claim() changes.
LEMMA ClaimedIs ==
    ASSUME NEW state \in PublisherState, NEW d \in Agents, NEW e \in Exts
    PROVE  LET new == Claimed(state, d, e) IN
           /\ new \in PublisherState
           /\ new.pending = state.pending
           /\ new.postedBy = [state.postedBy EXCEPT ![d] = e]
           /\ \A x \in Exts : new.posted[x].of = IF x = e THEN d ELSE state.posted[x].of
<1> DEFINE new == Claimed(state, d, e)
           entry == [state.posted[e] EXCEPT !.of = d]
<1>1. new = [state EXCEPT !.postedBy = [state.postedBy EXCEPT ![d] = e],
                          !.posted = [state.posted EXCEPT ![e] = entry]]
  BY DEF Claimed, PublisherState
<1>2. state.posted[e] \in [of : Agents \cup {None}, today : BOOLEAN]
  BY DEF PublisherState
<1>3. entry \in [of : Agents \cup {None}, today : BOOLEAN] /\ entry.of = d
  BY <1>2
<1> DEFINE by == [state.postedBy EXCEPT ![d] = e]
           shows == [state.posted EXCEPT ![e] = entry]
<1>4. by \in [Agents -> Exts \cup {None}]
  BY DEF PublisherState
<1>5. shows \in [Exts -> [of : Agents \cup {None}, today : BOOLEAN]]
  BY <1>3 DEF PublisherState
<1>6. \A x \in Exts : shows[x].of = IF x = e THEN d ELSE state.posted[x].of
  BY <1>3 DEF PublisherState
<1> HIDE DEF entry, by, shows
<1>7. /\ new \in PublisherState /\ new.pending = state.pending
      /\ new.postedBy = by /\ new.posted = shows
  BY <1>1, <1>4, <1>5 DEF PublisherState, by, shows
<1> QED
  BY <1>6, <1>7 DEF by

LEMMA PendingEnds ==
    ASSUME NEW state \in PublisherState, NEW d \in Agents, NEW kind \in Kinds
    PROVE  LET new == [state EXCEPT !.pending[d] = kind] IN
           /\ new \in PublisherState
           /\ new.pending = [state.pending EXCEPT ![d] = kind]
           /\ new.postedBy = state.postedBy /\ new.posted = state.posted
  BY DEF PublisherState

------------------------------------------------------------------------------
(* The inductive invariant.                                                *)

\* What each variable holds, as far as the argument needs it.
PublisherTypes ==
    /\ PublisherTypeOK
    /\ names \in [Exts -> Agents \cup {None}]
    /\ DOMAIN live = Exts
    /\ events \in [Agents -> Kinds]
    /\ DOMAIN run = DOMAIN Idle
    /\ run.todo \subseteq Agents /\ run.scores \in [Agents -> Scores] /\ run.sent \in Nat
    /\ {run.posting, run.midnight} \subseteq BOOLEAN
    /\ run.phase = "idle" => run = Idle

\* One feedback at most is live on an 8004 agent.
LiveIsSound ==
    \A e \in Exts :
       live[e] = {} \/ \E f \in live[e] : live[e] = {f} /\ DOMAIN f = {"id", "of", "value"}

\* A state of the publisher knows what is live on the 8004 agents that are not in lost.
Knows(state, lost) ==
    \A e \in Exts \ lost : \A f \in live[e] :
       /\ state.posted[e].of = f.of
       /\ f.value # 0 => state.postedBy[f.of] = e

\* A state that knows of a post before it lands.
Expects(state, tx) ==
    /\ state.posted[tx.ext].of = tx.of
    /\ state.postedBy[tx.of] = tx.ext

\* Nothing is sent while a transaction is in flight, and what it posts has room.
InFlightIsSound ==
    /\ run.phase = "sending" => run.sending
    /\ run.sending => inFlight = {}
    /\ \A tx, ty \in inFlight : tx = ty
    /\ \A tx \in inFlight :
          /\ tx.ext \in Exts
          /\ tx.kind # "revoke" => live[tx.ext] = {} /\ Expects(st, tx) /\ Expects(disk, tx)

StatesAreSound ==
    /\ Knows(st, orphaned) /\ Knows(disk, orphaned \cup run.touched)
    /\ \A d \in Agents : st.postedBy[d] \notin Withheld /\ disk.postedBy[d] \notin Withheld

\* An agent to be shown as 0 was slashed, and a run has read it so.
ZeroesAreSound ==
    \A d \in Agents :
       /\ "zeroed" \in {st.pending[d], disk.pending[d], events[d]} => d \in slashed
       /\ d \in slashed => score[d] = 0
       /\ st.pending[d] = "zeroed" /\ run.phase # "idle" => run.scores[d] = 0

\* What is left of the plan is what planUpdate says now, for the score to be shown.
OnPlan(w) == run.plan = PlanFor(live[run.at], run.at, run.on, w)

SendingIsSound ==
    run.phase = "sending" =>
       LET d == run.on
           e == run.at
       IN  /\ d \in run.todo /\ e \in Exts \ Withheld
           /\ run.sent + Len(run.plan) <= MaxTxsPerRun
           /\ run.posting /\ run.plan = <<>> => st.posted[e].of = d
           /\ e = run.links[d] =>
                 st.postedBy[d] \in {None, e} /\ OnPlan({run.scores[d]})
           /\ e # run.links[d] =>
                 /\ st.postedBy[d] = e
                 /\ \/ run.plan = <<>> /\ ~run.posting /\ st.posted[e].of # d
                    \/ /\ st.posted[e].of = d
                       /\ (OnPlan({}) /\ ~run.posting) \/ OnPlan({0})

PublisherIInv ==
    /\ PublisherTypes /\ LiveIsSound /\ InFlightIsSound /\ StatesAreSound /\ ZeroesAreSound
    /\ SendingIsSound

------------------------------------------------------------------------------
(* The start, and the turns of the agents.                                 *)

LEMMA IdleIs ==
    /\ Idle.phase = "idle" /\ Idle.todo = {} /\ Idle.scores \in [Agents -> Scores]
    /\ Idle.sent = 0 /\ Idle.touched = {} /\ {Idle.posting, Idle.midnight} \subseteq BOOLEAN
    /\ Idle.sending = FALSE
    /\ DOMAIN Idle = {"phase", "links", "scores", "todo", "on", "at", "plan", "posting", "sent",
                      "spent", "sending", "midnight", "touched"}
  BY PublisherAssumption DEF Idle

LEMMA InitIsSound == PublisherInit => PublisherIInv
<1> SUFFICES ASSUME PublisherInit PROVE PublisherIInv
  OBVIOUS
<1> USE DEF PublisherInit
<1>1. st \in PublisherState /\ disk = st
  BY DEF PublisherState, Kinds
<1>2. \A e \in Exts : live[e] = {}
  OBVIOUS
<1>3. PublisherTypes
  <2>1. run.sent <= MaxTxsPerRun
    BY IdleIs, PublisherAssumption
  <2>2. score \in [Agents -> Scores] /\ names \in [Exts -> Agents \cup {None}]
    OBVIOUS
  <2>3. PublisherTypeOK
    BY <1>1, <2>1, <2>2, IdleIs DEF PublisherTypeOK
  <2>4. DOMAIN live = Exts /\ events \in [Agents -> Kinds]
    BY DEF Kinds
  <2> QED
    BY <2>2, <2>3, <2>4, IdleIs DEF PublisherTypes
<1>4. StatesAreSound
  <2>1. \A d \in Agents : st.postedBy[d] = None
    OBVIOUS
  <2> QED
    BY <1>1, <1>2, <2>1, PublisherAssumption DEF StatesAreSound, Knows
<1>5. ZeroesAreSound
  <2>1. \A d \in Agents : st.pending[d] = "no" /\ events[d] = "other"
    OBVIOUS
  <2> QED
    BY <1>1, <2>1 DEF ZeroesAreSound
<1> QED
  BY <1>2, <1>3, <1>4, <1>5, IdleIs
  DEF PublisherIInv, LiveIsSound, InFlightIsSound, SendingIsSound

\* A run ends as soon as its state is right to save.
LEMMA EndIsSound ==
    ASSUME PublisherIInv, EndRun, UNCHANGED <<chainVars, live, events, orphaned>>,
           st' \in PublisherState, st'.pending = st.pending, Knows(st', orphaned),
           \A d \in Agents : st'.postedBy[d] \notin Withheld,
           \A tx, ty \in inFlight' : tx = ty,
           \A tx \in inFlight' :
              /\ tx.ext \in Exts
              /\ tx.kind # "revoke" => live[tx.ext] = {} /\ Expects(st', tx)
    PROVE  PublisherIInv'
<1> USE DEF EndRun, chainVars
<1>1. run'.phase = "idle" /\ run'.sending = FALSE /\ run'.touched = {}
  BY IdleIs
<1>2. PublisherTypes'
  <2>1. run'.sent = 0 /\ run'.sent <= MaxTxsPerRun
    BY IdleIs, PublisherAssumption
  <2>2. PublisherTypeOK'
    BY <1>1, <2>1 DEF PublisherIInv, PublisherTypes, PublisherTypeOK
  <2> QED
    BY <1>1, <2>1, <2>2, IdleIs DEF PublisherIInv, PublisherTypes
<1>3. LiveIsSound'
  BY DEF PublisherIInv, LiveIsSound
<1>4. InFlightIsSound'
  BY <1>1 DEF InFlightIsSound, Expects
<1>5. StatesAreSound'
  BY <1>1 DEF StatesAreSound, Knows
<1>6. ZeroesAreSound'
  BY <1>1 DEF PublisherIInv, ZeroesAreSound
<1>7. SendingIsSound'
  BY <1>1 DEF SendingIsSound
<1> QED
  BY <1>2, <1>3, <1>4, <1>5, <1>6, <1>7 DEF PublisherIInv

\* An agent's turn ends with nothing sent.
LEMMA LeavesIsSound ==
    ASSUME PublisherIInv, NEW d \in Agents, At(d), Leaves(d), st' = st \/ Drops(d),
           UNCHANGED <<live, disk>>
    PROVE  PublisherIInv'
<1> USE DEF At, Leaves, chainVars
<1>1. /\ run'.phase = "agents" /\ run'.sending = run.sending /\ run'.touched = run.touched
      /\ run'.todo = run.todo \ {d} /\ run'.scores = run.scores /\ run'.sent = run.sent
      /\ run'.posting = run.posting /\ run'.midnight = run.midnight
      /\ DOMAIN run' = DOMAIN run
  BY IdleIs DEF PublisherIInv, PublisherTypes
<1>2. /\ st \in PublisherState /\ st' \in PublisherState
      /\ st'.postedBy = st.postedBy /\ st'.posted = st.posted
      /\ \A x \in Agents : st'.pending[x] \in {st.pending[x], "no"}
  <2>1. st \in PublisherState
    BY DEF PublisherIInv, PublisherTypes, PublisherTypeOK
  <2>2. CASE st' = st
    BY <2>1, <2>2
  <2>3. CASE Drops(d)
    <3>1. "no" \in Kinds
      BY DEF Kinds
    <3>2. st.pending \in [Agents -> Kinds]
      BY <2>1 DEF PublisherState
    <3> QED
      BY <2>1, <2>3, <3>1, <3>2, PendingEnds DEF Drops
  <2> QED
    BY <2>2, <2>3
<1>3. PublisherTypes'
  <2>1. PublisherTypeOK'
    BY <1>1, <1>2 DEF PublisherIInv, PublisherTypes, PublisherTypeOK
  <2> QED
    BY <1>1, <2>1 DEF PublisherIInv, PublisherTypes
<1>4. LiveIsSound'
  BY DEF PublisherIInv, LiveIsSound
<1>5. InFlightIsSound'
  BY <1>1, <1>2 DEF PublisherIInv, InFlightIsSound, Expects
<1>6. StatesAreSound'
  BY <1>1, <1>2 DEF PublisherIInv, StatesAreSound, Knows
<1>7. ZeroesAreSound'
  BY <1>1, <1>2 DEF PublisherIInv, ZeroesAreSound
<1>8. SendingIsSound'
  BY <1>1 DEF SendingIsSound
<1> QED
  BY <1>3, <1>4, <1>5, <1>6, <1>7, <1>8 DEF PublisherIInv

\* A plan is sent, or ends the run.
LEMMA ApplyIsSound ==
    ASSUME PublisherIInv, NEW d \in Agents, At(d), run.sending, NEW e \in Exts \ Withheld,
           NEW plan, Apply(d, e, plan), Len(plan) \in Nat, Posts(plan) => plan # <<>>,
           e = run.links[d] =>
              st.postedBy[d] \in {None, e} /\ plan = PlanFor(live[e], e, d, {run.scores[d]}),
           e # run.links[d] =>
              /\ st.postedBy[d] = e
              /\ \/ plan = <<>> /\ ~Posts(plan) /\ st.posted[e].of # d
                 \/ /\ st.posted[e].of = d
                    /\ \/ plan = PlanFor(live[e], e, d, {}) /\ ~Posts(plan)
                       \/ plan = PlanFor(live[e], e, d, {0})
    PROVE  PublisherIInv'
<1> USE DEF At, Apply, chainVars
<1>1. CASE run.sent + Len(plan) > MaxTxsPerRun
  <2>1. EndRun /\ inFlight = {}
    BY <1>1 DEF PublisherIInv, InFlightIsSound
  <2>2. st \in PublisherState /\ Knows(st, orphaned)
    BY DEF PublisherIInv, PublisherTypes, PublisherTypeOK, StatesAreSound
  <2>3. \A x \in Agents : st.postedBy[x] \notin Withheld
    BY DEF PublisherIInv, StatesAreSound
  <2>4. st' = st /\ UNCHANGED <<chainVars, live, events, orphaned, inFlight>>
    OBVIOUS
  <2>5. Knows(st', orphaned)
    BY <2>2, <2>4
  <2> QED
    BY <2>1, <2>2, <2>3, <2>4, <2>5, EndIsSound
<1>2. CASE ~(run.sent + Len(plan) > MaxTxsPerRun)
  <2> DEFINE posting == Posts(plan)
  <2>0. run' = [run EXCEPT !.phase = "sending", !.on = d, !.at = e, !.plan = plan,
                           !.posting = posting]
    BY <1>2
  <2> HIDE DEF posting
  <2>1. /\ run'.phase = "sending" /\ run'.on = d /\ run'.at = e /\ run'.plan = plan
        /\ run'.posting = posting /\ run'.sending = run.sending
        /\ run'.touched = run.touched /\ run'.todo = run.todo /\ run'.scores = run.scores
        /\ run'.sent = run.sent /\ run'.midnight = run.midnight /\ run'.links = run.links
        /\ DOMAIN run' = DOMAIN run
    BY <2>0, IdleIs DEF PublisherIInv, PublisherTypes
  <2>2. disk' = disk
    BY <1>2
  <2>3. PublisherTypes'
    <3>1. PublisherTypeOK'
      BY <2>1, <2>2 DEF PublisherIInv, PublisherTypes, PublisherTypeOK
    <3>2. posting \in BOOLEAN
      BY DEF Posts, posting
    <3> QED
      BY <2>1, <3>1, <3>2 DEF PublisherIInv, PublisherTypes
  <2>4. LiveIsSound'
    BY DEF PublisherIInv, LiveIsSound
  <2>5. InFlightIsSound'
    BY <2>1, <2>2 DEF PublisherIInv, InFlightIsSound, Expects
  <2>6. StatesAreSound'
    BY <2>1, <2>2 DEF PublisherIInv, StatesAreSound, Knows
  <2>7. ZeroesAreSound'
    BY <2>1, <2>2 DEF PublisherIInv, ZeroesAreSound
  <2>8. SendingIsSound'
    <3>1. run.sent + Len(plan) <= MaxTxsPerRun
      BY <1>2, PublisherAssumption DEF PublisherIInv, PublisherTypes
    <3> QED
      BY <2>1, <3>1 DEF SendingIsSound, OnPlan, posting
  <2> QED
    BY <2>3, <2>4, <2>5, <2>6, <2>7, <2>8 DEF PublisherIInv
<1> QED
  BY <1>1, <1>2

LEMMA CleansUpIsSound ==
    ASSUME PublisherIInv, NEW d \in Agents, CleansUp(d)
    PROVE  PublisherIInv'
<1> DEFINE e == st.postedBy[d]
           w == IF st.pending[d] = "zeroed" THEN {0} ELSE {}
           plan == IF ~StillShown(d, e) THEN <<>> ELSE Plan(e, d, w)
<1>1. At(d) /\ run.sending /\ Moved(d) /\ Apply(d, e, plan)
  BY DEF CleansUp
<1>2. e \in Exts \ Withheld /\ e # run.links[d]
  <2>1. st \in PublisherState /\ e \notin Withheld
    BY DEF PublisherIInv, PublisherTypes, PublisherTypeOK, StatesAreSound
  <2>2. e \in Exts \cup {None}
    BY <2>1 DEF PublisherState
  <2> QED
    BY <1>1, <2>1, <2>2 DEF Moved
<1>3. OneAtMost(live[e])
  BY <1>2 DEF PublisherIInv, LiveIsSound, OneAtMost
<1>4. Plan(e, d, w) = PlanFor(live[e], e, d, w)
  BY PlanIs
<1>5. Wants(w, 0)
  BY DEF Wants
<1> HIDE DEF w
<1>6. CASE ~StillShown(d, e)
  <2>1. plan = <<>> /\ st.posted[e].of # d
    BY <1>6 DEF StillShown
  <2>2. Len(<<>>) = 0 /\ ~Posts(<<>>)
    BY DEF Posts
  <2>3. Len(plan) \in Nat /\ ~Posts(plan)
    BY <2>1, <2>2
  <2> HIDE DEF plan
  <2> QED
    BY <1>1, <1>2, <2>1, <2>3, ApplyIsSound
<1>7. CASE StillShown(d, e)
  <2>1. plan = PlanFor(live[e], e, d, w) /\ st.posted[e].of = d
    BY <1>4, <1>7 DEF StillShown
  <2>2. Len(plan) \in Nat /\ (Posts(plan) => plan # <<>> /\ w # {})
    BY <1>3, <1>5, <2>1, PlanLength
  <2> HIDE DEF plan
  <2>3. \/ plan = PlanFor(live[e], e, d, {}) /\ ~Posts(plan)
        \/ plan = PlanFor(live[e], e, d, {0})
    BY <1>5, <2>1, <2>2 DEF Wants
  <2> QED
    BY <1>1, <1>2, <2>1, <2>2, <2>3, ApplyIsSound
<1> QED
  BY <1>6, <1>7

LEMMA UpdatesIsSound ==
    ASSUME PublisherIInv, NEW d \in Agents, Updates(d)
    PROVE  PublisherIInv'
<1> DEFINE e == run.links[d]  w == {run.scores[d]}  plan == Plan(e, d, w)
<1>1. At(d) /\ run.sending /\ ~Moved(d) /\ e \in Exts \ Withheld /\ Apply(d, e, plan)
  BY DEF Updates, AtNew, Linked
<1>2. st.postedBy[d] \in {None, e}
  BY <1>1 DEF Moved
<1>3. OneAtMost(live[e])
  BY <1>1 DEF PublisherIInv, LiveIsSound, OneAtMost
<1>4. plan = PlanFor(live[e], e, d, w)
  BY PlanIs
<1> HIDE DEF plan
<1>5. Wants(w, run.scores[d])
  BY DEF Wants
<1>6. Len(plan) \in Nat /\ (Posts(plan) => plan # <<>>)
  <2> HIDE DEF w
  <2> QED
    BY <1>3, <1>4, <1>5, PlanLength
<1> QED
  BY <1>1, <1>2, <1>4, <1>6, ApplyIsSound

LEMMA FindsUnchangedIsSound ==
    ASSUME PublisherIInv, NEW d \in Agents, FindsUnchanged(d)
    PROVE  PublisherIInv'
<1> DEFINE e == run.links[d]  kept == [st EXCEPT !.pending[d] = "no"]
<1> USE DEF chainVars
<1>1. /\ At(d) /\ AtNew(d) /\ e \in Exts \ Withheld /\ disk' = disk
      /\ UNCHANGED <<chainVars, inFlight, events, newClaims, orphaned, changes>>
      /\ run' = [run EXCEPT !.todo = @ \ {d}, !.touched = @ \cup {e}]
      /\ run.phase = "agents"
  BY DEF FindsUnchanged, AtNew, At, Linked
<1>2. /\ run'.phase = "agents" /\ run'.sending = run.sending
      /\ run'.touched = run.touched \cup {e}
      /\ run'.todo = run.todo \ {d} /\ run'.scores = run.scores /\ run'.sent = run.sent
      /\ run'.posting = run.posting /\ run'.midnight = run.midnight
      /\ DOMAIN run' = DOMAIN run
  <2> HIDE DEF e
  <2> QED
    BY <1>1, IdleIs DEF PublisherIInv, PublisherTypes
<1>3. /\ kept \in PublisherState
      /\ kept.postedBy = st.postedBy /\ kept.posted = st.posted
      /\ \A x \in Agents : kept.pending[x] \in {st.pending[x], "no"}
  <2>1. st \in PublisherState /\ "no" \in Kinds
    BY DEF PublisherIInv, PublisherTypes, PublisherTypeOK, Kinds
  <2>2. st.pending \in [Agents -> Kinds]
    BY <2>1 DEF PublisherState
  <2> QED
    BY <2>1, <2>2, PendingEnds
<1> HIDE DEF kept
<1>4. /\ st' \in PublisherState /\ LiveIsSound' /\ DOMAIN live' = Exts
      /\ \A x \in Agents : st'.pending[x] \in {st.pending[x], "no"}
      /\ Knows(st, orphaned)' /\ Knows(disk, orphaned \cup run.touched)'
      /\ \A x \in Agents : st'.postedBy[x] \notin Withheld
      /\ run.sending \/ (live' = live /\ st'.postedBy = st.postedBy /\ st'.posted = st.posted)
  <2>1. CASE ~run.sending
    <3>1. st' = kept /\ live' = live
      BY <2>1 DEF FindsUnchanged, kept
    <3> QED
      BY <1>1, <1>2, <1>3, <2>1, <3>1
      DEF PublisherIInv, PublisherTypes, LiveIsSound, StatesAreSound, Knows
  <2>2. CASE run.sending
    <3>1. /\ st' = Claimed(kept, d, e)
          /\ live' = [live EXCEPT ![e] = {[f EXCEPT !.of = d] : f \in live[e]}]
      BY <2>2 DEF FindsUnchanged, kept
    <3>2. /\ st' \in PublisherState /\ st'.pending = kept.pending
          /\ st'.postedBy = [st.postedBy EXCEPT ![d] = e]
          /\ \A x \in Exts : st'.posted[x].of = IF x = e THEN d ELSE st.posted[x].of
      BY <1>1, <1>3, <3>1, ClaimedIs
    <3>3. DOMAIN live = Exts /\ DOMAIN live' = Exts
      BY <3>1 DEF PublisherIInv, PublisherTypes
    <3>4. /\ \A x \in Exts : x # e => live'[x] = live[x]
          /\ live'[e] = {[f EXCEPT !.of = d] : f \in live[e]}
      BY <1>1, <3>1, <3>3
    <3>5. PICK f \in live[e] : live[e] = {f} /\ DOMAIN f = {"id", "of", "value"}
      <4>1. Plan(e, d, {run.scores[d]}) = <<>>
        BY DEF FindsUnchanged
      <4>2. PlanFor(live[e], e, d, {run.scores[d]}) = <<>>
        BY <4>1, PlanIs
      <4>3. live[e] = {} \/ \E f \in live[e] : live[e] = {f} /\ DOMAIN f = {"id", "of", "value"}
        BY <1>1 DEF PublisherIInv, LiveIsSound
      <4>4. OneAtMost(live[e])
        BY <4>3 DEF OneAtMost
      <4> DEFINE fs == live[e]  w == {run.scores[d]}  v == run.scores[d]
      <4>5. Only(w, v) /\ OneAtMost(fs) /\ PlanFor(fs, e, d, w) = <<>>
        BY <4>2, <4>4 DEF Only
      <4> HIDE DEF fs, w, v, e
      <4>6. ShowsOnly(fs, v)
        BY <4>5, DoneShown
      <4>7. live[e] # {}
        BY <4>6 DEF fs, ShowsOnly
      <4> QED
        BY <4>3, <4>7
    <3> DEFINE g == [f EXCEPT !.of = d]
    <3>6. g.of = d /\ DOMAIN g = {"id", "of", "value"} /\ live'[e] = {g}
      BY <3>4, <3>5
    <3>7. LiveIsSound'
      BY <3>4, <3>6 DEF PublisherIInv, LiveIsSound
    <3>8. st.postedBy[d] \in {None, e}
      BY <1>1, <2>2 DEF AtNew, Moved
    <3>9. st.postedBy \in [Agents -> Exts \cup {None}]
      BY DEF PublisherIInv, PublisherTypes, PublisherTypeOK, PublisherState
    <3>10. \A x \in Agents : st'.postedBy[x] = IF x = d THEN e ELSE st.postedBy[x]
      BY <3>2, <3>9
    <3>11. Knows(st, orphaned)'
      <4> SUFFICES ASSUME NEW x \in Exts \ orphaned, NEW h \in live'[x]
                   PROVE  /\ st'.posted[x].of = h.of
                          /\ h.value # 0 => st'.postedBy[h.of] = x
        BY <1>1 DEF Knows
      <4>1. CASE x = e
        BY <3>2, <3>6, <3>10, <4>1
      <4>2. CASE x # e
        <5>1. /\ h \in live[x] /\ st.posted[x].of = h.of
              /\ h.value # 0 => st.postedBy[h.of] = x
          BY <3>4, <4>2 DEF PublisherIInv, StatesAreSound, Knows
        <5>2. h.value # 0 => h.of # d
          BY <3>8, <4>2, <5>1, PublisherAssumption
        <5>3. h.of # d => st'.postedBy[h.of] = st.postedBy[h.of]
          BY <3>2, <3>9
        <5> QED
          BY <3>2, <4>2, <5>1, <5>2, <5>3
      <4> QED
        BY <4>1, <4>2
    <3>12. Knows(disk, orphaned \cup run.touched)'
      BY <1>1, <1>2, <3>4 DEF PublisherIInv, StatesAreSound, Knows
    <3>13. \A x \in Agents : st'.postedBy[x] \notin Withheld
      BY <1>1, <3>10 DEF PublisherIInv, StatesAreSound
    <3> QED
      BY <1>3, <2>2, <3>2, <3>3, <3>7, <3>11, <3>12, <3>13
  <2> QED
    BY <2>1, <2>2
<1>5. PublisherTypes'
  <2>1. PublisherTypeOK'
    BY <1>1, <1>2, <1>4 DEF PublisherIInv, PublisherTypes, PublisherTypeOK
  <2> QED
    BY <1>1, <1>2, <1>4, <2>1 DEF PublisherIInv, PublisherTypes
<1>6. InFlightIsSound'
  BY <1>1, <1>2, <1>4 DEF PublisherIInv, InFlightIsSound, Expects
<1>7. StatesAreSound'
  BY <1>1, <1>4 DEF PublisherIInv, StatesAreSound
<1>8. ZeroesAreSound'
  BY <1>1, <1>2, <1>4 DEF PublisherIInv, ZeroesAreSound
<1>9. SendingIsSound'
  BY <1>2 DEF SendingIsSound
<1> QED
  BY <1>4, <1>5, <1>6, <1>7, <1>8, <1>9 DEF PublisherIInv

------------------------------------------------------------------------------
(* Sending.                                                                *)

\* The score, if any, that what is left of a plan is for.
PlannedScore(w, v) ==
    /\ Wants(w, v) /\ OnPlan(w) /\ (run.posting => Only(w, v))
    /\ run.at = run.links[run.on] => w = {run.scores[run.on]}
    /\ run.at # run.links[run.on] => (w = {} /\ ~run.posting) \/ w = {0}

LEMMA PlannedFor ==
    ASSUME PublisherIInv, run.phase = "sending", run.plan # <<>>
    PROVE  /\ run.on \in run.todo /\ run.on \in Agents /\ run.at \in Exts \ Withheld
           /\ inFlight = {} /\ st.postedBy[run.on] \in {None, run.at}
           /\ run.at # run.links[run.on] =>
                 st.postedBy[run.on] = run.at /\ st.posted[run.at].of = run.on
           /\ OneAtMost(live[run.at])
           /\ \E w, v : PlannedScore(w, v)
<1>1. run.on \in run.todo /\ run.at \in Exts \ Withheld
  BY DEF PublisherIInv, SendingIsSound
<1>2. run.on \in Agents
  BY <1>1 DEF PublisherIInv, PublisherTypes
<1>3. inFlight = {}
  BY DEF PublisherIInv, InFlightIsSound
<1>4. OneAtMost(live[run.at])
  BY <1>1 DEF PublisherIInv, LiveIsSound, OneAtMost
<1>5. CASE run.at = run.links[run.on]
  <2>1. st.postedBy[run.on] \in {None, run.at} /\ OnPlan({run.scores[run.on]})
    BY <1>5 DEF PublisherIInv, SendingIsSound
  <2>2. PlannedScore({run.scores[run.on]}, run.scores[run.on])
    BY <1>5, <2>1 DEF PlannedScore, Wants, Only
  <2> QED
    BY <1>1, <1>2, <1>3, <1>4, <1>5, <2>1, <2>2
<1>6. CASE run.at # run.links[run.on]
  <2>1. /\ st.postedBy[run.on] = run.at /\ st.posted[run.at].of = run.on
        /\ (OnPlan({}) /\ ~run.posting) \/ OnPlan({0})
    BY <1>6 DEF PublisherIInv, SendingIsSound
  <2>2. CASE OnPlan({}) /\ ~run.posting
    <3>1. PlannedScore({}, 0)
      BY <1>6, <2>2 DEF PlannedScore, Wants
    <3> QED
      BY <1>1, <1>2, <1>3, <1>4, <1>6, <2>1, <3>1
  <2>3. CASE OnPlan({0})
    <3>1. PlannedScore({0}, 0)
      BY <1>6, <2>3 DEF PlannedScore, Wants, Only
    <3> QED
      BY <1>1, <1>2, <1>3, <1>4, <1>6, <2>1, <3>1
  <2> QED
    BY <2>1, <2>2, <2>3
<1> QED
  BY <1>5, <1>6

\* The transaction that is next revokes what is live there, or is the last and posts the score.
NextRevokes(f, w) ==
    /\ Only(live[run.at], f) /\ Head(run.plan) = Revoke(run.at, f)
    /\ Tail(run.plan) = PlanFor({}, run.at, run.on, w)
    /\ Len(Tail(run.plan)) \in Nat /\ Len(run.plan) = Len(Tail(run.plan)) + 1

NextPosts(w, v) ==
    /\ live[run.at] = {} /\ Only(w, v)
    /\ Head(run.plan) = Post(run.at, run.on, v)
    /\ Tail(run.plan) = <<>> /\ Len(run.plan) = 1

LEMMA NextIs ==
    ASSUME OneAtMost(live[run.at]), run.plan # <<>>, NEW w, NEW v, Wants(w, v), OnPlan(w)
    PROVE  NextPosts(w, v) \/ \E f : NextRevokes(f, w)
<1> DEFINE e == run.at  d == run.on  p == Post(e, d, v)  plan == run.plan
<1>1. \/ live[e] = {} /\ Only(w, v) /\ plan = <<p>>
      \/ \E f : Only(live[e], f) /\ w = {} /\ plan = <<Revoke(e, f)>>
      \/ \E f : /\ Only(live[e], f) /\ plan = <<Revoke(e, f), p>>
                /\ PlanFor({}, e, d, w) = <<p>>
  <2> DEFINE fs == live[e]
  <2>1. plan = PlanFor(fs, e, d, w) /\ plan # <<>>
    BY DEF OnPlan
  <2> HIDE DEF fs, e, d, plan
  <2>2. PlanFor(fs, e, d, w) # <<>>
    BY <2>1
  <2>3. OneAtMost(fs)
    BY DEF fs, e
  <2>4. PlanCase(fs, e, d, w, v, plan)
    BY <2>1, <2>3, PlanCases
  <2> QED
    BY <2>1, <2>4 DEF PlanCase, fs, p
<1>2. CASE live[e] = {} /\ Only(w, v) /\ plan = <<p>>
  <2> HIDE DEF p
  <2>1. Head(plan) = p /\ Tail(plan) = <<>> /\ Len(plan) = 1
    BY <1>2, Shorts
  <2> QED
    BY <1>2, <2>1 DEF NextPosts, p
<1>3. ASSUME NEW f, Only(live[e], f), w = {}, plan = <<Revoke(e, f)>> PROVE NextRevokes(f, w)
  <2> DEFINE r == Revoke(e, f)
  <2> HIDE DEF r
  <2>1. plan = <<r>>
    BY <1>3 DEF r
  <2>2. Head(plan) = r /\ Tail(plan) = <<>> /\ Len(plan) = 1 /\ Len(<<>>) = 0
    BY <2>1, Shorts
  <2>3. Len(Tail(plan)) \in Nat /\ Len(plan) = Len(Tail(plan)) + 1
    BY <2>2
  <2>4. PlanFor({}, e, d, w) = <<>>
    BY <1>3, PlanRests
  <2> QED
    BY <1>3, <2>2, <2>3, <2>4 DEF NextRevokes, r
<1>4. ASSUME NEW f, Only(live[e], f), plan = <<Revoke(e, f), p>>, PlanFor({}, e, d, w) = <<p>>
      PROVE  NextRevokes(f, w)
  <2> DEFINE r == Revoke(e, f)
  <2> HIDE DEF r, p
  <2>1. plan = <<r, p>>
    BY <1>4 DEF r
  <2>2. Head(plan) = r /\ Tail(plan) = <<p>> /\ Len(plan) = 2 /\ Len(<<p>>) = 1
    BY <2>1, Shorts
  <2>3. Len(Tail(plan)) \in Nat /\ Len(plan) = Len(Tail(plan)) + 1
    BY <2>2
  <2> QED
    BY <1>4, <2>2, <2>3 DEF NextRevokes, r
<1> QED
  BY <1>1, <1>2, <1>3, <1>4

\* What the publisher's state is once a transaction is to be sent.
LEMMA NextTxIs ==
    ASSUME PublisherIInv, NEW tx, NextTx(tx), NEW w, NEW v, PlannedScore(w, v)
    PROVE  /\ tx.ext = run.at /\ st' \in PublisherState /\ st'.pending = st.pending
           /\ Knows(st', orphaned) /\ \A x \in Agents : st'.postedBy[x] \notin Withheld
           /\ st'.postedBy[run.on] \in {None, run.at}
           /\ st.posted[run.at].of = run.on => st'.posted[run.at].of = run.on
           /\ st.postedBy[run.on] = run.at => st'.postedBy[run.on] = run.at
           /\ \/ /\ tx.kind = "revoke" /\ st' = st
                 /\ \E f : NextRevokes(f, w)
                           /\ tx = Revoke(run.at, f)
              \/ /\ tx = Post(run.at, run.on, v) /\ NextPosts(w, v) /\ Expects(st', tx)
                 /\ st'.posted[run.at].of = run.on
<1> DEFINE e == run.at  d == run.on
<1>1. run.phase = "sending" /\ run.plan # <<>> /\ tx = Head(run.plan) /\ st' = ClaimedToSend(tx)
  BY DEF NextTx
<1>2. /\ d \in Agents /\ e \in Exts \ Withheld /\ st.postedBy[d] \in {None, e}
      /\ OneAtMost(live[e])
  BY <1>1, PlannedFor
<1>3. NextPosts(w, v) \/ \E f : NextRevokes(f, w)
  BY <1>1, <1>2, NextIs DEF PlannedScore
<1>4. /\ st \in PublisherState /\ Knows(st, orphaned)
      /\ \A x \in Agents : st.postedBy[x] \notin Withheld
  BY DEF PublisherIInv, PublisherTypes, PublisherTypeOK, StatesAreSound
<1>5. ASSUME NEW f, NextRevokes(f, w)
      PROVE  tx = Revoke(e, f) /\ tx.kind = "revoke" /\ tx.ext = e /\ st' = st
  <2>1. tx = Revoke(e, f)
    BY <1>1, <1>5 DEF NextRevokes
  <2>2. tx.kind = "revoke" /\ tx.ext = e
    BY <2>1 DEF Revoke
  <2> QED
    BY <1>1, <2>1, <2>2 DEF ClaimedToSend
<1>6. CASE NextPosts(w, v)
  <2>1. tx = Post(e, d, v)
    BY <1>1, <1>6 DEF NextPosts
  <2>2. tx.kind = "post" /\ tx.ext = e /\ tx.of = d
    BY <2>1 DEF Post
  <2>3. st' = Claimed(st, d, e)
    BY <1>1, <2>2 DEF ClaimedToSend
  <2>4. /\ st' \in PublisherState /\ st'.pending = st.pending
        /\ st'.postedBy = [st.postedBy EXCEPT ![d] = e]
        /\ \A x \in Exts : st'.posted[x].of = IF x = e THEN d ELSE st.posted[x].of
    BY <1>2, <1>4, <2>3, ClaimedIs
  <2>5. st.postedBy \in [Agents -> Exts \cup {None}]
    BY <1>4 DEF PublisherState
  <2>6. /\ st'.postedBy[d] = e
        /\ \A x : x # d => st'.postedBy[x] = st.postedBy[x]
        /\ st'.posted[e].of = d
    BY <1>2, <2>4, <2>5
  <2>7. Expects(st', tx)
    BY <2>2, <2>6 DEF Expects
  <2>8. Knows(st', orphaned)
    <3> SUFFICES ASSUME NEW x \in Exts \ orphaned, NEW h \in live[x]
                 PROVE  /\ st'.posted[x].of = h.of
                        /\ h.value # 0 => st'.postedBy[h.of] = x
      BY DEF Knows
    <3>1. x # e
      BY <1>6 DEF NextPosts
    <3>2. st.posted[x].of = h.of /\ (h.value # 0 => st.postedBy[h.of] = x)
      BY <1>4 DEF Knows
    <3>3. h.value # 0 => h.of # d
      BY <1>2, <3>1, <3>2, PublisherAssumption
    <3> QED
      BY <2>4, <2>6, <3>1, <3>2, <3>3
  <2>9. \A x \in Agents : st'.postedBy[x] \notin Withheld
    BY <1>2, <1>4, <2>6
  <2> QED
    BY <1>6, <2>1, <2>2, <2>4, <2>6, <2>7, <2>8, <2>9
<1> QED
  BY <1>2, <1>3, <1>4, <1>5, <1>6

LEMMA SendFailsIsSound ==
    ASSUME PublisherIInv, NEW tx, SendFails(tx) \/ SendTimesOut(tx)
    PROVE  PublisherIInv'
<1>1. NextTx(tx) /\ EndRun /\ live' = live /\ run.phase = "sending" /\ run.plan # <<>>
  BY DEF SendFails, SendTimesOut, NextTx
<1>2. PICK w, v : PlannedScore(w, v)
  BY <1>1, PlannedFor
<1>3. inFlight = {} /\ run.at \in Exts
  BY <1>1, PlannedFor
<1>4. UNCHANGED <<chainVars, live, events, orphaned>>
  BY <1>1 DEF NextTx
<1>5. /\ tx.ext = run.at /\ st' \in PublisherState /\ st'.pending = st.pending
      /\ Knows(st', orphaned) /\ \A x \in Agents : st'.postedBy[x] \notin Withheld
      /\ \/ tx.kind = "revoke"
         \/ NextPosts(w, v) /\ Expects(st', tx)
  BY <1>1, <1>2, NextTxIs
<1>6. inFlight' = {} \/ inFlight' = {tx}
  BY <1>3 DEF SendFails, SendTimesOut
<1>7. \A ty \in inFlight' :
         ty.ext \in Exts /\ (ty.kind # "revoke" => live[ty.ext] = {} /\ Expects(st', ty))
  BY <1>3, <1>5, <1>6 DEF NextPosts
<1>8. \A ty, tz \in inFlight' : ty = tz
  BY <1>6
<1> QED
  BY <1>1, <1>4, <1>5, <1>7, <1>8, EndIsSound

LEMMA SendConfirmsIsSound ==
    ASSUME PublisherIInv, NEW tx, SendConfirms(tx)
    PROVE  PublisherIInv'
<1> DEFINE e == run.at  d == run.on  plan == run.plan
<1> USE DEF chainVars
<1>1. /\ NextTx(tx) /\ live' = Landed(tx) /\ UNCHANGED <<inFlight, disk>>
      /\ run.phase = "sending" /\ plan # <<>> /\ tx = Head(plan)
      /\ UNCHANGED <<chainVars, events, newClaims, orphaned, changes>>
      /\ run' = [run EXCEPT !.plan = Tail(plan), !.sent = @ + 1, !.touched = @ \cup {e}]
  BY DEF SendConfirms, NextTx
<1>2. PICK w, v : PlannedScore(w, v)
  BY <1>1, PlannedFor
<1>3. /\ d \in run.todo /\ d \in Agents /\ e \in Exts \ Withheld /\ inFlight = {}
      /\ st.postedBy[d] \in {None, e}
      /\ e # run.links[d] => st.postedBy[d] = e /\ st.posted[e].of = d
  BY <1>1, PlannedFor
<1>4. /\ tx.ext = e /\ st' \in PublisherState /\ st'.pending = st.pending
      /\ Knows(st', orphaned) /\ \A x \in Agents : st'.postedBy[x] \notin Withheld
      /\ st'.postedBy[d] \in {None, e}
      /\ st.posted[e].of = d => st'.posted[e].of = d
      /\ st.postedBy[d] = e => st'.postedBy[d] = e
      /\ \/ /\ tx.kind = "revoke" /\ st' = st
            /\ \E f : NextRevokes(f, w) /\ tx = Revoke(e, f)
         \/ /\ tx = Post(e, d, v) /\ NextPosts(w, v) /\ Expects(st', tx)
            /\ st'.posted[e].of = d
  BY <1>1, <1>2, NextTxIs
<1>5. /\ run'.phase = "sending" /\ run'.sending = run.sending
      /\ run'.touched = run.touched \cup {e}
      /\ run'.todo = run.todo /\ run'.scores = run.scores /\ run'.sent = run.sent + 1
      /\ run'.posting = run.posting /\ run'.midnight = run.midnight
      /\ run'.on = d /\ run'.at = e /\ run'.plan = Tail(plan) /\ run'.links = run.links
      /\ DOMAIN run' = DOMAIN run
  <2> HIDE DEF e, plan
  <2>1. DOMAIN run = {"phase", "links", "scores", "todo", "on", "at", "plan", "posting", "sent",
                      "spent", "sending", "midnight", "touched"}
    BY IdleIs DEF PublisherIInv, PublisherTypes
  <2> QED
    BY <1>1, <2>1 DEF e
<1>6. DOMAIN live = Exts
  BY DEF PublisherIInv, PublisherTypes
<1>7. DOMAIN live' = Exts /\ \A x \in Exts : x # e => live'[x] = live[x]
  BY <1>1, <1>3, <1>4, <1>6, LandedIs
\* What is live there after it, what the plan then is, and that the state knows of it.
<1> DEFINE Sent ==
      /\ live'[e] = {} \/ \E f \in live'[e] :
             live'[e] = {f} /\ DOMAIN f = {"id", "of", "value"} /\ f.of = d
      /\ live'[e] # {} => st'.posted[e].of = d /\ st'.postedBy[d] = e
      /\ Tail(plan) = PlanFor(live'[e], e, d, w)
      /\ run.posting /\ Tail(plan) = <<>> => st'.posted[e].of = d
      /\ Len(Tail(plan)) \in Nat /\ Len(plan) = Len(Tail(plan)) + 1
<1>8. Sent
  <2>1. ASSUME NEW f, NextRevokes(f, w), tx = Revoke(e, f)
        PROVE  Sent
    <3>1. live[e] = {f} /\ Tail(plan) = PlanFor({}, e, d, w)
      BY <2>1 DEF NextRevokes, Only
    <3>2. tx.kind = "revoke" /\ tx.id = f.id
      BY <2>1 DEF Revoke
    <3>3. live'[e] = {}
      <4>1. live'[e] = {g \in live[e] : g.id # tx.id}
        BY <1>1, <1>3, <1>4, <1>6, <3>2, LandedIs
      <4> QED
        BY <3>1, <3>2, <4>1
    <3>4. run.posting => Tail(plan) # <<>>
      <4> SUFFICES ASSUME run.posting PROVE Tail(plan) # <<>>
        OBVIOUS
      <4>1. Only(w, v)
        BY <1>2 DEF PlannedScore
      <4>2. PlanFor({}, e, d, w) = <<Post(e, d, v)>>
        BY <4>1, PlanPosts
      <4> QED
        BY <3>1, <4>2, Shorts
    <3>5. Len(Tail(plan)) \in Nat /\ Len(plan) = Len(Tail(plan)) + 1
      BY <2>1 DEF NextRevokes
    <3> HIDE DEF e, d, plan
    <3> QED
      BY <3>1, <3>3, <3>4, <3>5
  <2>2. ASSUME tx = Post(e, d, v), NextPosts(w, v), st'.posted[e].of = d, Expects(st', tx)
        PROVE  Sent
    <3>1. tx.kind # "revoke" /\ tx.ext = e /\ tx.of = d /\ tx.value = v
      BY <2>2 DEF Post
    <3>2. PICK id : live'[e] = {[id |-> id, of |-> d, value |-> v]}
      <4>1. \E id : live'[e] = live[e] \cup {[id |-> id, of |-> tx.of, value |-> tx.value]}
        <5>1. tx.ext \in Exts
          BY <1>3, <3>1
        <5>2. \E id : Landed(tx)[tx.ext] =
                         live[tx.ext] \cup {[id |-> id, of |-> tx.of, value |-> tx.value]}
          BY <1>6, <3>1, <5>1, LandedIs
        <5> QED
          BY <1>1, <3>1, <5>2
      <4> QED
        BY <2>2, <3>1, <4>1 DEF NextPosts
    <3> DEFINE f == [id |-> id, of |-> d, value |-> v]
    <3>3. DOMAIN f = {"id", "of", "value"} /\ f.of = d /\ f.value = v
      OBVIOUS
    <3>4. st'.postedBy[d] = e
      BY <2>2, <3>1 DEF Expects
    <3>5. Tail(plan) = <<>> /\ Len(plan) = 1 /\ Only(w, v)
      BY <2>2 DEF NextPosts
    <3>6. Len(<<>>) = 0
      BY Shorts
    <3>7. PlanFor(live'[e], e, d, w) = <<>>
      <4> DEFINE fs == live'[e]
      <4>1. Only(fs, f) /\ Shows(f, v)
        BY <3>2, <3>3 DEF Only, Shows
      <4> HIDE DEF fs, f
      <4> QED
        BY <3>5, <4>1, PlanKeeps DEF fs
    <3>8. live'[e] = {f}
      BY <3>2
    <3> HIDE DEF f, e, d, plan
    <3> QED
      BY <2>2, <3>3, <3>4, <3>5, <3>6, <3>7, <3>8
  <2> QED
    BY <1>4, <2>1, <2>2
<1>9. run.sent \in Nat /\ run.sent + Len(plan) <= MaxTxsPerRun
  BY <1>1 DEF PublisherIInv, PublisherTypes, SendingIsSound
<1>10. run.sent + 1 \in Nat /\ run.sent + 1 <= MaxTxsPerRun
       /\ run.sent + 1 + Len(Tail(plan)) <= MaxTxsPerRun
  <2>1. Len(Tail(plan)) \in Nat /\ Len(plan) = Len(Tail(plan)) + 1
    BY <1>8
  <2> HIDE DEF plan
  <2> QED
    BY <1>9, <2>1, PublisherAssumption
<1> HIDE DEF Sent, plan, d, e
<1>11. PublisherTypes'
  <2>1. PublisherTypeOK'
    BY <1>1, <1>4, <1>5, <1>10 DEF PublisherIInv, PublisherTypes, PublisherTypeOK
  <2> QED
    BY <1>1, <1>5, <1>7, <1>10, <2>1 DEF PublisherIInv, PublisherTypes
<1>12. LiveIsSound'
  BY <1>7, <1>8 DEF PublisherIInv, LiveIsSound, Sent
<1>13. InFlightIsSound'
  BY <1>1, <1>3, <1>5 DEF PublisherIInv, InFlightIsSound
<1>14. StatesAreSound'
  <2>1. Knows(st, orphaned)'
    BY <1>1, <1>4, <1>7, <1>8 DEF Knows, Sent
  <2>2. Knows(disk, orphaned \cup run.touched)'
    BY <1>1, <1>5, <1>7 DEF PublisherIInv, StatesAreSound, Knows
  <2> QED
    BY <1>1, <1>4, <2>1, <2>2 DEF PublisherIInv, StatesAreSound
<1>15. ZeroesAreSound'
  BY <1>1, <1>4, <1>5 DEF PublisherIInv, ZeroesAreSound
<1>16. SendingIsSound'
  <2>1. run'.plan = PlanFor(live'[e], e, d, w)
    BY <1>5, <1>8 DEF Sent
  <2>2. CASE e = run.links[d]
    <3>1. w = {run.scores[d]}
      BY <1>2, <2>2 DEF PlannedScore, e, d
    <3>2. run'.plan = PlanFor(live'[e], e, d, {run'.scores[d]})
      BY <2>1, <3>1, <1>5
    <3> QED
      BY <1>3, <1>4, <1>5, <1>8, <1>10, <2>2, <3>2 DEF SendingIsSound, OnPlan, Sent
  <2>3. CASE e # run.links[d]
    <3>1. (w = {} /\ ~run.posting) \/ w = {0}
      BY <1>2, <2>3 DEF PlannedScore, e, d
    <3>2. \/ run'.plan = PlanFor(live'[e], e, d, {}) /\ ~run'.posting
          \/ run'.plan = PlanFor(live'[e], e, d, {0})
      BY <2>1, <3>1, <1>5
    <3>3. st'.posted[e].of = d /\ st'.postedBy[d] = e
      BY <1>3, <1>4, <2>3
    <3> QED
      BY <1>3, <1>5, <1>8, <1>10, <2>3, <3>2, <3>3 DEF SendingIsSound, OnPlan, Sent
  <2> QED
    BY <2>2, <2>3
<1> QED
  BY <1>11, <1>12, <1>13, <1>14, <1>15, <1>16 DEF PublisherIInv

\* With the plan through, the old 8004 agent shows nothing more of the agent but a 0.
LEMMA CleanedUp ==
    ASSUME PublisherIInv, run.phase = "sending", run.plan = <<>>, run.at # run.links[run.on],
           run.at \notin orphaned
    PROVE  \A f \in live[run.at] : f.of = run.on => f.value = 0
<1> DEFINE e == run.at  d == run.on  fs == live[e]
<1>1. e \in Exts
  BY DEF PublisherIInv, SendingIsSound
<1>2. OneAtMost(fs) /\ \A f \in fs : st.posted[e].of = f.of
  BY <1>1 DEF PublisherIInv, LiveIsSound, StatesAreSound, Knows, OneAtMost
<1>3. st.posted[e].of # d \/ OnPlan({}) \/ OnPlan({0})
  BY DEF PublisherIInv, SendingIsSound
<1>4. CASE st.posted[e].of # d
  BY <1>2, <1>4
<1>5. CASE OnPlan({})
  <2>1. PlanFor(fs, e, d, {}) = <<>>
    BY <1>5 DEF OnPlan
  <2> HIDE DEF fs, e, d
  <2>2. fs = {}
    BY <1>2, <2>1, DoneBare
  <2> QED
    BY <2>2 DEF fs, e
<1>6. CASE OnPlan({0})
  <2> DEFINE w == {0}
  <2>1. PlanFor(fs, e, d, w) = <<>> /\ Only(w, 0)
    BY <1>6 DEF OnPlan, Only
  <2> HIDE DEF fs, e, d, w
  <2>2. ShowsOnly(fs, 0)
    BY <1>2, <2>1, DoneShown
  <2> QED
    BY <2>2 DEF fs, e, ShowsOnly, Only, Shows
<1> QED
  BY <1>3, <1>4, <1>5, <1>6

\* With the plan through, the 8004 agent linked shows the score the run read.
LEMMA PostedRight ==
    ASSUME PublisherIInv, run.phase = "sending", run.plan = <<>>, run.at = run.links[run.on]
    PROVE  ShowsOnly(live[run.at], run.scores[run.on])
<1> DEFINE e == run.at  d == run.on  fs == live[e]  v == run.scores[d]  w == {v}
<1>1. OneAtMost(fs)
  BY DEF PublisherIInv, LiveIsSound, SendingIsSound, OneAtMost
<1>2. PlanFor(fs, e, d, w) = <<>> /\ Only(w, v)
  BY DEF PublisherIInv, SendingIsSound, OnPlan, Only
<1> HIDE DEF fs, e, d, v, w
<1>3. ShowsOnly(fs, v)
  BY <1>1, <1>2, DoneShown
<1> QED
  BY <1>3 DEF fs, e, d, v

\* An agent's turn at an 8004 agent is over: what the publisher's state then has to be.
LEMMA TurnOver ==
    ASSUME PublisherIInv, run.phase = "sending", run.plan = <<>>,
           UNCHANGED <<chainVars, live, inFlight, events, disk, orphaned>>,
           run'.phase = "agents", run'.sending = run.sending, run'.touched = run.touched,
           run'.todo \subseteq run.todo, run'.scores = run.scores, run'.sent = run.sent,
           run'.posting = FALSE, run'.midnight = run.midnight, DOMAIN run' = DOMAIN run,
           st' \in PublisherState, Knows(st', orphaned),
           \A x \in Agents : st'.pending[x] \in {st.pending[x], "no"},
           \A x \in Agents : st'.postedBy[x] \notin Withheld
    PROVE  PublisherIInv'
<1> USE DEF chainVars
<1>1. PublisherTypes'
  <2>1. PublisherTypeOK'
    BY DEF PublisherIInv, PublisherTypes, PublisherTypeOK
  <2> QED
    BY <2>1 DEF PublisherIInv, PublisherTypes
<1>2. LiveIsSound'
  BY DEF PublisherIInv, LiveIsSound
<1>3. InFlightIsSound'
  BY DEF PublisherIInv, InFlightIsSound
<1>4. StatesAreSound'
  BY DEF PublisherIInv, StatesAreSound, Knows
<1>5. ZeroesAreSound'
  BY DEF PublisherIInv, ZeroesAreSound
<1>6. SendingIsSound'
  BY DEF SendingIsSound
<1> QED
  BY <1>1, <1>2, <1>3, <1>4, <1>5, <1>6 DEF PublisherIInv

\* What is written down once a plan is through leaves what is known of each 8004 agent.
FitsEntry(state, e, entry) ==
    entry \in [of : Agents \cup {None}, today : BOOLEAN] /\ entry.of = state.posted[e].of

Written(state, new, d, kind, to) ==
    /\ new \in PublisherState
    /\ new.pending = [state.pending EXCEPT ![d] = kind]
    /\ new.postedBy = [state.postedBy EXCEPT ![d] = to]
    /\ \A x \in Exts : new.posted[x].of = state.posted[x].of

LEMMA WrittenDown ==
    ASSUME NEW state \in PublisherState, NEW d \in Agents, NEW e \in Exts,
           NEW to \in Exts \cup {None}, NEW kind \in Kinds, NEW entry, FitsEntry(state, e, entry),
           NEW new,
           new = [state EXCEPT !.pending[d] = kind, !.postedBy[d] = to, !.posted[e] = entry]
    PROVE  Written(state, new, d, kind, to)
<1> DEFINE why == [state.pending EXCEPT ![d] = kind]
           by == [state.postedBy EXCEPT ![d] = to]
           shows == [state.posted EXCEPT ![e] = entry]
<1>1. why \in [Agents -> Kinds] /\ by \in [Agents -> Exts \cup {None}]
  BY DEF PublisherState
<1>2. shows \in [Exts -> [of : Agents \cup {None}, today : BOOLEAN]]
  BY DEF PublisherState, FitsEntry
<1>3. \A x \in Exts : shows[x].of = state.posted[x].of
  BY DEF PublisherState, FitsEntry
<1>4. new = [state EXCEPT !.pending = why, !.postedBy = by, !.posted = shows]
  BY DEF PublisherState
<1> HIDE DEF why, by, shows
<1>5. new \in PublisherState /\ new.pending = why /\ new.postedBy = by /\ new.posted = shows
  BY <1>1, <1>2, <1>4 DEF PublisherState
<1> QED
  BY <1>3, <1>5 DEF why, by, Written

\* The entry of an 8004 agent after a plan there.
LEMMA EntryIs ==
    ASSUME PublisherIInv, run.phase = "sending", run.plan = <<>>
    PROVE  LET entry == IF run.posting THEN [of |-> run.on, today |-> ~run.midnight]
                        ELSE st.posted[run.at]
           IN  /\ run.on \in Agents /\ run.at \in Exts \ Withheld /\ st \in PublisherState
               /\ entry \in [of : Agents \cup {None}, today : BOOLEAN]
               /\ entry.of = st.posted[run.at].of
<1>1. run.on \in run.todo /\ run.at \in Exts \ Withheld
  BY DEF PublisherIInv, SendingIsSound
<1>2. run.on \in Agents /\ st \in PublisherState
  BY <1>1 DEF PublisherIInv, PublisherTypes, PublisherTypeOK
<1>3. st.posted[run.at] \in [of : Agents \cup {None}, today : BOOLEAN]
  BY <1>1, <1>2 DEF PublisherState
<1>4. run.posting => st.posted[run.at].of = run.on
  BY DEF PublisherIInv, SendingIsSound
<1>5. PICK b \in BOOLEAN : b = ~run.midnight
  OBVIOUS
<1>6. [of |-> run.on, today |-> b] \in [of : Agents \cup {None}, today : BOOLEAN]
  BY <1>2
<1> QED
  BY <1>1, <1>2, <1>3, <1>4, <1>5, <1>6

LEMMA DoneCleaningIsSound ==
    ASSUME PublisherIInv, DoneCleaning
    PROVE  PublisherIInv'
<1> DEFINE e == run.at  d == run.on
           entry == IF run.posting THEN [of |-> d, today |-> ~run.midnight] ELSE st.posted[e]
<1>1. /\ run.phase = "sending" /\ run.plan = <<>> /\ e # run.links[d]
      /\ UNCHANGED <<chainVars, live, inFlight, events, newClaims, disk, orphaned, changes, faults>>
      /\ run' = [run EXCEPT !.phase = "agents", !.on = None, !.at = None, !.posting = FALSE,
                            !.spent = IF run.posting THEN @ \cup {run.at} ELSE @]
      /\ st' = [st EXCEPT !.postedBy[d] = None, !.posted[e] = entry]
  BY DEF DoneCleaning
<1>2. /\ d \in Agents /\ e \in Exts \ Withheld /\ st \in PublisherState
      /\ entry \in [of : Agents \cup {None}, today : BOOLEAN] /\ entry.of = st.posted[e].of
  BY <1>1, EntryIs
<1>3. /\ run'.phase = "agents" /\ run'.sending = run.sending /\ run'.touched = run.touched
      /\ run'.todo \subseteq run.todo /\ run'.scores = run.scores /\ run'.sent = run.sent
      /\ run'.posting = FALSE /\ run'.midnight = run.midnight /\ DOMAIN run' = DOMAIN run
  BY <1>1, IdleIs DEF PublisherIInv, PublisherTypes
<1> HIDE DEF entry, e, d
<1>4. st.pending \in [Agents -> Kinds] /\ st.postedBy \in [Agents -> Exts \cup {None}]
  BY <1>2 DEF PublisherState
<1>5. /\ st' \in PublisherState /\ st'.pending = st.pending
      /\ st'.postedBy = [st.postedBy EXCEPT ![d] = None]
      /\ \A x \in Exts : st'.posted[x].of = st.posted[x].of
  <2>1. st' = [st EXCEPT !.pending[d] = st.pending[d], !.postedBy[d] = None, !.posted[e] = entry]
    BY <1>1, <1>2, <1>4 DEF PublisherState
  <2>2. [st.pending EXCEPT ![d] = st.pending[d]] = st.pending
    BY <1>2, <1>4
  <2>3. st.pending[d] \in Kinds
    BY <1>2, <1>4
  <2>4. FitsEntry(st, e, entry)
    BY <1>2 DEF FitsEntry
  <2>5. Written(st, st', d, st.pending[d], None)
    <3> DEFINE kind == st.pending[d]
    <3>1. kind \in Kinds /\ None \in Exts \cup {None}
      BY <2>3
    <3> HIDE DEF kind
    <3>2. st' = [st EXCEPT !.pending[d] = kind, !.postedBy[d] = None, !.posted[e] = entry]
      BY <2>1 DEF kind
    <3>3. Written(st, st', d, kind, None)
      BY <1>2, <2>4, <3>1, <3>2, WrittenDown
    <3> QED
      BY <3>3 DEF kind
  <2> QED
    BY <2>2, <2>5 DEF Written
<1>6. st.postedBy[d] = e
  BY <1>1 DEF PublisherIInv, SendingIsSound, e, d
<1>7. Knows(st', orphaned)
  <2> SUFFICES ASSUME NEW x \in Exts \ orphaned, NEW h \in live[x]
               PROVE  st'.posted[x].of = h.of /\ (h.value # 0 => st'.postedBy[h.of] = x)
    BY DEF Knows
  <2>1. st.posted[x].of = h.of /\ (h.value # 0 => st.postedBy[h.of] = x)
    BY DEF PublisherIInv, StatesAreSound, Knows
  <2>2. h.value # 0 => h.of # d
    <3>1. CASE x # e
      BY <1>6, <2>1, <3>1
    <3>2. CASE x = e
      BY <1>1, <3>2, CleanedUp DEF e, d
    <3> QED
      BY <3>1, <3>2
  <2>3. h.of # d => st'.postedBy[h.of] = st.postedBy[h.of]
    BY <1>4, <1>5
  <2> QED
    BY <1>5, <2>1, <2>2, <2>3
<1>8. \A x \in Agents : st'.postedBy[x] \notin Withheld
  <2>1. \A x \in Agents : st'.postedBy[x] \in {st.postedBy[x], None}
    BY <1>2, <1>4, <1>5
  <2> QED
    BY <2>1, PublisherAssumption DEF PublisherIInv, StatesAreSound
<1>9. \A x \in Agents : st'.pending[x] \in {st.pending[x], "no"}
  BY <1>5
<1> QED
  BY <1>1, <1>3, <1>5, <1>7, <1>8, <1>9, TurnOver

LEMMA DonePostingIsSound ==
    ASSUME PublisherIInv, DonePosting
    PROVE  PublisherIInv'
<1> DEFINE e == run.at  d == run.on
           entry == IF run.posting THEN [of |-> d, today |-> ~run.midnight] ELSE st.posted[e]
           to == IF run.posting THEN e ELSE st.postedBy[d]
<1>1. /\ run.phase = "sending" /\ run.plan = <<>> /\ e = run.links[d]
      /\ UNCHANGED <<chainVars, live, inFlight, events, newClaims, disk, orphaned, changes, faults>>
      /\ run' = [run EXCEPT !.phase = "agents", !.todo = @ \ {d}, !.on = None, !.at = None,
                            !.posting = FALSE,
                            !.spent = IF run.posting THEN @ \cup {run.at} ELSE @]
      /\ st' = IF run.posting
               THEN [st EXCEPT !.pending[d] = "no", !.postedBy[d] = e,
                               !.posted[e] = [of |-> d, today |-> ~run.midnight]]
               ELSE [st EXCEPT !.pending[d] = "no"]
  BY DEF DonePosting
<1>2. /\ d \in Agents /\ e \in Exts \ Withheld /\ st \in PublisherState
      /\ entry \in [of : Agents \cup {None}, today : BOOLEAN] /\ entry.of = st.posted[e].of
  BY <1>1, EntryIs
<1>3. /\ run'.phase = "agents" /\ run'.sending = run.sending /\ run'.touched = run.touched
      /\ run'.todo \subseteq run.todo /\ run'.scores = run.scores /\ run'.sent = run.sent
      /\ run'.posting = FALSE /\ run'.midnight = run.midnight /\ DOMAIN run' = DOMAIN run
  BY <1>1, IdleIs DEF PublisherIInv, PublisherTypes
<1>4. /\ st.pending \in [Agents -> Kinds] /\ st.postedBy \in [Agents -> Exts \cup {None}]
      /\ "no" \in Kinds
  BY <1>2 DEF PublisherState, Kinds
<1>5. /\ st' \in PublisherState /\ st'.pending = [st.pending EXCEPT ![d] = "no"]
      /\ st'.postedBy = [st.postedBy EXCEPT ![d] = to]
      /\ \A x \in Exts : st'.posted[x].of = st.posted[x].of
  <2>1. CASE run.posting
    <3>1. st' = [st EXCEPT !.pending[d] = "no", !.postedBy[d] = to, !.posted[e] = entry]
      BY <1>1, <2>1
    <3>2. to \in Exts \cup {None}
      BY <1>2, <2>1
    <3> HIDE DEF entry, to, e, d
    <3>3. FitsEntry(st, e, entry)
      BY <1>2 DEF FitsEntry
    <3>4. Written(st, st', d, "no", to)
      BY <1>2, <1>4, <3>1, <3>2, <3>3, WrittenDown
    <3> QED
      BY <3>4 DEF Written
  <2>2. CASE ~run.posting
    <3>1. st' = [st EXCEPT !.pending[d] = "no"]
      BY <1>1, <2>2
    <3>2. [st.postedBy EXCEPT ![d] = to] = st.postedBy
      BY <1>2, <1>4, <2>2
    <3> HIDE DEF entry, to, e, d
    <3>3. /\ st' \in PublisherState /\ st'.pending = [st.pending EXCEPT ![d] = "no"]
          /\ st'.postedBy = st.postedBy /\ st'.posted = st.posted
      BY <1>2, <1>4, <3>1, PendingEnds
    <3> QED
      BY <3>2, <3>3
  <2> QED
    BY <2>1, <2>2
<1> HIDE DEF entry, e, d
<1>6. st.postedBy[d] \in {None, e}
  BY <1>1 DEF PublisherIInv, SendingIsSound, e, d
<1>7. to \in {st.postedBy[d], e}
  OBVIOUS
<1> HIDE DEF to
<1>8. Knows(st', orphaned)
  <2> SUFFICES ASSUME NEW x \in Exts \ orphaned, NEW h \in live[x]
               PROVE  st'.posted[x].of = h.of /\ (h.value # 0 => st'.postedBy[h.of] = x)
    BY DEF Knows
  <2>1. st.posted[x].of = h.of /\ (h.value # 0 => st.postedBy[h.of] = x)
    BY DEF PublisherIInv, StatesAreSound, Knows
  <2>2. h.value # 0 /\ h.of = d => x = e /\ to = e
    BY <1>6, <1>7, <2>1, PublisherAssumption
  <2>3. h.of # d => st'.postedBy[h.of] = st.postedBy[h.of]
    BY <1>4, <1>5
  <2>4. st'.postedBy[d] = to
    BY <1>2, <1>4, <1>5
  <2> QED
    BY <1>5, <2>1, <2>2, <2>3, <2>4
<1>9. \A x \in Agents : st'.postedBy[x] \notin Withheld
  <2>1. \A x \in Agents : st'.postedBy[x] \in {st.postedBy[x], e}
    BY <1>2, <1>4, <1>5, <1>7
  <2> QED
    BY <1>2, <2>1 DEF PublisherIInv, StatesAreSound
<1>10. \A x \in Agents : st'.pending[x] \in {st.pending[x], "no"}
  BY <1>2, <1>4, <1>5
<1> QED
  BY <1>1, <1>3, <1>5, <1>8, <1>9, <1>10, TurnOver

------------------------------------------------------------------------------
(* Around the runs.                                                        *)

LEMMA SettlesIsSound ==
    ASSUME PublisherIInv, NEW tx \in inFlight, Settles(tx)
    PROVE  PublisherIInv'
<1> DEFINE e == tx.ext
<1> USE DEF chainVars
<1>1. /\ inFlight' = inFlight \ {tx} /\ (live' = Landed(tx) \/ live' = live)
      /\ UNCHANGED <<chainVars, events, newClaims, st, disk, run, orphaned, changes, faults>>
  BY DEF Settles
<1>2. inFlight' = {}
  BY <1>1 DEF PublisherIInv, InFlightIsSound
<1>3. e \in Exts /\ (tx.kind # "revoke" => live[e] = {} /\ Expects(st, tx) /\ Expects(disk, tx))
  BY DEF PublisherIInv, InFlightIsSound
<1>4. run.phase # "sending" /\ DOMAIN live = Exts
  BY DEF PublisherIInv, InFlightIsSound, PublisherTypes
<1>5. DOMAIN live' = Exts /\ \A x \in Exts : x # e => live'[x] = live[x]
  BY <1>1, <1>3, <1>4, LandedIs
<1>6. \/ live'[e] \subseteq live[e] /\ (live'[e] = {} \/ live'[e] = live[e])
      \/ /\ tx.kind # "revoke"
         /\ \E f \in live'[e] : live'[e] = {f} /\ DOMAIN f = {"id", "of", "value"} /\ f.of = tx.of
  <2>1. CASE live' = live
    BY <2>1
  <2>2. CASE live' = Landed(tx) /\ tx.kind = "revoke"
    <3>1. live'[e] = {f \in live[e] : f.id # tx.id}
      BY <1>3, <1>4, <2>2, LandedIs
    <3>2. live[e] = {} \/ \E f \in live[e] : live[e] = {f}
      BY <1>3 DEF PublisherIInv, LiveIsSound
    <3> QED
      BY <3>1, <3>2
  <2>3. CASE live' = Landed(tx) /\ tx.kind # "revoke"
    <3>1. \E id : Landed(tx)[tx.ext] =
                     live[tx.ext] \cup {[id |-> id, of |-> tx.of, value |-> tx.value]}
      BY <1>3, <1>4, <2>3, LandedIs
    <3>2. PICK id : live'[e] = {[id |-> id, of |-> tx.of, value |-> tx.value]}
      BY <1>3, <2>3, <3>1
    <3> DEFINE f == [id |-> id, of |-> tx.of, value |-> tx.value]
    <3>3. f.of = tx.of /\ DOMAIN f = {"id", "of", "value"} /\ live'[e] = {f}
      BY <3>2
    <3> HIDE DEF f
    <3> QED
      BY <2>3, <3>3
  <2> QED
    BY <1>1, <2>1, <2>2, <2>3
<1> HIDE DEF e
<1>7. PublisherTypes'
  <2>1. PublisherTypeOK'
    BY <1>1 DEF PublisherIInv, PublisherTypes, PublisherTypeOK
  <2> QED
    BY <1>1, <1>5, <2>1 DEF PublisherIInv, PublisherTypes
<1>8. LiveIsSound'
  BY <1>5, <1>6 DEF PublisherIInv, LiveIsSound
<1>9. InFlightIsSound'
  BY <1>1, <1>2, <1>4 DEF InFlightIsSound
<1>10. StatesAreSound'
  <2>1. Knows(st, orphaned) /\ Knows(disk, orphaned \cup run.touched)
        /\ \A d \in Agents : st.postedBy[d] \notin Withheld /\ disk.postedBy[d] \notin Withheld
    BY DEF PublisherIInv, StatesAreSound
  <2>2. ASSUME NEW state, NEW lost, Knows(state, lost), tx.kind # "revoke" => Expects(state, tx)
        PROVE  \A x \in Exts \ lost : \A f \in live'[x] :
                  state.posted[x].of = f.of /\ (f.value # 0 => state.postedBy[f.of] = x)
    BY <1>5, <1>6, <2>2 DEF Knows, Expects, e
  <2> DEFINE lost == orphaned \cup run.touched
             Holds(state, gone) ==
                \A x \in Exts \ gone : \A f \in live'[x] :
                   state.posted[x].of = f.of /\ (f.value # 0 => state.postedBy[f.of] = x)
  <2>3. Holds(st, orphaned) /\ Holds(disk, lost)
    BY <1>3, <2>1, <2>2
  <2>4. lost' = lost /\ orphaned' = orphaned /\ st' = st /\ disk' = disk
    BY <1>1
  <2>5. Knows(st, orphaned)'
    BY <2>3, <2>4 DEF Knows
  <2>6. Knows(disk, lost)'
    <3> SUFFICES \A x \in Exts \ lost' : \A f \in live'[x] :
                    /\ disk'.posted[x].of = f.of
                    /\ f.value # 0 => disk'.postedBy[f.of] = x
      BY DEF Knows
    <3> HIDE DEF lost
    <3> QED
      BY <2>3, <2>4
  <2> QED
    BY <1>1, <2>1, <2>5, <2>6 DEF StatesAreSound
<1>11. ZeroesAreSound'
  BY <1>1 DEF PublisherIInv, ZeroesAreSound
<1>12. SendingIsSound'
  BY <1>1, <1>4 DEF SendingIsSound
<1> QED
  BY <1>7, <1>8, <1>9, <1>10, <1>11, <1>12 DEF PublisherIInv

LEMMA CrashIsSound == ASSUME PublisherIInv, Crash PROVE PublisherIInv'
<1> USE DEF Crash, chainVars
<1>1. run'.phase = "idle" /\ run'.sending = FALSE /\ run'.touched = {} /\ run' = Idle
  BY IdleIs
<1>2. PublisherTypes'
  <2>1. run'.sent = 0 /\ run'.sent <= MaxTxsPerRun
    BY IdleIs, PublisherAssumption
  <2>2. PublisherTypeOK'
    BY <1>1, <2>1 DEF PublisherIInv, PublisherTypes, PublisherTypeOK
  <2> QED
    BY <1>1, <2>1, <2>2, IdleIs DEF PublisherIInv, PublisherTypes
<1>3. LiveIsSound'
  BY DEF PublisherIInv, LiveIsSound
<1>4. InFlightIsSound'
  BY <1>1 DEF PublisherIInv, InFlightIsSound, Expects
<1>5. StatesAreSound'
  BY <1>1 DEF PublisherIInv, StatesAreSound, Knows
<1>6. ZeroesAreSound'
  BY <1>1 DEF PublisherIInv, ZeroesAreSound
<1>7. SendingIsSound'
  BY <1>1 DEF SendingIsSound
<1> QED
  BY <1>2, <1>3, <1>4, <1>5, <1>6, <1>7 DEF PublisherIInv

\* What a new day does to a state of the publisher.
LEMMA TomorrowIs ==
    ASSUME NEW state \in PublisherState, NEW new,
           new = [state EXCEPT !.refreshed = FALSE,
                               !.posted = [e \in Exts |-> [@[e] EXCEPT !.today = FALSE]]]
    PROVE  /\ new \in PublisherState /\ new.pending = state.pending
           /\ new.postedBy = state.postedBy
           /\ \A e \in Exts : new.posted[e].of = state.posted[e].of
<1> DEFINE shows == [e \in Exts |-> [state.posted[e] EXCEPT !.today = FALSE]]
<1>1. \A e \in Exts : state.posted[e] \in [of : Agents \cup {None}, today : BOOLEAN]
  BY DEF PublisherState
<1>2. \A e \in Exts : [state.posted[e] EXCEPT !.today = FALSE]
                         \in [of : Agents \cup {None}, today : BOOLEAN]
  BY <1>1
<1>3. /\ shows \in [Exts -> [of : Agents \cup {None}, today : BOOLEAN]]
      /\ \A e \in Exts : shows[e].of = state.posted[e].of
  BY <1>1, <1>2
<1>4. new = [state EXCEPT !.refreshed = FALSE, !.posted = shows]
  OBVIOUS
<1> HIDE DEF shows
<1>5. new \in PublisherState /\ new.pending = state.pending /\ new.postedBy = state.postedBy
      /\ new.posted = shows
  BY <1>3, <1>4 DEF PublisherState
<1> QED
  BY <1>3, <1>5

LEMMA NewDayIsSound == ASSUME PublisherIInv, NewDay PROVE PublisherIInv'
<1> USE DEF chainVars
<1>1. UNCHANGED <<chainVars, live, inFlight, events, newClaims, orphaned, changes, faults>>
  BY DEF NewDay
<1>2. /\ st' \in PublisherState /\ st'.pending = st.pending /\ st'.postedBy = st.postedBy
      /\ \A e \in Exts : st'.posted[e].of = st.posted[e].of
  <2>1. st \in PublisherState
    BY DEF PublisherIInv, PublisherTypes, PublisherTypeOK
  <2> QED
    BY <2>1, TomorrowIs DEF NewDay
<1>3. /\ disk' \in PublisherState /\ disk'.pending = disk.pending
      /\ disk'.postedBy = disk.postedBy
      /\ \A e \in Exts : disk'.posted[e].of = disk.posted[e].of
  <2>1. disk \in PublisherState
    BY DEF PublisherIInv, PublisherTypes, PublisherTypeOK
  <2> QED
    BY <2>1, TomorrowIs DEF NewDay
<1>4. /\ run'.phase = run.phase /\ run'.sending = run.sending /\ run'.touched = run.touched
      /\ run'.todo = run.todo /\ run'.scores = run.scores /\ run'.sent = run.sent
      /\ run'.posting = run.posting /\ run'.midnight \in BOOLEAN /\ DOMAIN run' = DOMAIN run
      /\ run'.on = run.on /\ run'.at = run.at /\ run'.plan = run.plan /\ run'.links = run.links
      /\ run.phase = "idle" => run' = run
  <2>1. DOMAIN run = {"phase", "links", "scores", "todo", "on", "at", "plan", "posting", "sent",
                      "spent", "sending", "midnight", "touched"}
    BY IdleIs DEF PublisherIInv, PublisherTypes
  <2>2. run.midnight \in BOOLEAN
    BY DEF PublisherIInv, PublisherTypes
  <2>3. run' = run \/ run' = [run EXCEPT !.midnight = TRUE]
    BY DEF NewDay
  <2>4. run.phase = "idle" => run' = run
    BY DEF NewDay
  <2>5. CASE run' = run
    BY <2>2, <2>4, <2>5
  <2>6. CASE run' = [run EXCEPT !.midnight = TRUE]
    BY <2>1, <2>4, <2>6
  <2> QED
    BY <2>3, <2>5, <2>6
<1>5. PublisherTypes'
  <2>1. PublisherTypeOK'
    BY <1>1, <1>2, <1>3, <1>4 DEF PublisherIInv, PublisherTypes, PublisherTypeOK
  <2> QED
    BY <1>1, <1>4, <2>1 DEF PublisherIInv, PublisherTypes
<1>6. LiveIsSound'
  BY <1>1 DEF PublisherIInv, LiveIsSound
<1>7. InFlightIsSound'
  BY <1>1, <1>2, <1>3, <1>4 DEF PublisherIInv, InFlightIsSound, Expects
<1>8. StatesAreSound'
  BY <1>1, <1>2, <1>3, <1>4 DEF PublisherIInv, StatesAreSound, Knows
<1>9. ZeroesAreSound'
  BY <1>1, <1>2, <1>3, <1>4 DEF PublisherIInv, ZeroesAreSound
<1>10. SendingIsSound'
  BY <1>1, <1>2, <1>4 DEF PublisherIInv, SendingIsSound, OnPlan
<1> QED
  BY <1>5, <1>6, <1>7, <1>8, <1>9, <1>10 DEF PublisherIInv

LEMMA WorldIsSound == ASSUME PublisherIInv, WorldMoves PROVE PublisherIInv'
<1> DEFINE WorldMoved ==
      /\ names' \in [Exts -> Agents \cup {None}]
      /\ score' \in [Agents -> Scores] /\ slashed' \subseteq Agents
      /\ events' \in [Agents -> Kinds]
      /\ \A d \in slashed : d \in slashed'
      /\ \A d \in Agents : events'[d] = "zeroed" => d \in slashed'
      /\ \A d \in slashed' : score'[d] = 0
<1>1. UNCHANGED <<live, inFlight, st, disk, run, orphaned>>
  BY DEF WorldMoves, Links, Unlinks, Scored, Zeroed, Changes
<1>2. /\ names \in [Exts -> Agents \cup {None}] /\ score \in [Agents -> Scores]
      /\ slashed \subseteq Agents /\ events \in [Agents -> Kinds]
      /\ \A d \in Agents : events[d] = "zeroed" => d \in slashed
      /\ \A d \in slashed : score[d] = 0
  BY DEF PublisherIInv, PublisherTypes, PublisherTypeOK, ZeroesAreSound
<1>3. WorldMoved
  <2>1. ASSUME NEW e \in Exts, NEW d \in Agents, Links(e, d) PROVE WorldMoved
    BY <1>2, <2>1 DEF Links
  <2>2. ASSUME NEW e \in Exts, Unlinks(e) PROVE WorldMoved
    BY <1>2, <2>2 DEF Unlinks
  <2>3. ASSUME NEW d \in Agents, Zeroed(d) PROVE WorldMoved
    BY <1>2, <2>3, PublisherAssumption DEF Zeroed, Kinds
  <2>4. ASSUME NEW d \in Agents, NEW v \in Scores, NEW announced \in BOOLEAN,
               Scored(d, v, announced)
        PROVE  WorldMoved
    BY <1>2, <2>4 DEF Scored, Kinds
  <2> QED
    BY <2>1, <2>2, <2>3, <2>4 DEF WorldMoves
<1>4. PublisherTypes'
  <2>1. PublisherTypeOK'
    BY <1>1, <1>3 DEF PublisherIInv, PublisherTypes, PublisherTypeOK
  <2> QED
    BY <1>1, <1>3, <2>1 DEF PublisherIInv, PublisherTypes
<1>5. LiveIsSound' /\ InFlightIsSound' /\ StatesAreSound' /\ SendingIsSound'
  BY <1>1 DEF PublisherIInv, LiveIsSound, InFlightIsSound, Expects, StatesAreSound, Knows,
              SendingIsSound, OnPlan
<1>6. ZeroesAreSound'
  BY <1>1, <1>3 DEF PublisherIInv, ZeroesAreSound
<1> QED
  BY <1>4, <1>5, <1>6 DEF PublisherIInv

------------------------------------------------------------------------------
(* The start of a run.                                                     *)

LEMMA PendingAfterIs ==
    ASSUME NEW state \in PublisherState, events \in [Agents -> Kinds], state = st, NEW handed
    PROVE  LET new == PendingAfter(handed) IN
           /\ new \in PublisherState /\ new.postedBy = st.postedBy /\ new.posted = st.posted
           /\ \A d \in Agents : new.pending[d] = "zeroed" => "zeroed" \in {events[d], st.pending[d]}
<1> DEFINE tracked == st.tracked \cup {d \in Agents : events[d] # "no"}
           linked == {d \in handed \cap st.tracked : st.postedBy[d] = None}
           why == [d \in Agents |->
                      IF events[d] # "no" THEN events[d]
                      ELSE IF st.pending[d] # "no" THEN st.pending[d]
                      ELSE IF d \in linked \/ (~st.refreshed /\ d \in tracked) THEN "other"
                      ELSE "no"]
<1>1. PendingAfter(handed) = [st EXCEPT !.tracked = tracked, !.refreshed = TRUE, !.pending = why]
  BY DEF PendingAfter
<1>2. st.pending \in [Agents -> Kinds] /\ st.tracked \subseteq Agents
  BY DEF PublisherState
<1>3. \A d \in Agents : why[d] = "zeroed" => "zeroed" \in {events[d], st.pending[d]}
  OBVIOUS
<1>4. \A d \in Agents : why[d] \in Kinds
  BY <1>2 DEF Kinds
<1>5. why \in [Agents -> Kinds] /\ tracked \subseteq Agents
  BY <1>2, <1>4
<1> HIDE DEF why, tracked
<1> QED
  BY <1>1, <1>3, <1>5 DEF PublisherState

\* What a read leaves, whatever the run is then.
LEMMA ReadsIs ==
    ASSUME PublisherIInv, NEW handed, Reads(handed)
    PROVE  /\ st' \in PublisherState /\ disk' = st' /\ st' = PendingAfter(handed)
           /\ Knows(st', orphaned) /\ run = Idle
           /\ \A d \in Agents : st'.postedBy[d] \notin Withheld
           /\ \A d \in Agents : st'.pending[d] = "zeroed" => d \in slashed
           /\ \A d \in Agents : events'[d] = "no"
           /\ events' \in [Agents -> Kinds]
           /\ \A tx \in inFlight :
                 /\ tx.ext \in Exts
                 /\ tx.kind # "revoke" => live[tx.ext] = {} /\ Expects(st', tx)
<1>1. st \in PublisherState /\ events \in [Agents -> Kinds] /\ run = Idle
  BY DEF Reads, PublisherIInv, PublisherTypes, PublisherTypeOK
<1>2. /\ st' \in PublisherState /\ st'.postedBy = st.postedBy /\ st'.posted = st.posted
      /\ \A d \in Agents : st'.pending[d] = "zeroed" => "zeroed" \in {events[d], st.pending[d]}
  BY <1>1, PendingAfterIs DEF Reads
<1>3. events' \in [Agents -> Kinds] /\ \A d \in Agents : events'[d] = "no"
  BY DEF Reads, Kinds
<1>4. Knows(st', orphaned) /\ \A d \in Agents : st'.postedBy[d] \notin Withheld
  BY <1>2 DEF PublisherIInv, StatesAreSound, Knows
<1>5. \A d \in Agents : st'.pending[d] = "zeroed" => d \in slashed
  BY <1>2 DEF PublisherIInv, ZeroesAreSound
<1>6. \A tx \in inFlight :
         /\ tx.ext \in Exts
         /\ tx.kind # "revoke" => live[tx.ext] = {} /\ Expects(st', tx)
  BY <1>2 DEF PublisherIInv, InFlightIsSound, Expects
<1> QED
  BY <1>1, <1>2, <1>3, <1>4, <1>5, <1>6 DEF Reads

LEMMA StartIsSound ==
    ASSUME PublisherIInv, NEW handed, Reads(handed), DOMAIN run' = DOMAIN Idle,
           run'.phase \in {"idle", "agents"}, run'.phase = "idle" => run' = Idle,
           run'.todo \subseteq Agents, run'.scores \in [Agents -> Scores], run'.sent = 0,
           {run'.posting, run'.midnight} \subseteq BOOLEAN, run'.touched = {},
           run'.sending => inFlight = {}, run'.phase = "agents" => run'.scores = score
    PROVE  PublisherIInv'
<1> USE DEF chainVars
<1>1. UNCHANGED <<chainVars, live, inFlight, orphaned, changes>>
  BY DEF Reads
<1>2. /\ st' \in PublisherState /\ disk' = st'
      /\ Knows(st', orphaned) /\ run = Idle
      /\ \A d \in Agents : st'.postedBy[d] \notin Withheld
      /\ \A d \in Agents : st'.pending[d] = "zeroed" => d \in slashed
      /\ \A d \in Agents : events'[d] = "no"
      /\ events' \in [Agents -> Kinds]
      /\ \A tx \in inFlight :
            tx.ext \in Exts /\ (tx.kind # "revoke" => live[tx.ext] = {} /\ Expects(st', tx))
  BY ReadsIs
<1>3. PublisherTypes'
  <2>1. run'.sent <= MaxTxsPerRun
    BY PublisherAssumption
  <2>2. PublisherTypeOK'
    BY <1>1, <1>2, <2>1 DEF PublisherIInv, PublisherTypes, PublisherTypeOK
  <2> QED
    BY <1>1, <1>2, <2>2 DEF PublisherIInv, PublisherTypes
<1>4. LiveIsSound'
  BY <1>1 DEF PublisherIInv, LiveIsSound
<1>5. InFlightIsSound'
  BY <1>1, <1>2 DEF PublisherIInv, InFlightIsSound, Expects
<1>6. StatesAreSound'
  BY <1>1, <1>2 DEF StatesAreSound, Knows
<1>7. ZeroesAreSound'
  BY <1>1, <1>2 DEF PublisherIInv, ZeroesAreSound
<1>8. SendingIsSound'
  BY DEF SendingIsSound
<1> QED
  BY <1>3, <1>4, <1>5, <1>6, <1>7, <1>8 DEF PublisherIInv

LEMMA StartRunIsSound == ASSUME PublisherIInv, StartRun PROVE PublisherIInv'
<1> DEFINE linkOf == [d \in Agents |-> LinkOf(d)]
           todo == {d \in Agents : PendingAfter(newClaims).pending[d] # "no"}
           spent == {e \in Exts : st.posted[e].today}
<1>1. PICK passes \in BOOLEAN :
         run' = [Idle EXCEPT !.phase = "agents", !.sending = passes /\ NothingPending,
                             !.links = linkOf, !.scores = score, !.todo = todo, !.spent = spent]
  BY DEF StartRun
<1>2. todo \subseteq Agents /\ Reads(newClaims)
  BY DEF StartRun
<1>3. score \in [Agents -> Scores]
  BY DEF PublisherIInv, PublisherTypes, PublisherTypeOK
<1> DEFINE sending == passes /\ NothingPending
<1> HIDE DEF linkOf, todo, spent, sending
<1>4. run' = [Idle EXCEPT !.phase = "agents", !.sending = sending,
                          !.links = linkOf, !.scores = score, !.todo = todo, !.spent = spent]
  BY <1>1 DEF sending
<1>5. /\ DOMAIN run' = DOMAIN Idle /\ run'.phase = "agents" /\ run'.todo = todo
      /\ run'.scores = score /\ run'.sent = 0 /\ run'.touched = {} /\ run'.sending = sending
      /\ run'.posting = Idle.posting /\ run'.midnight = Idle.midnight
  BY <1>4, IdleIs
<1>6. sending => inFlight = {}
  BY DEF sending, NothingPending
<1> QED
  BY <1>2, <1>3, <1>5, <1>6, IdleIs, StartIsSound

LEMMA ScanFallsIsSound == ASSUME PublisherIInv, ScanFalls PROVE PublisherIInv'
<1>1. PICK handed \in SUBSET newClaims : Reads(handed)
  BY DEF ScanFalls
<1>2. run' = Idle
  BY DEF ScanFalls, Reads, PublisherIInv, PublisherTypes
<1> QED
  BY <1>1, <1>2, IdleIs, StartIsSound

LEMMA FinishIsSound == ASSUME PublisherIInv, FinishRun PROVE PublisherIInv'
<1>1. /\ EndRun /\ st' = st
      /\ UNCHANGED <<chainVars, live, inFlight, events, newClaims, orphaned, changes, faults>>
  BY DEF FinishRun
<1>2. /\ st \in PublisherState /\ Knows(st, orphaned)
      /\ \A d \in Agents : st.postedBy[d] \notin Withheld
  BY DEF PublisherIInv, PublisherTypes, PublisherTypeOK, StatesAreSound
<1>3. Knows(st', orphaned)
  BY <1>1, <1>2
<1>4. /\ \A tx, ty \in inFlight' : tx = ty
      /\ \A tx \in inFlight' :
            tx.ext \in Exts /\ (tx.kind # "revoke" => live[tx.ext] = {} /\ Expects(st', tx))
  BY <1>1 DEF PublisherIInv, InFlightIsSound
<1> QED
  BY <1>1, <1>2, <1>3, <1>4, EndIsSound

LEMMA StutterIsSound == ASSUME PublisherIInv, UNCHANGED publisherVars PROVE PublisherIInv'
  BY DEF publisherVars, chainVars, PublisherIInv, PublisherTypes, PublisherTypeOK, LiveIsSound,
         InFlightIsSound, Expects, StatesAreSound, Knows, ZeroesAreSound, SendingIsSound, OnPlan

LEMMA PublisherStep == PublisherIInv /\ [PublisherNext]_publisherVars => PublisherIInv'
<1> SUFFICES ASSUME PublisherIInv, [PublisherNext]_publisherVars PROVE PublisherIInv'
  OBVIOUS
<1>1. CASE PublisherWorks
  <2>1. ASSUME NEW d \in Agents, SkipsUnlinked(d) \/ PutsOff(d) \/ WouldSend(d)
        PROVE  PublisherIInv'
    <3>1. /\ At(d) /\ Leaves(d) /\ (st' = st \/ Drops(d)) /\ UNCHANGED <<live, disk>>
      BY <2>1 DEF SkipsUnlinked, PutsOff, WouldSend, AtNew
    <3> QED
      BY <3>1, LeavesIsSound
  <2>2. ASSUME run.phase = "sending", run.plan # <<>>, SendConfirms(Head(run.plan))
        PROVE  PublisherIInv'
    BY <2>2, SendConfirmsIsSound
  <2> QED
    BY <1>1, <2>1, <2>2, StartRunIsSound, FinishIsSound, DoneCleaningIsSound, DonePostingIsSound,
       CleansUpIsSound, FindsUnchangedIsSound, UpdatesIsSound
    DEF PublisherWorks
<1>2. CASE PublisherFails
  <2>1. ASSUME NEW d \in Agents, ReadFails(d) PROVE PublisherIInv'
    <3>1. At(d) /\ Leaves(d) /\ st' = st /\ UNCHANGED <<live, disk>>
      BY <2>1 DEF ReadFails
    <3> QED
      BY <3>1, LeavesIsSound
  <2>2. ASSUME SendFails(Head(run.plan)) \/ SendTimesOut(Head(run.plan)) PROVE PublisherIInv'
    BY <2>2, SendFailsIsSound
  <2> QED
    BY <1>2, <2>1, <2>2, ScanFallsIsSound, CrashIsSound DEF PublisherFails
<1>3. CASE PublisherNext
  BY <1>1, <1>2, <1>3, SettlesIsSound, NewDayIsSound, WorldIsSound DEF PublisherNext
<1> QED
  BY <1>3, StutterIsSound

------------------------------------------------------------------------------
(* What a step may do to what is shown.                                    *)

CountsFaults == faults \in Nat

LEMMA FaultsCount == CountsFaults /\ [PublisherNext]_publisherVars => CountsFaults'
<1> USE DEF CountsFaults
<1> SUFFICES ASSUME faults \in Nat, [PublisherNext]_publisherVars PROVE faults' \in Nat
  OBVIOUS
<1>1. CASE PublisherWorks
  <2>1. StartRun => faults' \in Nat
    BY DEF StartRun
  <2>2. ~StartRun => faults' = faults
    BY <1>1 DEF PublisherWorks, FinishRun, DoneCleaning, DonePosting, CleansUp, SkipsUnlinked,
                PutsOff, FindsUnchanged, WouldSend, Updates, Apply, SendConfirms
  <2> QED
    BY <2>1, <2>2
<1>2. CASE PublisherFails
  BY <1>2 DEF PublisherFails, ScanFalls, ReadFails, SendFails, SendTimesOut, Crash
<1>3. CASE WorldMoves
  BY <1>3 DEF WorldMoves, Links, Unlinks, Scored, Zeroed, Changes
<1> QED
  BY <1>1, <1>2, <1>3 DEF PublisherNext, Settles, NewDay, publisherVars

\* While a plan is sent, only its transactions change what is live.
LEMMA OnlyThePlanSends ==
    ASSUME PublisherIInv, [PublisherNext]_publisherVars, run.phase = "sending", live' # live
    PROVE  run.plan # <<>>
<1>1. inFlight = {}
  BY DEF PublisherIInv, InFlightIsSound
<1>2. CASE PublisherWorks
  BY <1>2 DEF PublisherWorks, StartRun, Reads, FinishRun, DoneCleaning, DonePosting, CleansUp,
              SkipsUnlinked, PutsOff, FindsUnchanged, WouldSend, Updates, Apply, AtNew, At
<1>3. CASE PublisherFails
  BY <1>3 DEF PublisherFails, ScanFalls, Reads, ReadFails, SendFails, SendTimesOut, Crash
<1>4. CASE WorldMoves
  BY <1>4 DEF WorldMoves, Links, Unlinks, Scored, Zeroed, Changes
<1> QED
  BY <1>1, <1>2, <1>3, <1>4 DEF PublisherNext, NewDay, publisherVars

LEMMA OthersStay ==
    ASSUME PublisherIInv, [PublisherNext]_publisherVars, NEW e \in Exts \ orphaned,
           run.phase = "sending", run.at = e, e # run.links[run.on], NEW f \in live[e] \ live'[e]
    PROVE  f.of = run.on
<1>1. live' # live
  OBVIOUS
<1>2. run.plan # <<>>
  BY <1>1, OnlyThePlanSends
<1>3. st.posted[e].of = run.on
  BY <1>2, PlannedFor
<1>4. st.posted[e].of = f.of
  BY DEF PublisherIInv, StatesAreSound, Knows
<1> QED
  BY <1>3, <1>4

\* The one feedback a run finds where the agent is linked shows the score it read.
LEMMA FoundRight ==
    ASSUME PublisherIInv, NEW d \in Agents, FindsUnchanged(d)
    PROVE  /\ run.links[d] \in Exts \ Withheld
           /\ ShowsOnly(live[run.links[d]], run.scores[d])
<1> DEFINE e == run.links[d]  fs == live[e]  w == {run.scores[d]}  v == run.scores[d]
<1>1. e \in Exts \ Withheld /\ Plan(e, d, w) = <<>>
  BY DEF FindsUnchanged, Linked
<1>2. PlanFor(fs, e, d, w) = <<>>
  BY <1>1, PlanIs
<1>3. OneAtMost(fs) /\ Only(w, v)
  BY <1>1 DEF PublisherIInv, LiveIsSound, OneAtMost, Only
<1> HIDE DEF e, fs, w, v
<1>4. ShowsOnly(fs, v)
  BY <1>2, <1>3, DoneShown
<1> QED
  BY <1>1, <1>4 DEF fs, e, v

\* The steps that end the turn of an agent to be shown as 0.
LEMMA DoneBy ==
    ASSUME PublisherIInv, faults \in Nat, [PublisherNext]_publisherVars, NEW d \in Agents, IsDone(d)
    PROVE  \/ SkipsUnlinked(d) /\ AtNew(d)
           \/ FindsUnchanged(d) /\ AtNew(d)
           \/ DonePosting /\ run.on = d
<1> USE DEF IsDone
<1>1. run.phase # "idle"
  BY IdleIs DEF PublisherIInv, PublisherTypes
<1>2. DOMAIN run = {"phase", "links", "scores", "todo", "on", "at", "plan", "posting", "sent",
                    "spent", "sending", "midnight", "touched"}
  BY IdleIs DEF PublisherIInv, PublisherTypes
<1>3. CASE PublisherFails
  <2>1. ~(ScanFalls \/ Crash)
    BY DEF ScanFalls, Crash
  <2>2. \A x \in Agents : ~ReadFails(x)
    BY DEF ReadFails
  <2>3. \A tx : ~SendFails(tx) /\ ~SendTimesOut(tx)
    BY DEF SendFails, SendTimesOut
  <2> QED
    BY <1>3, <2>1, <2>2, <2>3 DEF PublisherFails
<1>4. ~WorldMoves /\ ~UNCHANGED publisherVars /\ \A tx : ~Settles(tx)
  BY DEF WorldMoves, Links, Unlinks, Scored, Zeroed, Changes, publisherVars, Settles
<1>5. ~NewDay
  <2>1. NewDay => run' = run \/ run' = [run EXCEPT !.midnight = TRUE]
    BY DEF NewDay
  <2> QED
    BY <1>2, <2>1
<1>6. CASE PublisherWorks
  <2>1. ~StartRun /\ ~FinishRun
    BY <1>1, IdleIs DEF StartRun, Reads, FinishRun, EndRun
  <2>2. ~DoneCleaning
    BY <1>2 DEF DoneCleaning
  <2>3. DonePosting => run.on = d
    BY <1>2 DEF DonePosting
  <2>4. ASSUME NEW x \in Agents, NEW e, NEW plan PROVE ~(At(x) /\ Apply(x, e, plan))
    BY <1>2, IdleIs DEF Apply, EndRun
  <2>5. \A x \in Agents : ~CleansUp(x) /\ ~Updates(x)
    BY <2>4 DEF CleansUp, Updates, AtNew
  <2>6. \A x \in Agents : Leaves(x) => x = d
    BY <1>2 DEF Leaves
  <2>7. \A x \in Agents : SkipsUnlinked(x) => x = d /\ AtNew(d)
    BY <2>6 DEF SkipsUnlinked
  <2>8. \A x \in Agents : ~PutsOff(x)
    BY <2>6 DEF PutsOff, MayPostNow
  <2>9. \A x \in Agents : ~WouldSend(x)
    BY DEF WouldSend
  <2>10. \A x \in Agents : FindsUnchanged(x) => x = d /\ AtNew(d)
    <3> SUFFICES ASSUME NEW x \in Agents, FindsUnchanged(x) PROVE x = d /\ AtNew(d)
      OBVIOUS
    <3>1. run' = [run EXCEPT !.todo = @ \ {x}, !.touched = @ \cup {run.links[x]}] /\ AtNew(x)
      BY DEF FindsUnchanged
    <3>2. run'.todo = run.todo \ {x}
      BY <1>2, <3>1
    <3> QED
      BY <3>1, <3>2
  <2>11. \A tx : ~SendConfirms(tx)
    <3> SUFFICES ASSUME NEW tx, SendConfirms(tx) PROVE FALSE
      OBVIOUS
    <3>1. /\ run' = [run EXCEPT !.plan = Tail(@), !.sent = @ + 1, !.touched = @ \cup {run.at}]
          /\ run.phase = "sending"
      BY DEF SendConfirms, NextTx
    <3> QED
      BY <1>2, <3>1
  <2> QED
    BY <1>6, <2>1, <2>2, <2>3, <2>5, <2>7, <2>8, <2>9, <2>10, <2>11 DEF PublisherWorks
<1> QED
  BY <1>3, <1>4, <1>5, <1>6 DEF PublisherNext

LEMMA DoneRight ==
    ASSUME PublisherIInv, faults \in Nat, [PublisherNext]_publisherVars, NEW d \in Agents, IsDone(d)
    PROVE  ShownAsZero(d)
<1>1. run.sending /\ st.pending[d] = "zeroed" /\ run.scores[d] = 0
  BY IdleIs DEF IsDone, PublisherIInv, PublisherTypes, ZeroesAreSound
<1>2. \A e \in Exts \ orphaned : \A f \in live[e] :
         f.of = d /\ f.value # 0 => st.postedBy[d] = e
  BY DEF PublisherIInv, StatesAreSound, Knows
<1>3. CASE SkipsUnlinked(d) /\ AtNew(d)
  <2>1. st.postedBy[d] \in {None, run.links[d]} /\ run.links[d] \in {None} \cup Withheld
        /\ live' = live
    BY <1>1, <1>3 DEF AtNew, Moved, SkipsUnlinked
  <2>2. st.postedBy[d] = None
    BY <2>1, PublisherAssumption DEF PublisherIInv, StatesAreSound
  <2> QED
    BY <1>2, <2>1, <2>2, PublisherAssumption DEF ShownAsZero, Linked
<1>4. CASE FindsUnchanged(d) /\ AtNew(d)
  <2> DEFINE e == run.links[d]
  <2>1. st.postedBy[d] \in {None, e} /\ e \in Exts
    BY <1>1, <1>4, FoundRight DEF AtNew, Moved
  <2>2. PICK f : live[e] = {f} /\ f.value = 0
    BY <1>1, <1>4, FoundRight DEF ShowsOnly, Only, Shows
  <2>3. DOMAIN live = Exts /\ DOMAIN f = {"id", "of", "value"}
    BY <2>1, <2>2 DEF PublisherIInv, PublisherTypes, LiveIsSound
  <2>4. live' = [live EXCEPT ![e] = {[g EXCEPT !.of = d] : g \in live[e]}]
    BY <1>1, <1>4 DEF FindsUnchanged
  <2> DEFINE h == [f EXCEPT !.of = d]
  <2>5. h.value = 0
    BY <2>2, <2>3
  <2>6. live'[e] = {h} /\ \A x \in Exts : x # e => live'[x] = live[x]
    BY <2>1, <2>2, <2>3, <2>4
  <2> HIDE DEF h, e
  <2>7. {g.value : g \in live'[e]} = {0}
    BY <2>5, <2>6
  <2>8. ASSUME NEW x \in Exts \ orphaned, NEW g \in live'[x], g.of = d PROVE g.value = 0
    <3>1. CASE x = e
      BY <2>5, <2>6, <2>8, <3>1
    <3>2. CASE x # e
      BY <1>2, <2>1, <2>6, <2>8, <3>2, PublisherAssumption
    <3> QED
      BY <3>1, <3>2
  <2> QED
    BY <2>7, <2>8 DEF ShownAsZero, e
<1>5. CASE DonePosting /\ run.on = d
  <2> DEFINE e == run.at
  <2>1. run.phase = "sending" /\ run.plan = <<>> /\ e = run.links[d] /\ live' = live
    BY <1>5 DEF DonePosting
  <2>2. ShowsOnly(live[e], 0)
    BY <1>1, <1>5, <2>1, PostedRight
  <2>3. PICK f : live[e] = {f} /\ f.value = 0
    BY <2>2 DEF ShowsOnly, Only, Shows
  <2>4. st.postedBy[d] \in {None, e}
    BY <1>5, <2>1 DEF PublisherIInv, SendingIsSound
  <2> HIDE DEF e
  <2>5. {g.value : g \in live'[e]} = {0}
    BY <2>1, <2>3
  <2>6. ASSUME NEW x \in Exts \ orphaned, NEW g \in live'[x], g.of = d PROVE g.value = 0
    BY <1>2, <2>1, <2>3, <2>4, <2>6, PublisherAssumption
  <2> QED
    BY <2>1, <2>5, <2>6 DEF ShownAsZero
<1> QED
  BY <1>3, <1>4, <1>5, DoneBy

\* Whatever times out, lands late, fails or is restarted, and however links and scores change
\* meanwhile: no 8004 agent ever carries two live feedbacks of the publisher, and the publisher
\* stays within the transactions a run may send.
THEOREM PublisherHolds == PublisherSpec => []PublisherInv
<1>1. PublisherIInv => PublisherInv
  <2> SUFFICES ASSUME PublisherIInv PROVE PublisherInv
    OBVIOUS
  <2>1. ASSUME NEW e \in Exts PROVE Cardinality(live[e]) <= 1
    <3>1. CASE live[e] = {}
      BY <3>1, FS_EmptySet
    <3>2. ASSUME NEW f \in live[e], live[e] = {f} PROVE Cardinality(live[e]) <= 1
      <4>1. Cardinality({f}) = 1
        BY FS_Singleton
      <4> QED
        BY <3>2, <4>1
    <3> QED
      BY <3>1, <3>2 DEF PublisherIInv, LiveIsSound
  <2> QED
    BY <2>1 DEF PublisherInv, OneLive, PublisherIInv, PublisherTypes
<1> QED
  BY <1>1, InitIsSound, PublisherStep, PTL DEF PublisherSpec

\* Seeing to an old 8004 agent never takes down what another agent shows there, and a run is
\* done with a slashed agent only once the catalogs show 0 for it, wherever its score was shown.
THEOREM RunsAreRight == PublisherSpec => RunsLeaveItRight
<1>1. PublisherInit => CountsFaults
  BY DEF PublisherInit, CountsFaults
<1>2. PublisherIInv /\ [PublisherNext]_publisherVars => [TakesOnlyItsOwn]_publisherVars
  BY OthersStay DEF TakesOnlyItsOwn
<1>3. PublisherIInv /\ CountsFaults /\ [PublisherNext]_publisherVars =>
         [DoneMeansZero]_publisherVars
  BY DoneRight DEF CountsFaults, DoneMeansZero
<1>4. PublisherSpec => [](PublisherIInv /\ CountsFaults)
  BY <1>1, InitIsSound, PublisherStep, FaultsCount, PTL DEF PublisherSpec
<1>5. PublisherSpec => OthersLeftAlone
  BY <1>2, <1>4, PTL DEF PublisherSpec, OthersLeftAlone
<1>6. PublisherSpec => ZeroGoesOutAtOnce
  BY <1>3, <1>4, PTL DEF PublisherSpec, ZeroGoesOutAtOnce
<1> QED
  BY <1>5, <1>6 DEF RunsLeaveItRight

------------------------------------------------------------------------------
(* The signer.                                                             *)

Request == [id : Requests, ts : Nat, kind : {"transaction", "wallet"}, asks : Nat]
Entry == [at : Nat, nr : Nat]

\* What each variable holds.
SignerTypes ==
    /\ maxPerHour \in Caps /\ {now, startedAt, made, pendingNonce, restarts} \subseteq Nat
    /\ sent \subseteq Request
    /\ seen \subseteq [id : Requests, until : Nat]
    /\ queue \in Seq([s : Request, t : Nat])
    /\ step \in {"idle", "reading", "signing", "answering"}
    /\ times \subseteq Entry /\ IsFiniteSet(times)
    /\ file \subseteq Entry /\ IsFiniteSet(file)
    /\ given \subseteq [s : Request, t : Nat, nr : Nat]

\* A request that came in this life is in memory until it is too old to come again.
Remembered(s) == s.ts + Skew < now \/ [id |-> s.id, until |-> s.ts + Skew] \in seen

SentIsSound ==
    /\ \A s \in sent : s.ts <= now
    /\ \A s, u \in sent : s.id = u.id => s = u

\* What waits came in this life, in order, each request once.
QueueIsSound ==
    /\ startedAt <= now
    /\ \A i \in 1..Len(queue) :
          /\ queue[i].s \in sent /\ Fresh(queue[i].s, queue[i].t) /\ Remembered(queue[i].s)
          /\ startedAt <= queue[i].t /\ queue[i].s.ts <= queue[i].t /\ queue[i].t <= now
    /\ \A i, j \in 1..Len(queue) :
          i < j => queue[i].t <= queue[j].t /\ queue[i].s.id # queue[j].s.id

\* What was given out came before what waits, and does not wait again in the same life.
GivenIsSound ==
    \A g \in given :
       /\ g.s \in sent /\ g.s.ts <= g.t /\ g.t <= now /\ g.nr <= made
       /\ \A h \in given : g.nr = h.nr => g = h
       /\ \A i \in 1..Len(queue) : g.t <= queue[i].t
       /\ startedAt <= g.t =>
             Remembered(g.s) /\ \A i \in 1..Len(queue) : queue[i].s.id # g.s.id

\* A signature given out is on record until no arrival to come is within an hour of it.
RecordIsSound ==
    \A g \in given :
       /\ \/ [at |-> g.t, nr |-> g.nr] \in times
          \/ g.t + Hour <= now /\ \A i \in 1..Len(queue) : g.t + Hour <= queue[i].t
       /\ \/ [at |-> g.t, nr |-> g.nr] \in file
          \/ g.t + Hour <= now

\* The first in the queue has come as far as step says.
StepIsSound ==
    /\ step # "idle" => queue # <<>> /\ WarmedUp(queue[1].t)
    /\ step \in {"reading", "signing"} => Cardinality(times) < maxPerHour
    /\ step = "answering" =>
          /\ Cardinality(times) <= maxPerHour
          /\ [at |-> queue[1].t, nr |-> made] \in times \cap file
          /\ \A g \in given : g.nr # made

SignerIInv ==
    /\ SignerTypes /\ SentIsSound /\ QueueIsSound /\ GivenIsSound /\ RecordIsSound /\ StepIsSound
    /\ SignerInv
------------------------------------------------------------------------------
(* The queue as it moves on.                                               *)

\* The queue is as it was, or without its first.
Shifts ==
    \E d \in {0, 1} :
       /\ Len(queue') = Len(queue) - d
       /\ \A i \in 1..Len(queue') : i + d \in 1..Len(queue) /\ queue'[i] = queue[i + d]

LEMMA InQueue ==
    ASSUME NEW S, NEW q \in Seq(S), NEW i \in 1..Len(q)
    PROVE  q[i] \in S
  OBVIOUS

LEMMA TailFacts ==
    ASSUME NEW S, NEW q \in Seq(S), q # <<>>
    PROVE  /\ Tail(q) \in Seq(S) /\ Len(q) \in Nat \ {0} /\ Len(Tail(q)) = Len(q) - 1
           /\ \A i \in 1..Len(Tail(q)) : Tail(q)[i] = q[i + 1]
  OBVIOUS

LEMMA QueueShifts ==
    ASSUME SignerTypes,
           queue' = queue \/ (queue # <<>> /\ queue' = Tail(queue))
    PROVE  queue' \in Seq([s : Request, t : Nat]) /\ Shifts
  <1> DEFINE S == [s : Request, t : Nat]
  <1>1. queue \in Seq(S)
    BY DEF SignerTypes
  <1> HIDE DEF S
  <1>2. CASE queue' = queue
    BY <1>1, <1>2 DEF Shifts, S
  <1>3. CASE queue # <<>> /\ queue' = Tail(queue)
    <2>1. /\ queue' \in Seq(S) /\ Len(queue) \in Nat /\ Len(queue') = Len(queue) - 1
          /\ \A i \in 1..Len(queue') : queue'[i] = queue[i + 1]
      BY <1>1, <1>3, TailFacts
    <2>2. \A i \in 1..Len(queue') : i + 1 \in 1..Len(queue)
      BY <2>1
    <2> QED
      BY <2>1, <2>2 DEF Shifts, S
  <1> QED
    BY <1>2, <1>3

LEMMA QueueKept ==
    ASSUME SignerTypes, QueueIsSound, Shifts, sent \subseteq sent',
           UNCHANGED <<now, startedAt, seen>>
    PROVE  QueueIsSound'
  <1>1. PICK d \in {0, 1} :
           /\ Len(queue') = Len(queue) - d
           /\ \A i \in 1..Len(queue') : i + d \in 1..Len(queue) /\ queue'[i] = queue[i + d]
    BY DEF Shifts
  <1>2. startedAt' <= now'
    BY DEF QueueIsSound
  <1>3. ASSUME NEW i \in 1..Len(queue')
        PROVE  /\ queue'[i].s \in sent' /\ Fresh(queue'[i].s, queue'[i].t)
               /\ Remembered(queue[i].s)'
               /\ startedAt' <= queue'[i].t /\ queue'[i].s.ts <= queue'[i].t /\ queue'[i].t <= now'
    <2>1. queue'[i] = queue[i + d] /\ i + d \in 1..Len(queue)
      BY <1>1
    <2> QED
      BY <2>1 DEF QueueIsSound, Remembered, Fresh
  <1>4. ASSUME NEW i \in 1..Len(queue'), NEW j \in 1..Len(queue'), i < j
        PROVE  queue'[i].t <= queue'[j].t /\ queue'[i].s.id # queue'[j].s.id
    <2>1. queue'[i] = queue[i + d] /\ i + d \in 1..Len(queue)
      BY <1>1
    <2>2. queue'[j] = queue[j + d] /\ j + d \in 1..Len(queue) /\ i + d < j + d
      BY <1>1, <1>4
    <2> QED
      BY <2>1, <2>2 DEF QueueIsSound
  <1> QED
    BY <1>2, <1>3, <1>4 DEF QueueIsSound, Fresh

LEMMA GivenKept ==
    ASSUME SignerTypes, GivenIsSound, Shifts, sent \subseteq sent', made' \in Nat, made <= made',
           UNCHANGED <<now, startedAt, seen, given>>
    PROVE  GivenIsSound'
  <1>1. \A g \in given : g.nr <= made'
    BY DEF GivenIsSound, SignerTypes
  <1>2. \A i \in 1..Len(queue') : \E k \in 1..Len(queue) : queue'[i] = queue[k]
    BY DEF Shifts
  <1> QED
    BY <1>1, <1>2 DEF GivenIsSound, Remembered

LEMMA RecordKept ==
    ASSUME RecordIsSound, Shifts, times \subseteq times', file \subseteq file',
           UNCHANGED <<now, given>>
    PROVE  RecordIsSound'
  <1>1. \A i \in 1..Len(queue') : \E k \in 1..Len(queue) : queue'[i] = queue[k]
    BY DEF Shifts
  <1> QED
    BY <1>1 DEF RecordIsSound

LEMMA AnswersKept ==
    ASSUME SignerInv, UNCHANGED <<given, maxPerHour>>
    PROVE  SignerInv'
  BY DEF SignerInv, SignedOnce, CapHolds

------------------------------------------------------------------------------
(* The steps.                                                              *)

LEMMA SignerStarts == Init => SignerIInv
  <1> SUFFICES ASSUME Init PROVE SignerIInv
    OBVIOUS
  <1>1. SignerTypes
    BY FS_EmptySet DEF Init, SignerTypes
  <1>2. SentIsSound /\ QueueIsSound /\ GivenIsSound /\ RecordIsSound /\ StepIsSound
    BY DEF Init, SentIsSound, QueueIsSound, GivenIsSound, RecordIsSound, StepIsSound
  <1>3. SignerInv
    BY DEF Init, SignerInv, SignedOnce, CapHolds
  <1> QED
    BY <1>1, <1>2, <1>3 DEF SignerIInv

LEMMA AskKeeps == SignerIInv /\ Ask => SignerIInv'
  <1> SUFFICES ASSUME SignerIInv, Ask PROVE SignerIInv'
    OBVIOUS
  <1> USE DEF SignerIInv
  <1>1. PICK r \in Requests, kind \in {"transaction", "wallet"}, lag \in 0..Behind, ahead \in 0..1 :
           /\ \A s \in sent : s.id # r
           /\ lag <= now
           /\ sent' = sent \cup {[id |-> r, ts |-> now - lag, kind |-> kind, asks |->
                 IF kind = "transaction" THEN pendingNonce + ahead ELSE now + ahead * (Delay + 1)]}
    BY DEF Ask
  <1>2. UNCHANGED <<recordVars, now, startedAt, seen, queue, step, pendingNonce, given, restarts>>
    BY DEF Ask
  <1> DEFINE asks == IF kind = "transaction" THEN pendingNonce + ahead ELSE now + ahead * (Delay + 1)
             new == [id |-> r, ts |-> now - lag, kind |-> kind, asks |-> asks]
  <1>3. now \in Nat /\ pendingNonce \in Nat /\ Delay \in Nat /\ Behind \in Nat
    BY SignerAssumption DEF SignerTypes
  <1>4. asks \in Nat /\ now - lag \in Nat /\ now - lag <= now
    <2>1. ahead = 0 \/ ahead = 1
      OBVIOUS
    <2>2. now + 0 * (Delay + 1) = now /\ now + 1 * (Delay + 1) = now + Delay + 1
      BY <1>3
    <2> QED
      BY <1>1, <1>3, <2>1, <2>2
  <1> HIDE DEF asks
  <1>5. sent' = sent \cup {new} /\ new \in Request
    BY <1>1, <1>4 DEF Request, asks
  <1>6. SignerTypes'
    BY <1>2, <1>5 DEF SignerTypes, recordVars
  <1>7. SentIsSound'
    BY <1>1, <1>2, <1>4, <1>5 DEF SentIsSound
  <1>8. Shifts
    BY <1>2, QueueShifts
  <1>9. QueueIsSound' /\ GivenIsSound' /\ RecordIsSound'
    BY <1>2, <1>3, <1>5, <1>8, QueueKept, GivenKept, RecordKept DEF recordVars, SignerTypes
  <1>10. StepIsSound' /\ SignerInv'
    BY <1>2, AnswersKept DEF StepIsSound, WarmedUp, recordVars
  <1> QED
    BY <1>6, <1>7, <1>9, <1>10
LEMMA ArrivesKeeps == SignerIInv /\ Arrives => SignerIInv'
  <1> SUFFICES ASSUME SignerIInv, Arrives PROVE SignerIInv'
    OBVIOUS
  <1> USE DEF SignerIInv
  <1>1. PICK s \in sent :
           /\ Fresh(s, now)
           /\ \A m \in seen \ Forgotten(now) : m.id # s.id
           /\ seen' = (seen \ Forgotten(now)) \cup {[id |-> s.id, until |-> s.ts + Skew]}
           /\ queue' = Append(queue, [s |-> s, t |-> now])
    BY DEF Arrives
  <1>2. UNCHANGED <<recordVars, now, startedAt, sent, step, pendingNonce, given, restarts>>
    BY DEF Arrives
  <1>3. /\ now \in Nat /\ startedAt \in Nat /\ Skew \in Nat /\ Hour \in Nat
        /\ s \in Request /\ s.id \in Requests /\ s.ts \in Nat
    BY SignerAssumption DEF SignerTypes, Request
  <1> DEFINE S == [s : Request, t : Nat]
             new == [s |-> s, t |-> now]
             n == Len(queue)
  <1>4. new \in S /\ queue \in Seq(S) /\ n \in Nat
    BY <1>3 DEF SignerTypes
  <1>5. /\ queue' \in Seq(S) /\ Len(queue') = n + 1 /\ queue'[n + 1] = new
        /\ \A i \in 1..n : queue'[i] = queue[i]
    BY <1>1, <1>4
  <1>6. \A i \in 1..Len(queue') : i \in 1..n \/ i = n + 1
    BY <1>4, <1>5
  <1>7. SignerTypes'
    <2>1. seen' \subseteq [id : Requests, until : Nat]
      BY <1>1, <1>3 DEF SignerTypes
    <2> QED
      BY <1>2, <1>5, <2>1 DEF SignerTypes, recordVars
  <1>8. SentIsSound'
    BY <1>2 DEF SentIsSound
  \* What was remembered still is, or has grown too old; and the one that came is new to this life.
  <1>9. \A u \in Request : Remembered(u) => Remembered(u)'
    <2> SUFFICES ASSUME NEW u \in Request, Remembered(u), ~(u.ts + Skew < now)
                 PROVE  [id |-> u.id, until |-> u.ts + Skew] \in seen'
      BY <1>2 DEF Remembered
    <2>1. [id |-> u.id, until |-> u.ts + Skew] \in seen
      BY DEF Remembered
    <2>2. [id |-> u.id, until |-> u.ts + Skew] \notin Forgotten(now)
      BY DEF Forgotten
    <2> QED
      BY <1>1, <2>1, <2>2
  <1>10. Remembered(s)'
    BY <1>1 DEF Remembered
  <1>11. \A u \in sent : Remembered(u) => u.id # s.id
    <2> SUFFICES ASSUME NEW u \in sent, Remembered(u), u.id = s.id PROVE FALSE
      OBVIOUS
    <2>1. u = s
      BY DEF SentIsSound
    <2>2. ~(s.ts + Skew < now)
      BY <1>1, <1>3 DEF Fresh
    <2>3. [id |-> s.id, until |-> s.ts + Skew] \in seen \ Forgotten(now)
      BY <2>1, <2>2 DEF Remembered, Forgotten
    <2> QED
      BY <1>1, <2>3
  <1>12. QueueIsSound'
    <2>1. startedAt' <= now'
      BY <1>2 DEF QueueIsSound
    <2>2. ASSUME NEW i \in 1..Len(queue')
          PROVE  /\ queue'[i].s \in sent' /\ Fresh(queue'[i].s, queue'[i].t)
                 /\ Remembered(queue[i].s)'
                 /\ startedAt' <= queue'[i].t /\ queue'[i].s.ts <= queue'[i].t /\ queue'[i].t <= now'
      <3>1. CASE i \in 1..n
        <4>1. queue[i] \in S
          BY <1>4, <3>1, InQueue
        <4>2. queue[i].s \in Request /\ queue'[i] = queue[i]
          BY <1>5, <3>1, <4>1
        <4>3. Remembered(queue[i].s)'
          <5>1. Remembered(queue[i].s)
            BY <3>1 DEF QueueIsSound
          <5> QED
            BY <1>9, <4>2, <5>1 DEF Remembered
        <4> QED
          BY <1>2, <3>1, <4>2, <4>3 DEF QueueIsSound
      <3>2. CASE i = n + 1
        BY <1>1, <1>2, <1>3, <1>5, <1>10, <3>2, <2>1 DEF SentIsSound
      <3> QED
        BY <1>6, <3>1, <3>2
    <2>3. ASSUME NEW i \in 1..Len(queue'), NEW j \in 1..Len(queue'), i < j
          PROVE  queue'[i].t <= queue'[j].t /\ queue'[i].s.id # queue'[j].s.id
      <3>1. i \in 1..n /\ queue'[i] = queue[i]
        BY <1>4, <1>5, <2>3
      <3>2. CASE j \in 1..n
        BY <1>5, <2>3, <3>1, <3>2 DEF QueueIsSound
      <3>3. CASE j = n + 1
        BY <1>5, <1>11, <3>1, <3>3 DEF QueueIsSound
      <3> QED
        BY <1>6, <3>2, <3>3
    <2> QED
      BY <2>1, <2>2, <2>3 DEF QueueIsSound, Fresh
  <1>13. GivenIsSound'
    <2> SUFFICES ASSUME NEW g \in given
                 PROVE  /\ g.s \in sent' /\ g.s.ts <= g.t /\ g.t <= now' /\ g.nr <= made'
                        /\ \A h \in given : g.nr = h.nr => g = h
                        /\ \A i \in 1..Len(queue') : g.t <= queue'[i].t
                        /\ startedAt' <= g.t =>
                              /\ Remembered(g.s)'
                              /\ \A i \in 1..Len(queue') : queue'[i].s.id # g.s.id
      BY <1>2 DEF GivenIsSound
    <2>1. /\ g.s \in sent' /\ g.s.ts <= g.t /\ g.t <= now' /\ g.nr <= made'
          /\ \A h \in given : g.nr = h.nr => g = h
      BY <1>2 DEF GivenIsSound, recordVars
    <2>2. \A i \in 1..Len(queue') : g.t <= queue'[i].t
      BY <1>2, <1>5, <1>6, <2>1 DEF GivenIsSound
    <2>3. ASSUME startedAt' <= g.t
          PROVE  Remembered(g.s)' /\ \A i \in 1..Len(queue') : queue'[i].s.id # g.s.id
      <3>1. g.s \in sent /\ Remembered(g.s) /\ \A i \in 1..n : queue[i].s.id # g.s.id
        BY <1>2, <2>3 DEF GivenIsSound
      <3>2. Remembered(g.s)'
        BY <1>9, <3>1 DEF SignerTypes
      <3> QED
        BY <1>5, <1>6, <1>11, <3>1, <3>2
    <2> QED
      BY <2>1, <2>2, <2>3
  <1>14. RecordIsSound'
    <2>1. \A g \in given : g.t + Hour <= now /\ (\A i \in 1..n : g.t + Hour <= queue[i].t)
             => \A i \in 1..Len(queue') : g.t + Hour <= queue'[i].t
      BY <1>5, <1>6
    <2> QED
      BY <1>2, <2>1 DEF RecordIsSound, recordVars
  <1>15. StepIsSound'
    <2>1. queue # <<>> => queue' # <<>> /\ queue'[1] = queue[1]
      BY <1>4, <1>5
    <2> QED
      BY <1>2, <2>1 DEF StepIsSound, WarmedUp, recordVars
  <1>16. SignerInv'
    BY <1>2, AnswersKept DEF recordVars
  <1> QED
    BY <1>7, <1>8, <1>12, <1>13, <1>14, <1>15, <1>16

LEMMA ReadsChainKeeps == SignerIInv /\ ReadsChain => SignerIInv'
  <1> SUFFICES ASSUME SignerIInv, ReadsChain PROVE SignerIInv'
    OBVIOUS
  <1> USE DEF SignerIInv
  <1>1. /\ step = "reading"
        /\ UNCHANGED <<recordVars, now, startedAt, sent, seen, pendingNonce, given, restarts>>
        /\ (step' = "signing" /\ queue' = queue) \/ (step' = "idle" /\ queue' = Tail(queue))
    BY DEF ReadsChain, Done
  <1>2. queue # <<>>
    BY <1>1 DEF StepIsSound
  <1>3. queue' \in Seq([s : Request, t : Nat]) /\ Shifts
    BY <1>1, <1>2, QueueShifts
  <1>4. SignerTypes'
    BY <1>1, <1>3 DEF SignerTypes, recordVars
  <1>5. SentIsSound' /\ SignerInv'
    BY <1>1, AnswersKept DEF SentIsSound, recordVars
  <1>6. QueueIsSound' /\ GivenIsSound' /\ RecordIsSound'
    BY <1>1, <1>3, QueueKept, GivenKept, RecordKept DEF recordVars, SignerTypes
  <1>7. StepIsSound'
    BY <1>1 DEF StepIsSound, WarmedUp, recordVars
  <1> QED
    BY <1>4, <1>5, <1>6, <1>7

LEMMA BeginsKeeps == SignerIInv /\ Begins => SignerIInv'
  <1> SUFFICES ASSUME SignerIInv, Begins PROVE SignerIInv'
    OBVIOUS
  <1> USE DEF SignerIInv
  <1> DEFINE t == queue[1].t
  <1>1. /\ queue # <<>> /\ step = "idle"
        /\ UNCHANGED <<maxPerHour, now, startedAt, sent, seen, file, made, pendingNonce, given, restarts>>
        /\ times' = times \/ times' = Since(t)
        /\ \/ step' = "idle" /\ queue' = Tail(queue)
           \/ /\ step' = "reading" /\ queue' = queue /\ times' = Since(t)
              /\ WarmedUp(t) /\ ~(Cardinality(Since(t)) >= maxPerHour)
    BY DEF Begins, Done
  <1>2. /\ t \in Nat /\ Hour \in Nat /\ now \in Nat /\ maxPerHour \in Nat
        /\ 1 \in 1..Len(queue) /\ t <= now /\ \A i \in 1..Len(queue) : queue[i].t \in Nat /\ t <= queue[i].t
    <2>1. queue \in Seq([s : Request, t : Nat]) /\ now \in Nat /\ maxPerHour \in Nat /\ Hour \in Nat
      BY SignerAssumption DEF SignerTypes
    <2>2. 1 \in 1..Len(queue) /\ \A i \in 1..Len(queue) : i = 1 \/ 1 < i
      BY <1>1, <2>1
    <2>3. \A i \in 1..Len(queue) : queue[i] \in [s : Request, t : Nat]
      BY <2>1, InQueue
    <2> QED
      BY <2>1, <2>2, <2>3 DEF QueueIsSound
  <1>3. queue' \in Seq([s : Request, t : Nat]) /\ Shifts
    BY <1>1, QueueShifts
  <1>4. times' \subseteq times /\ times' \subseteq Entry /\ IsFiniteSet(times')
    BY <1>1, FS_Subset DEF Since, SignerTypes
  <1>5. SignerTypes'
    BY <1>1, <1>3, <1>4 DEF SignerTypes
  <1>6. SentIsSound' /\ SignerInv'
    BY <1>1, AnswersKept DEF SentIsSound
  <1>7. QueueIsSound' /\ GivenIsSound'
    BY <1>1, <1>3, QueueKept, GivenKept DEF SignerTypes
  <1>8. RecordIsSound'
    <2> SUFFICES ASSUME NEW g \in given, [at |-> g.t, nr |-> g.nr] \notin times'
                 PROVE  g.t + Hour <= now /\ \A i \in 1..Len(queue') : g.t + Hour <= queue'[i].t
      BY <1>1 DEF RecordIsSound
    <2>1. g.t \in Nat
      BY DEF SignerTypes
    <2>2. g.t + Hour <= now /\ \A i \in 1..Len(queue) : g.t + Hour <= queue[i].t
      <3>1. CASE [at |-> g.t, nr |-> g.nr] \notin times
        BY <3>1 DEF RecordIsSound
      <3>2. CASE [at |-> g.t, nr |-> g.nr] \in times
        <4>1. ~(g.t > t - Hour)
          BY <1>1, <3>2 DEF Since
        <4>2. g.t + Hour <= t
          BY <1>2, <2>1, <4>1
        <4> QED
          BY <1>2, <2>1, <4>2
      <3> QED
        BY <3>1, <3>2
    <2>3. \A i \in 1..Len(queue') : \E k \in 1..Len(queue) : queue'[i] = queue[k]
      BY <1>3 DEF Shifts
    <2> QED
      BY <2>2, <2>3
  <1>9. StepIsSound'
    <2>1. IsFiniteSet(Since(t)) => Cardinality(Since(t)) \in Nat
      BY FS_CardinalityType
    <2>2. IsFiniteSet(Since(t))
      BY FS_Subset DEF Since, SignerTypes
    <2>3. CASE step' = "reading"
      BY <1>1, <1>2, <2>1, <2>2, <2>3 DEF StepIsSound, WarmedUp
    <2>4. CASE step' = "idle"
      BY <2>4 DEF StepIsSound
    <2> QED
      BY <1>1, <2>3, <2>4
  <1> QED
    BY <1>5, <1>6, <1>7, <1>8, <1>9
LEMMA SignsKeeps == SignerIInv /\ Signs => SignerIInv'
  <1> SUFFICES ASSUME SignerIInv, Signs PROVE SignerIInv'
    OBVIOUS
  <1> USE DEF SignerIInv
  <1> DEFINE entry == [at |-> queue[1].t, nr |-> made']
  <1>1. /\ step = "signing" /\ made' = made + 1 /\ times' = times \cup {entry}
        /\ UNCHANGED <<maxPerHour, now, startedAt, sent, seen, pendingNonce, given, restarts>>
        /\ \/ file' = times' /\ step' = "answering" /\ queue' = queue
           \/ file' = file /\ step' = "idle" /\ queue' = Tail(queue)
    BY DEF Signs, Done, OnDisk
  <1>2. queue # <<>> /\ WarmedUp(queue[1].t) /\ Cardinality(times) < maxPerHour
    BY <1>1 DEF StepIsSound
  <1>3. queue' \in Seq([s : Request, t : Nat]) /\ Shifts
    BY <1>1, <1>2, QueueShifts
  <1>4. entry \in Entry
    <2>1. 1 \in 1..Len(queue) /\ made \in Nat
      BY <1>2 DEF SignerTypes
    <2>2. queue[1] \in [s : Request, t : Nat]
      BY <2>1, InQueue DEF SignerTypes
    <2> QED
      BY <1>1, <2>1, <2>2 DEF Entry
  <1>5. /\ times' \subseteq Entry /\ IsFiniteSet(times')
        /\ Cardinality(times) \in Nat /\ Cardinality(times') <= Cardinality(times) + 1
    <2>1. IsFiniteSet(times) /\ times \subseteq Entry
      BY DEF SignerTypes
    <2>2. /\ IsFiniteSet(times \cup {entry})
          /\ \/ Cardinality(times \cup {entry}) = Cardinality(times)
             \/ Cardinality(times \cup {entry}) = Cardinality(times) + 1
      BY <2>1, FS_AddElement
    <2>3. Cardinality(times) \in Nat
      BY <2>1, FS_CardinalityType
    <2> QED
      BY <1>1, <1>4, <2>1, <2>2, <2>3
  <1>6. SignerTypes'
    <2>1. file' \subseteq Entry /\ IsFiniteSet(file')
      BY <1>1, <1>5 DEF SignerTypes
    <2>2. {now', startedAt', made', pendingNonce', restarts'} \subseteq Nat
      BY <1>1 DEF SignerTypes
    <2>3. step' \in {"idle", "reading", "signing", "answering"}
      BY <1>1
    <2> QED
      BY <1>1, <1>3, <1>5, <2>1, <2>2, <2>3 DEF SignerTypes
  <1>7. SentIsSound' /\ SignerInv'
    BY <1>1, AnswersKept DEF SentIsSound
  <1>8. QueueIsSound' /\ GivenIsSound'
    BY <1>1, <1>3, QueueKept, GivenKept DEF SignerTypes
  <1>9. RecordIsSound'
    <2>1. times \subseteq times'
      BY <1>1
    <2>2. CASE file' = file
      BY <1>1, <1>3, <2>1, <2>2, RecordKept
    <2>3. CASE file' = times' /\ queue' = queue
      BY <1>1, <2>1, <2>3 DEF RecordIsSound
    <2> QED
      BY <1>1, <2>2, <2>3
  <1>10. StepIsSound'
    <2>1. CASE step' = "idle"
      BY <2>1 DEF StepIsSound
    <2>2. CASE file' = times' /\ step' = "answering" /\ queue' = queue
      <3>1. \A g \in given : g.nr # made'
        BY <1>1 DEF GivenIsSound, SignerTypes
      <3>2. maxPerHour \in Nat /\ Cardinality(times') \in Nat
        BY <1>5, FS_CardinalityType, SignerAssumption DEF SignerTypes
      <3>3. Cardinality(times') <= maxPerHour
        BY <1>2, <1>5, <3>2
      <3> QED
        BY <1>1, <1>2, <2>2, <3>1, <3>3 DEF StepIsSound, WarmedUp
    <2> QED
      BY <1>1, <2>1, <2>2
  <1> QED
    BY <1>6, <1>7, <1>8, <1>9, <1>10

LEMMA AnswersKeeps == SignerIInv /\ Answers => SignerIInv'
  <1> SUFFICES ASSUME SignerIInv, Answers PROVE SignerIInv'
    OBVIOUS
  <1> USE DEF SignerIInv
  <1> DEFINE t == queue[1].t
             s == queue[1].s
             new == [s |-> s, t |-> t, nr |-> made]
  <1>1. /\ step = "answering" /\ given' = given \cup {new} /\ queue' = Tail(queue) /\ step' = "idle"
        /\ UNCHANGED <<recordVars, now, startedAt, sent, seen, pendingNonce, restarts>>
    BY DEF Answers, Done
  <1>2. /\ queue # <<>> /\ WarmedUp(t) /\ Cardinality(times) <= maxPerHour
        /\ [at |-> t, nr |-> made] \in times \cap file
        /\ \A g \in given : g.nr # made
    BY <1>1 DEF StepIsSound
  <1>3. queue' \in Seq([s : Request, t : Nat]) /\ Shifts
    BY <1>1, <1>2, QueueShifts
  <1>4. /\ 1 \in 1..Len(queue) /\ Len(queue') = Len(queue) - 1
        /\ \A i \in 1..Len(queue') : queue'[i] = queue[i + 1] /\ i + 1 \in 1..Len(queue) /\ 1 < i + 1
    <2>1. /\ Len(queue) \in Nat \ {0} /\ Len(queue') = Len(queue) - 1
          /\ \A i \in 1..Len(queue') : queue'[i] = queue[i + 1]
      BY <1>1, <1>2, TailFacts DEF SignerTypes
    <2> QED
      BY <2>1
  <1>5. /\ t \in Nat /\ s \in Request /\ s.ts \in Nat /\ made \in Nat /\ now \in Nat
        /\ startedAt \in Nat /\ Skew \in Nat /\ Hour \in Nat /\ new \in [s : Request, t : Nat, nr : Nat]
    <2>1. queue[1] \in [s : Request, t : Nat]
      BY <1>4, InQueue DEF SignerTypes
    <2> QED
      BY <2>1, SignerAssumption DEF SignerTypes, Request
  <1>6. s \in sent /\ Fresh(s, t) /\ Remembered(s) /\ s.ts <= t /\ startedAt <= t /\ t <= now
    BY <1>4 DEF QueueIsSound
  <1>7. \A g \in given : /\ g.s \in sent /\ g.s.ts <= g.t /\ g.t <= t /\ g.t \in Nat /\ g.nr \in Nat
                         /\ g.nr <= made /\ g.nr # made
    BY <1>2, <1>4 DEF GivenIsSound, SignerTypes
  \* A life that has warmed up sees no request of an earlier one again.
  <1>8. \A g \in given : g.s.id # s.id
    <2> SUFFICES ASSUME NEW g \in given, g.s.id = s.id PROVE FALSE
      OBVIOUS
    <2>1. g.s = s
      BY <1>6, <1>7 DEF SentIsSound
    <2>2. CASE startedAt <= g.t
      BY <1>4, <2>2 DEF GivenIsSound
    <2>3. CASE ~(startedAt <= g.t)
      <3>1. s.ts <= g.t /\ g.t < startedAt /\ startedAt + Skew <= t
        BY <1>2, <1>5, <1>7, <2>1, <2>3 DEF WarmedUp
      <3>2. t - s.ts <= Skew
        BY <1>6 DEF Fresh
      <3> QED
        BY <1>5, <1>7, <3>1, <3>2
    <2> QED
      BY <2>2, <2>3
  <1>9. SignedOnce'
    BY <1>1, <1>8 DEF SignedOnce, SignerInv
  \* The hour before this signature is all on record.
  <1> DEFINE window == {h \in given' : t - Hour < h.t /\ h.t <= t}
             f == [h \in window |-> [at |-> h.t, nr |-> h.nr]]
  <1>10. Cardinality(window) <= maxPerHour
    <2>1. \A h \in window : [at |-> h.t, nr |-> h.nr] \in times
      <3> SUFFICES ASSUME NEW h \in window PROVE [at |-> h.t, nr |-> h.nr] \in times
        OBVIOUS
      <3>1. t - Hour < h.t /\ (h \in given \/ h = new)
        BY <1>1
      <3>2. CASE h = new
        BY <1>2, <3>2
      <3>3. CASE h \in given
        <4>1. ~(h.t + Hour <= t)
          BY <1>5, <1>7, <3>1, <3>3
        <4> QED
          BY <1>4, <3>3, <4>1 DEF RecordIsSound
      <3> QED
        BY <3>1, <3>2, <3>3
    <2>2. \A g, h \in window : g.nr = h.nr => g = h
      BY <1>1, <1>7 DEF GivenIsSound
    <2>3. f \in Injection(window, times)
      BY <2>1, <2>2 DEF Injection, IsInjective
    <2>4. IsFiniteSet(times) /\ Cardinality(times) \in Nat /\ maxPerHour \in Nat
      BY FS_CardinalityType, SignerAssumption DEF SignerTypes
    <2>5. IsFiniteSet(window) /\ Cardinality(window) <= Cardinality(times)
      BY <2>3, <2>4, FS_Injection
    <2>6. Cardinality(window) \in Nat
      BY <2>5, FS_CardinalityType
    <2> QED
      BY <1>2, <2>4, <2>5, <2>6
  <1>11. CapHolds'
    <2> SUFFICES ASSUME NEW g \in given'
                 PROVE  Cardinality({h \in given' : g.t - Hour < h.t /\ h.t <= g.t}) <= maxPerHour
      BY <1>1 DEF CapHolds, recordVars
    <2>1. CASE g.t = t
      BY <1>10, <2>1
    <2>2. CASE g.t # t
      <3>1. g \in given /\ ~(t <= g.t)
        BY <1>1, <1>5, <1>7, <2>2
      <3>2. {h \in given' : g.t - Hour < h.t /\ h.t <= g.t} = {h \in given : g.t - Hour < h.t /\ h.t <= g.t}
        BY <1>1, <3>1
      <3> QED
        BY <3>1, <3>2 DEF CapHolds, SignerInv
    <2> QED
      BY <2>1, <2>2
  <1>12. SignerTypes' /\ SentIsSound'
    BY <1>1, <1>3, <1>5 DEF SignerTypes, SentIsSound, recordVars
  <1>13. QueueIsSound'
    BY <1>1, <1>3, QueueKept
  <1>14. GivenIsSound'
    <2> SUFFICES ASSUME NEW g \in given'
                 PROVE  /\ g.s \in sent /\ g.s.ts <= g.t /\ g.t <= now /\ g.nr <= made
                        /\ \A h \in given' : g.nr = h.nr => g = h
                        /\ \A i \in 1..Len(queue') : g.t <= queue'[i].t
                        /\ startedAt <= g.t =>
                              Remembered(g.s) /\ \A i \in 1..Len(queue') : queue'[i].s.id # g.s.id
      BY <1>1 DEF GivenIsSound, Remembered, recordVars
    <2>1. CASE g \in given
      BY <1>1, <1>4, <1>7, <2>1 DEF GivenIsSound
    <2>2. CASE g = new
      <3>1. \A h \in given' : g.nr = h.nr => g = h
        BY <1>1, <1>7, <2>2
      <3>2. \A i \in 1..Len(queue') : t <= queue'[i].t /\ queue'[i].s.id # s.id
        BY <1>4 DEF QueueIsSound
      <3> QED
        BY <1>5, <1>6, <2>2, <3>1, <3>2
    <2> QED
      BY <1>1, <2>1, <2>2
  <1>15. RecordIsSound'
    <2>1. \A i \in 1..Len(queue') : \E k \in 1..Len(queue) : queue'[i] = queue[k]
      BY <1>4
    <2>2. times' = times /\ file' = file /\ now' = now
      BY <1>1 DEF recordVars
    <2>3. ASSUME NEW g \in given
          PROVE  /\ \/ [at |-> g.t, nr |-> g.nr] \in times
                    \/ g.t + Hour <= now /\ \A i \in 1..Len(queue') : g.t + Hour <= queue'[i].t
                 /\ [at |-> g.t, nr |-> g.nr] \in file \/ g.t + Hour <= now
      BY <2>1 DEF RecordIsSound
    <2>4. [at |-> new.t, nr |-> new.nr] \in times \cap file
      BY <1>2
    <2>5. given' = given \cup {new}
      BY <1>1
    <2> HIDE DEF new
    <2>6. ASSUME NEW g \in given'
          PROVE  /\ \/ [at |-> g.t, nr |-> g.nr] \in times'
                    \/ g.t + Hour <= now' /\ \A i \in 1..Len(queue') : g.t + Hour <= queue'[i].t
                 /\ [at |-> g.t, nr |-> g.nr] \in file' \/ g.t + Hour <= now'
      <3>1. CASE g \in given
        BY <2>2, <2>3, <3>1
      <3>2. CASE g = new
        BY <2>2, <2>4, <3>2
      <3> QED
        BY <2>5, <3>1, <3>2
    <2> QED
      BY <2>6 DEF RecordIsSound
  <1>16. StepIsSound'
    BY <1>1 DEF StepIsSound
  <1> QED
    BY <1>9, <1>11, <1>12, <1>13, <1>14, <1>15, <1>16 DEF SignerInv

LEMMA RestartKeeps == SignerIInv /\ Restart => SignerIInv'
  <1> SUFFICES ASSUME SignerIInv, Restart PROVE SignerIInv'
    OBVIOUS
  <1> USE DEF SignerIInv
  <1>1. /\ restarts' = restarts + 1 /\ now' = now + 1 /\ startedAt' = now + 1 /\ seen' = {}
        /\ queue' = <<>> /\ step' = "idle" /\ times' = file
        /\ UNCHANGED <<maxPerHour, sent, file, made, pendingNonce, given>>
    BY DEF Restart
  <1>2. now \in Nat /\ Len(queue') = 0 /\ queue' \in Seq([s : Request, t : Nat])
    BY <1>1 DEF SignerTypes
  <1>3. \A g \in given : g.t \in Nat /\ g.t <= now
    BY DEF SignerTypes, GivenIsSound
  <1>4. SignerTypes'
    BY <1>1, <1>2 DEF SignerTypes
  <1>5. SentIsSound'
    BY <1>1, <1>2 DEF SentIsSound, SignerTypes, Request
  <1>6. QueueIsSound'
    BY <1>1, <1>2 DEF QueueIsSound
  <1>7. GivenIsSound'
    BY <1>1, <1>2, <1>3 DEF GivenIsSound
  <1>8. RecordIsSound'
    <2>1. \A g \in given : [at |-> g.t, nr |-> g.nr] \in file \/ g.t + Hour <= now
      BY DEF RecordIsSound
    <2>2. \A g \in given : g.t + Hour <= now => g.t + Hour <= now'
      BY <1>1, <1>2, <1>3, SignerAssumption
    <2>3. times' = file /\ file' = file /\ given' = given /\ 1..Len(queue') = {}
      BY <1>1, <1>2
    <2> QED
      BY <2>1, <2>2, <2>3 DEF RecordIsSound
  <1>9. StepIsSound' /\ SignerInv'
    BY <1>1, AnswersKept DEF StepIsSound
  <1> QED
    BY <1>4, <1>5, <1>6, <1>7, <1>8, <1>9

LEMMA LandsKeeps == SignerIInv /\ Lands => SignerIInv'
  <1> SUFFICES ASSUME SignerIInv, Lands PROVE SignerIInv'
    OBVIOUS
  <1> USE DEF SignerIInv
  <1>1. /\ pendingNonce' = pendingNonce + 1
        /\ UNCHANGED <<recordVars, now, startedAt, sent, seen, queue, step, given, restarts>>
    BY DEF Lands
  <1>2. SignerTypes'
    BY <1>1 DEF SignerTypes, recordVars
  <1> QED
    BY <1>1, <1>2 DEF SentIsSound, QueueIsSound, GivenIsSound, RecordIsSound, StepIsSound, Remembered,
                      Fresh, WarmedUp, SignerInv, SignedOnce, CapHolds, recordVars

LEMMA TickKeeps == SignerIInv /\ Tick => SignerIInv'
  <1> SUFFICES ASSUME SignerIInv, Tick PROVE SignerIInv'
    OBVIOUS
  <1> USE DEF SignerIInv
  <1>1. /\ now' = now + 1
        /\ UNCHANGED <<recordVars, startedAt, sent, seen, queue, step, pendingNonce, given, restarts>>
    BY DEF Tick
  <1>2. now \in Nat /\ startedAt \in Nat /\ Skew \in Nat /\ Hour \in Nat
    BY SignerAssumption DEF SignerTypes
  <1>3. SignerTypes'
    BY <1>1, <1>2 DEF SignerTypes, recordVars
  <1>4. \A s \in Request : s.ts \in Nat /\ (Remembered(s) => Remembered(s)')
    BY <1>1, <1>2 DEF Remembered, Request
  <1>5. SentIsSound'
    BY <1>1, <1>2, <1>4 DEF SentIsSound, SignerTypes
  <1>6. \A i \in 1..Len(queue) : queue[i].s \in Request /\ queue[i].t \in Nat
    <2>1. \A i \in 1..Len(queue) : queue[i] \in [s : Request, t : Nat]
      BY InQueue DEF SignerTypes
    <2> QED
      BY <2>1
  <1>7. QueueIsSound'
    BY <1>1, <1>2, <1>4, <1>6 DEF QueueIsSound, Fresh, Remembered
  <1>8. \A g \in given : g.s \in Request /\ g.t \in Nat
    BY DEF SignerTypes
  <1>9. GivenIsSound'
    BY <1>1, <1>2, <1>4, <1>8 DEF GivenIsSound, Remembered, recordVars
  <1>10. RecordIsSound'
    <2>1. \A g \in given : g.t + Hour <= now => g.t + Hour <= now'
      BY <1>1, <1>2, <1>8
    <2>2. times' = times /\ file' = file /\ given' = given /\ queue' = queue
      BY <1>1 DEF recordVars
    <2> QED
      BY <2>1, <2>2 DEF RecordIsSound
  <1>11. StepIsSound' /\ SignerInv'
    BY <1>1, AnswersKept DEF StepIsSound, WarmedUp, recordVars
  <1> QED
    BY <1>3, <1>5, <1>7, <1>9, <1>10, <1>11

LEMMA SignerStutters == SignerIInv /\ UNCHANGED vars => SignerIInv'
  BY DEF vars, recordVars, SignerIInv, SignerTypes, SentIsSound, QueueIsSound, GivenIsSound, RecordIsSound,
         StepIsSound, Remembered, Fresh, WarmedUp, SignerInv, SignedOnce, CapHolds

------------------------------------------------------------------------------
\* The signer (signer.js) answers a request with one signature, however often it comes and whatever a
\* restart forgets, and no hour of arrivals has more signatures than SIGNER_MAX_PER_HOUR.
THEOREM SignerHolds == Spec => []SignerInv
  <1>1. SignerIInv /\ [Next]_vars => SignerIInv'
    BY AskKeeps, ArrivesKeeps, BeginsKeeps, ReadsChainKeeps, SignsKeeps, AnswersKeeps, RestartKeeps,
       LandsKeeps, TickKeeps, SignerStutters DEF Next
  <1>2. SignerIInv => SignerInv
    BY DEF SignerIInv
  <1> QED
    BY SignerStarts, <1>1, <1>2, PTL DEF Spec
================================================================================
