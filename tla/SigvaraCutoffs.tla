---------------------------- MODULE SigvaraCutoffs ----------------------------
(***************************************************************************)
(* Evidence from several chains, cut by time (oracle/payment-chains.js,    *)
(* evidence-as-of.js and the parts of index.js that use them).  A primary  *)
(* chooses what one agent's score is made from at a cut-off, proposes the  *)
(* root of it, and the proposal lands a little later; a checker, whose own *)
(* scans run at other times, looks for the cut-off that explains the root. *)
(*                                                                         *)
(* Times are small numbers; a chain's blocks are the sequence of their     *)
(* timestamps, several blocks to a timestamp.  A root is the sequence of   *)
(* its leaves, a leaf a payment and whether its payer's outcome is in it.  *)
(* One proposal is followed: nothing of it is used for the next.           *)
(***************************************************************************)
EXTENDS Integers, FiniteSets, Sequences, FiniteSetsExt, SequencesExt

CONSTANTS
    Chains, Scored,     \* the chains evidence is read from; the one that is scored
    Stamps,             \* per chain, the timestamps of its blocks, in order
    Lag,                \* per chain, how old a block is when it is final
    Delay,              \* per chain, how old a payment is when it counts
    Legs,               \* payments: chain, block, agent paid
    Agent,              \* the agent whose score is followed
    RegisteredAt,       \* when each agent registered
    Quantum, Window,    \* CUT_QUANTUM_MS and AUDIT_WINDOW_MS
    Margin,             \* proposeMarginMs: a proposal sent lands sooner than this
    MaxBlocks, MaxReads,\* what one scan of a payment chain covers at most
    Cheats,             \* bound: when the primary may choose what no honest one would
    Signable, SignedAt, \* bounds: the payments whose payers sign an outcome; when operators take it
    MaxTime             \* bound: the clock

CutoffsAssumption ==
    /\ Scored \in Chains
    /\ Delay[Scored] = 0
    /\ \A c \in Chains \ {Scored} : Delay[c] >= Lag[c]
    /\ 0 < Margin /\ Margin <= Window \div 2
    /\ MaxBlocks > 0 /\ MaxReads > 0 /\ Cheats \subseteq Nat
    /\ \A c \in Chains : \A i, j \in DOMAIN Stamps[c] : i < j => Stamps[c][i] <= Stamps[c][j]

Roles == {"primary", "checker"}
NotTaken == MaxTime + 1

VARIABLES
    clock,
    reach,       \* per operator and chain, the last block scanned; 0 before the first scan
    held,        \* per operator, the agent's payments in the order they were credited
    taken,       \* per operator, when it took each payment's outcome from its payer, or NotTaken
    chosen,      \* the primary's score in hand: its cut-off, when it was chosen, its evidence
    pending      \* the proposal on chain, and what became of its audit

cutoffsVars == <<clock, reach, held, taken, chosen, pending>>

Ts(l) == Stamps[l.chain][l.block]
\* A payment made before its agent registered is never counted, whenever it is scanned.
Counts(l) == Ts(l) >= RegisteredAt[l.agent]
EligibleAt(l) == Ts(l) + Delay[l.chain]

\* The fixed order of the agent's payments: the scored chain's first, each chain's by time and
\* then by something no two payments share.
Before(l, m) ==
    \/ l.chain = Scored /\ m.chain # Scored
    \/ l.chain = m.chain /\ (Ts(l) < Ts(m) \/ (Ts(l) = Ts(m) /\ l.block < m.block))
EvidenceOrder == SetToSortSeq({l \in Legs : l.agent = Agent}, Before)
InOrder(legs) == SelectSeq(EvidenceOrder, LAMBDA l : l \in legs)

None == [stage |-> "none", cut |-> 0, at |-> 0, sent |-> 0, root |-> <<>>]
Empty == [exists |-> FALSE, at |-> 0, read |-> 0, root |-> <<>>, honest |-> TRUE, audit |-> "none"]

------------------------------------------------------------------------------
(* The scans.                                                              *)

FinalBlock(c) == Cardinality({i \in DOMAIN Stamps[c] : Stamps[c][i] <= clock - Lag[c]})

\* The time of the last block scanned: nothing before the first scan.
ReachTs(op, c) == IF reach[op][c] = 0 THEN -1 ELSE Stamps[c][reach[op][c]]

Planned(op, c, from, to) ==
    {l \in Legs : l.chain = c /\ l.block \in from..to /\ l \notin Range(held[op])}

\* Reads the payments of the blocks up to b cost: one an agent paid in a block, one a block.
Reads(legs, b) ==
    LET upto == {l \in legs : l.block <= b}
    IN  Cardinality({<<l.block, l.agent>> : l \in upto}) + Cardinality({l.block : l \in upto})

\* Just before the payments would cost more than MaxReads, but after the first block with any.
ScanEnd(legs, to) ==
    LET blocks == {l.block : l \in legs}
    IN  Min({to} \cup {b - 1 : b \in {b \in blocks : /\ Reads(legs, b) > MaxReads
                                                    /\ \E first \in blocks : first < b}})

\* One step of one scan: what it credits is kept in the order credited.
Scan(op, c) ==
    LET from == reach[op][c] + 1
        to   == IF c = Scored THEN FinalBlock(c) ELSE Min({FinalBlock(c), from + MaxBlocks - 1})
        legs == Planned(op, c, from, to)
        end  == IF c = Scored THEN to ELSE ScanEnd(legs, to)
        new  == {l \in legs : l.block <= end /\ l.agent = Agent /\ Counts(l)}
    IN  /\ from <= to
        /\ reach' = [reach EXCEPT ![op][c] = end]
        /\ held' = [held EXCEPT ![op] = @ \o InOrder(new)]
        /\ UNCHANGED <<clock, taken, chosen, pending>>

\* A payer signs an outcome and an operator takes it; a payment on another chain not scanned yet
\* is looked up, and credited when it is one the scan would credit.
Take(op, l) ==
    /\ l \in Signable /\ clock \in SignedAt
    /\ l.agent = Agent /\ taken[op][l] = NotTaken /\ Counts(l)
    /\ \/ l \in Range(held[op])
       \/ l.chain # Scored /\ l.block <= FinalBlock(l.chain)
    /\ held' = [held EXCEPT ![op] = IF l \in Range(@) THEN @ ELSE Append(@, l)]
    /\ taken' = [taken EXCEPT ![op][l] = clock]
    /\ UNCHANGED <<clock, reach, chosen, pending>>

------------------------------------------------------------------------------
(* The rule that decides what a score is made from.                        *)

Floor(t) == (t \div Quantum) * Quantum

\* The cut-off of a score made now: a whole quantum, one before.
CutFor(now) == Floor(now) - Quantum

\* Mutant: a cut-off as late as the last block scanned, which may share its time with the next.
CoveredCut_Reached(op, want) ==
    LET cap == Min({want, ReachTs(op, Scored)}
                    \cup {ReachTs(op, c) + Delay[c] : c \in Chains \ {Scored}})
    IN  IF \E c \in Chains : reach[op][c] = 0 THEN -1 ELSE Floor(cap)

\* The latest cut-off by which this operator holds everything that counted: before every scan's
\* reach, strictly, since blocks share timestamps.  None (-1) until every chain has been scanned.
CoveredCut(op, want) ==
    LET cap == Min({want, ReachTs(op, Scored) - 1}
                    \cup {ReachTs(op, c) + Delay[c] - 1 : c \in Chains \ {Scored}})
    IN  IF cap <= 0 \/ \E c \in Chains : reach[op][c] = 0 THEN -1 ELSE Floor(cap)

Behind(op, t) == \E c \in Chains \ {Scored} : reach[op][c] = 0 \/ ReachTs(op, c) <= t - Delay[c]

\* A proposal on it might not land within the window a checker searches.
CutTooOld(now, cut) == cut = -1 \/ now - cut > Window - Margin

\* Mutant: in the order this operator happened to credit them.
EventsAt_Stored(legs, cut) == SelectSeq(legs, LAMBDA l : EligibleAt(l) <= cut)

\* What counted by the cut-off, in the fixed order.
EventsAt(legs, cut) == InOrder({l \in Range(legs) : EligibleAt(l) <= cut})

\* The leaves, the outcomes in them those taken by t.
Leaves(op, legs, t) == [i \in DOMAIN legs |-> [leg |-> legs[i], signed |-> taken[op][legs[i]] <= t]]

------------------------------------------------------------------------------
(* The primary.                                                            *)

\* It has read the clock, and its evidence at the cut-off its scans cover.
Choose ==
    LET want == CutFor(clock)
        cut  == CoveredCut("primary", want)
    IN  /\ chosen.stage = "none" /\ ~pending.exists
        /\ ~Behind("primary", want)
        /\ ~CutTooOld(clock, cut)
        /\ chosen' = [stage |-> "scored", cut |-> cut, at |-> clock, sent |-> 0,
                      root |-> Leaves("primary", EventsAt(held["primary"], cut), clock)]
        /\ UNCHANGED <<clock, reach, held, taken, pending>>

\* A primary that leaves out a payment it holds, or the outcomes it holds.
Cheat ==
    /\ clock \in Cheats
    /\ chosen.stage = "none" /\ ~pending.exists
    /\ \E kept \in {Range(held["primary"]) \ {l} : l \in Legs}, t \in {-1, clock} :
          pending' = [Empty EXCEPT !.exists = TRUE, !.at = clock, !.read = clock, !.honest = FALSE,
                                   !.root = Leaves("primary", InOrder(kept), t)]
    /\ UNCHANGED <<clock, reach, held, taken, chosen>>

\* Whether it is sent is decided again, from the clock of that moment.
SendProposal ==
    /\ chosen.stage = "scored"
    /\ chosen' = IF CutTooOld(clock, chosen.cut) THEN None
                 ELSE [chosen EXCEPT !.stage = "sent", !.sent = clock]
    /\ UNCHANGED <<clock, reach, held, taken, pending>>

\* Dated by its transaction's block.
Land ==
    /\ chosen.stage = "sent"
    /\ pending' = [Empty EXCEPT !.exists = TRUE, !.at = clock, !.read = chosen.at,
                                !.root = chosen.root]
    /\ chosen' = None
    /\ UNCHANGED <<clock, reach, held, taken>>

------------------------------------------------------------------------------
(* The checker.                                                            *)

\* The cut-offs a proposal dated at may have been made at.
AuditCuts(at) == {t \in at - Window + 1 .. CutFor(at) : t % Quantum = 0}

\* What the checker may take the evidence at a cut-off to have been: with the outcomes it holds,
\* or without those it took after the proposal.
Readings(at, cut) ==
    LET legs == EventsAt(held["checker"], cut)
    IN  {Leaves("checker", legs, clock), Leaves("checker", legs, at)}

\* Not until its own scans have passed the proposal's time on every chain.
Audit ==
    /\ pending.exists /\ pending.audit = "none"
    /\ ReachTs("checker", Scored) > pending.at
    /\ ~Behind("checker", pending.at)
    /\ pending' = [pending EXCEPT !.audit =
           IF \E cut \in AuditCuts(pending.at) \cup {pending.at} : pending.root \in Readings(pending.at, cut)
           THEN "matched" ELSE "differs"]
    /\ UNCHANGED <<clock, reach, held, taken, chosen>>

------------------------------------------------------------------------------

\* A sent proposal lands within the margin, which has a quantum to spare.
ClockTicks ==
    /\ clock < MaxTime
    /\ chosen.stage = "sent" => clock + 1 - chosen.sent < Margin
    /\ clock' = clock + 1
    /\ UNCHANGED <<reach, held, taken, chosen, pending>>

CutoffsInit ==
    /\ clock = 0
    /\ reach = [op \in Roles |-> [c \in Chains |-> 0]]
    /\ held = [op \in Roles |-> <<>>]
    /\ taken = [op \in Roles |-> [l \in Legs |-> NotTaken]]
    /\ chosen = None /\ pending = Empty

CutoffsNext ==
    \/ ClockTicks \/ Choose \/ Cheat \/ SendProposal \/ Land \/ Audit
    \/ \E op \in Roles, c \in Chains : Scan(op, c)
    \/ \E op \in Roles, l \in Legs : Take(op, l)

CutoffsSpec == CutoffsInit /\ [][CutoffsNext]_cutoffsVars

\* Time passes, scans run again, and what was sent lands.  A clock and scans that are bounded
\* cannot run for ever, so it is enough that one of them does while any can.
Onward == ClockTicks \/ (\E op \in Roles, c \in Chains : Scan(op, c))
FairCutoffsSpec == CutoffsSpec /\ WF_cutoffsVars(Onward) /\ WF_cutoffsVars(Land)

------------------------------------------------------------------------------
(* Properties.                                                             *)

Audited(op) == Range(held[op])

\* An outcome on its way when the proposal was made: the checker took it after the primary had
\* read its evidence but by the proposal's time, or the primary had it and the checker took it later.
InFlight(l) ==
    LET p == taken["primary"][l]
        c == taken["checker"][l]
    IN  \/ p > pending.read /\ c <= pending.at
        \/ p <= pending.read /\ c > pending.at
        \/ p = pending.read \/ p = pending.at \/ c = pending.at

\* A checker whose scans have passed an honest proposal's time finds the evidence it was made
\* from, whatever either has scanned since and in whatever order, unless an outcome was on its way.
HonestIsMatched ==
    pending.honest /\ pending.audit = "differs" => \E l \in Legs : InFlight(l)

\* What a proposal that passes can have left out: no payment that counted before the window, and no
\* outcome the checker took before the proposal of a payment that is in it.
WhatPasses ==
    pending.audit = "matched" =>
        /\ \A l \in Audited("checker") : EligibleAt(l) <= pending.at - Window =>
              \E i \in DOMAIN pending.root : pending.root[i].leg = l
        /\ \A i \in DOMAIN pending.root :
              taken["checker"][pending.root[i].leg] < pending.at => pending.root[i].signed

\* What counted by the latest cut-off an operator's scans cover never changes again.
CoveredIsFixed ==
    [][\A op \in Roles :
          LET cut == CoveredCut(op, MaxTime)
          IN  EventsAt(held[op]', cut) = EventsAt(held[op], cut)]_held

AllScanned == \A op \in Roles, c \in Chains : reach[op][c] = Len(Stamps[c])

==============================================================================
