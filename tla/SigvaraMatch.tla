----------------------------- MODULE SigvaraMatch -----------------------------
(***************************************************************************)
(* A reader rebuilding an evidence root: the explorer's pages, and the     *)
(* MCP server's tool with the SDK, which has the same search.  A proposal  *)
(* commits to the payments an oracle held by a cut-off, with what it knew  *)
(* of each then.  The reader has only what the oracle lists later, and the *)
(* root and the time of the proposal, each read at a time of its own.      *)
(*                                                                         *)
(* A root is the set of leaves it is over, their order being fixed, and    *)
(* hashing taken to be injective.  Bound: MaxTime.                         *)
(***************************************************************************)
EXTENDS Integers, FiniteSets, FiniteSetsExt

CONSTANTS
    Payments,
    Delay,            \* how long after settling a payment counts: 0 on the scored chain
    Active,           \* whether the oracle reads payment chains, and so cuts its evidence
    Quantum,          \* CUT_QUANTUM_MS
    AuditWindow,      \* AUDIT_WINDOW_MS
    MaxTime

MatchAssumption ==
    /\ Delay \in [Payments -> Nat] /\ Active \in BOOLEAN
    /\ {Quantum, AuditWindow, MaxTime} \subseteq Nat \ {0}

Never == MaxTime + 1000       \* later than every time here
NoRoot == [at |-> Never, leaves |-> {}]

VARIABLES
    now,
    settled,      \* when each payment settled, or Never
    outcome,      \* what its outcome is, and whose word: [source, success]
    scanned,      \* how far the oracle has scanned
    pending, final,   \* the roots on chain, and when each was proposed
    page          \* what the reader has: the list, the pending root, the final one

vars == <<now, settled, outcome, scanned, pending, final, page>>

Unreported == [source |-> "none", success |-> "null"]
Outcomes ==
    {[source |-> "credentialed", success |-> "true"]}
        \cup {[source |-> "payer", success |-> s] : s \in {"true", "false"}}
Nothing == [list |-> {}, heard |-> FALSE, pending |-> NoRoot, final |-> NoRoot]

Leaf(e) == [of |-> e.of, success |-> e.outcome.success]
UnsetLeaf(e) == IF e.outcome.source = "payer" THEN [Leaf(e) EXCEPT !.success = "null"] ELSE Leaf(e)
Root(entries) == {Leaf(e) : e \in entries}

------------------------------------------------------------------------------
(* The oracle and the chain. Once the list is read, what the oracle learns *)
(* is of no more use to the reader, and is left out.                       *)

\* What it holds, as it would list it.
Held == {[of |-> p, settledAt |-> settled[p], outcome |-> outcome[p]] : p \in {q \in Payments : settled[q] <= scanned}}

\* When a payment starts to count.
CountsAt(e) == e.settledAt + Delay[e.of]

\* What counted by a cut-off, with a payment chain on, or all it holds of the scored chain. A cut-off is a whole
\* quantum, one before its clock.
Wholes == {Quantum * k : k \in 0..(MaxTime \div Quantum)}
CutFor(t) == (t \div Quantum) * Quantum - Quantum
Chosen(cut) == IF Active THEN {e \in Held : CountsAt(e) <= cut} ELSE Held

Settle(p) ==
    /\ ~page.heard /\ settled[p] = Never /\ (Delay[p] = 0 \/ Active)
    /\ settled' = [settled EXCEPT ![p] = now]
    /\ UNCHANGED <<now, outcome, scanned, pending, final, page>>

\* An outcome for a payment it holds, from a credential, or from the payer, whose word replaces it.
TakeOutcome(p) ==
    /\ ~page.heard /\ settled[p] <= scanned
    /\ \E o \in Outcomes :
        /\ outcome[p].source = "none" \/ (o.source = "payer" /\ outcome[p].source = "credentialed")
        /\ outcome' = [outcome EXCEPT ![p] = o]
    /\ UNCHANGED <<now, settled, scanned, pending, final, page>>

Scan ==
    /\ ~page.heard /\ scanned < now /\ scanned' = now
    /\ UNCHANGED <<now, settled, outcome, pending, final, page>>

\* A proposal, dated when it lands, within the window of the cut-off its evidence was chosen at.
Propose ==
    /\ pending = NoRoot
    /\ \E cut \in Wholes :
        /\ Active => cut <= CutFor(now) /\ cut < scanned /\ now - cut < AuditWindow
        /\ pending' = [at |-> now, leaves |-> Root(Chosen(cut))]
    /\ UNCHANGED <<now, settled, outcome, scanned, final, page>>

Finalize ==
    /\ pending # NoRoot
    /\ final' = pending /\ pending' = NoRoot
    /\ UNCHANGED <<now, settled, outcome, scanned, page>>

Tick ==
    /\ now < MaxTime /\ now' = now + 1
    /\ UNCHANGED <<settled, outcome, scanned, pending, final, page>>

------------------------------------------------------------------------------
(* The reader.                                                             *)

\* The agents it shows, with their final roots, come first; a check then asks for the rest at once.
ReadFinal ==
    /\ page = Nothing /\ final # NoRoot
    /\ page' = [page EXCEPT !.final = final]
    /\ UNCHANGED <<now, settled, outcome, scanned, pending, final>>

ReadEvidence ==
    /\ ~page.heard /\ page' = [page EXCEPT !.list = Chosen(CutFor(now)), !.heard = TRUE]
    /\ UNCHANGED <<now, settled, outcome, scanned, pending, final>>

ReadPending ==
    /\ page.pending = NoRoot /\ pending # NoRoot
    /\ page' = [page EXCEPT !.pending = pending]
    /\ UNCHANGED <<now, settled, outcome, scanned, pending, final>>

\* The cut-offs to try: a proposal's own time, and the whole quanta up to the window before it; or for a root of
\* unknown time, none and each settlement.
Cuts(list, at) ==
    IF at = Never THEN {Never} \cup {CountsAt(e) : e \in list}
    ELSE {at} \cup (IF Active THEN {w \in Wholes : w < at /\ w > at - AuditWindow} ELSE {})

\* The two ways each is read: as listed, and with every outcome a payer signed set back to unreported.
Readings(entries) == {Root(entries), {UnsetLeaf(e) : e \in entries}}

\* matchRoot, matchEvidenceRoot. A final root over nothing is the zero hash, which the reader takes for none.
Matches(list, root, at) ==
    \E cut \in Cuts(list, at) : root.leaves \in Readings({e \in list : CountsAt(e) <= cut})

FoundPending == Matches(page.list, page.pending, page.pending.at)
FoundFinal == Matches(page.list, page.final, Never)

Init ==
    /\ now = 0 /\ scanned = 0
    /\ settled = [p \in Payments |-> Never] /\ outcome = [p \in Payments |-> Unreported]
    /\ pending = NoRoot /\ final = NoRoot /\ page = Nothing

Next ==
    \/ \E p \in Payments : Settle(p) \/ TakeOutcome(p)
    \/ Scan \/ Propose \/ Finalize \/ Tick
    \/ ReadFinal \/ ReadEvidence \/ ReadPending

Spec == Init /\ [][Next]_vars

------------------------------------------------------------------------------
(* What it should guarantee.                                               *)

\* What the list now says of the payments a root is over, and the same with the payers' outcomes set back.
Over(root) == {e \in page.list : \E l \in root.leaves : l.of = e.of}
AllListed(root) == \A l \in root.leaves : \E e \in page.list : e.of = l.of
Unchanged(root) == root.leaves = Root(Over(root)) \/ root.leaves = {UnsetLeaf(e) : e \in Over(root)}

\* No payment was on its way to the oracle when it proposed: settled, and listed now, but not in the root.
NoneOnTheWay(root) == \A e \in page.list : CountsAt(e) <= root.at => \E l \in root.leaves : l.of = e.of

\* A root made honestly is reproduced once every payment under it is listed with the outcome it was committed
\* with, or the payers signed all theirs since; however the reads of the list and of the roots fell. For a pending
\* root without cut-offs, no payment may have been on its way when it was proposed.
UnchangedIsFound ==
    page.heard =>
        /\ page.final.leaves # {} /\ AllListed(page.final) /\ Unchanged(page.final) => FoundFinal
        /\ page.pending # NoRoot /\ AllListed(page.pending) /\ Unchanged(page.pending)
             /\ (Active \/ NoneOnTheWay(page.pending)) => FoundPending

==============================================================================
