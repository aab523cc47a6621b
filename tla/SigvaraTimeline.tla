---------------------------- MODULE SigvaraTimeline ----------------------------
(***************************************************************************)
(* The timeline of one agent's proposals, as the epochs page shows it when *)
(* the event index does not answer: pages of the explorer's logs, and the  *)
(* newest blocks read from the chain at the same time, put together and    *)
(* read as what became of each proposal.  The explorer's own index stopped *)
(* once; it may go on from anywhere, and fill in the rest later or never.  *)
(*                                                                         *)
(* A block's number is its time.  Bounds: MaxBlock, MaxLogs, MaxFaults     *)
(* reads that fail, MaxLooks looks at the page.                            *)
(***************************************************************************)
EXTENDS Integers, Sequences, SequencesExt, FiniteSets, FiniteSetsExt

CONSTANTS
    ExplorerPage,     \* EXPLORER_PAGE
    ExplorerPages,    \* how many pages are read
    TailBlocks,       \* TAIL_BLOCKS
    StalledAt,        \* INDEX_STALLED_AT
    MaxBlock, MaxLogs, MaxFaults, MaxLooks

TimelineAssumption ==
    /\ {ExplorerPage, ExplorerPages, TailBlocks, StalledAt, MaxBlock, MaxLogs, MaxLooks} \subseteq Nat \ {0}
    /\ MaxFaults \in Nat /\ StalledAt < MaxBlock

VARIABLES
    logs,       \* the agent's, oldest first: [name, block, index]
    made,       \* history: its proposals, and what became of each: [at, fate, end]
    head,
    later,      \* the blocks after StalledAt that the explorer has indexed
    look,       \* where a look at the page has got to
    shown,      \* what it shows, or NoView
    kept,       \* what the tab keeps, or NoView
    looks, faults

chainVars == <<logs, made, head>>
vars == <<logs, made, head, later, look, shown, kept, looks, faults>>

NoView == [logs |-> <<>>, truncated |-> FALSE, error |-> FALSE, missed |-> FALSE, to |-> 0]
Idle == [stage |-> "idle"]

Open == made # <<>> /\ Last(made).fate = "open"
Zeroed == made # <<>> /\ Last(made).fate = "zeroed"

------------------------------------------------------------------------------
(* The reputation contract. A log goes to the block being made.            *)

Emit(name) ==
    /\ Len(logs) < MaxLogs /\ head < MaxBlock /\ ~Zeroed
    /\ logs' = Append(logs, [name |-> name, block |-> head + 1, index |-> Len(logs)])
    /\ UNCHANGED <<head, later, look, shown, kept, looks, faults>>

Ended(how) == IF Open THEN [made EXCEPT ![Len(made)] = [@ EXCEPT !.fate = how, !.end = head + 1]] ELSE made
Entry(fate) == [at |-> head + 1, fate |-> fate, end |-> 0]

ProposeScore == Emit("ScoreProposed") /\ made' = Append(Ended("replaced"), Entry("open"))
FinalizeScore == Open /\ Emit("ReputationUpdated") /\ made' = Ended("finalized")
RejectScore == Open /\ Emit("ScoreRejected") /\ made' = Ended("rejected")
ZeroReputation == Emit("ReputationZeroed") /\ made' = Append(Ended("cleared"), Entry("zeroed"))

Mine ==
    /\ head < MaxBlock /\ head' = head + 1
    /\ UNCHANGED <<logs, made, later, look, shown, kept, looks, faults>>

\* The explorer, which stopped: from any block on, one after another, and any of those it left out.
IndexBlock ==
    /\ \E b \in (StalledAt + 1)..head \ later :
        /\ b <= (IF later = {} THEN head ELSE Max(later) + 1)
        /\ later' = later \cup {b}
    /\ UNCHANGED <<chainVars, look, shown, kept, looks, faults>>

------------------------------------------------------------------------------
(* The page.                                                               *)

Indexed == SelectSeq(logs, LAMBDA l : l.block <= StalledAt \/ l.block \in later)

\* mergeLogs: oldest first, a log both hold once.
MergeLogs(a, b) == LET held == ToSet(a) \cup ToSet(b) IN SelectSeq(logs, LAMBDA l : l \in held)

\* A look at the page: what the tab keeps, or the two reads.
Look ==
    /\ look = Idle /\ head >= StalledAt /\ looks < MaxLooks /\ looks' = looks + 1
    /\ IF kept # NoView THEN shown' = kept /\ UNCHANGED look
       ELSE /\ look' = [stage |-> "reading", from |-> 0, page |-> 0, got |-> <<>>, more |-> TRUE,
                        tail |-> "range", tailFrom |-> 0, to |-> 0, missed |-> FALSE, rows |-> <<>>]
            /\ UNCHANGED shown
    /\ UNCHANGED <<chainVars, later, kept, faults>>

Pending == look.stage = "reading"

\* explorerLogs, one page: a full one is gone on from its last block.
ReadPage ==
    /\ Pending /\ look.more /\ look.page < ExplorerPages
    /\ LET there == SelectSeq(Indexed, LAMBDA l : l.block >= look.from)
           rows == SubSeq(there, 1, IF Len(there) < ExplorerPage THEN Len(there) ELSE ExplorerPage)
           full == Len(rows) >= ExplorerPage
       IN look' = [look EXCEPT !.got = MergeLogs(@, rows), !.page = @ + 1, !.more = full,
                               !.from = IF full THEN Last(rows).block ELSE @]
    /\ UNCHANGED <<chainVars, later, shown, kept, looks, faults>>

\* The block the explorer is relied on up to; 0 when it does not say which is its newest.
Trusted(newest) == IF newest = 0 \/ newest > StalledAt THEN StalledAt ELSE newest

\* tailRange: from past that block, or TAIL_BLOCKS back, to the newest.
TailRange ==
    /\ Pending /\ look.tail = "range"
    /\ \E newest \in {0, Max(later \cup {StalledAt})} :
        LET next == Trusted(newest) + 1
            floor == head - TailBlocks + 1
        IN look' = [look EXCEPT !.tail = "logs", !.tailFrom = IF floor > next THEN floor ELSE next,
                                !.to = head, !.missed = floor > next]
    /\ UNCHANGED <<chainVars, later, shown, kept, looks, faults>>

\* chainHistory, over the range.
ReadTail ==
    /\ Pending /\ look.tail = "logs"
    /\ look' = [look EXCEPT !.tail = "read", !.rows = SelectSeq(logs, LAMBDA l : look.tailFrom <= l.block /\ l.block <= look.to)]
    /\ UNCHANGED <<chainVars, later, shown, kept, looks, faults>>

\* The chain's part failing is said; the explorer's is the whole look's failure.
ReadFails ==
    /\ Pending /\ faults < MaxFaults /\ faults' = faults + 1
    /\ \/ look.tail \in {"range", "logs"} /\ look' = [look EXCEPT !.tail = "error"]
       \/ look.more /\ look.page < ExplorerPages /\ look' = Idle
    /\ UNCHANGED <<chainVars, later, shown, kept, looks>>

\* explorerHistory. One with the chain's part unread is not kept.
Show ==
    /\ Pending /\ look.tail \in {"read", "error"} /\ (~look.more \/ look.page = ExplorerPages)
    /\ shown' = [logs |-> MergeLogs(look.got, look.rows), truncated |-> look.more,
                 error |-> look.tail = "error", missed |-> look.tail = "read" /\ look.missed, to |-> look.to]
    /\ kept' = IF look.tail = "error" THEN kept ELSE shown'
    /\ look' = Idle
    /\ UNCHANGED <<chainVars, later, looks, faults>>

\* Ten minutes later, or another tab.
Forget ==
    /\ kept # NoView /\ kept' = NoView /\ shown' = NoView
    /\ UNCHANGED <<chainVars, later, look, looks, faults>>

\* buildEpochs: each proposal, and what ended it, or the next one.
BuildEpochs(seq) ==
    LET End(epochs, how, l) ==
            IF epochs # <<>> /\ Last(epochs).fate = "open"
            THEN [epochs EXCEPT ![Len(epochs)] = [@ EXCEPT !.fate = how, !.end = l.block]] ELSE epochs
        New(l, fate) == [at |-> l.block, fate |-> fate, end |-> 0]
        Step(epochs, l) ==
            CASE l.name = "ScoreProposed"     -> Append(End(epochs, "replaced", l), New(l, "open"))
              [] l.name = "ReputationUpdated" -> End(epochs, "finalized", l)
              [] l.name = "ScoreRejected"     -> End(epochs, "rejected", l)
              [] l.name = "ReputationZeroed"  -> Append(End(epochs, "cleared", l), New(l, "zeroed"))
    IN FoldLeft(Step, <<>>, seq)

Init ==
    /\ logs = <<>> /\ made = <<>> /\ head = 0 /\ later = {}
    /\ look = Idle /\ shown = NoView /\ kept = NoView /\ looks = 0 /\ faults = 0

Next ==
    \/ ProposeScore \/ FinalizeScore \/ RejectScore \/ ZeroReputation \/ Mine \/ IndexBlock
    \/ Look \/ ReadPage \/ TailRange \/ ReadTail \/ ReadFails \/ Show \/ Forget

Spec == Init /\ [][Next]_vars

------------------------------------------------------------------------------
(* What it should guarantee.                                               *)

Quiet == shown # NoView /\ ~shown.truncated /\ ~shown.error /\ ~shown.missed

\* What had become of each proposal by a block.
By(block) ==
    LET there == SelectSeq(made, LAMBDA e : e.at <= block)
    IN [i \in DOMAIN there |-> IF there[i].end > block THEN [there[i] EXCEPT !.fate = "open", !.end = 0] ELSE there[i]]

\* A timeline under no warning is whole up to the newest block read from the chain: every proposal is there, with
\* what had really become of it, whatever the explorer had indexed by the time of each read.
QuietIsWhole == Quiet => BuildEpochs(SelectSeq(shown.logs, LAMBDA l : l.block <= shown.to)) = By(shown.to)

==============================================================================
