---------------------------- MODULE SigvaraIndexer ----------------------------
(***************************************************************************)
(* The event index and the page that reads it.  The daemon reads the       *)
(* contracts' logs in order, in batches of block spans, from a provider    *)
(* whose nodes may be behind one another and refuse what is too large; it  *)
(* saves as it goes and is restarted.  The page takes the history a page   *)
(* at a time from the index and the blocks after it from the chain.        *)
(*                                                                         *)
(* Bounds: MaxBlock, MaxFaults answers and saves that fail, MaxRestarts.    *)
(***************************************************************************)
EXTENDS Integers, Sequences, SequencesExt, FiniteSets, FiniteSetsExt

CONSTANTS
    Chains,                    \* histories to try: the number of logs in each block
    Lag,                       \* how far one node may be behind the newest
    NodeMax,                   \* the logs a node answers for one span
    LogSpan, Batch, SpansPerPoll, HeadMargin,
    MaxLogs,                   \* INDEX_MAX_LOGS
    PageRows, IndexPages, TailBlocks, IndexAhead,
    MaxBlock, MaxFaults, MaxRestarts

ASSUME IndexerAssumption ==
    /\ {LogSpan, Batch, SpansPerPoll, PageRows, IndexPages, TailBlocks, MaxBlock, NodeMax} \subseteq Nat \ {0}
    /\ {Lag, HeadMargin, MaxLogs, IndexAhead, MaxFaults, MaxRestarts} \subseteq Nat
    /\ Chains \subseteq [1..MaxBlock -> Nat]

VARIABLES
    chain, head,     \* the history, and the newest block of it that there is
    lag,             \* how far its nodes are behind by now
    index,           \* what the daemon holds: every log up to a block
    file,            \* the saved index
    savedThrough,
    full,            \* status.full
    poll,            \* where the poll has got to
    page,            \* where the page has got to
    misses, starts

indexerVars == <<chain, head, lag, index, file, savedThrough, full, poll, page, misses, starts>>
daemonVars == <<index, file, savedThrough, full, poll>>

Least(a, b) == IF a < b THEN a ELSE b
Most(a, b) == IF a < b THEN b ELSE a

\* A log is its block and its place there.
LogsIn(a, b) == UNION {{n} \X (1..chain[n]) : n \in a..b}
Past(l, after) == l[1] > after[1] \/ (l[1] = after[1] /\ l[2] > after[2])
ChainOrder(logs) == \A i, j \in DOMAIN logs : i < j => Past(logs[j], logs[i])
InOrder(S) == {logs \in [1..Cardinality(S) -> S] : ToSet(logs) = S /\ ChainOrder(logs)}
Heads == (head - Least(lag, head))..head

Fresh == [to |-> 0, logs |-> <<>>]
AtRest == [stage |-> "idle", todo |-> <<>>, pieces |-> <<>>, held |-> {}, through |-> 0]
ToRead(todo, pieces) == [stage |-> "batch", todo |-> todo, pieces |-> pieces, held |-> {}, through |-> 0]

------------------------------------------------------------------------------
(* The daemon.                                                             *)

PlanSpans(from, to) ==
    [k \in 1..(IF from > to THEN 0 ELSE (to - from) \div LogSpan + 1) |->
        [from |-> from + (k - 1) * LogSpan, to |-> Least(to, from + k * LogSpan - 1)]]

\* poll: the finalized head, as one node names it, and what to read up to the margin below it.
PollHead ==
    /\ poll.stage = "idle"
    /\ \E h \in Heads :
        LET end == Least(h - HeadMargin, index.to + SpansPerPoll * LogSpan)
        IN poll' = ToRead(PlanSpans(index.to + 1, end), <<>>)
    /\ UNCHANGED <<chain, head, lag, index, file, savedThrough, full, page, misses, starts>>

Reading == IF poll.pieces # <<>> THEN <<poll.pieces[1]>> ELSE SubSeq(poll.todo, 1, Least(Batch, Len(poll.todo)))
Through == Last(Reading).to

\* What a node at height h has of the spans, and whether it refuses one of them for its size.
Answer(h) == LogsIn(Reading[1].from, Least(h, Through))
TooMany(h) == \E i \in DOMAIN Reading : Cardinality(LogsIn(Reading[i].from, Least(h, Reading[i].to))) > NodeMax

\* Mutant: whatever the node that answered has.
HasLast_Unasked(h) == TRUE

\* The node that answered has the batch's last block.
HasLast(h) == Through <= h

\* The batches after this one, and what is left when it has been read.
Later == SubSeq(poll.todo, Len(Reading) + 1, Len(poll.todo))
Rest == IF poll.pieces # <<>> THEN ToRead(poll.todo, Tail(poll.pieces)) ELSE ToRead(Later, <<>>)
GivesUp == poll' = [AtRest EXCEPT !.stage = "save"]

\* Asked for in smaller pieces: a batch a span at a time, a span in halves. A single block has none.
Smaller ==
    IF poll.pieces = <<>> THEN poll' = ToRead(Later, Reading)
    ELSE LET s == poll.pieces[1]  mid == (s.from + s.to) \div 2
         IN IF s.from = s.to THEN GivesUp
            ELSE poll' = ToRead(poll.todo, <<[from |-> s.from, to |-> mid], [from |-> mid + 1, to |-> s.to]>>
                                            \o Tail(poll.pieces))

\* readSpans, and readBatch or readSplitting on what became of it.
ReadSpans ==
    /\ poll.stage = "batch" /\ Reading # <<>>
    /\ \E h \in Heads :
        IF TooMany(h) THEN Smaller
        ELSE IF ~HasLast(h) THEN GivesUp
        ELSE poll' = [poll EXCEPT !.stage = "take", !.held = Answer(h), !.through = Through]
    /\ UNCHANGED <<chain, head, lag, index, file, savedThrough, full, page, misses, starts>>

\* No answer in time is asked for smaller; while the times of a whole batch's blocks are read, nothing is.
ReadFails ==
    /\ poll.stage \in {"batch", "take"} /\ Reading # <<>> /\ misses < MaxFaults
    /\ misses' = misses + 1
    /\ GivesUp \/ ((poll.stage = "batch" \/ poll.pieces # <<>>) /\ Smaller)
    /\ UNCHANGED <<chain, head, lag, index, file, savedThrough, full, page, starts>>

\* take and appendLogs: all of what a read brought, or nothing.
TakeRead ==
    /\ poll.stage = "take"
    /\ IF Len(index.logs) + Cardinality(poll.held) > MaxLogs
       THEN full' = TRUE /\ GivesUp /\ UNCHANGED index
       ELSE /\ \E fresh \in InOrder(poll.held) : index' = [to |-> poll.through, logs |-> index.logs \o fresh]
            /\ full' = FALSE
            /\ poll' = Rest
    /\ UNCHANGED <<chain, head, lag, file, savedThrough, page, misses, starts>>

SavesAfter == index.to # savedThrough

\* However the poll ended, what it read is kept.
EndPoll ==
    /\ poll.stage = "save" \/ (poll.stage = "batch" /\ Reading = <<>>)
    /\ poll' = AtRest
    /\ \/ /\ IF SavesAfter THEN file' = index /\ savedThrough' = index.to ELSE UNCHANGED <<file, savedThrough>>
          /\ UNCHANGED misses
       \/ SavesAfter /\ misses < MaxFaults /\ misses' = misses + 1 /\ UNCHANGED <<file, savedThrough>>
    /\ UNCHANGED <<chain, head, lag, index, full, page, starts>>

\* Asked to stop, it saves what it holds; killed, it does not; and a file that cannot be read starts it over.
StartOver ==
    /\ starts < MaxRestarts /\ starts' = starts + 1
    /\ \E kept \in {index, file, Fresh} : index' = kept /\ file' = kept /\ savedThrough' = kept.to
    /\ full' = FALSE /\ poll' = AtRest
    /\ UNCHANGED <<chain, head, lag, page, misses>>

------------------------------------------------------------------------------
(* The page.                                                               *)

Nothing == <<0, 0>>       \* a cursor before every log
Unasked == -1
Closed == [stage |-> "closed", rows |-> {}, after |-> Nothing, pages |-> 0, to |-> 0, latest |-> Unasked,
           missed |-> {}]

\* eventsBody: the first logs past the cursor, by position, and whether there are more.
Matching == {i \in DOMAIN index.logs : Past(index.logs[i], page.after)}
OnPage == {i \in Matching : Cardinality({j \in Matching : j < i}) < PageRows}
More == OnPage # Matching
PageLogs == {index.logs[i] : i \in OnPage}

OpenPage ==
    /\ page.stage \in {"closed", "shown"}
    /\ page' = [Closed EXCEPT !.stage = "pages"]
    /\ UNCHANGED <<daemonVars, chain, head, lag, misses, starts>>

\* Where the chain takes over, when this page is the last.
TakesOver == index.to

\* One answer. A newer head is asked for after the last of several.
ReadPage ==
    /\ page.stage = "pages"
    /\ page' = IF index.to = 0 \/ page.pages = IndexPages THEN Closed
               ELSE [stage |-> IF More THEN "pages" ELSE "head", rows |-> page.rows \cup PageLogs,
                     after |-> IF More THEN index.logs[Max(OnPage)] ELSE page.after,
                     pages |-> page.pages + 1, to |-> TakesOver,
                     latest |-> IF ~More /\ page.pages > 0 THEN Unasked ELSE page.latest, missed |-> {}]
    /\ UNCHANGED <<daemonVars, chain, head, lag, misses, starts>>

\* The newest block, as the chain's RPC has it.
ReadHead ==
    /\ page.stage \in {"pages", "head"} /\ page.latest = Unasked
    /\ \E h \in Heads : page' = [page EXCEPT !.latest = h]
    /\ UNCHANGED <<daemonVars, chain, head, lag, misses, starts>>

\* The blocks after the index, or as many of the newest as the page reads; the node has the block it named.
ReadTail ==
    /\ page.stage = "head" /\ page.latest # Unasked
    /\ LET from == Most(page.to + 1, page.latest - TailBlocks + 1)
       IN page' = IF page.to > page.latest + IndexAhead THEN Closed
                  ELSE [page EXCEPT !.stage = "shown", !.rows = @ \cup LogsIn(from, page.latest),
                                    !.missed = IF from > page.to + 1 THEN (page.to + 1)..(from - 1) ELSE {}]
    /\ UNCHANGED <<daemonVars, chain, head, lag, misses, starts>>

------------------------------------------------------------------------------
Mine ==
    /\ head < MaxBlock /\ head' = head + 1
    /\ UNCHANGED <<daemonVars, chain, lag, page, misses, starts>>

NodesCatchUp ==
    /\ head = MaxBlock /\ lag' = 0
    /\ UNCHANGED <<daemonVars, chain, head, page, misses, starts>>

IndexerInit ==
    /\ chain \in Chains /\ head = 1 /\ lag = Lag
    /\ index = Fresh /\ file = Fresh /\ savedThrough = 0 /\ full = FALSE
    /\ poll = AtRest /\ page = Closed /\ misses = 0 /\ starts = 0

Daemon == PollHead \/ ReadSpans \/ TakeRead \/ EndPoll
Pages == OpenPage \/ ReadPage \/ ReadHead \/ ReadTail
IndexerNext == Daemon \/ ReadFails \/ StartOver \/ Pages \/ Mine \/ NodesCatchUp

IndexerSpec == IndexerInit /\ [][IndexerNext]_indexerVars

\* The daemon polls on, and every node comes to have the newest block.
IndexerFairSpec == IndexerSpec /\ WF_indexerVars(Daemon) /\ WF_indexerVars(Mine) /\ WF_indexerVars(NodesCatchUp)

------------------------------------------------------------------------------
(* What it should guarantee.                                               *)

\* The index, and the file it is restarted from, hold exactly the logs of the blocks they claim, in chain order,
\* whichever nodes answered, whatever was refused and wherever it stopped.
NoHole == \A held \in {index, file} : ChainOrder(held.logs) /\ ToSet(held.logs) = LogsIn(1, held.to)

\* What the page shows is every log up to the newest block it knows of, except of blocks it says it missed,
\* and no log that is not on chain, though the index moves on, or goes back, between its pages.
PageIsWhole ==
    page.stage = "shown" =>
        \A l \in LogsIn(1, MaxBlock) :
            /\ l[1] <= Most(page.to, page.latest) /\ l[1] \notin page.missed => l \in page.rows
            /\ l[1] > head => l \notin page.rows
IndexIsWhole == NoHole /\ PageIsWhole

\* The index gets to the margin below the head and is saved there, unless it is full, or a node refuses a single
\* block. A full one is saved with what it holds.
Oversized == \E b \in 1..MaxBlock : chain[b] > NodeMax
CaughtUp == Oversized \/ (file = index /\ (full \/ index.to >= MaxBlock - HeadMargin))
==============================================================================
