------------------------------ MODULE SigvaraLinks ------------------------------
(***************************************************************************)
(* The links an ERC-8004 agent makes on chain: the oracle's scan of the    *)
(* MetadataSet logs, the claims it keeps, and the 8004 agent an agent is   *)
(* linked to at a snapshot.  Reads name a block of the past, so what they  *)
(* answer depends on the chain alone; only whether they answer, and how    *)
(* far the scan has come, is a matter of time.  POST /link is the other    *)
(* way to link, and yields to the first.                                   *)
(*                                                                         *)
(* Bounds: the chains of Chains, MaxFaults reads that fail and restarts,   *)
(* MaxPosts calls of POST /link.                                           *)
(***************************************************************************)
EXTENDS Integers, Sequences, FiniteSets, SequencesExt

CONSTANTS
    Dids, ExtAgents, Wallets, Nobody, NoLink,
    Chains,           \* sequences of blocks, each a sequence of operations
    ChunkSize,        \* logChunkSize
    MaxLogs,          \* a span with more logs than this is refused
    MaxClaims,        \* MAX_CLAIMS_PER_AGENT
    MaxFaults, MaxPosts

VARIABLES
    chain, height,    \* the chain, and how much of it there is
    registry,         \* the block the registry scan has reached
    held,             \* the state slot: cursor and claims, Unset until a first scan has ended
    saved,            \* the same in the file
    scan,             \* the scan on its way
    links, post,      \* the links of POST /link, and a call on its way
    faults, posts

vars == <<chain, height, registry, held, saved, scan, links, post, faults, posts>>

LinksAssumption ==
    /\ {ChunkSize, MaxLogs, MaxClaims} \subseteq Nat \ {0} /\ {MaxFaults, MaxPosts} \subseteq Nat
    /\ Nobody \notin Wallets /\ NoLink \notin ExtAgents

------------------------------------------------------------------------------
(* The chain.  The identity registries, as of the end of a block.          *)

Positions == UNION {{<<b, i>> : i \in DOMAIN chain[b]} : b \in DOMAIN chain}
OpAt(p) == chain[p[1]][p[2]]
Before(p, q) == p[1] < q[1] \/ (p[1] = q[1] /\ p[2] < q[2])
Newest(P) == CHOOSE p \in P : \A q \in P : ~Before(p, q)

\* What the newest operation of a kind on x, at or before block b, set it to.
SetTo(kind, x, b, unset) ==
    LET P == {p \in Positions : p[1] <= b /\ OpAt(p).op = kind /\ OpAt(p).of = x}
    IN  IF P = {} THEN unset ELSE OpAt(Newest(P)).to

OwnerAt(e, b) == SetTo("owner", e, b, Nobody)
OperatorAt(d, b) == SetTo("operator", d, b, Nobody)
NamedAt(e, b) == SetTo("name", e, b, NoLink)

LogsIn(from, to) == {p \in Positions : from <= p[1] /\ p[1] <= to /\ OpAt(p).op = "name"}

------------------------------------------------------------------------------
(* Claims.                                                                 *)

\* A value that is no didHash, the empty one included, claims nothing.
ClaimFromLog(p) == [did |-> OpAt(p).to, agent |-> OpAt(p).of, block |-> p[1]]
Claims(p) == OpAt(p).to \in Dids

ClaimHolds(e, d, operator, b) == NamedAt(e, b) = d /\ OwnerAt(e, b) = operator

ClaimMadeByOperator(c) ==
    LET operator == OperatorAt(c.did, c.block)
    IN  /\ operator # Nobody
        /\ OwnerAt(c.agent, c.block - 1) = operator
        /\ ClaimHolds(c.agent, c.did, operator, c.block)

AddClaim(list, c) ==
    LET all == Append(list, c)
    IN  SubSeq(all, 1 + Len(all) - (IF Len(all) > MaxClaims THEN MaxClaims ELSE Len(all)), Len(all))

\* The newest claim made by block b that still holds there.
ClaimedAgentAt(list, d, operator, b) ==
    LET holding == {i \in DOMAIN list : list[i].block <= b /\ ClaimHolds(list[i].agent, d, operator, b)}
    IN  IF holding = {} THEN NoLink ELSE list[Max(holding)].agent

------------------------------------------------------------------------------
(* The scan.                                                               *)

FromBlock == 1
Unset == [cursor |-> <<0, 0>>, claims |-> [d \in Dids |-> <<>>]]
StartCursor == <<FromBlock, 0>>
Idle == [on |-> FALSE]

\* The cursor, which is the first position not yet read.
Cursor(s) == IF s = Unset THEN StartCursor ELSE s.cursor
IsBefore(p, cursor) == Before(p, cursor)
Known == {d \in Dids : OperatorAt(d, registry) # Nobody}

ScanTo(head) == IF registry < head THEN registry ELSE head

RegistryScan ==
    /\ scan = Idle /\ registry < height
    /\ registry' = height
    /\ UNCHANGED <<chain, height, held, saved, scan, links, post, faults, posts>>

\* The first scan works on a state of its own; later ones on the one everyone reads.
StartScan ==
    /\ scan = Idle
    /\ LET state == [held EXCEPT !.cursor = Cursor(held)]
           to == ScanTo(height)
       IN  /\ state.cursor[1] <= to
           /\ scan' = [on |-> TRUE, own |-> held = Unset, state |-> state, to |-> to,
                       start |-> state.cursor[1], span |-> ChunkSize, end |-> 0, logs |-> <<>>]
    /\ UNCHANGED <<chain, height, registry, held, saved, links, post, faults, posts>>

SpanEnd == IF scan.start + scan.span - 1 < scan.to THEN scan.start + scan.span - 1 ELSE scan.to
Refused(from, to) == Cardinality(LogsIn(from, to)) > MaxLogs

\* Moves the state the scan works on, and with it the one in the slot.
Moves(state, s) ==
    /\ scan' = [s EXCEPT !.state = state]
    /\ held' = IF scan.own THEN held ELSE state

\* The scan ends, read or not: the state goes to the slot and, unless that fails, to the file.
Ends ==
    /\ scan' = Idle
    /\ held' = scan.state
    /\ saved' \in {scan.state, saved}

\* Mutant: the same span is asked for again.
Smaller_Never(from, to) == to - from + 1

Smaller(from, to) == (to - from + 2) \div 2

ReadSpan ==
    /\ scan.on /\ scan.end = 0
    /\ IF Refused(scan.start, SpanEnd)
       THEN IF SpanEnd > scan.start
            THEN /\ scan' = [scan EXCEPT !.span = Smaller(scan.start, SpanEnd)]
                 /\ UNCHANGED <<held, saved>>
            ELSE Ends
       ELSE /\ scan' = [scan EXCEPT !.end = SpanEnd,
                                    !.logs = SetToSortSeq(LogsIn(scan.start, SpanEnd), Before)]
            /\ UNCHANGED <<held, saved>>
    /\ UNCHANGED <<chain, height, registry, links, post, faults, posts>>

\* One log: before the cursor, no claim, one for an agent nobody knows, or one to ask about.
JudgeLog ==
    /\ scan.on /\ scan.logs # <<>>
    /\ LET p == scan.logs[1]
           c == ClaimFromLog(p)
           kept == Claims(p) /\ c.did \in Known /\ ClaimMadeByOperator(c)
           next == [cursor |-> <<p[1], p[2] + 1>>,
                    claims |-> IF kept THEN [scan.state.claims EXCEPT ![c.did] = AddClaim(@, c)]
                               ELSE scan.state.claims]
       IN  Moves(IF IsBefore(p, scan.state.cursor) THEN scan.state ELSE next,
                 [scan EXCEPT !.logs = Tail(@)])
    /\ UNCHANGED <<chain, height, registry, saved, links, post, faults, posts>>

EndSpan ==
    /\ scan.on /\ scan.end # 0 /\ scan.logs = <<>> /\ scan.end < scan.to
    /\ Moves([scan.state EXCEPT !.cursor = <<scan.end + 1, 0>>],
             [scan EXCEPT !.start = scan.end + 1, !.span = ChunkSize, !.end = 0])
    /\ UNCHANGED <<chain, height, registry, saved, links, post, faults, posts>>

EndScan ==
    /\ scan.on /\ scan.end # 0 /\ scan.logs = <<>> /\ scan.end = scan.to
    /\ LET state == [scan.state EXCEPT !.cursor = <<scan.end + 1, 0>>]
       IN  scan' = Idle /\ held' = state /\ saved' \in {state, saved}
    /\ UNCHANGED <<chain, height, registry, links, post, faults, posts>>

\* The node could not answer, of the logs or of a claim.
ReadFails ==
    /\ scan.on /\ faults < MaxFaults
    /\ Ends
    /\ faults' = faults + 1
    /\ UNCHANGED <<chain, height, registry, links, post, posts>>

\* Every handler that persists writes the whole state, this slot included.
Persist ==
    /\ saved' = held
    /\ UNCHANGED <<chain, height, registry, held, scan, links, post, faults, posts>>

Restart ==
    /\ faults < MaxFaults
    /\ held' = saved /\ scan' = Idle /\ post' = Idle
    /\ faults' = faults + 1
    /\ UNCHANGED <<chain, height, registry, saved, links, posts>>

------------------------------------------------------------------------------
(* POST /link, and the link that is used.                                  *)

PostReadsOperator ==
    /\ post = Idle /\ posts < MaxPosts
    /\ \E d \in Dids, e \in ExtAgents :
          post' = [on |-> TRUE, did |-> d, agent |-> e, operator |-> OperatorAt(d, height)]
    /\ posts' = posts + 1
    /\ UNCHANGED <<chain, height, registry, held, saved, scan, links, faults>>

PostReadsOwner ==
    /\ post.on
    /\ links' = IF OwnerAt(post.agent, height) = post.operator /\ post.operator # Nobody
                THEN [links EXCEPT ![post.did] = post.agent] ELSE links
    /\ post' = Idle
    /\ saved' \in {saved, held}
    /\ UNCHANGED <<chain, height, registry, held, scan, faults, posts>>

Covers(block) == Cursor(held)[1] > block

UncheckedAgents(block) ==
    {OpAt(p).to : p \in {q \in LogsIn(1, block) : ~IsBefore(q, Cursor(held)) /\ Claims(q)}}

\* linkedAgentId, and the ownership test every use of it makes.
LinkedAgentId(d, b) ==
    LET operator == OperatorAt(d, b)
        claimed == ClaimedAgentAt(held.claims[d], d, operator, b)
        used == IF claimed # NoLink THEN claimed ELSE links[d]
    IN  IF used # NoLink /\ OwnerAt(used, b) = operator THEN used ELSE NoLink

------------------------------------------------------------------------------

Mine ==
    /\ height < Len(chain)
    /\ height' = height + 1
    /\ UNCHANGED <<chain, registry, held, saved, scan, links, post, faults, posts>>

Init ==
    /\ chain \in Chains /\ height = 1 /\ registry = 1
    /\ held = Unset /\ saved = Unset /\ scan = Idle
    /\ links = [d \in Dids |-> NoLink] /\ post = Idle
    /\ faults = 0 /\ posts = 0

Scans == RegistryScan \/ StartScan \/ ReadSpan \/ JudgeLog \/ EndSpan \/ EndScan

Next ==
    \/ Scans \/ ReadFails \/ Persist \/ Restart \/ PostReadsOperator \/ PostReadsOwner \/ Mine

Spec == Init /\ [][Next]_vars

\* The epoch runs on its timer, and a node answers at last; Mine ends with the chain.
FairSpec == Spec /\ WF_vars(Scans) /\ WF_vars(Mine)

------------------------------------------------------------------------------
(* Properties.                                                             *)

\* The link the chain itself gives: the newest name an operator's own 8004 agent was given,
\* of those that hold at the snapshot.
Made(d) == {p \in LogsIn(1, height) : OpAt(p).to = d /\ ClaimMadeByOperator(ClaimFromLog(p))}
LinkOnChain(d, b) ==
    LET holding == {p \in Made(d) : p[1] <= b /\ ClaimHolds(OpAt(p).of, d, OperatorAt(d, b), b)}
    IN  IF holding = {} THEN NoLink ELSE OpAt(Newest(holding)).of

\* What an operator scores by is the chain's link, whenever its scan covers the snapshot or has
\* no unchecked log on the agent: however far past the snapshot it has read, wherever failures
\* and restarts cut its scans, and whatever was posted to it.  Two operators then agree.
ScoredByTheChainsLink ==
    \A d \in Dids, b \in 1..height :
        /\ Covers(b) \/ d \notin UncheckedAgents(b)
        /\ Cardinality(Made(d)) <= MaxClaims
        => \/ LinkedAgentId(d, b) = LinkOnChain(d, b)
           \/ LinkOnChain(d, b) = NoLink /\ LinkedAgentId(d, b) = links[d]

\* Every block is scanned in the end, whatever a node refuses to answer at once.
AllScanned == Cursor(held)[1] > Len(chain)
================================================================================
