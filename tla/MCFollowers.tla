----------------------------- MODULE MCFollowers -----------------------------
(***************************************************************************)
(* What follows the chain from outside: the watcher of the checker's       *)
(* disputes, and the event index and the pages that read it. They share a  *)
(* run and nothing else.                                                   *)
(***************************************************************************)
EXTENDS SigvaraWatcher, SigvaraIndexer

\* What may happen to the watcher: the bounds of each try.
Bounds(proposes, recordings, changes, losses, restartings) ==
    [proposals |-> proposes, records |-> recordings, faults |-> changes, lost |-> losses,
     restarts |-> restartings]
MCPlans == {Bounds(2, 2, 0, 0, 0), Bounds(1, 1, 2, 0, 0), Bounds(1, 1, 0, 1, 1)}

\* Quiet blocks, blocks a node cannot answer with their neighbours, and one it cannot answer at all.
MCBlocks == {<<0, 2, 2, 2, 1, 0>>, <<1, 0, 3, 0, 1, 1>>}

VARIABLES
    focus       \* the component that moves; the other stays as it starts

runVars == <<focus, vars, indexerVars>>

RunInit ==
    /\ focus \in {"indexer", "watcher"}
    /\ Init /\ (focus = "watcher" \/ plan = Bounds(2, 2, 0, 0, 0))
    /\ IndexerInit /\ (focus = "indexer" \/ chain = CHOOSE c \in MCBlocks : TRUE)

RunNext ==
    \/ focus = "indexer" /\ IndexerNext /\ UNCHANGED <<focus, vars>>
    \/ focus = "watcher" /\ Next /\ UNCHANGED <<focus, indexerVars>>

\* The fairness each component has when it is the one that moves.
RunSpec ==
    /\ RunInit /\ [][RunNext]_runVars
    /\ WF_indexerVars(focus = "indexer" /\ Daemon)
    /\ WF_indexerVars(focus = "indexer" /\ Mine)
    /\ WF_indexerVars(focus = "indexer" /\ NodesCatchUp)
    /\ WF_vars(focus = "watcher" /\ Tick)
    /\ WF_vars(focus = "watcher" /\ PollStep(1))
    /\ WF_vars(focus = "watcher" /\ PollStep(2))

------------------------------------------------------------------------------
\* A dispute that stays open and readable is raised in time; and in the end the index is at the head, and a
\* blind watcher has said so (watcher.js poll, watcher-policy.js, indexer.js poll).
FollowersArrive ==
    /\ [](focus = "watcher" => RaisedInTime)
    /\ <>[](/\ focus = "indexer" => CaughtUp
            /\ focus = "watcher" => (Blind => Told))
==============================================================================
