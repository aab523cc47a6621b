----------------------------- MODULE MCCatalogs -----------------------------
(***************************************************************************)
(* ERC-8004 from both sides: the publisher that posts scores to the        *)
(* catalogs, with its restarts, timeouts and late transactions, and the    *)
(* scan of the links that agents claim there. They share a run and nothing *)
(* else: focus names the one that moves.                                   *)
(***************************************************************************)
EXTENDS SigvaraPublisher

CONSTANTS
    da, db, ea, eb, w, x, Cleared, Nobody, NoLink

Gives(n, to) == [op |-> "owner", of |-> n, to |-> to]
Names(n, to) == [op |-> "name", of |-> n, to |-> to]
Operates(n, to) == [op |-> "operator", of |-> n, to |-> to]
Begin == <<Operates(da, w), Gives(ea, w), Gives(eb, x)>>

\* What the registries record, block by block.
MCHistories == {
    \* a repeat, and a clear
    <<Begin, <<Names(ea, da)>>, <<>>, <<Names(ea, da)>>, <<Names(ea, Cleared)>>>>,
    \* the agent is moved on to another 8004 agent and back, two names in a block
    <<Begin, <<Names(ea, da), Gives(eb, w)>>, <<Names(eb, da)>>, <<Names(ea, da), Names(eb, Cleared)>>>>,
    \* an 8004 agent minted, named and given to the operator in one block
    <<Begin, <<Names(eb, da), Gives(eb, w)>>, <<Names(ea, da)>>, <<Gives(ea, x)>>>>,
    \* an agent named before it is registered, and after
    <<Begin, <<Names(ea, db)>>, <<Operates(db, w)>>, <<Names(ea, db)>>, <<Names(ea, da)>>>>,
    \* the agent is sold: the buyer's 8004 agent takes over
    <<Begin, <<Names(ea, da), Names(eb, da)>>, <<Operates(da, x)>>, <<Names(eb, da)>>>>}

VARIABLES
    focus,      \* the component that moves; the others stay as they start
    linksChain, linksHeight, linksRegistry, linksHeld, linksSaved, linksScan, linksLinks,
    linksPost, linksFaults, linksPosts

LinkScan == INSTANCE SigvaraLinks WITH
    Dids <- {da, db}, ExtAgents <- {ea, eb}, Wallets <- {w, x}, Nobody <- Nobody, NoLink <- NoLink,
    Chains <- MCHistories, ChunkSize <- 3, MaxLogs <- 2, MaxClaims <- 3, MaxFaults <- 2,
    MaxPosts <- 1, chain <- linksChain, height <- linksHeight, registry <- linksRegistry,
    held <- linksHeld, saved <- linksSaved, scan <- linksScan, links <- linksLinks,
    post <- linksPost, faults <- linksFaults, posts <- linksPosts

ASSUME LinkScan!LinksAssumption

linksVars ==
    <<linksChain, linksHeight, linksRegistry, linksHeld, linksSaved, linksScan, linksLinks,
      linksPost, linksFaults, linksPosts>>
runVars == <<focus, publisherVars, linksVars>>

RunInit ==
    /\ focus \in {"publisher", "links"}
    /\ PublisherInit /\ (focus = "publisher" \/ \A ext \in Exts : names[ext] = None)
    /\ LinkScan!Init /\ (focus = "links" \/ linksChain = CHOOSE c \in MCHistories : TRUE)

RunNext ==
    \/ focus = "publisher" /\ PublisherNext /\ UNCHANGED <<focus, linksVars>>
    \/ focus = "links" /\ LinkScan!Next /\ UNCHANGED <<focus, publisherVars>>

\* The fairness each component has when it is the one that moves.
RunSpec ==
    /\ RunInit /\ [][RunNext]_runVars
    /\ WF_publisherVars(focus = "publisher" /\ PublisherWorks)
    /\ WF_publisherVars(focus = "publisher" /\ NewDay)
    /\ WF_publisherVars(focus = "publisher" /\ (\E tx \in inFlight : Settles(tx)))
    /\ WF_linksVars(focus = "links" /\ LinkScan!Scans)
    /\ WF_linksVars(focus = "links" /\ LinkScan!Mine)

------------------------------------------------------------------------------
\* No 8004 agent shows two of the publisher's feedbacks, and two operators score by the same link, the chain's
\* (publisher.js, link-scan.js).
CatalogsAreTrue ==
    /\ PublisherInv
    /\ focus = "links" => LinkScan!ScoredByTheChainsLink

\* In the end the catalogs show the scores there are, and every link of the chain has been scanned.
CatalogsSettle ==
    <>[](/\ focus = "publisher" => CatalogIsTrue
         /\ focus = "links" => LinkScan!AllScanned)
==============================================================================
