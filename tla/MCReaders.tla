------------------------------ MODULE MCReaders ------------------------------
(***************************************************************************)
(* Who reads the oracle from outside: a service's gate, which admits       *)
(* agents, the agent page, the epochs page, and what a reader recomputes   *)
(* of signatures and evidence roots. They share a run and nothing else:    *)
(* focus names the one that moves.                                         *)
(***************************************************************************)
EXTENDS SigvaraGate, TLC

CONSTANTS x, y

\* The two admissions are interchangeable.
Symmetry == Permutations(Admits)

MCSetups == {<<"memory", FALSE>>, <<"pair", TRUE>>, <<"shared", FALSE>>, <<"server", FALSE>>}
MCAsking == {<<"a", 1>>}
MCWriting == {<<"b", 1>>, <<"b", 2>>}

\* The wallet runs agent "a", and "b" or not.
Holds(mine, status, stake, queued) ==
    [mine |-> mine, status |-> status, stake |-> stake, queued |-> queued, ripe |-> FALSE,
     slash |-> "None", paused |-> FALSE, locked |-> FALSE]
MCStarts ==
    {("a" :> Holds(TRUE, s[1], s[2], s[3])) @@ ("b" :> Holds(mine, "Active", 2, 0)) :
        s \in {<<"PendingBond", 0, 0>>, <<"Active", 1, 1>>, <<"Suspended", 1, 0>>}, mine \in BOOLEAN}

\* One payment on a payment chain, the other on the scored chain.
MCDelay == "p" :> 1 @@ "q" :> 0

VARIABLES
    focus,      \* the component that moves; the others stay as they start
    pagePatient, pageChain, pageAccount, pageBox, pageDid, pageCard, pageLookups, pagePresses,
    pageLast, pageActs, signatureAccount, signatureSignature, signatureHeld, signatureRefused,
    signatureTold, signatureFaults, timelineLogs, timelineMade, timelineHead, timelineLater,
    timelineLook, timelineShown, timelineKept, timelineLooks, timelineFaults, matchNow,
    matchSettled, matchOutcome, matchScanned, matchPending, matchFinal, matchPage

AgentPage == INSTANCE SigvaraPage WITH
    Agents <- {"a", "b"}, NoAgent <- "none", Minimum <- 1, Starts <- MCStarts, MaxActs <- 3,
    patient <- pagePatient, chain <- pageChain, account <- pageAccount, box <- pageBox,
    did <- pageDid, card <- pageCard, lookups <- pageLookups, presses <- pagePresses,
    last <- pageLast, acts <- pageActs

Signature == INSTANCE SigvaraSignature WITH
    Poster <- "poster", Importer <- "importer", Reader <- "reader", Archive <- {"reader"},
    Kept <- 2, MaxBlock <- 4, MaxFaults <- 1, account <- signatureAccount,
    signature <- signatureSignature, held <- signatureHeld, refused <- signatureRefused,
    told <- signatureTold, faults <- signatureFaults

Timeline == INSTANCE SigvaraTimeline WITH
    ExplorerPage <- 2, ExplorerPages <- 2, TailBlocks <- 2, StalledAt <- 1, MaxBlock <- 4,
    MaxLogs <- 3, MaxFaults <- 1, MaxLooks <- 2, logs <- timelineLogs, made <- timelineMade,
    head <- timelineHead, later <- timelineLater, look <- timelineLook, shown <- timelineShown,
    kept <- timelineKept, looks <- timelineLooks, faults <- timelineFaults

Match == INSTANCE SigvaraMatch WITH
    Payments <- {"p", "q"}, Delay <- MCDelay, Active <- TRUE, Quantum <- 2, AuditWindow <- 4,
    MaxTime <- 4, now <- matchNow, settled <- matchSettled, outcome <- matchOutcome,
    scanned <- matchScanned, pending <- matchPending, final <- matchFinal, page <- matchPage

ASSUME Signature!SignatureAssumption
ASSUME Timeline!TimelineAssumption
ASSUME Match!MatchAssumption

pageVars ==
    <<pagePatient, pageChain, pageAccount, pageBox, pageDid, pageCard, pageLookups,
      pagePresses, pageLast, pageActs>>
signatureVars ==
    <<signatureAccount, signatureSignature, signatureHeld, signatureRefused, signatureTold,
      signatureFaults>>
timelineVars ==
    <<timelineLogs, timelineMade, timelineHead, timelineLater, timelineLook, timelineShown,
      timelineKept, timelineLooks, timelineFaults>>
matchVars ==
    <<matchNow, matchSettled, matchOutcome, matchScanned, matchPending, matchFinal, matchPage>>
runVars == <<focus, vars, pageVars, signatureVars, timelineVars, matchVars>>

RunInit ==
    /\ focus \in {"gate", "page", "signature", "timeline", "match"}
    /\ Init /\ (focus = "gate" \/ store = "memory")
    /\ AgentPage!Init /\ (focus = "page" \/ (pagePatient /\ pageBox = "a" /\ pageChain = CHOOSE c \in MCStarts : TRUE))
    /\ Signature!Init /\ (focus = "signature" \/ signatureAccount = <<"none">>)
    /\ Timeline!Init
    /\ Match!Init

RunNext ==
    \/ focus = "gate" /\ Next /\ UNCHANGED <<focus, pageVars, signatureVars, timelineVars, matchVars>>
    \/ focus = "page" /\ AgentPage!Next /\ UNCHANGED <<focus, vars, signatureVars, timelineVars, matchVars>>
    \/ focus = "signature" /\ Signature!Next /\ UNCHANGED <<focus, vars, pageVars, timelineVars, matchVars>>
    \/ focus = "timeline" /\ Timeline!Next /\ UNCHANGED <<focus, vars, pageVars, signatureVars, matchVars>>
    \/ focus = "match" /\ Match!Next /\ UNCHANGED <<focus, vars, pageVars, signatureVars, timelineVars>>

RunSpec == RunInit /\ [][RunNext]_runVars

------------------------------------------------------------------------------
\* A button that is live is a call the contracts take, and a patient wallet's call goes to the agent shown
\* (app.js); a signature one operator takes the other can take (payer-outcome.js); a quiet stretch of the
\* timeline has no log left out (epochs.js); evidence nobody changed is found under its root (explorer.js).
ReadersInv ==
    /\ focus = "page" => AgentPage!ButtonsAreAccepted /\ AgentPage!PatientSendsToTheShown
    /\ focus = "signature" => Signature!SignatureInv
    /\ focus = "timeline" => Timeline!QuietIsWhole
    /\ focus = "match" => Match!UnchangedIsFound
==============================================================================
