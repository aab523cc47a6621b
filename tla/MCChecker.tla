------------------------------ MODULE MCChecker ------------------------------
(***************************************************************************)
(* The checker: the cut-offs by which it rebuilds a proposal's evidence,   *)
(* and the epochs in which it and the primary propose, replace and reject. *)
(* They share a run and nothing else: focus names the one that moves.      *)
(***************************************************************************)
EXTENDS SigvaraCutoffs, SigvaraEpoch, TLC

\* Two chains, blocks that share a time on each, and a payment in each of them; one block holds
\* another agent's payment too, and one payment is older than the registration.
MCStamps == "arc" :> <<1, 4, 4, 5, 8>> @@ "base" :> <<2, 2, 4, 6>>
MCLag == "arc" :> 0 @@ "base" :> 1
MCDelay == "arc" :> 0 @@ "base" :> 2
Leg(c, b, a) == [chain |-> c, block |-> b, agent |-> a]
MCLegs ==
    {Leg("arc", 1, "a"), Leg("arc", 2, "a"), Leg("arc", 3, "a"),
     Leg("base", 1, "a"), Leg("base", 2, "a"), Leg("base", 2, "b")}
MCSignable == {Leg("arc", 2, "a")}
MCRegisteredAt == "a" :> 2 @@ "b" :> 2

VARIABLE focus      \* the component that moves; the other stays as it starts

ASSUME CutoffsAssumption
ASSUME EpochAssumption

runVars == <<focus, vars, cutoffsVars>>

RunInit ==
    /\ focus \in {"cutoffs", "epochs"}
    /\ CutoffsInit
    /\ Init

RunNext ==
    \/ focus = "cutoffs" /\ CutoffsNext /\ UNCHANGED <<focus, vars>>
    \/ focus = "epochs" /\ Next /\ UNCHANGED <<focus, cutoffsVars>>

\* The fairness each component has when it is the one that moves.
RunSpec ==
    /\ RunInit /\ [][RunNext]_runVars
    /\ WF_cutoffsVars(focus = "cutoffs" /\ Onward)
    /\ WF_cutoffsVars(focus = "cutoffs" /\ Land)
    /\ WF_vars(focus = "epochs" /\ CheckerSteps)
    /\ WF_vars(focus = "epochs" /\ PrimaryMovesOn)
    /\ WF_vars(focus = "epochs" /\ Tick)
    /\ WF_vars(focus = "epochs" /\ Undisturbed(Mine("P")))
    /\ WF_vars(focus = "epochs" /\ Undisturbed(Mine("C")))

------------------------------------------------------------------------------
\* Scores keep becoming live whatever becomes of the primary, and however many payments a block holds, every
\* scan reaches the last final block (index.js, epoch-policy.js, payment-chains.js).
OperatorsGoOn ==
    /\ <>[](focus = "epochs" /\ Undisputed) => []<>Renewed
    /\ <>[](focus = "cutoffs" => AllScanned)

\* A checker finds the evidence an honest proposal was made from, and what passes left out nothing that was
\* due (evidence-as-of.js, index.js audit).
AuditsAreRight == HonestIsMatched /\ WhatPasses
==============================================================================
