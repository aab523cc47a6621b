----------------------------- MODULE MCEvidence -----------------------------
(***************************************************************************)
(* Evidence: the store that credits payments through failures and deaths,  *)
(* and the outcomes two operators import from each other. They share a run *)
(* and nothing else: focus names the one that moves.                       *)
(***************************************************************************)
EXTENDS SigvaraEvidence, SigvaraOutcomes, TLC

CONSTANTS
    t1, t2, a1, a2, customer, buyer, seller

\* One transaction pays two agents, one of them also from the operator it is sold to; another
\* pays the first agent alone.
MCLegs ==
    {[tx |-> t1, agent |-> a1, payer |-> customer, largest |-> TRUE],
     [tx |-> t1, agent |-> a1, payer |-> buyer, largest |-> FALSE],
     [tx |-> t2, agent |-> a1, payer |-> customer, largest |-> TRUE]}

History(m1, m2, registers, sold) ==
    [mined |-> t1 :> m1 @@ t2 :> m2, registered |-> a1 :> registers, sold |-> a1 :> sold]

\* Paid in the block it registers in and sold between the payments; both payments in the block
\* it is sold in; credited by an older version; paid before it registers.
MCHistories ==
    {History(2, 3, 2, 3), History(2, 2, 1, 2), History(1, 2, 1, 3), History(1, 3, 2, 4)}

\* Two payments, one settled at the start and one that settles later; the second operator's clock
\* is a unit ahead.
MCSettled == "t1" :> 0 @@ "t2" :> 1
MCAhead == "A" :> 0 @@ "B" :> 1

VARIABLES
    focus       \* the component that moves; the other stays as it starts

runVars == <<focus, vars, outcomesVars>>

RunInit ==
    /\ focus \in {"store", "outcomes"}
    /\ Init /\ (focus = "store" \/ chain = CHOOSE h \in MCHistories : TRUE)
    /\ OutcomesInit

RunNext ==
    \/ focus = "store" /\ Next /\ UNCHANGED <<focus, outcomesVars>>
    \/ focus = "outcomes" /\ OutcomesNext /\ UNCHANGED <<focus, vars>>

\* The fairness each component has when it is the one that moves.
RunSpec ==
    /\ RunInit /\ [][RunNext]_runVars
    /\ WF_vars(focus = "store" /\ NewBlock)
    /\ WF_vars(focus = "store" /\ Load)
    /\ WF_vars(focus = "store" /\ GetRegisteredAgents)
    /\ WF_vars(focus = "store" /\ ReadPayments)
    /\ WF_vars(focus = "store" /\ FinishPaymentScan)
    /\ WF_vars(focus = "store" /\ EndEpoch)
    /\ WF_outcomesVars(focus = "outcomes" /\ Tick)
    /\ WF_outcomesVars(focus = "outcomes" /\ (\E o \in Operators : ImportItem(o)))
    /\ WF_outcomesVars(focus = "outcomes" /\ (\E o \in Operators : SaveImports(o)))

------------------------------------------------------------------------------
\* A payment is credited once, and an outcome is never taken back: the payer's is final for its leg, whoever
\* holds it (store.js, index.js, payer-outcome.js).
OutcomesOnlyGrow == EvidenceOnlyGrows /\ OutcomesAreFinal

\* In the end every payment is credited, and what one operator saved has reached the other
\* or was refused for a cause.
EvidenceArrives ==
    <>[](/\ focus = "store" => AllFound
         /\ focus = "outcomes" => AllSpread)
==============================================================================
