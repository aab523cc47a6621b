-------------------------- MODULE SigvaraReputation --------------------------
(***************************************************************************)
(* src/SigvaraReputation.sol: scores proposed by oracles, left open to the *)
(* committee's rejection for a window, made live by anyone, and released   *)
(* to consumers over time.  The module extends the oracle bond registry,   *)
(* which the contract asks whether a proposer may speak, both when it      *)
(* proposes and when its score goes live.                                  *)
(*                                                                         *)
(* The six factors are abstracted to their total and a score with its      *)
(* evidence root is a member of Proposals: out-of-range factors revert     *)
(* before anything changes.  The identity and staking contracts appear as  *)
(* what this one reads from them: whether an agent can be scored, and when *)
(* it last changed hands.                                                  *)
(***************************************************************************)
EXTENDS SigvaraOracleBond

CONSTANTS
    Agents,
    Proposals,              \* [score, root] pairs an oracle may propose
    NoRoot,                 \* bytes32(0)
    DAY,                    \* 1 days, in units of the clock
    MIN_CHALLENGE_WINDOW, MAX_CHALLENGE_WINDOW,
    Windows,                \* what the admin may ask challengeWindow to be
    MAX_MATURITY_RATE_PER_DAY,
    Rates,                  \* what the admin may ask maturityRatePerDay to be
    InitialRates,           \* 0 among them on a proxy that predates maturity
    LegacyPending,          \* agents whose pending score predates proposer and finalizableAt
    LastProposal            \* bound: nothing is proposed and no agent sold after this time

ASSUME ReputationAssumption ==
    /\ Proposals \subseteq [score : Nat \ {0}, root : {p.root : p \in Proposals}]
    /\ Proposals # {}
    /\ \A p \in Proposals : p.root # NoRoot
    /\ DAY \in Nat \ {0}
    /\ MIN_CHALLENGE_WINDOW \in Nat \ {0} /\ MAX_CHALLENGE_WINDOW \in Nat
    /\ Windows \subseteq Nat /\ Rates \subseteq Nat /\ LastProposal \in Nat
    /\ MAX_MATURITY_RATE_PER_DAY \in Nat
    /\ InitialRates \subseteq 0..MAX_MATURITY_RATE_PER_DAY
    /\ LegacyPending \subseteq Agents
    /\ "reputation" \in Registries

VARIABLES
    reputations,          \* [Agents -> [score, lastUpdated]]
    evidenceRoots,        \* [Agents -> root of the live score, or NoRoot]
    pendingScores,        \* [Agents -> pending score]
    maturedScore, maturedAt,
    challengeWindow, maturityRatePerDay,
    operatorBondSet,      \* operatorBond # address(0)
    oracles,              \* holders of ORACLE_ROLE
    identitySet,          \* identityRegistry # address(0)
    standing,             \* [Agents -> what the identity and staking contracts say]
    operatorChangedAt     \* [Agents -> time of the last sale, 0 if none], in the identity registry

scoreVars    == <<reputations, evidenceRoots, maturedScore, maturedAt>>
settingVars  == <<challengeWindow, maturityRatePerDay, operatorBondSet, oracles, identitySet>>
registryVars == <<standing, operatorChangedAt>>
reputationVars == <<scoreVars, pendingScores, settingVars, registryVars>>
vars == <<oracleBondVars, reputationVars>>

Roots == {p.root : p \in Proposals}

PendingScore ==
    [exists : BOOLEAN, score : Nat, root : Roots \cup {NoRoot}, proposedAt : Nat,
     proposer : Addresses \cup {NoAddress}, finalizableAt : Nat,
     onBehalfOf : Addresses \cup {NoAddress}]   \* history: the operator that answered for it

NothingPending ==
    [exists |-> FALSE, score |-> 0, root |-> NoRoot, proposedAt |-> 0,
     proposer |-> NoAddress, finalizableAt |-> 0, onBehalfOf |-> NoAddress]

\* _requireScorable: registered, not slashed, holding the minimum stake.
Scorable(d) == identitySet /\ standing[d] = "bonded"

\* Whether an address may propose: the role and, if a registry is set, an active operator.
MayPropose(k) == k \in oracles /\ (operatorBondSet => IsActiveOperator(k))

\* _proposerStillAuthorized
StillAuthorized(k) == k = NoAddress \/ MayPropose(k)

\* Mutant: the window in force decides.
FinalizableAt_WindowInForce(d) == pendingScores[d].proposedAt + challengeWindow

\* _finalizableAt
FinalizableAt(d) ==
    LET p == pendingScores[d] IN
    IF p.finalizableAt # 0 THEN p.finalizableAt ELSE p.proposedAt + challengeWindow

------------------------------------------------------------------------------
(* Maturity.                                                               *)

\* The score released at a time, growing from an anchor at a rate.
Released(anchor, since, rate, time) == anchor + ((time - since) * rate) \div DAY

\* Mutant: a sale in the second of a finalization is not seen.
Sold_After(d) == identitySet /\ operatorChangedAt[d] # 0 /\ operatorChangedAt[d] > maturedAt[d]

\* A sale since the anchor was set restarts maturity.
Sold(d) == identitySet /\ operatorChangedAt[d] # 0 /\ operatorChangedAt[d] >= maturedAt[d]

Since(d)  == IF Sold(d) THEN operatorChangedAt[d] ELSE maturedAt[d]
Anchor(d) == IF Sold(d) THEN 0 ELSE maturedScore[d]

\* Whether part of the earned score is still to be released.
Maturing(d) ==
    /\ reputations[d].score > Anchor(d)
    /\ Since(d) # 0 /\ maturityRatePerDay # 0
    /\ Released(Anchor(d), Since(d), maturityRatePerDay, now) < reputations[d].score

\* getTotalScore
Spendable(d) ==
    IF Maturing(d) THEN Released(Anchor(d), Since(d), maturityRatePerDay, now)
    ELSE reputations[d].score

\* Where a finalization restarts the clock: the time built up toward the next point is
\* kept, in whole units.
MaturityClock(d) ==
    IF Maturing(d)
    THEN now - (((now - Since(d)) * maturityRatePerDay) % DAY) \div maturityRatePerDay
    ELSE now

------------------------------------------------------------------------------
(* Operations.                                                             *)

\* _propose, the body of both entry points.
Propose(d, k, p) ==
    /\ now <= LastProposal
    /\ InflowsOpen("reputation")
    /\ Scorable(d)
    /\ MayPropose(k)
    /\ pendingScores' = [pendingScores EXCEPT ![d] =
           [exists |-> TRUE, score |-> p.score, root |-> p.root, proposedAt |-> now,
            proposer |-> k, finalizableAt |-> now + challengeWindow,
            onBehalfOf |-> IF operatorBondSet THEN SpeaksFor(k) ELSE NoAddress]]
    /\ UNCHANGED <<oracleBondVars, scoreVars, settingVars, registryVars>>

ProposeReputation(d, k, p) == Propose(d, k, p)

ProposeIfEmpty(d, k, p) ==
    /\ ~(pendingScores[d].exists /\ StillAuthorized(pendingScores[d].proposer))
    /\ Propose(d, k, p)

\* What finalizeReputation asks, of the agent, the window and the proposer.
MayGoLive(d) ==
    /\ Scorable(d)
    /\ pendingScores[d].exists
    /\ now >= FinalizableAt(d)
    /\ StillAuthorized(pendingScores[d].proposer)

\* What was spendable under the old score.
NextAnchor(d) == Spendable(d)

FinalizeReputation(d) ==
    LET p == pendingScores[d] IN
    /\ MayGoLive(d)
    /\ reputations' = [reputations EXCEPT ![d] = [score |-> p.score, lastUpdated |-> p.proposedAt]]
    /\ evidenceRoots' = [evidenceRoots EXCEPT ![d] = p.root]
    /\ pendingScores' = [pendingScores EXCEPT ![d] = NothingPending]
    /\ maturedScore' = [maturedScore EXCEPT ![d] = NextAnchor(d)]
    /\ maturedAt' = [maturedAt EXCEPT ![d] = MaturityClock(d)]
    /\ UNCHANGED <<oracleBondVars, settingVars, registryVars>>

\* By the slashing committee.
RejectReputation(d) ==
    /\ pendingScores[d].exists
    /\ now < FinalizableAt(d)
    /\ pendingScores' = [pendingScores EXCEPT ![d] = NothingPending]
    /\ UNCHANGED <<oracleBondVars, scoreVars, settingVars, registryVars>>

\* Mutant: the pending score survives.
ZeroedPending_Kept(d) == pendingScores

ZeroedPending(d) == [pendingScores EXCEPT ![d] = NothingPending]
ZeroedRoots(d) == [evidenceRoots EXCEPT ![d] = NoRoot]

\* zeroReputation, called by the staking core in the transaction that slashes the agent.
ZeroReputation(d) ==
    /\ standing[d] # "slashed"
    /\ standing' = [standing EXCEPT ![d] = "slashed"]
    /\ reputations' = [reputations EXCEPT ![d] = [score |-> 0, lastUpdated |-> now]]
    /\ pendingScores' = ZeroedPending(d)
    /\ evidenceRoots' = ZeroedRoots(d)
    /\ maturedScore' = [maturedScore EXCEPT ![d] = 0]
    /\ maturedAt' = [maturedAt EXCEPT ![d] = now]
    /\ UNCHANGED <<oracleBondVars, settingVars, operatorChangedAt>>

SettingFrame == UNCHANGED <<oracleBondVars, scoreVars, pendingScores, registryVars>>

\* setChallengeWindow; initializeV2 writes the same word under the same bounds.
SetChallengeWindow(newWindow) ==
    /\ newWindow \in MIN_CHALLENGE_WINDOW..MAX_CHALLENGE_WINDOW
    /\ challengeWindow' = newWindow
    /\ SettingFrame
    /\ UNCHANGED <<maturityRatePerDay, operatorBondSet, oracles, identitySet>>

\* setMaturityRate; initializeV4 writes the same word under the same bounds.
SetMaturityRate(rate) ==
    /\ rate \in 1..MAX_MATURITY_RATE_PER_DAY
    /\ maturityRatePerDay' = rate
    /\ SettingFrame
    /\ UNCHANGED <<challengeWindow, operatorBondSet, oracles, identitySet>>

\* initializeV3, once.
InitializeV3 ==
    /\ ~identitySet
    /\ identitySet' = TRUE
    /\ SettingFrame
    /\ UNCHANGED <<challengeWindow, maturityRatePerDay, operatorBondSet, oracles>>

\* Pointing at the bond registry, or at nothing, by the upgrader.
SetOperatorBond(set) ==
    /\ operatorBondSet' = set
    /\ SettingFrame
    /\ UNCHANGED <<challengeWindow, maturityRatePerDay, oracles, identitySet>>

\* grantRole and revokeRole of ORACLE_ROLE.
SetOracle(k, holds) ==
    /\ oracles' = IF holds THEN oracles \cup {k} ELSE oracles \ {k}
    /\ SettingFrame
    /\ UNCHANGED <<challengeWindow, maturityRatePerDay, operatorBondSet, identitySet>>

\* The bond of an agent comes and goes in the staking contract.
BondMoves(d) ==
    /\ standing[d] # "slashed"
    /\ standing' = [standing EXCEPT ![d] = IF @ = "bonded" THEN "unbonded" ELSE "bonded"]
    /\ UNCHANGED <<oracleBondVars, scoreVars, pendingScores, settingVars, operatorChangedAt>>

\* acceptOperatorTransfer in the identity registry, which asks for the bond.
AgentIsSold(d) ==
    /\ now <= LastProposal
    /\ standing[d] = "bonded"
    /\ operatorChangedAt' = [operatorChangedAt EXCEPT ![d] = now]
    /\ UNCHANGED <<oracleBondVars, scoreVars, pendingScores, settingVars, standing>>

------------------------------------------------------------------------------
(* The specification.                                                      *)

\* Before any call.  On an upgraded proxy the listed agents have a score pending that
\* names no proposer and no end of its window.
ReputationInit ==
    /\ reputations = [d \in Agents |-> [score |-> 0, lastUpdated |-> 0]]
    /\ evidenceRoots = [d \in Agents |-> NoRoot]
    /\ \E p \in Proposals :
           pendingScores = [d \in Agents |->
               IF d \in LegacyPending
               THEN [NothingPending EXCEPT !.exists = TRUE, !.score = p.score, !.root = p.root,
                                           !.proposedAt = now]
               ELSE NothingPending]
    /\ maturedScore = [d \in Agents |-> 0]
    /\ maturedAt = [d \in Agents |-> 0]
    /\ challengeWindow \in Windows \cap (MIN_CHALLENGE_WINDOW..MAX_CHALLENGE_WINDOW)
    /\ maturityRatePerDay \in InitialRates
    /\ operatorBondSet \in BOOLEAN
    /\ oracles = Addresses
    /\ identitySet \in BOOLEAN
    /\ standing = [d \in Agents |-> "bonded"]
    /\ operatorChangedAt = [d \in Agents |-> 0]

Init == GuardInit /\ BondRegistryInit /\ ReputationInit

Settings ==
    \/ \E w \in Windows : SetChallengeWindow(w)
    \/ \E r \in Rates : SetMaturityRate(r)
    \/ InitializeV3
    \/ \E set \in BOOLEAN : SetOperatorBond(set)
    \/ \E k \in Addresses, holds \in BOOLEAN : SetOracle(k, holds)

Next ==
    \/ OracleBondNext /\ UNCHANGED reputationVars
    \/ Settings
    \/ \E d \in Agents :
           \/ \E k \in Addresses, p \in Proposals :
                  ProposeReputation(d, k, p) \/ ProposeIfEmpty(d, k, p)
           \/ FinalizeReputation(d)
           \/ RejectReputation(d)
           \/ ZeroReputation(d)
           \/ BondMoves(d)
           \/ AgentIsSold(d)

Spec == Init /\ [][Next]_vars

------------------------------------------------------------------------------
(* What must always hold.                                                  *)

ReputationTypeOK ==
    /\ reputations \in [Agents -> [score : Nat, lastUpdated : Nat]]
    /\ evidenceRoots \in [Agents -> Roots \cup {NoRoot}]
    /\ pendingScores \in [Agents -> PendingScore]
    /\ maturedScore \in [Agents -> Nat]
    /\ maturedAt \in [Agents -> Nat]
    /\ challengeWindow \in MIN_CHALLENGE_WINDOW..MAX_CHALLENGE_WINDOW
    /\ maturityRatePerDay \in InitialRates \cup 1..MAX_MATURITY_RATE_PER_DAY
    /\ operatorBondSet \in BOOLEAN /\ identitySet \in BOOLEAN
    /\ oracles \subseteq Addresses
    /\ standing \in [Agents -> {"bonded", "unbonded", "slashed"}]
    /\ operatorChangedAt \in [Agents -> Nat]

\* A slashed agent has no score, live, pending, matured or evidenced.
SlashedHasNothing ==
    \A d \in Agents : standing[d] = "slashed" =>
        /\ reputations[d].score = 0 /\ maturedScore[d] = 0
        /\ ~pendingScores[d].exists
        /\ evidenceRoots[d] = NoRoot

\* The evidence root on record is the one proposed with the live score.
EvidenceBehindScore ==
    \A d \in Agents :
        IF evidenceRoots[d] = NoRoot THEN reputations[d].score = 0
        ELSE [score |-> reputations[d].score, root |-> evidenceRoots[d]] \in Proposals

\* A pending score is one that was proposed, after the live one was, and its window is no
\* shorter than the minimum.
PendingInOrder ==
    \A d \in Agents :
        LET p == pendingScores[d] IN
        /\ p.proposedAt <= now
        /\ p.exists => /\ [score |-> p.score, root |-> p.root] \in Proposals
                       /\ reputations[d].lastUpdated <= p.proposedAt
        /\ p.finalizableAt # 0 => p.finalizableAt >= p.proposedAt + MIN_CHALLENGE_WINDOW

\* No score, anchor or sale is dated ahead of the clock.
DatesArePast ==
    \A d \in Agents :
        reputations[d].lastUpdated <= now /\ maturedAt[d] <= now /\ operatorChangedAt[d] <= now

\* Settings in their bounds, every live score with its evidence and every pending one
\* with its window, and a slashed agent left with nothing.
ReputationInv ==
    /\ ReputationTypeOK
    /\ SlashedHasNothing
    /\ EvidenceBehindScore
    /\ PendingInOrder
    /\ DatesArePast

\* A buyer spends only what it has waited for: whatever the seller had matured, and
\* however finalizations and changes of rate fall around the sale, the spendable score is
\* at most the highest rate times the time since.
BuyerEarnsItsOwn ==
    \A d \in Agents : identitySet /\ operatorChangedAt[d] # 0 =>
        Spendable(d) * DAY <= (now - operatorChangedAt[d]) * MAX_MATURITY_RATE_PER_DAY

\* Finalizing never gains time and loses less than a unit of it: from here on, what the
\* re-anchored clock releases lies between what the old one releases and what it released
\* a unit earlier.
FinalizeKeepsPace ==
    \A d \in Agents : Maturing(d) =>
        \A t \in now..(now + 2 * DAY) :
            LET rate    == maturityRatePerDay
                renewed == Released(NextAnchor(d), MaturityClock(d), rate, t)
            IN  /\ renewed <= Released(Anchor(d), Since(d), rate, t)
                /\ t > now => renewed >= Released(Anchor(d), Since(d), rate, t - 1)

\* Nothing that happens within one block raises what an agent can spend, except the admin
\* changing the rate and the wiring of the registry.
NoInstantRise ==
    [][now' = now /\ maturityRatePerDay' = maturityRatePerDay /\ identitySet' = identitySet
           => \A d \in Agents : Spendable(d)' <= Spendable(d)]_vars

\* What an agent can spend is earned over time, through sales, finalizations and settings.
MaturityIsEarned == [](BuyerEarnsItsOwn /\ FinalizeKeepsPace) /\ NoInstantRise

\* A score goes live only after the committee had the whole minimum window, dated by its
\* proposal and never older than the one it replaces; while pending, the end of its window
\* does not move.
OnlyReviewedScores ==
    [][\A d \in Agents :
           LET p == pendingScores[d] IN
           /\ reputations'[d] # reputations[d] /\ standing'[d] # "slashed" =>
                  /\ p.exists /\ now >= p.proposedAt + MIN_CHALLENGE_WINDOW
                  /\ reputations'[d].lastUpdated \in reputations[d].lastUpdated..p.proposedAt
           /\ p.finalizableAt # 0 /\ pendingScores'[d] = p => FinalizableAt(d)' = FinalizableAt(d)
      ]_vars

\* A score goes live on the word of the operator it was proposed for. A key whose operator let it go takes its
\* pending scores down with it: no other operator can bring them back, and the key itself only by bonding and
\* being admitted (SigvaraReputation._proposerStillAuthorized, SigvaraOracleBond.setSigner).
ScoresSpeakForTheirOperator ==
    [][\A d \in Agents :
           LET p == pendingScores[d] IN
           /\ reputations'[d] # reputations[d] /\ standing'[d] # "slashed"
           /\ p.onBehalfOf # NoAddress
           => SpeaksFor(p.proposer) \in {p.onBehalfOf, p.proposer}
      ]_vars

==============================================================================
