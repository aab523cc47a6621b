----------------------------- MODULE BondCustody -----------------------------
(***************************************************************************)
(* What the bond contract promises, with no clock, queue, roles or         *)
(* settings: value enters an agent's bond until it is convicted and leaves *)
(* it only unaccused, a quarter goes to one victim when it is convicted,   *)
(* and a conviction is for good.                                           *)
(***************************************************************************)
EXTENDS Integers

CONSTANTS Agents, Victims

VARIABLES
    bond,     \* [Agents -> everything held for the agent]
    standing, \* [Agents -> {"free", "accused", "convicted"}]
    credit    \* [Victims -> proceeds not yet collected]

custodyVars == <<bond, standing, credit>>

CustodyInit ==
    /\ bond \in [Agents -> Nat]
    /\ standing = [d \in Agents |-> "free"]
    /\ credit = [a \in Victims |-> 0]

Fund(d) ==
    /\ standing[d] # "convicted"
    /\ bond' = [bond EXCEPT ![d] = bond'[d]]
    /\ bond'[d] >= bond[d]
    /\ UNCHANGED <<standing, credit>>

Release(d) ==
    /\ standing[d] = "free"
    /\ \E part \in 1..bond[d] : bond' = [bond EXCEPT ![d] = @ - part]
    /\ UNCHANGED <<standing, credit>>

Accuse(d) ==
    /\ standing[d] = "free"
    /\ bond[d] > 0
    /\ standing' = [standing EXCEPT ![d] = "accused"]
    /\ UNCHANGED <<bond, credit>>

Acquit(d) ==
    /\ standing[d] = "accused"
    /\ standing' = [standing EXCEPT ![d] = "free"]
    /\ UNCHANGED <<bond, credit>>

Convict(d, victim) ==
    /\ standing[d] = "accused"
    /\ standing' = [standing EXCEPT ![d] = "convicted"]
    /\ credit' = [credit EXCEPT ![victim] = @ + bond[d] \div 4]
    /\ bond' = [bond EXCEPT ![d] = 0]

Collect(a) ==
    /\ credit[a] > 0
    /\ credit' = [credit EXCEPT ![a] = 0]
    /\ UNCHANGED <<bond, standing>>

CustodyNext ==
    \/ \E d \in Agents :
           \/ Fund(d) \/ Release(d) \/ Accuse(d) \/ Acquit(d)
           \/ \E victim \in Victims : Convict(d, victim)
    \/ \E a \in Victims : Collect(a)

CustodySpec == CustodyInit /\ [][CustodyNext]_custodyVars
==============================================================================
