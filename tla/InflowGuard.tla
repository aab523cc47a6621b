----------------------------- MODULE InflowGuard -----------------------------
(***************************************************************************)
(* src/InflowGuard.sol: a guardian can close the ways value and state      *)
(* enter a registry, for a bounded time.  Each registry that inherits the  *)
(* contract has its own pause, so the two storage words are functions of   *)
(* the registry.  The block clock, which every registry reads, lives here. *)
(***************************************************************************)
EXTENDS Integers

CONSTANTS
    Registries,      \* the registries that inherit the guard
    Guardians,       \* holders of GUARDIAN_ROLE; {} means no pause ever starts
    PAUSE_DURATION,  \* how long one pause lasts
    PAUSE_COOLDOWN,  \* how long after a pause's full length the next may begin
    MaxTime          \* bound: the clock stops here

ASSUME InflowGuardAssumption ==
    /\ PAUSE_DURATION \in Nat \ {0}
    /\ PAUSE_COOLDOWN \in Nat \ {0}
    /\ MaxTime \in Nat

VARIABLES
    now,             \* block.timestamp, in coarse units; zero is "never", so it starts at 1
    pausedUntil,     \* [Registries -> time]: closed while now < pausedUntil
    lastPausedAt     \* [Registries -> time]: start of the latest pause, 0 if none

guardVars == <<pausedUntil, lastPausedAt>>

GuardTypeOK ==
    /\ now \in Nat \ {0}
    /\ pausedUntil \in [Registries -> Nat]
    /\ lastPausedAt \in [Registries -> Nat]

GuardInit ==
    /\ now = 1
    /\ pausedUntil = [r \in Registries |-> 0]
    /\ lastPausedAt = [r \in Registries |-> 0]

\* A later block.  Any number of calls share a timestamp, and none need happen
\* between two ticks.
Tick ==
    /\ now < MaxTime
    /\ now' = now + 1
    /\ UNCHANGED guardVars

\* The modifier whenInflowsOpen.
InflowsOpen(r) == now >= pausedUntil[r]

PauseInflows(r) ==
    /\ Guardians # {}
    /\ InflowsOpen(r)
    /\ \/ lastPausedAt[r] = 0
       \/ now >= lastPausedAt[r] + PAUSE_DURATION + PAUSE_COOLDOWN
    /\ lastPausedAt' = [lastPausedAt EXCEPT ![r] = now]
    /\ pausedUntil' = [pausedUntil EXCEPT ![r] = now + PAUSE_DURATION]
    /\ UNCHANGED now

\* By the guardian or the admin.  The cooldown is not shortened.
ResumeInflows(r) ==
    /\ ~InflowsOpen(r)
    /\ pausedUntil' = [pausedUntil EXCEPT ![r] = 0]
    /\ UNCHANGED <<now, lastPausedAt>>

GuardNext == \E r \in Registries : PauseInflows(r) \/ ResumeInflows(r)

\* A guardian cannot hold inflows shut: a registry is closed only inside the length of
\* its latest pause, and reopening it early does not bring the next pause forward, so
\* outside that length it stays open for a whole cooldown.
PauseIsBounded ==
    [][\A r \in Registries :
           /\ ~InflowsOpen(r) => now < lastPausedAt[r] + PAUSE_DURATION
           /\ InflowsOpen(r) /\ ~InflowsOpen(r)' =>
                  lastPausedAt[r] = 0 \/ now - (lastPausedAt[r] + PAUSE_DURATION) >= PAUSE_COOLDOWN
           /\ lastPausedAt'[r] >= lastPausedAt[r]
      ]_<<now, guardVars>>
==============================================================================
