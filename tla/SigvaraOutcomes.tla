--------------------------- MODULE SigvaraOutcomes ---------------------------
(***************************************************************************)
(* Outcomes signed by the payer of a payment.  An operator takes one that  *)
(* is posted to it, or imports it from the other operator, which serves    *)
(* what it has taken in the order it took it.  Both judge an outcome by    *)
(* the time of the block its signature was checked at, so that they reach  *)
(* the same answer, and a credentialed outcome gives way to the payer's    *)
(* only for a while after the payment.                                     *)
(*                                                                         *)
(* Times are block times in coarse units. A time of taking is finer: Fine  *)
(* of them fit in a unit. Bounds: MaxTime, MaxSigned signatures, and       *)
(* MaxFailures for reads and saves that fail and for deaths.               *)
(***************************************************************************)
EXTENDS Integers, FiniteSets, FiniteSetsExt

CONSTANTS
    Operators,
    PostedTo,         \* the operators payers' outcomes are posted to
    Settled,          \* when each payment settled: a function on the payments
    Ahead,            \* how far each operator's clock runs ahead of the chain
    HeadLag,          \* how far a confirmed head trails
    Window,           \* PAYER_OUTCOME_WINDOW_DAYS
    Lifetime,         \* a signature's deadline after it was made
    ImportGrace,      \* PAYER_OUTCOMES_IMPORT_GRACE_HOURS
    CheckLag,         \* MAX_CHECK_LAG_SECONDS
    MaxFuture,        \* IMPORT_MAX_FUTURE_MS
    MaxStalls,        \* IMPORT_MAX_STALLS
    MaxTime, MaxFailures, MaxSigned

Payments == DOMAIN Settled
Fine == Cardinality(Payments) + 1

ASSUME OutcomesAssumption ==
    /\ IsFiniteSet(Payments) /\ \A o \in Operators : \E p \in Operators : p # o
    /\ PostedTo \subseteq Operators /\ Settled \in [Payments -> 0..MaxTime] /\ Ahead \in [Operators -> Nat]
    /\ {HeadLag, Window, Lifetime, ImportGrace, CheckLag, MaxFuture, MaxStalls, MaxTime, MaxFailures, MaxSigned} \subseteq Nat
    /\ MaxStalls > 0 /\ HeadLag <= CheckLag

VARIABLES
    now,
    signed,     \* what payers have signed: a set of [leg, at]. What an outcome says tells nothing apart
    events,     \* per operator and leg, the outcome it holds
    saved,      \* the same, in its state file
    imports,    \* per operator, where its import from the other has got to
    down,       \* operators whose process died in this unit of time
    failures,
    refusals    \* history: why an operator refused an import, by leg

outcomesVars == <<now, signed, events, saved, imports, down, failures, refusals>>

NoOutcome == [source |-> "none", checkedAt |-> 0, signedAt |-> 0, acceptedAt |-> 0]
Fresh == [cursor |-> 0, stalls |-> 0]
Other(o) == CHOOSE p \in Operators : p # o

ByPayer(e) == e.source = "payer"
HasPayerOutcome(o, l) == ByPayer(events[o][l])

\* The clock of an operator, in the units its times of taking have.
Clock(o) == (now + Ahead[o]) * Fine

\* lastAcceptedAt, which load takes from the outcomes it finds.
LastAcceptedAt(o) == Max({events[o][l].acceptedAt : l \in Payments})

\* Later than any before it.
NextAcceptedAt(o) == Max({Clock(o), LastAcceptedAt(o) + 1})

------------------------------------------------------------------------------
(* Admitting an outcome.                                                   *)

\* The confirmed heads a node may answer with.
Heads == (now - HeadLag)..now

\* timingProblem, checkedBlockProblem and, for an import, importLateProblem.
Early(s) == s.at < Settled[s.leg]
BeforeSigned(s, checkedAt) == s.at > checkedAt + CheckLag
Expired(s, checkedAt) == checkedAt >= s.at + Lifetime
TooLate(s, head) == head > s.at + Lifetime + ImportGrace

\* recordPayerOutcome: final once the payer has signed, and over a credentialed outcome only
\* inside the window.
MayReplace(o, l, arrivedAt) ==
    CASE events[o][l].source = "none"         -> TRUE
      [] events[o][l].source = "credentialed" -> arrivedAt - Settled[l] <= Window
      [] events[o][l].source = "payer"        -> FALSE

\* What comes of an outcome whose signature is checked at a block, its node's head being another:
\* "ok", or why not. A head before the payment or the block is this node's trouble.
Verdict(o, s, checkedAt, head, fromPeer) ==
    CASE Early(s)                                 -> "outcome_window"
      [] head < Settled[s.leg]                    -> "retry"
      [] fromPeer /\ checkedAt < Settled[s.leg]   -> "bad_checked_block"
      [] fromPeer /\ checkedAt > head             -> "retry"
      [] BeforeSigned(s, checkedAt)               -> "outcome_window"
      [] Expired(s, checkedAt)                    -> "outcome_window"
      [] fromPeer /\ TooLate(s, head)             -> "import_late"
      [] ~MayReplace(o, s.leg, head)              -> "outcome_recorded"
      [] OTHER                                    -> "ok"

Recorded(o, s, checkedAt) ==
    [events[o] EXCEPT ![s.leg] =
        [source |-> "payer", checkedAt |-> checkedAt, signedAt |-> s.at,
         acceptedAt |-> NextAcceptedAt(o)]]

\* POST /attest with a payer's outcome: checked at this node's confirmed head and saved before it
\* is answered, unless the save fails.
AdmitPosted(o, s) ==
    /\ o \in PostedTo \ down
    /\ \E head \in Heads : Verdict(o, s, head, head, FALSE) = "ok" /\ events' = [events EXCEPT ![o] = Recorded(o, s, head)]
    /\ \/ saved' = [saved EXCEPT ![o] = events'[o]] /\ UNCHANGED failures
       \/ failures < MaxFailures /\ failures' = failures + 1 /\ UNCHANGED saved
    /\ UNCHANGED <<now, signed, imports, down, refusals>>

\* POST /attest with a credential: the outcome of a payment that has none.
AdmitCredentialed(o, l) ==
    /\ o \notin down /\ Settled[l] <= now
    /\ events[o][l].source = "none"
    /\ events' = [events EXCEPT ![o][l] = [NoOutcome EXCEPT !.source = "credentialed"]]
    /\ saved' = [saved EXCEPT ![o] = events'[o]]
    /\ UNCHANGED <<now, signed, imports, down, failures, refusals>>

PayerSigns(l) ==
    /\ Settled[l] <= now /\ Cardinality(signed) < MaxSigned
    /\ signed' = signed \cup {[leg |-> l, at |-> now]}
    /\ UNCHANGED <<now, events, saved, imports, down, failures, refusals>>

------------------------------------------------------------------------------
(* The import.                                                             *)

\* Mutant: the newest first.
NextServed_Newest(p, cursor) ==
    LET after == {l \in Payments : HasPayerOutcome(p, l) /\ events[p][l].acceptedAt > cursor} IN
    {l \in after : \A k \in after : events[p][k].acceptedAt <= events[p][l].acceptedAt}

\* payerOutcomesSince: what the peer took after the cursor, oldest first.
NextServed(p, cursor) ==
    LET after == {l \in Payments : HasPayerOutcome(p, l) /\ events[p][l].acceptedAt > cursor} IN
    {l \in after : \A k \in after : events[p][l].acceptedAt <= events[p][k].acceptedAt}

\* Passed over without moving the cursor.
FromTheFuture(o, item) == item.acceptedAt > Clock(o) + MaxFuture * Fine

\* importOne: what is held already is left, whatever it says, and the rest is checked as if it
\* had been posted here, at the block the peer recorded.
ImportOne(o, l, item, head) ==
    IF HasPayerOutcome(o, l) THEN "held"
    ELSE Verdict(o, [leg |-> l, at |-> item.signedAt], item.checkedAt, head, TRUE)

\* Mutant: a run that fails counts as one that passed the outcome over.
AfterStall_Advance(o, item) == [cursor |-> item.acceptedAt, stalls |-> 0]

\* A failure that is not the outcome's own: the cursor waits, for MaxStalls runs.
AfterStall(o, item) ==
    IF imports[o].stalls + 1 < MaxStalls THEN [imports[o] EXCEPT !.stalls = @ + 1]
    ELSE [cursor |-> item.acceptedAt, stalls |-> 0]

Importable(o, l) == ~FromTheFuture(o, events[Other(o)][l])

\* importFromPeer, one outcome of a page. The import saves once it is done, which is any time
\* later (SaveImports).
ImportItem(o) ==
    /\ o \notin down /\ Other(o) \notin down
    /\ \E l \in NextServed(Other(o), imports[o].cursor), head \in Heads, unreadable \in BOOLEAN :
         LET item == events[Other(o)][l]
             verdict == ImportOne(o, l, item, head)
             fails == verdict = "retry" \/ (unreadable /\ verdict # "held") IN
         /\ Importable(o, l)
         /\ fails => failures < MaxFailures
         /\ failures' = IF fails THEN failures + 1 ELSE failures
         /\ imports' = [imports EXCEPT ![o] =
                IF fails THEN AfterStall(o, item) ELSE [cursor |-> item.acceptedAt, stalls |-> 0]]
         /\ events' = IF verdict = "ok" /\ ~fails
                      THEN [events EXCEPT ![o] = Recorded(o,
                              [leg |-> l, at |-> item.signedAt], item.checkedAt)]
                      ELSE events
         /\ refusals' = IF ~fails /\ verdict \in {"ok", "held"} THEN refusals
                        ELSE IF imports'[o].cursor # item.acceptedAt THEN refusals
                        ELSE [refusals EXCEPT ![o][l] = @ \cup {IF fails THEN "stalled" ELSE verdict}]
    /\ UNCHANGED <<now, signed, saved, down>>

SaveImports(o) ==
    /\ o \notin down /\ saved[o] # events[o]
    /\ saved' = [saved EXCEPT ![o] = events[o]]
    /\ UNCHANGED <<now, signed, events, imports, down, failures, refusals>>

\* The process dies and starts again from its state file, every peer's import from the beginning.
Restart(o) ==
    /\ failures < MaxFailures /\ failures' = failures + 1 /\ now < MaxTime
    /\ events' = [events EXCEPT ![o] = saved[o]]
    /\ imports' = [imports EXCEPT ![o] = Fresh]
    /\ refusals' = [refusals EXCEPT ![o] = [l \in Payments |-> {}]]
    /\ down' = down \cup {o}
    /\ UNCHANGED <<now, signed, saved>>

Tick ==
    /\ now < MaxTime /\ now' = now + 1
    /\ down' = {}
    /\ UNCHANGED <<signed, events, saved, imports, failures, refusals>>

------------------------------------------------------------------------------
(* The specification.                                                      *)

OutcomesInit ==
    /\ now = 0 /\ signed = {} /\ failures = 0 /\ down = {}
    /\ events = [o \in Operators |-> [l \in Payments |-> NoOutcome]] /\ saved = events
    /\ imports = [o \in Operators |-> Fresh]
    /\ refusals = [o \in Operators |-> [l \in Payments |-> {}]]

OutcomesNext ==
    \/ \E o \in Operators :
         \/ \E s \in signed : AdmitPosted(o, s)
         \/ \E l \in Payments : AdmitCredentialed(o, l)
         \/ ImportItem(o) \/ SaveImports(o) \/ Restart(o)
    \/ \E l \in Payments : PayerSigns(l)
    \/ Tick

OutcomesSpec == OutcomesInit /\ [][OutcomesNext]_outcomesVars

\* Each operator imports before every epoch and saves when it is done, and time passes.
FairOutcomesSpec ==
    /\ OutcomesSpec /\ WF_outcomesVars(Tick)
    /\ \A o \in Operators : WF_outcomesVars(ImportItem(o)) /\ WF_outcomesVars(SaveImports(o))

------------------------------------------------------------------------------
(* Properties.                                                             *)

\* Nothing the peer took falls behind the cursor unread: the operator holds it or refused it. And
\* what the peer took in time is not refused here as out of time or as checked at the wrong block
\* (payerOutcomesSince, importFromPeer, importOne).
ImportsMissNothing ==
    \A o \in Operators, l \in Payments :
        LET item == events[Other(o)][l] IN
        /\ ByPayer(item) /\ item.acceptedAt <= imports[o].cursor =>
              HasPayerOutcome(o, l) \/ refusals[o][l] # {}
        /\ refusals[o][l] \subseteq {"import_late", "outcome_recorded", "stalled"}

AllSpread ==
    \A o \in Operators, l \in Payments :
        ByPayer(saved[Other(o)][l]) =>
            \/ HasPayerOutcome(o, l)
            \/ refusals[o][l] \cap {"import_late", "outcome_recorded"} # {}
            \/ FromTheFuture(o, events[Other(o)][l])

\* A payer's outcome is final for its leg, whoever holds it, except that a death may lose one no
\* save kept; and a credentialed one gives way to nothing but the payer's, inside the window.
OutcomesAreFinal ==
    [][\A o \in Operators, l \in Payments : events'[o][l] # events[o][l] /\ events[o][l].source # "none" =>
          \/ o \in down'
          \/ events[o][l].source = "credentialed" /\ ByPayer(events'[o][l]) /\ now - HeadLag - Settled[l] <= Window]_outcomesVars

==============================================================================
