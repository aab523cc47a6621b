----------------------------- MODULE SigvaraSigner -----------------------------
(***************************************************************************)
(* The publisher's remote signer: requests that carry the time they were   *)
(* made, delivered late, more than once or never; the memory of those      *)
(* accepted, which a restart loses; the queue in which signatures are made *)
(* one at a time; and the record of signatures, which a restart keeps.     *)
(* A request asks for a transaction at a nonce, or for the wallet message  *)
(* with a deadline.  The record is a list of times; here its entries are   *)
(* numbered, so that two in one second are two.                            *)
(*                                                                         *)
(* Bounds: Requests made, MaxTime seconds, MaxRestarts.                    *)
(***************************************************************************)
EXTENDS Integers, Sequences, FiniteSets

CONSTANTS
    Requests,
    Skew,             \* MAX_SKEW_SECONDS
    Hour,             \* the span the cap counts over
    Caps,             \* what SIGNER_MAX_PER_HOUR may be
    Delay,            \* MAX_DEADLINE_DELAY
    Behind,           \* how far the publisher's clock may be behind the signer's
    MaxTime, MaxRestarts

ASSUME SignerAssumption ==
    {Skew, Hour, Delay, Behind, MaxTime, MaxRestarts} \subseteq Nat /\ Caps \subseteq Nat

VARIABLES
    maxPerHour,       \* SIGNER_MAX_PER_HOUR, as this signer is configured
    now,              \* the signer's clock
    startedAt,
    sent,             \* the requests made, as they are on the wire
    seen,             \* requests accepted, and until when each is remembered
    queue,            \* the requests waiting for a signature, the first being made
    step,             \* how far the first has come
    times, file,      \* the record of signatures, in memory and on disk
    made,             \* ghost: how many were made
    pendingNonce,     \* the publisher's next nonce on chain
    given,            \* ghost: every signature given out, with the time its request arrived
    restarts

recordVars == <<maxPerHour, times, file, made>>
vars == <<recordVars, now, startedAt, sent, seen, queue, step, pendingNonce, given, restarts>>

\* remoteSigner, requestSignature: a request is made at the publisher's own time.
Ask ==
    /\ \E r \in Requests, kind \in {"transaction", "wallet"}, lag \in 0..Behind, ahead \in 0..1 :
          /\ \A s \in sent : s.id # r
          /\ lag <= now
          /\ sent' = sent \cup {[id |-> r, ts |-> now - lag, kind |-> kind, asks |->
                 IF kind = "transaction" THEN pendingNonce + ahead ELSE now + ahead * (Delay + 1)]}
    /\ UNCHANGED <<recordVars, now, startedAt, seen, queue, step, pendingNonce, given, restarts>>

------------------------------------------------------------------------------
(* A request arrives.                                                      *)

Fresh(s, t) == t - s.ts <= Skew /\ s.ts - t <= Skew

\* Mutant: forgotten in the second in which it may still come again.
Forgotten_AtOnce(t) == {m \in seen : m.until <= t}

Forgotten(t) == {m \in seen : m.until < t}

\* authProblem: accepted once while it is remembered; anything else is refused.
Arrives ==
    /\ \E s \in sent :
          /\ Fresh(s, now)
          /\ \A m \in seen \ Forgotten(now) : m.id # s.id
          /\ seen' = (seen \ Forgotten(now)) \cup {[id |-> s.id, until |-> s.ts + Skew]}
          /\ queue' = Append(queue, [s |-> s, t |-> now])
    /\ UNCHANGED <<recordVars, now, startedAt, sent, step, pendingNonce, given, restarts>>

------------------------------------------------------------------------------
(* One signature at a time.                                                *)

WarmedUp(t) == t >= startedAt + Skew

Since(t) == {u \in times : u.at > t - Hour}

\* The first in the queue ends, with a signature or with an error.
Done == queue' = Tail(queue) /\ step' = "idle"

\* sign, up to the read of the chain.
Begins ==
    /\ queue # <<>> /\ step = "idle"
    /\ LET t == queue[1].t
       IN  IF ~WarmedUp(t)
           THEN Done /\ UNCHANGED times
           ELSE /\ times' = Since(t)
                /\ IF Cardinality(Since(t)) >= maxPerHour THEN Done
                   ELSE step' = "reading" /\ UNCHANGED queue
    /\ UNCHANGED <<maxPerHour, now, startedAt, sent, seen, file, made, pendingNonce, given, restarts>>

\* createPolicy, on the chain as it is now: the next nonce and no other, a deadline at hand.
Allowed(s) ==
    IF s.kind = "transaction" THEN s.asks = pendingNonce
    ELSE now <= s.asks /\ s.asks <= now + Delay

\* The chain answers, and the policy decides; or the read fails.
ReadsChain ==
    /\ step = "reading"
    /\ \/ Allowed(queue[1].s) /\ step' = "signing" /\ UNCHANGED queue
       \/ Done
    /\ UNCHANGED <<recordVars, now, startedAt, sent, seen, pendingNonce, given, restarts>>

\* Mutant: the record is kept in memory.
OnDisk_Memory(record) == file

OnDisk(record) == record

\* Signed, and recorded before anyone has it.  When the record cannot be written there is no answer.
Signs ==
    /\ step = "signing"
    /\ made' = made + 1
    /\ times' = times \cup {[at |-> queue[1].t, nr |-> made']}
    /\ \/ file' = OnDisk(times') /\ step' = "answering" /\ UNCHANGED queue
       \/ Done /\ UNCHANGED file
    /\ UNCHANGED <<maxPerHour, now, startedAt, sent, seen, pendingNonce, given, restarts>>

Answers ==
    /\ step = "answering"
    /\ given' = given \cup {[s |-> queue[1].s, t |-> queue[1].t, nr |-> made]}
    /\ Done
    /\ UNCHANGED <<recordVars, now, startedAt, sent, seen, pendingNonce, restarts>>

\* Coming up decrypts the keystore before the clock is read, which takes into another second.
Restart ==
    /\ restarts < MaxRestarts /\ now < MaxTime
    /\ restarts' = restarts + 1
    /\ now' = now + 1 /\ startedAt' = now + 1 /\ seen' = {} /\ queue' = <<>> /\ step' = "idle"
    /\ times' = file
    /\ UNCHANGED <<maxPerHour, sent, file, made, pendingNonce, given>>

\* The publisher sends what it was given, and the chain takes it.
Lands ==
    /\ \E g \in given : g.s.kind = "transaction" /\ g.s.asks = pendingNonce
    /\ pendingNonce' = pendingNonce + 1
    /\ UNCHANGED <<recordVars, now, startedAt, sent, seen, queue, step, given, restarts>>

Tick ==
    /\ now < MaxTime
    /\ now' = now + 1
    /\ UNCHANGED <<recordVars, startedAt, sent, seen, queue, step, pendingNonce, given, restarts>>

Init ==
    /\ maxPerHour \in Caps /\ now = 0 /\ startedAt = 0 /\ sent = {} /\ seen = {}
    /\ queue = <<>> /\ step = "idle" /\ times = {} /\ file = {} /\ made = 0
    /\ pendingNonce = 0 /\ given = {} /\ restarts = 0

Next ==
    \/ Ask \/ Arrives \/ Begins \/ ReadsChain \/ Signs \/ Answers \/ Restart \/ Lands \/ Tick

Spec == Init /\ [][Next]_vars

------------------------------------------------------------------------------
(* Properties.                                                             *)

\* A request is answered with a signature once at most, however often it is delivered and
\* whatever a restart forgets, as long as the publisher's clock is not ahead of the signer's.
SignedOnce == \A g, h \in given : g.s.id = h.s.id => g = h

\* No hour of arrivals has more signatures than the cap, whatever came between signing,
\* recording and answering.
CapHolds ==
    \A g \in given : Cardinality({h \in given : g.t - Hour < h.t /\ h.t <= g.t}) <= maxPerHour

\* The two together.
SignerInv == SignedOnce /\ CapHolds
================================================================================
