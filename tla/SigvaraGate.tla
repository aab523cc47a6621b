----------------------------- MODULE SigvaraGate -----------------------------
(***************************************************************************)
(* The SDK's gate and the trust server's proof tools: a challenge is       *)
(* issued, the agent signs it, and the answer is admitted once.  Both keep *)
(* a memory of challenges that is pruned, and both wait on the chain in    *)
(* the middle of an admission, so that admissions overlap.                 *)
(*                                                                         *)
(* Time is kept as ages, so that a behaviour never runs out of it. Bounds: *)
(* MaxOld on an age, MaxRead on how long an admission takes, MaxChanges on *)
(* changes of keys and of standing.                                        *)
(***************************************************************************)
EXTENDS Integers, Sequences, FiniteSets

CONSTANTS
    Agents, Nonces, Admits,
    Asking, Writing,  \* who asks for a challenge, and who writes one, by agent and nonce
    Changing,         \* agents whose standing and key may change
    Setups,           \* gates: a way of keeping nonces, below, and whether it was given a challengeSecret
    Asked,            \* what the gate was told to ask: a subset of {"stake", "fresh"}
    TTL, Skew,        \* ttlSeconds, MAX_FUTURE_SKEW_SECONDS
    Ahead,            \* how far ahead an agent dates a challenge it writes itself
    MaxRead, MaxOld, MaxOutstanding, MaxChanges

Names == Agents \X Nonces

ASSUME GateAssumption ==
    /\ {TTL, Skew, Ahead, MaxRead, MaxOld, MaxOutstanding, MaxChanges} \subseteq Nat /\ TTL > 0 /\ MaxOutstanding > 0
    /\ MaxOld > 2 * (TTL + MaxRead) + Skew /\ Asking \cup Writing \subseteq Names /\ Changing \subseteq Agents
    /\ Asked \subseteq {"stake", "fresh"} 
    /\ Setups \subseteq ({"memory", "pair", "shared", "server"} \X BOOLEAN) \ {<<"server", TRUE>>}

VARIABLES
    store,        \* "memory": the default; "pair": a store with seen and add alone; "shared": atomicNonceStore; "server": mcp.ts
    secret,       \* whether it has a challengeSecret
    payload,      \* per agent and nonce, the challenge that names them, if there is one
    spent,        \* the store of one process: what was spent, in that order
    backend,      \* the shared store's keys
    outstanding,  \* the trust server's map
    admits,       \* admissions, each at one of its awaits
    standing,     \* per agent, which of the facts hold on chain
    keyOf,        \* per agent, which of its keys is registered
    changes,
    accepted      \* history: challenges that were spent by a valid proof

vars == <<store, secret, payload, spent, backend, outstanding, admits, standing, keyOf, changes, accepted>>

Facts == {"active", "bonded", "score"} \cup Asked
Unsigned == -1
NoPayload == [age |-> 0, issued |-> FALSE, key |-> Unsigned, made |-> FALSE]
Over(reason) == [stage |-> "over", ok |-> reason = "ok"]
Running(s) == admits[s].stage # "over"
Held(name) == \E s \in Admits : Running(s) /\ admits[s].name = name

InStore(name) == (\E i \in DOMAIN spent : spent[i].name = name) \/ (\E e \in backend : e.name = name)
InFlight(name) == \E s \in Admits : admits[s].stage \in {"add", "prunePair"} /\ admits[s].name = name
Issued(name) == name \in outstanding

------------------------------------------------------------------------------
(* Issuing, signing.                                                       *)

Put(name, age, issued) == payload' = [payload EXCEPT ![name] = [age |-> age, issued |-> issued, key |-> Unsigned, made |-> TRUE]]

\* A nonce is random: no challenge, entry or admission has it.
Unused(n) == \A a \in Agents : ~payload[<<a, n>>].made /\ ~InStore(<<a, n>>) /\ ~Held(<<a, n>>) /\ ~Issued(<<a, n>>)

\* What the trust server may keep when it issues one more: nothing that expired, and the youngest below
\* MAX_OUTSTANDING. Its map is in the order of insertions, which ages tell up to one unit of time.
Kept ==
    LET live == {m \in outstanding : payload[m].age < TTL}
        room == IF Cardinality(live) < MaxOutstanding THEN Cardinality(live) ELSE MaxOutstanding - 1
    IN {kept \in SUBSET live : Cardinality(kept) = room /\ \A m \in kept, o \in live \ kept : payload[m].age <= payload[o].age}

Challenge(a, n) ==
    /\ Unused(n)
    /\ Put(<<a, n>>, 0, TRUE)
    /\ IF store = "server" THEN \E kept \in Kept : outstanding' = kept \cup {<<a, n>>} ELSE UNCHANGED outstanding
    /\ UNCHANGED <<store, secret, spent, backend, admits, standing, keyOf, changes, accepted>>

\* signChallengeFor.
SignChallenge(a, n) ==
    /\ payload[<<a, n>>].made /\ payload[<<a, n>>].key = Unsigned
    /\ payload' = [payload EXCEPT ![<<a, n>>].key = keyOf[a]]
    /\ UNCHANGED <<store, secret, spent, backend, outstanding, admits, standing, keyOf, changes, accepted>>

\* A well-formed challenge that its own signer wrote, with a nonce it may have seen elsewhere.
OwnChallenge(a, n, age) ==
    /\ ~payload[<<a, n>>].made /\ ~InStore(<<a, n>>) /\ ~Held(<<a, n>>)
    /\ payload' = [payload EXCEPT ![<<a, n>>] = [age |-> age, issued |-> FALSE, key |-> keyOf[a], made |-> TRUE]]
    /\ UNCHANGED <<store, secret, spent, backend, outstanding, admits, standing, keyOf, changes, accepted>>

------------------------------------------------------------------------------
(* Admitting: one action up to each await.                                 *)

At(s, stage) == admits[s].stage = stage
To(s, stage) == admits' = [admits EXCEPT ![s].stage = stage]
Ask(s) == LET holds == standing[admits[s].name[1]]
          IN admits' = [admits EXCEPT ![s] = [@ EXCEPT !.stage = "standing", !.always = holds, !.ever = holds]]
End(s, reason) == admits' = [admits EXCEPT ![s] = Over(reason)]

\* isChallengeExpired.
IsExpired(age) == age > TTL \/ age < -Skew

\* What an admission checks before it reads anything.
Refusal(name) ==
    IF store = "server"
    THEN IF ~Issued(name) \/ payload[name].age >= TTL THEN "unknown_challenge"
         ELSE IF IsExpired(payload[name].age) THEN "bad_proof" ELSE "none"
    ELSE IF (secret /\ ~payload[name].issued) \/ IsExpired(payload[name].age) THEN "bad_proof" ELSE "none"

\* A challenge that its agent has not signed comes with some other signature of the right width.
StartAdmit(s, name) ==
    /\ ~Running(s) /\ payload[name].made
    /\ admits' = [admits EXCEPT ![s] =
                    IF Refusal(name) # "none" THEN Over(Refusal(name))
                    ELSE [stage |-> "key", name |-> name, elapsed |-> 0, always |-> {}, ever |-> {}]]
    /\ UNCHANGED <<store, secret, payload, spent, backend, outstanding, standing, keyOf, changes, accepted>>

Verifies(s) == payload[admits[s].name].key = keyOf[admits[s].name[1]]

ReadKey(s) ==
    /\ At(s, "key")
    /\ IF Verifies(s) THEN To(s, "spend") ELSE End(s, "bad_proof")
    /\ UNCHANGED <<store, secret, payload, spent, backend, outstanding, standing, keyOf, changes, accepted>>

\* A read fails or is abandoned after timeoutMs, and the admission with it.
ReadFails(s) ==
    /\ admits[s].stage \in {"key", "standing"}
    /\ End(s, "error")
    /\ UNCHANGED <<store, secret, payload, spent, backend, outstanding, standing, keyOf, changes, accepted>>

\* Mutant: under the nonce alone.
KeyOf_Nonce(name) == {m \in Names : m[2] = name[2]}

\* The names a nonce is kept under: the agent's own.
KeyOf(name) == {name}

Spent(name) == \E m \in KeyOf(name) : InStore(m)
Busy(name) == \E m \in KeyOf(name) : InFlight(m)
Entry(name) == [name |-> name, age |-> payload[name].age]
Take(s) == /\ IF store = "shared" THEN backend' = backend \cup {Entry(admits[s].name)} /\ UNCHANGED spent
              ELSE spent' = Append(spent, Entry(admits[s].name)) /\ UNCHANGED backend
           /\ accepted' = accepted \cup {admits[s].name}

\* What a prune leaves: everything from the first entry on that had not expired when the admission began.
Left(s) ==
    LET live == {i \in DOMAIN spent : spent[i].age - admits[s].elapsed <= TTL}
    IN IF live = {} THEN <<>> ELSE SubSeq(spent, CHOOSE i \in live : \A j \in live : i <= j, Len(spent))

\* consume of the default store and of atomicNonceStore, which prunes nothing.
Consume(s) ==
    /\ At(s, "spend") /\ store \in {"memory", "shared"}
    /\ IF Spent(admits[s].name) THEN End(s, "replayed") /\ UNCHANGED <<spent, backend, accepted>>
       ELSE Take(s) /\ IF store = "memory" THEN To(s, "prune") ELSE Ask(s)
    /\ UNCHANGED <<store, secret, payload, outstanding, standing, keyOf, changes>>

\* seen, under the local lock.
See(s) ==
    /\ At(s, "spend") /\ store = "pair"
    /\ IF Busy(admits[s].name) \/ Spent(admits[s].name) THEN End(s, "replayed") ELSE To(s, "add")
    /\ UNCHANGED <<store, secret, payload, spent, backend, outstanding, standing, keyOf, changes, accepted>>

Add(s) ==
    /\ At(s, "add")
    /\ Take(s) /\ To(s, "prunePair")
    /\ UNCHANGED <<store, secret, payload, outstanding, standing, keyOf, changes>>

Prune(s) ==
    /\ admits[s].stage \in {"prune", "prunePair"}
    /\ spent' = Left(s) /\ Ask(s)
    /\ UNCHANGED <<store, secret, payload, backend, outstanding, standing, keyOf, changes, accepted>>

\* Mutant: without looking again at what was looked up before the reads.
StillIssued_Trusted(name) == TRUE

StillIssued(name) == Issued(name)

\* sigvara_verify_proof, once its signature verified.
SpendIssued(s) ==
    /\ At(s, "spend") /\ store = "server"
    /\ IF StillIssued(admits[s].name)
       THEN /\ outstanding' = outstanding \ {admits[s].name}
            /\ accepted' = accepted \cup {admits[s].name} /\ Ask(s)
       ELSE End(s, "unknown_challenge") /\ UNCHANGED <<outstanding, accepted>>
    /\ UNCHANGED <<store, secret, payload, spent, backend, standing, keyOf, changes>>

\* standingDecision, over what was read.
Decision(seen) ==
    IF ~({"active", "bonded"} \subseteq seen) THEN "not_active"
    ELSE IF ~((Asked \cap {"stake"}) \subseteq seen) THEN "below_bond"
    ELSE IF ~((Asked \cap {"fresh"}) \subseteq seen) THEN "stale_score"
    ELSE IF "score" \notin seen THEN "below_threshold" ELSE "ok"

\* The reads go out together and each comes back in its own time: what they report holds everything that
\* held throughout and nothing that never did.
ReadStanding(s) ==
    /\ At(s, "standing")
    /\ \E seen \in SUBSET admits[s].ever : admits[s].always \subseteq seen /\ End(s, Decision(seen))
    /\ UNCHANGED <<store, secret, payload, spent, backend, outstanding, standing, keyOf, changes, accepted>>

------------------------------------------------------------------------------
(* The chain, and time.                                                    *)

StandingChanges(a, f) ==
    /\ changes < MaxChanges /\ changes' = changes + 1
    /\ standing' = [standing EXCEPT ![a] = IF f \in @ THEN @ \ {f} ELSE @ \cup {f}]
    /\ admits' = [s \in Admits |-> IF At(s, "standing") /\ admits[s].name[1] = a
                                   THEN [admits[s] EXCEPT !.always = @ \ {f}, !.ever = @ \cup {f}] ELSE admits[s]]
    /\ UNCHANGED <<store, secret, payload, spent, backend, outstanding, keyOf, accepted>>

KeyRotates(a) ==
    /\ changes < MaxChanges /\ changes' = changes + 1
    /\ keyOf' = [keyOf EXCEPT ![a] = @ + 1]
    /\ UNCHANGED <<store, secret, payload, spent, backend, outstanding, admits, standing, accepted>>

Older(age) == IF age < MaxOld THEN age + 1 ELSE MaxOld

\* A challenge nobody can use is forgotten; the shared store's backend drops a key when it expires.
Useless(name) == payload[name].age > TTL /\ ~Held(name)
Tick ==
    /\ \A s \in Admits : Running(s) => admits[s].elapsed < MaxRead
    /\ payload' = [m \in Names |-> IF ~payload[m].made \/ Useless(m) THEN NoPayload ELSE [payload[m] EXCEPT !.age = Older(@)]]
    /\ spent' = [i \in DOMAIN spent |-> [spent[i] EXCEPT !.age = Older(@)]]
    /\ backend' = {e \in {[b EXCEPT !.age = Older(@)] : b \in backend} : e.age < TTL}
    /\ admits' = [s \in Admits |-> IF Running(s) THEN [admits[s] EXCEPT !.elapsed = @ + 1] ELSE admits[s]]
    /\ accepted' = {m \in accepted : ~Useless(m)}
    /\ outstanding' = {m \in outstanding : ~Useless(m)}
    /\ UNCHANGED <<store, secret, standing, keyOf, changes>>

Init ==
    /\ \E setup \in Setups : store = setup[1] /\ secret = setup[2]
    /\ payload = [m \in Names |-> NoPayload]
    /\ spent = <<>> /\ backend = {} /\ outstanding = {}
    /\ admits = [s \in Admits |-> Over("none")]
    /\ standing = [a \in Agents |-> Facts]
    /\ keyOf = [a \in Agents |-> 0]
    /\ changes = 0 /\ accepted = {}

AdmitStep(s) == ReadKey(s) \/ Consume(s) \/ See(s) \/ Add(s) \/ Prune(s) \/ SpendIssued(s) \/ ReadStanding(s)

Next ==
    \/ \E m \in Asking : Challenge(m[1], m[2]) \/ SignChallenge(m[1], m[2])
    \/ \E m \in Writing, age \in (-Ahead)..0 : OwnChallenge(m[1], m[2], age)
    \/ \E s \in Admits, m \in Asking \cup Writing : StartAdmit(s, m)
    \/ \E s \in Admits : AdmitStep(s) \/ ReadFails(s)
    \/ \E a \in Changing, f \in Facts : StandingChanges(a, f)
    \/ \E a \in Changing : KeyRotates(a)
    \/ Tick

Spec == Init /\ [][Next]_vars

------------------------------------------------------------------------------
(* What it should guarantee.                                               *)

\* Two admissions of one answer never both get past the memory of spent challenges within the challenge's
\* lifetime, whatever the store and however the admissions overlap. One that began within the lifetime and
\* outlives it can: by then another admission's prune may have dropped the nonce. A backend drops it in the
\* last second of the lifetime, the one it was told to expire it at.
Passes(s) == admits[s].stage \in {"spend", "add"} /\ admits'[s].stage \in {"prune", "prunePair", "standing"}
UsedOnce ==
    [][\A s \in Admits : Passes(s) /\ admits[s].name \in accepted =>
        /\ store # "server"
        /\ payload[admits[s].name].age >= (IF store = "shared" THEN TTL ELSE TTL + 1)]_vars

\* An answer is refused as already used only when that agent's own answer was: no admission of anyone else's,
\* and no wrong signature, takes an agent's challenge away from it.
ReplayedMeansUsed ==
    [][\A s \in Admits : At(s, "spend") /\ store # "server" /\ admits'[s].stage = "over" => admits[s].name \in accepted \/ Busy(admits[s].name)]_vars

\* A prune stops at the first entry that is live, and entries are not in the order they expire. What it leaves
\* behind expired no longer ago than a lifetime, the skew and the length of an admission.
PruneCatchesUp ==
    [][\A s \in Admits : admits[s].stage \in {"prune", "prunePair"} /\ admits'[s].stage = "standing" =>
        \A i \in DOMAIN spent' : spent'[i].age - admits[s].elapsed - TTL <= TTL + Skew + MaxRead]_vars

\* An agent is admitted only when every fact asked about held at some moment of its admission: none is taken
\* from another fact that usually implies it, as the bond is by the status stored when the agent was admitted.
AdmittedHadStanding ==
    [][\A s \in Admits : At(s, "standing") /\ admits'[s].stage = "over" /\ admits'[s].ok => Facts \subseteq admits[s].ever]_vars

\* A challenge is taken from nobody who did not use it and dropped when it must be, and an agent is admitted
\* only when every fact asked about held (gate.ts).
AdmissionsAreSound == ReplayedMeansUsed /\ PruneCatchesUp /\ AdmittedHadStanding

==============================================================================
