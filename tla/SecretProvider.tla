-------------------------- MODULE SecretProvider --------------------------
(***************************************************************************)
(* The secret providers (apps/api/secrets.py): one secret that its manager *)
(* may replace or remove, asked for under several spellings by threads     *)
(* that share a provider and its unlocked cache.                           *)
(*                                                                         *)
(* All spellings name the same secret: the environment provider strips and *)
(* upper-cases a name before the lookup, the cloud providers strip it.     *)
(* The cache is keyed by the name as it was given.                         *)
(***************************************************************************)
EXTENDS Integers

CONSTANTS
    Threads,
    Spellings,
    Canonical,      \* the spelling that strip().upper() yields
    Values,         \* non-empty secret values
    JsonValues,     \* those that decode to a JSON object
    Managers,       \* the values of SECRET_MANAGER_PROVIDER that are tried
    Ttls,           \* the values of SECRET_CACHE_TTL_SECONDS that are tried
    MaxLookup,      \* how long a lookup takes at most, store included
    MaxTime,        \* bound: the clock stops there
    MaxChanges,     \* bound: how often the secret changes
    MaxCalls        \* bound: the calls of all threads

ASSUME SecretAssumption ==
    /\ Canonical \in Spellings
    /\ JsonValues \subseteq Values
    /\ Ttls \subseteq Nat
    /\ MaxLookup \in Nat
    /\ MaxTime \in Nat
    /\ MaxChanges \in Nat
    /\ MaxCalls \in Nat

Absent == "absent"
Unset == "unset"
Profiles == {"local_lab", "self_hosted", "saas"}
Supported == {"aws", "gcp", "azure", "doppler", "vault"}
Operations == {"get", "refresh"}     \* get: get_secret or get_json_secret

\* What a provider can lack before it asks its manager.
Lacks(class) ==
    CASE class \in {"environment", "secret_manager_missing"} -> {}
      [] class \in {"aws", "gcp"} -> {"sdk_not_installed"}
      [] OTHER -> {"sdk_not_installed", "secret_manager_config_invalid"}

\* build_secret_provider.  DisabledProductionSecretProvider is never built: all
\* supported names have a class.
Provider(profile, allowEnv, manager) ==
    IF profile # "saas" \/ allowEnv THEN "environment"
    ELSE IF manager \in Supported THEN manager ELSE "secret_manager_missing"

VARIABLES
    provider,   \* the class of the provider, or the error that building it raised
    lack,       \* what it lacks, "nothing" if it can ask its manager
    ttl,        \* _cache_ttl_seconds
    now,        \* time.monotonic()
    source,     \* the secret as its manager holds it, Absent if it holds none
    heldUntil,  \* history: when the manager last held a value it does not hold now
    changes,
    cache,      \* cache[n]: the entry of a spelling, NoEntry if none
    calls,      \* how many calls have begun
    pc,         \* pc[t]: the line the call of t is at, or how it ended
    op,
    name,
    entry,      \* entry[t]: what _cache.get returned
    found,      \* found[t]: the value of the call
    began,      \* began[t]: when the call began
    sentAt,     \* sentAt[t]: when its lookup began
    alone       \* history: no other call has overlapped that of t

deployment == <<provider, lack, ttl>>
secret == <<source, heldUntil, changes>>
locals == <<op, name, entry, found, began, sentAt, alone>>
vars == <<deployment, now, secret, cache, calls, pc, locals>>

Never == -(MaxTime + 1)
NoEntry == [expires |-> -1, value |-> Absent]

LookingUp == {"lookup", "store"}
Calling == {"read", "expiry", "drop"} \union LookingUp
Answers == {"value", "secret_invalid_json"}
Errors == {"secret_not_found", "sdk_not_installed", "secret_manager_config_invalid"}

Init ==
    /\ \E profile \in Profiles, allowEnv \in BOOLEAN, m \in Managers \union {Unset} :
          provider = Provider(profile, allowEnv, m)
    /\ lack \in {"nothing"} \union Lacks(provider)
    /\ ttl \in Ttls
    /\ now = 0
    /\ source \in Values \union {Absent}
    /\ heldUntil = [v \in Values |-> Never]
    /\ changes = 0
    /\ cache = [n \in Spellings |-> NoEntry]
    /\ calls = 0
    /\ pc = [t \in Threads |-> "idle"]
    /\ op = [t \in Threads |-> "get"]
    /\ name = [t \in Threads |-> Canonical]
    /\ entry = [t \in Threads |-> NoEntry]
    /\ found = [t \in Threads |-> Absent]
    /\ began = [t \in Threads |-> 0]
    /\ sentAt = [t \in Threads |-> 0]
    /\ alone = [t \in Threads |-> TRUE]

----------------------------------------------------------------------------
\* Time passes (external), but no lookup lasts longer than MaxLookup.
Tick ==
    /\ now < MaxTime
    /\ \A t \in Threads : pc[t] \in LookingUp => now < sentAt[t] + MaxLookup
    /\ now' = now + 1
    /\ UNCHANGED <<deployment, secret, cache, calls, pc, locals>>

\* The secret is rotated, removed or created (external).
Change(new) ==
    /\ changes < MaxChanges
    /\ new # source
    /\ changes' = changes + 1
    /\ source' = new
    /\ heldUntil' = [v \in Values |-> IF v = source THEN now ELSE heldUntil[v]]
    /\ UNCHANGED <<deployment, now, cache, calls, pc, locals>>

Goto(t, line) == pc' = [pc EXCEPT ![t] = line]

\* Mutant: every provider drops the canonical spelling.
PoppedNameUpper(n) == Canonical

\* The key that refresh_secret drops.
PoppedName(n) == IF provider = "environment" THEN Canonical ELSE n

\* get_secret, get_json_secret or refresh_secret is called; the last one first
\* drops an entry.
Begin(t, o, n) ==
    /\ provider # "secret_manager_missing"
    /\ pc[t] \notin Calling
    /\ calls < MaxCalls
    /\ calls' = calls + 1
    /\ op' = [op EXCEPT ![t] = o]
    /\ name' = [name EXCEPT ![t] = n]
    /\ began' = [began EXCEPT ![t] = now]
    /\ cache' = IF o = "refresh" THEN [cache EXCEPT ![PoppedName(n)] = NoEntry] ELSE cache
    /\ Goto(t, "read")
    /\ LET others == {u \in Threads \ {t} : pc[u] \in Calling}
       IN  alone' = [u \in Threads |-> IF u = t THEN others = {}
                                       ELSE alone[u] /\ u \notin others]
    /\ UNCHANGED <<deployment, now, secret, entry, found, sentAt>>

\* The call ends, and its locals are gone.
End(t, outcome) ==
    /\ Goto(t, outcome)
    /\ op' = [op EXCEPT ![t] = "get"]
    /\ name' = [name EXCEPT ![t] = Canonical]
    /\ entry' = [entry EXCEPT ![t] = NoEntry]
    /\ found' = [found EXCEPT ![t] = Absent]
    /\ began' = [began EXCEPT ![t] = 0]
    /\ sentAt' = [sentAt EXCEPT ![t] = 0]
    /\ alone' = [alone EXCEPT ![t] = TRUE]

\* get_secret returns v; if get_json_secret called it, v may fail to decode.
Return(t, v) ==
    \/ End(t, "value")
    \/ op[t] = "get" /\ v \notin JsonValues /\ End(t, "secret_invalid_json")

StartLookup(t) ==
    /\ Goto(t, "lookup")
    /\ sentAt' = [sentAt EXCEPT ![t] = now]

\* _cache_get reads the entry ...
ReadEntry(t) ==
    /\ pc[t] = "read"
    /\ entry' = [entry EXCEPT ![t] = cache[name[t]]]
    /\ IF cache[name[t]] = NoEntry
       THEN StartLookup(t)
       ELSE Goto(t, "expiry") /\ UNCHANGED sentAt
    /\ UNCHANGED <<deployment, now, secret, cache, calls, op, name, found, began, alone>>

\* Mutant: an entry is good at the very time it expires.
LiveInclusive(e) == now <= e.expires

Live(e) == now < e.expires

\* ... compares its time with the clock ...
CheckExpiry(t) ==
    /\ pc[t] = "expiry"
    /\ IF Live(entry[t])
       THEN Return(t, entry[t].value)
       ELSE Goto(t, "drop") /\ UNCHANGED locals
    /\ UNCHANGED <<deployment, now, secret, cache, calls>>

\* ... and drops whatever the cache then holds under the name.
DropExpired(t) ==
    /\ pc[t] = "drop"
    /\ cache' = [cache EXCEPT ![name[t]] = NoEntry]
    /\ StartLookup(t)
    /\ UNCHANGED <<deployment, now, secret, calls, op, name, entry, found, began, alone>>

\* The manager answers, or the process environment holds the variable.
Lookup(t) ==
    /\ pc[t] = "lookup"
    /\ lack = "nothing"
    /\ source # Absent
    /\ found' = [found EXCEPT ![t] = source]
    /\ Goto(t, "store")
    /\ UNCHANGED <<deployment, now, secret, cache, calls, op, name, entry, began, sentAt, alone>>

\* The SDK or its configuration is missing, the manager fails (the environment
\* does not), or it holds no value.
LookupFails(t) ==
    /\ pc[t] = "lookup"
    /\ \/ lack # "nothing" /\ End(t, lack)
       \/ /\ lack = "nothing"
          /\ provider # "environment" \/ source = Absent
          /\ End(t, "secret_not_found")
    /\ UNCHANGED <<deployment, now, secret, cache, calls>>

\* _cache_set, which the environment provider skips for a TTL of zero.
Store(t) ==
    /\ pc[t] = "store"
    /\ Return(t, found[t])
    /\ cache' = IF provider = "environment" /\ ttl = 0
                THEN cache
                ELSE [cache EXCEPT ![name[t]] = [expires |-> now + ttl, value |-> found[t]]]
    /\ UNCHANGED <<deployment, now, secret, calls>>

Step(t) ==
    \/ ReadEntry(t) \/ CheckExpiry(t) \/ DropExpired(t)
    \/ Lookup(t) \/ LookupFails(t) \/ Store(t)

Next ==
    \/ Tick
    \/ \E new \in Values \union {Absent} : Change(new)
    \/ \E t \in Threads :
          Step(t) \/ \E o \in Operations, n \in Spellings : Begin(t, o, n)

Spec == Init /\ [][Next]_vars

----------------------------------------------------------------------------
TypeOK ==
    /\ provider \in {"environment", "secret_manager_missing"} \union Supported
    /\ lack \in {"nothing"} \union Lacks(provider)
    /\ ttl \in Ttls
    /\ now \in 0 .. MaxTime
    /\ source \in Values \union {Absent}
    /\ heldUntil \in [Values -> {Never} \union 0 .. MaxTime]
    /\ changes \in 0 .. MaxChanges
    /\ cache \in [Spellings -> {NoEntry} \union [expires : 0 .. MaxTime + ttl, value : Values]]
    /\ calls \in 0 .. MaxCalls
    /\ pc \in [Threads -> {"idle"} \union Calling \union Answers \union Errors]
    /\ op \in [Threads -> Operations]
    /\ name \in [Threads -> Spellings]
    /\ entry \in [Threads -> {NoEntry} \union [expires : 0 .. MaxTime + ttl, value : Values]]
    /\ found \in [Threads -> Values \union {Absent}]
    /\ began \in [Threads -> 0 .. MaxTime]
    /\ sentAt \in [Threads -> 0 .. MaxTime]
    /\ alone \in [Threads -> BOOLEAN]

LastHeld(v) == IF source = v THEN now ELSE heldUntil[v]

\* The value that the call returns when it is answered in the next step.
Answer(t) == IF pc[t] = "expiry" THEN entry[t].value ELSE found[t]

Answered(t) == pc[t] \in Calling /\ pc'[t] \in Answers

Refreshed(t) ==
    /\ op[t] = "refresh"
    /\ provider = "environment" => name[t] = Canonical
    /\ Answered(t)

\* However the calls overlap, a value from the cache was the manager's less than
\* the TTL and one lookup ago, any other value at most one lookup ago.
ValueAge ==
    [][\A t \in Threads : Answered(t) =>
         IF pc[t] = "expiry" THEN LastHeld(Answer(t)) > now - ttl - MaxLookup
                             ELSE LastHeld(Answer(t)) >= now - MaxLookup]_vars

\* refresh_secret gives a value that the manager held while the refresh ran; if
\* another call overlapped it, at worst one held a lookup before it began, for
\* that call may have stored an older answer between the pop and the read.  The
\* environment provider promises this for the upper-case spelling only: it drops
\* no other entry.
RefreshedValueAge ==
    [][\A t \in Threads : Refreshed(t) =>
         LastHeld(Answer(t)) >= began[t] - (IF alone[t] THEN 0 ELSE MaxLookup)]_vars
=============================================================================
