---------------------------- MODULE JwksClient ----------------------------
(***************************************************************************)
(* The JWKS client (apps/api/jwks.py, HttpJwksClient) beside an identity   *)
(* provider that rotates its keys.  Threads call get_signing_key, one      *)
(* interpreter step at a time: nothing in the client is locked.            *)
(*                                                                         *)
(* verify_jwt_token (auth.py) builds a client for every token, so there a  *)
(* client serves one call and dies: perRequest.  Otherwise the threads     *)
(* share one client and its cache, which is what the class is made for.    *)
(* The two uses are checked side by side.                                  *)
(*                                                                         *)
(* A kid stands for its key.                                               *)
(***************************************************************************)
EXTENDS Integers, FiniteSets

CONSTANTS
    Threads,
    Kids,           \* the keys the provider may publish
    NoKid,          \* a header without a usable kid
    Ttl,            \* cache_ttl_seconds
    MaxFetch,       \* how long a refresh takes at most
    MaxTime,        \* bound: the clock stops there
    MaxRotations,   \* bound: how often the provider changes its set
    MaxCalls        \* bound: the calls of all threads

ASSUME JwksAssumption ==
    /\ NoKid \notin Kids
    /\ Ttl \in Nat \ {0}
    /\ MaxFetch \in Nat
    /\ MaxTime \in Nat
    /\ MaxRotations \in Nat
    /\ MaxCalls \in Nat

VARIABLES
    perRequest,     \* every call has a client of its own
    now,            \* time.monotonic()
    published,      \* the key set of the provider (external)
    changedAt,      \* history: when a kid last entered or left that set
    rotations,
    keys,           \* keys[c]: _keys_by_kid of client c
    cache,          \* cache[c][k]: expires_at of the cached key, None if none
    fetchedAt,      \* fetchedAt[c]: _fetched_at
    calls,          \* how many calls have begun
    pc,             \* pc[t]: the line the call of t is at, or how it ended
    kid,
    stamp,          \* stamp[t]: the clock reading of the call
    payload,        \* payload[t]: the set that the provider answered
    sentAt          \* sentAt[t]: when t began to refresh

client == <<keys, cache, fetchedAt>>
idp == <<published, changedAt, rotations>>
locals == <<kid, stamp, payload, sentAt>>
vars == <<perRequest, now, idp, client, calls, pc, locals>>

None == -1
Never == -(MaxTime + 1)

Refreshing == {"fetch", "install", "clear", "stamp"}
Calling == {"cache", "decide", "find", "read", "store"} \union Refreshing
Outcomes == {"key", "missing_kid", "unknown_kid", "fetch_failed",
             "invalid_payload", "payload_error", "key_error"}

Clients == Threads \union {"shared"}
ClientOf(t) == IF perRequest THEN t ELSE "shared"

Init ==
    /\ perRequest \in BOOLEAN
    /\ now = 0
    /\ published \in (SUBSET Kids) \ {{}}
    /\ changedAt = [k \in Kids |-> Never]
    /\ rotations = 0
    /\ keys = [c \in Clients |-> {}]
    /\ cache = [c \in Clients |-> [k \in Kids |-> None]]
    /\ fetchedAt = [c \in Clients |-> 0]
    /\ calls = 0
    /\ pc = [t \in Threads |-> "idle"]
    /\ kid = [t \in Threads |-> NoKid]
    /\ stamp = [t \in Threads |-> 0]
    /\ payload = [t \in Threads |-> {}]
    /\ sentAt = [t \in Threads |-> 0]

----------------------------------------------------------------------------
\* Time passes (external), but no refresh lasts longer than MaxFetch.
Tick ==
    /\ now < MaxTime
    /\ \A t \in Threads : pc[t] \in Refreshing => now < sentAt[t] + MaxFetch
    /\ now' = now + 1
    /\ UNCHANGED <<perRequest, idp, client, calls, pc, locals>>

\* The provider publishes another set of keys (external).
Rotate(new) ==
    /\ rotations < MaxRotations
    /\ new # published
    /\ rotations' = rotations + 1
    /\ published' = new
    /\ changedAt' = [k \in Kids |->
                       IF (k \in new) = (k \in published) THEN changedAt[k] ELSE now]
    /\ UNCHANGED <<perRequest, now, client, calls, pc, locals>>

Goto(t, line) == pc' = [pc EXCEPT ![t] = line]

\* Mutant: one client is kept and handed to every call.
DropClientNever(t) == UNCHANGED client

\* The client that verify_jwt_token built dies with the call; the next one has
\* the fields' defaults.
DropClient(t) ==
    IF perRequest
    THEN /\ keys' = [keys EXCEPT ![t] = {}]
         /\ cache' = [cache EXCEPT ![t] = [k \in Kids |-> None]]
         /\ fetchedAt' = [fetchedAt EXCEPT ![t] = 0]
    ELSE UNCHANGED client

\* The call returns or raises, and its locals are gone.
End(t, outcome) ==
    /\ Goto(t, outcome)
    /\ kid' = [kid EXCEPT ![t] = NoKid]
    /\ stamp' = [stamp EXCEPT ![t] = 0]
    /\ payload' = [payload EXCEPT ![t] = {}]
    /\ sentAt' = [sentAt EXCEPT ![t] = 0]

\* get_signing_key(k): the clock is read; a missing kid has been refused.
Begin(t, k) ==
    /\ pc[t] \notin Calling
    /\ calls < MaxCalls
    /\ calls' = calls + 1
    /\ IF k = NoKid
       THEN End(t, "missing_kid")
       ELSE /\ kid' = [kid EXCEPT ![t] = k]
            /\ stamp' = [stamp EXCEPT ![t] = now]
            /\ Goto(t, "cache")
            /\ UNCHANGED <<payload, sentAt>>
    /\ UNCHANGED <<perRequest, now, idp, client>>

\* A cached key that has not expired is the answer.
CacheLookup(t) ==
    /\ pc[t] = "cache"
    /\ IF cache[ClientOf(t)][kid[t]] > stamp[t]
       THEN End(t, "key") /\ DropClient(t)
       ELSE Goto(t, "decide") /\ UNCHANGED <<client, locals>>
    /\ UNCHANGED <<perRequest, now, idp, calls>>

\* Mutant: the age of the set is not looked at.
NeedsRefreshEmptyOnly(t) == keys[ClientOf(t)] = {}

NeedsRefresh(t) ==
    \/ keys[ClientOf(t)] = {}
    \/ stamp[t] - fetchedAt[ClientOf(t)] > Ttl

Decide(t) ==
    /\ pc[t] = "decide"
    /\ Goto(t, IF NeedsRefresh(t) THEN "fetch" ELSE "find")
    /\ sentAt' = [sentAt EXCEPT ![t] = IF NeedsRefresh(t) THEN now ELSE @]
    /\ UNCHANGED <<perRequest, now, idp, client, calls, kid, stamp, payload>>

\* urlopen and from_json: the provider answers with its set.
Fetch(t) ==
    /\ pc[t] = "fetch"
    /\ published # {}
    /\ payload' = [payload EXCEPT ![t] = published]
    /\ Goto(t, "install")
    /\ UNCHANGED <<perRequest, now, idp, client, calls, kid, stamp, sentAt>>

\* The fetch fails or times out (a TimeoutError is an OSError, so the handler
\* for it is never reached); PyJWKSet refuses a set without keys; or the
\* answer is not JSON and json.loads raises a ValueError, which is neither a
\* PyJWTError nor a JwksError.  The client keeps what it has.
FetchFails(t) ==
    /\ pc[t] = "fetch"
    /\ \E e \in {"fetch_failed", "payload_error"} \union
                 {x \in {"invalid_payload"} : published = {}} : End(t, e)
    /\ DropClient(t)
    /\ UNCHANGED <<perRequest, now, idp, calls>>

\* The end of refresh(), three assignments.
Install(t) ==
    /\ pc[t] = "install"
    /\ keys' = [keys EXCEPT ![ClientOf(t)] = payload[t]]
    /\ payload' = [payload EXCEPT ![t] = {}]
    /\ Goto(t, "clear")
    /\ UNCHANGED <<perRequest, now, idp, cache, fetchedAt, calls, kid, stamp, sentAt>>

Clear(t) ==
    /\ pc[t] = "clear"
    /\ cache' = [cache EXCEPT ![ClientOf(t)] = [k \in Kids |-> None]]
    /\ Goto(t, "stamp")
    /\ UNCHANGED <<perRequest, now, idp, keys, fetchedAt, calls, locals>>

Stamp(t) ==
    /\ pc[t] = "stamp"
    /\ fetchedAt' = [fetchedAt EXCEPT ![ClientOf(t)] = now]
    /\ sentAt' = [sentAt EXCEPT ![t] = 0]
    /\ Goto(t, "find")
    /\ UNCHANGED <<perRequest, now, idp, keys, cache, calls, kid, stamp, payload>>

\* if kid not in self._keys_by_kid
Find(t) ==
    /\ pc[t] = "find"
    /\ IF kid[t] \in keys[ClientOf(t)]
       THEN Goto(t, "read") /\ UNCHANGED <<client, locals>>
       ELSE End(t, "unknown_kid") /\ DropClient(t)
    /\ UNCHANGED <<perRequest, now, idp, calls>>

\* self._keys_by_kid[kid]: by now another thread may have put another set there.
Read(t) ==
    /\ pc[t] = "read"
    /\ IF kid[t] \in keys[ClientOf(t)]
       THEN Goto(t, "store") /\ UNCHANGED <<client, locals>>
       ELSE End(t, "key_error") /\ DropClient(t)
    /\ UNCHANGED <<perRequest, now, idp, calls>>

\* Mutant: the entry lives a TTL from the time it is stored.
ExpiryFromStore(t) == now + Ttl

\* The entry lives a TTL from the clock reading of the call.
Expiry(t) == stamp[t] + Ttl

Store(t) ==
    /\ pc[t] = "store"
    /\ End(t, "key")
    /\ IF perRequest
       THEN DropClient(t)
       ELSE /\ cache' = [cache EXCEPT !["shared"][kid[t]] = Expiry(t)]
            /\ UNCHANGED <<keys, fetchedAt>>
    /\ UNCHANGED <<perRequest, now, idp, calls>>

Step(t) ==
    \/ CacheLookup(t) \/ Decide(t) \/ Fetch(t) \/ FetchFails(t)
    \/ Install(t) \/ Clear(t) \/ Stamp(t)
    \/ Find(t) \/ Read(t) \/ Store(t)

Next ==
    \/ Tick
    \/ \E new \in SUBSET Kids : Rotate(new)
    \/ \E t \in Threads : Step(t) \/ \E k \in Kids \union {NoKid} : Begin(t, k)

Spec == Init /\ [][Next]_vars

----------------------------------------------------------------------------
TypeOK ==
    /\ perRequest \in BOOLEAN
    /\ now \in 0 .. MaxTime
    /\ published \in SUBSET Kids
    /\ changedAt \in [Kids -> {Never} \union 0 .. MaxTime]
    /\ rotations \in 0 .. MaxRotations
    /\ keys \in [Clients -> SUBSET Kids]
    /\ cache \in [Clients -> [Kids -> {None} \union 0 .. MaxTime + Ttl]]
    /\ fetchedAt \in [Clients -> 0 .. MaxTime]
    /\ calls \in 0 .. MaxCalls
    /\ pc \in [Threads -> {"idle"} \union Calling \union Outcomes]
    /\ kid \in [Threads -> Kids \union {NoKid}]
    /\ stamp \in [Threads -> 0 .. MaxTime]
    /\ payload \in [Threads -> SUBSET Kids]
    /\ sentAt \in [Threads -> 0 .. MaxTime]

LastPublished(k) == IF k \in published THEN now ELSE changedAt[k]
LastAbsent(k) == IF k \in published THEN changedAt[k] ELSE now

\* How old what a shared client knows of the provider can be: a set counts as
\* fresh for a TTL after its refresh ended, and two refreshes that overlap can
\* leave the older set under the newer time.
SetAge == Ttl + 2 * MaxFetch

Ends(t, outcome) == pc[t] \in Calling /\ pc'[t] = outcome

\* A key that was rotated out is accepted for less than two TTLs and two fetches
\* more, however the threads overlap: one TTL for the set, one for the entry that
\* was made from it.
AcceptedKeyAge ==
    [][\A t \in Threads :
         Ends(t, "key") => LastPublished(kid[t]) > stamp[t] - SetAge - Ttl]_vars

\* A key that was rotated in is refused as unknown for one TTL and two fetches
\* and no longer.
UnknownKidAge ==
    [][\A t \in Threads :
         Ends(t, "unknown_kid") => LastAbsent(kid[t]) >= stamp[t] - SetAge]_vars

\* As verify_jwt_token uses the client every token is judged by a set that was
\* published while it was judged, and no call fails for another's sake.
OwnClientIsFresh ==
    [][perRequest => \A t \in Threads :
         /\ Ends(t, "key") => LastPublished(kid[t]) >= stamp[t]
         /\ Ends(t, "unknown_kid") => LastAbsent(kid[t]) >= stamp[t]
         /\ ~Ends(t, "key_error")]_vars
=============================================================================
