----------------------------- MODULE RedisLabs -----------------------------
(***************************************************************************)
(* The two labs that work on the live Redis: the session lab               *)
(* (labs/redis_state.py) and the prompt cache lab                          *)
(* (labs/prompt_cache_isolation.py).  Runs execute in the thread pool of   *)
(* the API, several at a time, against one keyspace; every Redis command   *)
(* is a step of its own, may fail before or after it took effect; a key    *)
(* with a TTL may expire, and any key be lost by a restart of Redis,       *)
(* between any two steps.  With live mode off the labs answer from a       *)
(* dictionary of their own.                                                *)
(*                                                                         *)
(* A key is its parts <<scope, tenant, lab, suffix>>; the colons between   *)
(* them are left out, the suffix (a uuid or a hash of the prompt prefix)   *)
(* has a fixed length and no colon.  One prompt prefix is followed: the    *)
(* keys of two prefixes differ in their suffix.                            *)
(***************************************************************************)
EXTENDS Integers

CONSTANTS
    Runs,      \* lab runs; a run also stands for the uuid it draws
    Tenants,   \* tenant ids as requests carry them
    Strip      \* Strip[t]: t.strip()

ASSUME RedisLabsAssumption ==
    /\ Tenants \subseteq STRING
    /\ Strip \in [Tenants -> STRING]

VARIABLES
    saas,    \* settings.is_production_saas
    live,    \* BOUNDARY_LAYER_REDIS_LIVE
    store,   \* the keyspace: store[k] is the entry at k
    pc,      \* pc[r]: the next command of run r, or how it was answered
    req,     \* req[r]: its request
    out      \* out[r]: the parts of its result, and the entry it read

vars == <<saas, live, store, pc, req, out>>

RedisModes == {"vulnerable", "hardened"}

Blank(t) == Strip[t] = ""

SessionRequests ==
    [lab : {"redis"}, mode : RedisModes, a : {t \in Tenants : ~Blank(t)}, b : {""}]

CacheRequests ==
    [lab : {"prompt_cache"}, mode : RedisModes, a : Tenants, b : Tenants]

Requests == SessionRequests \union CacheRequests

----------------------------------------------------------------------------
\* Keys.

\* normalize_lab_tenant_id: blank ids become the local lab's.
Normalized(t) == IF Blank(t) THEN "local-lab" ELSE Strip[t]

\* build_tenant_redis_key
TenantRedisKey(t, lab, suffix) == <<"tenant", Normalized(t), lab, suffix>>

\* Mutant: one session key per tenant.
SessionKeyPerTenant(r, i) == TenantRedisKey(i.a, "redis", "session")

\* _redis_key: the suffix is drawn anew by every run.
SessionKey(r, i) == TenantRedisKey(i.a, "redis", r)

\* global_cache_key: the literal "global" stands where a tenant would.
GlobalCacheKey == <<"lab", "global", "prompt_cache", "prefix">>

\* Mutant: the tenant is left out of the scoped key.
TenantCacheKeyShared(t) == <<"tenant", "local-lab", "prompt_cache", "prefix">>

\* tenant_cache_key: the normalised key in production SaaS, the raw id
\* under the lab's own prefix elsewhere.
TenantCacheKey(t) ==
    IF saas THEN TenantRedisKey(t, "prompt_cache", "prefix")
    ELSE <<"lab", t, "prompt_cache", "prefix">>

CacheKey(i, t) == IF i.mode = "vulnerable" THEN GlobalCacheKey ELSE TenantCacheKey(t)

Names == Tenants \union {Strip[t] : t \in Tenants} \union {"global", "local-lab"}

Keys ==
    {"lab", "tenant"} \X Names \X {"redis", "prompt_cache"}
        \X (Runs \union {"prefix", "session"})

----------------------------------------------------------------------------
\* Entries.  A session is unsigned or signed with the HMAC secret; a cache
\* entry names the tenant that wrote it.

Absent == [form |-> "absent", role |-> "", tenant |-> "", ttl |-> FALSE]

Entries ==
    [form : {"absent", "unsigned", "signed", "cached"},
     role : {"", "viewer", "admin"}, tenant : {""} \union Tenants, ttl : BOOLEAN]

\* _encode_session_vulnerable of ORIGINAL_SESSION, _sign_session_hardened
Original(i) ==
    [form |-> IF i.mode = "vulnerable" THEN "unsigned" ELSE "signed",
     role |-> "viewer", tenant |-> "", ttl |-> TRUE]

\* Set by a plain SET, which drops the TTL of the key.
Tampered == [form |-> "unsigned", role |-> "admin", tenant |-> "", ttl |-> FALSE]

\* Mutant: the entry is stored with SET.
CachePayloadKept(i) == [form |-> "cached", role |-> "", tenant |-> i.a, ttl |-> FALSE]

\* _cache_payload, stored with SETEX
CachePayload(i) == [form |-> "cached", role |-> "", tenant |-> i.a, ttl |-> TRUE]

----------------------------------------------------------------------------
\* Results.

NoResult == [blocked |-> FALSE, hit |-> "none", read |-> Absent]

Hits == {"none", "miss", "cross_tenant", "tenant_scoped"}

\* _verify_session_hardened: a blob without payload and signature fails.
Verified(e) == e.form = "signed"

SessionResult(i, e) ==
    [blocked |-> i.mode = "hardened" /\ ~Verified(e), hit |-> "none", read |-> e]

CacheResult(i, e) ==
    [blocked |-> i.mode = "hardened",
     hit |-> IF e = Absent THEN "miss"
             ELSE IF i.mode = "vulnerable" THEN "cross_tenant" ELSE "tenant_scoped",
     read |-> e]

\* The in-memory labs: a tampered blob is read back, and a dictionary that
\* holds tenant a's entry only is looked up with tenant b's key.
Fallback(i) ==
    IF i.lab = "redis" THEN SessionResult(i, Tampered)
    ELSE CacheResult(i, IF CacheKey(i, i.a) = CacheKey(i, i.b)
                        THEN CachePayload(i) ELSE Absent)

----------------------------------------------------------------------------
Answers == {"done", "invalid", "unavailable", "error"}

NoRequest == [lab |-> "", mode |-> "", a |-> "", b |-> ""]

Init ==
    /\ saas \in BOOLEAN /\ live \in BOOLEAN
    /\ store = [k \in Keys |-> Absent]
    /\ pc = [r \in Runs |-> "idle"]
    /\ req = [r \in Runs |-> NoRequest]
    /\ out = [r \in Runs |-> NoResult]

Goto(r, l) == pc' = [pc EXCEPT ![r] = l]

Put(k, e) == store' = [store EXCEPT ![k] = e]

Finish(r, result) ==
    /\ Goto(r, "done")
    /\ out' = [out EXCEPT ![r] = result]

\* A request reaches its lab: blank tenants of the cache lab are a 422, and
\* with live mode off the run ends here.
Submit(r, i) ==
    /\ pc[r] = "idle"
    /\ req' = [req EXCEPT ![r] = i]
    /\ \/ /\ i.lab = "prompt_cache" /\ (Blank(i.a) \/ Blank(i.b))
          /\ Goto(r, "invalid") /\ UNCHANGED out
       \/ /\ ~(i.lab = "prompt_cache" /\ (Blank(i.a) \/ Blank(i.b)))
          /\ \/ live /\ Goto(r, "connect") /\ UNCHANGED out
             \/ ~live /\ Finish(r, Fallback(i))
    /\ UNCHANGED <<saas, live, store>>

\* _get_redis_client pings; a failure is a RuntimeError, hence a 503.
Connect(r) ==
    /\ pc[r] = "connect"
    /\ \/ Goto(r, IF req[r].lab = "redis" THEN "setex" ELSE "write")
       \/ Goto(r, "unavailable")
    /\ UNCHANGED <<saas, live, store, req, out>>

\* The effects of the commands that write.
StoreSession(r) == pc[r] = "setex" /\ Put(SessionKey(r, req[r]), Original(req[r]))

TamperSession(r) == pc[r] = "set" /\ Put(SessionKey(r, req[r]), Tampered)

StorePrompt(r) ==
    pc[r] = "write" /\ Put(CacheKey(req[r], req[r].a), CachePayload(req[r]))

\* SETEX of the original session, SET of the tampered one, SETEX of tenant
\* a's cache entry.
Write(r) ==
    /\ \/ StoreSession(r) /\ Goto(r, "set")
       \/ TamperSession(r) /\ Goto(r, "get")
       \/ StorePrompt(r) /\ Goto(r, "lookup")
    /\ UNCHANGED <<saas, live, req, out>>

\* GET of the session.  A missing key is a RuntimeError, hence a 503.
GetSession(r) ==
    LET e == store[SessionKey(r, req[r])] IN
    /\ pc[r] = "get"
    /\ \/ e = Absent /\ Goto(r, "unavailable") /\ UNCHANGED out
       \/ e # Absent /\ Finish(r, SessionResult(req[r], e))
    /\ UNCHANGED <<saas, live, store, req>>

\* GET with tenant b's key.
LookupPrompt(r) ==
    /\ pc[r] = "lookup"
    /\ Finish(r, CacheResult(req[r], store[CacheKey(req[r], req[r].b)]))
    /\ UNCHANGED <<saas, live, store, req>>

\* A command after the ping fails: no handler catches redis errors, so the
\* client gets a 500.  A write may have taken effect.
CommandFails(r) ==
    /\ pc[r] \in {"setex", "set", "get", "write", "lookup"}
    /\ UNCHANGED store \/ StoreSession(r) \/ TamperSession(r) \/ StorePrompt(r)
    /\ Goto(r, "error")
    /\ UNCHANGED <<saas, live, req, out>>

\* Redis drops a key whose TTL has run out (external).
Expire(k) ==
    /\ store[k].ttl
    /\ Put(k, Absent)
    /\ UNCHANGED <<saas, live, pc, req, out>>

\* Redis restarts without the key, which was not on disk yet (external); the
\* connection pool reconnects.
Lose(k) ==
    /\ store[k] # Absent
    /\ Put(k, Absent)
    /\ UNCHANGED <<saas, live, pc, req, out>>

\* All runs answered and nothing left to expire.
Quiet ==
    /\ \A r \in Runs : pc[r] \in Answers
    /\ \A k \in Keys : ~store[k].ttl
    /\ UNCHANGED vars

Step(r) == Connect(r) \/ Write(r) \/ GetSession(r) \/ LookupPrompt(r) \/ CommandFails(r)

Next ==
    \/ \E r \in Runs : \E i \in Requests : Submit(r, i)
    \/ \E r \in Runs : Step(r)
    \/ \E k \in Keys : Expire(k) \/ Lose(k)
    \/ Quiet

Spec == Init /\ [][Next]_vars

\* Every command returns or times out (socket_timeout), and Redis expires
\* what has a TTL.
FairSpec ==
    /\ Spec
    /\ \A r \in Runs : WF_vars(Step(r))
    /\ \A k \in Keys : WF_vars(Expire(k))

----------------------------------------------------------------------------
TypeOK ==
    /\ saas \in BOOLEAN /\ live \in BOOLEAN
    /\ store \in [Keys -> Entries]
    /\ pc \in [Runs -> Answers \union
                 {"idle", "connect", "setex", "set", "get", "write", "lookup"}]
    /\ req \in [Runs -> Requests \union {NoRequest}]
    /\ out \in [Runs -> [blocked : BOOLEAN, hit : Hits, read : Entries]]

\* Concurrent sessions never mix: whatever other runs do between its three
\* commands, a session run on the live Redis that completes ends exactly as
\* the in-memory lab does, with the tampered blob read back, accepted in
\* vulnerable mode and rejected in hardened mode.
SessionsEndAsFallback ==
    \A r \in Runs : pc[r] = "done" /\ req[r].lab = "redis" =>
        out[r] = Fallback(req[r])

\* A hardened lookup that hits read an entry its own tenant wrote, whatever
\* is left in the keyspace by runs of other tenants and of vulnerable mode.
\* Outside production SaaS a tenant must not be called "global": its key
\* would be the shared one.
HardenedReadsOwnTenant ==
    \A r \in Runs :
        LET i == req[r] IN
        /\ pc[r] = "done" /\ i.lab = "prompt_cache" /\ i.mode = "hardened"
        /\ out[r].hit # "miss"
        /\ saas \/ i.b # "global"
        => Normalized(out[r].read.tenant) = Normalized(i.b)

\* Only tampered sessions stay: when the runs are over, what is left of
\* every other entry, of runs that failed half-way too, expires.
OnlyTamperedStay == <>[](\A k \in Keys : store[k] \in {Absent, Tampered})
=============================================================================
