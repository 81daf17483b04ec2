----------------------------- MODULE LabProofs -----------------------------
(***************************************************************************)
(* The labs on the live Redis (RedisLabs) and the metrics that the lab     *)
(* routes record (LabMetrics).                                             *)
(*                                                                         *)
(* RedisLabs: the isolation of the hardened prompt cache for every set of  *)
(* tenants and runs.  A lookup reads what any earlier run left at its key, *)
(* so the invariant speaks of the whole keyspace: an entry is at the key   *)
(* of the tenant that wrote it, or at the shared key.  A result carries    *)
(* the entry it read, so what was true at the lookup stays true.           *)
(*                                                                         *)
(* LabMetrics: the counters of a total and of its parts are updated one    *)
(* after the other by runs that interleave.  What a total is ahead of its  *)
(* parts is the sum of what the runs that are recording still owe, and     *)
(* each of them pays it with the updates it has left.                      *)
(***************************************************************************)
EXTENDS RedisLabs, LabMetrics, SequenceTheorems, TLAPS

\* A tenant's hardened key, in its two forms.
KeysOf(t) ==
    {<<"tenant", Normalized(t), "prompt_cache", "prefix">>,
     <<"lab", t, "prompt_cache", "prefix">>}

\* A cache entry is at a key of its tenant or at the shared key.
EntriesInPlace ==
    \A k \in Keys :
        store[k].form = "cached" =>
            /\ store[k].tenant \in Tenants
            /\ k \in KeysOf(store[k].tenant) \/ k = GlobalCacheKey

\* Only sessions are at the keys of sessions, only cache entries elsewhere.
FormsInPlace ==
    \A k \in Keys :
        store[k] # Absent =>
            (store[k].form = "cached" <=> k[3] = "prompt_cache")

\* A run that is past its submission has a request of its lab.
RequestsKnown ==
    \A r \in Runs :
        /\ pc[r] # "idle" => req[r] \in Requests
        /\ pc[r] \in {"write", "lookup"} => req[r] \in CacheRequests
        /\ pc[r] \in {"setex", "set", "get"} => req[r] \in SessionRequests

IInv ==
    /\ TypeOK
    /\ EntriesInPlace
    /\ FormsInPlace
    /\ RequestsKnown
    /\ HardenedReadsOwnTenant

----------------------------------------------------------------------------
\* The entries that runs write have their types and forms.
LEMMA EntryTypes ==
    ASSUME NEW i \in Requests
    PROVE  /\ Original(i) \in Entries /\ Original(i).form # "cached"
           /\ Tampered \in Entries /\ Tampered.form = "unsigned"
           /\ Absent \in Entries /\ Absent.form = "absent"
           /\ i \in CacheRequests => CachePayload(i) \in Entries
           /\ CachePayload(i).form = "cached" /\ CachePayload(i).tenant = i.a
  BY DEF Original, Tampered, Absent, CachePayload, Entries, CacheRequests, RedisModes

\* The results that a run computes from an entry have their types.
LEMMA ResultTypes ==
    ASSUME NEW i \in Requests, NEW e \in Entries
    PROVE  /\ SessionResult(i, e) \in [blocked : BOOLEAN, hit : Hits, read : Entries]
           /\ CacheResult(i, e) \in [blocked : BOOLEAN, hit : Hits, read : Entries]
  BY DEF SessionResult, CacheResult, Hits, Verified

\* Writing an entry where it belongs keeps every entry in its place.
LEMMA PutInPlace ==
    ASSUME TypeOK, EntriesInPlace, FormsInPlace,
           NEW k, NEW e \in Entries, Put(k, e),
           e # Absent => (e.form = "cached" <=> k[3] = "prompt_cache"),
           e.form = "cached" => /\ e.tenant \in Tenants
                                /\ k \in KeysOf(e.tenant) \/ k = GlobalCacheKey
    PROVE  store' \in [Keys -> Entries] /\ EntriesInPlace' /\ FormsInPlace'
<1>1. store' \in [Keys -> Entries]
  BY DEF Put, TypeOK
<1>2. \A j \in Keys : store'[j] = IF j = k THEN e ELSE store[j]
  BY DEF Put, TypeOK
<1>3. EntriesInPlace'
  <2> SUFFICES ASSUME NEW j \in Keys, store'[j].form = "cached"
               PROVE  /\ store'[j].tenant \in Tenants
                      /\ j \in KeysOf(store'[j].tenant) \/ j = GlobalCacheKey
    BY DEF EntriesInPlace, KeysOf, GlobalCacheKey, Normalized, Blank
  <2>1. CASE j = k
    BY <1>2, <2>1
  <2>2. CASE j # k
    BY <1>2, <2>2 DEF EntriesInPlace
  <2> QED BY <2>1, <2>2
<1>4. FormsInPlace'
  BY <1>2 DEF FormsInPlace, Absent
<1> QED BY <1>1, <1>3, <1>4

\* Each write of a run puts its entry where it belongs.
LEMMA WritesInPlace ==
    ASSUME IInv, NEW r \in Runs,
           StoreSession(r) \/ TamperSession(r) \/ StorePrompt(r)
    PROVE  store' \in [Keys -> Entries] /\ EntriesInPlace' /\ FormsInPlace'
<1> USE DEF IInv
<1>1. CASE StoreSession(r)
  <2>1. req[r] \in SessionRequests /\ req[r] \in Requests
    BY <1>1 DEF StoreSession, RequestsKnown, Requests
  <2>2. SessionKey(r, req[r])[3] = "redis"
    BY DEF SessionKey, TenantRedisKey
  <2>3. Put(SessionKey(r, req[r]), Original(req[r]))
    BY <1>1 DEF StoreSession
  <2> HIDE DEF IInv
  <2> QED BY <2>1, <2>2, <2>3, EntryTypes, PutInPlace DEF IInv
<1>2. CASE TamperSession(r)
  <2>1. req[r] \in SessionRequests /\ req[r] \in Requests
    BY <1>2 DEF TamperSession, RequestsKnown, Requests
  <2>2. SessionKey(r, req[r])[3] = "redis"
    BY DEF SessionKey, TenantRedisKey
  <2>3. Put(SessionKey(r, req[r]), Tampered)
    BY <1>2 DEF TamperSession
  <2>4. Tampered \in Entries /\ Tampered.form # "cached"
    BY <2>1, EntryTypes
  <2> QED BY <2>2, <2>3, <2>4, PutInPlace
<1>3. CASE StorePrompt(r)
  <2> DEFINE i == req[r]
             k == CacheKey(i, i.a)
             e == CachePayload(i)
  <2>1. i \in CacheRequests /\ i \in Requests /\ i.a \in Tenants
    BY <1>3 DEF StorePrompt, RequestsKnown, Requests, CacheRequests
  <2>2. k \in KeysOf(i.a) \/ k = GlobalCacheKey
    BY DEF CacheKey, TenantCacheKey, TenantRedisKey, KeysOf
  <2>3. k[3] = "prompt_cache"
    BY DEF CacheKey, TenantCacheKey, TenantRedisKey, GlobalCacheKey
  <2>4. Put(k, e)
    BY <1>3 DEF StorePrompt
  <2>5. e \in Entries /\ e.form = "cached" /\ e.tenant = i.a
    BY <2>1, EntryTypes
  <2> HIDE DEF k, e
  <2> QED BY <2>1, <2>2, <2>3, <2>4, <2>5, PutInPlace
<1> QED BY <1>1, <1>2, <1>3

\* Redis dropping a key moves no entry.
LEMMA DropInPlace ==
    ASSUME IInv, NEW k \in Keys, Put(k, Absent)
    PROVE  store' \in [Keys -> Entries] /\ EntriesInPlace' /\ FormsInPlace'
<1>1. Absent \in Entries /\ Absent.form = "absent"
  BY DEF Absent, Entries
<1> QED BY <1>1, PutInPlace DEF IInv

\* What a hardened lookup finds at its key was written by its tenant.
LEMMA LookupIsOwn ==
    ASSUME IInv, NEW i \in CacheRequests, i.mode = "hardened",
           saas \/ i.b # "global",
           CacheKey(i, i.b) \in Keys,
           store[CacheKey(i, i.b)] # Absent
    PROVE  Normalized(store[CacheKey(i, i.b)].tenant) = Normalized(i.b)
<1> DEFINE k == CacheKey(i, i.b)
           w == store[k].tenant
<1>1. k = IF saas THEN <<"tenant", Normalized(i.b), "prompt_cache", "prefix">>
          ELSE <<"lab", i.b, "prompt_cache", "prefix">>
  BY DEF CacheKey, TenantCacheKey, TenantRedisKey
<1>2. k[3] = "prompt_cache"
  BY <1>1
<1>3. k \in KeysOf(w) \/ k = GlobalCacheKey
  BY <1>2 DEF IInv, EntriesInPlace, FormsInPlace
<1>4. CASE saas
  BY <1>1, <1>3, <1>4 DEF KeysOf, GlobalCacheKey
<1>5. CASE ~saas
  BY <1>1, <1>3, <1>5 DEF KeysOf, GlobalCacheKey
<1> QED BY <1>4, <1>5

\* The keys of lookups are keys of the keyspace.
LEMMA LookupKeys ==
    ASSUME NEW i \in CacheRequests
    PROVE  CacheKey(i, i.b) \in Keys
<1>1. i.b \in Tenants
  BY DEF CacheRequests
<1>2. Normalized(i.b) \in Names /\ i.b \in Names /\ "global" \in Names
  BY <1>1 DEF Normalized, Names
<1> QED BY <1>2 DEF CacheKey, TenantCacheKey, TenantRedisKey, GlobalCacheKey, Keys

\* HardenedReadsOwnTenant looks at answered runs only: it survives a step
\* that answers no run "done" and leaves the runs that are.
LEMMA ResultsKept ==
    ASSUME IInv, UNCHANGED saas,
           \A q \in Runs : pc'[q] = "done" =>
               pc[q] = "done" /\ req'[q] = req[q] /\ out'[q] = out[q]
    PROVE  HardenedReadsOwnTenant'
<1> SUFFICES ASSUME NEW q \in Runs, pc'[q] = "done",
                    req'[q].lab = "prompt_cache", req'[q].mode = "hardened",
                    out'[q].hit # "miss", saas \/ req'[q].b # "global"
             PROVE  Normalized(out'[q].read.tenant) = Normalized(req'[q].b)
  BY DEF HardenedReadsOwnTenant, Normalized, Blank
<1> QED BY DEF IInv, HardenedReadsOwnTenant

\* It survives a run's end if the result of that run is right.
LEMMA ResultAdded ==
    ASSUME IInv, UNCHANGED saas, NEW r \in Runs, NEW i, NEW res,
           pc[r] # "done",
           req' = [req EXCEPT ![r] = i], Finish(r, res),
           /\ i.lab = "prompt_cache" /\ i.mode = "hardened" /\ res.hit # "miss"
           /\ saas \/ i.b # "global"
           => Normalized(res.read.tenant) = Normalized(i.b)
    PROVE  HardenedReadsOwnTenant'
<1> SUFFICES ASSUME NEW q \in Runs, pc'[q] = "done",
                    req'[q].lab = "prompt_cache", req'[q].mode = "hardened",
                    out'[q].hit # "miss", saas \/ req'[q].b # "global"
             PROVE  Normalized(out'[q].read.tenant) = Normalized(req'[q].b)
  BY DEF HardenedReadsOwnTenant, Normalized, Blank
<1>1. CASE q = r
  <2>1. req'[q] = i /\ out'[q] = res
    BY <1>1 DEF IInv, TypeOK, Finish
  <2> QED BY <2>1
<1>2. CASE q # r
  <2>1. req'[q] = req[q] /\ out'[q] = out[q] /\ pc'[q] = pc[q]
    BY <1>2 DEF IInv, TypeOK, Finish, Goto
  <2> QED BY <2>1 DEF IInv, HardenedReadsOwnTenant
<1> QED BY <1>1, <1>2

\* The in-memory lookup finds tenant a's entry only under the same key, and
\* then both are one tenant.
LEMMA FallbackIsOwn ==
    ASSUME NEW i \in CacheRequests, i.mode = "hardened", Fallback(i).hit # "miss"
    PROVE  Normalized(Fallback(i).read.tenant) = Normalized(i.b)
<1>1. i.lab = "prompt_cache"
  BY DEF CacheRequests
<1>2. CASE CacheKey(i, i.a) = CacheKey(i, i.b)
  <2>1. Normalized(i.a) = Normalized(i.b)
    BY <1>2 DEF CacheKey, TenantCacheKey, TenantRedisKey
  <2>2. Fallback(i).read = CachePayload(i)
    BY <1>1, <1>2 DEF Fallback, CacheResult
  <2>3. CachePayload(i).tenant = i.a
    BY DEF CachePayload
  <2> QED BY <2>1, <2>2, <2>3
<1>3. CASE CacheKey(i, i.a) # CacheKey(i, i.b)
  BY <1>1, <1>3 DEF Fallback, CacheResult
<1> QED BY <1>2, <1>3

\* The in-memory labs' results have their types.
LEMMA FallbackType ==
    ASSUME NEW i \in Requests
    PROVE  Fallback(i) \in [blocked : BOOLEAN, hit : Hits, read : Entries]
<1>1. CASE i \in SessionRequests
  BY <1>1, EntryTypes, ResultTypes DEF Fallback, SessionRequests
<1>2. CASE i \in CacheRequests
  <2>1. i.lab = "prompt_cache" /\ CachePayload(i) \in Entries /\ Absent \in Entries
    BY <1>2, EntryTypes DEF CacheRequests
  <2> QED BY <2>1, ResultTypes DEF Fallback
<1> QED BY <1>1, <1>2 DEF Requests

----------------------------------------------------------------------------
\* The empty keyspace satisfies the invariant.
LEMMA InitInv == Init => IInv
<1> SUFFICES ASSUME Init PROVE IInv
  OBVIOUS
<1>1. TypeOK
  BY DEF Init, TypeOK, NoResult, Absent, Entries, Hits
<1>2. EntriesInPlace /\ FormsInPlace
  BY DEF Init, EntriesInPlace, FormsInPlace, Absent
<1>3. RequestsKnown /\ HardenedReadsOwnTenant
  BY DEF Init, RequestsKnown, HardenedReadsOwnTenant
<1> QED BY <1>1, <1>2, <1>3 DEF IInv

\* Every step keeps the invariant.
LEMMA StepInv == IInv /\ [Next]_vars => IInv'
<1> SUFFICES ASSUME IInv, [Next]_vars PROVE IInv'
  OBVIOUS
<1>0. TypeOK /\ RequestsKnown /\ EntriesInPlace /\ FormsInPlace
  BY DEF IInv
\* A step that leaves the keyspace leaves its parts.
<1>1. ASSUME UNCHANGED store
      PROVE  store' \in [Keys -> Entries] /\ EntriesInPlace' /\ FormsInPlace'
  BY <1>0, <1>1 DEF TypeOK, EntriesInPlace, FormsInPlace, KeysOf, GlobalCacheKey,
                    Normalized, Blank
<1>2. ASSUME NEW r \in Runs, NEW i \in Requests, Submit(r, i)
      PROVE  IInv'
  <2>1. store' \in [Keys -> Entries] /\ EntriesInPlace' /\ FormsInPlace'
    BY <1>1, <1>2 DEF Submit
  <2>2. TypeOK' /\ RequestsKnown'
    <3>1. CASE UNCHANGED out
      BY <1>0, <1>2, <2>1, <3>1
         DEF TypeOK, RequestsKnown, Submit, Goto, Answers, Finish
    <3>2. CASE Finish(r, Fallback(i))
      BY <1>0, <1>2, <2>1, <3>2, FallbackType
         DEF TypeOK, RequestsKnown, Submit, Goto, Answers, Finish
    <3> QED BY <1>2, <3>1, <3>2 DEF Submit
  <2>3. HardenedReadsOwnTenant'
    <3>1. CASE Finish(r, Fallback(i))
      <4>1. /\ i.lab = "prompt_cache" /\ i.mode = "hardened"
            /\ Fallback(i).hit # "miss"
            => Normalized(Fallback(i).read.tenant) = Normalized(i.b)
        BY FallbackIsOwn DEF Requests, SessionRequests
      <4> QED BY <1>2, <3>1, <4>1, ResultAdded DEF Submit
    <3>2. CASE \E l \in {"invalid", "connect"} : Goto(r, l) /\ UNCHANGED out
      <4>1. \A q \in Runs : pc'[q] = "done" =>
                pc[q] = "done" /\ req'[q] = req[q] /\ out'[q] = out[q]
        BY <1>0, <1>2, <3>2 DEF TypeOK, Submit, Goto
      <4> QED BY <1>2, <4>1, ResultsKept DEF Submit
    <3> QED BY <1>2, <3>1, <3>2 DEF Submit
  <2> QED BY <2>1, <2>2, <2>3 DEF IInv
\* Steps that only move on, to a command or to an answer other than "done".
<1>3. ASSUME NEW r \in Runs, NEW l, Goto(r, l), UNCHANGED <<saas, live, req, out>>,
             store' \in [Keys -> Entries], EntriesInPlace', FormsInPlace',
             \/ l \in {"unavailable", "error"} /\ pc[r] # "idle"
             \/ l \in {"set", "get"} /\ req[r] \in SessionRequests
             \/ l = "setex" /\ req[r] \in SessionRequests
             \/ l \in {"write", "lookup"} /\ req[r] \in CacheRequests
      PROVE  IInv'
  <2>1. TypeOK'
    BY <1>0, <1>3 DEF TypeOK, Goto, Answers
  <2>2. RequestsKnown'
    BY <1>0, <1>3 DEF TypeOK, RequestsKnown, Goto, Requests
  <2>3. \A q \in Runs : pc'[q] = "done" =>
            pc[q] = "done" /\ req'[q] = req[q] /\ out'[q] = out[q]
    BY <1>0, <1>3 DEF TypeOK, Goto
  <2>4. HardenedReadsOwnTenant'
    BY <1>3, <2>3, ResultsKept
  <2> QED BY <1>3, <2>1, <2>2, <2>4 DEF IInv
<1>4. ASSUME NEW r \in Runs, Connect(r)
      PROVE  IInv'
  <2>1. req[r] \in Requests
    BY <1>0, <1>4 DEF Connect, RequestsKnown
  <2>2. IF req[r].lab = "redis" THEN req[r] \in SessionRequests
        ELSE req[r] \in CacheRequests
    BY <2>1 DEF Requests, SessionRequests, CacheRequests
  <2>3. store' \in [Keys -> Entries] /\ EntriesInPlace' /\ FormsInPlace'
    BY <1>1, <1>4 DEF Connect
  <2> QED BY <1>3, <1>4, <2>2, <2>3 DEF Connect
<1>5. ASSUME NEW r \in Runs, Write(r)
      PROVE  IInv'
  <2>1. store' \in [Keys -> Entries] /\ EntriesInPlace' /\ FormsInPlace'
    BY <1>5, WritesInPlace DEF Write
  <2>2. /\ StoreSession(r) \/ TamperSession(r) => req[r] \in SessionRequests
        /\ StorePrompt(r) => req[r] \in CacheRequests
    BY <1>0 DEF StoreSession, TamperSession, StorePrompt, RequestsKnown
  <2> QED BY <1>3, <1>5, <2>1, <2>2 DEF Write
<1>6. ASSUME NEW r \in Runs, CommandFails(r)
      PROVE  IInv'
  <2>1. store' \in [Keys -> Entries] /\ EntriesInPlace' /\ FormsInPlace'
    BY <1>1, <1>6, WritesInPlace DEF CommandFails
  <2> QED BY <1>3, <1>6, <2>1 DEF CommandFails
\* Steps that end a run.
<1>7. ASSUME NEW r \in Runs, NEW res, Finish(r, res),
             pc[r] \in {"get", "lookup"}, UNCHANGED <<saas, live, store, req>>,
             res \in [blocked : BOOLEAN, hit : Hits, read : Entries],
             HardenedReadsOwnTenant'
      PROVE  IInv'
  <2>1. store' \in [Keys -> Entries] /\ EntriesInPlace' /\ FormsInPlace'
    BY <1>1, <1>7
  <2>2. TypeOK'
    BY <1>0, <1>7 DEF TypeOK, Finish, Goto, Answers
  <2>3. RequestsKnown'
    BY <1>0, <1>7 DEF TypeOK, RequestsKnown, Finish, Goto
  <2> QED BY <1>7, <2>1, <2>2, <2>3 DEF IInv
<1>8. ASSUME NEW r \in Runs, UNCHANGED req
      PROVE  req' = [req EXCEPT ![r] = req[r]]
  BY <1>0, <1>8 DEF TypeOK
<1>9. ASSUME NEW r \in Runs, GetSession(r)
      PROVE  IInv'
  <2> DEFINE k == SessionKey(r, req[r])
             res == SessionResult(req[r], store[k])
  <2>1. req[r] \in SessionRequests /\ req[r] \in Requests /\ req[r].lab = "redis"
    BY <1>0, <1>9 DEF GetSession, RequestsKnown, Requests, SessionRequests
  <2>2. k \in Keys
    <3>1. Normalized(req[r].a) \in Names
      BY <2>1 DEF Normalized, Names, SessionRequests
    <3> QED BY <3>1 DEF SessionKey, TenantRedisKey, Keys
  <2>3. res \in [blocked : BOOLEAN, hit : Hits, read : Entries]
    BY <1>0, <2>1, <2>2, ResultTypes DEF TypeOK
  <2>4. CASE Goto(r, "unavailable") /\ UNCHANGED out
    <3>1. store' \in [Keys -> Entries] /\ EntriesInPlace' /\ FormsInPlace'
      BY <1>1, <1>9 DEF GetSession
    <3> QED BY <1>3, <1>9, <2>4, <3>1 DEF GetSession
  <2>5. CASE Finish(r, res)
    <3> HIDE DEF res
    <3>1. HardenedReadsOwnTenant'
      BY <1>8, <1>9, <2>1, <2>5, ResultAdded DEF GetSession
    <3> QED BY <1>7, <1>9, <2>3, <2>5, <3>1 DEF GetSession
  <2> QED BY <1>9, <2>4, <2>5 DEF GetSession
<1>10. ASSUME NEW r \in Runs, LookupPrompt(r)
       PROVE  IInv'
  <2> DEFINE i == req[r]
             k == CacheKey(i, i.b)
             res == CacheResult(i, store[k])
  <2>1. i \in CacheRequests /\ i \in Requests
    BY <1>0, <1>10 DEF LookupPrompt, RequestsKnown, Requests
  <2>2. k \in Keys
    BY <2>1, LookupKeys
  <2>3. res \in [blocked : BOOLEAN, hit : Hits, read : Entries]
    BY <1>0, <2>1, <2>2, ResultTypes DEF TypeOK
  <2>4. /\ i.mode = "hardened" /\ res.hit # "miss" /\ (saas \/ i.b # "global")
        => Normalized(res.read.tenant) = Normalized(i.b)
    <3> SUFFICES ASSUME i.mode = "hardened", res.hit # "miss", saas \/ i.b # "global"
                 PROVE  Normalized(res.read.tenant) = Normalized(i.b)
      OBVIOUS
    <3>1. store[k] # Absent /\ res.read = store[k]
      BY DEF CacheResult
    <3> QED BY <2>1, <2>2, <3>1, LookupIsOwn
  <2>5. Finish(r, res)
    BY <1>10 DEF LookupPrompt
  <2> HIDE DEF res
  <2>6. HardenedReadsOwnTenant'
    BY <1>8, <1>10, <2>4, <2>5, ResultAdded DEF LookupPrompt
  <2> QED BY <1>7, <1>10, <2>3, <2>5, <2>6 DEF LookupPrompt
<1>11. ASSUME NEW k \in Keys, Expire(k) \/ Lose(k)
       PROVE  IInv'
  <2>1. store' \in [Keys -> Entries] /\ EntriesInPlace' /\ FormsInPlace'
    BY <1>11, DropInPlace DEF Expire, Lose
  <2>2. TypeOK' /\ RequestsKnown'
    BY <1>0, <1>11, <2>1 DEF TypeOK, RequestsKnown, Expire, Lose
  <2>3. HardenedReadsOwnTenant'
    BY <1>11, ResultsKept DEF Expire, Lose
  <2> QED BY <2>1, <2>2, <2>3 DEF IInv
<1>12. ASSUME UNCHANGED vars
       PROVE  IInv'
  <2>1. store' \in [Keys -> Entries] /\ EntriesInPlace' /\ FormsInPlace'
    BY <1>1, <1>12 DEF vars
  <2>2. TypeOK' /\ RequestsKnown'
    BY <1>0, <1>12 DEF TypeOK, RequestsKnown, vars
  <2>3. HardenedReadsOwnTenant'
    BY <1>12, ResultsKept DEF vars
  <2> QED BY <2>1, <2>2, <2>3 DEF IInv
<1> QED BY <1>2, <1>4, <1>5, <1>6, <1>9, <1>10, <1>11, <1>12 DEF Next, Step, Quiet

\* The invariant holds throughout.
THEOREM RedisLabsInvariant == Spec => []IInv
  BY InitInv, StepInv, PTL DEF Spec

\* A hardened prompt cache lookup (labs/prompt_cache_isolation.py, _run_live
\* and _run_fallback) that hits has read its own tenant's entry, for any
\* tenants and any number of interleaved runs of both labs and both modes.
THEOREM HardenedIsolation == Spec => []HardenedReadsOwnTenant
<1>1. IInv => HardenedReadsOwnTenant
  BY DEF IInv
<1> QED BY <1>1, RedisLabsInvariant, PTL

\* TypeOK of the labs, for any runs and tenants.
THEOREM RedisLabsTypes == Spec => []TypeOK
<1>1. IInv => TypeOK
  BY DEF IInv
<1> QED BY <1>1, RedisLabsInvariant, PTL

----------------------------------------------------------------------------
(* Sessions do not mix.                                                    *)

\* Between its SET and its GET a run finds its tampered session or nothing.
SessionsMine ==
    \A r \in Runs : pc[r] = "get" => store[SessionKey(r, req[r])] \in {Absent, Tampered}

\* What SessionsEndAsFallback comes to.
SessionsTampered ==
    \A r \in Runs : pc[r] = "done" /\ req[r].lab = "redis" =>
        out[r] = SessionResult(req[r], Tampered)

\* A write of another run is at another key: its suffix is that run's, or it is
\* no session key.
LEMMA OthersElsewhere ==
    ASSUME IInv, NEW q \in Runs, NEW r \in Runs \ {q}, NEW i,
           StoreSession(q) \/ TamperSession(q) \/ StorePrompt(q)
    PROVE  store'[SessionKey(r, i)] = store[SessionKey(r, i)]
<1>1. SessionKey(r, i)[3] = "redis" /\ SessionKey(r, i)[4] = r
  BY DEF SessionKey, TenantRedisKey
<1>2. SessionKey(q, req[q])[4] = q
  BY DEF SessionKey, TenantRedisKey
<1>3. CacheKey(req[q], req[q].a)[3] = "prompt_cache"
  BY DEF CacheKey, GlobalCacheKey, TenantCacheKey, TenantRedisKey
<1>4. PICK k, e : Put(k, e) /\ k \in {SessionKey(q, req[q]), CacheKey(req[q], req[q].a)}
  BY DEF StoreSession, TamperSession, StorePrompt
<1>5. k # SessionKey(r, i)
  BY <1>1, <1>2, <1>3, <1>4
<1> QED BY <1>4, <1>5 DEF Put, IInv, TypeOK

\* The session that Redis returns ends the run as the in-memory lab would.
LEMMA SessionStep ==
    ASSUME IInv, SessionsMine, SessionsTampered, [Next]_vars
    PROVE  SessionsMine' /\ SessionsTampered'
<1>0. TypeOK /\ RequestsKnown
  BY DEF IInv
<1>a. \A i \in Requests : i.lab = "redis" => Fallback(i) = SessionResult(i, Tampered)
  BY DEF Fallback
<1>k. ASSUME NEW i \in SessionRequests, NEW r \in Runs PROVE SessionKey(r, i) \in Keys
  <2>1. i.a \in Tenants
    BY DEF SessionRequests
  <2>2. Normalized(i.a) \in Names
    BY <2>1 DEF Normalized, Names
  <2> QED BY <2>2 DEF SessionKey, TenantRedisKey, Keys
\* What the two parts say of a run that a step leaves alone.
<1>b. ASSUME NEW r \in Runs, pc'[r] = pc[r], req'[r] = req[r], out'[r] = out[r],
             \/ store'[SessionKey(r, req[r])] = store[SessionKey(r, req[r])]
             \/ store'[SessionKey(r, req[r])] = Absent
      PROVE  /\ pc'[r] = "get" => store'[SessionKey(r, req'[r])] \in {Absent, Tampered}
             /\ pc'[r] = "done" /\ req'[r].lab = "redis" =>
                   out'[r] = SessionResult(req'[r], Tampered)
  BY <1>b DEF SessionsMine, SessionsTampered
<1> SUFFICES ASSUME NEW r \in Runs
             PROVE  /\ pc'[r] = "get" => store'[SessionKey(r, req'[r])] \in {Absent, Tampered}
                    /\ pc'[r] = "done" /\ req'[r].lab = "redis" =>
                          out'[r] = SessionResult(req'[r], Tampered)
  BY DEF SessionsMine, SessionsTampered, SessionKey, TenantRedisKey, Normalized, Blank,
         SessionResult, Verified
<1>1. CASE UNCHANGED vars
  BY <1>1, <1>b DEF vars
<1>2. ASSUME NEW k \in Keys, Expire(k) \/ Lose(k)
      PROVE  /\ pc'[r] = "get" => store'[SessionKey(r, req'[r])] \in {Absent, Tampered}
             /\ pc'[r] = "done" /\ req'[r].lab = "redis" =>
                   out'[r] = SessionResult(req'[r], Tampered)
  <2>1. Put(k, Absent) /\ UNCHANGED <<pc, req, out>>
    BY <1>2 DEF Expire, Lose
  <2>2. \/ store'[SessionKey(r, req[r])] = store[SessionKey(r, req[r])]
        \/ store'[SessionKey(r, req[r])] = Absent
    <3>1. CASE SessionKey(r, req[r]) = k
      BY <1>0, <2>1, <3>1 DEF Put, TypeOK
    <3>2. CASE SessionKey(r, req[r]) # k
      BY <1>0, <2>1, <3>2 DEF Put, TypeOK
    <3> QED BY <3>1, <3>2
  <2> QED BY <1>b, <2>1, <2>2
<1>3. ASSUME NEW q \in Runs \ {r}, Step(q) \/ \E i \in Requests : Submit(q, i)
      PROVE  /\ pc'[r] = "get" => store'[SessionKey(r, req'[r])] \in {Absent, Tampered}
             /\ pc'[r] = "done" /\ req'[r].lab = "redis" =>
                   out'[r] = SessionResult(req'[r], Tampered)
  <2>1. pc'[r] = pc[r] /\ req'[r] = req[r] /\ out'[r] = out[r]
    BY <1>0, <1>3 DEF Step, Submit, Connect, Write, GetSession, LookupPrompt, CommandFails,
                      Finish, Goto, TypeOK
  <2>2. UNCHANGED store \/ StoreSession(q) \/ TamperSession(q) \/ StorePrompt(q)
    BY <1>3 DEF Step, Submit, Connect, Write, GetSession, LookupPrompt, CommandFails
  <2>3. store'[SessionKey(r, req[r])] = store[SessionKey(r, req[r])]
    BY <2>2, OthersElsewhere
  <2> QED BY <1>b, <2>1, <2>3
<1>4. ASSUME NEW i \in Requests, Submit(r, i)
      PROVE  /\ pc'[r] = "get" => store'[SessionKey(r, req'[r])] \in {Absent, Tampered}
             /\ pc'[r] = "done" /\ req'[r].lab = "redis" =>
                   out'[r] = SessionResult(req'[r], Tampered)
  <2>1. req'[r] = i
    BY <1>0, <1>4 DEF Submit, TypeOK
  <2>2. pc'[r] # "get" /\ (pc'[r] = "done" => out'[r] = Fallback(i))
    BY <1>0, <1>4 DEF Submit, Finish, Goto, TypeOK
  <2> QED BY <1>a, <2>1, <2>2
<1>5. CASE Connect(r) \/ CommandFails(r)
  BY <1>0, <1>5 DEF Connect, CommandFails, Goto, TypeOK
<1>6. CASE Write(r)
  <2>1. UNCHANGED req /\ pc'[r] # "done" /\ (pc'[r] = "get" => TamperSession(r))
    BY <1>0, <1>6 DEF Write, Goto, TypeOK
  <2>2. ASSUME TamperSession(r) PROVE store'[SessionKey(r, req[r])] = Tampered
    <3>1. req[r] \in SessionRequests
      BY <1>0, <2>2 DEF TamperSession, RequestsKnown
    <3>2. SessionKey(r, req[r]) \in Keys
      BY <1>k, <3>1
    <3> QED BY <1>0, <2>2, <3>2 DEF TamperSession, Put, TypeOK
  <2> QED BY <2>1, <2>2
<1>7. CASE GetSession(r)
  <2>1. store[SessionKey(r, req[r])] \in {Absent, Tampered} /\ UNCHANGED req
    BY <1>7 DEF GetSession, SessionsMine
  <2>2. pc'[r] # "get" /\ (pc'[r] = "done" => out'[r] = SessionResult(req[r], Tampered))
    BY <1>0, <1>7, <2>1 DEF GetSession, Finish, Goto, TypeOK
  <2> QED BY <2>1, <2>2
<1>8. CASE LookupPrompt(r)
  <2>1. req[r] \in CacheRequests /\ UNCHANGED req /\ pc'[r] = "done"
    BY <1>0, <1>8 DEF LookupPrompt, RequestsKnown, Finish, Goto, TypeOK
  <2> QED BY <2>1 DEF CacheRequests
<1> QED BY <1>1, <1>2, <1>3, <1>4, <1>5, <1>6, <1>7, <1>8 DEF Next, Step, Quiet

\* SessionsEndAsFallback, for any runs and tenants: nothing that other runs of
\* either lab write between the three commands of a session reaches it.
THEOREM SessionsDoNotMix == Spec => []SessionsEndAsFallback
<1>1. Init => SessionsMine /\ SessionsTampered
  BY DEF Init, SessionsMine, SessionsTampered
<1>2. SessionsTampered => SessionsEndAsFallback
  BY DEF SessionsTampered, SessionsEndAsFallback, Fallback
<1> QED BY <1>1, <1>2, SessionStep, RedisLabsInvariant, PTL DEF Spec

----------------------------------------------------------------------------
\* n is the sum of d over all runs: the sum over a set of runs is one run's share more
\* than over the set without it, and is zero if every share is.
Sums(d, n) ==
    \E S \in [SUBSET LabRuns -> Nat] :
       /\ \A T \in SUBSET LabRuns : \A r \in T : S[T] = S[T \ {r}] + d[r]
       /\ \A T \in SUBSET LabRuns : (\A r \in T : d[r] = 0) => S[T] = 0
       /\ S[LabRuns] = n

\* The sum of nothing ...
LEMMA SumOfNothing ==
    ASSUME NEW d \in [LabRuns -> Nat], \A r \in LabRuns : d[r] = 0
    PROVE  Sums(d, 0)
<1> DEFINE S == [T \in SUBSET LabRuns |-> 0]
<1>1. S \in [SUBSET LabRuns -> Nat] /\ S[LabRuns] = 0
  OBVIOUS
<1>2. \A T \in SUBSET LabRuns : \A r \in T : S[T] = S[T \ {r}] + d[r]
  <2> TAKE T \in SUBSET LabRuns
  <2> TAKE r \in T
  <2>1. T \ {r} \in SUBSET LabRuns /\ d[r] = 0
    OBVIOUS
  <2> QED BY <2>1
<1> QED BY <1>1, <1>2 DEF Sums

\* ... what a sum is ...
LEMMA SumIsNat ==
    ASSUME NEW d, NEW n, Sums(d, n)
    PROVE  n \in Nat /\ ((\A r \in LabRuns : d[r] = 0) => n = 0)
  BY DEF Sums

\* ... and how it changes with one of its shares.
LEMMA SumMoves ==
    ASSUME NEW d \in [LabRuns -> Nat], NEW n, Sums(d, n), NEW r \in LabRuns, NEW x \in Nat
    PROVE  Sums([d EXCEPT ![r] = x], n + x - d[r])
<1>1. PICK S \in [SUBSET LabRuns -> Nat] :
         /\ \A T \in SUBSET LabRuns : \A u \in T : S[T] = S[T \ {u}] + d[u]
         /\ \A T \in SUBSET LabRuns : (\A u \in T : d[u] = 0) => S[T] = 0
         /\ S[LabRuns] = n
  BY DEF Sums
<1> DEFINE e == [d EXCEPT ![r] = x]
           Z == [T \in SUBSET LabRuns |-> IF r \in T THEN S[T \ {r}] + x ELSE S[T]]
<1>2. \A T \in SUBSET LabRuns, u \in LabRuns : T \ {u} \in SUBSET LabRuns /\ S[T] \in Nat /\ S[T \ {u}] \in Nat
  OBVIOUS
<1>3. Z \in [SUBSET LabRuns -> Nat]
  BY <1>2
<1>4. \A u \in LabRuns : e[u] = IF u = r THEN x ELSE d[u]
  OBVIOUS
<1>5. \A T \in SUBSET LabRuns : Z[T] = IF r \in T THEN S[T \ {r}] + x ELSE S[T]
  OBVIOUS
<1> HIDE DEF Z, e
<1>6. ASSUME NEW T \in SUBSET LabRuns, NEW u \in T
      PROVE  Z[T] = Z[T \ {u}] + e[u]
  <2>1. T \ {u} \in SUBSET LabRuns /\ T \ {r} \in SUBSET LabRuns /\ u \in LabRuns
    OBVIOUS
  <2>2. CASE u = r
    BY <2>1, <2>2, <1>2, <1>4, <1>5
  <2>3. CASE u # r /\ r \in T
    <3>1. (T \ {r}) \ {u} = (T \ {u}) \ {r} /\ u \in T \ {r} /\ r \in T \ {u}
      BY <2>3
    <3>2. S[T \ {r}] = S[(T \ {u}) \ {r}] + d[u]
      <4> DEFINE R == T \ {r}
      <4>1. R \in SUBSET LabRuns /\ u \in R
        BY <2>1, <3>1
      <4> HIDE DEF R
      <4>2. S[R] = S[R \ {u}] + d[u]
        BY ONLY <1>1, <4>1
      <4> QED BY ONLY <3>1, <4>2 DEF R
    <3>3. Z[T] = S[T \ {r}] + x /\ Z[T \ {u}] = S[(T \ {u}) \ {r}] + x /\ e[u] = d[u]
      BY <1>4, <1>5, <2>1, <2>3, <3>1
    <3>4. S[(T \ {u}) \ {r}] \in Nat /\ d[u] \in Nat
      BY <1>2, <2>1
    <3> QED BY <3>2, <3>3, <3>4
  <2>4. CASE u # r /\ r \notin T
    <3>1. Z[T] = S[T] /\ Z[T \ {u}] = S[T \ {u}] /\ e[u] = d[u]
      BY <1>4, <1>5, <2>1, <2>4
    <3> QED BY <1>1, <3>1
  <2> QED BY <2>2, <2>3, <2>4
<1>7. ASSUME NEW T \in SUBSET LabRuns, \A u \in T : e[u] = 0
      PROVE  Z[T] = 0
  <2>1. CASE r \in T
    <3>1. x = 0 /\ \A u \in T \ {r} : d[u] = 0
      BY <1>4, <1>7, <2>1
    <3>2. S[T \ {r}] = 0
      BY <1>1, <1>2, <3>1
    <3>3. Z[T] = S[T \ {r}] + x
      BY <1>5, <2>1
    <3> QED BY ONLY <3>1, <3>2, <3>3
  <2>2. CASE r \notin T
    BY <1>1, <1>4, <1>5, <1>7, <2>2
  <2> QED BY <2>1, <2>2
<1>8. Z[LabRuns] = n + x - d[r]
  <2>1. S[LabRuns] = S[LabRuns \ {r}] + d[r] /\ S[LabRuns \ {r}] \in Nat /\ d[r] \in Nat
    BY <1>1, <1>2
  <2> QED BY <1>1, <1>5, <2>1
<1>9. Sums(e, n + x - d[r])
  BY <1>3, <1>6, <1>7, <1>8 DEF Sums
<1> QED BY <1>9 DEF e

----------------------------------------------------------------------------
\* A sequence of updates, the updates in it.
IsQueue(q) ==
    \E S : q \in Seq(S) /\ \A u \in S : u.op \in {"set", "inc"} /\ u.n \in Nat

In(q) == {q[j] : j \in 1 .. Len(q)}

\* To show that something is a queue.
LEMMA AQueue ==
    ASSUME NEW q, NEW S, q \in Seq(S), \A u \in S : u.op \in {"set", "inc"} /\ u.n \in Nat
    PROVE  IsQueue(q)
  BY DEF IsQueue

\* A queue, by its updates.
LEMMA QueueFacts ==
    ASSUME NEW q, IsQueue(q)
    PROVE  /\ Len(q) \in Nat
           /\ \A j \in 1 .. Len(q) : q[j].op \in {"set", "inc"} /\ q[j].n \in Nat
           /\ \A u \in In(q) : u.op \in {"set", "inc"} /\ u.n \in Nat
<1>1. PICK S : q \in Seq(S) /\ \A u \in S : u.op \in {"set", "inc"} /\ u.n \in Nat
  BY DEF IsQueue
<1>2. Len(q) \in Nat /\ \A j \in 1 .. Len(q) : q[j] \in S
  BY <1>1, LenProperties
<1> QED BY <1>1, <1>2 DEF In

\* Two queues, one after the other.
LEMMA QueueCat ==
    ASSUME NEW p, NEW q, IsQueue(p), IsQueue(q)
    PROVE  /\ IsQueue(p \o q) /\ Len(p \o q) = Len(p) + Len(q)
           /\ \A j \in 1 .. Len(p) + Len(q) :
                 (p \o q)[j] = IF j <= Len(p) THEN p[j] ELSE q[j - Len(p)]
           /\ In(p \o q) = In(p) \union In(q)
<1>1. PICK A : p \in Seq(A) /\ \A u \in A : u.op \in {"set", "inc"} /\ u.n \in Nat
  BY DEF IsQueue
<1>2. PICK B : q \in Seq(B) /\ \A u \in B : u.op \in {"set", "inc"} /\ u.n \in Nat
  BY DEF IsQueue
<1> DEFINE S == A \union B
<1>3. A \subseteq S /\ B \subseteq S /\ \A u \in S : u.op \in {"set", "inc"} /\ u.n \in Nat
  BY <1>1, <1>2
<1> HIDE DEF S
<1>4. p \in Seq(S) /\ q \in Seq(S)
  BY <1>1, <1>2, <1>3, SeqMonotonic
<1>5. /\ p \o q \in Seq(S) /\ Len(p \o q) = Len(p) + Len(q)
      /\ \A j \in 1 .. Len(p) + Len(q) :
            (p \o q)[j] = IF j <= Len(p) THEN p[j] ELSE q[j - Len(p)]
  BY ONLY <1>4, ConcatProperties
<1>6. IsQueue(p \o q)
  BY <1>3, <1>5 DEF IsQueue
<1> DEFINE c == p \o q
           m == Len(p)
           n == Len(q)
<1>7. /\ m \in Nat /\ n \in Nat /\ Len(c) = m + n
      /\ \A j \in 1 .. m + n : c[j] = IF j <= m THEN p[j] ELSE q[j - m]
  BY <1>5, QueueFacts
<1>8. In(c) = {c[j] : j \in 1 .. m + n} /\ In(p) = {p[j] : j \in 1 .. m}
      /\ In(q) = {q[j] : j \in 1 .. n}
  BY <1>7 DEF In
<1> HIDE DEF c, m, n
<1>9. In(c) \subseteq In(p) \union In(q)
  <2> SUFFICES ASSUME NEW j \in 1 .. m + n PROVE c[j] \in In(p) \union In(q)
    BY <1>8
  <2>1. CASE j <= m
    BY <1>7, <1>8, <2>1
  <2>2. CASE ~(j <= m)
    <3>1. j - m \in 1 .. n /\ c[j] = q[j - m]
      BY <1>7, <2>2
    <3> QED BY <1>8, <3>1
  <2> QED BY <2>1, <2>2
<1>10. In(p) \subseteq In(c)
  <2> SUFFICES ASSUME NEW j \in 1 .. m PROVE p[j] \in In(c)
    BY <1>8
  <2>1. j \in 1 .. m + n /\ c[j] = p[j]
    BY <1>7
  <2> QED BY <1>8, <2>1
<1>11. In(q) \subseteq In(c)
  <2> SUFFICES ASSUME NEW j \in 1 .. n PROVE q[j] \in In(c)
    BY <1>8
  <2>1. m + j \in 1 .. m + n /\ c[m + j] = q[j]
    BY <1>7
  <2> QED BY <1>8, <2>1
<1> QED BY <1>5, <1>6, <1>9, <1>10, <1>11 DEF c

\* What is left of a queue after its first update.
LEMMA QueueTail ==
    ASSUME NEW q, IsQueue(q), q # <<>>
    PROVE  /\ Len(q) \in Nat \ {0} /\ Head(q) = q[1]
           /\ IsQueue(Tail(q)) /\ Len(Tail(q)) = Len(q) - 1
           /\ \A j \in 1 .. Len(q) - 1 : Tail(q)[j] = q[j + 1]
           /\ In(q) = {Head(q)} \union In(Tail(q))
<1>1. PICK S : q \in Seq(S) /\ \A u \in S : u.op \in {"set", "inc"} /\ u.n \in Nat
  BY DEF IsQueue
<1>2. Len(q) \in Nat \ {0}
  BY <1>1, EmptySeq, LenProperties
<1>3. /\ Head(q) = q[1] /\ Tail(q) \in Seq(S) /\ Len(Tail(q)) = Len(q) - 1
      /\ \A j \in 1 .. Len(q) - 1 : Tail(q)[j] = q[j + 1]
  BY <1>1, HeadTailProperties
<1>4. IsQueue(Tail(q))
  BY <1>1, <1>3 DEF IsQueue
<1> DEFINE z == Tail(q)
           n == Len(q)
<1>5. /\ n \in Nat \ {0} /\ Len(z) = n - 1 /\ \A j \in 1 .. n - 1 : z[j] = q[j + 1]
      /\ In(q) = {q[j] : j \in 1 .. n} /\ In(z) = {z[j] : j \in 1 .. n - 1}
  BY <1>2, <1>3 DEF In
<1> HIDE DEF z, n
<1>6. In(q) \subseteq {q[1]} \union In(z)
  <2> SUFFICES ASSUME NEW j \in 1 .. n, j # 1 PROVE q[j] \in In(z)
    BY <1>5
  <2>1. j - 1 \in 1 .. n - 1 /\ z[j - 1] = q[j]
    BY <1>5
  <2> QED BY <1>5, <2>1
<1>7. {q[1]} \union In(z) \subseteq In(q)
  <2>1. q[1] \in In(q)
    BY <1>5
  <2>2. ASSUME NEW j \in 1 .. n - 1 PROVE z[j] \in In(q)
    <3>1. j + 1 \in 1 .. n /\ z[j] = q[j + 1]
      BY <1>5
    <3> QED BY <1>5, <3>1
  <2> QED BY <1>5, <2>1, <2>2
<1> QED BY <1>2, <1>3, <1>4, <1>6, <1>7 DEF z

----------------------------------------------------------------------------
\* How an update moves the balance of an account: what is in T counts for it, what is in
\* P against it.
Effect(u, T, P) == IF u.series \in T THEN u.n ELSE IF u.series \in P THEN -u.n ELSE 0

\* The updates of q, made in order, take the balance of a run from a to b, and never
\* below zero; they count, where they touch the account.
Brings(q, T, P, a, b) ==
    /\ IsQueue(q)
    /\ \A u \in In(q) : u.series \in T \union P => u.op = "inc"
    /\ \E D \in [0 .. Len(q) -> Nat] :
          /\ D[0] = a /\ D[Len(q)] = b
          /\ \A j \in 1 .. Len(q) : D[j] = D[j - 1] + Effect(q[j], T, P)

\* No updates, no change.
LEMMA BringsNothing ==
    ASSUME NEW T, NEW P
    PROVE  /\ IsQueue(<<>>) /\ In(<<>>) = {}
           /\ \A a \in Nat : Brings(<<>>, T, P, a, a)
           /\ \A a, b : Brings(<<>>, T, P, a, b) => a = b
<1>1. <<>> \in Seq({}) /\ Len(<<>>) = 0
  OBVIOUS
<1>2. IsQueue(<<>>) /\ In(<<>>) = {}
  <2> DEFINE S == {}
             q == <<>>
  <2>1. q \in Seq(S) /\ \A u \in S : u.op \in {"set", "inc"} /\ u.n \in Nat
    BY <1>1
  <2> HIDE DEF S, q
  <2>2. IsQueue(q)
    BY ONLY <2>1, AQueue
  <2> USE DEF q
  <2>3. 1 .. Len(<<>>) = {}
    BY <1>1
  <2> QED BY <2>2, <2>3 DEF In
<1>3. ASSUME NEW a \in Nat PROVE Brings(<<>>, T, P, a, a)
  <2> DEFINE D == [j \in 0 .. 0 |-> a]
  <2>1. D \in [0 .. 0 -> Nat] /\ D[0] = a
    OBVIOUS
  <2> HIDE DEF D
  <2>2. 0 .. Len(<<>>) = 0 .. 0 /\ 1 .. Len(<<>>) = {} /\ D[Len(<<>>)] = a
    BY <1>1, <2>1
  <2> QED BY <1>1, <1>2, <2>1, <2>2 DEF Brings
<1>4. ASSUME NEW a, NEW b, Brings(<<>>, T, P, a, b) PROVE a = b
  BY <1>1, <1>4 DEF Brings
<1> QED BY <1>2, <1>3, <1>4

\* The balance is a natural number at both ends.
LEMMA BringsTypes ==
    ASSUME NEW q, NEW T, NEW P, NEW a, NEW b, Brings(q, T, P, a, b)
    PROVE  a \in Nat /\ b \in Nat /\ IsQueue(q)
<1>1. IsQueue(q) /\ Len(q) \in Nat
  BY QueueFacts DEF Brings
<1>2. 0 \in 0 .. Len(q) /\ Len(q) \in 0 .. Len(q)
  BY <1>1
<1> QED BY <1>1, <1>2 DEF Brings

\* Updates that do not touch the account.
LEMMA BringsSame ==
    ASSUME NEW q, IsQueue(q), NEW T, NEW P, NEW a \in Nat,
           \A u \in In(q) : u.series \notin T \union P
    PROVE  Brings(q, T, P, a, a)
<1>1. Len(q) \in Nat /\ \A j \in 1 .. Len(q) : Effect(q[j], T, P) = 0
  BY QueueFacts DEF Effect, In
<1> DEFINE n == Len(q)
           D == [j \in 0 .. n |-> a]
<1>2. D \in [0 .. n -> Nat] /\ \A j \in 0 .. n : D[j] = a
  OBVIOUS
<1>3. D[0] = a /\ D[n] = a /\ \A j \in 1 .. n : D[j] = a /\ D[j - 1] = a
  <2> HIDE DEF D
  <2>1. n \in Nat
    BY <1>1
  <2> HIDE DEF n
  <2> QED BY <1>2, <2>1
<1> HIDE DEF D
<1>4. \A j \in 1 .. n : D[j] = D[j - 1] + Effect(q[j], T, P)
  BY <1>1, <1>3
<1> QED BY <1>2, <1>3, <1>4 DEF Brings

\* One update, which may be missing if it counts nothing.
LEMMA BringsOne ==
    ASSUME NEW u, u.op \in {"set", "inc"}, u.n \in Nat, NEW T, NEW P,
           u.series \in T \union P => u.op = "inc",
           NEW a \in Nat, a + Effect(u, T, P) \in Nat
    PROVE  Brings(<<u>>, T, P, a, a + Effect(u, T, P))
<1>1. <<u>> \in Seq({u}) /\ Len(<<u>>) = 1 /\ <<u>>[1] = u
  OBVIOUS
<1>2. IsQueue(<<u>>) /\ In(<<u>>) = {u}
  <2> DEFINE S == {u}
             q == <<u>>
  <2>1. q \in Seq(S) /\ \A v \in S : v.op \in {"set", "inc"} /\ v.n \in Nat
    BY <1>1
  <2> HIDE DEF S, q
  <2>2. IsQueue(q)
    BY ONLY <2>1, AQueue
  <2> USE DEF q
  <2>3. 1 .. Len(<<u>>) = {1}
    BY <1>1
  <2> QED BY <1>1, <2>2, <2>3 DEF In
<1> DEFINE b == a + Effect(u, T, P)
           D == [j \in 0 .. 1 |-> IF j = 0 THEN a ELSE b]
<1>3. D \in [0 .. 1 -> Nat] /\ D[0] = a /\ D[1] = b
  OBVIOUS
<1> HIDE DEF D
<1>4. \A j \in 1 .. 1 : D[j] = D[j - 1] + Effect(<<u>>[j], T, P)
  <2>1. D[1] = D[1 - 1] + Effect(<<u>>[1], T, P)
    BY <1>1, <1>3
  <2> QED BY <2>1
<1> QED BY <1>1, <1>2, <1>3, <1>4 DEF Brings

\* One sequence of updates after another.
LEMMA BringsCat ==
    ASSUME NEW p, NEW q, NEW T, NEW P, NEW a, NEW b, NEW c,
           Brings(p, T, P, a, b), Brings(q, T, P, b, c)
    PROVE  Brings(p \o q, T, P, a, c)
<1>1. IsQueue(p) /\ IsQueue(q)
  BY DEF Brings
<1> DEFINE s == p \o q
           m == Len(p)
           n == Len(q)
<1>2. /\ m \in Nat /\ n \in Nat /\ IsQueue(s) /\ Len(s) = m + n
      /\ \A j \in 1 .. m + n : s[j] = IF j <= m THEN p[j] ELSE q[j - m]
      /\ In(s) = In(p) \union In(q)
  BY <1>1, QueueCat, QueueFacts
<1>3. PICK D \in [0 .. m -> Nat] :
         /\ D[0] = a /\ D[m] = b
         /\ \A j \in 1 .. m : D[j] = D[j - 1] + Effect(p[j], T, P)
  BY DEF Brings
<1>4. PICK E \in [0 .. n -> Nat] :
         /\ E[0] = b /\ E[n] = c
         /\ \A j \in 1 .. n : E[j] = E[j - 1] + Effect(q[j], T, P)
  BY DEF Brings
<1> HIDE DEF s, m, n
<1> DEFINE F == [j \in 0 .. m + n |-> IF j <= m THEN D[j] ELSE E[j - m]]
<1>5. F \in [0 .. m + n -> Nat]
  BY <1>2
<1>6. \A j \in 0 .. m + n : F[j] = IF j <= m THEN D[j] ELSE E[j - m]
  OBVIOUS
<1> HIDE DEF F
<1>7. F[0] = a /\ F[m + n] = c
  <2>1. F[0] = a
    BY <1>2, <1>3, <1>6
  <2>2. CASE n = 0
    <3>1. m + n = m /\ m \in 0 .. m + n /\ m <= m
      BY <1>2, <2>2
    <3>2. F[m] = D[m] /\ D[m] = E[n]
      BY <1>3, <1>4, <1>6, <2>2, <3>1
    <3> QED BY <1>4, <2>1, <3>1, <3>2
  <2>3. CASE n # 0
    <3>1. ~(m + n <= m) /\ (m + n) - m = n /\ m + n \in 0 .. m + n
      BY <1>2, <2>3
    <3> QED BY <1>4, <1>6, <2>1, <3>1
  <2> QED BY <2>2, <2>3
<1>8. ASSUME NEW j \in 1 .. m + n PROVE F[j] = F[j - 1] + Effect(s[j], T, P)
  <2>1. CASE j <= m
    <3>1. j \in 1 .. m /\ j \in 0 .. m + n /\ j - 1 \in 0 .. m + n /\ j - 1 <= m
      BY <1>2, <2>1
    <3>2. F[j] = D[j] /\ F[j - 1] = D[j - 1] /\ s[j] = p[j]
      BY <1>2, <1>6, <2>1, <3>1
    <3> QED BY <1>3, <3>1, <3>2
  <2>2. CASE j > m
    <3>1. j - m \in 1 .. n /\ F[j] = E[j - m] /\ s[j] = q[j - m]
      BY <1>2, <1>6, <2>2
    <3>2. F[j - 1] = E[(j - m) - 1]
      <4>1. CASE j - 1 = m
        <5>1. (j - m) - 1 = 0 /\ F[j - 1] = D[m]
          BY <1>2, <1>6, <4>1
        <5> QED BY <1>3, <1>4, <5>1
      <4>2. CASE j - 1 # m
        <5>1. ~(j - 1 <= m) /\ j - 1 \in 0 .. m + n /\ (j - 1) - m = (j - m) - 1
          BY <1>2, <2>2, <4>2
        <5> QED BY <1>6, <5>1
      <4> QED BY <4>1, <4>2
    <3> QED BY <1>4, <3>1, <3>2
  <2> QED BY <1>2, <2>1, <2>2
<1>9. \A u \in In(s) : u.series \in T \union P => u.op = "inc"
  BY <1>2 DEF Brings
<1>10. Brings(s, T, P, a, c)
  BY <1>2, <1>5, <1>7, <1>8, <1>9 DEF Brings
<1> QED BY <1>10 DEF s

\* The first update of a queue, and the rest.
LEMMA BringsTail ==
    ASSUME NEW q, q # <<>>, NEW T, NEW P, NEW a, NEW b, Brings(q, T, P, a, b)
    PROVE  /\ a + Effect(Head(q), T, P) \in Nat
           /\ Head(q).series \in T \union P => Head(q).op = "inc"
           /\ Brings(Tail(q), T, P, a + Effect(Head(q), T, P), b)
<1> DEFINE z == Tail(q)
           n == Len(q)
           x == a + Effect(Head(q), T, P)
<1>1. /\ IsQueue(z) /\ n \in Nat \ {0} /\ Head(q) = q[1] /\ Len(z) = n - 1
      /\ \A j \in 1 .. n - 1 : z[j] = q[j + 1]
      /\ In(q) = {Head(q)} \union In(z)
  BY QueueTail DEF Brings
<1>2. PICK D \in [0 .. n -> Nat] :
         /\ D[0] = a /\ D[n] = b
         /\ \A j \in 1 .. n : D[j] = D[j - 1] + Effect(q[j], T, P)
  BY DEF Brings
<1>3. \A u \in In(q) : u.series \in T \union P => u.op = "inc"
  BY DEF Brings
<1> HIDE DEF z, n
<1>4. D[1] = x /\ x \in Nat
  <2>1. 1 \in 1 .. n /\ 1 \in 0 .. n /\ 1 - 1 = 0
    BY <1>1
  <2> QED BY <1>1, <1>2, <2>1
<1> HIDE DEF x
<1> DEFINE F == [j \in 0 .. n - 1 |-> D[j + 1]]
<1>5. F \in [0 .. n - 1 -> Nat] /\ F[0] = D[1] /\ F[n - 1] = D[n]
  BY <1>1
<1>6. \A j \in 0 .. n - 1 : F[j] = D[j + 1]
  OBVIOUS
<1> HIDE DEF F
<1>7. ASSUME NEW j \in 1 .. n - 1 PROVE F[j] = F[j - 1] + Effect(z[j], T, P)
  <2>1. /\ j + 1 \in 1 .. n /\ (j + 1) - 1 = j /\ (j - 1) + 1 = j
        /\ j - 1 \in 0 .. n - 1 /\ j \in 0 .. n - 1
    BY <1>1
  <2> QED BY <1>1, <1>2, <1>6, <2>1
<1>8. Brings(z, T, P, x, b)
  <2>1. IsQueue(z) /\ \A u \in In(z) : u.series \in T \union P => u.op = "inc"
    BY <1>1, <1>3
  <2>2. /\ F \in [0 .. Len(z) -> Nat] /\ F[0] = x /\ F[Len(z)] = b
        /\ \A j \in 1 .. Len(z) : F[j] = F[j - 1] + Effect(z[j], T, P)
    BY <1>1, <1>2, <1>4, <1>5, <1>7
  <2> QED BY ONLY <2>1, <2>2 DEF Brings
<1> QED BY <1>1, <1>3, <1>4, <1>8 DEF x, z

----------------------------------------------------------------------------
\* An update of a counter, and of a gauge.
Count(s, n) == [op |-> "inc", series |-> s, n |-> n]
Gauge(s, n) == [op |-> "set", series |-> s, n |-> n]

\* The pieces that updates are put together from.
LEMMA IncPiece ==
    ASSUME NEW s, NEW n \in Nat
    PROVE  /\ IsQueue(Inc(s, n))
           /\ In(Inc(s, n)) = IF n > 0 THEN {Count(s, n)} ELSE {}
           /\ n > 0 => Len(Inc(s, n)) = 1
           /\ \A T, P : \A a \in Nat :
                 /\ s \in T => Brings(Inc(s, n), T, P, a, a + n)
                 /\ s \in P /\ s \notin T /\ n <= a => Brings(Inc(s, n), T, P, a, a - n)
                 /\ s \notin T \union P => Brings(Inc(s, n), T, P, a, a)
<1> DEFINE u == Count(s, n)
<1>1. u.op = "inc" /\ u.series = s /\ u.n = n
  BY DEF Count
<1>2. Inc(s, n) = IF n > 0 THEN <<u>> ELSE <<>>
  BY DEF Inc, Count
<1> HIDE DEF u
<1>3. CASE n = 0
  <2>1. Inc(s, n) = <<>>
    BY <1>2, <1>3
  <2> QED BY <1>3, <2>1, BringsNothing
<1>4. CASE n > 0
  <2>1. Inc(s, n) = <<u>>
    BY <1>2, <1>4
  <2>2. Len(<<u>>) = 1 /\ <<u>>[1] = u
    OBVIOUS
  <2>3. In(<<u>>) = {u}
    <3>1. 1 .. Len(<<u>>) = {1}
      BY <2>2
    <3> QED BY <2>2, <3>1 DEF In
  <2>4. ASSUME NEW T, NEW P, NEW a \in Nat, a + Effect(u, T, P) \in Nat
        PROVE  Brings(<<u>>, T, P, a, a + Effect(u, T, P))
    BY <1>1, <2>4, BringsOne
  <2>5. ASSUME NEW T, NEW P, NEW a \in Nat
        PROVE  /\ s \in T => Brings(<<u>>, T, P, a, a + n)
               /\ s \in P /\ s \notin T /\ n <= a => Brings(<<u>>, T, P, a, a - n)
               /\ s \notin T \union P => Brings(<<u>>, T, P, a, a)
    <3>1. ASSUME s \in T PROVE Brings(<<u>>, T, P, a, a + n)
      <4>1. Effect(u, T, P) = n
        BY <1>1, <3>1 DEF Effect
      <4> QED BY <2>4, <4>1
    <3>2. ASSUME s \in P, s \notin T, n <= a PROVE Brings(<<u>>, T, P, a, a - n)
      <4>1. Effect(u, T, P) = -n /\ a + (-n) = a - n /\ a - n \in Nat
        BY <1>1, <3>2 DEF Effect
      <4> QED BY <2>4, <4>1
    <3>3. ASSUME s \notin T \union P PROVE Brings(<<u>>, T, P, a, a)
      <4>1. Effect(u, T, P) = 0 /\ a + 0 = a
        BY <1>1, <3>3 DEF Effect
      <4> QED BY <2>4, <4>1
    <3> QED BY <3>1, <3>2, <3>3
  <2>6. IsQueue(<<u>>)
    <3>1. Brings(<<u>>, {}, {}, 0, 0)
      BY <2>5
    <3> QED BY <3>1, BringsTypes
  <2>7. In(<<u>>) = {Count(s, n)}
    BY <2>3 DEF u
  <2> QED BY <1>4, <2>1, <2>2, <2>5, <2>6, <2>7
<1> QED BY <1>3, <1>4

\* ... the update of a gauge, which no account has.
LEMMA SetPiece ==
    ASSUME NEW s, NEW n \in Nat
    PROVE  /\ IsQueue(Set(s, n)) /\ In(Set(s, n)) = {Gauge(s, n)}
           /\ \A T, P : \A a \in Nat :
                 s \notin T \union P => Brings(Set(s, n), T, P, a, a)
<1> DEFINE u == Gauge(s, n)
<1>1. u.op = "set" /\ u.series = s /\ u.n = n
  BY DEF Gauge
<1>2. Set(s, n) = <<u>>
  BY DEF Set, Gauge
<1> HIDE DEF u
<1>3. In(<<u>>) = {u}
  <2>1. Len(<<u>>) = 1 /\ <<u>>[1] = u
    OBVIOUS
  <2>2. 1 .. Len(<<u>>) = {1}
    BY <2>1
  <2> QED BY <2>1, <2>2 DEF In
<1>4. ASSUME NEW T, NEW P, NEW a \in Nat, s \notin T \union P
      PROVE  Brings(<<u>>, T, P, a, a)
  <2>1. Effect(u, T, P) = 0 /\ a + 0 = a
    BY <1>1, <1>4 DEF Effect
  <2> QED BY <1>1, <1>4, <2>1, BringsOne
<1>5. IsQueue(<<u>>)
  <2>1. Brings(<<u>>, {}, {}, 0, 0)
    BY <1>4
  <2> QED BY <2>1, BringsTypes
<1>6. In(<<u>>) = {Gauge(s, n)}
  BY <1>3 DEF u
<1> QED BY <1>2, <1>4, <1>5, <1>6

\* A counter that takes no count counts one or nothing.
LEMMA IncIfPiece ==
    ASSUME NEW c \in BOOLEAN, NEW s
    PROVE  IncIf(c, s) = Inc(s, IF c THEN 1 ELSE 0)
  BY DEF IncIf, Inc

----------------------------------------------------------------------------
\* The updates of a queue are gauges of G, and counters with a name in N.
Known(q, G, N) ==
    IsQueue(q) /\ \A u \in In(q) : u \in G \/ (u.op = "inc" /\ u.series[1] \in N)

\* One after the other.
LEMMA KnownCat ==
    ASSUME NEW G, NEW N, NEW p, NEW q, Known(p, G, N), Known(q, G, N)
    PROVE  Known(p \o q, G, N)
<1>1. IsQueue(p) /\ IsQueue(q)
  BY DEF Known
<1>2. IsQueue(p \o q) /\ In(p \o q) = In(p) \union In(q)
  BY <1>1, QueueCat
<1> QED BY <1>2 DEF Known

\* Each piece by its series.
LEMMA KnownPieces ==
    ASSUME NEW G, NEW N, NEW s, NEW n \in Nat
    PROVE  /\ s[1] \in N => Known(Inc(s, n), G, N)
           /\ Gauge(s, n) \in G => Known(Set(s, n), G, N)
           /\ \A c \in BOOLEAN : s[1] \in N => Known(IncIf(c, s), G, N)
<1>1. ASSUME s[1] \in N, NEW m \in Nat PROVE Known(Inc(s, m), G, N)
  <2>1. IsQueue(Inc(s, m)) /\ In(Inc(s, m)) \subseteq {Count(s, m)}
    BY IncPiece
  <2>2. Count(s, m).op = "inc" /\ Count(s, m).series = s
    BY DEF Count
  <2> QED BY <1>1, <2>1, <2>2 DEF Known
<1>2. Gauge(s, n) \in G => Known(Set(s, n), G, N)
  BY SetPiece DEF Known
<1>3. ASSUME NEW c \in BOOLEAN, s[1] \in N PROVE Known(IncIf(c, s), G, N)
  <2>1. (IF c THEN 1 ELSE 0) \in Nat
    OBVIOUS
  <2> QED BY <1>1, <1>3, <2>1, IncIfPiece
<1> QED BY <1>1, <1>2, <1>3

----------------------------------------------------------------------------
\* What the labs' updates are.

UnitLabs == {"postgres-write-storm", "circuit-breaker", "sse-exhaustion"}
PlainLabs == {"tool-router", "authz", "redis"}

\* A request of each lab has its fields, and a valid one has units within bounds.
LEMMA RequestFields ==
    ASSUME NEW i \in LabRequests, Valid(i)
    PROVE  /\ i.mode \in {"vulnerable", "hardened"}
           /\ i.lab \in PlainLabs \union UnitLabs
                 \union {"file-upload", "governance", "prompt-cache-isolation"}
           /\ i.lab = "file-upload" =>
                 i.type = "pdf" /\ i.hidden \in BOOLEAN /\ i.active \in BOOLEAN /\ i.egress \in BOOLEAN
           /\ i.lab = "governance" => i.orphans \in Nat
           /\ i.lab \in UnitLabs => i.units \in 1 .. 1000
           /\ i.lab = "prompt-cache-isolation" =>
                 i.a \in CacheTenants /\ i.b \in CacheTenants /\ i.hit \in BOOLEAN
<1>1. i.mode \in LabModes
  BY DEF LabRequests
<1>2. CASE i \in [lab : {"tool-router", "authz", "redis"}, mode : LabModes]
  BY <1>1, <1>2 DEF PlainLabs, UnitLabs, LabModes
<1>3. CASE i \in [lab : {"file-upload"}, mode : LabModes, type : {"pdf", "exe"},
            hidden : BOOLEAN, active : BOOLEAN, egress : BOOLEAN]
  BY <1>1, <1>3 DEF PlainLabs, UnitLabs, LabModes, Valid, FileTypesAllowed
<1>4. CASE i \in [lab : {"governance"}, mode : LabModes, orphans : 0 .. 1]
  BY <1>1, <1>4 DEF PlainLabs, UnitLabs, LabModes
<1>5. CASE i \in [lab : {"postgres-write-storm", "circuit-breaker", "sse-exhaustion"},
            mode : LabModes, units : Units]
  BY <1>1, <1>5 DEF PlainLabs, UnitLabs, LabModes, Valid, UnitsAllowed
<1>6. CASE i \in [lab : {"prompt-cache-isolation"}, mode : LabModes,
            a : CacheTenants, b : CacheTenants, hit : BOOLEAN]
  BY <1>1, <1>6 DEF PlainLabs, UnitLabs, LabModes
<1> QED BY <1>2, <1>3, <1>4, <1>5, <1>6 DEF LabRequests

\* The results of the labs whose metrics have accounts and gauges.
LEMMA BreakerResult ==
    ASSUME NEW i \in LabRequests, Valid(i), i.lab = "circuit-breaker",
           NEW x, x = CircuitBreaker(i.mode, i.units)
    PROVE  /\ x.requested \in Nat /\ x.accepted \in Nat /\ x.shed \in Nat /\ x.failures \in Nat
           /\ x.queue \in Nat /\ x.p99 \in Nat /\ x.state \in Nat
           /\ x.requested = x.accepted + x.shed
           /\ x.state = 1 => i.mode = "hardened" /\ x.shed > 0
<1>1. PICK n \in 1 .. 1000 : n = i.units
  BY RequestFields DEF UnitLabs
<1>2. PICK m \in {"vulnerable", "hardened"} : m = i.mode
  BY RequestFields
<1> DEFINE y == CircuitBreaker(m, n)
<1>3. /\ y.requested \in Nat /\ y.accepted \in Nat /\ y.shed \in Nat /\ y.failures \in Nat
      /\ y.queue \in Nat /\ y.p99 \in Nat /\ y.state \in Nat
      /\ y.requested = y.accepted + y.shed
      /\ y.state = 1 => m = "hardened" /\ y.shed > 0
  BY DEF CircuitBreaker, Above, SafeCapacity, CriticalCapacity
<1>4. x = y
  BY <1>1, <1>2
<1> HIDE DEF y
<1> QED BY <1>2, <1>3, <1>4

\* ... and of the streams.
LEMMA SseResult ==
    ASSUME NEW i \in LabRequests, Valid(i), i.lab = "sse-exhaustion",
           NEW x, x = SseExhaustion(i.mode, i.units, StreamSeconds)
    PROVE  /\ x.requested \in Nat /\ x.accepted \in Nat /\ x.rejected \in Nat
           /\ x.active \in Nat /\ x.orphaned \in Nat /\ x.workers \in Nat /\ x.memory \in Nat
           /\ x.requested = x.accepted + x.rejected
           /\ x.cleanup \in BOOLEAN
<1>1. PICK n \in 1 .. 1000 : n = i.units
  BY RequestFields DEF UnitLabs
<1>2. x = SseExhaustion(i.mode, n, 90)
  BY <1>1 DEF StreamSeconds
<1>3. /\ x.requested \in Nat /\ x.accepted \in Nat /\ x.rejected \in Nat
      /\ x.active \in Nat /\ x.orphaned \in Nat /\ x.workers \in Nat
      /\ x.requested = x.accepted + x.rejected
      /\ x.memory = (x.accepted * 90) \div 60
  BY <1>2 DEF SseExhaustion, Above, Orphaned, MaxStreamsPerTenant
<1>4. x.cleanup \in BOOLEAN
  BY <1>2 DEF SseExhaustion
<1>5. ASSUME NEW k \in Nat PROVE (k * 90) \div 60 \in Nat
  OBVIOUS
<1> QED BY <1>3, <1>4, <1>5

\* The gauges that a run sets.
Gauges(i) ==
    CASE i.lab = "circuit-breaker" ->
           LET x == CircuitBreaker(i.mode, i.units) IN
           {Gauge(<<"queue", i.mode>>, x.queue), Gauge(<<"p99", i.mode>>, x.p99),
            Gauge(<<"breaker">>, x.state)}
      [] i.lab = "sse-exhaustion" ->
           LET x == SseExhaustion(i.mode, i.units, StreamSeconds) IN
           {Gauge(<<"sse_active", i.mode>>, x.active), Gauge(<<"sse_orphaned", i.mode>>, x.orphaned),
            Gauge(<<"sse_workers", i.mode>>, x.workers), Gauge(<<"sse_memory", i.mode>>, x.memory)}
      [] OTHER -> {}

\* The counters that a lab has beside lab_runs, by name.
Counters(lab) ==
    CASE lab = "file-upload" -> {"extractions", "sandbox", "egress", "active", "hidden", "wrapped", "blocked"}
      [] lab = "governance" -> {"orphans", "audits"}
      [] lab = "postgres-write-storm" -> {"storm_events", "storm_refused", "storm_duration_count"}
      [] lab = "circuit-breaker" -> {"inference", "shed", "failures"}
      [] lab = "sse-exhaustion" -> {"sse", "sse_rejected", "sse_cleanup"}
      [] lab = "prompt-cache-isolation" -> {"cache", "cache_hits", "cache_bleed", "cache_isolated"}
      [] OTHER -> {"blocked"}

\* The updates of a run after lab_runs.
Rest(i) ==
    CASE i.lab = "file-upload"            -> FileUpdates(i)
      [] i.lab = "governance"             -> GovernanceUpdates(i)
      [] i.lab = "postgres-write-storm"   -> WriteStormUpdates(i)
      [] i.lab = "circuit-breaker"        -> CircuitUpdates(i)
      [] i.lab = "sse-exhaustion"         -> SseUpdates(i)
      [] i.lab = "prompt-cache-isolation" -> CacheUpdates(i)
      [] OTHER                            -> BlockedOnly(i)

\* _record_lab_metrics counts the run first.
LEMMA UpdatesSplit ==
    ASSUME NEW i
    PROVE  Updates(i) = LabRun(i) \o Rest(i)
  BY DEF Updates, Rest

\* The updates of each lab are its gauges and its counters.
LEMMA CircuitKnown ==
    ASSUME NEW i \in LabRequests, Valid(i), i.lab = "circuit-breaker"
    PROVE  Known(CircuitUpdates(i), Gauges(i), Counters(i.lab))
<1> DEFINE x == CircuitBreaker(i.mode, i.units)
           G == Gauges(i)
           N == Counters(i.lab)
           p1 == Inc(<<"inference", i.mode, "requested">>, x.requested)
           p2 == Inc(<<"inference", i.mode, "accepted">>, x.accepted)
           p3 == Inc(<<"shed", i.mode>>, x.shed)
           p4 == Inc(<<"failures", i.mode>>, x.failures)
           p5 == Set(<<"queue", i.mode>>, x.queue)
           p6 == Set(<<"p99", i.mode>>, x.p99)
           p7 == Set(<<"breaker">>, x.state)
<1>1. /\ x.requested \in Nat /\ x.accepted \in Nat /\ x.shed \in Nat /\ x.failures \in Nat
      /\ x.queue \in Nat /\ x.p99 \in Nat /\ x.state \in Nat
  BY BreakerResult
<1>2. "inference" \in N /\ "shed" \in N /\ "failures" \in N
  BY DEF Counters
<1>3. /\ Gauge(<<"queue", i.mode>>, x.queue) \in G /\ Gauge(<<"p99", i.mode>>, x.p99) \in G
      /\ Gauge(<<"breaker">>, x.state) \in G
  BY DEF Gauges
<1>4. CircuitUpdates(i) = p1 \o p2 \o p3 \o p4 \o p5 \o p6 \o p7
  BY DEF CircuitUpdates
<1> HIDE DEF x, G, N
<1>5. Known(p1, G, N) /\ Known(p2, G, N) /\ Known(p3, G, N) /\ Known(p4, G, N)
  BY <1>1, <1>2, KnownPieces
<1>6. Known(p5, G, N) /\ Known(p6, G, N) /\ Known(p7, G, N)
  BY <1>1, <1>3, KnownPieces
<1> HIDE DEF p1, p2, p3, p4, p5, p6, p7
<1>7. Known(p1 \o p2 \o p3 \o p4 \o p5 \o p6 \o p7, G, N)
  BY <1>5, <1>6, KnownCat
<1> QED BY <1>4, <1>7 DEF G, N

\* Streams.
LEMMA SseKnown ==
    ASSUME NEW i \in LabRequests, Valid(i), i.lab = "sse-exhaustion"
    PROVE  Known(SseUpdates(i), Gauges(i), Counters(i.lab))
<1> DEFINE x == SseExhaustion(i.mode, i.units, StreamSeconds)
           G == Gauges(i)
           N == Counters(i.lab)
           p1 == Inc(<<"sse", i.mode, "requested">>, x.requested)
           p2 == Inc(<<"sse", i.mode, "accepted">>, x.accepted)
           p3 == Inc(<<"sse_rejected", i.mode>>, x.rejected)
           p4 == Set(<<"sse_active", i.mode>>, x.active)
           p5 == Set(<<"sse_orphaned", i.mode>>, x.orphaned)
           p6 == Set(<<"sse_workers", i.mode>>, x.workers)
           p7 == Set(<<"sse_memory", i.mode>>, x.memory)
           p8 == IncIf(x.cleanup, <<"sse_cleanup", i.mode>>)
<1>1. /\ x.requested \in Nat /\ x.accepted \in Nat /\ x.rejected \in Nat /\ x.active \in Nat
      /\ x.orphaned \in Nat /\ x.workers \in Nat /\ x.memory \in Nat /\ x.cleanup \in BOOLEAN
  BY SseResult
<1>2. "sse" \in N /\ "sse_rejected" \in N /\ "sse_cleanup" \in N
  BY DEF Counters
<1>3. /\ Gauge(<<"sse_active", i.mode>>, x.active) \in G
      /\ Gauge(<<"sse_orphaned", i.mode>>, x.orphaned) \in G
      /\ Gauge(<<"sse_workers", i.mode>>, x.workers) \in G
      /\ Gauge(<<"sse_memory", i.mode>>, x.memory) \in G
  BY DEF Gauges
<1>4. SseUpdates(i) = p1 \o p2 \o p3 \o p4 \o p5 \o p6 \o p7 \o p8
  BY DEF SseUpdates
<1> HIDE DEF x, G, N
<1>5. Known(p1, G, N) /\ Known(p2, G, N) /\ Known(p3, G, N)
  BY <1>1, <1>2, KnownPieces
<1>6. Known(p4, G, N) /\ Known(p5, G, N) /\ Known(p6, G, N) /\ Known(p7, G, N)
  BY <1>1, <1>3, KnownPieces
<1>7. Known(p8, G, N)
  BY <1>1, <1>2, KnownPieces
<1> HIDE DEF p1, p2, p3, p4, p5, p6, p7, p8
<1>8. Known(p1 \o p2 \o p3 \o p4 \o p5 \o p6 \o p7 \o p8, G, N)
  BY <1>5, <1>6, <1>7, KnownCat
<1> QED BY <1>4, <1>8 DEF G, N

\* Uploads.
LEMMA FileKnown ==
    ASSUME NEW i \in LabRequests, Valid(i), i.lab = "file-upload"
    PROVE  Known(FileUpdates(i), Gauges(i), Counters(i.lab))
<1> DEFINE x == FileUpload(i.mode, i.hidden, i.active, i.egress)
           G == Gauges(i)
           N == Counters(i.lab)
           c == i.mode = "hardened" /\ x.blocked
           p1 == Inc(<<"extractions", i.mode, i.type, x.extraction>>, 1)
           p2 == IncIf(x.sandbox, <<"sandbox", i.mode>>)
           p3 == IncIf(x.egress, <<"egress", i.mode>>)
           p4 == IncIf(x.active, <<"active", i.mode, i.type>>)
           p5 == IncIf(x.hidden, <<"hidden", i.mode, i.type>>)
           p6 == IncIf(x.wrapped, <<"wrapped", i.mode>>)
           p7 == IncIf(c, <<"blocked", i.lab>>)
<1>1. /\ x.sandbox \in BOOLEAN /\ x.egress \in BOOLEAN /\ x.active \in BOOLEAN
      /\ x.hidden \in BOOLEAN /\ x.wrapped \in BOOLEAN /\ c \in BOOLEAN
  BY RequestFields DEF FileUpload
<1>2. /\ "extractions" \in N /\ "sandbox" \in N /\ "egress" \in N /\ "active" \in N
      /\ "hidden" \in N /\ "wrapped" \in N /\ "blocked" \in N
  BY DEF Counters
<1>3. FileUpdates(i) = p1 \o p2 \o p3 \o p4 \o p5 \o p6 \o p7
  BY DEF FileUpdates
<1> HIDE DEF x, G, N, c
<1>4. Known(p1, G, N)
  BY <1>2, KnownPieces
<1>5. Known(p2, G, N) /\ Known(p3, G, N) /\ Known(p4, G, N) /\ Known(p5, G, N)
  BY <1>1, <1>2, KnownPieces
<1>6. Known(p6, G, N) /\ Known(p7, G, N)
  BY <1>1, <1>2, KnownPieces
<1> HIDE DEF p1, p2, p3, p4, p5, p6, p7
<1>7. Known(p1 \o p2 \o p3 \o p4 \o p5 \o p6 \o p7, G, N)
  BY <1>4, <1>5, <1>6, KnownCat
<1> QED BY <1>3, <1>7 DEF G, N

\* The prompt cache.
LEMMA CacheKnown ==
    ASSUME NEW i \in LabRequests, Valid(i), i.lab = "prompt-cache-isolation"
    PROVE  Known(CacheUpdates(i), Gauges(i), Counters(i.lab))
<1> DEFINE G == Gauges(i)
           N == Counters(i.lab)
           c == i.mode = "vulnerable" /\ i.hit
           d == i.mode = "hardened"
           p1 == Inc(<<"cache", i.mode, i.a, "write">>, 1)
           p2 == Inc(<<"cache", i.mode, i.b, "lookup">>, 1)
           p3 == Inc(<<"cache_hits", i.mode, i.b, HitType(i)>>, 1)
           p4 == IncIf(c, <<"cache_bleed", i.mode>>)
           p5 == IncIf(d, <<"cache_isolated", i.mode>>)
<1>1. c \in BOOLEAN /\ d \in BOOLEAN
  BY RequestFields
<1>2. "cache" \in N /\ "cache_hits" \in N /\ "cache_bleed" \in N /\ "cache_isolated" \in N
  BY DEF Counters
<1>3. CacheUpdates(i) = p1 \o p2 \o p3 \o p4 \o p5
  BY DEF CacheUpdates
<1> HIDE DEF G, N, c, d
<1>4. Known(p1, G, N) /\ Known(p2, G, N) /\ Known(p3, G, N) /\ Known(p4, G, N) /\ Known(p5, G, N)
  BY <1>1, <1>2, KnownPieces
<1> HIDE DEF p1, p2, p3, p4, p5
<1>5. Known(p1 \o p2 \o p3 \o p4 \o p5, G, N)
  BY <1>4, KnownCat
<1> QED BY <1>3, <1>5 DEF G, N

\* Governance, the write storm, and the labs with one counter.
LEMMA OthersKnown ==
    ASSUME NEW i \in LabRequests, Valid(i)
    PROVE  /\ i.lab = "governance" => Known(GovernanceUpdates(i), Gauges(i), Counters(i.lab))
           /\ i.lab = "postgres-write-storm" =>
                 Known(WriteStormUpdates(i), Gauges(i), Counters(i.lab))
           /\ i.lab \in PlainLabs => Known(BlockedOnly(i), Gauges(i), Counters(i.lab))
<1> DEFINE G == Gauges(i)
           N == Counters(i.lab)
<1>1. ASSUME i.lab = "governance" PROVE Known(GovernanceUpdates(i), G, N)
  <2> DEFINE s == <<"audits", i.mode, IF i.orphans = 0 THEN "true" ELSE "false">>
             d == i.mode = "hardened"
             p1 == Inc(<<"orphans">>, i.orphans)
             p2 == IncIf(d, s)
  <2>1. "orphans" \in N /\ "audits" \in N /\ i.orphans \in Nat /\ d \in BOOLEAN
    BY <1>1, RequestFields DEF Counters
  <2>2. s[1] = "audits"
    OBVIOUS
  <2>3. GovernanceUpdates(i) = p1 \o p2
    BY DEF GovernanceUpdates
  <2> HIDE DEF G, N, s, d
  <2>4. Known(p1, G, N) /\ Known(p2, G, N)
    BY <2>1, <2>2, KnownPieces
  <2> QED BY <2>3, <2>4, KnownCat
<1>2. ASSUME i.lab = "postgres-write-storm" PROVE Known(WriteStormUpdates(i), G, N)
  <2> DEFINE x == WriteStorm(i.mode, i.units)
             p1 == Inc(<<"storm_events", i.mode, "inserted">>, i.units - x.refused)
             p2 == Inc(<<"storm_refused", i.mode>>, x.refused)
             p3 == Inc(<<"storm_duration_count", i.mode>>, 1)
  <2>1. "storm_events" \in N /\ "storm_refused" \in N /\ "storm_duration_count" \in N
    BY <1>2 DEF Counters
  <2>2. x.refused \in Nat /\ i.units - x.refused \in Nat
    <3>1. PICK n \in 1 .. 1000 : n = i.units
      BY <1>2, RequestFields DEF UnitLabs
    <3>2. x.refused = IF i.mode = "hardened" /\ n > 50 THEN n - 50 ELSE 0
      BY <3>1 DEF WriteStorm, Above
    <3> DEFINE y == x.refused
    <3>3. y \in {0, n - 50} /\ (y = 0 \/ n > 50)
      BY <3>2
    <3> HIDE DEF x, y
    <3>4. ASSUME y = 0 PROVE y \in Nat /\ n - y \in Nat
      BY <3>4
    <3>5. ASSUME y = n - 50, n > 50 PROVE y \in Nat /\ n - y \in Nat
      BY <3>5
    <3>6. y \in Nat /\ n - y \in Nat
      BY <3>3, <3>4, <3>5
    <3> QED BY ONLY <3>1, <3>6 DEF y
  <2>3. WriteStormUpdates(i) = p1 \o p2 \o p3
    BY DEF WriteStormUpdates
  <2> HIDE DEF G, N, x
  <2>4. Known(p1, G, N) /\ Known(p2, G, N) /\ Known(p3, G, N)
    BY <2>1, <2>2, KnownPieces
  <2> HIDE DEF p1, p2, p3
  <2> QED BY <2>3, <2>4, KnownCat
<1>3. ASSUME i.lab \in PlainLabs PROVE Known(BlockedOnly(i), G, N)
  <2> DEFINE c == i.mode = "hardened" /\ Blocked(i)
  <2>1. "blocked" \in N
    BY <1>3 DEF Counters, PlainLabs
  <2>2. c \in BOOLEAN /\ BlockedOnly(i) = IncIf(c, <<"blocked", i.lab>>)
    BY DEF BlockedOnly
  <2> HIDE DEF G, N, c
  <2> QED BY <2>1, <2>2, KnownPieces
<1> QED BY <1>1, <1>2, <1>3

\* All labs.
LEMMA RestKnown ==
    ASSUME NEW i \in LabRequests, Valid(i)
    PROVE  Known(Rest(i), Gauges(i), Counters(i.lab))
  BY RequestFields, CircuitKnown, SseKnown, FileKnown, CacheKnown, OthersKnown
     DEF Rest, PlainLabs, UnitLabs

\* The count of the run itself.
LEMMA LabRunPiece ==
    ASSUME NEW i
    PROVE  /\ Known(LabRun(i), {}, {"lab_runs"}) /\ Len(LabRun(i)) = 1
           /\ \E s \in {"blocked", "allowed"} :
                 /\ s = IF Blocked(i) THEN "blocked" ELSE "allowed"
                 /\ LabRun(i) = Inc(<<"lab_runs", i.lab, i.mode, s>>, 1)
<1> DEFINE s == IF Blocked(i) THEN "blocked" ELSE "allowed"
<1>1. s \in {"blocked", "allowed"} /\ LabRun(i) = Inc(<<"lab_runs", i.lab, i.mode, s>>, 1)
  BY DEF LabRun
<1>2. s = IF Blocked(i) THEN "blocked" ELSE "allowed"
  OBVIOUS
<1> HIDE DEF s
<1>3. Known(Inc(<<"lab_runs", i.lab, i.mode, s>>, 1), {}, {"lab_runs"})
  BY KnownPieces
<1>4. Len(Inc(<<"lab_runs", i.lab, i.mode, s>>, 1)) = 1
  BY IncPiece
<1> QED BY <1>1, <1>2, <1>3, <1>4

----------------------------------------------------------------------------
\* The accounts: what the updates of one run do to each of them.

GaugeNames == {"queue", "p99", "breaker", "sse_active", "sse_orphaned", "sse_workers", "sse_memory"}

\* A run sets each of its gauges to one value.
LEMMA GaugeFacts ==
    ASSUME NEW i \in LabRequests
    PROVE  /\ \A g \in Gauges(i) : g.op = "set" /\ g.series[1] \in GaugeNames
           /\ \A g, h \in Gauges(i) : g.series = h.series => g = h
           /\ i.lab \notin {"circuit-breaker", "sse-exhaustion"} => Gauges(i) = {}
<1>1. CASE i.lab = "circuit-breaker"
  <2> DEFINE x == CircuitBreaker(i.mode, i.units)
  <2>1. Gauges(i) = {Gauge(<<"queue", i.mode>>, x.queue), Gauge(<<"p99", i.mode>>, x.p99),
                     Gauge(<<"breaker">>, x.state)}
    BY <1>1 DEF Gauges
  <2> HIDE DEF x
  <2>2. /\ Gauge(<<"queue", i.mode>>, x.queue).op = "set"
        /\ Gauge(<<"p99", i.mode>>, x.p99).op = "set"
        /\ Gauge(<<"breaker">>, x.state).op = "set"
        /\ Gauge(<<"queue", i.mode>>, x.queue).series[1] = "queue"
        /\ Gauge(<<"p99", i.mode>>, x.p99).series[1] = "p99"
        /\ Gauge(<<"breaker">>, x.state).series[1] = "breaker"
    BY DEF Gauge
  <2>3. \A g \in Gauges(i) : g.op = "set" /\ g.series[1] \in GaugeNames
    BY <2>1, <2>2 DEF GaugeNames
  <2>4. ASSUME NEW g \in Gauges(i), NEW h \in Gauges(i), g.series = h.series PROVE g = h
    BY <2>1, <2>2, <2>4
  <2> QED BY <1>1, <2>3, <2>4
<1>2. CASE i.lab = "sse-exhaustion"
  <2> DEFINE x == SseExhaustion(i.mode, i.units, StreamSeconds)
             a == Gauge(<<"sse_active", i.mode>>, x.active)
             b == Gauge(<<"sse_orphaned", i.mode>>, x.orphaned)
             c == Gauge(<<"sse_workers", i.mode>>, x.workers)
             d == Gauge(<<"sse_memory", i.mode>>, x.memory)
  <2>1. Gauges(i) = {a, b, c, d}
    BY <1>2 DEF Gauges
  <2> HIDE DEF x
  <2>2. /\ a.op = "set" /\ b.op = "set" /\ c.op = "set" /\ d.op = "set"
        /\ a.series[1] = "sse_active" /\ b.series[1] = "sse_orphaned"
        /\ c.series[1] = "sse_workers" /\ d.series[1] = "sse_memory"
    BY DEF Gauge
  <2> HIDE DEF a, b, c, d
  <2>3. \A g \in Gauges(i) : g.op = "set" /\ g.series[1] \in GaugeNames
    BY <2>1, <2>2 DEF GaugeNames
  <2>4. ASSUME NEW g \in Gauges(i), NEW h \in Gauges(i), g.series = h.series PROVE g = h
    BY <2>1, <2>2, <2>4
  <2> QED BY <1>2, <2>3, <2>4
<1>3. CASE i.lab \notin {"circuit-breaker", "sse-exhaustion"}
  <2>1. Gauges(i) = {}
    BY <1>3 DEF Gauges
  <2> QED BY <2>1
<1> QED BY <1>1, <1>2, <1>3

\* A run of another lab does not touch the account.
LEMMA RestElsewhere ==
    ASSUME NEW i \in LabRequests, Valid(i), NEW T, NEW P, NEW a \in Nat,
           \A s \in T \union P : s[1] \notin Counters(i.lab) \union GaugeNames
    PROVE  Brings(Rest(i), T, P, a, a)
<1>1. Known(Rest(i), Gauges(i), Counters(i.lab))
  BY RestKnown
<1>2. IsQueue(Rest(i)) /\ \A u \in In(Rest(i)) : u.series \notin T \union P
  BY <1>1, GaugeFacts DEF Known
<1> QED BY <1>2, BringsSame

\* A counter of the account.
LEMMA IncMoves ==
    ASSUME NEW s, NEW n \in Nat, NEW T, NEW P, NEW a \in Nat, NEW b \in Nat,
           (s \in T /\ b = a + n) \/ (s \in P \ T /\ a = b + n)
    PROVE  Brings(Inc(s, n), T, P, a, b)
<1>1. CASE s \in T /\ b = a + n
  BY <1>1, IncPiece
<1>2. CASE s \in P \ T /\ a = b + n
  <2>1. n <= a /\ a - n = b
    BY <1>2
  <2> QED BY <1>2, <2>1, IncPiece
<1> QED BY <1>1, <1>2

\* Work units: requested, then accepted or shed.
LEMMA InferenceAccount ==
    ASSUME NEW i \in LabRequests, Valid(i), NEW m
    PROVE  Brings(Updates(i), {<<"inference", m, "requested">>},
                  {<<"inference", m, "accepted">>, <<"shed", m>>}, 0, 0)
<1> DEFINE T == {<<"inference", m, "requested">>}
           P == {<<"inference", m, "accepted">>, <<"shed", m>>}
<1>1. \A s \in T \union P : s[1] \in {"inference", "shed"}
  OBVIOUS
<1>2. Brings(LabRun(i), T, P, 0, 0)
  <2>1. PICK s : LabRun(i) = Inc(<<"lab_runs", i.lab, i.mode, s>>, 1)
    BY LabRunPiece
  <2>2. <<"lab_runs", i.lab, i.mode, s>> \notin T \union P
    OBVIOUS
  <2> HIDE DEF T, P
  <2> QED BY <2>1, <2>2, IncPiece
<1>3. Brings(Rest(i), T, P, 0, 0)
  <2>1. CASE i.lab # "circuit-breaker"
    <3>1. "inference" \notin Counters(i.lab) /\ "shed" \notin Counters(i.lab)
      BY <2>1 DEF Counters
    <3> HIDE DEF T, P
    <3> QED BY <1>1, <3>1, RestElsewhere DEF GaugeNames
  <2>2. CASE i.lab = "circuit-breaker"
    <3> DEFINE x == CircuitBreaker(i.mode, i.units)
               p1 == Inc(<<"inference", i.mode, "requested">>, x.requested)
               p2 == Inc(<<"inference", i.mode, "accepted">>, x.accepted)
               p3 == Inc(<<"shed", i.mode>>, x.shed)
               p4 == Inc(<<"failures", i.mode>>, x.failures)
               p5 == Set(<<"queue", i.mode>>, x.queue)
               p6 == Set(<<"p99", i.mode>>, x.p99)
               p7 == Set(<<"breaker">>, x.state)
    <3>1. /\ x.requested \in Nat /\ x.accepted \in Nat /\ x.shed \in Nat /\ x.failures \in Nat
          /\ x.queue \in Nat /\ x.p99 \in Nat /\ x.state \in Nat
          /\ x.requested = x.accepted + x.shed
      BY <2>2, BreakerResult
    <3>2. Rest(i) = p1 \o p2 \o p3 \o p4 \o p5 \o p6 \o p7
      BY <2>2 DEF Rest, CircuitUpdates
    <3> HIDE DEF x
    <3>3. /\ <<"failures", i.mode>> \notin T \union P /\ <<"queue", i.mode>> \notin T \union P
          /\ <<"p99", i.mode>> \notin T \union P /\ <<"breaker">> \notin T \union P
      OBVIOUS
    <3>4. CASE i.mode = m
      <4>1. /\ <<"inference", i.mode, "requested">> \in T
            /\ <<"inference", i.mode, "accepted">> \in P \ T /\ <<"shed", i.mode>> \in P \ T
        BY <3>4
      <4> HIDE DEF T, P
      <4>2. /\ x.requested = 0 + x.requested /\ x.requested = x.shed + x.accepted
            /\ x.shed = 0 + x.shed
        BY <3>1
      <4>3. /\ Brings(p1, T, P, 0, x.requested) /\ Brings(p2, T, P, x.requested, x.shed)
            /\ Brings(p3, T, P, x.shed, 0)
        BY <3>1, <4>1, <4>2, IncMoves
      <4>4. /\ Brings(p4, T, P, 0, 0) /\ Brings(p5, T, P, 0, 0) /\ Brings(p6, T, P, 0, 0)
            /\ Brings(p7, T, P, 0, 0)
        BY <3>1, <3>3, IncPiece, SetPiece
      <4> HIDE DEF p1, p2, p3, p4, p5, p6, p7
      <4> QED BY <3>2, <4>3, <4>4, BringsCat
    <3>5. CASE i.mode # m
      <4>1. /\ <<"inference", i.mode, "requested">> \notin T \union P
            /\ <<"inference", i.mode, "accepted">> \notin T \union P
            /\ <<"shed", i.mode>> \notin T \union P
        BY <3>5
      <4> HIDE DEF T, P
      <4>2. /\ Brings(p1, T, P, 0, 0) /\ Brings(p2, T, P, 0, 0) /\ Brings(p3, T, P, 0, 0)
            /\ Brings(p4, T, P, 0, 0)
        BY <3>1, <3>3, <4>1, IncPiece
      <4>3. Brings(p5, T, P, 0, 0) /\ Brings(p6, T, P, 0, 0) /\ Brings(p7, T, P, 0, 0)
        BY <3>1, <3>3, SetPiece
      <4> HIDE DEF p1, p2, p3, p4, p5, p6, p7
      <4> QED BY <3>2, <4>2, <4>3, BringsCat
    <3> QED BY <3>4, <3>5
  <2> QED BY <2>1, <2>2
<1> HIDE DEF T, P
<1>4. Brings(LabRun(i) \o Rest(i), T, P, 0, 0)
  BY <1>2, <1>3, BringsCat
<1> QED BY <1>4, UpdatesSplit DEF T, P
\* Streams: requested, then accepted or rejected.
LEMMA SseAccount ==
    ASSUME NEW i \in LabRequests, Valid(i), NEW m
    PROVE  Brings(Updates(i), {<<"sse", m, "requested">>},
                  {<<"sse", m, "accepted">>, <<"sse_rejected", m>>}, 0, 0)
<1> DEFINE T == {<<"sse", m, "requested">>}
           P == {<<"sse", m, "accepted">>, <<"sse_rejected", m>>}
<1>1. \A s \in T \union P : s[1] \in {"sse", "sse_rejected"}
  OBVIOUS
<1>2. Brings(LabRun(i), T, P, 0, 0)
  <2>1. PICK s : LabRun(i) = Inc(<<"lab_runs", i.lab, i.mode, s>>, 1)
    BY LabRunPiece
  <2>2. <<"lab_runs", i.lab, i.mode, s>> \notin T \union P
    OBVIOUS
  <2> HIDE DEF T, P
  <2> QED BY <2>1, <2>2, IncPiece
<1>3. Brings(Rest(i), T, P, 0, 0)
  <2>1. CASE i.lab # "sse-exhaustion"
    <3>1. "sse" \notin Counters(i.lab) /\ "sse_rejected" \notin Counters(i.lab)
      BY <2>1 DEF Counters
    <3> HIDE DEF T, P
    <3> QED BY <1>1, <3>1, RestElsewhere DEF GaugeNames
  <2>2. CASE i.lab = "sse-exhaustion"
    <3> DEFINE x == SseExhaustion(i.mode, i.units, StreamSeconds)
               p1 == Inc(<<"sse", i.mode, "requested">>, x.requested)
               p2 == Inc(<<"sse", i.mode, "accepted">>, x.accepted)
               p3 == Inc(<<"sse_rejected", i.mode>>, x.rejected)
               p4 == Set(<<"sse_active", i.mode>>, x.active)
               p5 == Set(<<"sse_orphaned", i.mode>>, x.orphaned)
               p6 == Set(<<"sse_workers", i.mode>>, x.workers)
               p7 == Set(<<"sse_memory", i.mode>>, x.memory)
               n8 == IF x.cleanup THEN 1 ELSE 0
               p8 == Inc(<<"sse_cleanup", i.mode>>, n8)
    <3>1. /\ x.requested \in Nat /\ x.accepted \in Nat /\ x.rejected \in Nat /\ x.active \in Nat
          /\ x.orphaned \in Nat /\ x.workers \in Nat /\ x.memory \in Nat /\ n8 \in Nat
          /\ x.requested = x.accepted + x.rejected
      BY <2>2, SseResult
    <3>2. Rest(i) = p1 \o p2 \o p3 \o p4 \o p5 \o p6 \o p7 \o p8
      BY <2>2, <3>1, SseResult, IncIfPiece DEF Rest, SseUpdates
    <3> HIDE DEF x, n8
    <3>3. /\ <<"sse_active", i.mode>> \notin T \union P
          /\ <<"sse_orphaned", i.mode>> \notin T \union P
          /\ <<"sse_workers", i.mode>> \notin T \union P
          /\ <<"sse_memory", i.mode>> \notin T \union P
          /\ <<"sse_cleanup", i.mode>> \notin T \union P
      OBVIOUS
    <3>4. CASE i.mode = m
      <4>1. /\ <<"sse", i.mode, "requested">> \in T
            /\ <<"sse", i.mode, "accepted">> \in P \ T /\ <<"sse_rejected", i.mode>> \in P \ T
        BY <3>4
      <4> HIDE DEF T, P
      <4>2. /\ x.requested = 0 + x.requested /\ x.requested = x.rejected + x.accepted
            /\ x.rejected = 0 + x.rejected
        BY <3>1
      <4>3. /\ Brings(p1, T, P, 0, x.requested) /\ Brings(p2, T, P, x.requested, x.rejected)
            /\ Brings(p3, T, P, x.rejected, 0)
        BY <3>1, <4>1, <4>2, IncMoves
      <4>4. /\ Brings(p4, T, P, 0, 0) /\ Brings(p5, T, P, 0, 0) /\ Brings(p6, T, P, 0, 0)
            /\ Brings(p7, T, P, 0, 0) /\ Brings(p8, T, P, 0, 0)
        BY <3>1, <3>3, IncPiece, SetPiece
      <4> HIDE DEF p1, p2, p3, p4, p5, p6, p7, p8
      <4> QED BY <3>2, <4>3, <4>4, BringsCat
    <3>5. CASE i.mode # m
      <4>1. /\ <<"sse", i.mode, "requested">> \notin T \union P
            /\ <<"sse", i.mode, "accepted">> \notin T \union P
            /\ <<"sse_rejected", i.mode>> \notin T \union P
        BY <3>5
      <4> HIDE DEF T, P
      <4>2. /\ Brings(p1, T, P, 0, 0) /\ Brings(p2, T, P, 0, 0) /\ Brings(p3, T, P, 0, 0)
            /\ Brings(p8, T, P, 0, 0)
        BY <3>1, <3>3, <4>1, IncPiece
      <4>3. Brings(p4, T, P, 0, 0) /\ Brings(p5, T, P, 0, 0) /\ Brings(p6, T, P, 0, 0) /\ Brings(p7, T, P, 0, 0)
        BY <3>1, <3>3, SetPiece
      <4> HIDE DEF p1, p2, p3, p4, p5, p6, p7, p8
      <4> QED BY <3>2, <4>2, <4>3, BringsCat
    <3> QED BY <3>4, <3>5
  <2> QED BY <2>1, <2>2
<1> HIDE DEF T, P
<1>4. Brings(LabRun(i) \o Rest(i), T, P, 0, 0)
  BY <1>2, <1>3, BringsCat
<1> QED BY <1>4, UpdatesSplit DEF T, P

\* Lookups in the prompt cache: counted, then a hit of one kind or a miss.
LEMMA CacheAccount ==
    ASSUME NEW i \in LabRequests, Valid(i), NEW m, NEW t
    PROVE  Brings(Updates(i), {<<"cache", m, t, "lookup">>},
                  {<<"cache_hits", m, t, "miss">>, <<"cache_hits", m, t, "cross_tenant">>,
                   <<"cache_hits", m, t, "tenant_scoped">>}, 0, 0)
<1> DEFINE T == {<<"cache", m, t, "lookup">>}
           P == {<<"cache_hits", m, t, "miss">>, <<"cache_hits", m, t, "cross_tenant">>,
                   <<"cache_hits", m, t, "tenant_scoped">>}
<1>1. \A s \in T \union P : s[1] \in {"cache", "cache_hits"}
  OBVIOUS
<1>2. Brings(LabRun(i), T, P, 0, 0)
  <2>1. PICK s : LabRun(i) = Inc(<<"lab_runs", i.lab, i.mode, s>>, 1)
    BY LabRunPiece
  <2>2. <<"lab_runs", i.lab, i.mode, s>> \notin T \union P
    OBVIOUS
  <2> HIDE DEF T, P
  <2> QED BY <2>1, <2>2, IncPiece
<1>3. Brings(Rest(i), T, P, 0, 0)
  <2>1. CASE i.lab # "prompt-cache-isolation"
    <3>1. "cache" \notin Counters(i.lab) /\ "cache_hits" \notin Counters(i.lab)
      BY <2>1 DEF Counters
    <3> HIDE DEF T, P
    <3> QED BY <1>1, <3>1, RestElsewhere DEF GaugeNames
  <2>2. CASE i.lab = "prompt-cache-isolation"
    <3> DEFINE c == i.mode = "vulnerable" /\ i.hit
               d == i.mode = "hardened"
               n4 == IF c THEN 1 ELSE 0
               n5 == IF d THEN 1 ELSE 0
               h == HitType(i)
               p1 == Inc(<<"cache", i.mode, i.a, "write">>, 1)
               p2 == Inc(<<"cache", i.mode, i.b, "lookup">>, 1)
               p3 == Inc(<<"cache_hits", i.mode, i.b, h>>, 1)
               p4 == Inc(<<"cache_bleed", i.mode>>, n4)
               p5 == Inc(<<"cache_isolated", i.mode>>, n5)
    <3>1. n4 \in Nat /\ n5 \in Nat
      OBVIOUS
    <3>2. h \in {"miss", "cross_tenant", "tenant_scoped"}
      BY DEF HitType
    <3>3. Rest(i) = p1 \o p2 \o p3 \o p4 \o p5
      <4>1. IncIf(c, <<"cache_bleed", i.mode>>) = p4 /\ IncIf(d, <<"cache_isolated", i.mode>>) = p5
        BY IncIfPiece
      <4>2. Rest(i) = p1 \o p2 \o p3 \o IncIf(c, <<"cache_bleed", i.mode>>)
                         \o IncIf(d, <<"cache_isolated", i.mode>>)
        BY <2>2 DEF Rest, CacheUpdates
      <4> QED BY <4>1, <4>2
    <3> HIDE DEF c, d, n4, n5, h
    <3>4. /\ <<"cache", i.mode, i.a, "write">> \notin T \union P
          /\ <<"cache_bleed", i.mode>> \notin T \union P
          /\ <<"cache_isolated", i.mode>> \notin T \union P
      OBVIOUS
    <3>5. \/ <<"cache", i.mode, i.b, "lookup">> \in T /\ <<"cache_hits", i.mode, i.b, h>> \in P \ T
          \/ /\ <<"cache", i.mode, i.b, "lookup">> \notin T \union P
             /\ <<"cache_hits", i.mode, i.b, h>> \notin T \union P
      BY <3>2
    <3> HIDE DEF T, P
    <3>6. Brings(p1, T, P, 0, 0) /\ Brings(p4, T, P, 0, 0) /\ Brings(p5, T, P, 0, 0)
      BY <3>1, <3>4, IncPiece
    <3>7. \/ Brings(p2, T, P, 0, 1) /\ Brings(p3, T, P, 1, 0)
          \/ Brings(p2, T, P, 0, 0) /\ Brings(p3, T, P, 0, 0)
      <4>1. 1 = 0 + 1 /\ 1 \in Nat /\ 0 \in Nat
        OBVIOUS
      <4>2. CASE <<"cache", i.mode, i.b, "lookup">> \in T /\ <<"cache_hits", i.mode, i.b, h>> \in P \ T
        BY <4>1, <4>2, IncMoves
      <4>3. CASE /\ <<"cache", i.mode, i.b, "lookup">> \notin T \union P
                 /\ <<"cache_hits", i.mode, i.b, h>> \notin T \union P
        BY <4>1, <4>3, IncPiece
      <4> QED BY <3>5, <4>2, <4>3
    <3> HIDE DEF p1, p2, p3, p4, p5
    <3>8. Brings(p1 \o p2 \o p3, T, P, 0, 0)
      BY <3>6, <3>7, BringsCat
    <3> QED BY <3>3, <3>6, <3>8, BringsCat
  <2> QED BY <2>1, <2>2
<1> HIDE DEF T, P
<1>4. Brings(LabRun(i) \o Rest(i), T, P, 0, 0)
  BY <1>2, <1>3, BringsCat
<1> QED BY <1>4, UpdatesSplit DEF T, P

\* What the updates of an upload do to an account that knows of lab_runs, extractions
\* and blocked only.
LEMMA FileRest ==
    ASSUME NEW i \in LabRequests, Valid(i), i.lab = "file-upload", NEW T, NEW P,
           \A s \in T \union P : s[1] \in {"lab_runs", "extractions", "blocked"},
           NEW a \in Nat, NEW b \in Nat, NEW c \in Nat,
           NEW x, x = FileUpload(i.mode, i.hidden, i.active, i.egress),
           Brings(Inc(<<"extractions", i.mode, i.type, x.extraction>>, 1), T, P, a, b),
           NEW n, n = (IF i.mode = "hardened" /\ x.blocked THEN 1 ELSE 0),
           Brings(Inc(<<"blocked", i.lab>>, n), T, P, b, c)
    PROVE  Brings(Rest(i), T, P, a, c)
<1> DEFINE w == i.mode = "hardened" /\ x.blocked
           n2 == IF x.sandbox THEN 1 ELSE 0
           n3 == IF x.egress THEN 1 ELSE 0
           n4 == IF x.active THEN 1 ELSE 0
           n5 == IF x.hidden THEN 1 ELSE 0
           n6 == IF x.wrapped THEN 1 ELSE 0
           p1 == Inc(<<"extractions", i.mode, i.type, x.extraction>>, 1)
           p2 == Inc(<<"sandbox", i.mode>>, n2)
           p3 == Inc(<<"egress", i.mode>>, n3)
           p4 == Inc(<<"active", i.mode, i.type>>, n4)
           p5 == Inc(<<"hidden", i.mode, i.type>>, n5)
           p6 == Inc(<<"wrapped", i.mode>>, n6)
           p7 == Inc(<<"blocked", i.lab>>, n)
<1>1. /\ x.sandbox \in BOOLEAN /\ x.egress \in BOOLEAN /\ x.active \in BOOLEAN
      /\ x.hidden \in BOOLEAN /\ x.wrapped \in BOOLEAN /\ w \in BOOLEAN
  BY RequestFields DEF FileUpload
<1>2. n2 \in Nat /\ n3 \in Nat /\ n4 \in Nat /\ n5 \in Nat /\ n6 \in Nat /\ n \in Nat
  OBVIOUS
<1>3. Rest(i) = p1 \o p2 \o p3 \o p4 \o p5 \o p6 \o p7
  <2>1. /\ IncIf(x.sandbox, <<"sandbox", i.mode>>) = p2
        /\ IncIf(x.egress, <<"egress", i.mode>>) = p3
        /\ IncIf(x.active, <<"active", i.mode, i.type>>) = p4
        /\ IncIf(x.hidden, <<"hidden", i.mode, i.type>>) = p5
        /\ IncIf(x.wrapped, <<"wrapped", i.mode>>) = p6
    BY <1>1, IncIfPiece
  <2>2. IncIf(w, <<"blocked", i.lab>>) = p7
    BY <1>1, IncIfPiece
  <2>3. Rest(i) = p1 \o IncIf(x.sandbox, <<"sandbox", i.mode>>)
             \o IncIf(x.egress, <<"egress", i.mode>>)
             \o IncIf(x.active, <<"active", i.mode, i.type>>)
             \o IncIf(x.hidden, <<"hidden", i.mode, i.type>>)
             \o IncIf(x.wrapped, <<"wrapped", i.mode>>)
             \o IncIf(w, <<"blocked", i.lab>>)
    BY DEF Rest, FileUpdates
  <2> HIDE DEF p1, p2, p3, p4, p5, p6, p7
  <2> QED BY ONLY <2>1, <2>2, <2>3, Zenon
<1> HIDE DEF w, n2, n3, n4, n5, n6
<1>4. /\ <<"sandbox", i.mode>> \notin T \union P /\ <<"egress", i.mode>> \notin T \union P
      /\ <<"active", i.mode, i.type>> \notin T \union P
      /\ <<"hidden", i.mode, i.type>> \notin T \union P /\ <<"wrapped", i.mode>> \notin T \union P
  OBVIOUS
<1>5. /\ Brings(p2, T, P, b, b) /\ Brings(p3, T, P, b, b) /\ Brings(p4, T, P, b, b)
      /\ Brings(p5, T, P, b, b) /\ Brings(p6, T, P, b, b)
  BY <1>2, <1>4, IncPiece
<1>6. Brings(p1, T, P, a, b) /\ Brings(p7, T, P, b, c)
  OBVIOUS
<1> HIDE DEF p1, p2, p3, p4, p5, p6, p7
<1>7. Brings(p1 \o p2 \o p3 \o p4 \o p5 \o p6, T, P, a, b)
  BY <1>5, <1>6, BringsCat
<1> QED BY <1>3, <1>6, <1>7, BringsCat

\* Hardened uploads: each is blocked or extracted in the sandbox.
LEMMA FileAccount ==
    ASSUME NEW i \in LabRequests, Valid(i)
    PROVE  Brings(Updates(i),
                  {<<"lab_runs", "file-upload", "hardened", "blocked">>,
                   <<"lab_runs", "file-upload", "hardened", "allowed">>},
                  {<<"extractions", "hardened", "pdf", "blocked">>,
                   <<"extractions", "hardened", "pdf", "sandboxed">>}, 0, 0)
<1> DEFINE T == {<<"lab_runs", "file-upload", "hardened", "blocked">>,
                   <<"lab_runs", "file-upload", "hardened", "allowed">>}
           P == {<<"extractions", "hardened", "pdf", "blocked">>,
                   <<"extractions", "hardened", "pdf", "sandboxed">>}
<1>1. \A s \in T \union P : s[1] \in {"lab_runs", "extractions"}
  OBVIOUS
<1>2. PICK s \in {"blocked", "allowed"} : LabRun(i) = Inc(<<"lab_runs", i.lab, i.mode, s>>, 1)
  BY LabRunPiece
<1>3. CASE i.lab # "file-upload"
  <2>1. Brings(LabRun(i), T, P, 0, 0)
    <3>1. <<"lab_runs", i.lab, i.mode, s>> \notin T \union P
      BY <1>3
    <3> HIDE DEF T, P
    <3> QED BY <1>2, <3>1, IncPiece
  <2>2. Brings(Rest(i), T, P, 0, 0)
    <3>1. "lab_runs" \notin Counters(i.lab) /\ "extractions" \notin Counters(i.lab)
      BY <1>3 DEF Counters
    <3> HIDE DEF T, P
    <3> QED BY <1>1, <3>1, RestElsewhere DEF GaugeNames
  <2> HIDE DEF T, P
  <2> QED BY <2>1, <2>2, BringsCat, UpdatesSplit DEF T, P
<1>4. CASE i.lab = "file-upload"
  <2> DEFINE x == FileUpload(i.mode, i.hidden, i.active, i.egress)
             e == <<"extractions", i.mode, i.type, x.extraction>>
             n == IF i.mode = "hardened" /\ x.blocked THEN 1 ELSE 0
             o == IF i.mode = "hardened" THEN 1 ELSE 0
  <2>1. i.type = "pdf" /\ i.mode \in {"vulnerable", "hardened"}
    BY <1>4, RequestFields
  <2>2. i.mode = "hardened" => x.extraction \in {"blocked", "sandboxed"}
    BY DEF FileUpload
  <2>3. n \in Nat /\ o \in Nat
    OBVIOUS
  <2> HIDE DEF x, n
  <2>4. \/ o = 1 /\ <<"lab_runs", i.lab, i.mode, s>> \in T /\ e \in P \ T
        \/ o = 0 /\ <<"lab_runs", i.lab, i.mode, s>> \notin T \union P /\ e \notin T \union P
    BY <1>2, <1>4, <2>1, <2>2
  <2>5. <<"blocked", i.lab>> \notin T \union P
    OBVIOUS
  <2> HIDE DEF T, P, e, o
  <2>6. Brings(LabRun(i), T, P, 0, o) /\ Brings(Inc(e, 1), T, P, o, 0)
    <3>1. 1 = 0 + 1 /\ 1 \in Nat /\ 0 \in Nat
      OBVIOUS
    <3>2. CASE o = 1 /\ <<"lab_runs", i.lab, i.mode, s>> \in T /\ e \in P \ T
      BY <1>2, <3>1, <3>2, IncMoves
    <3>3. CASE o = 0 /\ <<"lab_runs", i.lab, i.mode, s>> \notin T \union P /\ e \notin T \union P
      BY <1>2, <3>1, <3>3, IncPiece
    <3> QED BY <2>4, <3>2, <3>3
  <2>7. Brings(Inc(<<"blocked", i.lab>>, n), T, P, 0, 0)
    BY <2>3, <2>5, IncPiece
  <2>8. Brings(Rest(i), T, P, o, 0)
    <3>1. x = FileUpload(i.mode, i.hidden, i.active, i.egress)
      BY DEF x
    <3>2. Brings(Inc(<<"extractions", i.mode, i.type, x.extraction>>, 1), T, P, o, 0)
      BY <2>6 DEF e
    <3>3. n = (IF i.mode = "hardened" /\ x.blocked THEN 1 ELSE 0)
      BY DEF n
    <3>4. \A z \in T \union P : z[1] \in {"lab_runs", "extractions", "blocked"}
      BY <1>1
    <3>5. 0 \in Nat
      OBVIOUS
    <3> QED BY <1>4, <2>3, <2>7, <3>1, <3>2, <3>3, <3>4, <3>5, FileRest
  <2>9. Brings(LabRun(i) \o Rest(i), T, P, 0, 0)
    BY <2>6, <2>8, BringsCat
  <2> QED BY <2>9, UpdatesSplit DEF T, P
<1> QED BY <1>3, <1>4

\* The counters of blocked runs: each blocked hardened run of the lab, and no other.
LEMMA BlockedAccount ==
    ASSUME NEW i \in LabRequests, Valid(i),
           NEW l \in {"tool-router", "redis", "authz", "file-upload"}
    PROVE  Brings(Updates(i), {<<"lab_runs", l, "hardened", "blocked">>},
                  {<<"blocked", l>>}, 0, 0)
<1> DEFINE T == {<<"lab_runs", l, "hardened", "blocked">>}
           P == {<<"blocked", l>>}
<1>1. \A s \in T \union P : s[1] \in {"lab_runs", "blocked"}
  OBVIOUS
<1>2. PICK s \in {"blocked", "allowed"} :
         /\ LabRun(i) = Inc(<<"lab_runs", i.lab, i.mode, s>>, 1)
         /\ s = IF Blocked(i) THEN "blocked" ELSE "allowed"
  BY LabRunPiece
<1> DEFINE c == i.mode = "hardened" /\ Blocked(i)
           n == IF c THEN 1 ELSE 0
           o == IF i.lab = l THEN n ELSE 0
<1>3. n \in Nat /\ o \in Nat /\ c \in BOOLEAN
  OBVIOUS
<1>4. <<"lab_runs", i.lab, i.mode, s>> \in T <=> i.lab = l /\ c
  BY <1>2
<1>5. <<"lab_runs", i.lab, i.mode, s>> \notin P
  OBVIOUS
<1>6. n = (IF c THEN 1 ELSE 0) /\ o = (IF i.lab = l THEN n ELSE 0)
  OBVIOUS
<1>7. <<"blocked", i.lab>> \notin T /\ (<<"blocked", i.lab>> \in P <=> i.lab = l)
  OBVIOUS
<1>8. n = (IF i.mode = "hardened" /\ Blocked(i) THEN 1 ELSE 0)
  OBVIOUS
<1> HIDE DEF c, n, o, T, P
<1>9. Brings(LabRun(i), T, P, 0, o)
  <2>1. 1 = 0 + 1 /\ 1 \in Nat /\ 0 \in Nat
    OBVIOUS
  <2>2. CASE i.lab = l /\ c
    BY <1>2, <1>4, <1>6, <2>1, <2>2, IncMoves
  <2>3. CASE ~(i.lab = l /\ c)
    <3>1. o = 0 /\ <<"lab_runs", i.lab, i.mode, s>> \notin T \union P
      BY <1>4, <1>5, <1>6, <2>3
    <3> QED BY <1>2, <2>1, <3>1, IncPiece
  <2> QED BY <2>2, <2>3
<1>10. Brings(Inc(<<"blocked", i.lab>>, n), T, P, o, 0)
  <2>1. CASE i.lab = l
    <3>1. o = 0 + n /\ 0 \in Nat /\ <<"blocked", i.lab>> \in P \ T
      BY <1>3, <1>6, <1>7, <2>1
    <3> QED BY <1>3, <3>1, IncMoves
  <2>2. CASE i.lab # l
    <3>1. o = 0 /\ 0 \in Nat /\ <<"blocked", i.lab>> \notin T \union P
      BY <1>6, <1>7, <2>2
    <3> QED BY <1>3, <3>1, IncPiece
  <2> QED BY <2>1, <2>2
<1>11. Brings(Rest(i), T, P, o, 0)
  <2>1. CASE i.lab = "file-upload"
    <3> DEFINE x == FileUpload(i.mode, i.hidden, i.active, i.egress)
    <3>1. Blocked(i) = x.blocked
      BY <2>1 DEF Blocked
    <3>2. n = (IF i.mode = "hardened" /\ x.blocked THEN 1 ELSE 0)
      BY <1>8, <3>1
    <3>3. \A z \in T \union P : z[1] \in {"lab_runs", "extractions", "blocked"}
      BY <1>1
    <3>4. <<"extractions", i.mode, i.type, x.extraction>> \notin T \union P
      <4> HIDE DEF x
      <4> QED BY <1>1
    <3>5. Brings(Inc(<<"extractions", i.mode, i.type, x.extraction>>, 1), T, P, o, o)
      BY <1>3, <3>4, IncPiece
    <3>6. x = FileUpload(i.mode, i.hidden, i.active, i.egress) /\ 0 \in Nat
      OBVIOUS
    <3> HIDE DEF x
    <3> QED BY <1>3, <1>10, <2>1, <3>2, <3>3, <3>5, <3>6, FileRest
  <2>2. CASE i.lab \in PlainLabs
    <3>1. Rest(i) = IncIf(i.mode = "hardened" /\ Blocked(i), <<"blocked", i.lab>>)
      BY <2>2 DEF Rest, PlainLabs, BlockedOnly
    <3>2. Rest(i) = Inc(<<"blocked", i.lab>>, n)
      BY <1>8, <3>1, IncIfPiece
    <3> QED BY <1>10, <3>2
  <2>3. CASE i.lab \notin PlainLabs \union {"file-upload"}
    <3>1. "lab_runs" \notin Counters(i.lab) /\ "blocked" \notin Counters(i.lab)
      BY <2>3, RequestFields DEF Counters, PlainLabs, UnitLabs
    <3>2. o = 0
      BY <1>6, <2>3 DEF PlainLabs
    <3> QED BY <1>1, <3>1, <3>2, RestElsewhere DEF GaugeNames
  <2> QED BY <2>1, <2>2, <2>3
<1>12. Brings(LabRun(i) \o Rest(i), T, P, 0, 0)
  BY <1>9, <1>11, BringsCat
<1> QED BY <1>12, UpdatesSplit DEF T, P

----------------------------------------------------------------------------
\* The breaker's gauge: an update that counts shed work units, one that says open.
Sheds(u) == u.op = "inc" /\ u.series = <<"shed", "hardened">> /\ u.n > 0
Opens(u) == u.op = "set" /\ u.series = <<"breaker">> /\ u.n = 1

\* Work units are counted as shed before the gauge says open.
Cautious(q) == \A j \in 1 .. Len(q) : Opens(q[j]) => \E k \in 1 .. j - 1 : Sheds(q[k])

\* Updates after others: what those have shed counts for these.
LEMMA CautiousCat ==
    ASSUME NEW p, NEW q, IsQueue(p), IsQueue(q), Cautious(p),
           (\E u \in In(p) : Sheds(u)) \/ Cautious(q)
    PROVE  Cautious(p \o q)
<1> DEFINE s == p \o q
           m == Len(p)
           n == Len(q)
<1>1. /\ m \in Nat /\ n \in Nat /\ Len(s) = m + n
      /\ \A j \in 1 .. m + n : s[j] = IF j <= m THEN p[j] ELSE q[j - m]
  BY QueueCat, QueueFacts
<1>2. /\ \A j \in 1 .. m : Opens(p[j]) => \E k \in 1 .. j - 1 : Sheds(p[k])
      /\ \/ \E k \in 1 .. m : Sheds(p[k])
         \/ \A j \in 1 .. n : Opens(q[j]) => \E k \in 1 .. j - 1 : Sheds(q[k])
  BY DEF Cautious, In
<1> HIDE DEF s, m, n
<1>3. ASSUME NEW j \in 1 .. m + n, Opens(s[j])
      PROVE  \E k \in 1 .. j - 1 : Sheds(s[k])
  <2>1. CASE j <= m
    <3>1. j \in 1 .. m /\ s[j] = p[j]
      BY <1>1, <2>1
    <3>2. PICK k \in 1 .. j - 1 : Sheds(p[k])
      BY <1>2, <1>3, <3>1
    <3>3. k \in 1 .. m + n /\ k <= m /\ s[k] = p[k]
      BY <1>1, <2>1
    <3> QED BY <3>2, <3>3
  <2>2. CASE j > m /\ \E k \in 1 .. m : Sheds(p[k])
    <3>1. PICK k \in 1 .. m : Sheds(p[k])
      BY <2>2
    <3>2. k \in 1 .. m + n /\ k \in 1 .. j - 1 /\ s[k] = p[k]
      BY <1>1, <2>2
    <3> QED BY <3>1, <3>2
  <2>3. CASE j > m /\ \A h \in 1 .. n : Opens(q[h]) => \E k \in 1 .. h - 1 : Sheds(q[k])
    <3>1. j - m \in 1 .. n /\ s[j] = q[j - m]
      BY <1>1, <2>3
    <3>2. PICK k \in 1 .. (j - m) - 1 : Sheds(q[k])
      BY <1>3, <2>3, <3>1
    <3>3. m + k \in 1 .. m + n /\ m + k \in 1 .. j - 1 /\ ~(m + k <= m) /\ (m + k) - m = k
      BY <1>1, <2>3
    <3>4. s[m + k] = q[k]
      BY <1>1, <3>3
    <3> QED BY <3>2, <3>3, <3>4
  <2> QED BY <1>1, <1>2, <2>1, <2>2, <2>3
<1>4. Cautious(s)
  BY <1>1, <1>3 DEF Cautious
<1> QED BY <1>4 DEF s

\* A queue without the gauge.
LEMMA CautiousElse ==
    ASSUME NEW q, IsQueue(q), \A u \in In(q) : ~Opens(u)
    PROVE  Cautious(q)
  BY DEF Cautious, In

\* The first update is made: it was not the gauge, or somebody has shed.
LEMMA CautiousTail ==
    ASSUME NEW q, IsQueue(q), q # <<>>, Cautious(q)
    PROVE  ~Opens(Head(q)) /\ (Sheds(Head(q)) \/ Cautious(Tail(q)))
<1> DEFINE z == Tail(q)
           n == Len(q)
<1>1. /\ n \in Nat \ {0} /\ Head(q) = q[1] /\ Len(z) = n - 1
      /\ \A j \in 1 .. n - 1 : z[j] = q[j + 1]
  BY QueueTail
<1>2. \A j \in 1 .. n : Opens(q[j]) => \E k \in 1 .. j - 1 : Sheds(q[k])
  BY DEF Cautious
<1> HIDE DEF z, n
<1>3. ~Opens(q[1])
  <2>1. 1 \in 1 .. n /\ 1 .. 1 - 1 = {}
    BY <1>1
  <2> QED BY <1>2, <2>1
<1>4. ASSUME ~Sheds(q[1]), NEW j \in 1 .. n - 1, Opens(z[j])
      PROVE  \E k \in 1 .. j - 1 : Sheds(z[k])
  <2>1. j + 1 \in 1 .. n /\ z[j] = q[j + 1]
    BY <1>1
  <2>2. PICK k \in 1 .. (j + 1) - 1 : Sheds(q[k])
    BY <1>2, <1>4, <2>1
  <2>3. k # 1
    BY <1>4, <2>2
  <2>4. k - 1 \in 1 .. j - 1 /\ k - 1 \in 1 .. n - 1 /\ (k - 1) + 1 = k
    BY <1>1, <2>3
  <2>5. z[k - 1] = q[k]
    BY <1>1, <2>4
  <2> QED BY <2>2, <2>4, <2>5
<1>5. ~Sheds(q[1]) => Cautious(z)
  BY <1>1, <1>4 DEF Cautious
<1> QED BY <1>1, <1>3, <1>5 DEF z

\* Every run counts what it sheds before it sets the gauge.
LEMMA UpdatesCautious ==
    ASSUME NEW i \in LabRequests, Valid(i)
    PROVE  Cautious(Updates(i))
<1>1. IsQueue(LabRun(i)) /\ Cautious(LabRun(i))
  <2>1. IsQueue(LabRun(i)) /\ \A u \in In(LabRun(i)) : u.op = "inc"
    BY LabRunPiece DEF Known
  <2> QED BY <2>1, CautiousElse DEF Opens
<1>2. Known(Rest(i), Gauges(i), Counters(i.lab))
  BY RestKnown
<1>3. CASE i.lab # "circuit-breaker"
  <2>1. \A g \in Gauges(i) : ~Opens(g)
    <3>1. CASE i.lab = "sse-exhaustion"
      BY <3>1 DEF Gauges, Gauge, Opens
    <3>2. CASE i.lab # "sse-exhaustion"
      BY <1>3, <3>2, GaugeFacts
    <3> QED BY <3>1, <3>2
  <2>2. IsQueue(Rest(i)) /\ Cautious(Rest(i))
    BY <1>2, <2>1, CautiousElse DEF Known, Opens
  <2> QED BY <1>1, <2>2, CautiousCat, UpdatesSplit
<1>4. CASE i.lab = "circuit-breaker"
  <2> DEFINE x == CircuitBreaker(i.mode, i.units)
             p1 == Inc(<<"inference", i.mode, "requested">>, x.requested)
             p2 == Inc(<<"inference", i.mode, "accepted">>, x.accepted)
             p3 == Inc(<<"shed", i.mode>>, x.shed)
             p4 == Inc(<<"failures", i.mode>>, x.failures)
             p5 == Set(<<"queue", i.mode>>, x.queue)
             p6 == Set(<<"p99", i.mode>>, x.p99)
             p7 == Set(<<"breaker">>, x.state)
             C(q) == IsQueue(q) /\ Cautious(q)
  <2>1. /\ x.requested \in Nat /\ x.accepted \in Nat /\ x.shed \in Nat /\ x.failures \in Nat
        /\ x.queue \in Nat /\ x.p99 \in Nat /\ x.state \in Nat
        /\ x.state = 1 => i.mode = "hardened" /\ x.shed > 0
    BY <1>4, BreakerResult
  <2>2. Rest(i) = p1 \o p2 \o p3 \o p4 \o p5 \o p6 \o p7
    BY <1>4 DEF Rest, CircuitUpdates
  <2> HIDE DEF x
  <2>3. ASSUME NEW s, NEW n \in Nat PROVE C(Inc(s, n))
    <3>1. IsQueue(Inc(s, n)) /\ In(Inc(s, n)) \subseteq {Count(s, n)}
      BY IncPiece
    <3>2. ~Opens(Count(s, n))
      BY DEF Opens, Count
    <3> QED BY <3>1, <3>2, CautiousElse
  <2>4. C(p5) /\ C(p6)
    <3>1. IsQueue(p5) /\ In(p5) = {Gauge(<<"queue", i.mode>>, x.queue)}
      BY <2>1, SetPiece
    <3>2. IsQueue(p6) /\ In(p6) = {Gauge(<<"p99", i.mode>>, x.p99)}
      BY <2>1, SetPiece
    <3>3. ~Opens(Gauge(<<"queue", i.mode>>, x.queue)) /\ ~Opens(Gauge(<<"p99", i.mode>>, x.p99))
      BY DEF Opens, Gauge
    <3> QED BY <3>1, <3>2, <3>3, CautiousElse
  <2>5. ASSUME NEW p, NEW q, C(p), C(q) PROVE C(p \o q)
    BY <2>5, QueueCat, CautiousCat
  <2>6. C(p1) /\ C(p2) /\ C(p3) /\ C(p4)
    BY <2>1, <2>3
  <2>7. IsQueue(p7) /\ (x.state # 1 => Cautious(p7))
    <3>1. IsQueue(p7) /\ In(p7) = {Gauge(<<"breaker">>, x.state)}
      BY <2>1, SetPiece
    <3>2. x.state # 1 => ~Opens(Gauge(<<"breaker">>, x.state))
      BY DEF Opens, Gauge
    <3> QED BY <3>1, <3>2, CautiousElse
  <2>8. x.state = 1 => \E u \in In(p3) : Sheds(u)
    <3>1. ASSUME x.state = 1 PROVE Count(<<"shed", "hardened">>, x.shed) \in In(p3)
      BY <2>1, <3>1, IncPiece
    <3>2. x.shed > 0 => Sheds(Count(<<"shed", "hardened">>, x.shed))
      BY DEF Sheds, Count
    <3> QED BY <2>1, <3>1, <3>2
  <2> HIDE DEF p1, p2, p3, p4, p5, p6, p7, C
  <2>9. C(p1 \o p2 \o p3 \o p4 \o p5 \o p6)
    BY <2>4, <2>5, <2>6
  <2>10. In(p3) \subseteq In(p1 \o p2 \o p3 \o p4 \o p5 \o p6)
    <3>1. C(p1 \o p2) /\ C(p1 \o p2 \o p3) /\ C(p1 \o p2 \o p3 \o p4) /\ C(p1 \o p2 \o p3 \o p4 \o p5)
      BY <2>4, <2>5, <2>6
    <3>2. \A p, q : C(p) /\ C(q) => In(p) \subseteq In(p \o q) /\ In(q) \subseteq In(p \o q)
      BY QueueCat DEF C
    <3>3. In(p3) \subseteq In(p1 \o p2 \o p3)
      BY <2>6, <3>1, <3>2
    <3>4. In(p1 \o p2 \o p3) \subseteq In(p1 \o p2 \o p3 \o p4)
      BY <2>6, <3>1, <3>2
    <3>5. In(p1 \o p2 \o p3 \o p4) \subseteq In(p1 \o p2 \o p3 \o p4 \o p5)
      BY <2>4, <3>1, <3>2
    <3>6. In(p1 \o p2 \o p3 \o p4 \o p5) \subseteq In(p1 \o p2 \o p3 \o p4 \o p5 \o p6)
      BY <2>4, <3>1, <3>2
    <3> QED BY <3>3, <3>4, <3>5, <3>6
  <2> DEFINE most == p1 \o p2 \o p3 \o p4 \o p5 \o p6
  <2>11. /\ IsQueue(most) /\ Cautious(most) /\ In(p3) \subseteq In(most) /\ Rest(i) = most \o p7
    BY <2>2, <2>9, <2>10 DEF C
  <2> HIDE DEF most
  <2>12. Cautious(most \o p7) /\ IsQueue(most \o p7)
    BY <2>7, <2>8, <2>11, CautiousCat, QueueCat
  <2> QED BY <1>1, <2>11, <2>12, CautiousCat, UpdatesSplit
<1> QED BY <1>3, <1>4

----------------------------------------------------------------------------
\* The invariant.

\* The balance b of an account is what the runs still owe it: with a share of each, the
\* updates that they have left bring that share to zero.
Ledger(q, T, P, b) ==
    \E d \in [LabRuns -> Nat] : Sums(d, b) /\ \A r \in LabRuns : Brings(q[r], T, P, d[r], 0)

\* The queues of updates.  A run that records has some left, all of its own.
QueuesOwn ==
    /\ DOMAIN todo = LabRuns
    /\ \A r \in LabRuns :
          /\ stage[r] # "recording" => todo[r] = <<>>
          /\ stage[r] = "recording" =>
                /\ asked[r] \in LabRequests /\ Valid(asked[r])
                /\ todo[r] # <<>> /\ IsQueue(todo[r])
                /\ In(todo[r]) \subseteq In(Updates(asked[r]))

\* An account: the series t of its total (or t1 and t2) and those of its parts.
Account1(t, p) == Ledger(todo, {t}, {p}, Get(t) - Get(p))
Account2(t, p1, p2) == Ledger(todo, {t}, {p1, p2}, Get(t) - (Get(p1) + Get(p2)))
Account3(t, p1, p2, p3) ==
    Ledger(todo, {t}, {p1, p2, p3}, Get(t) - (Get(p1) + Get(p2) + Get(p3)))
Account4(t1, t2, p1, p2) ==
    Ledger(todo, {t1, t2}, {p1, p2}, (Get(t1) + Get(t2)) - (Get(p1) + Get(p2)))

\* Every account of RegistryAccounted.
AccountsHold ==
    /\ \A m \in LabModes :
         /\ Account2(<<"inference", m, "requested">>,
                     <<"inference", m, "accepted">>, <<"shed", m>>)
         /\ Account2(<<"sse", m, "requested">>, <<"sse", m, "accepted">>, <<"sse_rejected", m>>)
         /\ \A t \in CacheTenants :
              Account3(<<"cache", m, t, "lookup">>, <<"cache_hits", m, t, "miss">>,
                       <<"cache_hits", m, t, "cross_tenant">>,
                       <<"cache_hits", m, t, "tenant_scoped">>)
    /\ Account4(<<"lab_runs", "file-upload", "hardened", "blocked">>,
                <<"lab_runs", "file-upload", "hardened", "allowed">>,
                <<"extractions", "hardened", "pdf", "blocked">>,
                <<"extractions", "hardened", "pdf", "sandboxed">>)
    /\ \A l \in {"tool-router", "redis", "authz", "file-upload"} :
         Account1(<<"lab_runs", l, "hardened", "blocked">>, <<"blocked", l>>)

\* The shed work units that are counted.
Shed == Get(<<"shed", "hardened">>)

\* Unless work units are counted as shed, nobody opens the breaker's gauge before it
\* counts some.
ShedBeforeOpen ==
    /\ Shed > 0 \/ \A r \in LabRuns : Cautious(todo[r])
    /\ Get(<<"breaker">>) = 1 => Shed > 0

\* LabRuns that record together know it.
OverlapSeen == \A r, s \in Recording : r # s => r \in overlapped

\* A run that has recorded alone so far has set its gauges or has them left.
GaugesShown ==
    /\ last # NoRun => stage[last] = "done"
    /\ \A r \in LabRuns \ overlapped :
          stage[r] = "recording" \/ (last # NoRun /\ r = last /\ Recording = {}) =>
             \A g \in Gauges(asked[r]) : g \in In(todo[r]) \/ Get(g.series) = g.n

\* The inductive invariant.
MetricsInductive ==
    RecordTypeOK /\ QueuesOwn /\ AccountsHold /\ ShedBeforeOpen /\ OverlapSeen /\ GaugesShown

----------------------------------------------------------------------------
\* Values are natural numbers.
LEMMA GetNat ==
    ASSUME RecordTypeOK, NEW s
    PROVE  Get(s) \in Nat
  BY DEF RecordTypeOK, Get

\* What an update does to a series.
LEMMA GetUpdate ==
    ASSUME NEW u, Update(u), NEW s
    PROVE  Get(s)' = IF s # u.series THEN Get(s)
                       ELSE IF u.op = "set" THEN u.n ELSE Get(s) + u.n
<1>1. DOMAIN value' = DOMAIN value \union {u.series}
  BY DEF Update
<1>2. s \in DOMAIN value' =>
        value'[s] = IF s # u.series THEN value[s]
                    ELSE IF u.op = "set" THEN u.n ELSE Get(s) + u.n
  BY DEF Update
<1>3. Get(s)' = IF s \in DOMAIN value' THEN value'[s] ELSE 0
  BY DEF Get
<1>4. Get(s) = IF s \in DOMAIN value THEN value[s] ELSE 0
  BY DEF Get
<1> QED BY <1>1, <1>2, <1>3, <1>4

\* A step puts the updates of a request into an empty queue or takes the first of one.
LEMMA StepKinds ==
    ASSUME RecordTypeOK, QueuesOwn, [RecordNext]_recordVars
    PROVE  \/ value' = value /\ todo' = todo
           \/ \E r \in LabRuns : \E i \in LabRequests :
                /\ Valid(i) /\ value' = value /\ todo[r] = <<>>
                /\ todo' = [todo EXCEPT ![r] = Updates(i)]
           \/ \E r \in LabRuns :
                /\ stage[r] = "recording" /\ todo[r] # <<>> /\ IsQueue(todo[r])
                /\ Update(Head(todo[r]))
                /\ todo' = [todo EXCEPT ![r] = Tail(@)]
<1>1. CASE UNCHANGED recordVars
  BY <1>1 DEF recordVars
<1>2. ASSUME NEW r \in LabRuns, NEW i \in LabRequests, SubmitLab(r, i) PROVE
        \/ value' = value /\ todo' = todo
        \/ /\ Valid(i) /\ value' = value /\ todo[r] = <<>>
           /\ todo' = [todo EXCEPT ![r] = Updates(i)]
  BY <1>2 DEF SubmitLab, QueuesOwn
<1>3. ASSUME NEW r \in LabRuns, Record(r) PROVE
                /\ stage[r] = "recording" /\ todo[r] # <<>> /\ IsQueue(todo[r])
                /\ Update(Head(todo[r]))
                /\ todo' = [todo EXCEPT ![r] = Tail(@)]
  BY <1>3 DEF Record, QueuesOwn
<1> QED BY <1>1, <1>2, <1>3 DEF RecordNext

\* How a step moves the balance of an account.
LEMMA LedgerNext ==
    ASSUME RecordTypeOK, QueuesOwn, [RecordNext]_recordVars, NEW T, NEW P,
           \A i \in LabRequests : Valid(i) => Brings(Updates(i), T, P, 0, 0),
           NEW b, Ledger(todo, T, P, b)
    PROVE  \/ value' = value /\ Ledger(todo', T, P, b)
           \/ \E u : /\ Update(u) /\ u.n \in Nat /\ (u.series \in T \union P => u.op = "inc")
                     /\ Ledger(todo', T, P, b + Effect(u, T, P))
<1>1. PICK d \in [LabRuns -> Nat] : Sums(d, b) /\ \A r \in LabRuns : Brings(todo[r], T, P, d[r], 0)
  BY DEF Ledger
<1>2. DOMAIN todo = LabRuns
  BY DEF QueuesOwn
<1>3. CASE value' = value /\ todo' = todo
  BY <1>3
<1>4. ASSUME NEW r \in LabRuns, NEW i \in LabRequests, Valid(i), value' = value, todo[r] = <<>>,
             todo' = [todo EXCEPT ![r] = Updates(i)]
      PROVE  Ledger(todo', T, P, b)
  <2>1. d[r] = 0
    <3>1. Brings(<<>>, T, P, d[r], 0)
      BY <1>1, <1>4
    <3> QED BY <3>1, BringsNothing
  <2>2. ASSUME NEW s \in LabRuns PROVE Brings(todo'[s], T, P, d[s], 0)
    <3>1. todo'[s] = IF s = r THEN Updates(i) ELSE todo[s]
      BY <1>2, <1>4
    <3> QED BY <1>1, <1>4, <2>1, <3>1
  <2> QED BY <1>1, <2>2 DEF Ledger
<1>5. ASSUME NEW r \in LabRuns, todo[r] # <<>>, IsQueue(todo[r]), Update(Head(todo[r])),
             todo' = [todo EXCEPT ![r] = Tail(@)]
      PROVE  \E u : /\ Update(u) /\ u.n \in Nat /\ (u.series \in T \union P => u.op = "inc")
                    /\ Ledger(todo', T, P, b + Effect(u, T, P))
  <2> DEFINE u == Head(todo[r])
             a == d[r] + Effect(u, T, P)
             e == [d EXCEPT ![r] = a]
  <2>1. /\ a \in Nat /\ (u.series \in T \union P => u.op = "inc")
        /\ Brings(Tail(todo[r]), T, P, a, 0)
    BY <1>1, <1>5, BringsTail
  <2>2. u.n \in Nat
    <3>1. u \in In(todo[r])
      BY <1>5, QueueTail
    <3> QED BY <1>5, <3>1, QueueFacts
  <2>3. Effect(u, T, P) \in Int
    <3> HIDE DEF u
    <3> QED BY <2>2 DEF Effect
  <2> HIDE DEF u
  <2>4. b \in Nat /\ d[r] \in Nat
    BY <1>1, SumIsNat
  <2>5. b + a - d[r] = b + Effect(u, T, P)
    BY <2>3, <2>4
  <2> HIDE DEF a
  <2>6. Sums(e, b + Effect(u, T, P))
    BY <1>1, <2>1, <2>5, SumMoves
  <2>7. e \in [LabRuns -> Nat] /\ \A s \in LabRuns : e[s] = IF s = r THEN a ELSE d[s]
    BY <2>1
  <2> HIDE DEF e
  <2>8. ASSUME NEW s \in LabRuns PROVE Brings(todo'[s], T, P, e[s], 0)
    <3>1. todo'[s] = IF s = r THEN Tail(todo[r]) ELSE todo[s]
      BY <1>2, <1>5
    <3> QED BY <1>1, <2>1, <2>7, <3>1
  <2>9. Ledger(todo', T, P, b + Effect(u, T, P))
    BY <2>6, <2>7, <2>8 DEF Ledger
  <2>10. Update(u)
    BY <1>5 DEF u
  <2> QED BY <2>1, <2>2, <2>9, <2>10
<1> QED BY <1>3, <1>4, <1>5, StepKinds

\* What an update adds to a counter.
Share(u, s) == IF u.series = s THEN u.n ELSE 0

\* It adds that.
LEMMA UpdateShares ==
    ASSUME RecordTypeOK, NEW u, Update(u), u.n \in Nat, NEW s, u.series = s => u.op = "inc"
    PROVE  Share(u, s) \in Nat /\ Get(s)' = Get(s) + Share(u, s)
  BY GetNat, GetUpdate DEF Share

\* The accounts, by the number of their series.
LEMMA Account1Next ==
    ASSUME RecordTypeOK, QueuesOwn, [RecordNext]_recordVars, NEW t, NEW p,
           t # p,
           \A i \in LabRequests : Valid(i) => Brings(Updates(i), {t}, {p}, 0, 0),
           Account1(t, p)
    PROVE  Account1(t, p)'
<1> DEFINE T == {t}
           P == {p}
           b == Get(t) - Get(p)
<1>1. Ledger(todo, T, P, b)
  BY DEF Account1
<1>2. CASE value' = value /\ Ledger(todo', T, P, b)
  <2>1. b' = b
    BY <1>2 DEF Get
  <2> QED BY <1>2, <2>1 DEF Account1
<1>3. ASSUME NEW u, Update(u), u.n \in Nat, u.series \in T \union P => u.op = "inc",
             Ledger(todo', T, P, b + Effect(u, T, P))
      PROVE  Account1(t, p)'
  <2>1. \A s \in {t, p} :
           Share(u, s) \in Nat /\ Get(s) \in Nat /\ Get(s)' = Get(s) + Share(u, s)
    BY <1>3, GetNat, UpdateShares
  <2>2. Effect(u, T, P) = Share(u, t) - Share(u, p)
    BY <1>3 DEF Effect, Share
  <2>3. Get(t)' - Get(p)' = b + Effect(u, T, P)
    <3>1. /\ Share(u, t) \in Nat /\ Get(t) \in Nat /\ Get(t)' = Get(t) + Share(u, t)
          /\ Share(u, p) \in Nat /\ Get(p) \in Nat /\ Get(p)' = Get(p) + Share(u, p)
      BY <2>1
    <3> HIDE DEF T, P
    <3>2. Get(t)' - Get(p)' = (Get(t) + Share(u, t)) - (Get(p) + Share(u, p))
      BY <3>1
    <3>3. Get(t)' - Get(p)' = (Get(t) - Get(p)) + (Share(u, t) - Share(u, p))
      BY <3>1, <3>2
    <3> QED BY <2>2, <3>3
  <2> QED BY <1>3, <2>3 DEF Account1
<1> HIDE DEF T, P, b
<1> QED BY <1>1, <1>2, <1>3, LedgerNext DEF T, P

\* Two parts.
LEMMA Account2Next ==
    ASSUME RecordTypeOK, QueuesOwn, [RecordNext]_recordVars, NEW t, NEW p1, NEW p2,
           t # p1, t # p2, p1 # p2,
           \A i \in LabRequests : Valid(i) => Brings(Updates(i), {t}, {p1, p2}, 0, 0),
           Account2(t, p1, p2)
    PROVE  Account2(t, p1, p2)'
<1> DEFINE T == {t}
           P == {p1, p2}
           b == Get(t) - (Get(p1) + Get(p2))
<1>1. Ledger(todo, T, P, b)
  BY DEF Account2
<1>2. CASE value' = value /\ Ledger(todo', T, P, b)
  <2>1. b' = b
    BY <1>2 DEF Get
  <2> QED BY <1>2, <2>1 DEF Account2
<1>3. ASSUME NEW u, Update(u), u.n \in Nat, u.series \in T \union P => u.op = "inc",
             Ledger(todo', T, P, b + Effect(u, T, P))
      PROVE  Account2(t, p1, p2)'
  <2>1. \A s \in {t, p1, p2} :
           Share(u, s) \in Nat /\ Get(s) \in Nat /\ Get(s)' = Get(s) + Share(u, s)
    BY <1>3, GetNat, UpdateShares
  <2>2. Effect(u, T, P) = Share(u, t) - (Share(u, p1) + Share(u, p2))
    BY <1>3 DEF Effect, Share
  <2>3. Get(t)' - (Get(p1)' + Get(p2)') = b + Effect(u, T, P)
    BY <2>1, <2>2
  <2> QED BY <1>3, <2>3 DEF Account2
<1> HIDE DEF T, P, b
<1> QED BY <1>1, <1>2, <1>3, LedgerNext DEF T, P

\* Three parts.
LEMMA Account3Next ==
    ASSUME RecordTypeOK, QueuesOwn, [RecordNext]_recordVars, NEW t, NEW p1, NEW p2, NEW p3,
           t # p1, t # p2, t # p3, p1 # p2, p1 # p3, p2 # p3,
           \A i \in LabRequests : Valid(i) => Brings(Updates(i), {t}, {p1, p2, p3}, 0, 0),
           Account3(t, p1, p2, p3)
    PROVE  Account3(t, p1, p2, p3)'
<1> DEFINE T == {t}
           P == {p1, p2, p3}
           b == Get(t) - (Get(p1) + Get(p2) + Get(p3))
<1>1. Ledger(todo, T, P, b)
  BY DEF Account3
<1>2. CASE value' = value /\ Ledger(todo', T, P, b)
  <2>1. b' = b
    BY <1>2 DEF Get
  <2> QED BY <1>2, <2>1 DEF Account3
<1>3. ASSUME NEW u, Update(u), u.n \in Nat, u.series \in T \union P => u.op = "inc",
             Ledger(todo', T, P, b + Effect(u, T, P))
      PROVE  Account3(t, p1, p2, p3)'
  <2>1. \A s \in {t, p1, p2, p3} :
           Share(u, s) \in Nat /\ Get(s) \in Nat /\ Get(s)' = Get(s) + Share(u, s)
    BY <1>3, GetNat, UpdateShares
  <2>2. Effect(u, T, P) = Share(u, t) - (Share(u, p1) + Share(u, p2) + Share(u, p3))
    BY <1>3 DEF Effect, Share
  <2>3. Get(t)' - (Get(p1)' + Get(p2)' + Get(p3)') = b + Effect(u, T, P)
    BY <2>1, <2>2
  <2> QED BY <1>3, <2>3 DEF Account3
<1> HIDE DEF T, P, b
<1> QED BY <1>1, <1>2, <1>3, LedgerNext DEF T, P

\* Two totals, two parts.
LEMMA Account4Next ==
    ASSUME RecordTypeOK, QueuesOwn, [RecordNext]_recordVars, NEW t1, NEW t2, NEW p1, NEW p2,
           t1 # t2, t1 # p1, t1 # p2, t2 # p1, t2 # p2, p1 # p2,
           \A i \in LabRequests : Valid(i) => Brings(Updates(i), {t1, t2}, {p1, p2}, 0, 0),
           Account4(t1, t2, p1, p2)
    PROVE  Account4(t1, t2, p1, p2)'
<1> DEFINE T == {t1, t2}
           P == {p1, p2}
           b == (Get(t1) + Get(t2)) - (Get(p1) + Get(p2))
<1>1. Ledger(todo, T, P, b)
  BY DEF Account4
<1>2. CASE value' = value /\ Ledger(todo', T, P, b)
  <2>1. b' = b
    BY <1>2 DEF Get
  <2> QED BY <1>2, <2>1 DEF Account4
<1>3. ASSUME NEW u, Update(u), u.n \in Nat, u.series \in T \union P => u.op = "inc",
             Ledger(todo', T, P, b + Effect(u, T, P))
      PROVE  Account4(t1, t2, p1, p2)'
  <2>1. \A s \in {t1, t2, p1, p2} :
           Share(u, s) \in Nat /\ Get(s) \in Nat /\ Get(s)' = Get(s) + Share(u, s)
    BY <1>3, GetNat, UpdateShares
  <2>2. Effect(u, T, P) = (Share(u, t1) + Share(u, t2)) - (Share(u, p1) + Share(u, p2))
    BY <1>3 DEF Effect, Share
  <2>3. (Get(t1)' + Get(t2)') - (Get(p1)' + Get(p2)') = b + Effect(u, T, P)
    BY <2>1, <2>2
  <2> QED BY <1>3, <2>3 DEF Account4
<1> HIDE DEF T, P, b
<1> QED BY <1>1, <1>2, <1>3, LedgerNext DEF T, P

----------------------------------------------------------------------------
\* A run sets its gauges.
LEMMA GaugesAreSet ==
    ASSUME NEW i \in LabRequests, Valid(i)
    PROVE  Gauges(i) \subseteq In(Rest(i))
<1>1. CASE i.lab = "circuit-breaker"
  <2> DEFINE x == CircuitBreaker(i.mode, i.units)
             p1 == Inc(<<"inference", i.mode, "requested">>, x.requested)
             p2 == Inc(<<"inference", i.mode, "accepted">>, x.accepted)
             p3 == Inc(<<"shed", i.mode>>, x.shed)
             p4 == Inc(<<"failures", i.mode>>, x.failures)
             p5 == Set(<<"queue", i.mode>>, x.queue)
             p6 == Set(<<"p99", i.mode>>, x.p99)
             p7 == Set(<<"breaker">>, x.state)
  <2>1. /\ x.requested \in Nat /\ x.accepted \in Nat /\ x.shed \in Nat /\ x.failures \in Nat
        /\ x.queue \in Nat /\ x.p99 \in Nat /\ x.state \in Nat
    BY <1>1, BreakerResult
  <2>2. Rest(i) = p1 \o p2 \o p3 \o p4 \o p5 \o p6 \o p7
    BY <1>1 DEF Rest, CircuitUpdates
  <2>3. Gauges(i) = {Gauge(<<"queue", i.mode>>, x.queue), Gauge(<<"p99", i.mode>>, x.p99),
                     Gauge(<<"breaker">>, x.state)}
    BY <1>1 DEF Gauges
  <2> HIDE DEF x
  <2>4. IsQueue(p1) /\ IsQueue(p2) /\ IsQueue(p3) /\ IsQueue(p4)
    BY <2>1, IncPiece
  <2>5. IsQueue(p5) /\ IsQueue(p6) /\ IsQueue(p7)
    BY <2>1, SetPiece
  <2>6. Gauges(i) = In(p5) \union In(p6) \union In(p7)
    <3>1. /\ In(p5) = {Gauge(<<"queue", i.mode>>, x.queue)}
          /\ In(p6) = {Gauge(<<"p99", i.mode>>, x.p99)} /\ In(p7) = {Gauge(<<"breaker">>, x.state)}
      BY <2>1, SetPiece
    <3> QED BY <2>3, <3>1
  <2> HIDE DEF p1, p2, p3, p4, p5, p6, p7
  <2> DEFINE front == p1 \o p2 \o p3 \o p4
  <2>7. IsQueue(front)
    BY <2>4, QueueCat
  <2> HIDE DEF front
  <2>8. IsQueue(front \o p5) /\ In(p5) \subseteq In(front \o p5)
    BY <2>5, <2>7, QueueCat
  <2>9. IsQueue(front \o p5 \o p6) /\ In(p5) \union In(p6) \subseteq In(front \o p5 \o p6)
    BY <2>5, <2>8, QueueCat
  <2>10. In(p5) \union In(p6) \union In(p7) \subseteq In(front \o p5 \o p6 \o p7)
    BY <2>5, <2>9, QueueCat
  <2> QED BY <2>2, <2>6, <2>10 DEF front
<1>2. CASE i.lab = "sse-exhaustion"
  <2> DEFINE x == SseExhaustion(i.mode, i.units, StreamSeconds)
             p1 == Inc(<<"sse", i.mode, "requested">>, x.requested)
             p2 == Inc(<<"sse", i.mode, "accepted">>, x.accepted)
             p3 == Inc(<<"sse_rejected", i.mode>>, x.rejected)
             p4 == Set(<<"sse_active", i.mode>>, x.active)
             p5 == Set(<<"sse_orphaned", i.mode>>, x.orphaned)
             p6 == Set(<<"sse_workers", i.mode>>, x.workers)
             p7 == Set(<<"sse_memory", i.mode>>, x.memory)
             n8 == IF x.cleanup THEN 1 ELSE 0
             p8 == Inc(<<"sse_cleanup", i.mode>>, n8)
  <2>1. /\ x.requested \in Nat /\ x.accepted \in Nat /\ x.rejected \in Nat /\ x.active \in Nat
        /\ x.orphaned \in Nat /\ x.workers \in Nat /\ x.memory \in Nat /\ n8 \in Nat
    BY <1>2, SseResult
  <2>2. Rest(i) = p1 \o p2 \o p3 \o p4 \o p5 \o p6 \o p7 \o p8
    BY <1>2, <2>1, SseResult, IncIfPiece DEF Rest, SseUpdates
  <2>3. Gauges(i) = {Gauge(<<"sse_active", i.mode>>, x.active),
                     Gauge(<<"sse_orphaned", i.mode>>, x.orphaned),
                     Gauge(<<"sse_workers", i.mode>>, x.workers),
                     Gauge(<<"sse_memory", i.mode>>, x.memory)}
    BY <1>2 DEF Gauges
  <2> HIDE DEF x, n8
  <2>4. IsQueue(p1) /\ IsQueue(p2) /\ IsQueue(p3) /\ IsQueue(p8)
    BY <2>1, IncPiece
  <2>5. IsQueue(p4) /\ IsQueue(p5) /\ IsQueue(p6) /\ IsQueue(p7)
    BY <2>1, SetPiece
  <2>6. Gauges(i) = In(p4) \union In(p5) \union In(p6) \union In(p7)
    <3>1. /\ In(p4) = {Gauge(<<"sse_active", i.mode>>, x.active)}
          /\ In(p5) = {Gauge(<<"sse_orphaned", i.mode>>, x.orphaned)}
          /\ In(p6) = {Gauge(<<"sse_workers", i.mode>>, x.workers)}
          /\ In(p7) = {Gauge(<<"sse_memory", i.mode>>, x.memory)}
      BY <2>1, SetPiece
    <3> QED BY <2>3, <3>1
  <2> HIDE DEF p1, p2, p3, p4, p5, p6, p7, p8
  <2> DEFINE front == p1 \o p2 \o p3
  <2>7. IsQueue(front)
    BY <2>4, QueueCat
  <2> HIDE DEF front
  <2>8. IsQueue(front \o p4) /\ In(p4) \subseteq In(front \o p4)
    BY <2>5, <2>7, QueueCat
  <2>9. IsQueue(front \o p4 \o p5) /\ In(p4) \union In(p5) \subseteq In(front \o p4 \o p5)
    BY <2>5, <2>8, QueueCat
  <2>10. /\ IsQueue(front \o p4 \o p5 \o p6)
         /\ In(p4) \union In(p5) \union In(p6) \subseteq In(front \o p4 \o p5 \o p6)
    BY <2>5, <2>9, QueueCat
  <2>11. /\ IsQueue(front \o p4 \o p5 \o p6 \o p7)
         /\ In(p4) \union In(p5) \union In(p6) \union In(p7) \subseteq In(front \o p4 \o p5 \o p6 \o p7)
    BY <2>5, <2>10, QueueCat
  <2>12. In(p4) \union In(p5) \union In(p6) \union In(p7)
           \subseteq In(front \o p4 \o p5 \o p6 \o p7 \o p8)
    BY <2>4, <2>11, QueueCat
  <2> QED BY <2>2, <2>6, <2>12 DEF front
<1>3. CASE i.lab \notin {"circuit-breaker", "sse-exhaustion"}
  <2>1. Gauges(i) = {}
    BY <1>3, GaugeFacts
  <2> QED BY <2>1
<1> QED BY <1>1, <1>2, <1>3

\* The updates of a run: its gauges, and counters.
LEMMA UpdatesQueue ==
    ASSUME NEW i \in LabRequests, Valid(i)
    PROVE  /\ IsQueue(Updates(i)) /\ Updates(i) # <<>>
           /\ \A u \in In(Updates(i)) :
                 u \in Gauges(i) \/ (u.op = "inc" /\ u.series[1] \notin GaugeNames)
           /\ Gauges(i) \subseteq In(Updates(i))
<1> DEFINE p == LabRun(i)
           q == Rest(i)
<1>1. /\ IsQueue(p) /\ Len(p) = 1 /\ \A u \in In(p) : u.op = "inc" /\ u.series[1] = "lab_runs"
  BY LabRunPiece DEF Known
<1>2. /\ IsQueue(q)
      /\ \A u \in In(q) : u \in Gauges(i) \/ (u.op = "inc" /\ u.series[1] \in Counters(i.lab))
  BY RestKnown DEF Known
<1>3. "lab_runs" \notin GaugeNames /\ \A c \in Counters(i.lab) : c \notin GaugeNames
  BY RequestFields DEF Counters, GaugeNames, PlainLabs, UnitLabs
<1>4. Gauges(i) \subseteq In(q) /\ Updates(i) = p \o q
  BY GaugesAreSet, UpdatesSplit
<1> HIDE DEF p, q
<1>5. IsQueue(p \o q) /\ Len(p \o q) = 1 + Len(q) /\ In(p \o q) = In(p) \union In(q) /\ Len(q) \in Nat
  BY <1>1, <1>2, QueueCat, QueueFacts
<1>6. p \o q # <<>>
  <2> DEFINE c == p \o q
  <2>1. Len(c) # 0 /\ Len(<<>>) = 0
    BY <1>5
  <2> HIDE DEF c
  <2>2. c # <<>>
    BY <2>1
  <2> QED BY <2>2 DEF c
<1> QED BY <1>1, <1>2, <1>3, <1>4, <1>5, <1>6

\* Nothing is counted and nobody records.
LEMMA MetricsInitially ==
    ASSUME MetricsInit
    PROVE  MetricsInductive
<1> USE DEF MetricsInit
<1>1. RecordTypeOK
  BY DEF RecordTypeOK
<1>2. QueuesOwn
  BY DEF QueuesOwn
<1>3. \A s : s[1] # "breaker" => Get(s) = 0
  <2>1. \A s \in DOMAIN value : s = <<"breaker">>
    OBVIOUS
  <2>2. <<"breaker">>[1] = "breaker"
    OBVIOUS
  <2> QED BY <2>1, <2>2 DEF Get
<1>4. Get(<<"breaker">>) = 0
  BY DEF Get
<1>5. ASSUME NEW T, NEW P PROVE Ledger(todo, T, P, 0)
  <2> DEFINE d == [r \in LabRuns |-> 0]
  <2>1. d \in [LabRuns -> Nat] /\ \A r \in LabRuns : d[r] = 0 /\ todo[r] = <<>>
    OBVIOUS
  <2>2. 0 \in Nat
    OBVIOUS
  <2> HIDE DEF d
  <2>3. Sums(d, 0)
    BY <2>1, SumOfNothing
  <2>4. \A r \in LabRuns : Brings(todo[r], T, P, d[r], 0)
    BY <2>1, <2>2, BringsNothing
  <2> QED BY <2>1, <2>3, <2>4 DEF Ledger
<1>6. AccountsHold
  <2>2. \A t, p : t[1] # "breaker" /\ p[1] # "breaker" => Account1(t, p)
    BY <1>3, <1>5 DEF Account1
  <2>3. \A t, p, q : t[1] # "breaker" /\ p[1] # "breaker" /\ q[1] # "breaker" => Account2(t, p, q)
    BY <1>3, <1>5 DEF Account2
  <2>4. \A t, p, q, s : t[1] # "breaker" /\ p[1] # "breaker" /\ q[1] # "breaker" /\ s[1] # "breaker"
                          => Account3(t, p, q, s) /\ Account4(t, p, q, s)
    BY <1>3, <1>5 DEF Account3, Account4
  <2>5. ASSUME NEW m, NEW t
        PROVE  /\ Account2(<<"inference", m, "requested">>,
                           <<"inference", m, "accepted">>, <<"shed", m>>)
               /\ Account2(<<"sse", m, "requested">>, <<"sse", m, "accepted">>, <<"sse_rejected", m>>)
               /\ Account3(<<"cache", m, t, "lookup">>, <<"cache_hits", m, t, "miss">>,
                           <<"cache_hits", m, t, "cross_tenant">>,
                           <<"cache_hits", m, t, "tenant_scoped">>)
               /\ Account1(<<"lab_runs", m, "hardened", "blocked">>, <<"blocked", m>>)
    <3>1. /\ <<"inference", m, "requested">>[1] # "breaker"
          /\ <<"inference", m, "accepted">>[1] # "breaker"
          /\ <<"shed", m>>[1] # "breaker" /\ <<"sse", m, "requested">>[1] # "breaker"
          /\ <<"sse", m, "accepted">>[1] # "breaker" /\ <<"sse_rejected", m>>[1] # "breaker"
          /\ <<"cache", m, t, "lookup">>[1] # "breaker"
          /\ <<"cache_hits", m, t, "miss">>[1] # "breaker"
          /\ <<"cache_hits", m, t, "cross_tenant">>[1] # "breaker"
          /\ <<"cache_hits", m, t, "tenant_scoped">>[1] # "breaker"
          /\ <<"lab_runs", m, "hardened", "blocked">>[1] # "breaker"
          /\ <<"blocked", m>>[1] # "breaker"
      OBVIOUS
    <3> QED BY <2>2, <2>3, <2>4, <3>1
  <2>6. Account4(<<"lab_runs", "file-upload", "hardened", "blocked">>,
                <<"lab_runs", "file-upload", "hardened", "allowed">>,
                <<"extractions", "hardened", "pdf", "blocked">>,
                <<"extractions", "hardened", "pdf", "sandboxed">>)
    <3>1. /\ <<"lab_runs", "file-upload", "hardened", "blocked">>[1] # "breaker"
          /\ <<"lab_runs", "file-upload", "hardened", "allowed">>[1] # "breaker"
          /\ <<"extractions", "hardened", "pdf", "blocked">>[1] # "breaker"
          /\ <<"extractions", "hardened", "pdf", "sandboxed">>[1] # "breaker"
      OBVIOUS
    <3> QED BY <2>4, <3>1
  <2> QED BY <2>5, <2>6 DEF AccountsHold
<1>7. ShedBeforeOpen
  <2>1. \A r \in LabRuns : todo[r] = <<>>
    OBVIOUS
  <2>2. Cautious(<<>>)
    BY BringsNothing, CautiousElse
  <2>3. Get(<<"breaker">>) # 1
    BY <1>4
  <2> QED BY <2>1, <2>2, <2>3 DEF ShedBeforeOpen
<1>8. OverlapSeen
  BY DEF OverlapSeen, Recording
<1>9. GaugesShown
  <2>1. \A r \in LabRuns : asked[r] = NoLabRequest
    OBVIOUS
  <2>2. Gauges(NoLabRequest) = {}
    BY DEF Gauges, NoLabRequest
  <2>3. last = NoRun
    OBVIOUS
  <2> QED BY <2>1, <2>2, <2>3 DEF GaugesShown
<1> QED BY <1>1, <1>2, <1>6, <1>7, <1>8, <1>9 DEF MetricsInductive

\* Types, and the queues of the runs.
LEMMA TypesNext ==
    ASSUME RecordTypeOK, QueuesOwn, [RecordNext]_recordVars
    PROVE  RecordTypeOK' /\ QueuesOwn'
<1>1. CASE UNCHANGED recordVars
  BY <1>1 DEF recordVars, RecordTypeOK, QueuesOwn
<1>2. ASSUME NEW r \in LabRuns, NEW i \in LabRequests, SubmitLab(r, i)
      PROVE  RecordTypeOK' /\ QueuesOwn'
  <2>1. RecordTypeOK'
    BY <1>2 DEF RecordTypeOK, SubmitLab, Recording
  <2>2. CASE ~Valid(i)
    BY <1>2, <2>2 DEF QueuesOwn, SubmitLab, RecordTypeOK
  <2>3. CASE Valid(i)
    <3>1. IsQueue(Updates(i)) /\ Updates(i) # <<>>
      BY <2>3, UpdatesQueue
    <3>2. /\ stage' = [stage EXCEPT ![r] = "recording"] /\ asked' = [asked EXCEPT ![r] = i]
          /\ todo' = [todo EXCEPT ![r] = Updates(i)]
      BY <1>2, <2>3 DEF SubmitLab
    <3>3. DOMAIN todo = LabRuns /\ DOMAIN todo' = LabRuns
      BY <3>2 DEF QueuesOwn
    <3>4. ASSUME NEW s \in LabRuns
          PROVE  /\ stage'[s] # "recording" => todo'[s] = <<>>
                 /\ stage'[s] = "recording" =>
                       /\ asked'[s] \in LabRequests /\ Valid(asked'[s])
                       /\ todo'[s] # <<>> /\ IsQueue(todo'[s])
                       /\ In(todo'[s]) \subseteq In(Updates(asked'[s]))
      <4>1. CASE s = r
        <5>1. todo'[s] = Updates(i) /\ asked'[s] = i /\ stage'[s] = "recording"
          BY <3>2, <3>3, <4>1 DEF RecordTypeOK
        <5> QED BY <2>3, <3>1, <5>1
      <4>2. CASE s # r
        <5>1. todo'[s] = todo[s] /\ asked'[s] = asked[s] /\ stage'[s] = stage[s]
          BY <3>2, <3>3, <4>2 DEF RecordTypeOK
        <5> QED BY <5>1 DEF QueuesOwn
      <4> QED BY <4>1, <4>2
    <3> QED BY <2>1, <3>3, <3>4 DEF QueuesOwn
  <2> QED BY <2>1, <2>2, <2>3
<1>3. ASSUME NEW r \in LabRuns, Record(r)
      PROVE  RecordTypeOK' /\ QueuesOwn'
  <2> DEFINE u == Head(todo[r])
  <2>1. /\ stage[r] = "recording" /\ IsQueue(todo[r]) /\ todo[r] # <<>> /\ Update(u)
        /\ todo' = [todo EXCEPT ![r] = Tail(@)] /\ UNCHANGED <<asked, overlapped>>
        /\ \/ Len(todo[r]) > 1 /\ UNCHANGED <<stage, last>>
           \/ Len(todo[r]) = 1 /\ stage' = [stage EXCEPT ![r] = "done"] /\ last' = r
    BY <1>3 DEF Record, QueuesOwn
  <2>2. /\ Len(todo[r]) \in Nat /\ IsQueue(Tail(todo[r])) /\ Len(Tail(todo[r])) = Len(todo[r]) - 1
        /\ In(todo[r]) = {u} \union In(Tail(todo[r]))
    BY <2>1, QueueTail
  <2>3. u.n \in Nat /\ u.op \in {"set", "inc"}
    BY <2>1, <2>2, QueueFacts
  <2> HIDE DEF u
  <2>4. \A s \in DOMAIN value' : value'[s] \in Nat
    <3> SUFFICES ASSUME NEW s \in DOMAIN value' PROVE value'[s] \in Nat
      OBVIOUS
    <3>1. value'[s] = IF s # u.series THEN value[s]
                      ELSE IF u.op = "set" THEN u.n ELSE Get(s) + u.n
      BY <2>1 DEF Update
    <3>2. s \in DOMAIN value \/ s = u.series
      BY <2>1 DEF Update
    <3>3. Get(s) \in Nat
      BY GetNat
    <3>4. s \in DOMAIN value => value[s] \in Nat
      BY DEF RecordTypeOK
    <3> QED BY <2>3, <3>1, <3>2, <3>3, <3>4
  <2>5. RecordTypeOK'
    <3>1. stage' \in [LabRuns -> {"idle", "recording", "done", "refused"}] /\ last' \in LabRuns \union {NoRun}
      BY <2>1 DEF RecordTypeOK
    <3> QED BY <2>1, <2>4, <3>1 DEF RecordTypeOK
  <2>6. DOMAIN todo = LabRuns /\ DOMAIN todo' = LabRuns
    BY <2>1 DEF QueuesOwn
  <2>7. ASSUME NEW s \in LabRuns
        PROVE  /\ stage'[s] # "recording" => todo'[s] = <<>>
               /\ stage'[s] = "recording" =>
                     /\ asked'[s] \in LabRequests /\ Valid(asked'[s])
                     /\ todo'[s] # <<>> /\ IsQueue(todo'[s])
                     /\ In(todo'[s]) \subseteq In(Updates(asked'[s]))
    <3>1. asked'[s] = asked[s]
      BY <2>1
    <3>2. CASE s # r
      <4>1. todo'[s] = todo[s] /\ stage'[s] = stage[s]
        BY <2>1, <2>6, <3>2 DEF RecordTypeOK
      <4> QED BY <3>1, <4>1 DEF QueuesOwn
    <3>3. CASE s = r
      <4>1. todo'[s] = Tail(todo[r])
        BY <2>1, <2>6, <3>3
      <4>2. CASE Len(todo[r]) > 1
        <5>1. stage'[s] = "recording"
          <6>1. stage[r] = "recording" /\ (Len(todo[r]) = 1 \/ stage' = stage)
            BY <2>1
          <6> DEFINE n == Len(todo[r])
          <6>2. n > 1 /\ (n = 1 \/ stage' = stage)
            BY ONLY <4>2, <6>1
          <6> HIDE DEF n
          <6>3. n # 1
            BY ONLY <6>2
          <6> QED BY ONLY <3>3, <6>1, <6>2, <6>3
        <5>2. Tail(todo[r]) # <<>>
          <6> DEFINE z == Tail(todo[r])
                     n == Len(todo[r])
          <6>1. n \in Nat /\ n > 1 /\ Len(z) = n - 1
            BY <2>2, <4>2
          <6> HIDE DEF z, n
          <6>2. Len(z) # 0 /\ Len(<<>>) = 0
            BY <6>1
          <6>3. z # <<>>
            BY <6>2
          <6> QED BY <6>3 DEF z
        <5>3. asked[r] \in LabRequests /\ Valid(asked[r]) /\ In(todo[r]) \subseteq In(Updates(asked[r]))
          BY <2>1 DEF QueuesOwn
        <5> QED BY <2>2, <3>1, <3>3, <4>1, <5>1, <5>2, <5>3
      <4>3. CASE Len(todo[r]) = 1
        <5>1. stage'[s] = "done"
          BY <2>1, <3>3, <4>3 DEF RecordTypeOK
        <5>2. Tail(todo[r]) = <<>>
          <6>1. Len(Tail(todo[r])) = 0
            BY <2>2, <4>3
          <6>2. PICK S : Tail(todo[r]) \in Seq(S)
            BY <2>2 DEF IsQueue
          <6> QED BY <6>1, <6>2, EmptySeq
        <5> QED BY <4>1, <5>1, <5>2
      <4> QED BY <2>1, <4>2, <4>3
    <3> QED BY <3>2, <3>3
  <2> QED BY <2>5, <2>6, <2>7 DEF QueuesOwn
<1> QED BY <1>1, <1>2, <1>3 DEF RecordNext

----------------------------------------------------------------------------
\* Each account is kept: a run's updates leave it as it was.
LEMMA AccountsNext ==
    ASSUME RecordTypeOK, QueuesOwn, [RecordNext]_recordVars, AccountsHold
    PROVE  AccountsHold'
<1>1. ASSUME NEW m \in LabModes
      PROVE  Account2(<<"inference", m, "requested">>,
                      <<"inference", m, "accepted">>, <<"shed", m>>)'
  <2> DEFINE t == <<"inference", m, "requested">>
             p1 == <<"inference", m, "accepted">>
             p2 == <<"shed", m>>
  <2>1. t # p1 /\ t # p2 /\ p1 # p2
    OBVIOUS
  <2>2. Account2(t, p1, p2)
    BY DEF AccountsHold
  <2>3. \A i \in LabRequests : Valid(i) => Brings(Updates(i), {t}, {p1, p2}, 0, 0)
    BY InferenceAccount
  <2> HIDE DEF t, p1, p2
  <2>4. Account2(t, p1, p2)'
    BY <2>1, <2>2, <2>3, Account2Next
  <2> QED BY <2>4 DEF t, p1, p2
<1>2. ASSUME NEW m \in LabModes
      PROVE  Account2(<<"sse", m, "requested">>,
                      <<"sse", m, "accepted">>, <<"sse_rejected", m>>)'
  <2> DEFINE t == <<"sse", m, "requested">>
             p1 == <<"sse", m, "accepted">>
             p2 == <<"sse_rejected", m>>
  <2>1. t # p1 /\ t # p2 /\ p1 # p2
    OBVIOUS
  <2>2. Account2(t, p1, p2)
    BY DEF AccountsHold
  <2>3. \A i \in LabRequests : Valid(i) => Brings(Updates(i), {t}, {p1, p2}, 0, 0)
    BY SseAccount
  <2> HIDE DEF t, p1, p2
  <2>4. Account2(t, p1, p2)'
    BY <2>1, <2>2, <2>3, Account2Next
  <2> QED BY <2>4 DEF t, p1, p2
<1>3. ASSUME NEW m \in LabModes, NEW h \in CacheTenants
      PROVE  Account3(<<"cache", m, h, "lookup">>, <<"cache_hits", m, h, "miss">>,
                      <<"cache_hits", m, h, "cross_tenant">>,
                      <<"cache_hits", m, h, "tenant_scoped">>)'
  <2> DEFINE t == <<"cache", m, h, "lookup">>
             p1 == <<"cache_hits", m, h, "miss">>
             p2 == <<"cache_hits", m, h, "cross_tenant">>
             p3 == <<"cache_hits", m, h, "tenant_scoped">>
  <2>1. t # p1 /\ t # p2 /\ t # p3 /\ p1 # p2 /\ p1 # p3 /\ p2 # p3
    OBVIOUS
  <2>2. Account3(t, p1, p2, p3)
    BY DEF AccountsHold
  <2>3. \A i \in LabRequests : Valid(i) => Brings(Updates(i), {t}, {p1, p2, p3}, 0, 0)
    BY CacheAccount
  <2> HIDE DEF t, p1, p2, p3
  <2>4. Account3(t, p1, p2, p3)'
    BY <2>1, <2>2, <2>3, Account3Next
  <2> QED BY <2>4 DEF t, p1, p2, p3
<1>4. Account4(<<"lab_runs", "file-upload", "hardened", "blocked">>,
               <<"lab_runs", "file-upload", "hardened", "allowed">>,
               <<"extractions", "hardened", "pdf", "blocked">>,
               <<"extractions", "hardened", "pdf", "sandboxed">>)'
  <2> DEFINE t1 == <<"lab_runs", "file-upload", "hardened", "blocked">>
             t2 == <<"lab_runs", "file-upload", "hardened", "allowed">>
             p1 == <<"extractions", "hardened", "pdf", "blocked">>
             p2 == <<"extractions", "hardened", "pdf", "sandboxed">>
  <2>1. t1 # t2 /\ t1 # p1 /\ t1 # p2 /\ t2 # p1 /\ t2 # p2 /\ p1 # p2
    OBVIOUS
  <2>2. Account4(t1, t2, p1, p2)
    BY DEF AccountsHold
  <2>3. \A i \in LabRequests : Valid(i) => Brings(Updates(i), {t1, t2}, {p1, p2}, 0, 0)
    BY FileAccount
  <2> HIDE DEF t1, t2, p1, p2
  <2>4. Account4(t1, t2, p1, p2)'
    BY <2>1, <2>2, <2>3, Account4Next
  <2> QED BY <2>4 DEF t1, t2, p1, p2
<1>5. ASSUME NEW l \in {"tool-router", "redis", "authz", "file-upload"}
      PROVE  Account1(<<"lab_runs", l, "hardened", "blocked">>, <<"blocked", l>>)'
  <2> DEFINE t == <<"lab_runs", l, "hardened", "blocked">>
             p == <<"blocked", l>>
  <2>1. t # p
    OBVIOUS
  <2>2. Account1(t, p)
    BY DEF AccountsHold
  <2>3. \A i \in LabRequests : Valid(i) => Brings(Updates(i), {t}, {p}, 0, 0)
    BY BlockedAccount
  <2> HIDE DEF t, p
  <2>4. Account1(t, p)'
    BY <2>1, <2>2, <2>3, Account1Next
  <2> QED BY <2>4 DEF t, p
<1> QED BY <1>1, <1>2, <1>3, <1>4, <1>5 DEF AccountsHold

\* The updates that are left are made of a request's.
LEMMA LeftOfRequest ==
    ASSUME QueuesOwn, NEW r \in LabRuns, stage[r] = "recording", NEW u \in In(todo[r])
    PROVE  /\ asked[r] \in LabRequests /\ Valid(asked[r])
           /\ u \in Gauges(asked[r]) \/ (u.op = "inc" /\ u.series[1] \notin GaugeNames)
<1>1. asked[r] \in LabRequests /\ Valid(asked[r]) /\ u \in In(Updates(asked[r]))
  BY DEF QueuesOwn
<1> QED BY <1>1, UpdatesQueue

\* Shed work units stay counted, and the gauge is set by a run that has counted some.
LEMMA ShedNext ==
    ASSUME RecordTypeOK, QueuesOwn, [RecordNext]_recordVars, ShedBeforeOpen
    PROVE  ShedBeforeOpen'
<1> DEFINE h == <<"shed", "hardened">>
           o == <<"breaker">>
<1>1. h[1] \notin GaugeNames /\ h # o /\ h[1] = "shed"
  BY DEF GaugeNames
<1>2. Shed = Get(h) /\ Get(h) \in Nat
  BY GetNat DEF Shed
<1>3. /\ Get(h) > 0 \/ \A r \in LabRuns : Cautious(todo[r])
      /\ Get(o) = 1 => Get(h) > 0
  BY <1>2 DEF ShedBeforeOpen
<1>4. DOMAIN todo = LabRuns
  BY DEF QueuesOwn
<1>5. SUFFICES /\ Get(h)' > 0 \/ \A r \in LabRuns : Cautious(todo'[r])
               /\ Get(o)' = 1 => Get(h)' > 0
  BY DEF ShedBeforeOpen, Shed
<1> HIDE DEF h, o
<1>6. ASSUME value' = value, NEW r \in LabRuns, NEW i \in LabRequests, Valid(i),
             todo' = [todo EXCEPT ![r] = Updates(i)]
      PROVE  /\ Get(h)' > 0 \/ \A s \in LabRuns : Cautious(todo'[s])
             /\ Get(o)' = 1 => Get(h)' > 0
  <2>1. Get(h)' = Get(h) /\ Get(o)' = Get(o)
    BY <1>6 DEF Get
  <2>2. Cautious(Updates(i))
    BY <1>6, UpdatesCautious
  <2>3. \A s \in LabRuns : todo'[s] \in {todo[s], Updates(i)}
    BY <1>4, <1>6
  <2> QED BY <1>3, <2>1, <2>2, <2>3
<1>7. ASSUME NEW r \in LabRuns, stage[r] = "recording", IsQueue(todo[r]), todo[r] # <<>>,
             Update(Head(todo[r])), todo' = [todo EXCEPT ![r] = Tail(@)]
      PROVE  /\ Get(h)' > 0 \/ \A s \in LabRuns : Cautious(todo'[s])
             /\ Get(o)' = 1 => Get(h)' > 0
  <2> DEFINE u == Head(todo[r])
  <2>1. u \in In(todo[r]) /\ u.n \in Nat /\ u.op \in {"set", "inc"}
    BY <1>7, QueueTail, QueueFacts
  <2>2. u.series = h => u.op = "inc"
    <3>1. /\ asked[r] \in LabRequests
          /\ u \in Gauges(asked[r]) \/ (u.op = "inc" /\ u.series[1] \notin GaugeNames)
      BY <1>7, <2>1, LeftOfRequest
    <3> HIDE DEF u
    <3> QED BY <1>1, <3>1, GaugeFacts
  <2>3. /\ Get(h)' = IF h # u.series THEN Get(h)
                       ELSE IF u.op = "set" THEN u.n ELSE Get(h) + u.n
        /\ Get(o)' = IF o # u.series THEN Get(o)
                       ELSE IF u.op = "set" THEN u.n ELSE Get(o) + u.n
    BY <1>7, GetUpdate
  <2>4. Cautious(todo[r]) => ~Opens(u) /\ (Sheds(u) \/ Cautious(Tail(todo[r])))
    BY <1>7, CautiousTail
  <2>5. \A s \in LabRuns : todo'[s] = IF s = r THEN Tail(todo[r]) ELSE todo[s]
    BY <1>4, <1>7
  <2>6. u.series = o => u.op = "set"
    <3>1. /\ asked[r] \in LabRequests
          /\ u \in Gauges(asked[r]) \/ (u.op = "inc" /\ u.series[1] \notin GaugeNames)
      BY <1>7, <2>1, LeftOfRequest
    <3>2. o[1] \in GaugeNames
      BY DEF GaugeNames, o
    <3> HIDE DEF u
    <3> QED BY <3>1, <3>2, GaugeFacts
  <2> HIDE DEF u
  <2>7. CASE Get(h) > 0
    <3>1. Get(h)' > 0
      BY <1>2, <2>1, <2>2, <2>3, <2>7
    <3> QED BY <3>1
  <2>8. CASE ~(Get(h) > 0)
    <3>1. \A s \in LabRuns : Cautious(todo[s])
      BY <1>3, <2>8
    <3>2. Sheds(u) => Get(h)' > 0
      BY <1>2, <2>1, <2>3 DEF Sheds, h
    <3>3. ~Sheds(u) => \A s \in LabRuns : Cautious(todo'[s])
      BY <2>4, <2>5, <3>1
    <3>4. Get(o)' # 1
      <4>1. Get(o) # 1
        BY <1>3, <2>8
      <4>2. u.series = o => u.n # 1
        BY <2>4, <2>6, <3>1 DEF Opens, o
      <4> QED BY <2>3, <2>6, <4>1, <4>2
    <3> QED BY <3>2, <3>3, <3>4
  <2> QED BY <2>7, <2>8
<1>8. CASE value' = value /\ todo' = todo
  <2>1. Get(h)' = Get(h) /\ Get(o)' = Get(o)
    BY <1>8 DEF Get
  <2> QED BY <1>3, <1>8, <2>1
<1> QED BY <1>6, <1>7, <1>8, StepKinds

\* A run that starts to record while others do is known to them, and they to it.
LEMMA OverlapNext ==
    ASSUME RecordTypeOK, OverlapSeen, [RecordNext]_recordVars
    PROVE  OverlapSeen'
<1>1. CASE UNCHANGED recordVars
  BY <1>1 DEF recordVars, OverlapSeen, Recording
<1>2. ASSUME NEW r \in LabRuns, NEW i \in LabRequests, SubmitLab(r, i) PROVE OverlapSeen'
  <2>1. Recording' \subseteq Recording \union {r} /\ overlapped \subseteq overlapped'
    BY <1>2 DEF SubmitLab, Recording, RecordTypeOK
  <2>2. r \in Recording' /\ Recording # {} =>
           overlapped' = overlapped \union Recording \union {r}
    BY <1>2 DEF SubmitLab, Recording, RecordTypeOK
  <2> QED BY <2>1, <2>2 DEF OverlapSeen
<1>3. ASSUME NEW r \in LabRuns, Record(r) PROVE OverlapSeen'
  <2>1. Recording' \subseteq Recording /\ overlapped' = overlapped
    BY <1>3 DEF Record, Recording, RecordTypeOK
  <2> QED BY <2>1 DEF OverlapSeen
<1> QED BY <1>1, <1>2, <1>3 DEF RecordNext

\* The gauges of a run that records alone are its own.
LEMMA GaugesNext ==
    ASSUME RecordTypeOK, QueuesOwn, OverlapSeen, GaugesShown, [RecordNext]_recordVars
    PROVE  GaugesShown'
<1>1. CASE UNCHANGED recordVars
  BY <1>1 DEF recordVars, GaugesShown, Recording, Get
<1>2. DOMAIN todo = LabRuns
  BY DEF QueuesOwn
<1>3. ASSUME NEW r \in LabRuns, NEW i \in LabRequests, SubmitLab(r, i) PROVE GaugesShown'
  <2>1. \A s : Get(s)' = Get(s)
    BY <1>3 DEF SubmitLab, Get
  <2>2. /\ asked' = [asked EXCEPT ![r] = i] /\ last' = last /\ stage[r] = "idle"
        /\ overlapped \subseteq overlapped'
    BY <1>3 DEF SubmitLab
  <2>3. ASSUME NEW s \in LabRuns, s \notin overlapped',
               stage'[s] = "recording" \/ (last' # NoRun /\ s = last' /\ Recording' = {}),
               NEW g \in Gauges(asked'[s])
        PROVE  g \in In(todo'[s]) \/ Get(g.series)' = g.n
    <3>1. CASE s = r /\ Valid(i)
      <4>1. asked'[s] = i /\ todo'[s] = Updates(i)
        BY <1>2, <1>3, <2>2, <3>1 DEF SubmitLab, RecordTypeOK
      <4> QED BY <2>3, <3>1, <4>1, UpdatesQueue
    <3>2. CASE s = r /\ ~Valid(i)
      <4>1. stage'[s] = "refused" /\ stage[s] = "idle"
        BY <1>3, <2>2, <3>2 DEF SubmitLab, RecordTypeOK
      <4>2. s # last
        BY <2>2, <2>3, <4>1 DEF GaugesShown
      <4> QED BY <2>2, <2>3, <4>1, <4>2
    <3>3. CASE s # r
      <4>1. asked'[s] = asked[s] /\ todo'[s] = todo[s] /\ stage'[s] = stage[s]
        BY <1>2, <1>3, <2>2, <3>3 DEF SubmitLab, RecordTypeOK
      <4>2. Recording' = {} => Recording = {}
        BY <1>3 DEF SubmitLab, Recording, RecordTypeOK
      <4> QED BY <2>1, <2>2, <2>3, <4>1, <4>2 DEF GaugesShown
    <3> QED BY <3>1, <3>2, <3>3
  <2>4. last' # NoRun => stage'[last'] = "done"
    BY <1>3, <2>2 DEF GaugesShown, SubmitLab, RecordTypeOK
  <2> QED BY <2>3, <2>4 DEF GaugesShown
<1>4. ASSUME NEW r \in LabRuns, Record(r) PROVE GaugesShown'
  <2> DEFINE u == Head(todo[r])
  <2>1. /\ stage[r] = "recording" /\ IsQueue(todo[r]) /\ todo[r] # <<>> /\ Update(u)
        /\ todo' = [todo EXCEPT ![r] = Tail(@)] /\ UNCHANGED <<asked, overlapped>>
        /\ \/ UNCHANGED <<stage, last>>
           \/ stage' = [stage EXCEPT ![r] = "done"] /\ last' = r
    BY <1>4 DEF Record, QueuesOwn
  <2>2. u \in In(todo[r]) /\ In(todo[r]) = {u} \union In(Tail(todo[r]))
    BY <2>1, QueueTail
  <2>3. /\ asked[r] \in LabRequests
        /\ u \in Gauges(asked[r]) \/ (u.op = "inc" /\ u.series[1] \notin GaugeNames)
    BY <2>1, <2>2, LeftOfRequest
  <2> HIDE DEF u
  <2>4. ASSUME NEW s \in LabRuns, s \notin overlapped',
               stage'[s] = "recording" \/ (last' # NoRun /\ s = last' /\ Recording' = {}),
               NEW g \in Gauges(asked'[s])
        PROVE  g \in In(todo'[s]) \/ Get(g.series)' = g.n
    <3>1. s = r
      <4> SUFFICES ASSUME s # r PROVE FALSE
        OBVIOUS
      <4>1. r \in Recording /\ overlapped' = overlapped
        BY <2>1 DEF Recording
      <4>2. stage'[s] = stage[s]
        BY <2>1 DEF RecordTypeOK
      <4>3. CASE stage'[s] = "recording"
        <5>1. s \in Recording
          BY <4>2, <4>3 DEF Recording
        <5> QED BY <2>4, <4>1, <5>1 DEF OverlapSeen
      <4>4. CASE last' # NoRun /\ s = last' /\ Recording' = {}
        <5>1. UNCHANGED stage
          BY <2>1, <4>4
        <5> QED BY <4>1, <4>4, <5>1 DEF Recording
      <4> QED BY <2>4, <4>3, <4>4
    <3>2. todo'[s] = Tail(todo[r]) /\ asked'[s] = asked[r]
      BY <1>2, <2>1, <3>1
    <3>3. g \in In(todo[r]) \/ Get(g.series) = g.n
      BY <2>1, <2>4, <3>1, <3>2 DEF GaugesShown
    <3>4. Get(g.series)' = IF g.series # u.series THEN Get(g.series)
                             ELSE IF u.op = "set" THEN u.n ELSE Get(g.series) + u.n
      BY <2>1, GetUpdate
    <3>5. g.series = u.series => u = g /\ u.op = "set"
      BY <2>3, <2>4, <3>2, GaugeFacts
    <3> QED BY <2>2, <3>2, <3>3, <3>4, <3>5
  <2>5. last' # NoRun => stage'[last'] = "done"
    BY <2>1 DEF GaugesShown, RecordTypeOK
  <2> QED BY <2>4, <2>5 DEF GaugesShown
<1> QED BY <1>1, <1>3, <1>4 DEF RecordNext

\* Every part of the invariant is kept.
LEMMA MetricsInductiveStep ==
    ASSUME MetricsInductive, [RecordNext]_recordVars
    PROVE  MetricsInductive'
  BY TypesNext, AccountsNext, ShedNext, OverlapNext, GaugesNext DEF MetricsInductive

\* A total, its parts, and what is still owed.
LEMMA Owed ==
    ASSUME QueuesOwn, NEW T, NEW P, NEW total \in Nat, NEW parts \in Nat,
           Ledger(todo, T, P, total - parts)
    PROVE  MadeUpOf(total, parts)
<1>1. PICK d \in [LabRuns -> Nat] :
         Sums(d, total - parts) /\ \A r \in LabRuns : Brings(todo[r], T, P, d[r], 0)
  BY DEF Ledger
<1>2. total - parts \in Nat
  BY <1>1, SumIsNat
<1>3. ASSUME Recording = {} PROVE total - parts = 0
  <2>1. \A r \in LabRuns : todo[r] = <<>>
    BY <1>3 DEF Recording, QueuesOwn
  <2>2. \A r \in LabRuns : Brings(<<>>, T, P, d[r], 0)
    BY <1>1, <2>1
  <2>3. \A a, b : Brings(<<>>, T, P, a, b) => a = b
    BY BringsNothing
  <2>4. \A r \in LabRuns : d[r] = 0
    BY <2>2, <2>3
  <2> QED BY <1>1, <2>4, SumIsNat
<1> QED BY <1>2, <1>3 DEF MadeUpOf

\* What is owed is not negative, and nothing once nobody records.
LEMMA InductiveAccounted ==
    ASSUME MetricsInductive
    PROVE  RegistryAccounted
<1> USE DEF MetricsInductive
<1>1. \A s : Get(s) \in Nat
  BY GetNat
<1>2. ASSUME NEW t, NEW p, Account1(t, p) PROVE MadeUpOf(Get(t), Get(p))
  <2> DEFINE total == Get(t)
             parts == Get(p)
  <2>1. total \in Nat /\ parts \in Nat
    BY <1>1
  <2>2. Ledger(todo, {t}, {p}, total - parts)
    BY <1>2 DEF Account1
  <2> HIDE DEF total, parts
  <2>3. MadeUpOf(total, parts)
    BY <2>1, <2>2, Owed
  <2> QED BY <2>3 DEF total, parts
<1>3. ASSUME NEW t, NEW p, NEW q, Account2(t, p, q)
      PROVE  MadeUpOf(Get(t), Get(p) + Get(q))
  <2> DEFINE total == Get(t)
             parts == Get(p) + Get(q)
  <2>1. total \in Nat /\ parts \in Nat
    BY <1>1
  <2>2. Ledger(todo, {t}, {p, q}, total - parts)
    BY <1>3 DEF Account2
  <2> HIDE DEF total, parts
  <2>3. MadeUpOf(total, parts)
    BY <2>1, <2>2, Owed
  <2> QED BY <2>3 DEF total, parts
<1>4. ASSUME NEW t, NEW p, NEW q, NEW s, Account3(t, p, q, s)
      PROVE  MadeUpOf(Get(t), Get(p) + Get(q) + Get(s))
  <2> DEFINE total == Get(t)
             parts == Get(p) + Get(q) + Get(s)
  <2>1. total \in Nat /\ parts \in Nat
    BY <1>1
  <2>2. Ledger(todo, {t}, {p, q, s}, total - parts)
    BY <1>4 DEF Account3
  <2> HIDE DEF total, parts
  <2>3. MadeUpOf(total, parts)
    BY <2>1, <2>2, Owed
  <2> QED BY <2>3 DEF total, parts
<1>5. ASSUME NEW t, NEW v, NEW p, NEW q, Account4(t, v, p, q)
      PROVE  MadeUpOf(Get(t) + Get(v), Get(p) + Get(q))
  <2> DEFINE total == Get(t) + Get(v)
             parts == Get(p) + Get(q)
  <2>1. total \in Nat /\ parts \in Nat
    BY <1>1
  <2>2. Ledger(todo, {t, v}, {p, q}, total - parts)
    BY <1>5 DEF Account4
  <2> HIDE DEF total, parts
  <2>3. MadeUpOf(total, parts)
    BY <2>1, <2>2, Owed
  <2> QED BY <2>3 DEF total, parts
<1>6. Get(<<"breaker">>) = 1 => Get(<<"shed", "hardened">>) > 0
  BY DEF ShedBeforeOpen, Shed
<1> QED BY <1>2, <1>3, <1>4, <1>5, <1>6 DEF AccountsHold, RegistryAccounted

\* The last run has nothing left to set.
LEMMA InductiveGauges ==
    ASSUME MetricsInductive
    PROVE  GaugesOfLastRun
<1> SUFFICES ASSUME last # NoRun, Recording = {}, last \notin overlapped
             PROVE  LET i == asked[last] IN
        /\ i.lab = "circuit-breaker" =>
             LET x == CircuitBreaker(i.mode, i.units) IN
             /\ Get(<<"queue", i.mode>>) = x.queue
             /\ Get(<<"p99", i.mode>>) = x.p99
             /\ Get(<<"breaker">>) = x.state
        /\ i.lab = "sse-exhaustion" =>
             LET x == SseExhaustion(i.mode, i.units, StreamSeconds) IN
             /\ Get(<<"sse_active", i.mode>>) = x.active
             /\ Get(<<"sse_orphaned", i.mode>>) = x.orphaned
             /\ Get(<<"sse_memory", i.mode>>) = x.memory
  BY DEF GaugesOfLastRun
<1> DEFINE i == asked[last]
<1>1. last \in LabRuns
  BY DEF MetricsInductive, RecordTypeOK
<1>2. todo[last] = <<>>
  BY <1>1 DEF MetricsInductive, QueuesOwn, Recording
<1>3. \A g \in Gauges(i) : Get(g.series) = g.n
  BY <1>1, <1>2, BringsNothing DEF MetricsInductive, GaugesShown
<1> HIDE DEF i
<1>4. ASSUME NEW s, NEW n, Gauge(s, n) \in Gauges(i) PROVE Get(s) = n
  BY <1>3, <1>4 DEF Gauge
<1>5. ASSUME i.lab = "circuit-breaker" PROVE
         LET x == CircuitBreaker(i.mode, i.units) IN
             /\ Get(<<"queue", i.mode>>) = x.queue
             /\ Get(<<"p99", i.mode>>) = x.p99
             /\ Get(<<"breaker">>) = x.state
  <2> DEFINE x == CircuitBreaker(i.mode, i.units)
  <2>1. Gauges(i) = {Gauge(<<"queue", i.mode>>, x.queue), Gauge(<<"p99", i.mode>>, x.p99),
                     Gauge(<<"breaker">>, x.state)}
    BY <1>5 DEF Gauges
  <2> HIDE DEF x
  <2>2. /\ Get(<<"queue", i.mode>>) = x.queue /\ Get(<<"p99", i.mode>>) = x.p99
        /\ Get(<<"breaker">>) = x.state
    BY <1>4, <2>1
  <2> QED BY <2>2 DEF x
<1>6. ASSUME i.lab = "sse-exhaustion" PROVE
         LET x == SseExhaustion(i.mode, i.units, StreamSeconds) IN
             /\ Get(<<"sse_active", i.mode>>) = x.active
             /\ Get(<<"sse_orphaned", i.mode>>) = x.orphaned
             /\ Get(<<"sse_memory", i.mode>>) = x.memory
  <2> DEFINE x == SseExhaustion(i.mode, i.units, StreamSeconds)
  <2>1. Gauges(i) = {Gauge(<<"sse_active", i.mode>>, x.active),
                     Gauge(<<"sse_orphaned", i.mode>>, x.orphaned),
                     Gauge(<<"sse_workers", i.mode>>, x.workers),
                     Gauge(<<"sse_memory", i.mode>>, x.memory)}
    BY <1>6 DEF Gauges
  <2> HIDE DEF x
  <2>2. /\ Get(<<"sse_active", i.mode>>) = x.active
        /\ Get(<<"sse_orphaned", i.mode>>) = x.orphaned
        /\ Get(<<"sse_memory", i.mode>>) = x.memory
    BY <1>4, <2>1
  <2> QED BY <2>2 DEF x
<1> QED BY <1>5, <1>6 DEF i

----------------------------------------------------------------------------
\* A step of the metrics: the scrape reads, or the runs record.
LEMMA ScrapeSteps ==
    ASSUME [MetricsNext]_metricsVars, quiet \in BOOLEAN
    PROVE  /\ [RecordNext]_recordVars
           /\ \/ UNCHANGED <<seen, shown>> /\ quiet' \in BOOLEAN /\ (quiet' => quiet)
              \/ BeginScrape
              \/ ReadSeries
<1>1. CASE UNCHANGED metricsVars
  BY <1>1 DEF metricsVars, recordVars, scrapeVars
<1>2. ASSUME NEW r \in LabRuns, NEW i \in LabRequests, SubmitLab(r, i)
      PROVE  RecordNext /\ UNCHANGED <<seen, shown>> /\ quiet' \in BOOLEAN /\ (quiet' => quiet)
  <2>1. quiet' = quiet \/ quiet' = (quiet /\ seen = 4)
    BY <1>2 DEF SubmitLab
  <2>2. ASSUME quiet = TRUE PROVE quiet' \in BOOLEAN /\ (quiet' => quiet)
    BY <2>1, <2>2, Zenon
  <2>3. ASSUME quiet = FALSE PROVE quiet' \in BOOLEAN /\ (quiet' => quiet)
    BY <2>1, <2>3, Zenon
  <2>4. quiet = TRUE \/ quiet = FALSE
    BY Zenon
  <2>5. quiet' \in BOOLEAN /\ (quiet' => quiet)
    BY <2>2, <2>3, <2>4, Zenon
  <2> QED BY <1>2, <2>5 DEF SubmitLab, RecordNext
<1>3. ASSUME NEW r \in LabRuns, Record(r)
      PROVE  RecordNext /\ UNCHANGED <<seen, shown>> /\ quiet' \in BOOLEAN /\ (quiet' => quiet)
  BY <1>3 DEF Record, RecordNext
<1>4. CASE BeginScrape \/ ReadSeries
  BY <1>4 DEF BeginScrape, ReadSeries, recordVars
<1> QED BY <1>1, <1>2, <1>3, <1>4 DEF MetricsNext, RecordNext

\* The other three series of the circuit breaker.
Breaker == Get(<<"breaker">>)
Requested == Get(<<"inference", "hardened", "requested">>)
Accepted == Get(<<"inference", "hardened", "accepted">>)

\* What a scrape has read: no more than is counted now, and a breaker that was open when
\* it was read had shed work counted by then.  While nobody records, all of it is still
\* so; a scrape that is over has kept it.
ScrapeKept ==
    /\ shown[2] <= Requested /\ shown[3] <= Accepted /\ shown[4] <= Shed
    /\ shown[1] = 1 => Shed > 0
    /\ seen < 4 /\ quiet =>
          /\ Recording = {}
          /\ seen > 1 => shown[2] = Requested
          /\ seen > 2 => shown[3] = Accepted
    /\ seen = 4 /\ quiet => shown[3] + shown[4] = shown[2]
    /\ seen = 4 /\ shown[1] = 1 => shown[4] > 0

\* Counters only grow.
LEMMA CountersGrow ==
    ASSUME RecordTypeOK, QueuesOwn, [RecordNext]_recordVars, NEW s, s[1] \notin GaugeNames
    PROVE  Get(s) \in Nat /\ Get(s)' \in Nat /\ Get(s) <= Get(s)'
<1>1. Get(s) \in Nat
  BY GetNat
<1>2. CASE value' = value
  BY <1>1, <1>2 DEF Get
<1>3. ASSUME NEW r \in LabRuns, stage[r] = "recording", todo[r] # <<>>, IsQueue(todo[r]),
             Update(Head(todo[r]))
      PROVE  Get(s)' \in Nat /\ Get(s) <= Get(s)'
  <2> DEFINE u == Head(todo[r])
  <2>1. u \in In(todo[r])
    BY <1>3, QueueTail
  <2>2. u.n \in Nat
    BY <1>3, <2>1, QueueFacts
  <2>3. /\ asked[r] \in LabRequests
        /\ u \in Gauges(asked[r]) \/ (u.op = "inc" /\ u.series[1] \notin GaugeNames)
    BY <1>3, <2>1, LeftOfRequest
  <2>4. Update(u)
    BY <1>3
  <2> HIDE DEF u
  <2>5. Get(s)' = IF s # u.series THEN Get(s) ELSE IF u.op = "set" THEN u.n ELSE Get(s) + u.n
    BY <2>4, GetUpdate
  <2>6. u.series = s => u.op = "inc"
    BY <2>3, GaugeFacts
  <2> QED BY <1>1, <2>2, <2>5, <2>6
<1> QED BY <1>1, <1>2, <1>3, StepKinds

\* The counters of the circuit breaker.
LEMMA BreakerCountersGrow ==
    ASSUME RecordTypeOK, QueuesOwn, [RecordNext]_recordVars
    PROVE  /\ Requested \in Nat /\ Requested' \in Nat /\ Requested <= Requested'
           /\ Accepted \in Nat /\ Accepted' \in Nat /\ Accepted <= Accepted'
           /\ Shed \in Nat /\ Shed' \in Nat /\ Shed <= Shed'
<1>1. /\ <<"inference", "hardened", "requested">>[1] \notin GaugeNames
      /\ <<"inference", "hardened", "accepted">>[1] \notin GaugeNames
      /\ <<"shed", "hardened">>[1] \notin GaugeNames
  BY DEF GaugeNames
<1> QED BY <1>1, CountersGrow DEF Requested, Accepted, Shed

\* What a reading adds.
LEMMA Readings ==
    ASSUME ReadSeries, MetricsTypeOK
    PROVE  /\ seen \in 0 .. 3 /\ seen' = seen + 1
           /\ shown' = [shown EXCEPT ![seen + 1] =
                           IF seen = 0 THEN Breaker ELSE IF seen = 1 THEN Requested
                           ELSE IF seen = 2 THEN Accepted ELSE Shed]
<1>1. /\ Get(ScrapeOrder[1]) = Breaker /\ Get(ScrapeOrder[2]) = Requested
      /\ Get(ScrapeOrder[3]) = Accepted /\ Get(ScrapeOrder[4]) = Shed
  BY DEF ScrapeOrder, Breaker, Requested, Accepted, Shed
<1>2. seen \in 0 .. 3 /\ seen' = seen + 1
  BY DEF ReadSeries, MetricsTypeOK
<1>3. shown' = [shown EXCEPT ![seen + 1] = Get(ScrapeOrder[seen + 1])]
  BY DEF ReadSeries
<1>4. Get(ScrapeOrder[seen + 1]) = IF seen = 0 THEN Breaker ELSE IF seen = 1 THEN Requested
                                   ELSE IF seen = 2 THEN Accepted ELSE Shed
  <2>1. seen = 0 \/ seen = 1 \/ seen = 2 \/ seen = 3
    BY <1>2
  <2>2. CASE seen = 0
    <3>1. seen + 1 = 1
      BY <2>2
    <3> QED BY <1>1, <2>2, <3>1
  <2>3. CASE seen = 1
    <3>1. seen + 1 = 2
      BY <2>3
    <3> QED BY <1>1, <2>3, <3>1
  <2>4. CASE seen = 2
    <3>1. seen + 1 = 3
      BY <2>4
    <3> QED BY <1>1, <2>4, <3>1
  <2>5. CASE seen = 3
    <3>1. seen + 1 = 4
      BY <2>5
    <3> QED BY <1>1, <2>5, <3>1
  <2> QED BY <2>1, <2>2, <2>3, <2>4, <2>5
<1> QED BY <1>2, <1>3, <1>4

\* The registry's account of the work units.
LEMMA WorkAccounted ==
    ASSUME MetricsInductive
    PROVE  /\ Accepted + Shed <= Requested
           /\ Recording = {} => Accepted + Shed = Requested
           /\ Breaker = 1 => Shed > 0
           /\ Breaker \in Nat /\ Requested \in Nat /\ Accepted \in Nat /\ Shed \in Nat
<1>1. RegistryAccounted
  BY InductiveAccounted
<1>2. "hardened" \in LabModes
  BY DEF LabModes
<1>3. MadeUpOf(Requested, Accepted + Shed) /\ (Breaker = 1 => Shed > 0)
  BY <1>1, <1>2 DEF RegistryAccounted, Requested, Accepted, Shed, Breaker
<1>4. Breaker \in Nat /\ Requested \in Nat /\ Accepted \in Nat /\ Shed \in Nat
  BY GetNat DEF MetricsInductive, Requested, Accepted, Shed, Breaker
<1> QED BY <1>3, <1>4 DEF MadeUpOf

\* The invariant of registry and scrape.
ScrapeInductive == MetricsInductive /\ MetricsTypeOK /\ ScrapeKept

\* The first scrape is over and has seen nothing.
LEMMA ScrapeInitially ==
    ASSUME MetricsInit
    PROVE  ScrapeInductive
<1>1. MetricsInductive
  BY MetricsInitially
<1>2. /\ seen = 4 /\ shown[1] = 0 /\ shown[2] = 0 /\ shown[3] = 0 /\ shown[4] = 0
      /\ shown \in [1 .. 4 -> Nat] /\ quiet \in BOOLEAN
  BY DEF MetricsInit
<1>3. MetricsTypeOK
  BY <1>1, <1>2 DEF MetricsTypeOK, MetricsInductive
<1>4. Requested \in Nat /\ Accepted \in Nat /\ Shed \in Nat
  BY <1>1, WorkAccounted
<1>5. ScrapeKept
  BY <1>2, <1>4 DEF ScrapeKept
<1> QED BY <1>1, <1>3, <1>5 DEF ScrapeInductive

\* A scrape is read from counters that grow.
LEMMA ScrapeStep ==
    ASSUME ScrapeInductive, [MetricsNext]_metricsVars
    PROVE  ScrapeInductive'
<1> USE DEF ScrapeInductive
<1>0. quiet \in BOOLEAN
  BY DEF MetricsTypeOK
<1>1. [RecordNext]_recordVars
  BY <1>0, ScrapeSteps
<1>2. MetricsInductive'
  BY <1>1, MetricsInductiveStep
<1>3. /\ Requested \in Nat /\ Requested' \in Nat /\ Requested <= Requested'
      /\ Accepted \in Nat /\ Accepted' \in Nat /\ Accepted <= Accepted'
      /\ Shed \in Nat /\ Shed' \in Nat /\ Shed <= Shed'
  BY <1>1, BreakerCountersGrow DEF MetricsInductive
<1>4. /\ Recording = {} => Accepted + Shed = Requested
      /\ Breaker = 1 => Shed > 0
      /\ Breaker \in Nat
  BY WorkAccounted
<1>5. shown \in [1 .. 4 -> Nat] /\ seen \in 0 .. 4 /\ RecordTypeOK'
  BY <1>2 DEF MetricsTypeOK, MetricsInductive
<1>6. CASE ReadSeries
  <2>1. /\ seen \in 0 .. 3 /\ seen' = seen + 1 /\ quiet' = quiet
        /\ shown' = [shown EXCEPT ![seen + 1] =
                           IF seen = 0 THEN Breaker ELSE IF seen = 1 THEN Requested
                           ELSE IF seen = 2 THEN Accepted ELSE Shed]
    BY <1>6, Readings DEF ReadSeries
  <2>2. Recording' = Recording /\ Requested' = Requested /\ Accepted' = Accepted /\ Shed' = Shed
    BY <1>6 DEF ReadSeries, recordVars, Recording, Requested, Accepted, Shed, Get
  <2>3. MetricsTypeOK'
    BY <1>3, <1>4, <1>5, <2>1 DEF MetricsTypeOK
  <2>4. ScrapeKept'
    <3>1. CASE seen = 0
      BY <1>3, <1>4, <1>5, <2>1, <2>2, <3>1 DEF ScrapeKept
    <3>2. CASE seen = 1
      BY <1>3, <1>4, <1>5, <2>1, <2>2, <3>2 DEF ScrapeKept
    <3>3. CASE seen = 2
      BY <1>3, <1>4, <1>5, <2>1, <2>2, <3>3 DEF ScrapeKept
    <3>4. CASE seen = 3
      BY <1>3, <1>4, <1>5, <2>1, <2>2, <3>4 DEF ScrapeKept
    <3> QED BY <2>1, <3>1, <3>2, <3>3, <3>4
  <2> QED BY <1>2, <2>3, <2>4
<1>7. CASE BeginScrape
  <2>1. /\ seen' = 0 /\ shown' \in [1 .. 4 -> Nat]
        /\ shown'[1] = 0 /\ shown'[2] = 0 /\ shown'[3] = 0 /\ shown'[4] = 0
    BY <1>7 DEF BeginScrape
  <2>2. Recording' = Recording
    BY <1>7 DEF BeginScrape, recordVars, Recording
  <2>3. quiet' = (Recording = {})
    BY <1>7 DEF BeginScrape
  <2>4. quiet' \in BOOLEAN /\ (quiet' => Recording = {})
    BY <2>3, Zenon
  <2>5. MetricsTypeOK'
    BY <1>5, <2>1, <2>4 DEF MetricsTypeOK
  <2>6. ScrapeKept'
    BY <1>3, <2>1, <2>2, <2>4 DEF ScrapeKept
  <2> QED BY <1>2, <2>5, <2>6
<1>8. CASE UNCHANGED <<seen, shown>> /\ quiet' \in BOOLEAN /\ (quiet' => quiet)
  <2>1. MetricsTypeOK'
    BY <1>5, <1>8 DEF MetricsTypeOK
  <2>2. seen < 4 /\ quiet' =>
          quiet /\ Recording' = {} /\ Requested' = Requested /\ Accepted' = Accepted
    <3> SUFFICES ASSUME seen < 4, quiet'
                 PROVE  quiet /\ Recording' = {} /\ Requested' = Requested /\ Accepted' = Accepted
      OBVIOUS
    <3>1. quiet
      BY <1>8
    <3>2. Recording = {} /\ seen # 4
      BY <1>5, <1>8, <3>1 DEF ScrapeKept
    <3>3. ~\E r \in LabRuns : Record(r)
      BY <3>2 DEF Record, Recording
    <3>4. ASSUME NEW r \in LabRuns, NEW i \in LabRequests, SubmitLab(r, i)
          PROVE  value' = value /\ Recording' = {}
      <4>1. quiet' = (quiet /\ seen = 4) => FALSE
        BY <3>2, Zenon
      <4>2. ~Valid(i)
        BY <3>4, <4>1 DEF SubmitLab
      <4> QED BY <3>2, <3>4, <4>2 DEF SubmitLab, Recording, MetricsTypeOK, RecordTypeOK
    <3>5. value' = value /\ Recording' = {}
      BY <1>1, <3>2, <3>3, <3>4 DEF RecordNext, recordVars, Recording
    <3> QED BY <3>1, <3>5 DEF Requested, Accepted, Get
  <2>3. quiet' => quiet
    BY <1>8
  <2>4. ScrapeKept'
    BY <1>3, <1>5, <1>8, <2>2, <2>3 DEF ScrapeKept
  <2> QED BY <1>2, <2>1, <2>4
<1> QED BY <1>0, <1>6, <1>7, <1>8, ScrapeSteps

\* What a scrape shows is covered by the registry.
LEMMA ScrapeIsAccounted ==
    ASSUME ScrapeInductive
    PROVE  Accounted
<1>1. RegistryAccounted
  BY InductiveAccounted DEF ScrapeInductive
<1>2. /\ Accepted + Shed <= Requested
      /\ Requested \in Nat /\ Accepted \in Nat /\ Shed \in Nat
  BY WorkAccounted DEF ScrapeInductive
<1>3. shown \in [1 .. 4 -> Nat] /\ ScrapeKept
  BY DEF ScrapeInductive, MetricsTypeOK
<1>4. shown[3] + shown[4] <= Requested
  BY <1>2, <1>3 DEF ScrapeKept
<1>5. ScrapeAccounted
  BY <1>3, <1>4 DEF ScrapeAccounted, ScrapeKept, Requested
<1> QED BY <1>1, <1>5 DEF Accounted

\* The inductive invariant holds.
LEMMA MetricsInvariant == MetricsSpec => []ScrapeInductive
  BY ScrapeInitially, ScrapeStep, PTL DEF MetricsSpec

\* No series goes below zero, whatever runs record: every update of every lab's result,
\* for units on either side of each threshold, is a natural number.
THEOREM MetricsTypes == MetricsSpec => []MetricsTypeOK
<1>1. ScrapeInductive => MetricsTypeOK
  BY DEF ScrapeInductive
<1> QED BY <1>1, MetricsInvariant, PTL

\* Accounted, for any number of runs that record at the same time and any units.  In the
\* registry, at every moment, the work units, streams and lookups counted as accepted,
\* turned away, hit or missed do not exceed those counted as requested, and make them
\* up when no run is recording; likewise hardened uploads and blocked runs; the breaker
\* says open only when shed work units are counted.  The parts that a scrape has read
\* one after the other never exceed the total by then, a scrape during which nobody
\* recorded balances, and one that shows an open breaker shows shed work.
THEOREM TotalsAddUp == MetricsSpec => []Accounted
  BY MetricsInvariant, ScrapeIsAccounted, PTL

\* GaugesOfLastRun: when the last run to record did so alone, the gauges of its lab have the
\* values of its result.
THEOREM GaugesShowLastRun == MetricsSpec => []GaugesOfLastRun
<1>1. ScrapeInductive => GaugesOfLastRun
  BY InductiveGauges DEF ScrapeInductive
<1> QED BY <1>1, MetricsInvariant, PTL
=============================================================================
