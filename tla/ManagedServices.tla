-------------------------- MODULE ManagedServices --------------------------
(***************************************************************************)
(* The live checks of apps/api/managed_services.py, beside tenants that    *)
(* use the same bucket.  A check run tries five services one after the     *)
(* other and collects the failures.  All runs write, read and delete one   *)
(* Redis key and one object, both with fixed names.                        *)
(***************************************************************************)
EXTENDS ObjectStorage

CONSTANTS
    Checks,         \* check runs, each a process
    JwksAnswers,    \* what the identity provider may publish
    HealthTenant,   \* STAGING_HEALTH_TENANT
    HealthKey,      \* OBJECT_HEALTH_RELATIVE_KEY
    MaxMishaps      \* bound: calls that fail and runs that are cut off

\* The tenant of the checks is one segment, their key begins with a segment other
\* than "tenants", and no caller has that tenant's id.
ASSUME ManagedAssumption ==
    /\ HealthTenant \in Seq(STRING) /\ Len(HealthTenant) = 1 /\ HealthTenant[1] # EmptySegment
    /\ HealthTenant \notin Tenants
    /\ HealthKey \in Seq(STRING) /\ HealthKey # <<>>
    /\ HealthKey[1] \notin {EmptySegment, TENANT_KEY_SEGMENT}
    /\ JwksAnswers \subseteq {"keys", "no_keys", "other_algorithms"}
    /\ MaxMishaps \in Nat

VARIABLES
    secretHeld,     \* the manager holds the health-check secret, the provider works
    jwksAnswer,     \* what the identity provider publishes
    redisKey,       \* the Redis key: "none", "expiring" or "persistent"
    at,             \* at[c]: the call that c makes next, or its report
    failed,         \* failed[c]: the services that c found failing
    alone,          \* history: no other run has overlapped c
    faulted,        \* history: a service failed a call of c
    residue,        \* history: a run was cut off or failed between a write and its delete
    mishaps

history == <<alone, faulted, residue>>
world == <<secretHeld, jwksAnswer>>
checksVars == <<storageVars, world, redisKey, at, failed, history, mishaps>>

Lines == <<"connect", "ping", "set", "get", "ttl", "del",
           "put", "head", "delete", "secret", "jwks">>
Calling == {Lines[i] : i \in DOMAIN Lines}
Reports == {"ready", "not_ready"}

Service(line) ==
    CASE line = "connect" -> "postgresql"
      [] line \in {"ping", "set", "get", "ttl", "del"} -> "redis"
      [] line \in {"put", "head", "delete"} -> "object_storage"
      [] line = "secret" -> "secret_manager"
      [] line = "jwks" -> "jwks"

\* run_live_connectivity_checks goes on with the next service.
NextService(line) ==
    CASE Service(line) = "postgresql" -> "ping"
      [] Service(line) = "redis" -> "put"
      [] Service(line) = "object_storage" -> "secret"
      [] Service(line) = "secret_manager" -> "jwks"

NextLine(line) == Lines[(CHOOSE i \in DOMAIN Lines : Lines[i] = line) + 1]

HealthObject == ObjectKey(HealthTenant, HealthKey)

ChecksInit ==
    /\ StorageInit
    /\ secretHeld \in BOOLEAN
    /\ jwksAnswer \in JwksAnswers
    /\ redisKey = "none"
    /\ at = [c \in Checks |-> "idle"]
    /\ failed = [c \in Checks |-> {}]
    /\ alone = [c \in Checks |-> TRUE]
    /\ faulted = [c \in Checks |-> FALSE]
    /\ residue = FALSE
    /\ mishaps = 0

----------------------------------------------------------------------------
\* A run begins; settings and structural policy have passed.
Begin(c) ==
    /\ at[c] = "idle"
    /\ at' = [at EXCEPT ![c] = "connect"]
    /\ LET others == {d \in Checks \ {c} : at[d] \in Calling}
       IN  alone' = [d \in Checks |-> IF d = c THEN others = {}
                                      ELSE alone[d] /\ d \notin others]
    /\ UNCHANGED <<storageVars, world, redisKey, failed, faulted, residue, mishaps>>

\* ready, if nothing has failed
Report(failures) == IF failures = {} THEN "ready" ELSE "not_ready"

\* The call succeeds and c goes on.
Pass(c) ==
    /\ at' = [at EXCEPT ![c] = IF @ = "jwks" THEN Report(failed[c]) ELSE NextLine(@)]
    /\ UNCHANGED failed

\* An exception, or an answer that will not do: the service has failed and the
\* rest of its calls is skipped, the deletes too.
Fail(c) ==
    /\ failed' = [failed EXCEPT ![c] = @ \union {Service(at[c])}]
    /\ at' = [at EXCEPT ![c] = IF @ = "jwks" THEN "not_ready" ELSE NextService(@)]

PassOrFail(c, passes) == (passes /\ Pass(c)) \/ (~passes /\ Fail(c))

\* SELECT 1, PING and TTL answer.
Query(c) ==
    /\ at[c] \in {"connect", "ping", "ttl"}
    /\ Pass(c)
    /\ UNCHANGED <<storageVars, world, redisKey, history, mishaps>>

\* Mutant: the key is set without ex.
ProbeSetPersistent == "persistent"

\* SET with ex
ProbeSet == "expiring"

SetProbe(c) ==
    /\ at[c] = "set"
    /\ redisKey' = ProbeSet
    /\ Pass(c)
    /\ UNCHANGED <<storageVars, world, history, mishaps>>

GetProbe(c) ==
    /\ at[c] = "get"
    /\ PassOrFail(c, redisKey # "none")
    /\ UNCHANGED <<storageVars, world, redisKey, history, mishaps>>

DeleteProbe(c) ==
    /\ at[c] = "del"
    /\ redisKey' = "none"
    /\ Pass(c)
    /\ UNCHANGED <<storageVars, world, history, mishaps>>

\* Mutant: the object is left for the next run to overwrite.
PerformProbeNoDelete(op) ==
    IF op = "delete" THEN UNCHANGED bucket ELSE Perform(op, HealthTenant, HealthKey)

PerformProbe(op) == Perform(op, HealthTenant, HealthKey)

ProbeAccepted(op) == Reaches(HealthTenant, HealthKey) /\ ProviderAccepts(op, HealthObject)

\* metadata.key begins with "tenants/staging-health/".
KeyInScope == SubSeq(HealthObject, 1, 2) = <<TENANT_KEY_SEGMENT>> \o HealthTenant

\* The object is written, its metadata read, and it is deleted; then the key that
\* the metadata names is looked at.
CheckStorage(c) ==
    /\ at[c] \in {"put", "head", "delete"}
    /\ \/ /\ ProbeAccepted(at[c])
          /\ PerformProbe(at[c])
          /\ PassOrFail(c, at[c] = "delete" => KeyInScope)
       \/ ~ProbeAccepted(at[c]) /\ UNCHANGED bucket /\ Fail(c)
    /\ UNCHANGED <<storageSettings, storageCalls, world, redisKey, history, mishaps>>

CheckSecret(c) ==
    /\ at[c] = "secret"
    /\ PassOrFail(c, secretHeld)
    /\ UNCHANGED <<storageVars, world, redisKey, history, mishaps>>

\* Mutant: the algorithms of the keys are not looked at.
JwksAcceptableAny == jwksAnswer # "no_keys"

JwksAcceptable == jwksAnswer = "keys"

CheckJwks(c) ==
    /\ at[c] = "jwks"
    /\ PassOrFail(c, JwksAcceptable)
    /\ UNCHANGED <<storageVars, world, redisKey, history, mishaps>>

\* Between the write of a probe and its delete.
Tending == {"get", "ttl", "del", "head", "delete"}

\* A service does not answer in time (external); a write may have taken effect.
Fault(c) ==
    /\ at[c] \in Calling
    /\ mishaps < MaxMishaps
    /\ mishaps' = mishaps + 1
    /\ faulted' = [faulted EXCEPT ![c] = TRUE]
    /\ residue' = IF at[c] \in Tending \union {"set", "put"} THEN TRUE ELSE residue
    /\ Fail(c)
    /\ redisKey' \in {redisKey} \union {x \in {ProbeSet} : at[c] = "set"}
                                \union {x \in {"none"} : at[c] = "del"}
    /\ \/ UNCHANGED bucket
       \/ /\ at[c] \in {"put", "delete"}
          /\ ProbeAccepted(at[c])
          /\ PerformProbe(at[c])
    /\ UNCHANGED <<storageSettings, storageCalls, world, alone>>

\* The process is cut off (external); nothing is undone.
Kill(c) ==
    /\ at[c] \in Calling
    /\ mishaps < MaxMishaps
    /\ mishaps' = mishaps + 1
    /\ at' = [at EXCEPT ![c] = "killed"]
    /\ residue' = IF at[c] \in Tending THEN TRUE ELSE residue
    /\ UNCHANGED <<storageVars, world, redisKey, failed, alone, faulted>>

\* Redis drops the key after REDIS_HEALTH_TTL_SECONDS (external).  A run reads
\* the key within that time after it has set it.
Expire ==
    /\ redisKey = "expiring"
    /\ \A c \in Checks : at[c] # "get"
    /\ redisKey' = "none"
    /\ UNCHANGED <<storageVars, world, at, failed, history, mishaps>>

Step(c) ==
    \/ Query(c) \/ SetProbe(c) \/ GetProbe(c) \/ DeleteProbe(c)
    \/ CheckStorage(c) \/ CheckSecret(c) \/ CheckJwks(c)

ChecksNext ==
    \/ \E c \in Checks : Begin(c) \/ Step(c) \/ Fault(c) \/ Kill(c)
    \/ Expire
    \/ TenantNext /\ UNCHANGED <<world, redisKey, at, failed, history, mishaps>>

\* Redis drops what has expired, and no run waits at its read for ever.
ChecksFairness == WF_checksVars(Expire) /\ \A c \in Checks : WF_checksVars(GetProbe(c))

ChecksSpec == ChecksInit /\ [][ChecksNext]_checksVars /\ ChecksFairness

----------------------------------------------------------------------------
ChecksTypeOK ==
    /\ StorageTypeOK
    /\ secretHeld \in BOOLEAN
    /\ jwksAnswer \in JwksAnswers
    /\ redisKey \in {"none", "expiring", "persistent"}
    /\ at \in [Checks -> {"idle", "killed"} \union Calling \union Reports]
    /\ failed \in [Checks -> SUBSET {"postgresql", "redis", "object_storage",
                                     "secret_manager", "jwks"}]
    /\ alone \in [Checks -> BOOLEAN]
    /\ faulted \in [Checks -> BOOLEAN]
    /\ residue \in BOOLEAN
    /\ mishaps \in 0 .. MaxMishaps

\* A prefix inside the folder of the checks' own tenant.  Under it no other tenant
\* can use the storage, but the checks pass.
PrefixOfChecks ==
    /\ Len(prefix) >= 2
    /\ SubSeq(prefix, 1, 2) = <<TENANT_KEY_SEGMENT>> \o HealthTenant

Healthy ==
    sdk /\ (PrefixUsable \/ PrefixOfChecks) /\ secretHeld /\ jwksAnswer = "keys"

\* A report "ready" is right whatever ran beside it, but for a prefix that names the
\* checks' own tenant.  A report "not ready" is
\* right if the run was alone and no call failed, even after runs that were cut
\* off or failed and left their key and object behind.
ReportIsRight ==
    \A c \in Checks :
       /\ at[c] = "ready" => Healthy
       /\ at[c] = "not_ready" /\ alone[c] /\ ~faulted[c] => ~Healthy

\* Runs that overlap may fail each other's reads, and skip their deletes then;
\* all the same nothing stays behind once they are done, no object of the checks'
\* tenant either.  Only a run that was cut off between a write and its delete, or
\* that had one of these calls fail, may leave its probe; a mishap elsewhere
\* (connect, ping, secret, jwks) excuses nothing.
ProbesSwept ==
    ~residue /\ (\A c \in Checks : at[c] \notin Calling) =>
       redisKey = "none" /\ \A k \in objects : ExtractTenant(k) # HealthTenant

\* Whatever keys, tenant ids and prefixes are passed, an object that a call for one
\* tenant has an effect on cannot be reached for another, the checks' own tenant
\* included: not with a key that names the other's prefix, not with a tenant id
\* that holds a slash.
TenantsApart ==
    [][\A x \in touched' \ touched, t \in Tenants \union {HealthTenant},
          k \in Keys \union {HealthKey} :
         Reaches(t, k) /\ ObjectKey(t, k) = x[2] => t = x[1]]_checksVars

\* The Redis key does not stay, even if the run that set it is cut off.
ProbeKeyGoes == (redisKey # "none") ~> (redisKey = "none")
=============================================================================
