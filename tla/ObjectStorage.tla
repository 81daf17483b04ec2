--------------------------- MODULE ObjectStorage ---------------------------
(***************************************************************************)
(* Tenant-scoped object storage (apps/api/storage.py) over one bucket: the *)
(* S3, R2 and GCS backends that build_storage_backend makes for            *)
(* production-saas.  Every operation resolves its key in the process and   *)
(* then makes one call to the provider.                                    *)
(*                                                                         *)
(* A key, a tenant id or a prefix is the sequence of its parts between     *)
(* slashes: "/x/y" is <<"", "x", "y">>, the blank tenant and the blank     *)
(* prefix are <<>>, and a prefix has been stripped of its last slash.      *)
(***************************************************************************)
EXTENDS Integers, Sequences, FiniteSets

CONSTANTS
    Tenants,        \* tenant ids that callers pass
    Keys,           \* object keys that they pass
    Backends,       \* the values of FILE_STORAGE_BACKEND that are tried
    Prefixes,       \* the values of OBJECT_STORAGE_PREFIX that are tried
    MaxCalls        \* bound: the storage calls of tenants

ASSUME StorageAssumption ==
    /\ Tenants \subseteq Seq(STRING)
    /\ Backends \subseteq {"s3", "gcs", "r2"}
    /\ Keys \subseteq Seq(STRING)
    /\ Prefixes \subseteq Seq(STRING)
    /\ MaxCalls \in Nat

VARIABLES
    backend,        \* file_storage_backend, which validate_storage_settings let pass
    prefix,         \* object_storage_prefix
    sdk,            \* the provider's SDK can be imported
    objects,        \* keys of the objects in the bucket
    touched,        \* history: tenant and key of the first call that had effect
    storageCalls

storageSettings == <<backend, prefix, sdk>>
bucket == <<objects, touched>>
storageVars == <<storageSettings, bucket, storageCalls>>

TENANT_KEY_SEGMENT == "tenants"

\* The part before a leading slash, or between two slashes.
EmptySegment == ""

\* Parts of a prefix that end in "tenants", as str.endswith sees it.
EndsInTenants == {TENANT_KEY_SEGMENT, "subtenants"}

Operations == {"put", "head", "delete", "presign"}

StorageInit ==
    /\ backend \in Backends
    /\ prefix \in Prefixes
    /\ sdk \in BOOLEAN
    /\ objects = {}
    /\ touched = {}
    /\ storageCalls = 0

----------------------------------------------------------------------------
\* key.lstrip("/")
LStrip(key) ==
    LET filled == {i \in DOMAIN key : key[i] # EmptySegment}
    IN  IF filled = {} THEN <<EmptySegment>>
        ELSE SubSeq(key, CHOOSE i \in filled : \A j \in filled : i <= j, Len(key))

BuildTenantObjectKey(tenant, key) ==
    LET scoped == prefix # <<>> /\ prefix[Len(prefix)] \in EndsInTenants
    IN  prefix \o (IF scoped THEN <<>> ELSE <<TENANT_KEY_SEGMENT>>) \o tenant \o LStrip(key)

\* ^tenants/([^/]+)/ after the leading slashes: the tenant, or <<>> for no match.
ExtractTenant(key) ==
    LET k == LStrip(key)
    IN  IF Len(k) >= 3 /\ k[1] = TENANT_KEY_SEGMENT /\ k[2] # EmptySegment THEN <<k[2]>> ELSE <<>>

\* Mutant: a key outside tenants/ belongs to nobody, so anybody may use it.
AssertTenantObjectAccessUnscoped(tenant, key) ==
    IF ExtractTenant(key) \notin {<<>>, tenant} THEN "cross_tenant_denied" ELSE "ok"

\* Mutant: any tenant's key will do.
AssertTenantObjectAccessScopeOnly(tenant, key) ==
    IF ExtractTenant(key) = <<>> THEN "tenant_scope_required" ELSE "ok"

AssertTenantObjectAccess(tenant, key) ==
    IF ExtractTenant(key) = <<>> THEN "tenant_scope_required"
    ELSE IF ExtractTenant(key) # tenant THEN "cross_tenant_denied" ELSE "ok"

\* The key that a backend uses for the key it is given.
ObjectKey(tenant, key) ==
    IF Len(key) >= 2 /\ key[1] = TENANT_KEY_SEGMENT THEN key
    ELSE BuildTenantObjectKey(tenant, key)

\* _resolve_object_key, which requires a tenant in production-saas: "ok", or the
\* code of the StorageError.
ResolveObjectKey(tenant, key) ==
    IF tenant = <<>> THEN "tenant_required"
    ELSE AssertTenantObjectAccess(tenant, ObjectKey(tenant, key))

\* What the provider says to an operation on a key: S3 and R2 delete an object
\* that is not there, GCS does not.
ProviderAccepts(op, key) ==
    CASE op = "head" -> key \in objects
      [] op = "delete" -> key \in objects \/ backend # "gcs"
      [] OTHER -> TRUE

\* The key is resolved and the SDK there.  (A presigned URL is also refused for a
\* lifetime that is not positive, and given at most the configured one.)
Reaches(tenant, key) == sdk /\ ResolveObjectKey(tenant, key) = "ok"

\* What an operation does to the bucket.
Perform(op, tenant, key) ==
    LET k == ObjectKey(tenant, key)
    IN  /\ objects' = CASE op = "put" -> objects \union {k}
                        [] op = "delete" -> objects \ {k}
                        [] OTHER -> objects
        /\ touched' = IF touched = {} THEN {<<tenant, k>>} ELSE touched

\* A tenant's call has its effect, and returns or loses the provider's answer; ...
TenantCall(tenant, key) ==
    /\ storageCalls < MaxCalls
    /\ storageCalls' = storageCalls + 1
    /\ Reaches(tenant, key)
    /\ \E op \in Operations :
          ProviderAccepts(op, ObjectKey(tenant, key)) /\ Perform(op, tenant, key)
    /\ UNCHANGED storageSettings

\* ... or it is refused, here or by the provider.
TenantCallFails ==
    /\ storageCalls < MaxCalls
    /\ storageCalls' = storageCalls + 1
    /\ UNCHANGED <<storageSettings, bucket>>

TenantNext ==
    \/ TenantCallFails
    \/ \E tenant \in Tenants, key \in Keys : TenantCall(tenant, key)

----------------------------------------------------------------------------
StorageTypeOK ==
    /\ backend \in Backends
    /\ prefix \in Prefixes
    /\ sdk \in BOOLEAN
    /\ \A k \in objects : ExtractTenant(k) # <<>>
    /\ storageCalls \in 0 .. MaxCalls

\* The prefixes under which every tenant's objects are at tenants/<its id>/.  (Of
\* the others "/tenants" puts a slash before that; under the rest the backends
\* build keys that they refuse for all tenants but one at most.)
PrefixUsable == prefix \in {<<>>, <<TENANT_KEY_SEGMENT>>}
=============================================================================
