--------------------------- MODULE SettingsPolicy ---------------------------
(***************************************************************************)
(* What Settings (apps/api/config.py) makes of an environment, and what    *)
(* the three readiness checks (config_check, staging_check and the         *)
(* structural part of managed_services) say of it.                         *)
(*                                                                         *)
(* An environment maps each setting that a decision depends on to a class  *)
(* of values.  POSTGRES_PASSWORD, REDIS_PASSWORD and SESSION_HMAC_SECRET   *)
(* are one setting, so are the two pool sizes; ssl_mode is what            *)
(* _database_ssl_mode finds in DB_SSL_MODE or in the URL.  Of the storage   *)
(* backends s3 stands for gcs too, disk for local and filesystem; aws       *)
(* stands for every supported secret manager.                              *)
(*                                                                         *)
(* A replica's Settings() reads a file .env in its working directory too;  *)
(* the checks pass _env_file=None.  The environment here is what process   *)
(* variables give, for both: a replica whose .env sets what its variables  *)
(* leave open is not the one that a check has seen.                        *)
(***************************************************************************)

\* The settings of an environment.
SettingNames ==
    {"profile", "env", "auth_enabled", "allow_vulnerable", "run_migrations",
     "rate_limit_backend", "api_key", "metrics_token", "passwords", "auth_provider",
     "oidc_issuer_url", "oidc_jwks_url", "public_base_url", "oidc_audience",
     "oidc_tenant_claim", "oidc_roles_claim", "oidc_algorithms", "database_url", "ssl_mode",
     "redis_url", "redis_key_prefix", "secret_key", "allowed_origins", "secure_cookies",
     "audit_log_enabled", "file_storage_backend", "bucket", "region", "endpoint",
     "presigned_url_ttl", "secret_manager_provider", "secret_manager_path",
     "secret_rotation_required", "secret_cache_ttl", "allow_env_secret_provider",
     "allow_local_endpoints", "pool", "audit_sink"}

\* env and profile as Settings normalises them; BOUNDARY_LAYER_ENV defaults to
\* development.
EnvOf(e) == IF e.env = "unset" THEN "development" ELSE e.env
IsSaas(e) == e.profile = "production-saas"

IsProduction(e) ==
    e.profile \in {"production-like", "production-saas"} \/ EnvOf(e) = "production"

IsLocalLab(e) == e.profile = "local-lab" /\ EnvOf(e) # "production"

\* apply_production_defaults, the first validator to run.
Defaults(e) ==
    IF IsProduction(e)
    THEN [e EXCEPT !.auth_enabled = TRUE, !.allow_vulnerable = FALSE,
                   !.run_migrations = TRUE, !.rate_limit_backend = "redis"]
    ELSE e

Flag(setting, condition) == IF condition THEN {setting} ELSE {}
Blank(e, names) == {n \in names : e[n] = "blank"}
NotHttps(e, names) == {n \in names : e[n] # "https"}

\* validate_production_requirements: production-like without
\* BOUNDARY_LAYER_ENV=production is not held to it.
ProductionIssues(e) ==
    IF EnvOf(e) # "production" THEN {}
    ELSE {n \in {"api_key", "metrics_token"} : e[n] = "short"}
         \union Flag("api_key", e.auth_enabled /\ e.api_key = "blank")
         \union Flag("metrics_token", e.metrics_token = "blank")
         \union Flag("passwords", e.passwords = "short")

DatabaseUrlIssues(e) ==
    IF e.database_url = "blank" THEN {}
    ELSE Flag("database_url", e.database_url = "local" /\ ~e.allow_local_endpoints)
         \union Flag("ssl_mode", e.ssl_mode # "require")

RedisUrlIssues(e) ==
    Flag("redis_url", \/ e.redis_url = "redis"
                      \/ e.redis_url = "local" /\ ~e.allow_local_endpoints)

SecretIssues(e) ==
    Blank(e, {"secret_manager_path"})
    \union Flag("secret_manager_provider", e.secret_manager_provider # "aws")
    \union Flag("secret_rotation_required", ~e.secret_rotation_required)
    \union Flag("secret_cache_ttl", e.secret_cache_ttl # "within_hour")

\* validate_production_saas_requirements
SaasIssues(e) ==
    IF ~IsSaas(e) THEN {}
    ELSE Blank(e, {"oidc_audience", "database_url", "redis_url", "public_base_url",
                   "metrics_token", "file_storage_backend", "oidc_tenant_claim",
                   "oidc_roles_claim", "redis_key_prefix"})
         \union NotHttps(e, {"oidc_issuer_url", "oidc_jwks_url"})
         \union Flag("auth_provider", e.auth_provider \notin {"oidc", "oidc-test"})
         \union Flag("auth_enabled", ~e.auth_enabled)
         \union Flag("oidc_algorithms", e.oidc_algorithms # "RS256")
         \union Flag("secret_key", e.secret_key = "short")
         \union Flag("allowed_origins", e.allowed_origins # "listed")
         \union Flag("secure_cookies", ~e.secure_cookies)
         \union Flag("audit_log_enabled", ~e.audit_log_enabled)
         \union Flag("file_storage_backend", e.file_storage_backend = "disk")
         \union (IF e.file_storage_backend \in {"s3", "r2"}
                 THEN Blank(e, {"bucket", "region"}) ELSE {})
         \union Flag("endpoint", e.file_storage_backend = "r2" /\ e.endpoint = "blank")
         \union SecretIssues(e) \union DatabaseUrlIssues(e) \union RedisUrlIssues(e)
         \union Flag("auth_provider", EnvOf(e) = "staging" /\ e.auth_provider = "oidc-test")
         \union Flag("public_base_url", EnvOf(e) = "staging" /\ e.public_base_url # "https")

\* Settings() does not raise, where no .env adds to e.
Boots(e) == ProductionIssues(Defaults(e)) = {} /\ SaasIssues(Defaults(e)) = {}

----------------------------------------------------------------------------
WithDefaultEnv(e, default) == IF e.env = "unset" THEN [e EXCEPT !.env = default] ELSE e

\* evaluate_production_saas_readiness, given e.
ConfigCheckReady(e) == Boots([e EXCEPT !.profile = "production-saas"])

\* Mutant: the environment that is given is overruled.
StagingCheckReadyForced(e) ==
    Boots([e EXCEPT !.profile = "production-saas", !.env = "staging"])

\* evaluate_staging_readiness, given e.
StagingCheckReady(e) ==
    Boots(WithDefaultEnv([e EXCEPT !.profile = "production-saas"], "staging"))

ObjectStorageIssues(e) ==
    IF e.file_storage_backend \notin {"s3", "r2"} THEN {"file_storage_backend"}
    ELSE Blank(e, {"bucket"})
         \union Flag("region", e.region = "blank" /\ e.file_storage_backend # "r2")
         \union Flag("endpoint", e.endpoint = "blank" /\ e.file_storage_backend = "r2")
         \union Flag("presigned_url_ttl", e.presigned_url_ttl = "zero")

\* run_structural_policy_checks
StructuralIssues(e) ==
    Blank(e, {"database_url", "redis_url"})
    \union DatabaseUrlIssues(e) \union RedisUrlIssues(e)
    \union (IF e.database_url = "blank" THEN {} ELSE Flag("pool", e.pool # "ordered"))
    \union (IF e.redis_url = "blank" THEN {} ELSE Blank(e, {"redis_key_prefix"}))
    \union ObjectStorageIssues(e) \union SecretIssues(e)
    \union Flag("allow_env_secret_provider", e.allow_env_secret_provider)
    \union Flag("audit_sink", e.audit_sink = "immutable_postgres")
    \union {n \in {"public_base_url", "oidc_issuer_url", "oidc_jwks_url"} : e[n] = "http"}

\* build_storage_backend and build_secret_provider do not raise.
StorageBuilds(e) ==
    IsSaas(e) => /\ e.file_storage_backend \in {"s3", "r2"}
                 /\ e.bucket = "set"
                 /\ e.file_storage_backend = "r2" => e.endpoint = "set"
SecretsBuild(e) ==
    \/ ~IsSaas(e)
    \/ e.allow_env_secret_provider
    \/ e.secret_manager_provider = "aws"

\* evaluate_managed_services_readiness in structural mode, given e.
ManagedCheckReady(e) ==
    LET s == WithDefaultEnv([e EXCEPT !.profile = "production-saas"], "production")
    IN  Boots(s) /\ StructuralIssues(Defaults(s)) = {} /\ StorageBuilds(s) /\ SecretsBuild(s)
=============================================================================
