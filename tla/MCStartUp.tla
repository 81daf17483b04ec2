----------------------------- MODULE MCStartUp -----------------------------
(* Instances of StartUp for TLC: an environment that passes every check, and *)
(* those that differ from it in profile, environment, one of Switches and one *)
(* more setting.                                                             *)
EXTENDS StartUp

CONSTANTS r1, r2

https == {"https", "http", "blank"}
text == {"set", "blank"}
token == {"strong", "short", "blank"}

\* The classes of each setting.
Classes ==
    [profile |-> {"local-lab", "production-like", "production-saas"},
     env |-> {"unset", "development", "staging", "production"},
     auth_enabled |-> BOOLEAN, allow_vulnerable |-> BOOLEAN, run_migrations |-> BOOLEAN,
     rate_limit_backend |-> {"memory", "redis"},
     api_key |-> token, metrics_token |-> token, passwords |-> {"strong", "short"},
     auth_provider |-> {"oidc", "oidc-test", "other", "blank"},
     oidc_issuer_url |-> https, oidc_jwks_url |-> https, public_base_url |-> https,
     oidc_audience |-> text, oidc_tenant_claim |-> text, oidc_roles_claim |-> text,
     oidc_algorithms |-> {"RS256", "none", "blank"},
     database_url |-> {"managed", "local", "blank"},
     ssl_mode |-> {"require", "verify-full", "unset"},
     redis_url |-> {"rediss", "redis", "local", "blank"}, redis_key_prefix |-> text,
     secret_key |-> {"long", "short"}, allowed_origins |-> {"listed", "wildcard", "blank"},
     secure_cookies |-> BOOLEAN, audit_log_enabled |-> BOOLEAN,
     file_storage_backend |-> {"s3", "r2", "memory", "disk", "other", "blank"},
     bucket |-> text, region |-> text, endpoint |-> text,
     presigned_url_ttl |-> {"positive", "zero"},
     secret_manager_provider |-> {"aws", "other", "blank"},
     secret_manager_path |-> text, secret_rotation_required |-> BOOLEAN,
     secret_cache_ttl |-> {"within_hour", "zero", "over_hour"},
     allow_env_secret_provider |-> BOOLEAN, allow_local_endpoints |-> BOOLEAN,
     pool |-> {"ordered", "min_zero", "max_below_min"},
     audit_sink |-> {"any", "immutable_postgres"}]

\* An environment that every check passes.
Sound ==
    [profile |-> "production-saas", env |-> "production",
     auth_enabled |-> FALSE, allow_vulnerable |-> TRUE, run_migrations |-> FALSE,
     rate_limit_backend |-> "memory",
     api_key |-> "strong", metrics_token |-> "strong", passwords |-> "strong",
     auth_provider |-> "oidc",
     oidc_issuer_url |-> "https", oidc_jwks_url |-> "https", public_base_url |-> "https",
     oidc_audience |-> "set", oidc_tenant_claim |-> "set", oidc_roles_claim |-> "set",
     oidc_algorithms |-> "RS256", database_url |-> "managed", ssl_mode |-> "require",
     redis_url |-> "rediss", redis_key_prefix |-> "set",
     secret_key |-> "long", allowed_origins |-> "listed",
     secure_cookies |-> TRUE, audit_log_enabled |-> TRUE,
     file_storage_backend |-> "s3", bucket |-> "set", region |-> "set", endpoint |-> "blank",
     presigned_url_ttl |-> "positive", secret_manager_provider |-> "aws",
     secret_manager_path |-> "set", secret_rotation_required |-> TRUE,
     secret_cache_ttl |-> "within_hour",
     allow_env_secret_provider |-> FALSE, allow_local_endpoints |-> FALSE,
     pool |-> "ordered", audit_sink |-> "any"]

\* The settings that other settings' requirements depend on.
Switches ==
    {"auth_enabled", "auth_provider", "allow_local_endpoints", "database_url", "redis_url",
     "file_storage_backend"}

Deviate(environments, names) ==
    UNION {{[e EXCEPT ![s] = v] : v \in Classes[s]} : <<e, s>> \in environments \X names}

MCEnvironments ==
    Deviate(Deviate({[Sound EXCEPT !.profile = p, !.env = n] :
                       p \in Classes.profile, n \in Classes.env},
                    Switches),
            DOMAIN Classes \ {"profile", "env"})
=============================================================================
