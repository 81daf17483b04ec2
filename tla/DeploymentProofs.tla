-------------------------- MODULE DeploymentProofs --------------------------
(***************************************************************************)
(* The start of a deployment (StartUp) and the live checks of its managed  *)
(* services beside tenants that use the bucket (ManagedServices).          *)
(*                                                                         *)
(* StartUp.  What serves is hardened and on the newest schema, and what a  *)
(* readiness check passed is not refused: for every environment, any       *)
(* number of replicas and migrations, and all crashes and outages.         *)
(* ServesHardened is not inductive: a replica at the tenancy tables relies *)
(* on the upgrade that it, or the one it lost to, has committed.  Migrated *)
(* says so; Schema keeps versions and tables together; and Hardening keeps *)
(* what the defaults made of the environment.  Refusals holds because the  *)
(* requirements of staging and of production include those of development. *)
(*                                                                         *)
(* ManagedServices.  Reports are right, the probes are swept and tenants   *)
(* stay apart, for any keys, tenant ids and prefixes and any number of     *)
(* runs, faults and kills.  ReportIsRight looks at runs that are done, so  *)
(* what makes it true must be kept on the way: PassesEarned, what a run    *)
(* without a failure has shown so far; NoFalseAlarm and LoneRunFinds, that *)
(* a run alone finds what it wrote.  ProbesSwept needs SomeoneSweeps, that *)
(* whatever a run left has another run on the way to its delete, and       *)
(* OneHealthObject, that this delete is of the one object of their tenant. *)
(***************************************************************************)
EXTENDS StartUp, ManagedServices, SequenceTheorems, TLAPS

\* Outside the local lab the settings are the production defaults.
Hardening ==
    ~settings.local_lab =>
       /\ settings.auth_enabled /\ ~settings.allow_vulnerable /\ settings.run_migrations
       /\ settings.rate_limit_backend = "redis"

\* The tables of all migrations up to the version exist, and no others.
Schema ==
    /\ version \in 0 .. HeadRevision
    /\ 1 .. version \subseteq tables /\ tables \subseteq 1 .. HeadRevision

\* Past the migrations the schema is the newest one.
Migrated ==
    \A r \in Replicas :
       pc[r] \in {"tenancy", "serving"} /\ ~settings.local_lab => version = HeadRevision

\* A replica is refused by its settings and by nothing else.
Refusals ==
    /\ settings.saas /\ ready # {} => settings.boots
    /\ \A r \in Replicas : pc[r] = "refused" => ~settings.boots

IInv == TypeOK /\ Hardening /\ Schema /\ Migrated /\ Refusals

----------------------------------------------------------------------------
\* Of the four settings that the defaults replace a production deployment has
\* the hardened values, a local lab its own.
LEMMA DefaultsOf ==
    ASSUME NEW e \in Environments
    PROVE  LET d == Defaults(e)
           IN  /\ d.auth_enabled \in BOOLEAN /\ d.allow_vulnerable \in BOOLEAN
               /\ d.run_migrations \in BOOLEAN
               /\ d.rate_limit_backend \in {"memory", "redis"}
               /\ ~IsLocalLab(e) =>
                     /\ d.auth_enabled = TRUE /\ d.allow_vulnerable = FALSE
                     /\ d.run_migrations = TRUE /\ d.rate_limit_backend = "redis"
<1>1. e = [n \in SettingNames |-> e[n]]
  BY StartUpAssumption
<1>2. {"auth_enabled", "allow_vulnerable", "run_migrations", "rate_limit_backend"}
         \subseteq DOMAIN e
  BY <1>1 DEF SettingNames
<1> QED BY <1>2, StartUpAssumption DEF Defaults, IsProduction, IsLocalLab

\* Every deployment of the environments is hardened unless it is a local lab.
LEMMA DeploymentsHardened ==
    ASSUME NEW d \in Deployments
    PROVE  /\ d.settings \in [boots : BOOLEAN, saas : BOOLEAN, local_lab : BOOLEAN,
                              auth_enabled : BOOLEAN, allow_vulnerable : BOOLEAN,
                              run_migrations : BOOLEAN, rate_limit_backend : {"memory", "redis"}]
           /\ d.ready \subseteq {"config", "staging", "managed"}
           /\ ~d.settings.local_lab =>
                /\ d.settings.auth_enabled /\ ~d.settings.allow_vulnerable
                /\ d.settings.run_migrations /\ d.settings.rate_limit_backend = "redis"
<1>1. PICK e \in Environments : d = [settings |-> Load(e), ready |-> ReadyChecks(e)]
  BY DEF Deployments
<1>2. Boots(e) \in BOOLEAN /\ IsSaas(e) \in BOOLEAN /\ IsLocalLab(e) \in BOOLEAN
  BY DEF Boots, IsSaas, IsLocalLab
<1>3. d.settings = Load(e) /\ d.ready = ReadyChecks(e)
  BY <1>1
<1>4. d.ready \subseteq {"config", "staging", "managed"}
  BY <1>3 DEF ReadyChecks, Flag
<1> DEFINE p == Defaults(e)
<1>5. /\ p.auth_enabled \in BOOLEAN /\ p.allow_vulnerable \in BOOLEAN
      /\ p.run_migrations \in BOOLEAN /\ p.rate_limit_backend \in {"memory", "redis"}
      /\ ~IsLocalLab(e) => /\ p.auth_enabled /\ ~p.allow_vulnerable
                           /\ p.run_migrations /\ p.rate_limit_backend = "redis"
  BY DefaultsOf
<1>6. Load(e) = [boots |-> Boots(e), saas |-> IsSaas(e), local_lab |-> IsLocalLab(e),
                 auth_enabled |-> p.auth_enabled, allow_vulnerable |-> p.allow_vulnerable,
                 run_migrations |-> p.run_migrations,
                 rate_limit_backend |-> p.rate_limit_backend]
  BY DEF Load
<1> HIDE DEF p
<1>7. d.settings \in [boots : BOOLEAN, saas : BOOLEAN, local_lab : BOOLEAN,
                      auth_enabled : BOOLEAN, allow_vulnerable : BOOLEAN,
                      run_migrations : BOOLEAN, rate_limit_backend : {"memory", "redis"}]
  BY <1>2, <1>3, <1>5, <1>6
<1>8. ~d.settings.local_lab =>
         /\ d.settings.auth_enabled /\ ~d.settings.allow_vulnerable
         /\ d.settings.run_migrations /\ d.settings.rate_limit_backend = "redis"
  BY <1>3, <1>5, <1>6
<1> QED BY <1>4, <1>7, <1>8

\* The checks replace the profile, which for a production-saas environment
\* changes nothing.
LEMMA ForcedProfile ==
    ASSUME NEW e \in Environments, IsSaas(e)
    PROVE  [e EXCEPT !.profile = "production-saas"] = e
<1>1. e = [n \in SettingNames |-> e[n]] /\ e.profile = "production-saas"
  BY StartUpAssumption DEF IsSaas
<1> QED BY <1>1

\* Settings that differ in the environment only have the same issues with what
\* they are required to have in every environment.
LEMMA SameIssues ==
    ASSUME NEW d, NEW c, \A n \in SettingNames \ {"env"} : c[n] = d[n]
    PROVE  /\ SecretIssues(c) = SecretIssues(d)
           /\ DatabaseUrlIssues(c) = DatabaseUrlIssues(d)
           /\ RedisUrlIssues(c) = RedisUrlIssues(d)
           /\ \A S \in SUBSET (SettingNames \ {"env"}) :
                 Blank(c, S) = Blank(d, S) /\ NotHttps(c, S) = NotHttps(d, S)
<1>1. \A S \in SUBSET (SettingNames \ {"env"}) :
         Blank(c, S) = Blank(d, S) /\ NotHttps(c, S) = NotHttps(d, S)
  BY DEF Blank, NotHttps
<1>2. Blank(c, {"secret_manager_path"}) = Blank(d, {"secret_manager_path"})
  BY DEF Blank, SettingNames
<1>3. /\ c.secret_manager_provider = d.secret_manager_provider
      /\ c.secret_rotation_required = d.secret_rotation_required
      /\ c.secret_cache_ttl = d.secret_cache_ttl
      /\ c.database_url = d.database_url /\ c.ssl_mode = d.ssl_mode
      /\ c.redis_url = d.redis_url /\ c.allow_local_endpoints = d.allow_local_endpoints
  BY DEF SettingNames
<1>4. SecretIssues(c) = SecretIssues(d)
  BY <1>2, <1>3 DEF SecretIssues
<1>5. DatabaseUrlIssues(c) = DatabaseUrlIssues(d) /\ RedisUrlIssues(c) = RedisUrlIssues(d)
  BY <1>3 DEF DatabaseUrlIssues, RedisUrlIssues
<1> QED BY <1>1, <1>4, <1>5

\* What staging or production is not refused, development is not refused.
LEMMA DevelopmentIsLenient ==
    ASSUME NEW d, NEW c, \A n \in SettingNames \ {"env"} : c[n] = d[n],
           EnvOf(d) = "development",
           ProductionIssues(c) = {}, SaasIssues(c) = {}
    PROVE  ProductionIssues(d) = {} /\ SaasIssues(d) = {}
<1>1. ProductionIssues(d) = {}
  BY DEF ProductionIssues
<1> DEFINE S == {"oidc_audience", "database_url", "redis_url", "public_base_url",
                 "metrics_token", "file_storage_backend", "oidc_tenant_claim",
                 "oidc_roles_claim", "redis_key_prefix"}
           H == {"oidc_issuer_url", "oidc_jwks_url"}
           B == {"bucket", "region"}
<1>2. /\ Blank(c, S) = Blank(d, S) /\ NotHttps(c, H) = NotHttps(d, H)
      /\ Blank(c, B) = Blank(d, B)
      /\ SecretIssues(c) = SecretIssues(d)
      /\ DatabaseUrlIssues(c) = DatabaseUrlIssues(d)
      /\ RedisUrlIssues(c) = RedisUrlIssues(d)
  <2>1. S \subseteq SettingNames \ {"env"} /\ H \subseteq SettingNames \ {"env"}
        /\ B \subseteq SettingNames \ {"env"}
    BY DEF SettingNames
  <2> HIDE DEF S, H, B
  <2> QED BY <2>1, SameIssues
<1>3. /\ c.profile = d.profile /\ c.auth_provider = d.auth_provider
      /\ c.auth_enabled = d.auth_enabled /\ c.oidc_algorithms = d.oidc_algorithms
      /\ c.secret_key = d.secret_key /\ c.allowed_origins = d.allowed_origins
      /\ c.secure_cookies = d.secure_cookies /\ c.audit_log_enabled = d.audit_log_enabled
      /\ c.file_storage_backend = d.file_storage_backend /\ c.endpoint = d.endpoint
  BY DEF SettingNames
<1>4. Flag("auth_provider", EnvOf(d) = "staging" /\ d.auth_provider = "oidc-test") = {}
      /\ Flag("public_base_url", EnvOf(d) = "staging" /\ d.public_base_url # "https") = {}
  BY DEF Flag
<1>5. SaasIssues(d) \subseteq SaasIssues(c)
  BY <1>2, <1>3, <1>4 DEF SaasIssues, IsSaas
<1> QED BY <1>1, <1>5

\* Settings that boot under the environment a check assumes boot without one.
LEMMA BootsWithoutEnv ==
    ASSUME NEW e \in Environments, IsSaas(e), NEW default \in {"staging", "production"},
           Boots(WithDefaultEnv(e, default))
    PROVE  Boots(e)
<1>1. CASE e.env # "unset"
  BY <1>1 DEF WithDefaultEnv
<1>2. CASE e.env = "unset"
  <2> DEFINE f == [e EXCEPT !.env = default]
  <2>1. /\ e = [n \in SettingNames |-> e[n]]
        /\ f = [n \in SettingNames |-> IF n = "env" THEN default ELSE e[n]]
    BY StartUpAssumption DEF SettingNames
  <2>2. IsProduction(e) /\ e.profile = "production-saas"
    BY DEF IsSaas, IsProduction
  <2>3. f.profile = "production-saas"
    BY <2>1, <2>2 DEF SettingNames
  <2> HIDE DEF f
  <2>4. IsProduction(f)
    BY <2>3 DEF IsProduction
  <2>5. \A n \in SettingNames \ {"env"} : Defaults(f)[n] = Defaults(e)[n]
    BY <2>1, <2>2, <2>4 DEF Defaults
  <2>6. EnvOf(Defaults(e)) = "development"
    <3>1. Defaults(e).env = "unset"
      BY <1>2, <2>1, <2>2 DEF Defaults, SettingNames
    <3> QED BY <3>1 DEF EnvOf
  <2>7. Boots(f)
    BY <1>2 DEF WithDefaultEnv, f
  <2> QED BY <2>5, <2>6, <2>7, DevelopmentIsLenient DEF Boots
<1> QED BY <1>1, <1>2

\* A readiness check that passes a production-saas environment means that
\* Settings accepts it.
LEMMA ReadyBoots ==
    ASSUME NEW d \in Deployments, d.settings.saas, d.ready # {}
    PROVE  d.settings.boots
<1>1. PICK e \in Environments : d = [settings |-> Load(e), ready |-> ReadyChecks(e)]
  BY DEF Deployments
<1>2. d.settings.saas = IsSaas(e) /\ d.settings.boots = Boots(e) /\ d.ready = ReadyChecks(e)
  BY <1>1 DEF Load
<1>3. IsSaas(e) /\ [e EXCEPT !.profile = "production-saas"] = e
  BY <1>2, ForcedProfile
<1>4. \/ ConfigCheckReady(e) \/ StagingCheckReady(e) \/ ManagedCheckReady(e)
  BY <1>2 DEF ReadyChecks, Flag
<1>5. CASE ConfigCheckReady(e)
  BY <1>2, <1>3, <1>5 DEF ConfigCheckReady
<1>6. CASE StagingCheckReady(e)
  <2>1. Boots(WithDefaultEnv(e, "staging"))
    BY <1>3, <1>6 DEF StagingCheckReady
  <2> QED BY <1>2, <1>3, <2>1, BootsWithoutEnv
<1>7. CASE ManagedCheckReady(e)
  <2>1. Boots(WithDefaultEnv(e, "production"))
    BY <1>3, <1>7 DEF ManagedCheckReady
  <2> QED BY <1>2, <1>3, <2>1, BootsWithoutEnv
<1> QED BY <1>4, <1>5, <1>6, <1>7

\* A deployment starts hardened, with the tables of its version, and nobody serves.
LEMMA InitInv == Init => IInv
<1> SUFFICES ASSUME Init PROVE IInv
  OBVIOUS
<1> USE StartUpAssumption DEF Init
<1>1. PICK d \in Deployments : settings = d.settings /\ ready = d.ready
  OBVIOUS
<1>2. Hardening
  BY <1>1, DeploymentsHardened DEF Hardening
<1>3. Schema
  <2>1. PICK n \in version .. HeadRevision : tables = 1 .. n
    OBVIOUS
  <2> QED BY <2>1 DEF Schema
<1>4. TypeOK
  BY <1>1, <1>3, DeploymentsHardened DEF TypeOK, Schema
<1>5. Refusals
  BY <1>1, ReadyBoots DEF Refusals
<1> QED BY <1>2, <1>3, <1>4, <1>5 DEF IInv, Migrated

\* The step of a commit: the newest version, and the tables that were missing.
LEMMA CommitSchema ==
    ASSUME Schema, NEW r \in Replicas, CommitUpgrade(r)
    PROVE  Schema' /\ version' = HeadRevision
  BY StartUpAssumption DEF Schema, CommitUpgrade, Upgraded

\* Every step keeps types, schema and what past the migrations is relied on.
LEMMA StepInv ==
    ASSUME IInv, [Next]_vars
    PROVE  IInv'
<1> USE StartUpAssumption 
         DEF IInv, TypeOK, Hardening, Schema, Migrated, Refusals, Goto,
             deployment, services, database, probing
<1>1. CASE UNCHANGED vars
  BY <1>1 DEF vars
<1>2. ASSUME NEW r \in Replicas, Boot(r) PROVE IInv'
  BY <1>2 DEF Boot, AfterMigrations, Starting, Exited
<1>3. ASSUME NEW r \in Replicas, ReadVersion(r) PROVE IInv'
  BY <1>3 DEF ReadVersion, Starting, Exited
<1>4. ASSUME NEW r \in Replicas, Upgrade(r) PROVE IInv'
  <2>1. CommitUpgrade(r) /\ seen' = [seen EXCEPT ![r] = 0]
    BY <1>4 DEF Upgrade, CommitUpgrade
  <2>2. Schema' /\ version' = HeadRevision
    BY <2>1, CommitSchema
  <2> QED BY <1>4, <2>1, <2>2 DEF Upgrade, AfterMigrations, Starting, Exited
<1>5. ASSUME NEW r \in Replicas, UpgradeFails(r) PROVE IInv'
  BY <1>5 DEF UpgradeFails, Starting, Exited
<1>6. ASSUME NEW r \in Replicas, CommitAnswerLost(r) PROVE IInv'
  <2>1. CommitUpgrade(r) /\ seen' = [seen EXCEPT ![r] = 0]
    BY <1>6 DEF CommitAnswerLost, CommitUpgrade
  <2>2. Schema' /\ version' = HeadRevision
    BY <2>1, CommitSchema
  <2> QED BY <1>6, <2>1, <2>2 DEF CommitAnswerLost, Starting, Exited
<1>7. ASSUME NEW r \in Replicas, InitTenancy(r) PROVE IInv'
  BY <1>7 DEF InitTenancy, Starting, Exited
<1>8. ASSUME NEW r \in Replicas, StartFails(r) PROVE IInv'
  BY <1>8 DEF StartFails, Starting, Exited
<1>9. ASSUME NEW r \in Replicas, Restart(r) PROVE IInv'
  BY <1>9 DEF Restart, Starting, Exited
<1>10. ASSUME NEW r \in Replicas, Crash(r) PROVE IInv'
  BY <1>10 DEF Crash, Starting, Exited
<1>11. ASSUME NEW s \in {"postgres", "redis"}, Outage(s) \/ Recover(s) PROVE IInv'
  BY <1>11 DEF Outage, Recover
<1>12. ASSUME NEW r \in Replicas, ProbePostgres(r) PROVE IInv'
  BY <1>12 DEF ProbePostgres, Found
<1>13. ASSUME NEW r \in Replicas, ProbeRedis(r) PROVE IInv'
  BY <1>13 DEF ProbeRedis, AnswerOf
<1> QED
  BY <1>1, <1>2, <1>3, <1>4, <1>5, <1>6, <1>7, <1>8, <1>9, <1>10, <1>11, <1>12, <1>13
     DEF Next, Start

\* ServesHardened: what lifespan lets serve outside the local lab is on the newest
\* schema and hardened, for all environments, replicas, crashes and outages.
THEOREM ServingIsHardened == Spec => []ServesHardened
<1>1. IInv => ServesHardened
  BY DEF IInv, Migrated, Schema, Hardening, ServesHardened
<1> QED BY <1>1, InitInv, StepInv, PTL DEF Spec

\* ReadyIsNotRefused: an environment that config_check, staging_check or
\* managed_services found READY makes replicas that Settings does not refuse,
\* whichever environment it is.
THEOREM ReadyNotRefused == Spec => []ReadyIsNotRefused
<1>1. IInv => ReadyIsNotRefused
  BY DEF IInv, Refusals, ReadyIsNotRefused
<1> QED BY <1>1, InitInv, StepInv, PTL DEF Spec

\* TypeOK of the start-up, for all environments and replicas.
THEOREM StartUpTypes == Spec => []TypeOK
<1>1. IInv => TypeOK
  BY DEF IInv
<1> QED BY <1>1, InitInv, StepInv, PTL DEF Spec

----------------------------------------------------------------------------
\* The live checks.
\* A key that does not begin with a slash is its own lstrip.
LEMMA NothingToStrip ==
    ASSUME NEW S, NEW k \in Seq(S), Len(k) >= 1, k[1] # EmptySegment
    PROVE  LStrip(k) = k
<1> DEFINE filled == {i \in DOMAIN k : k[i] # EmptySegment}
<1>1. Len(k) \in Nat /\ DOMAIN k = 1 .. Len(k)
  BY LenProperties
<1>2. 1 \in filled /\ \A j \in filled : j \in Nat /\ 1 <= j
  BY <1>1
<1> HIDE DEF filled
<1>3. (CHOOSE i \in filled : \A j \in filled : i <= j) = 1
  <2>1. \A i \in filled : (\A j \in filled : i <= j) => i = 1
    BY <1>2
  <2> QED BY <1>2, <2>1
<1>4. SubSeq(k, 1, Len(k)) = k
  BY SubSeqFull
<1>5. filled # {}
  BY <1>2
<1> QED BY <1>3, <1>4, <1>5 DEF LStrip, filled

\* The first two parts of a sequence.
LEMMA FirstTwo ==
    ASSUME NEW S, NEW s \in Seq(S), Len(s) >= 2, NEW x, NEW y
    PROVE  SubSeq(s, 1, 2) = <<x, y>> <=> s[1] = x /\ s[2] = y
<1>1. \A i \in 1 .. 2 : s[i] \in S
  BY LenProperties
<1>2. /\ SubSeq(s, 1, 2) \in Seq(S) /\ Len(SubSeq(s, 1, 2)) = 2
      /\ SubSeq(s, 1, 2)[1] = s[1] /\ SubSeq(s, 1, 2)[2] = s[2]
  <2>1. /\ SubSeq(s, 1, 2) \in Seq(S) /\ Len(SubSeq(s, 1, 2)) = 2
        /\ \A i \in 1 .. 2 : SubSeq(s, 1, 2)[i] = s[1 + i - 1]
    BY <1>1, SubSeqProperties
  <2> QED BY <2>1
<1>3. ASSUME s[1] = x, s[2] = y
      PROVE  SubSeq(s, 1, 2) = <<x, y>>
  <2>1. x \in S /\ y \in S
    BY <1>1, <1>3
  <2>2. <<x, y>> \in Seq(S) /\ Len(<<x, y>>) = 2 /\ <<x, y>>[1] = x /\ <<x, y>>[2] = y
    BY <2>1
  <2> DEFINE u == SubSeq(s, 1, 2)
             v == <<x, y>>
  <2>3. \A i \in 1 .. 2 : u[i] = v[i]
    BY <1>2, <1>3
  <2>4. u \in Seq(S) /\ v \in Seq(S) /\ Len(u) = 2 /\ Len(v) = 2
    BY <1>2, <2>2
  <2> HIDE DEF u, v
  <2>5. u = v
    BY <2>3, <2>4, SeqEqual
  <2> QED BY <2>5 DEF u, v
<1>4. ASSUME SubSeq(s, 1, 2) = <<x, y>>
      PROVE  s[1] = x /\ s[2] = y
  <2> DEFINE u == SubSeq(s, 1, 2)
  <2>1. u = <<x, y>> /\ u[1] = s[1] /\ u[2] = s[2]
    BY <1>2, <1>4
  <2> HIDE DEF u
  <2> QED BY <2>1
<1> QED BY <1>3, <1>4

\* The parts of a concatenation of four.
LEMMA Parts ==
    ASSUME NEW S, NEW a \in Seq(S), NEW b \in Seq(S), NEW c \in Seq(S), NEW d \in Seq(S),
           NEW e, e = a \o b \o c \o d
    PROVE  /\ e \in Seq(S) /\ Len(e) = Len(a) + Len(b) + Len(c) + Len(d)
           /\ \A i \in 1 .. Len(a) : e[i] = a[i]
           /\ \A i \in 1 .. Len(b) : e[Len(a) + i] = b[i]
           /\ \A i \in 1 .. Len(c) : e[Len(a) + Len(b) + i] = c[i]
<1> DEFINE ab == a \o b
           abc == ab \o c
<1>1. Len(a) \in Nat /\ Len(b) \in Nat /\ Len(c) \in Nat /\ Len(d) \in Nat
  BY LenProperties
<1>2. /\ ab \in Seq(S) /\ Len(ab) = Len(a) + Len(b)
      /\ \A i \in 1 .. Len(a) + Len(b) : ab[i] = IF i <= Len(a) THEN a[i] ELSE b[i - Len(a)]
  BY ConcatProperties
<1> HIDE DEF ab
<1>3. ab \in Seq(S)
  BY <1>2
<1>4. /\ abc \in Seq(S) /\ Len(abc) = Len(ab) + Len(c)
      /\ \A i \in 1 .. Len(ab) + Len(c) : abc[i] = IF i <= Len(ab) THEN ab[i] ELSE c[i - Len(ab)]
  BY ONLY <1>3, c \in Seq(S), ConcatProperties
<1> HIDE DEF abc
<1>5. abc \in Seq(S)
  BY <1>4
<1>6. e = abc \o d
  BY DEF abc, ab
<1>7. /\ e \in Seq(S) /\ Len(e) = Len(abc) + Len(d)
      /\ \A i \in 1 .. Len(abc) + Len(d) : e[i] = IF i <= Len(abc) THEN abc[i] ELSE d[i - Len(abc)]
  BY ONLY <1>5, <1>6, d \in Seq(S), ConcatProperties
<1> USE <1>1, <1>2, <1>4, <1>7
<1>8. \A i \in 1 .. Len(a) : e[i] = a[i]
  OBVIOUS
<1>9. \A i \in 1 .. Len(b) : e[Len(a) + i] = b[i]
  OBVIOUS
<1>10. \A i \in 1 .. Len(c) : e[Len(a) + Len(b) + i] = c[i]
  OBVIOUS
<1> QED BY <1>8, <1>9, <1>10

\* The concatenation of two sequences of one part.
LEMMA TwoParts ==
    ASSUME NEW S, NEW x \in S, NEW y \in S
    PROVE  <<x>> \o <<y>> = <<x, y>>
<1>1. /\ <<x>> \in Seq(S) /\ <<y>> \in Seq(S) /\ Len(<<x>>) = 1 /\ Len(<<y>>) = 1
      /\ <<x>>[1] = x /\ <<y>>[1] = y
  OBVIOUS
<1>2. /\ <<x>> \o <<y>> \in Seq(S) /\ Len(<<x>> \o <<y>>) = 2
      /\ (<<x>> \o <<y>>)[1] = x /\ (<<x>> \o <<y>>)[2] = y
  <2>1. Len(<<x>> \o <<y>>) = Len(<<x>>) + Len(<<y>>)
    BY <1>1, ConcatProperties
  <2> QED BY <1>1, <2>1, ConcatProperties
<1>3. <<x, y>> \in Seq(S) /\ Len(<<x, y>>) = 2
  OBVIOUS
<1>4. \A i \in 1 .. 2 : (<<x>> \o <<y>>)[i] = <<x, y>>[i]
  BY <1>2
<1> QED BY <1>2, <1>3, <1>4, SeqEqual

\* The object of the checks: prefix, "tenants" unless the prefix ends so, tenant, key.
LEMMA HealthObjectIs ==
    ASSUME prefix \in Seq(STRING)
    PROVE  \E m \in {<<>>, <<"tenants">>} :
              /\ HealthObject = prefix \o m \o HealthTenant \o HealthKey
              /\ prefix = <<>> => m = <<"tenants">>
              /\ prefix = <<"tenants">> => m = <<>>
<1>1. HealthKey \in Seq(STRING) /\ HealthKey # <<>> /\ HealthKey[1] # EmptySegment
      /\ HealthKey[1] # TENANT_KEY_SEGMENT
  BY ManagedAssumption
<1>2. Len(HealthKey) >= 1
  BY <1>1, EmptySeq
<1>3. LStrip(HealthKey) = HealthKey
  BY <1>1, <1>2, NothingToStrip
<1>4. HealthObject = BuildTenantObjectKey(HealthTenant, HealthKey)
  BY <1>1 DEF HealthObject, ObjectKey
<1> DEFINE scoped == prefix # <<>> /\ prefix[Len(prefix)] \in EndsInTenants
           m == IF scoped THEN <<>> ELSE <<"tenants">>
<1>5. HealthObject = prefix \o m \o HealthTenant \o HealthKey
  BY <1>3, <1>4 DEF BuildTenantObjectKey, TENANT_KEY_SEGMENT
<1>6. prefix = <<"tenants">> => scoped
  BY DEF EndsInTenants, TENANT_KEY_SEGMENT
<1>7. prefix = <<>> => ~scoped
  OBVIOUS
<1> HIDE DEF scoped
<1> QED BY <1>5, <1>6, <1>7

\* What the checks see of their key tells the prefix, and a key that they find in
\* scope is one that the backends accept.
LEMMA ScopeOfKey ==
    ASSUME prefix \in Seq(STRING)
    PROVE  /\ KeyInScope <=> PrefixUsable \/ PrefixOfChecks
           /\ KeyInScope => ResolveObjectKey(HealthTenant, HealthKey) = "ok"
<1> DEFINE K == HealthObject
           id == HealthTenant[1]
           S == STRING \union {"tenants"}
<1>0. /\ HealthTenant \in Seq(S) /\ HealthKey \in Seq(S) /\ prefix \in Seq(S)
      /\ "tenants" \in S
  <2>1. HealthTenant \in Seq(STRING) /\ HealthKey \in Seq(STRING) /\ STRING \subseteq S
    BY ManagedAssumption
  <2>2. "tenants" \in S
    OBVIOUS
  <2> HIDE DEF S
  <2> QED BY <2>1, <2>2, SeqMonotonic
<1> HIDE DEF S
<1>1. /\ HealthTenant \in Seq(S) /\ Len(HealthTenant) = 1 /\ id # EmptySegment
      /\ HealthKey \in Seq(S) /\ HealthKey # <<>>
  BY <1>0, ManagedAssumption
<1>2. /\ Len(HealthKey) \in Nat \ {0} /\ Len(prefix) \in Nat /\ id \in S
  <2>1. Len(HealthKey) \in Nat \ {0} /\ Len(prefix) \in Nat
    BY <1>0, <1>1, EmptySeq, LenProperties
  <2>2. HealthTenant \in [1 .. 1 -> S]
    BY <1>1, LenProperties
  <2> QED BY <2>1, <2>2
<1>3. HealthTenant = <<id>> /\ <<id>> \in Seq(S)
  BY <1>1, <1>2
<1>4. PICK m \in {<<>>, <<"tenants">>} :
              /\ K = prefix \o m \o HealthTenant \o HealthKey
              /\ prefix = <<>> => m = <<"tenants">>
              /\ prefix = <<"tenants">> => m = <<>>
  BY HealthObjectIs
<1>5. m \in Seq(S) /\ Len(m) \in {0, 1} /\ (m = <<>> => Len(m) = 0)
      /\ (m = <<"tenants">> => Len(m) = 1 /\ m[1] = "tenants")
  <2>1. CASE m = <<>>
    BY <2>1
  <2>2. CASE m = <<"tenants">>
    <3>1. <<"tenants">> \in Seq(S) /\ Len(<<"tenants">>) = 1 /\ <<"tenants">>[1] = "tenants"
      BY <1>0
    <3>2. <<"tenants">> # <<>>
      OBVIOUS
    <3> QED BY <2>2, <3>1, <3>2
  <2> QED BY <2>1, <2>2
<1>6. /\ K \in Seq(S) /\ Len(K) = Len(prefix) + Len(m) + Len(HealthTenant) + Len(HealthKey)
      /\ \A i \in 1 .. Len(prefix) : K[i] = prefix[i]
      /\ \A i \in 1 .. Len(m) : K[Len(prefix) + i] = m[i]
      /\ \A i \in 1 .. Len(HealthTenant) : K[Len(prefix) + Len(m) + i] = HealthTenant[i]
  <2>1. m \in Seq(S)
    BY <1>5
  <2>2. HealthTenant \in Seq(S) /\ HealthKey \in Seq(S)
    BY <1>1
  <2> HIDE DEF K
  <2>3. K = prefix \o m \o HealthTenant \o HealthKey
    BY <1>4
  <2> QED BY ONLY <2>1, <2>2, <2>3, <1>0, Parts, SMTT(30)
<1> HIDE DEF K, id
<1>7. /\ K[Len(prefix) + Len(m) + 1] = id /\ Len(m) \in Nat /\ Len(K) \in Nat
      /\ Len(K) = Len(prefix) + Len(m) + 1 + Len(HealthKey)
      /\ Len(m) = 1 => K[Len(prefix) + 1] = m[1]
  BY <1>1, <1>2, <1>5, <1>6 DEF id
<1>8. Len(K) >= 2 /\ (prefix = <<>> \/ Len(prefix) >= 2 => Len(K) >= 3)
      /\ (prefix = <<"tenants">> => Len(K) >= 3)
  BY <1>2, <1>4, <1>5, <1>7
<1>9. <<TENANT_KEY_SEGMENT>> \o HealthTenant = <<"tenants", id>>
  <2>1. "tenants" \in S /\ id \in S
    BY <1>0, <1>2
  <2>2. <<"tenants">> \o <<id>> = <<"tenants", id>>
    BY ONLY <2>1, TwoParts
  <2> QED BY ONLY <2>2, <1>3 DEF TENANT_KEY_SEGMENT
<1>10. KeyInScope <=> K[1] = "tenants" /\ K[2] = id
  <2>1. SubSeq(K, 1, 2) = <<"tenants", id>> <=> K[1] = "tenants" /\ K[2] = id
    <3>1. K \in Seq(S) /\ Len(K) >= 2
      BY <1>6, <1>8
    <3> QED BY ONLY <3>1, FirstTwo
  <2> QED BY ONLY <2>1, <1>9 DEF KeyInScope, K
<1>11. PrefixOfChecks <=> Len(prefix) >= 2 /\ prefix[1] = "tenants" /\ prefix[2] = id
  <2>1. Len(prefix) >= 2 => (SubSeq(prefix, 1, 2) = <<"tenants", id>>
                               <=> prefix[1] = "tenants" /\ prefix[2] = id)
    BY <1>0, FirstTwo
  <2> QED BY ONLY <2>1, <1>9 DEF PrefixOfChecks
<1>12. PrefixUsable <=> prefix = <<>> \/ prefix = <<"tenants">>
  BY DEF PrefixUsable, TENANT_KEY_SEGMENT
<1>13. KeyInScope <=> PrefixUsable \/ PrefixOfChecks
  <2>1. CASE prefix = <<>>
    <3>1. Len(prefix) = 0 /\ Len(m) = 1 /\ m[1] = "tenants"
      BY <2>1, <1>4, <1>5
    <3>2. K[1] = "tenants" /\ K[2] = id
      BY <3>1, <1>7
    <3> QED BY <2>1, <3>2, <1>10, <1>12
  <2>2. CASE Len(prefix) = 1
    <3>1. K[1] = prefix[1] /\ prefix = <<prefix[1]>>
      BY <2>2, <1>6
    <3>2. prefix = <<"tenants">> => K[2] = id
      <4>1. prefix = <<"tenants">> => Len(m) = 0
        BY <1>4, <1>5
      <4> QED BY <4>1, <2>2, <1>7
    <3>3. prefix = <<"tenants">> <=> prefix[1] = "tenants"
      BY <3>1
    <3>4. prefix # <<>>
      BY ONLY <2>2
    <3> QED BY <2>2, <3>1, <3>2, <3>3, <3>4, <1>10, <1>11, <1>12
  <2>3. CASE Len(prefix) >= 2
    <3>1. K[1] = prefix[1] /\ K[2] = prefix[2]
      BY <2>3, <1>2, <1>6
    <3>2. prefix # <<>> /\ prefix # <<"tenants">>
      <4> DEFINE n == Len(prefix)
      <4>1. (prefix = <<>> => n = 0) /\ (prefix = <<"tenants">> => n = 1)
        BY ONLY TRUE
      <4>2. n >= 2
        BY ONLY <2>3
      <4> HIDE DEF n
      <4>3. n # 0 /\ n # 1
        BY ONLY <4>2
      <4> QED BY ONLY <4>1, <4>3
    <3> QED BY <2>3, <3>1, <3>2, <1>10, <1>11, <1>12
  <2>4. prefix # <<>> => Len(prefix) \in Nat \ {0}
    BY <1>0, EmptySeq
  <2>5. ASSUME prefix # <<>>
        PROVE  Len(prefix) = 1 \/ Len(prefix) >= 2
    <3> DEFINE n == Len(prefix)
    <3>1. n \in Nat \ {0}
      BY <2>4, <2>5
    <3> HIDE DEF n
    <3>2. n = 1 \/ n >= 2
      BY ONLY <3>1
    <3> QED BY <3>2 DEF n
  <2> QED BY <2>1, <2>2, <2>3, <2>5
<1>14. ASSUME KeyInScope
       PROVE  ResolveObjectKey(HealthTenant, HealthKey) = "ok"
  <2>1. Len(K) >= 3
    BY <1>8, <1>11, <1>12, <1>13, <1>14
  <2>2. LStrip(K) = K
    <3>1. "tenants" # EmptySegment
      BY Zenon DEF EmptySegment
    <3>2. K[1] # EmptySegment
      BY <3>1, <1>10, <1>14
    <3> QED BY <3>2, <1>6, <1>8, NothingToStrip
  <2>3. ExtractTenant(K) = <<id>>
    BY <1>1, <1>10, <1>14, <2>1, <2>2 DEF ExtractTenant, TENANT_KEY_SEGMENT
  <2>4. HealthTenant # <<>> /\ <<id>> # <<>>
    BY <1>3
  <2> QED
    BY <1>3, <2>3, <2>4
    DEF ResolveObjectKey, AssertTenantObjectAccess, K, HealthObject
<1> QED BY <1>13, <1>14

\* A call that has an effect is on a key of its tenant.
LEMMA ReachesOwn ==
    ASSUME NEW t, NEW k, Reaches(t, k)
    PROVE  ExtractTenant(ObjectKey(t, k)) = t /\ t # <<>>
  BY DEF Reaches, ResolveObjectKey, AssertTenantObjectAccess

\* The object that a step adds to the history is one that the caller reaches.
LEMMA TouchedOwn ==
    ASSUME [ChecksNext]_checksVars, NEW x \in touched' \ touched
    PROVE  \E t, k : Reaches(t, k) /\ x = <<t, ObjectKey(t, k)>>
<1>1. ASSUME NEW op, NEW t, NEW k, Perform(op, t, k), Reaches(t, k)
      PROVE  \E u, l : Reaches(u, l) /\ x = <<u, ObjectKey(u, l)>>
  BY <1>1 DEF Perform
<1>2. CASE UNCHANGED touched
  BY <1>2
<1>3. ASSUME NEW c \in Checks, CheckStorage(c) \/ Fault(c)
      PROVE  UNCHANGED touched
             \/ (Perform(at[c], HealthTenant, HealthKey) /\ Reaches(HealthTenant, HealthKey))
  BY <1>3 DEF CheckStorage, Fault, ProbeAccepted, PerformProbe, bucket
<1>4. CASE TenantNext
  <2>1. CASE TenantCallFails
    BY <2>1, <1>2 DEF TenantCallFails, bucket
  <2>2. ASSUME NEW t \in Tenants, NEW k \in Keys, TenantCall(t, k)
        PROVE  \E u, l : Reaches(u, l) /\ x = <<u, ObjectKey(u, l)>>
    BY <2>2, <1>1 DEF TenantCall
  <2> QED BY <1>4, <2>1, <2>2 DEF TenantNext
<1>5. ASSUME NEW c \in Checks, Begin(c) \/ Query(c) \/ SetProbe(c) \/ GetProbe(c)
                \/ DeleteProbe(c) \/ CheckSecret(c) \/ CheckJwks(c) \/ Kill(c)
      PROVE  UNCHANGED touched
  BY <1>5
  DEF Begin, Query, SetProbe, GetProbe, DeleteProbe, CheckSecret,
      CheckJwks, Kill, storageVars, bucket
<1>6. CASE Expire \/ UNCHANGED checksVars
  BY <1>6, <1>2 DEF Expire, checksVars, storageVars, bucket
<1> QED BY <1>1, <1>2, <1>3, <1>4, <1>5, <1>6 DEF ChecksNext, Step

\* _resolve_object_key keeps tenants apart: an object that a call for one tenant has an
\* effect on cannot be reached for another, for any keys, tenant ids and prefix at all.
THEOREM TenantsStayApart == ChecksSpec => TenantsApart
<1>1. ASSUME [ChecksNext]_checksVars, NEW x \in touched' \ touched, NEW t, NEW k,
             Reaches(t, k), ObjectKey(t, k) = x[2]
      PROVE  t = x[1]
  <2>1. PICK u, l : Reaches(u, l) /\ x = <<u, ObjectKey(u, l)>>
    BY <1>1, TouchedOwn
  <2> QED BY <1>1, <2>1, ReachesOwn
<1>2. [ChecksNext]_checksVars =>
         [\A x \in touched' \ touched, t \in Tenants \union {HealthTenant},
             k \in Keys \union {HealthKey} :
            Reaches(t, k) /\ ObjectKey(t, k) = x[2] => t = x[1]]_checksVars
  BY <1>1
<1> QED BY <1>2, PTL DEF ChecksSpec, TenantsApart

----------------------------------------------------------------------------
\* Between the put and the delete of the object.
Looking == {"head", "delete"}

\* A run gets to its reads only if its key is accepted.
KeyAccepted ==
    \A c \in Checks : at[c] \in Looking => Reaches(HealthTenant, HealthKey)

\* The only object of the checks' tenant is theirs.
OneHealthObject ==
    \A k \in objects : ExtractTenant(k) = HealthTenant => k = HealthObject

\* Unless a run was cut off or failed, somebody is on the way to the delete.
SomeoneSweeps ==
    ~residue =>
       /\ redisKey # "none" => \E c \in Checks : at[c] \in {"get", "ttl", "del"}
       /\ \A k \in objects :
             ExtractTenant(k) = HealthTenant => \E c \in Checks : at[c] \in Looking

\* A run that is alone finds what it wrote.
LoneRunFinds ==
    \A c \in Checks : alone[c] =>
       /\ at[c] \in Calling => \A d \in Checks \ {c} : at[d] \notin Calling
       /\ at[c] = "get" => redisKey # "none"
       /\ at[c] \in Looking => HealthObject \in objects

\* ... and fails nothing that is healthy.
NoFalseAlarm ==
    \A c \in Checks :
       /\ at[c] = "idle" => failed[c] = {}
       /\ alone[c] /\ ~faulted[c] /\ Healthy => failed[c] = {} /\ at[c] # "not_ready"

\* What a run without failures has found so far is so.
PassesEarned ==
    \A c \in Checks :
       /\ failed[c] = {} /\ at[c] \in {"secret", "jwks", "ready"} => sdk /\ KeyInScope
       /\ failed[c] = {} /\ at[c] \in {"jwks", "ready"} => secretHeld
       /\ at[c] = "ready" => failed[c] = {} /\ jwksAnswer = "keys"

ManagedInductive ==
    ChecksTypeOK /\ KeyAccepted /\ OneHealthObject /\ SomeoneSweeps /\ LoneRunFinds
       /\ NoFalseAlarm /\ PassesEarned

Services == {"postgresql", "redis", "object_storage", "secret_manager", "jwks"}
Places == {"idle", "killed"} \union Calling \union Reports

\* The calls of a run ...
LEMMA CallingIs ==
    Calling = {"connect", "ping", "set", "get", "ttl", "del",
                 "put", "head", "delete", "secret", "jwks"}
<1>1. DOMAIN Lines = 1 .. 11
  BY DEF Lines
<1>2. \A i \in 1 .. 11 : i \in {1, 2, 3, 4, 5, 6, 7, 8, 9, 10, 11}
  OBVIOUS
<1> QED BY <1>1, <1>2 DEF Calling, Lines

\* ... are made one after the other, ...
LEMMA LineAfter ==
    ASSUME NEW i \in 1 .. 10
    PROVE  NextLine(Lines[i]) = Lines[i + 1]
<1>1. DOMAIN Lines = 1 .. 11
  BY DEF Lines
<1>2. \A a, b \in 1 .. 11 : Lines[a] = Lines[b] => a = b
  BY DEF Lines
<1>3. (CHOOSE j \in DOMAIN Lines : Lines[j] = Lines[i]) = i
  BY <1>1, <1>2
<1> QED BY <1>3 DEF NextLine

\* ... in this order.
LEMMA LinesInOrder ==
    /\ NextLine("connect") = "ping" /\ NextLine("ping") = "set"
    /\ NextLine("set") = "get" /\ NextLine("get") = "ttl" /\ NextLine("ttl") = "del"
    /\ NextLine("del") = "put" /\ NextLine("put") = "head"
    /\ NextLine("head") = "delete" /\ NextLine("delete") = "secret"
    /\ NextLine("secret") = "jwks"
<1>1. /\ Lines[1] = "connect" /\ Lines[2] = "ping" /\ Lines[3] = "set"
      /\ Lines[4] = "get" /\ Lines[5] = "ttl" /\ Lines[6] = "del" /\ Lines[7] = "put"
      /\ Lines[8] = "head" /\ Lines[9] = "delete" /\ Lines[10] = "secret"
      /\ Lines[11] = "jwks"
  BY DEF Lines
<1>2. /\ NextLine(Lines[1]) = Lines[2] /\ NextLine(Lines[2]) = Lines[3]
      /\ NextLine(Lines[3]) = Lines[4] /\ NextLine(Lines[4]) = Lines[5]
      /\ NextLine(Lines[5]) = Lines[6] /\ NextLine(Lines[6]) = Lines[7]
      /\ NextLine(Lines[7]) = Lines[8] /\ NextLine(Lines[8]) = Lines[9]
      /\ NextLine(Lines[9]) = Lines[10] /\ NextLine(Lines[10]) = Lines[11]
  BY LineAfter
<1> QED BY <1>1, <1>2

\* Where a run goes when a call succeeds ...
LEMMA PassGoes ==
    ASSUME ChecksTypeOK, NEW c \in Checks, at[c] \in Calling, Pass(c)
    PROVE  /\ at' \in [Checks -> Places] /\ UNCHANGED failed
           /\ \A d \in Checks \ {c} : at'[d] = at[d]
           /\ at[c] = "connect" => at'[c] = "ping"
           /\ at[c] = "ping" => at'[c] = "set"
           /\ at[c] = "set" => at'[c] = "get"
           /\ at[c] = "get" => at'[c] = "ttl"
           /\ at[c] = "ttl" => at'[c] = "del"
           /\ at[c] = "del" => at'[c] = "put"
           /\ at[c] = "put" => at'[c] = "head"
           /\ at[c] = "head" => at'[c] = "delete"
           /\ at[c] = "delete" => at'[c] = "secret"
           /\ at[c] = "secret" => at'[c] = "jwks"
           /\ at[c] = "jwks" => at'[c] = IF failed[c] = {} THEN "ready" ELSE "not_ready"
<1>1. /\ at \in [Checks -> Places] /\ UNCHANGED failed
      /\ at' = [at EXCEPT ![c] = IF at[c] = "jwks" THEN Report(failed[c])
                                 ELSE NextLine(at[c])]
  BY DEF ChecksTypeOK, Pass, Places
<1>2. at'[c] = (IF at[c] = "jwks" THEN Report(failed[c]) ELSE NextLine(at[c]))
  BY <1>1
<1>3. at'[c] \in Places
  BY <1>2, CallingIs, LinesInOrder DEF Places, Report, Reports
<1> QED BY <1>1, <1>2, <1>3, LinesInOrder DEF Report

\* ... and when it fails: it goes on to the next service.
LEMMA FailGoes ==
    ASSUME ChecksTypeOK, NEW c \in Checks, at[c] \in Calling, Fail(c)
    PROVE  /\ at' \in [Checks -> Places]
           /\ failed' \in [Checks -> SUBSET Services]
           /\ failed'[c] # {}
           /\ \A d \in Checks \ {c} : at'[d] = at[d] /\ failed'[d] = failed[d]
           /\ at[c] = "connect" => at'[c] = "ping"
           /\ at[c] \in {"ping", "set", "get", "ttl", "del"} => at'[c] = "put"
           /\ at[c] \in {"put", "head", "delete"} => at'[c] = "secret"
           /\ at[c] = "secret" => at'[c] = "jwks"
           /\ at[c] = "jwks" => at'[c] = "not_ready"
<1>1. /\ at \in [Checks -> Places] /\ failed \in [Checks -> SUBSET Services]
      /\ at' = [at EXCEPT ![c] = IF at[c] = "jwks" THEN "not_ready"
                                 ELSE NextService(at[c])]
      /\ failed' = [failed EXCEPT ![c] = failed[c] \union {Service(at[c])}]
  BY DEF ChecksTypeOK, Fail, Places, Services
<1>2. /\ at[c] = "connect" => Service(at[c]) = "postgresql"
      /\ at[c] \in {"ping", "set", "get", "ttl", "del"} => Service(at[c]) = "redis"
      /\ at[c] \in {"put", "head", "delete"} => Service(at[c]) = "object_storage"
      /\ at[c] = "secret" => Service(at[c]) = "secret_manager"
      /\ at[c] = "jwks" => Service(at[c]) = "jwks"
  BY DEF Service
<1>3. Service(at[c]) \in Services
  BY <1>2, CallingIs DEF Services
<1>4. at[c] # "jwks" =>
         at'[c] = CASE Service(at[c]) = "postgresql" -> "ping"
                    [] Service(at[c]) = "redis" -> "put"
                    [] Service(at[c]) = "object_storage" -> "secret"
                    [] Service(at[c]) = "secret_manager" -> "jwks"
  BY <1>1 DEF NextService
<1>5. /\ at[c] = "connect" => at'[c] = "ping"
      /\ at[c] \in {"ping", "set", "get", "ttl", "del"} => at'[c] = "put"
      /\ at[c] \in {"put", "head", "delete"} => at'[c] = "secret"
      /\ at[c] = "secret" => at'[c] = "jwks"
      /\ at[c] = "jwks" => at'[c] = "not_ready"
  BY <1>1, <1>2, <1>4
<1>6. at'[c] \in Places
  BY <1>5, CallingIs DEF Places, Reports
<1> QED BY <1>1, <1>3, <1>5, <1>6

\* What settings and services give does not change.
LEMMA WorldKept ==
    ASSUME UNCHANGED <<prefix, sdk>>
    PROVE  /\ UNCHANGED HealthObject
           /\ KeyInScope' <=> KeyInScope
           /\ Reaches(HealthTenant, HealthKey)' <=> Reaches(HealthTenant, HealthKey)
           /\ UNCHANGED <<secretHeld, jwksAnswer>> => (Healthy' <=> Healthy)
<1>1. UNCHANGED HealthObject
  BY DEF HealthObject, ObjectKey, BuildTenantObjectKey
<1>2. KeyInScope' <=> KeyInScope
  BY <1>1 DEF KeyInScope
<1>3. Reaches(HealthTenant, HealthKey)' <=> Reaches(HealthTenant, HealthKey)
  BY DEF Reaches, ResolveObjectKey, ObjectKey, BuildTenantObjectKey
<1>4. UNCHANGED <<secretHeld, jwksAnswer>> => (Healthy' <=> Healthy)
  BY DEF Healthy, PrefixUsable, PrefixOfChecks
<1> QED BY <1>1, <1>2, <1>3, <1>4

\* If all is well, the checks reach their object and find its key in scope; what they
\* find in scope they reach, whatever the prefix.
LEMMA HealthyReaches ==
    ASSUME ChecksTypeOK
    PROVE  /\ Healthy => Reaches(HealthTenant, HealthKey) /\ KeyInScope
           /\ sdk /\ KeyInScope => Reaches(HealthTenant, HealthKey)
           /\ KeyInScope <=> PrefixUsable \/ PrefixOfChecks
<1>1. prefix \in Seq(STRING)
  BY ManagedAssumption, StorageAssumption DEF ChecksTypeOK, StorageTypeOK
<1> QED BY <1>1, ScopeOfKey DEF Healthy, Reaches

\* A step of run c leaves the other runs and the world alone, ...
OnlyRun(c) ==
    /\ at' \in [Checks -> Places] /\ failed' \in [Checks -> SUBSET Services]
    /\ faulted' \in [Checks -> BOOLEAN] /\ residue' \in BOOLEAN
    /\ mishaps' \in 0 .. MaxMishaps /\ redisKey' \in {"none", "expiring", "persistent"}
    /\ \A d \in Checks \ {c} :
          at'[d] = at[d] /\ failed'[d] = failed[d] /\ faulted'[d] = faulted[d]
    /\ UNCHANGED <<backend, prefix, sdk, storageCalls, secretHeld, jwksAnswer, alone>>

\* ... writes no object but the checks' own, and leaves a probe only if it, or another
\* run, is still to delete it, ...
ProbesTended(c) ==
    /\ objects' \subseteq objects \union {HealthObject}
    /\ HealthObject \in objects' \ objects => Reaches(HealthTenant, HealthKey)
    /\ at'[c] \in Looking => Reaches(HealthTenant, HealthKey)
    /\ residue => residue'
    /\ ~residue' /\ redisKey' # "none" =>
          at'[c] \in {"get", "ttl", "del"}
          \/ (redisKey # "none" /\ at[c] \notin {"get", "ttl", "del"})
    /\ ~residue' /\ HealthObject \in objects' =>
          at'[c] \in Looking \/ (HealthObject \in objects /\ at[c] \notin Looking)
    /\ alone[c] /\ at'[c] = "get" => redisKey' # "none"
    /\ alone[c] /\ at'[c] \in Looking => HealthObject \in objects'

\* ... and what it makes of its call is right.
Judges(c) ==
    /\ at'[c] # "idle"
    /\ alone[c] /\ ~faulted'[c] /\ Healthy => failed'[c] = {} /\ at'[c] # "not_ready"
    /\ failed'[c] = {} /\ at'[c] \in {"secret", "jwks", "ready"} => sdk /\ KeyInScope
    /\ failed'[c] = {} /\ at'[c] \in {"jwks", "ready"} => secretHeld
    /\ at'[c] = "ready" => failed'[c] = {} /\ jwksAnswer = "keys"

\* The invariant is kept if what it says of the run that moves is.
LEMMA RunStep ==
    ASSUME ManagedInductive, NEW c \in Checks, at[c] \in Calling,
           OnlyRun(c), ProbesTended(c), Judges(c)
    PROVE  ManagedInductive'
<1> USE DEF OnlyRun, ProbesTended, Judges
<1> DEFINE HO == HealthObject
<1>1. /\ UNCHANGED HO /\ (KeyInScope' <=> KeyInScope)
      /\ Reaches(HealthTenant, HealthKey)' <=> Reaches(HealthTenant, HealthKey)
      /\ Healthy' <=> Healthy
  BY WorldKept
<1>2. Reaches(HealthTenant, HealthKey) => ExtractTenant(HO) = HealthTenant
                                            /\ HealthTenant # <<>>
  BY ReachesOwn DEF HealthObject
<1> HIDE DEF HO
<1>3. ChecksTypeOK'
  <2>1. \A k \in objects' : ExtractTenant(k) # <<>>
    BY <1>2 DEF ManagedInductive, ChecksTypeOK, StorageTypeOK, HO
  <2>2. StorageTypeOK'
    BY <2>1 DEF ManagedInductive, ChecksTypeOK, StorageTypeOK
  <2> QED BY <2>2 DEF ManagedInductive, ChecksTypeOK, Places, Services
<1>4. KeyAccepted'
  BY <1>1 DEF ManagedInductive, KeyAccepted
<1>5. OneHealthObject'
  BY <1>1 DEF ManagedInductive, OneHealthObject, HO
<1>6. SomeoneSweeps'
  <2> SUFFICES ASSUME ~residue'
               PROVE  /\ redisKey' # "none" =>
                            \E d \in Checks : at'[d] \in {"get", "ttl", "del"}
                      /\ \A k \in objects' :
                            ExtractTenant(k) = HealthTenant =>
                               \E d \in Checks : at'[d] \in Looking
    BY DEF SomeoneSweeps
  <2>1. ~residue
    BY DEF ManagedInductive, ChecksTypeOK
  <2>2. redisKey' # "none" => \E d \in Checks : at'[d] \in {"get", "ttl", "del"}
    BY <2>1 DEF ManagedInductive, SomeoneSweeps
  <2>3. ASSUME NEW k \in objects', ExtractTenant(k) = HealthTenant
        PROVE  \E d \in Checks : at'[d] \in Looking
    <3>1. k = HO
      BY <2>3 DEF ManagedInductive, OneHealthObject, HO
    <3>2. CASE at'[c] \in Looking
      BY <3>2
    <3>3. CASE HO \in objects /\ at[c] \notin Looking
      <4>1. PICK d \in Checks : at[d] \in Looking
        BY <2>1, <2>3, <3>1, <3>3 DEF ManagedInductive, SomeoneSweeps
      <4> QED BY <4>1, <3>3
    <3> QED BY <2>3, <3>1, <3>2, <3>3 DEF HO
  <2> QED BY <2>2, <2>3
<1>7. LoneRunFinds'
  <2> SUFFICES ASSUME NEW d \in Checks, alone[d]
               PROVE  /\ at'[d] \in Calling =>
                            \A e \in Checks \ {d} : at'[e] \notin Calling
                      /\ at'[d] = "get" => redisKey' # "none"
                      /\ at'[d] \in Looking => HO \in objects'
    BY <1>1 DEF LoneRunFinds, HO
  <2>1. CASE d = c
    <3>1. \A e \in Checks \ {c} : at[e] \notin Calling
      BY <2>1 DEF ManagedInductive, LoneRunFinds
    <3> QED BY <2>1, <3>1 DEF HO
  <2>2. CASE d # c
    <3>1. at[d] \notin Calling
      BY <2>2 DEF ManagedInductive, LoneRunFinds
    <3> QED BY <2>2, <3>1, CallingIs DEF Looking
  <2> QED BY <2>1, <2>2
<1>8. NoFalseAlarm'
  BY <1>1 DEF ManagedInductive, NoFalseAlarm
<1>9. PassesEarned'
  BY <1>1 DEF ManagedInductive, PassesEarned
<1> QED BY <1>3, <1>4, <1>5, <1>6, <1>7, <1>8, <1>9 DEF ManagedInductive

\* SELECT 1, PING, TTL, the secret and the key set: nothing shared changes.
LEMMA QuietKeeps ==
    ASSUME ManagedInductive, NEW c \in Checks,
           Query(c) \/ GetProbe(c) \/ CheckSecret(c) \/ CheckJwks(c)
    PROVE  ManagedInductive'
<1>1. /\ at[c] \in {"connect", "ping", "get", "ttl", "secret", "jwks"}
      /\ UNCHANGED <<backend, prefix, sdk, objects, storageCalls, secretHeld, jwksAnswer,
                     redisKey, alone, faulted, residue, mishaps>>
  BY DEF Query, GetProbe, CheckSecret, CheckJwks, storageVars, storageSettings,
         bucket, world, history
<1>2. at[c] \in Calling /\ ChecksTypeOK
  BY <1>1, CallingIs DEF ManagedInductive
<1>3. /\ alone[c] => (at[c] = "get" => redisKey # "none")
      /\ alone[c] /\ ~faulted[c] /\ Healthy => failed[c] = {}
      /\ failed[c] = {} /\ at[c] \in {"secret", "jwks"} => sdk /\ KeyInScope
      /\ failed[c] = {} /\ at[c] = "jwks" => secretHeld
      /\ Healthy => secretHeld /\ jwksAnswer = "keys"
  BY DEF ManagedInductive, LoneRunFinds, NoFalseAlarm, PassesEarned, Healthy
<1>4. /\ faulted \in [Checks -> BOOLEAN] /\ residue \in BOOLEAN /\ mishaps \in 0 .. MaxMishaps
      /\ redisKey \in {"none", "expiring", "persistent"}
      /\ failed \in [Checks -> SUBSET Services]
  BY <1>2 DEF ChecksTypeOK, Services
<1> DEFINE good == /\ at[c] = "get" => redisKey # "none"
                   /\ at[c] = "secret" => secretHeld
                   /\ at[c] = "jwks" => jwksAnswer = "keys"
           bad == /\ at[c] \in {"get", "secret", "jwks"}
                  /\ at[c] = "get" => redisKey = "none"
                  /\ at[c] = "secret" => ~secretHeld
                  /\ at[c] = "jwks" => jwksAnswer # "keys"
<1>5. (Pass(c) /\ good) \/ (Fail(c) /\ bad)
  BY DEF Query, GetProbe, CheckSecret, CheckJwks, PassOrFail, JwksAcceptable
<1>6. CASE Pass(c) /\ good
  <2>1. /\ at' \in [Checks -> Places] /\ UNCHANGED failed
        /\ \A d \in Checks \ {c} : at'[d] = at[d]
        /\ at[c] = "connect" => at'[c] = "ping"
        /\ at[c] = "ping" => at'[c] = "set"
        /\ at[c] = "get" => at'[c] = "ttl"
        /\ at[c] = "ttl" => at'[c] = "del"
        /\ at[c] = "secret" => at'[c] = "jwks"
        /\ at[c] = "jwks" => at'[c] = IF failed[c] = {} THEN "ready" ELSE "not_ready"
    BY <1>2, <1>6, PassGoes
  <2>2. OnlyRun(c)
    BY <1>1, <1>4, <2>1 DEF OnlyRun
  <2>3. ProbesTended(c)
    <3>1. at[c] \notin Looking /\ at'[c] \notin Looking /\ at'[c] # "get"
      BY <1>1, <2>1 DEF Looking
    <3>2. at[c] \in {"get", "ttl", "del"} => at'[c] \in {"get", "ttl", "del"}
      BY <1>1, <2>1
    <3> QED BY <1>1, <3>1, <3>2 DEF ProbesTended
  <2>4. Judges(c)
    BY <1>1, <1>3, <1>6, <2>1 DEF Judges
  <2> QED BY <1>2, <2>2, <2>3, <2>4, RunStep
<1>7. CASE Fail(c) /\ bad
  <2>1. /\ at' \in [Checks -> Places] /\ failed' \in [Checks -> SUBSET Services]
        /\ failed'[c] # {}
        /\ \A d \in Checks \ {c} : at'[d] = at[d] /\ failed'[d] = failed[d]
        /\ at[c] = "get" => at'[c] = "put"
        /\ at[c] = "secret" => at'[c] = "jwks"
        /\ at[c] = "jwks" => at'[c] = "not_ready"
    BY <1>2, <1>7, FailGoes
  <2>2. OnlyRun(c)
    BY <1>1, <1>4, <2>1 DEF OnlyRun
  <2>3. ProbesTended(c)
    BY <1>1, <1>7, <2>1 DEF ProbesTended, Looking
  <2>4. Judges(c)
    BY <1>1, <1>3, <1>7, <2>1 DEF Judges
  <2> QED BY <1>2, <2>2, <2>3, <2>4, RunStep
<1> QED BY <1>5, <1>6, <1>7

\* SET and DEL.
LEMMA ProbeKeeps ==
    ASSUME ManagedInductive, NEW c \in Checks,
           SetProbe(c) \/ DeleteProbe(c)
    PROVE  ManagedInductive'
<1>1. /\ at[c] \in {"set", "del"} /\ Pass(c)
      /\ redisKey' = IF at[c] = "set" THEN "expiring" ELSE "none"
      /\ UNCHANGED <<backend, prefix, sdk, objects, storageCalls, secretHeld, jwksAnswer,
                     alone, faulted, residue, mishaps>>
  BY DEF SetProbe, DeleteProbe, ProbeSet, storageVars, storageSettings, bucket,
         world, history
<1>2. at[c] \in Calling /\ ChecksTypeOK
  BY <1>1, CallingIs DEF ManagedInductive
<1>3. /\ faulted \in [Checks -> BOOLEAN] /\ residue \in BOOLEAN /\ mishaps \in 0 .. MaxMishaps
      /\ failed \in [Checks -> SUBSET Services]
  BY <1>2 DEF ChecksTypeOK, Services
<1>4. /\ at' \in [Checks -> Places] /\ UNCHANGED failed
      /\ \A d \in Checks \ {c} : at'[d] = at[d]
      /\ at[c] = "set" => at'[c] = "get"
      /\ at[c] = "del" => at'[c] = "put"
  BY <1>1, <1>2, PassGoes
<1>5. OnlyRun(c)
  BY <1>1, <1>3, <1>4 DEF OnlyRun
<1>6. ProbesTended(c)
  BY <1>1, <1>4 DEF ProbesTended, Looking
<1>7. Judges(c)
  BY <1>1, <1>4 DEF Judges, ManagedInductive, NoFalseAlarm
<1> QED BY <1>2, <1>5, <1>6, <1>7, RunStep

\* The object is put, read and deleted.
LEMMA StorageKeeps ==
    ASSUME ManagedInductive, NEW c \in Checks, CheckStorage(c)
    PROVE  ManagedInductive'
<1> DEFINE HO == HealthObject
           reached == Reaches(HealthTenant, HealthKey)
<1>1. /\ at[c] \in {"put", "head", "delete"}
      /\ UNCHANGED <<backend, prefix, sdk, storageCalls, secretHeld, jwksAnswer,
                     redisKey, alone, faulted, residue, mishaps>>
  BY DEF CheckStorage, storageSettings, world, history
<1>2. at[c] \in Calling /\ ChecksTypeOK
  BY <1>1, CallingIs DEF ManagedInductive
<1>3. /\ faulted \in [Checks -> BOOLEAN] /\ residue \in BOOLEAN /\ mishaps \in 0 .. MaxMishaps
      /\ redisKey \in {"none", "expiring", "persistent"}
      /\ failed \in [Checks -> SUBSET Services]
  BY <1>2 DEF ChecksTypeOK, Services
<1>4. /\ at[c] \in Looking => reached
      /\ alone[c] /\ at[c] \in Looking => HO \in objects
      /\ alone[c] /\ ~faulted[c] /\ Healthy => failed[c] = {}
      /\ Healthy => reached /\ KeyInScope
      /\ reached => sdk
  BY <1>2, HealthyReaches
  DEF ManagedInductive, KeyAccepted, LoneRunFinds, NoFalseAlarm, Reaches
<1> DEFINE accepted == /\ reached
                       /\ at[c] = "head" => HO \in objects
                       /\ at[c] = "delete" => HO \in objects \/ backend # "gcs"
<1>5. ProbeAccepted(at[c]) <=> accepted
  BY <1>1 DEF ProbeAccepted, ProviderAccepts
<1>6. PerformProbe(at[c]) =>
         objects' = CASE at[c] = "put" -> objects \union {HO}
                      [] at[c] = "delete" -> objects \ {HO}
                      [] OTHER -> objects
  BY DEF PerformProbe, Perform, HealthObject
<1> DEFINE done == /\ at[c] = "put" => objects' = objects \union {HO}
                   /\ at[c] = "head" => objects' = objects
                   /\ at[c] = "delete" => objects' = objects \ {HO}
<1>7. PerformProbe(at[c]) => done
  BY <1>6
<1>8. \/ accepted /\ done /\ Pass(c) /\ (at[c] = "delete" => KeyInScope)
      \/ accepted /\ done /\ Fail(c) /\ at[c] = "delete" /\ ~KeyInScope
      \/ ~accepted /\ objects' = objects /\ Fail(c)
  BY <1>5, <1>7 DEF CheckStorage, PassOrFail, bucket
<1> HIDE DEF HO, reached
<1>9. CASE accepted /\ done /\ Pass(c) /\ (at[c] = "delete" => KeyInScope)
  <2>1. /\ at' \in [Checks -> Places] /\ UNCHANGED failed
        /\ \A d \in Checks \ {c} : at'[d] = at[d]
        /\ at[c] = "put" => at'[c] = "head"
        /\ at[c] = "head" => at'[c] = "delete"
        /\ at[c] = "delete" => at'[c] = "secret"
    BY <1>2, <1>9, PassGoes
  <2>2. OnlyRun(c)
    BY <1>1, <1>3, <2>1 DEF OnlyRun
  <2>3. ProbesTended(c)
    <3>1. /\ objects' \subseteq objects \union {HO}
          /\ at'[c] # "get" /\ at[c] \notin {"get", "ttl", "del"}
          /\ at'[c] \in Looking => HO \in objects'
          /\ HO \in objects' => at'[c] \in Looking
      BY <1>1, <1>9, <2>1 DEF Looking
    <3> HIDE DEF done
    <3> QED BY <1>1, <1>9, <3>1 DEF ProbesTended, HO, reached
  <2>4. Judges(c)
    BY <1>1, <1>4, <1>9, <2>1 DEF Judges
  <2> QED BY <1>2, <2>2, <2>3, <2>4, RunStep
<1>10. ASSUME Fail(c)
       PROVE  /\ at' \in [Checks -> Places] /\ failed' \in [Checks -> SUBSET Services]
              /\ failed'[c] # {} /\ at'[c] = "secret"
              /\ \A d \in Checks \ {c} : at'[d] = at[d] /\ failed'[d] = failed[d]
  BY <1>1, <1>2, <1>10, FailGoes
<1>11. CASE accepted /\ done /\ Fail(c) /\ at[c] = "delete" /\ ~KeyInScope
  <2>2. OnlyRun(c)
    BY <1>1, <1>3, <1>10, <1>11 DEF OnlyRun
  <2>3. ProbesTended(c)
    BY <1>1, <1>10, <1>11 DEF ProbesTended, Looking, HO
  <2>4. Judges(c)
    BY <1>4, <1>10, <1>11 DEF Judges
  <2> QED BY <1>2, <2>2, <2>3, <2>4, RunStep
<1>12. CASE ~accepted /\ objects' = objects /\ Fail(c)
  <2>1. at[c] \in Looking => HO \notin objects
    BY <1>4, <1>12 DEF Looking
  <2>2. OnlyRun(c)
    BY <1>1, <1>3, <1>10, <1>12 DEF OnlyRun
  <2>3. ProbesTended(c)
    BY <1>1, <1>10, <1>12, <2>1 DEF ProbesTended, Looking, HO
  <2>4. ~(alone[c] /\ Healthy)
    BY <1>1, <1>4, <1>12, <2>1 DEF Looking
  <2>5. Judges(c)
    BY <1>10, <1>12, <2>4 DEF Judges
  <2> QED BY <1>2, <2>2, <2>3, <2>5, RunStep
<1> QED BY <1>8, <1>9, <1>11, <1>12

\* A call fails, having had its effect or not.
LEMMA FaultKeeps ==
    ASSUME ManagedInductive, NEW c \in Checks, Fault(c)
    PROVE  ManagedInductive'
<1> DEFINE HO == HealthObject
           reached == Reaches(HealthTenant, HealthKey)
<1>1. /\ at[c] \in Calling /\ Fail(c)
      /\ mishaps < MaxMishaps /\ mishaps' = mishaps + 1
      /\ faulted' = [faulted EXCEPT ![c] = TRUE]
      /\ UNCHANGED <<backend, prefix, sdk, storageCalls, secretHeld, jwksAnswer, alone>>
      /\ ChecksTypeOK
  BY DEF Fault, storageSettings, world, ManagedInductive
<1>2. redisKey' \in {redisKey, "expiring", "none"}
  BY DEF Fault, ProbeSet
<1>10. residue' = TRUE
       \/ /\ residue' = residue
          /\ at[c] \notin {"get", "ttl", "del", "set", "put"} \union Looking
          /\ redisKey' # "none" => redisKey # "none"
          /\ objects' = objects
  BY DEF Fault, Tending, Looking, bucket
<1>3. /\ faulted \in [Checks -> BOOLEAN] /\ mishaps \in 0 .. MaxMishaps /\ MaxMishaps \in Nat
      /\ redisKey \in {"none", "expiring", "persistent"}
  BY <1>1, ManagedAssumption DEF ChecksTypeOK
<1>4. /\ objects' \subseteq objects \union {HO}
      /\ HO \in objects' \ objects => reached
  BY DEF Fault, bucket, ProbeAccepted, PerformProbe, Perform, HealthObject
<1>5. /\ at' \in [Checks -> Places] /\ failed' \in [Checks -> SUBSET Services]
      /\ failed'[c] # {}
      /\ \A d \in Checks \ {c} : at'[d] = at[d] /\ failed'[d] = failed[d]
      /\ at'[c] \in {"ping", "put", "secret", "jwks", "not_ready"}
  BY <1>1, FailGoes, CallingIs
<1> HIDE DEF HO, reached
<1>6. faulted' \in [Checks -> BOOLEAN] /\ faulted'[c] = TRUE
      /\ \A d \in Checks \ {c} : faulted'[d] = faulted[d]
  BY <1>1, <1>3
<1>11. residue \in BOOLEAN /\ residue' \in BOOLEAN /\ (residue => residue')
  BY <1>1, <1>10 DEF ChecksTypeOK
<1>7. OnlyRun(c)
  BY <1>1, <1>2, <1>3, <1>5, <1>6, <1>11 DEF OnlyRun
<1>8. ProbesTended(c)
  BY <1>1, <1>4, <1>5, <1>10, <1>11 DEF ProbesTended, Looking, HO, reached
<1>9. Judges(c)
  BY <1>5, <1>6 DEF Judges
<1> QED BY <1>1, <1>7, <1>8, <1>9, RunStep

\* A run is cut off: if it was to delete a probe, residue excuses what it leaves.
LEMMA KillKeeps ==
    ASSUME ManagedInductive, NEW c \in Checks, Kill(c)
    PROVE  ManagedInductive'
<1>1. /\ at[c] \in Calling /\ at' = [at EXCEPT ![c] = "killed"]
      /\ residue' = TRUE
         \/ (residue' = residue /\ at[c] \notin {"get", "ttl", "del"} \union Looking)
      /\ mishaps < MaxMishaps /\ mishaps' = mishaps + 1
      /\ UNCHANGED <<backend, prefix, sdk, objects, storageCalls, secretHeld, jwksAnswer,
                     redisKey, failed, alone, faulted>>
      /\ ChecksTypeOK
  BY DEF Kill, Tending, Looking, storageVars, storageSettings, bucket, world, ManagedInductive
<1>2. /\ residue \in BOOLEAN
      /\ faulted \in [Checks -> BOOLEAN] /\ mishaps \in 0 .. MaxMishaps /\ MaxMishaps \in Nat
      /\ redisKey \in {"none", "expiring", "persistent"}
      /\ failed \in [Checks -> SUBSET Services] /\ at \in [Checks -> Places]
  BY <1>1, ManagedAssumption DEF ChecksTypeOK, Services, Places
<1>3. at' \in [Checks -> Places] /\ at'[c] = "killed"
      /\ \A d \in Checks \ {c} : at'[d] = at[d]
  BY <1>1, <1>2 DEF Places
<1>7. residue' \in BOOLEAN /\ (residue => residue')
  BY <1>1, <1>2
<1>8. mishaps' \in 0 .. MaxMishaps
  BY <1>1, <1>2
<1>4. OnlyRun(c)
  BY <1>1, <1>2, <1>3, <1>7, <1>8 DEF OnlyRun
<1>5. ProbesTended(c)
  <2>1. at'[c] \notin {"get"} \union Looking
    BY <1>3 DEF Looking
  <2>2. CASE residue' = TRUE
    BY <1>1, <1>7, <2>1, <2>2 DEF ProbesTended
  <2>3. CASE at[c] \notin {"get", "ttl", "del"} \union Looking
    BY <1>1, <1>7, <2>1, <2>3 DEF ProbesTended
  <2> QED BY <1>1, <2>2, <2>3
<1>6. Judges(c)
  BY <1>1, <1>3 DEF Judges, ManagedInductive, NoFalseAlarm
<1> QED BY <1>1, <1>4, <1>5, <1>6, RunStep

\* A run begins: whoever is calling is not alone any more.
LEMMA BeginKeeps ==
    ASSUME ManagedInductive, NEW c \in Checks, Begin(c)
    PROVE  ManagedInductive'
<1> DEFINE others == {d \in Checks \ {c} : at[d] \in Calling}
<1>1. /\ at[c] = "idle" /\ at' = [at EXCEPT ![c] = "connect"]
      /\ alone' = [d \in Checks |-> IF d = c THEN others = {} ELSE alone[d] /\ d \notin others]
      /\ UNCHANGED <<backend, prefix, sdk, objects, storageCalls, secretHeld, jwksAnswer,
                     redisKey, failed, faulted, residue, mishaps>>
  BY DEF Begin, storageVars, storageSettings, bucket, world
<1>2. /\ ChecksTypeOK /\ at \in [Checks -> Places] /\ alone \in [Checks -> BOOLEAN]
      /\ failed[c] = {}
  BY <1>1 DEF ManagedInductive, ChecksTypeOK, Places, NoFalseAlarm
<1>3. /\ at'[c] = "connect" /\ "connect" \in Calling /\ "idle" \notin Calling
      /\ \A d \in Checks \ {c} : at'[d] = at[d]
      /\ \A d \in Checks \ {c} : alone'[d] => alone[d] /\ at[d] \notin Calling
      /\ alone'[c] => \A d \in Checks \ {c} : at[d] \notin Calling
      /\ at' \in [Checks -> Places] /\ alone' \in [Checks -> BOOLEAN]
  BY <1>1, <1>2, CallingIs DEF Places
<1>4. /\ UNCHANGED HealthObject /\ (KeyInScope' <=> KeyInScope)
      /\ Reaches(HealthTenant, HealthKey)' <=> Reaches(HealthTenant, HealthKey)
      /\ Healthy' <=> Healthy
  BY <1>1, WorldKept
<1> HIDE DEF others
<1>5. ChecksTypeOK'
  BY <1>1, <1>2, <1>3 DEF ChecksTypeOK, StorageTypeOK, Places
<1>6. KeyAccepted'
  BY <1>3, <1>4 DEF ManagedInductive, KeyAccepted, Looking
<1>7. OneHealthObject'
  BY <1>1, <1>4 DEF ManagedInductive, OneHealthObject
<1>8. SomeoneSweeps'
  BY <1>1, <1>3 DEF ManagedInductive, SomeoneSweeps, Looking
<1>9. LoneRunFinds'
  <2> SUFFICES ASSUME NEW d \in Checks, alone'[d]
               PROVE  /\ at'[d] \in Calling =>
                            \A e \in Checks \ {d} : at'[e] \notin Calling
                      /\ at'[d] = "get" => redisKey' # "none"
                      /\ at'[d] \in Looking => HealthObject \in objects'
    BY <1>4 DEF LoneRunFinds
  <2>1. CASE d = c
    BY <1>3, <2>1 DEF Looking
  <2>2. CASE d # c
    <3>1. at'[d] \notin Calling
      BY <1>3, <2>2
    <3> QED BY <3>1, CallingIs DEF Looking
  <2> QED BY <2>1, <2>2
<1>10. NoFalseAlarm'
  BY <1>1, <1>2, <1>3, <1>4 DEF ManagedInductive, NoFalseAlarm
<1>11. PassesEarned'
  BY <1>1, <1>2, <1>3, <1>4 DEF ManagedInductive, PassesEarned
<1> QED BY <1>5, <1>6, <1>7, <1>8, <1>9, <1>10, <1>11 DEF ManagedInductive

\* What else may happen: the runs, their findings and the services stay, the object of
\* the checks too, and the Redis key goes only if nobody is about to read it.
RunsStay ==
    /\ UNCHANGED <<backend, prefix, sdk, secretHeld, jwksAnswer, at, failed, alone, faulted,
                   residue, mishaps>>
    /\ storageCalls' \in 0 .. MaxCalls
    /\ \A k \in objects' \ objects : ExtractTenant(k) \notin {<<>>, HealthTenant}
    /\ Reaches(HealthTenant, HealthKey) /\ HealthObject \in objects =>
          HealthObject \in objects'
    /\ redisKey' \in {redisKey, "none"}
    /\ redisKey' # redisKey => \A c \in Checks : at[c] # "get"

\* ... and the invariant is kept then.
LEMMA RunsStayKeeps ==
    ASSUME ManagedInductive, RunsStay
    PROVE  ManagedInductive'
<1> USE DEF RunsStay
<1>1. /\ UNCHANGED HealthObject /\ (KeyInScope' <=> KeyInScope)
      /\ Reaches(HealthTenant, HealthKey)' <=> Reaches(HealthTenant, HealthKey)
      /\ Healthy' <=> Healthy
  BY WorldKept
<1>2. ChecksTypeOK'
  BY DEF ManagedInductive, ChecksTypeOK, StorageTypeOK
<1>3. KeyAccepted'
  BY <1>1 DEF ManagedInductive, KeyAccepted
<1>4. OneHealthObject'
  BY <1>1 DEF ManagedInductive, OneHealthObject
<1>5. SomeoneSweeps'
  BY DEF ManagedInductive, SomeoneSweeps
<1>6. LoneRunFinds'
  BY <1>1 DEF ManagedInductive, LoneRunFinds, KeyAccepted
<1>7. NoFalseAlarm'
  BY <1>1 DEF ManagedInductive, NoFalseAlarm
<1>8. PassesEarned'
  BY <1>1 DEF ManagedInductive, PassesEarned
<1> QED BY <1>2, <1>3, <1>4, <1>5, <1>6, <1>7, <1>8 DEF ManagedInductive

\* A tenant's call is on an object of its own.
LEMMA TenantStays ==
    ASSUME ManagedInductive, TenantNext,
           UNCHANGED <<world, redisKey, at, failed, history, mishaps>>
    PROVE  RunsStay
<1>1. /\ UNCHANGED <<backend, prefix, sdk, secretHeld, jwksAnswer, redisKey, at, failed, alone,
                     faulted, residue, mishaps>>
      /\ storageCalls < MaxCalls /\ storageCalls' = storageCalls + 1
  BY DEF TenantNext, TenantCall, TenantCallFails, storageSettings, world, history
<1>2. storageCalls' \in 0 .. MaxCalls
  <2>1. storageCalls \in 0 .. MaxCalls /\ MaxCalls \in Nat
    BY ManagedAssumption, StorageAssumption
       DEF ManagedInductive, ChecksTypeOK, StorageTypeOK
  <2> QED BY <1>1, <2>1
<1>3. CASE objects' = objects
  BY <1>1, <1>2, <1>3 DEF RunsStay
<1>4. ASSUME NEW t \in Tenants, NEW k \in Keys, TenantCall(t, k)
      PROVE  RunsStay
  <2> DEFINE K == ObjectKey(t, k)
             HO == HealthObject
  <2>1. ExtractTenant(K) = t /\ t # <<>> /\ t # HealthTenant
    BY <1>4, ReachesOwn, ManagedAssumption DEF TenantCall
  <2>2. Reaches(HealthTenant, HealthKey) => ExtractTenant(HO) = HealthTenant
    BY ReachesOwn DEF HealthObject
  <2>3. objects' \in {objects, objects \union {K}, objects \ {K}}
    BY <1>4 DEF TenantCall, Perform, Operations
  <2> HIDE DEF K, HO
  <2>4. /\ \A x \in objects' \ objects : ExtractTenant(x) \notin {<<>>, HealthTenant}
        /\ Reaches(HealthTenant, HealthKey) /\ HO \in objects => HO \in objects'
    BY <2>1, <2>2, <2>3
  <2> QED BY <1>1, <1>2, <2>4 DEF RunsStay, HO
<1> QED BY <1>3, <1>4 DEF TenantNext, TenantCallFails, bucket

\* Redis drops the key only while nobody is about to read it.
LEMMA ExpireStays ==
    ASSUME ManagedInductive, Expire \/ UNCHANGED checksVars
    PROVE  RunsStay
<1>1. UNCHANGED <<backend, prefix, sdk, objects, storageCalls, secretHeld, jwksAnswer, at,
                  failed, alone, faulted, residue, mishaps>>
  BY DEF Expire, checksVars, storageVars, storageSettings, bucket, world, history
<1>2. storageCalls \in 0 .. MaxCalls
  BY DEF ManagedInductive, ChecksTypeOK, StorageTypeOK
<1>3. redisKey' = redisKey \/ (redisKey' = "none" /\ \A c \in Checks : at[c] # "get")
  BY DEF Expire, checksVars
<1> QED BY <1>1, <1>2, <1>3 DEF RunsStay

\* The inductive invariant of the checks.
LEMMA ManagedInvariant == ChecksSpec => []ManagedInductive
<1>1. ChecksInit => ManagedInductive
  <2> SUFFICES ASSUME ChecksInit PROVE ManagedInductive
    OBVIOUS
  <2> USE DEF ChecksInit
  <2>1. /\ objects = {} /\ storageCalls = 0 /\ backend \in Backends /\ prefix \in Prefixes
        /\ sdk \in BOOLEAN /\ MaxCalls \in Nat /\ MaxMishaps \in Nat
    BY ManagedAssumption, StorageAssumption DEF StorageInit
  <2>2. \A c \in Checks : at[c] = "idle" /\ at[c] \notin Calling
    BY CallingIs
  <2>3. StorageTypeOK
    BY <2>1 DEF StorageTypeOK
  <2>4. ChecksTypeOK
    <3>1. secretHeld \in BOOLEAN /\ residue \in BOOLEAN /\ jwksAnswer \in JwksAnswers
      BY Zenon
    <3>2. alone \in [Checks -> BOOLEAN] /\ faulted \in [Checks -> BOOLEAN]
      OBVIOUS
    <3>3. mishaps \in 0 .. MaxMishaps /\ redisKey \in {"none", "expiring", "persistent"}
      BY <2>1
    <3>4. /\ at \in [Checks -> {"idle", "killed"} \union Calling \union Reports]
          /\ failed \in [Checks -> SUBSET {"postgresql", "redis", "object_storage",
                                           "secret_manager", "jwks"}]
      OBVIOUS
    <3> QED BY ONLY <2>3, <3>1, <3>2, <3>3, <3>4 DEF ChecksTypeOK
  <2>5. KeyAccepted /\ OneHealthObject /\ SomeoneSweeps
    BY <2>1, <2>2 DEF KeyAccepted, OneHealthObject, SomeoneSweeps, Looking
  <2>6. LoneRunFinds
    BY <2>2 DEF LoneRunFinds, Looking
  <2>7. NoFalseAlarm /\ PassesEarned
    BY <2>2 DEF NoFalseAlarm, PassesEarned
  <2> QED BY <2>4, <2>5, <2>6, <2>7 DEF ManagedInductive
<1>2. ManagedInductive /\ [ChecksNext]_checksVars => ManagedInductive'
  <2> SUFFICES ASSUME ManagedInductive, [ChecksNext]_checksVars
               PROVE  ManagedInductive'
    OBVIOUS
  <2>1. ASSUME NEW c \in Checks, Begin(c) \/ Step(c) \/ Fault(c) \/ Kill(c)
        PROVE  ManagedInductive'
    BY <2>1, BeginKeeps, QuietKeeps, ProbeKeeps, StorageKeeps, FaultKeeps, KillKeeps
    DEF Step
  <2>2. CASE Expire \/ UNCHANGED checksVars
    BY <2>2, ExpireStays, RunsStayKeeps
  <2>3. CASE TenantNext /\ UNCHANGED <<world, redisKey, at, failed, history, mishaps>>
    BY <2>3, TenantStays, RunsStayKeeps
  <2> QED BY <2>1, <2>2, <2>3 DEF ChecksNext
<1> QED BY <1>1, <1>2, PTL DEF ChecksSpec

\* The live checks and the tenants of the bucket are type correct, for any keys, tenant
\* ids, prefixes, runs and faults.
THEOREM ManagedTypes == ChecksSpec => []ChecksTypeOK
<1>1. ChecksSpec => []ManagedInductive
  BY ManagedInvariant
<1>2. ManagedInductive => ChecksTypeOK
  BY DEF ManagedInductive
<1> QED BY <1>1, <1>2, PTL

\* run_live_connectivity_checks says "ready" only if SDK, prefix, secret and key set will
\* do, whatever runs, tenants, faults and kills there are beside it; and a run that was
\* alone and had no call fail says "not_ready" only if one of them will not.
THEOREM ReportsAreRight == ChecksSpec => []ReportIsRight
<1>1. ChecksSpec => []ManagedInductive
  BY ManagedInvariant
<1>2. ManagedInductive => ReportIsRight
  <2> SUFFICES ASSUME ManagedInductive, NEW c \in Checks
               PROVE  /\ at[c] = "ready" => Healthy
                      /\ at[c] = "not_ready" /\ alone[c] /\ ~faulted[c] => ~Healthy
    BY DEF ReportIsRight
  <2>1. ASSUME at[c] = "ready" PROVE Healthy
    <3>1. sdk /\ KeyInScope /\ secretHeld /\ jwksAnswer = "keys"
      BY <2>1 DEF ManagedInductive, PassesEarned
    <3>2. PrefixUsable \/ PrefixOfChecks
      BY <3>1, HealthyReaches DEF ManagedInductive
    <3> QED BY <3>1, <3>2 DEF Healthy
  <2> QED BY <2>1 DEF ManagedInductive, NoFalseAlarm
<1> QED BY <1>1, <1>2, PTL

\* Runs share one Redis key and one object, and a failed read skips the deletes; still
\* nothing of the checks stays once all runs are done, unless one was cut off or failed.
THEOREM ProbesAreSwept == ChecksSpec => []ProbesSwept
<1>1. ChecksSpec => []ManagedInductive
  BY ManagedInvariant
<1>2. ManagedInductive => ProbesSwept
  <2>1. {"get", "ttl", "del"} \union Looking \subseteq Calling
    BY CallingIs DEF Looking
  <2> QED BY <2>1 DEF ManagedInductive, SomeoneSweeps, ProbesSwept
<1> QED BY <1>1, <1>2, PTL
=============================================================================
