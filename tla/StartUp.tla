------------------------------ MODULE StartUp ------------------------------
(***************************************************************************)
(* From the start of a replica to its serving (apps/api/lifespan.py), with *)
(* the schema migrations, and the readiness probe (apps/api/readiness.py)  *)
(* that the container's health check calls.  Replicas of one deployment    *)
(* share the environment and the database.                                 *)
(***************************************************************************)
EXTENDS SettingsPolicy, Naturals, FiniteSets

CONSTANTS
    Replicas,
    Environments,   \* the environments that are tried
    HeadRevision,   \* the number of migrations
    MaxOutages,     \* bound: how often a service goes down
    MaxCrashes      \* bound: how often a replica dies

ASSUME StartUpAssumption ==
    /\ HeadRevision \in Nat \ {0}
    /\ MaxOutages \in Nat
    /\ MaxCrashes \in Nat
    /\ \A e \in Environments :
          /\ e = [n \in SettingNames |-> e[n]]
          /\ e.profile \in {"local-lab", "production-like", "production-saas"}
          /\ {e.auth_enabled, e.allow_vulnerable, e.run_migrations} \subseteq BOOLEAN
          /\ e.rate_limit_backend \in {"memory", "redis"}

VARIABLES
    settings,       \* what Settings made of the environment
    ready,          \* the readiness checks that found the environment READY
    live,           \* the services that are in live mode: probed by /ready
    up,             \* the services that are up
    outages,
    crashes,
    version,        \* alembic_version, 0 if there is none
    tables,         \* the migrations whose tables exist: the labs make them too
    pc,             \* pc[r]: how far the start of r is
    seen,           \* seen[r]: the version that its upgrade started from
    probe,          \* probe[r]: what the probe under way has found of PostgreSQL
    answer          \* answer[r]: the last answer of /ready

deployment == <<settings, ready, live>>
services == <<up, outages>>
database == <<version, tables>>
probing == <<probe, answer>>
vars == <<deployment, services, database, crashes, pc, seen, probing>>

\* The settings that lifespan and the request path act on.
Load(e) ==
    LET d == Defaults(e)
    IN  [boots |-> Boots(e), saas |-> IsSaas(e), local_lab |-> IsLocalLab(e),
         auth_enabled |-> d.auth_enabled, allow_vulnerable |-> d.allow_vulnerable,
         run_migrations |-> d.run_migrations, rate_limit_backend |-> d.rate_limit_backend]

ReadyChecks(e) ==
    Flag("config", ConfigCheckReady(e)) \union Flag("staging", StagingCheckReady(e))
    \union Flag("managed", ManagedCheckReady(e))

\* The deployments that the environments make.
Deployments == {[settings |-> Load(e), ready |-> ReadyChecks(e)] : e \in Environments}

Starting == {"migrate", "upgrade", "tenancy"}
Exited == {"refused", "failed"}

Init ==
    /\ \E d \in Deployments : settings = d.settings /\ ready = d.ready
    /\ live \in SUBSET {"postgres", "redis"}
    /\ up = {"postgres", "redis"}
    /\ outages = 0
    /\ crashes = 0
    /\ version \in 0 .. HeadRevision
    /\ tables \in {1 .. n : n \in version .. HeadRevision}
    /\ pc = [r \in Replicas |-> "down"]
    /\ seen = [r \in Replicas |-> 0]
    /\ probe = [r \in Replicas |-> "none"]
    /\ answer = [r \in Replicas |-> "none"]

----------------------------------------------------------------------------
Goto(r, line) == pc' = [pc EXCEPT ![r] = line]

AfterMigrations == IF settings.saas THEN "tenancy" ELSE "serving"

\* The module is imported: get_settings raises, or lifespan begins.
Boot(r) ==
    /\ pc[r] = "down"
    /\ Goto(r, IF ~settings.boots THEN "refused"
               ELSE IF settings.run_migrations THEN "migrate" ELSE AfterMigrations)
    /\ UNCHANGED <<deployment, services, database, crashes, seen, probing>>

\* alembic upgrade head reads the version ...
ReadVersion(r) ==
    /\ pc[r] = "migrate"
    /\ "postgres" \in up
    /\ seen' = [seen EXCEPT ![r] = version]
    /\ Goto(r, "upgrade")
    /\ UNCHANGED <<deployment, services, database, crashes, probing>>

\* Mutant: upgrade "+1" in place of "head".
UpgradedByOne == IF version < HeadRevision THEN version + 1 ELSE version

\* The version that the transaction of an upgrade commits.
Upgraded == HeadRevision

\* ... and makes in one transaction what is missing,
CommitUpgrade(r) ==
    /\ pc[r] = "upgrade"
    /\ "postgres" \in up
    /\ version = seen[r]
    /\ version' = Upgraded
    /\ tables' = tables \union (version + 1) .. Upgraded
    /\ seen' = [seen EXCEPT ![r] = 0]

Upgrade(r) ==
    /\ CommitUpgrade(r)
    /\ Goto(r, AfterMigrations)
    /\ UNCHANGED <<deployment, services, crashes, probing>>

\* unless another upgrade from the same old version came first: its row of
\* alembic_version is not the one that was read, and the upgrade fails.
UpgradeFails(r) ==
    /\ pc[r] = "upgrade"
    /\ version # seen[r]
    /\ seen' = [seen EXCEPT ![r] = 0]
    /\ Goto(r, "failed")
    /\ UNCHANGED <<deployment, services, database, crashes, probing>>

\* PostgreSQL commits and goes down before it answers (external).
CommitAnswerLost(r) ==
    /\ CommitUpgrade(r)
    /\ outages < MaxOutages
    /\ outages' = outages + 1
    /\ up' = up \ {"postgres"}
    /\ Goto(r, "failed")
    /\ UNCHANGED <<deployment, crashes, probing>>

\* Mutant: CREATE TABLE without IF NOT EXISTS.
InitTenancyAnew(r) ==
    /\ pc[r] = "tenancy"
    /\ "postgres" \in up
    /\ tables' = tables \union {HeadRevision}
    /\ Goto(r, IF HeadRevision \in tables THEN "failed" ELSE "serving")
    /\ UNCHANGED <<deployment, services, version, crashes, seen, probing>>

\* init_tenancy_schema: the tables of the second migration, if they do not exist.
InitTenancy(r) ==
    /\ pc[r] = "tenancy"
    /\ "postgres" \in up
    /\ tables' = tables \union {HeadRevision}
    /\ Goto(r, "serving")
    /\ UNCHANGED <<deployment, services, version, crashes, seen, probing>>

\* PostgreSQL is down: the start fails and the process exits.
StartFails(r) ==
    /\ pc[r] \in Starting
    /\ "postgres" \notin up
    /\ seen' = [seen EXCEPT ![r] = 0]
    /\ Goto(r, "failed")
    /\ UNCHANGED <<deployment, services, database, crashes, probing>>

\* The container is started again (external: restart: unless-stopped).
Restart(r) ==
    /\ pc[r] \in Exited
    /\ Goto(r, "down")
    /\ UNCHANGED <<deployment, services, database, crashes, seen, probing>>

\* A replica dies (external); an open transaction is rolled back.
Crash(r) ==
    /\ pc[r] \in Starting \union {"serving"}
    /\ crashes < MaxCrashes
    /\ crashes' = crashes + 1
    /\ Goto(r, "failed")
    /\ seen' = [seen EXCEPT ![r] = 0]
    /\ probe' = [probe EXCEPT ![r] = "none"]
    /\ answer' = [answer EXCEPT ![r] = "none"]
    /\ UNCHANGED <<deployment, services, database>>

\* A service goes down or comes back (external).
Outage(s) ==
    /\ s \in up
    /\ outages < MaxOutages
    /\ outages' = outages + 1
    /\ up' = up \ {s}
    /\ UNCHANGED <<deployment, database, crashes, pc, seen, probing>>

Recover(s) ==
    /\ s \notin up
    /\ up' = up \union {s}
    /\ UNCHANGED <<deployment, outages, database, crashes, pc, seen, probing>>

Found(s) == IF s \in live => s \in up THEN "ok" ELSE "failed"

\* evaluate_readiness asks PostgreSQL, ...
ProbePostgres(r) ==
    /\ pc[r] = "serving"
    /\ probe[r] = "none"
    /\ probe' = [probe EXCEPT ![r] = Found("postgres")]
    /\ UNCHANGED <<deployment, services, database, crashes, pc, seen, answer>>

\* Mutant: PostgreSQL's part of the answer is forgotten.
AnswerOfLast(r) == Found("redis")

AnswerOf(r) == IF probe[r] = "ok" /\ Found("redis") = "ok" THEN "ok" ELSE "failed"

\* ... then Redis, and answers.
ProbeRedis(r) ==
    /\ probe[r] # "none"
    /\ answer' = [answer EXCEPT ![r] = AnswerOf(r)]
    /\ probe' = [probe EXCEPT ![r] = "none"]
    /\ UNCHANGED <<deployment, services, database, crashes, pc, seen>>

Start(r) ==
    \/ Boot(r) \/ ReadVersion(r) \/ Upgrade(r) \/ UpgradeFails(r)
    \/ InitTenancy(r) \/ StartFails(r)

Next ==
    \/ \E r \in Replicas : Start(r) \/ Restart(r) \/ ProbePostgres(r) \/ ProbeRedis(r)
    \/ \E r \in Replicas : Crash(r) \/ CommitAnswerLost(r)
    \/ \E s \in {"postgres", "redis"} : Outage(s) \/ Recover(s)

\* A process runs, exited containers are restarted, and the health check calls
\* /ready again and again.  Nothing is assumed of the services.
Fairness ==
    \A r \in Replicas : /\ WF_vars(Start(r))
                        /\ WF_vars(Restart(r))
                        /\ WF_vars(ProbePostgres(r) \/ ProbeRedis(r))

Spec == Init /\ [][Next]_vars /\ Fairness

----------------------------------------------------------------------------
TypeOK ==
    /\ settings \in [boots : BOOLEAN, saas : BOOLEAN, local_lab : BOOLEAN,
                     auth_enabled : BOOLEAN, allow_vulnerable : BOOLEAN,
                     run_migrations : BOOLEAN, rate_limit_backend : {"memory", "redis"}]
    /\ ready \subseteq {"config", "staging", "managed"}
    /\ live \subseteq {"postgres", "redis"}
    /\ up \subseteq {"postgres", "redis"}
    /\ outages \in 0 .. MaxOutages
    /\ crashes \in 0 .. MaxCrashes
    /\ version \in 0 .. HeadRevision
    /\ tables \subseteq 1 .. HeadRevision
    /\ pc \in [Replicas -> {"down", "serving"} \union Starting \union Exited]
    /\ seen \in [Replicas -> 0 .. HeadRevision]
    /\ probe \in [Replicas -> {"none", "ok", "failed"}]
    /\ answer \in [Replicas -> {"none", "ok", "failed"}]

\* A replica that serves outside the local lab serves on the newest schema, of
\* which all tables exist, whatever starts, crashes and outages came before; and
\* it serves with authentication, without the vulnerable modes, and with the
\* limiter that its replicas share.
ServesHardened ==
    \A r \in Replicas : pc[r] = "serving" /\ ~settings.local_lab =>
       /\ version = HeadRevision /\ tables = 1 .. HeadRevision
       /\ settings.auth_enabled /\ ~settings.allow_vulnerable
       /\ settings.rate_limit_backend = "redis"

\* An environment that a readiness check found READY is never refused by the
\* replicas of a production-saas deployment, though the checks assume other
\* defaults than the replicas.
ReadyIsNotRefused ==
    settings.saas /\ ready # {} => \A r \in Replicas : pc[r] # "refused"

\* If PostgreSQL stays up from some time on, all replicas come to serve for good,
\* the ones that lost the race of the migrations too.
AllComeToServe ==
    settings.boots /\ <>[]("postgres" \in up) => <>[](\A r \in Replicas : pc[r] = "serving")

\* A live service that stays down is reported by every replica that serves.
OutageIsSeen ==
    \A s \in {"postgres", "redis"} :
       s \in live /\ <>[](s \notin up) => <>[](\A r \in Replicas : answer[r] # "ok")
=============================================================================
