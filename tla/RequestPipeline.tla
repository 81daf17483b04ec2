-------------------------- MODULE RequestPipeline --------------------------
(***************************************************************************)
(* A request on its way through the API: the middleware stack of           *)
(* apps/api/main.py, the dependency verify_api_access with its JWT,        *)
(* membership and audit steps, and the lab route.  Requests run            *)
(* concurrently, memberships change under them, and every access to        *)
(* PostgreSQL or Redis may fail.                                           *)
(*                                                                         *)
(* A request is abstracted to what these decisions read: whether its token *)
(* is there and verifies, the tenant and role in the token, the route, the *)
(* tenants its body names, its mode and its size, the Host it is sent to   *)
(* and whether it is a browser's preflight.                                *)
(***************************************************************************)
EXTENDS Integers, FiniteSets, Sequences

CONSTANTS
    Requests,         \* requests in flight
    Tenants,          \* tenants of the SaaS
    Inputs,           \* the request records clients send
    Deployments,      \* the settings the pipeline depends on
    MaxChanges,       \* bound: membership changes
    None

\* The tenants of requests that carry no tenant: LOCAL_LAB_TENANT_ID, which is
\* also the default of the labs' tenant_id, and the context of the shared API key.
LocalLab == "local-lab"
ProductionLike == "production-like"

\* What the token turns out to be.  "invalid" stands for every check of
\* verify_jwt_token and build_auth_context that ends in an AuthError: key,
\* signature, times, issuer, audience, required claims, subject and tenant.
\* "unreadable" stands for a header that cannot be read or names an algorithm
\* that is not allowed: these raise JwksError, which is no AuthError.
TokenVerdicts == {"none", "unreadable", "invalid", "valid"}

\* "lab" is a route that goes through _run_lab, "own-parameters" one of the
\* labs that take more than a mode.  tenantA is None when the field holds blanks
\* only; a body without it gets a default, which is a tenant like any other.  A
\* preflight is an OPTIONS request that CORS allows or refuses; a "bare" host
\* is trusted once www. is put before it.
InputType ==
    [path : {"lab", "own-parameters", "prompt-cache", "docs"},
     token : TokenVerdicts,
     tenant : Tenants, role : {"observer", "lab_runner", "platform_admin"},
     tenantA : Tenants \union {None}, tenantB : Tenants,
     mode : {"vulnerable", "hardened", "other"}, oversized : BOOLEAN,
     preflight : {"no", "allowed", "refused"}, host : {"trusted", "bare", "unknown"}]

ASSUME PipelineAssumption ==
    /\ Deployments \subseteq
          [profile : {"local-lab", "production-like", "production-saas"},
           allowVulnerable : BOOLEAN, cors : BOOLEAN, trustedHosts : BOOLEAN]
    /\ \A d \in Deployments : d.profile # "local-lab" => ~d.allowVulnerable
    /\ Inputs \subseteq InputType
    /\ MaxChanges \in Nat
    /\ None \notin Tenants \union {LocalLab, ProductionLike}

\* Mutant: the headers are added by the innermost layer.
LayersSwapped ==
    <<"trusted-host", "cors", "context", "auth-context", "rate", "body",
      "lockdown", "headers", "app">>

\* The layers in the order a request meets them: the last one added by
\* main.py is the first to see it.  The first two depend on the settings.
Layers ==
    <<"trusted-host", "cors", "context", "auth-context", "rate", "body",
      "headers", "lockdown", "app">>

LayerNames == {Layers[i] : i \in 1 .. 9}

Position(l) == CHOOSE i \in 1 .. 9 : Layers[i] = l

VARIABLES
    conf,     \* the deployment's settings, fixed at start-up
    pc,       \* pc[q]: the step request q is at
    req,      \* req[q]: its input
    ctx,      \* ctx[q]: the tenant of request.state.auth_context, or None
    pending,  \* pending[q]: the audit event q is about to insert
    code,     \* code[q]: the status answered, 0 before
    passed,   \* passed[q]: the layers the response went out through
    audit,    \* audit_events
    ran,      \* the labs that ran: the request, the tenants the lab acted for, the
              \* tenants it compared them with, and how often it was run
    member,   \* tenant_memberships.status of the subject, by tenant
    changes,  \* how often memberships have changed
    active    \* active[q]: the tenants with an active membership at some
              \* moment since q arrived (a history variable)

vars == <<conf, pc, req, ctx, pending, code, passed, audit, ran, member, changes, active>>

NoEvent == [action |-> "none", tenant |-> None, code |-> 0]

Actions == {"none", "auth_missing_token", "auth_invalid_token",
            "auth_cross_tenant_denied", "auth_allowed"}

IsSaas == conf.profile = "production-saas"
IsProduction == conf.profile # "local-lab"

HostsChecked == IsProduction /\ conf.trustedHosts

Installed(l) ==
    /\ l = "trusted-host" => HostsChecked
    /\ l = "cors" => conf.cors

\* The layers that see a response made in layer l.
Outside(l) == {Layers[j] : j \in {i \in 1 .. Position(l) - 1 : Installed(Layers[i])}}

----------------------------------------------------------------------------
Init ==
    /\ conf \in Deployments
    /\ pc = [q \in Requests |-> "idle"]
    /\ req \in [Requests -> Inputs]
    /\ ctx = [q \in Requests |-> None]
    /\ pending = [q \in Requests |-> NoEvent]
    /\ code = [q \in Requests |-> 0]
    /\ passed = [q \in Requests |-> {}]
    /\ audit = {}
    /\ ran = {}
    /\ member \in [Tenants -> IF IsSaas THEN {"absent", "active", "suspended"}
                               ELSE {"absent"}]
    /\ changes = 0
    /\ active = [q \in Requests |-> {}]

\* q is answered in layer l.
Respond(q, status, l) ==
    /\ pc' = [pc EXCEPT ![q] = "done"]
    /\ code' = [code EXCEPT ![q] = status]
    /\ passed' = [passed EXCEPT ![q] = Outside(l)]

\* An exception nobody handles passes all layers; the server answers 500.
Unhandled(q) == Respond(q, 500, Layers[1])

Goto(q, l) ==
    /\ pc' = [pc EXCEPT ![q] = l]
    /\ UNCHANGED <<code, passed>>

\* TrustedHostMiddleware: a redirect to the www. host, or a 400.
RefuseHost(q) ==
    /\ pc[q] = "idle"
    /\ HostsChecked /\ req[q].host # "trusted"
    /\ Respond(q, IF req[q].host = "bare" THEN 307 ELSE 400, "trusted-host")
    /\ UNCHANGED <<conf, req, ctx, pending, audit, ran, member, changes, active>>

HostAccepted(q) == HostsChecked => req[q].host = "trusted"

\* CORSMiddleware answers a preflight itself.
AnswerPreflight(q) ==
    /\ pc[q] = "idle"
    /\ HostAccepted(q)
    /\ conf.cors /\ req[q].preflight # "no"
    /\ Respond(q, IF req[q].preflight = "allowed" THEN 200 ELSE 400, "cors")
    /\ UNCHANGED <<conf, req, ctx, pending, audit, ran, member, changes, active>>

\* The request arrives inside CORS; in the local lab AuthContextMiddleware
\* attaches the anonymous context.
Receive(q) ==
    /\ pc[q] = "idle"
    /\ HostAccepted(q)
    /\ conf.cors => req[q].preflight = "no"
    /\ ctx' = [ctx EXCEPT ![q] = IF conf.profile = "local-lab" THEN LocalLab ELSE None]
    /\ active' = [active EXCEPT ![q] = {t \in Tenants : member[t] = "active"}]
    /\ Goto(q, "rate")
    /\ UNCHANGED <<conf, req, pending, audit, ran, member, changes>>

\* RateLimitMiddleware: RateLimiter.tla models the decision.
RateLimit(q) ==
    /\ pc[q] = "rate"
    /\ \/ Goto(q, "body")
       \/ IsProduction /\ \E status \in {429, 503} : Respond(q, status, "rate")
    /\ UNCHANGED <<conf, req, ctx, pending, audit, ran, member, changes, active>>

\* RequestBodySizeMiddleware, which lets OPTIONS pass, then
\* ProductionLockdownMiddleware, then the router, which knows no OPTIONS.
BodyAndLockdown(q) ==
    /\ pc[q] = "body"
    /\ LET options == req[q].preflight # "no" IN
       IF IsSaas /\ req[q].oversized /\ ~options THEN Respond(q, 413, "body")
       ELSE IF IsProduction /\ req[q].path = "docs" THEN Respond(q, 404, "lockdown")
       ELSE IF options THEN Respond(q, 405, "app")
       ELSE IF req[q].path = "docs" THEN Respond(q, 200, "app")
       ELSE Goto(q, "auth")
    /\ UNCHANGED <<conf, req, ctx, pending, audit, ran, member, changes, active>>

\* q will insert an audit event, then answer status, or go on if it is 0.
RecordThen(q, action, t, status) ==
    /\ pending' = [pending EXCEPT ![q] =
                     [action |-> action, tenant |-> t, code |-> status]]
    /\ Goto(q, "audit")

\* verify_api_access outside the SaaS: no check, or the API key.
VerifyApiKey(q) ==
    /\ pc[q] = "auth" /\ ~IsSaas
    /\ IF conf.profile = "local-lab"
       THEN ctx' = [ctx EXCEPT ![q] = LocalLab] /\ Goto(q, "route")
       ELSE IF req[q].token = "valid"
       THEN ctx' = [ctx EXCEPT ![q] = ProductionLike] /\ Goto(q, "route")
       ELSE UNCHANGED ctx /\ Respond(q, 401, "app")
    /\ UNCHANGED <<conf, req, pending, audit, ran, member, changes, active>>

\* _verify_production_saas_access up to the token: nobody catches a JwksError.
VerifyToken(q) ==
    /\ pc[q] = "auth" /\ IsSaas
    /\ CASE req[q].token = "none" ->
              RecordThen(q, "auth_missing_token", None, 401)
         [] req[q].token = "invalid" ->
              RecordThen(q, "auth_invalid_token", None, 401)
         [] req[q].token = "unreadable" -> Unhandled(q) /\ UNCHANGED pending
         [] OTHER -> Goto(q, "membership") /\ UNCHANGED pending
    /\ UNCHANGED <<conf, req, ctx, audit, ran, member, changes, active>>

\* require_active_membership
ActiveMember(t) == member[t] = "active"

\* require_role(lab_runner, tenant_admin, platform_admin)
MayRun(q) == req[q].role # "observer"

\* The membership is read from the database and the role from the token; a
\* denial is recorded without tenant and actor, a failed lookup is a 503.
CheckMembership(q) ==
    /\ pc[q] = "membership"
    /\ \/ Respond(q, 503, "app") /\ UNCHANGED pending
       \/ IF ActiveMember(req[q].tenant) /\ MayRun(q)
          THEN RecordThen(q, "auth_allowed", req[q].tenant, 0)
          ELSE RecordThen(q, "auth_cross_tenant_denied", None, 403)
    /\ UNCHANGED <<conf, req, ctx, audit, ran, member, changes, active>>

\* insert_audit_event
EventOf(q) ==
    [request |-> q, action |-> pending[q].action, tenant |-> pending[q].tenant]

\* Mutant: an insert that fails is only logged.
RecordAuditBestEffort(q) ==
    /\ pc[q] = "audit"
    /\ \/ UNCHANGED audit
       \/ audit' = audit \union {EventOf(q)}
    /\ IF pending[q].code = 0
       THEN ctx' = [ctx EXCEPT ![q] = pending[q].tenant] /\ Goto(q, "route")
       ELSE UNCHANGED ctx /\ Respond(q, pending[q].code, "app")
    /\ pending' = [pending EXCEPT ![q] = NoEvent]
    /\ UNCHANGED <<conf, req, ran, member, changes, active>>

\* record_auth_audit_event: an insert that fails is a 503, whatever the
\* decision was.  After auth_allowed the context is attached.
RecordAudit(q) ==
    /\ pc[q] = "audit"
    /\ \/ Respond(q, 503, "app") /\ UNCHANGED <<audit, ctx>>
       \/ /\ audit' = audit \union {EventOf(q)}
          /\ IF pending[q].code = 0
             THEN ctx' = [ctx EXCEPT ![q] = pending[q].tenant] /\ Goto(q, "route")
             ELSE UNCHANGED ctx /\ Respond(q, pending[q].code, "app")
    /\ pending' = [pending EXCEPT ![q] = NoEvent]
    /\ UNCHANGED <<conf, req, ran, member, changes, active>>

\* resolve_request_tenant for tenant_a: a platform admin may name any tenant,
\* outside the SaaS so may everybody.
Override(q) == req[q].path = "prompt-cache" /\ req[q].tenantA # None

\* Mutant: only a request without a context is stopped.
OverrideUnchecked(q) == Override(q) /\ IsSaas /\ ctx[q] = None

OverrideDenied(q) ==
    Override(q) /\ IsSaas /\ req[q].role # "platform_admin" /\ req[q].tenantA # ctx[q]

\* resolve_lab_request_context
LabTenant(q) == IF conf.profile = "local-lab" THEN LocalLab ELSE ctx[q]

\* The tenants that the lab acts for.  When a lab raises a TypeError, _run_lab
\* runs it again without a tenant, for the default of its parameter.
Touched(q, runs) ==
    IF req[q].path = "prompt-cache"
    THEN {IF Override(q) THEN req[q].tenantA ELSE ctx[q]}
    ELSE {LabTenant(q)} \union (IF runs = 2 THEN {LocalLab} ELSE {})

\* tenant_b, which looks up what the lab has stored for the first tenant.
Compared(q) == IF req[q].path = "prompt-cache" THEN {req[q].tenantB} ELSE {}

Log(q, runs) ==
    ran' = ran \union {[request |-> q, tenants |-> Touched(q, runs),
                        compared |-> Compared(q), runs |-> runs]}

\* A lab succeeds, misses its backend or, when it takes parameters of its own,
\* refuses them; any other exception is a 500.  The second run of _run_lab is
\* outside its try: it succeeds, or whatever it raises is a 500.
RunLab(q) ==
    \/ /\ \/ \E status \in {200, 503} : Respond(q, status, "app")
          \/ req[q].path # "lab" /\ Respond(q, 422, "app")
          \/ Unhandled(q)
       /\ Log(q, 1)
    \/ /\ req[q].path = "lab"
       /\ Respond(q, 200, "app") \/ Unhandled(q)
       /\ Log(q, 2)

\* The route: the body is validated after the dependencies have run, then
\* enforce_vulnerable_allowed, the tenant, and the lab.
Route(q) ==
    /\ pc[q] = "route"
    /\ IF req[q].mode = "other"
       THEN Respond(q, 422, "app") /\ UNCHANGED <<pending, ran>>
       ELSE IF req[q].mode = "vulnerable" /\ ~conf.allowVulnerable
       THEN Respond(q, 403, "app") /\ UNCHANGED <<pending, ran>>
       ELSE IF OverrideDenied(q)
       THEN RecordThen(q, "auth_cross_tenant_denied", ctx[q], 403) /\ UNCHANGED ran
       ELSE RunLab(q) /\ UNCHANGED pending
    /\ UNCHANGED <<conf, req, ctx, audit, member, changes, active>>

\* upsert_membership by an administrator, at any moment.  Only the SaaS reads
\* memberships.
ChangeMembership ==
    /\ IsSaas
    /\ changes < MaxChanges
    /\ changes' = changes + 1
    /\ \E t \in Tenants, s \in {"active", "suspended"} :
         /\ member' = [member EXCEPT ![t] = s]
         /\ active' = [q \in Requests |->
                         IF s = "active" /\ pc[q] \notin {"idle", "done"}
                         THEN active[q] \union {t} ELSE active[q]]
    /\ UNCHANGED <<conf, pc, req, ctx, pending, code, passed, audit, ran>>

Handle(q) ==
    \/ RefuseHost(q) \/ AnswerPreflight(q) \/ Receive(q)
    \/ RateLimit(q) \/ BodyAndLockdown(q) \/ VerifyApiKey(q) \/ VerifyToken(q)
    \/ CheckMembership(q) \/ RecordAudit(q) \/ Route(q)

Done == (\A q \in Requests : pc[q] = "done") /\ UNCHANGED vars

Next ==
    \/ \E q \in Requests : Handle(q)
    \/ ChangeMembership
    \/ Done

Spec == Init /\ [][Next]_vars

----------------------------------------------------------------------------
Statuses == {0, 200, 307, 400, 401, 403, 404, 405, 413, 422, 429, 500, 503}

TypeOK ==
    /\ conf \in Deployments
    /\ pc \in [Requests -> {"idle", "rate", "body", "auth", "membership",
                            "audit", "route", "done"}]
    /\ req \in [Requests -> Inputs]
    /\ ctx \in [Requests -> Tenants \union {None, LocalLab, ProductionLike}]
    /\ pending \in [Requests -> [action : Actions,
                                 tenant : Tenants \union {None, LocalLab, ProductionLike},
                                 code : {0, 401, 403}]]
    /\ code \in [Requests -> Statuses]
    /\ passed \in [Requests -> SUBSET LayerNames]
    /\ audit \subseteq [request : Requests, action : Actions,
                        tenant : Tenants \union {None, LocalLab, ProductionLike}]
    /\ ran \subseteq [request : Requests,
                      tenants : SUBSET (Tenants \union {LocalLab, ProductionLike}),
                      compared : SUBSET Tenants, runs : 1 .. 2]
    /\ member \in [Tenants -> {"absent", "active", "suspended"}]
    /\ changes \in 0 .. MaxChanges
    /\ active \in [Requests -> SUBSET Tenants]

Audited(q, actions) == \E e \in audit : e.request = q /\ e.action \in actions

\* Fail closed: in the SaaS a lab runs only after the decision to allow it was
\* committed to the audit log under the tenant of the verified token, and
\* while the subject's membership was active at some moment of the request.
NoLabWithoutEvidence ==
    IsSaas =>
      \A x \in ran :
        LET t == req[x.request].tenant
        IN /\ req[x.request].token = "valid"
           /\ t \in active[x.request]
           /\ [request |-> x.request, action |-> "auth_allowed", tenant |-> t] \in audit

\* Every 401, and every 403 that concerns the tenant, leaves an audit event;
\* a denial that cannot be recorded is answered 503.
DenialsAudited ==
    IsSaas =>
      \A q \in Requests :
        /\ code[q] = 401 => Audited(q, {"auth_missing_token", "auth_invalid_token"})
        /\ code[q] = 403 =>
              \/ Audited(q, {"auth_cross_tenant_denied"})
              \/ req[q].mode = "vulnerable" /\ Audited(q, {"auth_allowed"})

\* In the SaaS a lab acts for the tenant of the verified token; only a platform
\* admin's tenant_a selects another one.  A lab that was run again after a
\* TypeError has acted for the default tenant as well, and for nobody else.
\* This says nothing about tenant_b: see BodySelectsNoTenant.
ActsForVerifiedTenant ==
    IsSaas =>
      \A x \in ran :
        LET r == req[x.request]
            own == IF r.role = "platform_admin" /\ Override(x.request)
                   THEN r.tenantA ELSE r.tenant
        IN x.tenants = {own} \union (IF x.runs = 2 THEN {LocalLab} ELSE {})

Bare(q) == code[q] # 0 /\ "headers" \notin passed[q]

\* SecurityHeadersMiddleware sits inside five layers and sees no unhandled
\* exception.  An answer without its headers is a 500, or was given in place of
\* any work by a layer further out: a redirect or refusal of the host, an
\* answer to a preflight, a 429 or 503 of the rate limiter, a 413.  Every
\* answer of a route, every denial and every hidden path carries them.
BareAnswersAreRefusals ==
    \A q \in Requests :
        Bare(q) /\ code[q] # 500 =>
            /\ ~\E x \in ran : x.request = q
            /\ \/ code[q] \in {413, 429, 503}
               \/ code[q] \in {307, 400} /\ HostsChecked /\ req[q].host # "trusted"
               \/ code[q] \in {200, 400} /\ conf.cors /\ req[q].preflight # "no"

\* docs/TENANCY_DATA_MODEL.md: "Every query must filter by tenant from
\* authenticated context, not request body": in the SaaS no tenant whose data a
\* lab reads or writes is taken from the body, unless a platform admin sent it.
BodySelectsNoTenant ==
    IsSaas =>
      \A x \in ran :
        LET r == req[x.request]
        IN r.role # "platform_admin" =>
             x.tenants \union x.compared \subseteq {r.tenant, LocalLab}

\* apps/api/middleware.py: "Add baseline security headers to every response."
HeadersOnEveryResponse == \A q \in Requests : ~Bare(q)

\* docs/LIVE_STAGING_EVIDENCE_TEMPLATE.md: "Invalid token expects 401".  Only
\* the outer layers and a failing audit log may answer something else.
InvalidTokenRefused ==
    IsSaas =>
      \A q \in Requests :
        (/\ req[q].token \in {"unreadable", "invalid"} /\ req[q].path # "docs"
         /\ req[q].preflight = "no" /\ HostAccepted(q))
            => code[q] \in {0, 401, 413, 429, 503}
=============================================================================
