----------------------- MODULE RequestPipelineProofs -----------------------
(***************************************************************************)
(* The pipeline fails closed, for any number of concurrent requests,       *)
(* tenants and membership changes, and for any request records.            *)
(*                                                                         *)
(* The evidence for a lab is gathered on the way: a valid token at         *)
(* "membership", an active membership at "audit", the committed event at   *)
(* "route".  Progress says what a request has shown at the line it is at,  *)
(* Decided what its pending event says, Shown what the labs that ran leave *)
(* behind.  Since a tenant never leaves active[q] while q is under way,    *)
(* and audit_events only grows, evidence is not lost again.               *)
(***************************************************************************)
EXTENDS RequestPipeline, TLAPS

Allowed(q) ==
    [request |-> q, action |-> "auth_allowed", tenant |-> req[q].tenant] \in audit

Evidence(q) == req[q].token = "valid" /\ req[q].tenant \in active[q]

\* The event that waits to be inserted agrees with the status that follows it.
Decided(q) ==
    \/ /\ pending[q].action = "auth_allowed" /\ pending[q].code = 0
       /\ pending[q].tenant = req[q].tenant /\ Evidence(q)
    \/ /\ pending[q].action \in {"auth_missing_token", "auth_invalid_token"}
       /\ pending[q].code = 401
    \/ pending[q].action = "auth_cross_tenant_denied" /\ pending[q].code = 403

Progress(q) ==
    /\ pc[q] = "membership" => IsSaas /\ req[q].token = "valid"
    /\ pc[q] = "audit" => IsSaas /\ Decided(q)
    /\ pc[q] = "route" =>
          /\ ctx[q] # None
          /\ IsSaas => ctx[q] = req[q].tenant /\ Evidence(q) /\ Allowed(q)
    /\ pc[q] # "done" => code[q] = 0
    /\ pc[q] \notin {"idle", "done"} =>
          \A t \in Tenants : member[t] = "active" => t \in active[q]

\* A lab that ran belongs to a request that is done, and its evidence stays.
Shown ==
    \A x \in ran :
       /\ pc[x.request] = "done"
       /\ IsSaas => Evidence(x.request) /\ Allowed(x.request)

IInv ==
    /\ TypeOK
    /\ \A q \in Requests : Progress(q)
    /\ Shown
    /\ ActsForVerifiedTenant
    /\ DenialsAudited
    /\ BareAnswersAreRefusals

----------------------------------------------------------------------------
\* Every layer has its position.
LEMMA Positions ==
    /\ Position("trusted-host") = 1 /\ Position("cors") = 2 /\ Position("rate") = 5
    /\ Position("body") = 6 /\ Position("lockdown") = 8 /\ Position("app") = 9
    /\ Layers[7] = "headers"
<1>1. /\ Layers[1] = "trusted-host" /\ Layers[2] = "cors" /\ Layers[3] = "context"
      /\ Layers[4] = "auth-context" /\ Layers[5] = "rate" /\ Layers[6] = "body"
      /\ Layers[7] = "headers" /\ Layers[8] = "lockdown" /\ Layers[9] = "app"
  BY DEF Layers
<1>2. ASSUME NEW i \in 1 .. 9, NEW k \in 1 .. 9, Layers[k] = Layers[i] PROVE k = i
  BY <1>1, <1>2
<1> HIDE DEF Layers
<1>3. ASSUME NEW i \in 1 .. 9 PROVE Position(Layers[i]) = i
  BY <1>2 DEF Position
<1> QED BY <1>1, <1>3

\* The layers a response goes out through are layers, and a response made at the
\* lockdown or further in passes the headers.
LEMMA LayerFacts ==
    /\ \A l \in {Layers[1], "trusted-host", "cors", "rate", "body", "lockdown", "app"} :
          Outside(l) \in SUBSET LayerNames
    /\ \A l \in {"lockdown", "app"} : "headers" \in Outside(l)
<1>1. Position(Layers[1]) = 1
  BY Positions DEF Layers
<1>2. Installed("headers")
  BY DEF Installed
<1>3. ASSUME NEW l, Position(l) \in 1 .. 9 PROVE Outside(l) \in SUBSET LayerNames
  <2> HIDE DEF Layers
  <2>1. \A j \in 1 .. Position(l) - 1 : j \in 1 .. 9
    BY <1>3
  <2> QED BY <2>1 DEF Outside, LayerNames
<1>4. ASSUME NEW l, Position(l) \in {8, 9} PROVE "headers" \in Outside(l)
  <2>1. 7 \in 1 .. Position(l) - 1
    BY <1>4
  <2>2. Layers[7] = "headers"
    BY Positions
  <2> HIDE DEF Layers
  <2> QED BY <1>2, <2>1, <2>2 DEF Outside
<1> HIDE DEF Layers
<1> QED BY <1>1, <1>3, <1>4, Positions

\* A request that has arrived has shown nothing yet.
LEMMA InitInv == Init => IInv
<1> SUFFICES ASSUME Init PROVE IInv
  OBVIOUS
<1> USE PipelineAssumption DEF Init
<1>1. TypeOK
  BY DEF TypeOK, NoEvent, Actions, Statuses
<1>2. \A q \in Requests : Progress(q)
  BY DEF Progress
<1>3. Shown /\ ActsForVerifiedTenant /\ DenialsAudited /\ BareAnswersAreRefusals
  BY DEF Shown, ActsForVerifiedTenant, DenialsAudited, BareAnswersAreRefusals, Bare
<1> QED BY <1>1, <1>2, <1>3 DEF IInv

\* What a handler of q leaves alone: settings, inputs and memberships, and
\* everything that belongs to another request.
Framed(q) ==
    /\ UNCHANGED <<conf, req, member>>
    /\ \A r \in Requests \ {q} :
          /\ pc'[r] = pc[r] /\ ctx'[r] = ctx[r] /\ pending'[r] = pending[r]
          /\ code'[r] = code[r] /\ passed'[r] = passed[r] /\ active'[r] = active[r]
    /\ pc[q] # "idle" => active'[q] = active[q]
    /\ audit \subseteq audit'
    /\ pc[q] # "done"

\* A lab's run: its answers, and what is logged with them.
LEMMA LabRuns ==
    ASSUME NEW q, RunLab(q)
    PROVE  \E s \in {200, 422, 500, 503}, l \in {Layers[1], "app"}, runs \in 1 .. 2 :
              /\ Respond(q, s, l) /\ Log(q, runs)
              /\ s = 500 \/ l = "app"
              /\ runs = 2 => req[q].path = "lab"
<1> DEFINE Goal(s, l, runs) ==
              /\ Respond(q, s, l) /\ Log(q, runs)
              /\ s = 500 \/ l = "app"
              /\ runs = 2 => req[q].path = "lab"
<1>1. ASSUME NEW s \in {200, 422, 503}, Respond(q, s, "app"), Log(q, 1)
      PROVE  \E t \in {200, 422, 500, 503}, l \in {Layers[1], "app"}, runs \in 1 .. 2 :
                Goal(t, l, runs)
  <2>1. Goal(s, "app", 1)
    BY <1>1
  <2> HIDE DEF Goal
  <2> QED BY <2>1
<1>2. ASSUME Respond(q, 200, "app"), Log(q, 2), req[q].path = "lab"
      PROVE  \E t \in {200, 422, 500, 503}, l \in {Layers[1], "app"}, runs \in 1 .. 2 :
                Goal(t, l, runs)
  <2>1. Goal(200, "app", 2)
    BY <1>2
  <2> HIDE DEF Goal
  <2> QED BY <2>1
<1>3. ASSUME NEW n \in 1 .. 2, Unhandled(q), Log(q, n), n = 2 => req[q].path = "lab"
      PROVE  \E t \in {200, 422, 500, 503}, l \in {Layers[1], "app"}, runs \in 1 .. 2 :
                Goal(t, l, runs)
  <2>1. Goal(500, Layers[1], n)
    BY <1>3 DEF Unhandled
  <2> HIDE DEF Goal
  <2> QED BY <2>1
<1> HIDE DEF Goal
<1>4. CASE Unhandled(q) /\ (Log(q, 1) \/ (Log(q, 2) /\ req[q].path = "lab"))
  <2>1. CASE Unhandled(q) /\ Log(q, 1)
    <3>1. 1 \in 1 .. 2 /\ 1 # 2
      OBVIOUS
    <3> QED BY <1>3, <2>1, <3>1 DEF Goal
  <2>2. CASE Unhandled(q) /\ Log(q, 2) /\ req[q].path = "lab"
    <3>1. 2 \in 1 .. 2
      OBVIOUS
    <3> QED BY <1>3, <2>2, <3>1 DEF Goal
  <2> QED BY <1>4, <2>1, <2>2
<1>5. CASE Log(q, 1) /\ \E s \in {200, 422, 503} : Respond(q, s, "app")
  BY <1>1, <1>5
<1>6. CASE Log(q, 2) /\ req[q].path = "lab" /\ Respond(q, 200, "app")
  BY <1>2, <1>6
<1>7. \/ Unhandled(q) /\ (Log(q, 1) \/ (Log(q, 2) /\ req[q].path = "lab"))
      \/ Log(q, 1) /\ \E s \in {200, 422, 503} : Respond(q, s, "app")
      \/ Log(q, 2) /\ req[q].path = "lab" /\ Respond(q, 200, "app")
  BY DEF RunLab
<1> QED BY <1>4, <1>5, <1>6, <1>7 DEF Goal

\* A step of q stays within its frame.
LEMMA Frames ==
    ASSUME TypeOK, NEW q \in Requests, Handle(q)
    PROVE  Framed(q)
<1> USE DEF TypeOK, Framed, Respond, Goto, Unhandled, RecordThen
<1>1. CASE RefuseHost(q) \/ AnswerPreflight(q) \/ Receive(q)
  BY <1>1 DEF RefuseHost, AnswerPreflight, Receive
<1>2. CASE RateLimit(q) \/ BodyAndLockdown(q)
  BY <1>2 DEF RateLimit, BodyAndLockdown
<1>3. CASE VerifyApiKey(q) \/ VerifyToken(q) \/ CheckMembership(q)
  BY <1>3 DEF VerifyApiKey, VerifyToken, CheckMembership
<1>4. CASE RecordAudit(q)
  BY <1>4 DEF RecordAudit
<1>5. CASE Route(q)
  <2>1. CASE RunLab(q) /\ UNCHANGED pending
    BY <1>5, <2>1, LabRuns DEF Route
  <2>2. CASE ~RunLab(q)
    BY <1>5, <2>2 DEF Route
  <2> QED BY <1>5, <2>1, <2>2 DEF Route, OverrideDenied
<1> QED BY <1>1, <1>2, <1>3, <1>4, <1>5 DEF Handle

\* What the layers and routes answer are statuses.
LEMMA StatusFacts ==
    \A s \in {200, 307, 400, 401, 403, 404, 405, 413, 422, 429, 500, 503} : s \in Statuses
  BY DEF Statuses

\* An answer is typed, whatever layer it is made in.
LEMMA RespondTypes ==
    ASSUME TypeOK, NEW q \in Requests, NEW s \in Statuses,
           NEW l \in {Layers[1], "trusted-host", "cors", "rate", "body", "lockdown", "app"},
           Respond(q, s, l)
    PROVE  /\ pc' \in [Requests -> {"idle", "rate", "body", "auth", "membership",
                                    "audit", "route", "done"}]
           /\ code' \in [Requests -> Statuses]
           /\ passed' \in [Requests -> SUBSET LayerNames]
<1>1. Outside(l) \in SUBSET LayerNames
  BY LayerFacts
<1>2. passed \in [Requests -> SUBSET LayerNames]
  BY DEF TypeOK
<1> HIDE DEF LayerNames
<1>3. passed' \in [Requests -> SUBSET LayerNames]
  BY <1>1, <1>2 DEF Respond
<1>4. /\ pc' = [pc EXCEPT ![q] = "done"]
      /\ code' = [code EXCEPT ![q] = s]
  BY DEF Respond
<1> QED BY <1>3, <1>4 DEF TypeOK

\* The tenants of a lab are tenants or one of the two contexts without one.
LEMMA TouchedTypes ==
    ASSUME TypeOK, NEW q \in Requests, NEW runs \in 1 .. 2, ctx[q] # None
    PROVE  /\ Touched(q, runs) \in SUBSET (Tenants \union {LocalLab, ProductionLike})
           /\ Compared(q) \in SUBSET Tenants
<1>1. /\ req[q].tenantA \in Tenants \union {None} /\ req[q].tenantB \in Tenants
      /\ ctx[q] \in Tenants \union {LocalLab, ProductionLike}
  BY PipelineAssumption DEF TypeOK, InputType
<1> QED BY <1>1 DEF Touched, Compared, Override, LabTenant

\* Types survive every step.
LEMMA StepTypes ==
    ASSUME TypeOK, \A q \in Requests : Progress(q), [Next]_vars
    PROVE  TypeOK'
<1>0. \A q \in Requests : req[q] \in InputType
  BY PipelineAssumption DEF TypeOK
<1> USE PipelineAssumption
<1>1. CASE UNCHANGED vars
  BY <1>1 DEF vars, TypeOK
<1>2. ASSUME NEW q \in Requests, RefuseHost(q) \/ AnswerPreflight(q) \/ Receive(q)
      PROVE  TypeOK'
  <2>1. CASE Receive(q)
    BY <2>1 DEF Receive, Goto, TypeOK
  <2>2. ASSUME NEW s \in {200, 307, 400}, NEW l \in {"trusted-host", "cors"}, Respond(q, s, l),
               RefuseHost(q) \/ AnswerPreflight(q)
        PROVE  TypeOK'
    BY <2>2, RespondTypes, StatusFacts DEF RefuseHost, AnswerPreflight, TypeOK
  <2> QED BY <1>2, <2>1, <2>2 DEF RefuseHost, AnswerPreflight
<1>3. ASSUME NEW q \in Requests, RateLimit(q) PROVE TypeOK'
  <2>1. CASE Goto(q, "body")
    BY <1>3, <2>1 DEF RateLimit, Goto, TypeOK
  <2>2. ASSUME NEW s \in {429, 503}, Respond(q, s, "rate") PROVE TypeOK'
    BY <1>3, <2>2, RespondTypes, StatusFacts DEF RateLimit, TypeOK
  <2> QED BY <1>3, <2>1, <2>2 DEF RateLimit
<1>4. ASSUME NEW q \in Requests, BodyAndLockdown(q) PROVE TypeOK'
  <2>1. CASE Goto(q, "auth")
    BY <1>4, <2>1 DEF BodyAndLockdown, Goto, TypeOK
  <2>2. ASSUME NEW s \in {200, 404, 405, 413},
               NEW l \in {"body", "lockdown", "app"}, Respond(q, s, l)
        PROVE  TypeOK'
    BY <1>4, <2>2, RespondTypes, StatusFacts DEF BodyAndLockdown, TypeOK
  <2> QED BY <1>4, <2>1, <2>2 DEF BodyAndLockdown
<1>5. ASSUME NEW q \in Requests, VerifyApiKey(q) PROVE TypeOK'
  <2>1. CASE Goto(q, "route")
    <3>1. ctx' \in [Requests -> Tenants \union {None, LocalLab, ProductionLike}]
      BY <1>5, <2>1 DEF VerifyApiKey, TypeOK
    <3> QED BY <1>5, <2>1, <3>1 DEF VerifyApiKey, Goto, TypeOK
  <2>2. CASE Respond(q, 401, "app") /\ UNCHANGED ctx
    BY <1>5, <2>2, RespondTypes, StatusFacts DEF VerifyApiKey, TypeOK
  <2> QED BY <1>5, <2>1, <2>2 DEF VerifyApiKey
<1>6. ASSUME NEW q \in Requests, VerifyToken(q) PROVE TypeOK'
  <2>1. CASE Unhandled(q) /\ UNCHANGED pending
    BY <1>6, <2>1, RespondTypes, StatusFacts DEF VerifyToken, Unhandled, TypeOK
  <2>2. CASE Goto(q, "membership") /\ UNCHANGED pending
    BY <1>6, <2>2 DEF VerifyToken, Goto, TypeOK
  <2>3. ASSUME NEW a \in Actions, RecordThen(q, a, None, 401) PROVE TypeOK'
    BY <1>6, <2>3 DEF VerifyToken, RecordThen, Goto, TypeOK
  <2> QED BY <1>6, <2>1, <2>2, <2>3 DEF VerifyToken, Actions
<1>7. ASSUME NEW q \in Requests, CheckMembership(q) PROVE TypeOK'
  <2>1. CASE Respond(q, 503, "app") /\ UNCHANGED pending
    BY <1>7, <2>1, RespondTypes, StatusFacts DEF CheckMembership, TypeOK
  <2>2. ASSUME NEW a \in Actions, NEW t \in Tenants \union {None}, NEW s \in {0, 403},
               RecordThen(q, a, t, s)
        PROVE  TypeOK'
    BY <1>7, <2>2 DEF CheckMembership, RecordThen, Goto, TypeOK
  <2> QED BY <1>0, <1>7, <2>1, <2>2 DEF CheckMembership, Actions, InputType
<1>8. ASSUME NEW q \in Requests, RecordAudit(q) PROVE TypeOK'
  <2>1. /\ EventOf(q) \in [request : Requests, action : Actions,
                           tenant : Tenants \union {None, LocalLab, ProductionLike}]
        /\ NoEvent \in [action : Actions,
                        tenant : Tenants \union {None, LocalLab, ProductionLike},
                        code : {0, 401, 403}]
        /\ pending[q].code \in {0, 401, 403}
        /\ pending[q].tenant \in Tenants \union {None, LocalLab, ProductionLike}
    BY DEF TypeOK, EventOf, NoEvent, Actions
  <2>2. CASE Respond(q, 503, "app") /\ UNCHANGED <<audit, ctx>>
    BY <1>8, <2>1, <2>2, RespondTypes, StatusFacts DEF RecordAudit, TypeOK
  <2>3. CASE /\ audit' = audit \union {EventOf(q)}
             /\ ctx' = [ctx EXCEPT ![q] = pending[q].tenant]
             /\ Goto(q, "route")
    BY <1>8, <2>1, <2>3 DEF RecordAudit, Goto, TypeOK
  <2>4. ASSUME NEW s \in {401, 403}, audit' = audit \union {EventOf(q)}, UNCHANGED ctx,
               Respond(q, s, "app")
        PROVE  TypeOK'
    BY <1>8, <2>1, <2>4, RespondTypes, StatusFacts DEF RecordAudit, TypeOK
  <2> QED BY <1>8, <2>1, <2>2, <2>3, <2>4 DEF RecordAudit
<1>9. ASSUME NEW q \in Requests, Route(q) PROVE TypeOK'
  <2>1. ASSUME NEW s \in {403, 422}, Respond(q, s, "app"), UNCHANGED <<pending, ran>>
        PROVE  TypeOK'
    BY <1>9, <2>1, RespondTypes, StatusFacts DEF Route, TypeOK
  <2>2. CASE RecordThen(q, "auth_cross_tenant_denied", ctx[q], 403) /\ UNCHANGED ran
    BY <1>9, <2>2 DEF Route, RecordThen, Goto, TypeOK, Actions
  <2>3. ASSUME NEW s \in {200, 422, 500, 503}, NEW l \in {Layers[1], "app"}, Respond(q, s, l),
               NEW runs \in 1 .. 2, Log(q, runs), UNCHANGED pending
        PROVE  TypeOK'
    <3>1. /\ Touched(q, runs) \in SUBSET (Tenants \union {LocalLab, ProductionLike})
          /\ Compared(q) \in SUBSET Tenants
      BY <1>9, TouchedTypes DEF Route, Progress
    <3>2. ran' \subseteq [request : Requests,
                         tenants : SUBSET (Tenants \union {LocalLab, ProductionLike}),
                         compared : SUBSET Tenants, runs : 1 .. 2]
      BY <2>3, <3>1 DEF Log, TypeOK
    <3> QED BY <1>9, <2>3, <3>2, RespondTypes, StatusFacts DEF Route, TypeOK
  <2>4. CASE RunLab(q) /\ UNCHANGED pending
    BY <2>3, <2>4, LabRuns
  <2> QED BY <1>9, <2>1, <2>2, <2>4 DEF Route
<1>10. CASE ChangeMembership
  BY <1>10 DEF ChangeMembership, TypeOK
<1> QED BY <1>1, <1>2, <1>3, <1>4, <1>5, <1>6, <1>7, <1>8, <1>9, <1>10 DEF Next, Handle, Done

\* What a request has shown stays shown: by its own steps, by the steps of
\* others, and when memberships change.
LEMMA StepProgress ==
    ASSUME TypeOK, \A q \in Requests : Progress(q), [Next]_vars
    PROVE  \A q \in Requests : Progress(q)'
<1> SUFFICES ASSUME NEW r \in Requests PROVE Progress(r)'
  OBVIOUS
<1>0. Progress(r)
  OBVIOUS
<1> USE DEF Progress, Evidence, Allowed, Decided, IsSaas
<1>1. CASE UNCHANGED vars
  BY <1>0, <1>1 DEF vars
<1>2. ASSUME NEW q \in Requests \ {r}, Handle(q) PROVE Progress(r)'
  BY <1>0, <1>2, Frames DEF Framed
<1>3. CASE RefuseHost(r) \/ AnswerPreflight(r) \/ Receive(r)
  BY <1>0, <1>3 DEF RefuseHost, AnswerPreflight, Receive, Goto, Respond, TypeOK
<1>4. CASE RateLimit(r)
  BY <1>0, <1>4 DEF RateLimit, Goto, Respond, TypeOK
<1>5. CASE BodyAndLockdown(r)
  BY <1>0, <1>5 DEF BodyAndLockdown, Goto, Respond, TypeOK
<1>6. CASE VerifyApiKey(r)
  <2>1. LocalLab # None /\ ProductionLike # None
    BY PipelineAssumption
  <2> QED BY <1>0, <1>6, <2>1 DEF VerifyApiKey, Goto, Respond, TypeOK
<1>7. CASE VerifyToken(r)
  <2>1. req[r].token \in TokenVerdicts
    BY PipelineAssumption DEF TypeOK, InputType
  <2> QED BY <1>0, <1>7, <2>1
          DEF VerifyToken, TokenVerdicts, Unhandled, RecordThen, Goto, Respond, TypeOK
<1>8. CASE CheckMembership(r)
  <2>1. req[r].tenant \in Tenants
    BY PipelineAssumption DEF TypeOK, InputType
  <2> QED BY <1>0, <1>8, <2>1
          DEF CheckMembership, ActiveMember, RecordThen, Goto, Respond, TypeOK
<1>9. CASE RecordAudit(r)
  <2>1. req[r].tenant \in Tenants /\ None \notin Tenants
    BY PipelineAssumption DEF TypeOK, InputType
  <2>2. CASE Respond(r, 503, "app") \/ Respond(r, pending[r].code, "app")
    BY <1>0, <1>9, <2>2 DEF RecordAudit, Respond, TypeOK
  <2>3. CASE /\ audit' = audit \union {EventOf(r)}
             /\ pending[r].code = 0
             /\ ctx' = [ctx EXCEPT ![r] = pending[r].tenant]
             /\ Goto(r, "route")
    BY <1>0, <1>9, <2>1, <2>3 DEF RecordAudit, EventOf, Goto, TypeOK
  <2> QED BY <1>9, <2>2, <2>3 DEF RecordAudit
<1>10. CASE Route(r)
  <2>1. CASE RunLab(r) /\ UNCHANGED pending
    BY <1>0, <1>10, <2>1, LabRuns DEF Route, Respond, TypeOK
  <2>2. CASE Respond(r, 422, "app") \/ Respond(r, 403, "app")
    BY <1>0, <1>10, <2>2 DEF Route, Respond, TypeOK
  <2>3. CASE OverrideDenied(r) /\ RecordThen(r, "auth_cross_tenant_denied", ctx[r], 403)
    BY <1>0, <1>10, <2>3 DEF Route, OverrideDenied, RecordThen, Goto, TypeOK
  <2> QED BY <1>10, <2>1, <2>2, <2>3 DEF Route
<1>11. CASE ChangeMembership
  BY <1>0, <1>11 DEF ChangeMembership, TypeOK
<1> QED BY <1>1, <1>2, <1>3, <1>4, <1>5, <1>6, <1>7, <1>8, <1>9, <1>10, <1>11
        DEF Next, Handle, Done

\* A step that runs a lab: the request stood at its route and is done, and the
\* override was not denied.
LEMMA RunSteps ==
    ASSUME TypeOK, \A q \in Requests : Progress(q), NEW q \in Requests, Handle(q)
    PROVE  \/ ran' = ran
           \/ /\ \E runs \in 1 .. 2 : Log(q, runs) /\ (runs = 2 => req[q].path = "lab")
              /\ pc[q] = "route" /\ pc'[q] = "done" /\ ~OverrideDenied(q)
              /\ code'[q] = 500 \/ passed'[q] = Outside("app")
<1>1. CASE RunLab(q) /\ Route(q) /\ ~OverrideDenied(q)
  BY <1>1, LabRuns DEF TypeOK, Route, Respond
<1>2. CASE ran' = ran
  BY <1>2
<1> QED BY <1>1, <1>2 DEF Handle, RefuseHost, AnswerPreflight, Receive, RateLimit, BodyAndLockdown,
         VerifyApiKey, VerifyToken, CheckMembership, RecordAudit, Route

\* A lab runs on evidence, for the tenant of its token.
LEMMA StepShown ==
    ASSUME TypeOK, \A q \in Requests : Progress(q), Shown, ActsForVerifiedTenant, [Next]_vars
    PROVE  Shown' /\ ActsForVerifiedTenant'
<1>0. /\ \A x \in ran : x.request \in Requests
      /\ \A q \in Requests : req[q] \in InputType
  BY PipelineAssumption DEF TypeOK
<1> USE DEF Shown, ActsForVerifiedTenant, Override, Evidence, Allowed, IsSaas
<1>1. CASE UNCHANGED vars
  BY <1>1 DEF vars
<1>2. CASE ChangeMembership
  BY <1>0, <1>2 DEF ChangeMembership, TypeOK
<1>3. ASSUME NEW q \in Requests, Handle(q)
      PROVE  Shown' /\ ActsForVerifiedTenant'
  <2>1. Framed(q)
    BY <1>3, Frames
  <2>2. \A x \in ran : x.request # q
    BY <2>1 DEF Framed
  <2>3. CASE ran' = ran
    BY <1>0, <2>1, <2>2, <2>3 DEF Framed
  <2>4. ASSUME NEW runs \in 1 .. 2, Log(q, runs), runs = 2 => req[q].path = "lab",
               pc[q] = "route", pc'[q] = "done", ~OverrideDenied(q)
        PROVE  Shown' /\ ActsForVerifiedTenant'
    <3>1. /\ IsSaas => ctx[q] = req[q].tenant /\ Evidence(q) /\ Allowed(q)
          /\ pc[q] # "idle"
      BY <2>4 DEF Progress
    <3> DEFINE new == [request |-> q, tenants |-> Touched(q, runs),
                       compared |-> Compared(q), runs |-> runs]
               Own(t) == IF req[t].role = "platform_admin" /\ Override(t)
                         THEN req[t].tenantA ELSE req[t].tenant
    <3>2. new.request = q /\ new.tenants = Touched(q, runs) /\ new.runs = runs
      OBVIOUS
    <3>3. ran' = ran \union {new}
      BY <2>4 DEF Log
    <3> HIDE DEF new
    <3>4. Shown'
      BY <1>0, <2>1, <2>2, <2>4, <3>1, <3>2, <3>3 DEF Framed
    <3>5. IsSaas => Touched(q, runs) = {Own(q)} \union (IF runs = 2 THEN {LocalLab} ELSE {})
      BY <2>4, <3>1 DEF OverrideDenied, Override, Touched, LabTenant
    <3>6. \A t \in Requests : Own(t)' = Own(t)
      BY <2>1 DEF Framed, Override
    <3>7. IsSaas => \A x \in ran : x.tenants = {Own(x.request)}
                                               \union (IF x.runs = 2 THEN {LocalLab} ELSE {})
      OBVIOUS
    <3> HIDE DEF Own
    <3>8. IsSaas => \A x \in ran' : x.tenants = {Own(x.request)'}
                                               \union (IF x.runs = 2 THEN {LocalLab} ELSE {})
      BY <1>0, <3>2, <3>3, <3>5, <3>6, <3>7
    <3>9. ActsForVerifiedTenant'
      BY <2>1, <3>8 DEF Framed, Own
    <3> QED BY <3>4, <3>9
  <2> QED BY <1>3, <2>3, <2>4, RunSteps
<1> QED BY <1>1, <1>2, <1>3 DEF Next, Done

\* A request that is answered is done; a refusal of the SaaS is on record, and
\* an answer without headers is a refusal of an outer layer or a 500.
AnswerOf(q) ==
    /\ IsSaas /\ code'[q] = 401 =>
          Audited(q, {"auth_missing_token", "auth_invalid_token"})'
    /\ IsSaas /\ code'[q] = 403 =>
          \/ Audited(q, {"auth_cross_tenant_denied"})'
          \/ req[q].mode = "vulnerable" /\ Audited(q, {"auth_allowed"})'
    /\ code'[q] \notin {0, 500} /\ "headers" \notin passed'[q] =>
          \/ code'[q] \in {413, 429, 503}
          \/ code'[q] \in {307, 400} /\ HostsChecked /\ req[q].host # "trusted"
          \/ code'[q] \in {200, 400} /\ conf.cors /\ req[q].preflight # "no"

LEMMA AnswerSteps ==
    ASSUME TypeOK, \A q \in Requests : Progress(q), NEW q \in Requests, Handle(q)
    PROVE  AnswerOf(q)
<1>0. Progress(q) /\ pc[q] # "done"
  BY Frames DEF Framed
<1>1. ASSUME NEW l \in {"lockdown", "app"}, NEW s, Respond(q, s, l)
      PROVE  code'[q] = s /\ "headers" \in passed'[q]
  BY <1>1, LayerFacts DEF Respond, TypeOK
<1>2. ASSUME NEW l, NEW s, Respond(q, s, l) PROVE code'[q] = s
  BY <1>2 DEF Respond, TypeOK
<1>3. ASSUME NEW l, Goto(q, l), pc[q] # "done" PROVE code'[q] = 0
  BY <1>0, <1>3 DEF Goto, Progress
<1> USE DEF AnswerOf
<1>4. CASE RefuseHost(q) \/ AnswerPreflight(q) \/ Receive(q)
  <2>1. CASE RefuseHost(q)
    BY <1>2, <2>1 DEF RefuseHost
  <2>2. CASE AnswerPreflight(q)
    BY <1>2, <2>2 DEF AnswerPreflight
  <2>3. CASE Receive(q)
    BY <1>0, <1>3, <2>3 DEF Receive
  <2> QED BY <1>4, <2>1, <2>2, <2>3
<1>5. CASE RateLimit(q)
  BY <1>0, <1>2, <1>3, <1>5 DEF RateLimit
<1>6. CASE BodyAndLockdown(q)
  BY <1>0, <1>1, <1>2, <1>3, <1>6 DEF BodyAndLockdown
<1>7. CASE VerifyApiKey(q)
  BY <1>0, <1>1, <1>3, <1>7 DEF VerifyApiKey, IsSaas
<1>8. CASE VerifyToken(q)
  BY <1>0, <1>2, <1>3, <1>8 DEF VerifyToken, RecordThen, Unhandled
<1>9. CASE CheckMembership(q)
  BY <1>0, <1>1, <1>3, <1>9 DEF CheckMembership, RecordThen
<1>10. CASE RecordAudit(q)
  <2>1. CASE Respond(q, 503, "app")
    BY <1>1, <2>1
  <2>2. CASE Goto(q, "route")
    BY <1>0, <1>3, <2>2
  <2>3. CASE /\ audit' = audit \union {EventOf(q)}
             /\ pending[q].code # 0 /\ Respond(q, pending[q].code, "app")
    <3>1. code'[q] = pending[q].code /\ "headers" \in passed'[q]
      BY <1>1, <2>3
    <3>2. Decided(q) /\ EventOf(q) \in audit'
      BY <1>0, <1>10, <2>3 DEF RecordAudit, Progress
    <3>3. EventOf(q).request = q /\ EventOf(q).action = pending[q].action
      BY DEF EventOf
    <3> QED BY <2>3, <3>1, <3>2, <3>3 DEF Decided, Audited
  <2> QED BY <1>10, <2>1, <2>2, <2>3 DEF RecordAudit
<1>11. CASE Route(q)
  <2>1. CASE Respond(q, 403, "app") /\ req[q].mode = "vulnerable" /\ UNCHANGED audit
    <3>1. code'[q] = 403 /\ "headers" \in passed'[q]
      BY <1>1, <2>1
    <3>2. IsSaas => Allowed(q)
      BY <1>0, <1>11 DEF Route, Progress
    <3> QED BY <2>1, <3>1, <3>2 DEF Audited, Allowed
  <2>2. CASE Respond(q, 422, "app")
    BY <1>1, <2>2
  <2>3. CASE Goto(q, "audit")
    BY <1>0, <1>3, <2>3
  <2>4. CASE RunLab(q)
    BY <1>1, <1>2, <2>4, LabRuns
  <2> QED BY <1>11, <2>1, <2>2, <2>3, <2>4 DEF Route, RecordThen
<1> QED BY <1>4, <1>5, <1>6, <1>7, <1>8, <1>9, <1>10, <1>11 DEF Handle

\* Denials stay on record and headers on their answers.
LEMMA StepAnswers ==
    ASSUME TypeOK, \A q \in Requests : Progress(q), Shown, DenialsAudited, BareAnswersAreRefusals,
           [Next]_vars
    PROVE  DenialsAudited' /\ BareAnswersAreRefusals'
<1> USE DEF DenialsAudited, BareAnswersAreRefusals, Audited, IsSaas
<1>1. CASE UNCHANGED vars
  BY <1>1 DEF vars, Bare, HostsChecked, IsProduction
<1>2. CASE ChangeMembership
  BY <1>2 DEF ChangeMembership, Bare, HostsChecked, IsProduction
<1>3. ASSUME NEW q \in Requests, Handle(q)
      PROVE  DenialsAudited' /\ BareAnswersAreRefusals'
  <2>1. Framed(q) /\ AnswerOf(q)
    BY <1>3, Frames, AnswerSteps
  <2>2. DenialsAudited'
    BY <2>1 DEF Framed, AnswerOf
  <2>3. \A x \in ran : x.request \in Requests /\ x.request # q
    BY <2>1 DEF TypeOK, Shown, Framed
  <2>4. \A x \in ran' \ ran : x.request = q /\ (code'[q] = 500 \/ "headers" \in passed'[q])
    <3>1. "headers" \in Outside("app")
      BY LayerFacts
    <3> QED BY <1>3, <3>1, RunSteps DEF Log
  <2>5. ASSUME NEW t \in Requests, Bare(t)', code'[t] # 500
        PROVE  ~\E x \in ran' : x.request = t
    BY <2>1, <2>3, <2>4, <2>5 DEF Framed, Bare
  <2>6. ASSUME NEW t \in Requests, Bare(t)', code'[t] # 500
        PROVE  \/ code'[t] \in {413, 429, 503}
               \/ code'[t] \in {307, 400} /\ HostsChecked' /\ req'[t].host # "trusted"
               \/ code'[t] \in {200, 400} /\ conf'.cors /\ req'[t].preflight # "no"
    BY <2>1, <2>6 DEF Framed, AnswerOf, Bare, HostsChecked, IsProduction
  <2> QED BY <2>2, <2>5, <2>6
<1> QED BY <1>1, <1>2, <1>3 DEF Next, Done

\* The parts together are inductive.
LEMMA StepInv == IInv /\ [Next]_vars => IInv'
  BY StepTypes, StepProgress, StepShown, StepAnswers DEF IInv

----------------------------------------------------------------------------
\* TypeOK of the pipeline, for any requests, tenants and inputs.
THEOREM PipelineTypes == Spec => []TypeOK
<1>1. IInv => TypeOK
  BY DEF IInv
<1> QED BY <1>1, InitInv, StepInv, PTL DEF Spec

\* NoLabWithoutEvidence: verify_api_access fails closed in the SaaS, however
\* requests, membership changes and failures of the database interleave.
THEOREM FailsClosed == Spec => []NoLabWithoutEvidence
<1>1. IInv => NoLabWithoutEvidence
  BY DEF IInv, Shown, Evidence, Allowed, NoLabWithoutEvidence
<1> QED BY <1>1, InitInv, StepInv, PTL DEF Spec

\* DenialsAudited: record_auth_audit_event has committed an event before a 401,
\* or a 403 about the tenant, is answered.
THEOREM DenialsOnRecord == Spec => []DenialsAudited
<1>1. IInv => DenialsAudited
  BY DEF IInv
<1> QED BY <1>1, InitInv, StepInv, PTL DEF Spec

\* ActsForVerifiedTenant: resolve_request_tenant and resolve_lab_request_context
\* let a lab act for the tenant of the token, or for the tenant_a of a platform
\* admin; the second run of _run_lab adds the default tenant.
THEOREM VerifiedTenantOnly == Spec => []ActsForVerifiedTenant
<1>1. IInv => ActsForVerifiedTenant
  BY DEF IInv
<1> QED BY <1>1, InitInv, StepInv, PTL DEF Spec

\* BareAnswersAreRefusals: only the layers outside SecurityHeadersMiddleware and
\* unhandled exceptions answer without its headers.
THEOREM HeadersOnAnswers == Spec => []BareAnswersAreRefusals
<1>1. IInv => BareAnswersAreRefusals
  BY DEF IInv
<1> QED BY <1>1, InitInv, StepInv, PTL DEF Spec
=============================================================================
