----------------------------- MODULE LabMetrics -----------------------------
(***************************************************************************)
(* The Prometheus metrics of the API (apps/api/metrics.py) as the lab      *)
(* routes record them.  A route validates its request, runs the lab and    *)
(* then _record_lab_metrics updates one series after the other; routes run *)
(* in the thread pool, so the updates of several runs interleave.  One     *)
(* update is atomic: prometheus locks each series.  A scrape of /metrics   *)
(* takes no lock of its own: it reads series after series while the runs   *)
(* go on recording.                                                        *)
(*                                                                         *)
(* The results of the labs with a backend (governance, write storm,        *)
(* sessions, prompt cache), which other modules describe, are inputs here. *)
(***************************************************************************)
EXTENDS SimulatedLabs, Sequences

CONSTANTS
    LabRuns,       \* lab runs
    Units,         \* work units, streams and writes that requests ask for
    CacheTenants   \* tenants of the prompt cache lab

ASSUME MetricsAssumption == Units \subseteq Int

VARIABLES
    value,        \* the series that exist, with their values
    stage,        \* stage[r]: "idle", "recording", "done" or "refused" (422)
    asked,        \* asked[r]: the request of run r
    todo,         \* todo[r]: the updates it has not made yet
    overlapped,   \* history: the runs that recorded at the same time as another
    last,         \* history: the run that finished recording last
    seen,         \* how many of ScrapeOrder the scrape has read
    shown,        \* the values it has read
    quiet         \* history: no run was recording while it read

recordVars == <<value, stage, asked, todo, overlapped, last>>
scrapeVars == <<seen, shown, quiet>>
metricsVars == <<recordVars, scrapeVars>>

----------------------------------------------------------------------------
\* Requests, with the measured results of the labs with a backend.

LabRequests ==
    [lab : {"tool-router", "authz", "redis"}, mode : LabModes]
    \union [lab : {"file-upload"}, mode : LabModes, type : {"pdf", "exe"},
            hidden : BOOLEAN, active : BOOLEAN, egress : BOOLEAN]
    \union [lab : {"governance"}, mode : LabModes, orphans : 0 .. 1]
    \union [lab : {"postgres-write-storm", "circuit-breaker", "sse-exhaustion"},
            mode : LabModes, units : Units]
    \union [lab : {"prompt-cache-isolation"}, mode : LabModes,
            a : CacheTenants, b : CacheTenants, hit : BOOLEAN]

Valid(i) ==
    /\ i.lab = "file-upload" => i.type \in FileTypesAllowed
    /\ i.lab \in {"postgres-write-storm", "circuit-breaker", "sse-exhaustion"}
         => UnitsAllowed(i.units)

\* stream_duration_seconds: it only scales the memory gauge, one value is
\* enough; this one does not divide evenly.
StreamSeconds == 90

NoLabRequest == [lab |-> "none", mode |-> "none"]

\* The result of the write storm: a budget of 50 in hardened mode.
WriteStorm(mode, n) ==
    [blocked |-> mode = "hardened",
     refused |-> IF mode = "hardened" THEN Above(n, 50) ELSE 0]

Blocked(i) ==
    CASE i.lab = "tool-router"     -> ToolRouter(i.mode).blocked
      [] i.lab = "authz"           -> Authz(i.mode).blocked
      [] i.lab = "file-upload"     ->
            FileUpload(i.mode, i.hidden, i.active, i.egress).blocked
      [] i.lab = "circuit-breaker" -> CircuitBreaker(i.mode, i.units).blocked
      [] i.lab = "sse-exhaustion"  -> SseExhaustion(i.mode, i.units, StreamSeconds).blocked
      [] OTHER                     -> i.mode = "hardened"

----------------------------------------------------------------------------
\* The updates of a run, in order.  A series is its name and its labels.

Set(s, n) == <<[op |-> "set", series |-> s, n |-> n]>>

\* The counters that take a count skip zero.
Inc(s, n) == IF n > 0 THEN <<[op |-> "inc", series |-> s, n |-> n]>> ELSE << >>

IncIf(c, s) == IF c THEN Inc(s, 1) ELSE << >>

LabRun(i) ==
    Inc(<<"lab_runs", i.lab, i.mode, IF Blocked(i) THEN "blocked" ELSE "allowed">>, 1)

\* The labs with one counter of their own: tool-router, redis, authz.
BlockedOnly(i) == IncIf(i.mode = "hardened" /\ Blocked(i), <<"blocked", i.lab>>)

FileUpdates(i) ==
    LET x == FileUpload(i.mode, i.hidden, i.active, i.egress) IN
       Inc(<<"extractions", i.mode, i.type, x.extraction>>, 1)
    \o IncIf(x.sandbox, <<"sandbox", i.mode>>)
    \o IncIf(x.egress, <<"egress", i.mode>>)
    \o IncIf(x.active, <<"active", i.mode, i.type>>)
    \o IncIf(x.hidden, <<"hidden", i.mode, i.type>>)
    \o IncIf(x.wrapped, <<"wrapped", i.mode>>)
    \o IncIf(i.mode = "hardened" /\ x.blocked, <<"blocked", i.lab>>)

\* A vulnerable deletion has no audit.
GovernanceUpdates(i) ==
       Inc(<<"orphans">>, i.orphans)
    \o IncIf(i.mode = "hardened", <<"audits", i.mode, IF i.orphans = 0 THEN "true" ELSE "false">>)

WriteStormUpdates(i) ==
    LET x == WriteStorm(i.mode, i.units) IN
       Inc(<<"storm_events", i.mode, "inserted">>, i.units - x.refused)
    \o Inc(<<"storm_refused", i.mode>>, x.refused)
    \o Inc(<<"storm_duration_count", i.mode>>, 1)

\* Mutant: the accepted units are recorded before the requested ones.
CircuitUpdatesReordered(i) ==
    LET x == CircuitBreaker(i.mode, i.units) IN
       Inc(<<"inference", i.mode, "accepted">>, x.accepted)
    \o Inc(<<"inference", i.mode, "requested">>, x.requested)
    \o Inc(<<"shed", i.mode>>, x.shed)
    \o Set(<<"breaker">>, x.state)

\* Mutant: a closed breaker (0) is taken for no state.
CircuitUpdatesTruthy(i) ==
    LET x == CircuitBreaker(i.mode, i.units) IN
       Inc(<<"inference", i.mode, "requested">>, x.requested)
    \o Inc(<<"inference", i.mode, "accepted">>, x.accepted)
    \o Inc(<<"shed", i.mode>>, x.shed)
    \o Set(<<"queue", i.mode>>, x.queue)
    \o Set(<<"p99", i.mode>>, x.p99)
    \o (IF x.state # 0 THEN Set(<<"breaker">>, x.state) ELSE << >>)

CircuitUpdates(i) ==
    LET x == CircuitBreaker(i.mode, i.units) IN
       Inc(<<"inference", i.mode, "requested">>, x.requested)
    \o Inc(<<"inference", i.mode, "accepted">>, x.accepted)
    \o Inc(<<"shed", i.mode>>, x.shed)
    \o Inc(<<"failures", i.mode>>, x.failures)
    \o Set(<<"queue", i.mode>>, x.queue)
    \o Set(<<"p99", i.mode>>, x.p99)
    \o Set(<<"breaker">>, x.state)

SseUpdates(i) ==
    LET x == SseExhaustion(i.mode, i.units, StreamSeconds) IN
       Inc(<<"sse", i.mode, "requested">>, x.requested)
    \o Inc(<<"sse", i.mode, "accepted">>, x.accepted)
    \o Inc(<<"sse_rejected", i.mode>>, x.rejected)
    \o Set(<<"sse_active", i.mode>>, x.active)
    \o Set(<<"sse_orphaned", i.mode>>, x.orphaned)
    \o Set(<<"sse_workers", i.mode>>, x.workers)
    \o Set(<<"sse_memory", i.mode>>, x.memory)
    \o IncIf(x.cleanup, <<"sse_cleanup", i.mode>>)

HitType(i) ==
    IF ~i.hit THEN "miss" ELSE IF i.mode = "vulnerable" THEN "cross_tenant" ELSE "tenant_scoped"

CacheUpdates(i) ==
       Inc(<<"cache", i.mode, i.a, "write">>, 1)
    \o Inc(<<"cache", i.mode, i.b, "lookup">>, 1)
    \o Inc(<<"cache_hits", i.mode, i.b, HitType(i)>>, 1)
    \o IncIf(i.mode = "vulnerable" /\ i.hit, <<"cache_bleed", i.mode>>)
    \o IncIf(i.mode = "hardened", <<"cache_isolated", i.mode>>)

\* _record_lab_metrics
Updates(i) ==
    LabRun(i) \o
    CASE i.lab = "file-upload"            -> FileUpdates(i)
      [] i.lab = "governance"             -> GovernanceUpdates(i)
      [] i.lab = "postgres-write-storm"   -> WriteStormUpdates(i)
      [] i.lab = "circuit-breaker"        -> CircuitUpdates(i)
      [] i.lab = "sse-exhaustion"         -> SseUpdates(i)
      [] i.lab = "prompt-cache-isolation" -> CacheUpdates(i)
      [] OTHER                            -> BlockedOnly(i)

----------------------------------------------------------------------------
\* A series that no run has touched reads as absent: nothing is counted.
Get(s) == IF s \in DOMAIN value THEN value[s] ELSE 0

Recording == {r \in LabRuns : stage[r] = "recording"}

NoRun == "none"

\* The series of the hardened circuit breaker in the order of a scrape: families
\* as metrics.py registers them, the series of one as they were first used.  The
\* other series are read in between.
ScrapeOrder ==
    << <<"breaker">>, <<"inference", "hardened", "requested">>,
       <<"inference", "hardened", "accepted">>, <<"shed", "hardened">> >>

\* metrics.py sets the breaker's gauge when it is imported.  A scrape that is
\* over shows what it has read; the first one is over before any run.
MetricsInit ==
    /\ value = [s \in {<<"breaker">>} |-> 0]
    /\ stage = [r \in LabRuns |-> "idle"]
    /\ asked = [r \in LabRuns |-> NoLabRequest]
    /\ todo = [r \in LabRuns |-> << >>]
    /\ overlapped = {}
    /\ last = NoRun
    /\ seen = 4
    /\ shown = [i \in 1 .. 4 |-> 0]
    /\ quiet = TRUE

\* A route refuses its request with 422, or runs the lab and goes on to its
\* metrics.
SubmitLab(r, i) ==
    /\ stage[r] = "idle"
    /\ asked' = [asked EXCEPT ![r] = i]
    /\ \/ /\ ~Valid(i)
          /\ stage' = [stage EXCEPT ![r] = "refused"]
          /\ UNCHANGED <<todo, overlapped, quiet>>
       \/ /\ Valid(i)
          /\ stage' = [stage EXCEPT ![r] = "recording"]
          /\ todo' = [todo EXCEPT ![r] = Updates(i)]
          /\ overlapped' = IF Recording = {} THEN overlapped
                           ELSE overlapped \union Recording \union {r}
          /\ quiet' = (quiet /\ seen = 4)
    /\ UNCHANGED <<value, last, seen, shown>>

\* labels() creates a series at its first use.
Update(u) ==
    value' = [s \in DOMAIN value \union {u.series} |->
                IF s # u.series THEN value[s]
                ELSE IF u.op = "set" THEN u.n ELSE Get(s) + u.n]

\* The next update of a run; after the last one it answers 200.
Record(r) ==
    /\ stage[r] = "recording"
    /\ Update(Head(todo[r]))
    /\ todo' = [todo EXCEPT ![r] = Tail(@)]
    /\ \/ Len(todo[r]) > 1 /\ UNCHANGED <<stage, last>>
       \/ Len(todo[r]) = 1 /\ stage' = [stage EXCEPT ![r] = "done"] /\ last' = r
    /\ UNCHANGED <<asked, overlapped, seen, shown, quiet>>

RecordNext ==
    \/ \E r \in LabRuns : \E i \in LabRequests : SubmitLab(r, i)
    \/ \E r \in LabRuns : Record(r)

\* GET /metrics: generate_latest
BeginScrape ==
    /\ seen = 4
    /\ seen' = 0
    /\ shown' = [i \in 1 .. 4 |-> 0]
    /\ quiet' = (Recording = {})
    /\ UNCHANGED recordVars

ReadSeries ==
    /\ seen < 4
    /\ seen' = seen + 1
    /\ shown' = [shown EXCEPT ![seen + 1] = Get(ScrapeOrder[seen + 1])]
    /\ UNCHANGED <<recordVars, quiet>>

MetricsNext == RecordNext \/ BeginScrape \/ ReadSeries

MetricsSpec == MetricsInit /\ [][MetricsNext]_metricsVars

----------------------------------------------------------------------------
RecordTypeOK ==
    /\ \A s \in DOMAIN value : value[s] \in Nat
    /\ stage \in [LabRuns -> {"idle", "recording", "done", "refused"}]
    /\ asked \in [LabRuns -> LabRequests \union {NoLabRequest}]
    /\ overlapped \subseteq LabRuns
    /\ last \in LabRuns \union {NoRun}

MetricsTypeOK ==
    /\ RecordTypeOK
    /\ seen \in 0 .. 4
    /\ shown \in [1 .. 4 -> Nat]
    /\ quiet \in BOOLEAN

\* The parts of a total never exceed it, and make it up when no run is
\* recording.
MadeUpOf(total, parts) ==
    /\ parts <= total
    /\ Recording = {} => parts = total

\* The registry, at every moment.  Work and streams are accepted or turned away
\* only once they are counted as requested, and every one of them is; every
\* lookup is a hit or a miss; every upload has an extraction outcome.  The
\* counters that alerts watch count exactly the hardened runs of their lab that
\* were blocked, and the breaker's gauge says open only when shed work units are
\* counted.
RegistryAccounted ==
    /\ \A m \in LabModes :
        /\ MadeUpOf(Get(<<"inference", m, "requested">>),
                    Get(<<"inference", m, "accepted">>) + Get(<<"shed", m>>))
        /\ MadeUpOf(Get(<<"sse", m, "requested">>),
                    Get(<<"sse", m, "accepted">>) + Get(<<"sse_rejected", m>>))
        /\ \A t \in CacheTenants :
             MadeUpOf(Get(<<"cache", m, t, "lookup">>),
                      Get(<<"cache_hits", m, t, "miss">>)
                      + Get(<<"cache_hits", m, t, "cross_tenant">>)
                      + Get(<<"cache_hits", m, t, "tenant_scoped">>))
    /\ MadeUpOf(Get(<<"lab_runs", "file-upload", "hardened", "blocked">>)
                + Get(<<"lab_runs", "file-upload", "hardened", "allowed">>),
                Get(<<"extractions", "hardened", "pdf", "blocked">>)
                + Get(<<"extractions", "hardened", "pdf", "sandboxed">>))
    /\ \A l \in {"tool-router", "redis", "authz", "file-upload"} :
        MadeUpOf(Get(<<"lab_runs", l, "hardened", "blocked">>), Get(<<"blocked", l>>))
    /\ Get(<<"breaker">>) = 1 => Get(<<"shed", "hardened">>) > 0

\* A scrape reads the requested work units before their parts, so it may show
\* parts that exceed the total it shows.  They never exceed the total by then,
\* which the next scrape reads: the excess is what was recorded meanwhile.  A
\* scrape during which no run recorded balances.  And since the breaker's gauge
\* is registered before the counter of shed work units, every scrape that
\* shows an open breaker shows shed work.
ScrapeAccounted ==
    LET requested == shown[2]
        parts == shown[3] + shown[4]
    IN /\ parts <= Get(<<"inference", "hardened", "requested">>)
       /\ seen = 4 /\ quiet => parts = requested
       /\ seen = 4 /\ shown[1] = 1 => shown[4] > 0

\* Totals and parts agree, in the registry at every moment and in a scrape as
\* far as its reading series by series allows.
Accounted == RegistryAccounted /\ ScrapeAccounted

\* The gauges show one run: when the last run to record did so alone, every
\* gauge of its lab has the value of its result, also one that went to zero.
\* (Gauges that two runs set at the same time may show some of each.)
GaugesOfLastRun ==
    last # NoRun /\ Recording = {} /\ last \notin overlapped =>
        LET i == asked[last] IN
        /\ i.lab = "circuit-breaker" =>
             LET x == CircuitBreaker(i.mode, i.units) IN
             /\ Get(<<"queue", i.mode>>) = x.queue
             /\ Get(<<"p99", i.mode>>) = x.p99
             /\ Get(<<"breaker">>) = x.state
        /\ i.lab = "sse-exhaustion" =>
             LET x == SseExhaustion(i.mode, i.units, StreamSeconds) IN
             /\ Get(<<"sse_active", i.mode>>) = x.active
             /\ Get(<<"sse_orphaned", i.mode>>) = x.orphaned
             /\ Get(<<"sse_memory", i.mode>>) = x.memory
=============================================================================
