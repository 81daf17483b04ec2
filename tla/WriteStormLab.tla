--------------------------- MODULE WriteStormLab ---------------------------
(***************************************************************************)
(* The live PostgreSQL write storm lab (labs/postgres_write_storm.py).  A  *)
(* run resets the tenant's rows, inserts a batch that hardened mode cuts   *)
(* to a budget, and counts the tenant's rows.  Each of the three is a      *)
(* transaction of its own with one kind of statement, so it is one step:   *)
(* a batch appears as a whole, and a reset removes whole batches.  Runs    *)
(* of the thread pool and of other replicas interleave between the steps.  *)
(***************************************************************************)
EXTENDS Integers, FiniteSets, FiniteSetsExt

CONSTANTS
    Runs,         \* the requests POST /labs/postgres-write-storm/run
    Tenants,      \* tenant ids
    Modes,        \* the modes the deployment accepts
    Budget,       \* HARDENED_WRITE_BUDGET
    MaxRequested  \* MAX_REQUESTED_WRITES

ASSUME WriteStormAssumption ==
    /\ Modes \subseteq {"vulnerable", "hardened"}
    /\ Budget \in Nat \ {0}
    /\ MaxRequested \in Nat \ {0}

Terminal == {"ok", "invalid", "unavailable", "aborted"}
Locations == {"idle", "connect", "reset", "insert", "count"} \union Terminal

VARIABLES
    pc,         \* pc[r]: the next step of run r, or its outcome
    tenant,     \* tenant[r]
    mode,       \* mode[r]
    requested,  \* requested[r]: requested_writes
    stored,     \* the runs whose batch is in write_storm_events
    total,      \* total[r]: the row count the run reports
    met         \* met[r]: the runs of the same tenant that overlapped run r
                \* (a history variable, read by no action)

vars == <<pc, tenant, mode, requested, stored, total, met>>
inputs == <<tenant, mode, requested>>

Active(r) == pc[r] \notin Terminal \union {"idle"}

\* min(requested_writes, HARDENED_WRITE_BUDGET) in hardened mode; the batch
\* ids carry a fresh uuid, so every row of the batch is new.
Allowed(r) ==
    IF mode[r] = "hardened" /\ requested[r] > Budget THEN Budget ELSE requested[r]

StoredOf(t) == {r \in stored : tenant[r] = t}

\* Mutant: the count forgets the tenant.
RowCountOfAll(t) == MapThenSumSet(Allowed, stored)

\* count_write_storm_events
RowCount(t) == MapThenSumSet(Allowed, StoredOf(t))

Init ==
    /\ pc = [r \in Runs |-> "idle"]
    /\ tenant \in [Runs -> Tenants]
    /\ mode \in [Runs -> Modes]
    /\ requested \in [Runs -> 0 .. MaxRequested + 1]
    /\ stored = {}
    /\ total = [r \in Runs |-> 0]
    /\ met = [r \in Runs |-> {}]

\* The route calls run_postgres_write_storm_lab, which validates first.
Start(r) ==
    /\ pc[r] = "idle"
    /\ pc' = [pc EXCEPT ![r] =
                IF requested[r] \in 1 .. MaxRequested THEN "connect" ELSE "invalid"]
    /\ LET peers == {s \in Runs : Active(s) /\ tenant[s] = tenant[r]}
       IN met' = [s \in Runs |-> IF s = r THEN peers
                                 ELSE IF s \in peers THEN met[s] \union {r}
                                 ELSE met[s]]
    /\ UNCHANGED <<inputs, stored, total>>

\* check_postgres_connection and init_db; a failure is a 503.
Connect(r) ==
    /\ pc[r] = "connect"
    /\ \/ pc' = [pc EXCEPT ![r] = "reset"]
       \/ pc' = [pc EXCEPT ![r] = "unavailable"]
    /\ UNCHANGED <<inputs, stored, total, met>>

\* Mutant: only the rows of the run's own batch are reset.
ResetOwnBatch(r) ==
    /\ pc[r] = "reset"
    /\ stored' = stored \ {r}
    /\ pc' = [pc EXCEPT ![r] = "insert"]
    /\ UNCHANGED <<inputs, total, met>>

\* reset_write_storm_events: WHERE tenant_id = t, so no LIKE reaches further.
Reset(r) ==
    /\ pc[r] = "reset"
    /\ stored' = stored \ StoredOf(tenant[r])
    /\ pc' = [pc EXCEPT ![r] = "insert"]
    /\ UNCHANGED <<inputs, total, met>>

\* insert_write_storm_events
Insert(r) ==
    /\ pc[r] = "insert"
    /\ stored' = stored \union {r}
    /\ pc' = [pc EXCEPT ![r] = "count"]
    /\ UNCHANGED <<inputs, total, met>>

Count(r) ==
    /\ pc[r] = "count"
    /\ total' = [total EXCEPT ![r] = RowCount(tenant[r])]
    /\ pc' = [pc EXCEPT ![r] = "ok"]
    /\ UNCHANGED <<inputs, stored, met>>

\* A transaction fails and is rolled back, or PostgreSQL commits it and the
\* answer to the commit is lost; either way the exception is a 500.
Fail(r) ==
    /\ \/ pc[r] \in {"reset", "insert", "count"} /\ UNCHANGED stored
       \/ pc[r] = "reset" /\ stored' = stored \ StoredOf(tenant[r])
       \/ pc[r] = "insert" /\ stored' = stored \union {r}
    /\ pc' = [pc EXCEPT ![r] = "aborted"]
    /\ UNCHANGED <<inputs, total, met>>

Done == (\A r \in Runs : pc[r] \in Terminal) /\ UNCHANGED vars

Next ==
    \/ \E r \in Runs : \/ Start(r) \/ Connect(r) \/ Reset(r)
                       \/ Insert(r) \/ Count(r) \/ Fail(r)
    \/ Done

Spec == Init /\ [][Next]_vars

----------------------------------------------------------------------------
TypeOK ==
    /\ pc \in [Runs -> Locations]
    /\ tenant \in [Runs -> Tenants]
    /\ mode \in [Runs -> Modes]
    /\ requested \in [Runs -> 0 .. MaxRequested + 1]
    /\ stored \in SUBSET Runs
    /\ DOMAIN total = Runs
    /\ met \in [Runs -> SUBSET Runs]

\* The reset of a run removes every earlier batch of its tenant, so two
\* batches of a tenant that are stored together come from runs that
\* overlapped: the rows of a tenant never pile up from run to run, even when
\* runs die between reset, insert and count.
StoredBatchesOverlap ==
    \A r, s \in stored : r # s /\ tenant[r] = tenant[s] => s \in met[r]

\* A run that met no other run of its tenant reports exactly its own batch.
LoneRunCountsItself ==
    \A r \in Runs : pc[r] = "ok" /\ met[r] = {} => total[r] = Allowed(r)
=============================================================================
