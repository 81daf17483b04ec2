--------------------------- MODULE GovernanceLab ---------------------------
(***************************************************************************)
(* The live prompt governance lab: labs/governance.py runs one request as  *)
(* a chain of PostgreSQL transactions (apps/api/db.py), and FastAPI runs   *)
(* the requests concurrently in its thread pool and in several replicas.   *)
(*                                                                         *)
(* The transactions run at PostgreSQL's default isolation, READ COMMITTED: *)
(* every STATEMENT reads what is committed when it starts, a row written   *)
(* by an open transaction is locked, and what the transaction wrote is     *)
(* seen by the others only when it commits.  The model therefore takes one *)
(* step per SQL statement; the last statement of a transaction takes the   *)
(* commit of get_connection with it.                                       *)
(***************************************************************************)
EXTENDS Integers, Sequences, FiniteSets, Functions

CONSTANTS
    Runs,      \* the requests POST /labs/governance/run, one run each
    Tenants,   \* tenant ids
    Modes,     \* the modes the deployment accepts
    Like,      \* Like[t]: the tenants whose rows "<prefix><t>:%" matches: t itself,
               \* ids that begin with t and a colon, and what _ and % in t match
    None       \* "this transaction has not written the row"

\* The downstream tables, in the order in which the code visits them.
Tables == <<"prompt_logs", "tool_records", "evaluation_queue", "training_queue">>
Downstream == {"prompt_logs", "tool_records", "evaluation_queue", "training_queue"}

\* The rows create_prompt_lifecycle_records writes in a downstream table.
RowsIn(table) == IF table = "prompt_logs" THEN 2 ELSE 1
AllDownstreamRows == 5

\* A key <<t, n>> stands for the rows of tenant t in table n.  The audit row
\* that run s inserts for tenant t is the key <<t, s>>.
Names == Downstream \union {"prompt_requests"} \union Runs
Keys == Tenants \X Names
RowStates == {"absent", "live", "deleted"}
Untouched == [x \in Keys |-> None]

Terminal == {"ok", "notfound", "aborted", "unavailable"}
InTransaction == {"reset", "create", "verifyDelete", "delete",
                  "verifyCount", "count", "verifyAudit", "audit"}
Writing == {"reset", "create", "delete"}
Locations == {"idle", "connect"} \union InTransaction \union Terminal

ASSUME ConstantsAssumption ==
    /\ Modes \subseteq {"vulnerable", "hardened"}
    /\ Like \in [Tenants -> SUBSET Tenants]
    /\ \A t \in Tenants : t \in Like[t]
    /\ Runs \intersect (Downstream \union {"prompt_requests"}) = {}
    /\ None \notin RowStates

VARIABLES
    db,       \* the committed rows
    wr,       \* wr[r]: what the open transaction of run r has written
    pc,       \* pc[r]: the transaction run r is in, or its outcome
    k,        \* k[r]: the next statement of that transaction
    tenant,   \* tenant[r]: the tenant of run r
    mode,     \* mode[r]: its mode
    orphans,  \* orphans[r]: orphan_count
    met       \* met[r]: the runs of the same tenant that overlapped run r
              \* (a history variable, read by no action)

vars == <<db, wr, pc, k, tenant, mode, orphans, met>>

Active(r) == pc[r] \notin Terminal \union {"idle"}

----------------------------------------------------------------------------
(* PostgreSQL (external): locks, visibility, commit and rollback.          *)

Prompt(t) == <<t, "prompt_requests">>

\* What a statement of run r sees of a row.
View(r, x) == IF wr[r][x] = None THEN db[x] ELSE wr[r][x]

Present(r, X) == {x \in X : View(r, x) # "absent"}

LockedByOther(r, x) == \E s \in Runs \ {r} : wr[s][x] # None

Written(r, X, v) == [x \in Keys |-> IF x \in X THEN v ELSE wr[r][x]]

Committed(w) == [x \in Keys |-> IF w[x] = None THEN db[x] ELSE w[x]]

----------------------------------------------------------------------------
(* The rows each statement writes, and the value it leaves there.          *)

\* Mutant: the prefix without the tenant.
ResetRowsUnscoped(t, i) ==
    CASE i = 1        -> Tenants \X Runs
      [] i \in 2 .. 5 -> Tenants \X {Tables[i - 1]}
      [] OTHER        -> {Prompt(t)}

\* reset_governance_lab_records: deletion_audit, the downstream tables, and
\* last prompt_requests, the only one whose WHERE also names the tenant.
ResetRows(t, i) ==
    CASE i = 1        -> Like[t] \X Runs
      [] i \in 2 .. 5 -> Like[t] \X {Tables[i - 1]}
      [] OTHER        -> {Prompt(t)}

\* create_prompt_lifecycle_records: an upsert of the prompt, then of its
\* downstream rows, each with ON CONFLICT ... SET deleted_at = NULL.
CreateRows(t, i) == IF i = 1 THEN {Prompt(t)} ELSE {<<t, Tables[i - 1]>>}

\* delete_primary_only, and delete_all_prompt_lifecycle_records with its
\* "AND deleted_at IS NULL" on the downstream tables.
DeleteRows(r, i) ==
    IF mode[r] = "vulnerable" \/ i = 5
    THEN Present(r, {Prompt(tenant[r])})
    ELSE {x \in {<<tenant[r], Tables[i]>>} : View(r, x) = "live"}

\* Mutant: the cascade forgets the prompt itself.
DeleteLastShort(r) == IF mode[r] = "vulnerable" THEN 1 ELSE 4

DeleteLast(r) == IF mode[r] = "vulnerable" THEN 1 ELSE 5

\* The rows the next statement of run r writes.
Needs(r) ==
    CASE pc[r] = "reset"  -> Present(r, ResetRows(tenant[r], k[r]))
      [] pc[r] = "create" -> CreateRows(tenant[r], k[r])
      [] pc[r] = "delete" -> DeleteRows(r, k[r])
      [] pc[r] = "audit"  -> {<<tenant[r], r>>}
      [] OTHER            -> {}

\* The next statement of r waits for a row that s has written.
Waits(r, s) == s # r /\ \E x \in Needs(r) : wr[s][x] # None

\* r is on a cycle of waiting transactions.
Deadlocked(r) ==
    \E S \in SUBSET Runs :
        /\ r \in S
        /\ \E f \in [S -> S] : IsInjective(f) /\ \A s \in S : Waits(s, f[s])

\* The last writing statement of a transaction, and its COMMIT.
Commit(r, v, next) ==
    /\ db' = Committed(Written(r, Needs(r), v))
    /\ wr' = [wr EXCEPT ![r] = Untouched]
    /\ k' = [k EXCEPT ![r] = 1]
    /\ pc' = [pc EXCEPT ![r] = next]

\* One writing statement, once nobody else holds its rows.
Execute(r, v, last, next) ==
    /\ \A x \in Needs(r) : ~LockedByOther(r, x)
    /\ \/ /\ k[r] < last
          /\ wr' = [wr EXCEPT ![r] = Written(r, Needs(r), v)]
          /\ k' = [k EXCEPT ![r] = @ + 1]
          /\ UNCHANGED <<db, pc>>
       \/ k[r] = last /\ Commit(r, v, next)
    /\ UNCHANGED <<tenant, mode, orphans, met>>

----------------------------------------------------------------------------
Init ==
    /\ db = [x \in Keys |-> "absent"]
    /\ wr = [r \in Runs |-> Untouched]
    /\ pc = [r \in Runs |-> "idle"]
    /\ k = [r \in Runs |-> 1]
    /\ tenant \in [Runs -> Tenants]
    /\ mode \in [Runs -> Modes]
    /\ orphans = [r \in Runs |-> 0]
    /\ met = [r \in Runs |-> {}]

\* run_governance_lab is called by the route.
Start(r) ==
    /\ pc[r] = "idle"
    /\ pc' = [pc EXCEPT ![r] = "connect"]
    /\ LET peers == {s \in Runs : Active(s) /\ tenant[s] = tenant[r]}
       IN met' = [s \in Runs |-> IF s = r THEN peers
                                 ELSE IF s \in peers THEN met[s] \union {r}
                                 ELSE met[s]]
    /\ UNCHANGED <<db, wr, k, tenant, mode, orphans>>

\* check_postgres_connection and init_db: any exception is a RuntimeError,
\* which _run_lab turns into a 503.
Connect(r) ==
    /\ pc[r] = "connect"
    /\ \/ pc' = [pc EXCEPT ![r] = "reset"]
       \/ pc' = [pc EXCEPT ![r] = "unavailable"]
    /\ UNCHANGED <<db, wr, k, tenant, mode, orphans, met>>

Reset(r) == pc[r] = "reset" /\ Execute(r, "absent", 6, "create")

Create(r) == pc[r] = "create" /\ Execute(r, "live", 5, "verifyDelete")

\* Mutant: the lookup skips soft-deleted prompts.
VerifyLiveOnly(r) ==
    /\ pc[r] \in {"verifyDelete", "verifyCount", "verifyAudit"}
    /\ pc' = [pc EXCEPT ![r] =
                IF db[Prompt(tenant[r])] # "live" THEN "notfound"
                ELSE CASE @ = "verifyDelete" -> "delete"
                       [] @ = "verifyCount"  -> "count"
                       [] OTHER              -> "audit"]
    /\ UNCHANGED <<db, wr, k, tenant, mode, orphans, met>>

\* _verify_prompt_tenant, in a transaction of its own before each of delete,
\* count and audit.  The id holds the tenant, so a row that exists is the
\* tenant's; a missing one is a ValueError, which nobody catches (500).
VerifyPromptTenant(r) ==
    /\ pc[r] \in {"verifyDelete", "verifyCount", "verifyAudit"}
    /\ pc' = [pc EXCEPT ![r] =
                IF db[Prompt(tenant[r])] = "absent" THEN "notfound"
                ELSE CASE @ = "verifyDelete" -> "delete"
                       [] @ = "verifyCount"  -> "count"
                       [] OTHER              -> "audit"]
    /\ UNCHANGED <<db, wr, k, tenant, mode, orphans, met>>

\* Mutant: DELETE instead of setting deleted_at.
HardDelete(r) ==
    pc[r] = "delete" /\ Execute(r, "absent", DeleteLast(r), "verifyCount")

Delete(r) ==
    pc[r] = "delete" /\ Execute(r, "deleted", DeleteLast(r), "verifyCount")

\* One SELECT COUNT(*) of count_orphan_records: the live rows of a table
\* whose prompt is deleted.
OrphansIn(t, table) ==
    IF db[Prompt(t)] = "deleted" /\ db[<<t, table>>] = "live"
    THEN RowsIn(table) ELSE 0

CountOrphans(r) ==
    /\ pc[r] = "count"
    /\ orphans' = [orphans EXCEPT ![r] = @ + OrphansIn(tenant[r], Tables[k[r]])]
    /\ k' = [k EXCEPT ![r] = IF @ < 4 THEN @ + 1 ELSE 1]
    /\ pc' = [pc EXCEPT ![r] = IF k[r] < 4 THEN "count"
                               ELSE IF mode[r] = "hardened" THEN "verifyAudit"
                               ELSE "ok"]
    /\ UNCHANGED <<db, wr, tenant, mode, met>>

\* insert_deletion_audit; the row's complete flag is orphans[r] = 0.
InsertDeletionAudit(r) == pc[r] = "audit" /\ Execute(r, "live", 1, "ok")

\* Mutant: the connection is neither rolled back nor closed.
RollbackLeaks(r) ==
    /\ pc' = [pc EXCEPT ![r] = "aborted"]
    /\ UNCHANGED <<db, wr, k, tenant, mode, orphans, met>>

\* get_connection's except and finally: the transaction is rolled back and
\* the exception leaves the run.
Rollback(r) ==
    /\ wr' = [wr EXCEPT ![r] = Untouched]
    /\ pc' = [pc EXCEPT ![r] = "aborted"]
    /\ UNCHANGED <<db, k, tenant, mode, orphans, met>>

\* The connection fails, or the process dies, inside a transaction.
Fail(r) == pc[r] \in InTransaction /\ Rollback(r)

\* PostgreSQL has committed and the answer to conn.commit() is lost: the rows
\* are there, and the run ends with the exception all the same.
LoseCommit(r) ==
    /\ \A x \in Needs(r) : ~LockedByOther(r, x)
    /\ \/ pc[r] = "reset" /\ k[r] = 6 /\ Commit(r, "absent", "aborted")
       \/ pc[r] = "create" /\ k[r] = 5 /\ Commit(r, "live", "aborted")
       \/ pc[r] = "delete" /\ k[r] = DeleteLast(r) /\ Commit(r, "deleted", "aborted")
       \/ pc[r] = "audit" /\ k[r] = 1 /\ Commit(r, "live", "aborted")
    /\ UNCHANGED <<tenant, mode, orphans, met>>

\* PostgreSQL's deadlock detector cancels one transaction of a cycle.
DeadlockAbort(r) == pc[r] \in InTransaction /\ Deadlocked(r) /\ Rollback(r)

Step(r) ==
    \/ Connect(r)
    \/ Reset(r)
    \/ Create(r)
    \/ VerifyPromptTenant(r)
    \/ Delete(r)
    \/ CountOrphans(r)
    \/ InsertDeletionAudit(r)

Quiescent == \A r \in Runs : pc[r] \in Terminal

Done == Quiescent /\ UNCHANGED vars

Next ==
    \/ \E r \in Runs :
         Start(r) \/ Step(r) \/ Fail(r) \/ LoseCommit(r) \/ DeadlockAbort(r)
    \/ Done

Spec == Init /\ [][Next]_vars

\* A thread of the pool goes on with its run, and the deadlock detector wakes
\* up; nobody is obliged to send a request, and no connection must fail.
Fairness == \A r \in Runs : WF_vars(Step(r)) /\ WF_vars(DeadlockAbort(r))

FairSpec == Spec /\ Fairness

----------------------------------------------------------------------------
TypeOK ==
    /\ db \in [Keys -> RowStates]
    /\ wr \in [Runs -> [Keys -> RowStates \union {None}]]
    /\ pc \in [Runs -> Locations]
    /\ k \in [Runs -> 1 .. 6]
    /\ tenant \in [Runs -> Tenants]
    /\ mode \in [Runs -> Modes]
    /\ orphans \in [Runs -> Nat]
    /\ met \in [Runs -> SUBSET Runs]

\* The schema declares no foreign key, and count_orphan_records joins on the
\* prompt_requests row: a downstream row without one is an orphan no count
\* sees.  A reset that overlaps another run's create does leave such rows, but
\* only until that same run's own create commits, or if it is cut off before.
DanglingIsTransient ==
    \A t \in Tenants : \A n \in Downstream :
        db[<<t, n>>] # "absent" /\ db[Prompt(t)] = "absent" =>
            \E r \in Runs : tenant[r] = t /\ pc[r] \in {"create", "aborted"}

LiveDownstream(t) == {n \in Downstream : db[<<t, n>>] = "live"}

\* Once every request has returned, and none was cut off by the database,
\* no downstream row of a tenant that only ran hardened is live, however the
\* runs overlapped (runs that lost their prompt to another run's reset and
\* answered 500 included).
CleanWhenQuiescent ==
    Quiescent =>
        \A t \in Tenants :
            LET mine == {r \in Runs : tenant[r] = t}
            IN (\A r \in mine : mode[r] = "hardened" /\ pc[r] # "aborted")
                  => LiveDownstream(t) = {}

\* A run that met no other run of its tenant reports what it left, whatever
\* finished or aborted runs left before it: vulnerable counts all downstream
\* rows as orphans, hardened leaves none and writes a complete audit row.
LoneRunIsExact ==
    [][\A r \in Runs :
         pc[r] # "ok" /\ pc'[r] = "ok" /\ met'[r] = {} =>
            IF mode[r] = "vulnerable"
            THEN orphans'[r] = AllDownstreamRows
            ELSE /\ orphans'[r] = 0
                 /\ db'[<<tenant[r], r>>] = "live"
                 /\ \A n \in Downstream \union {"prompt_requests"} :
                        db'[<<tenant[r], n>>] = "deleted"]_vars

\* The rows of a tenant are changed only by a transaction of that tenant
\* that commits: the id prefixes keep the tenants apart.
TenantIsolation ==
    [][\A x \in Keys : db'[x] # db[x] =>
         \E r \in Runs : tenant[r] = x[1] /\ Active(r) /\ pc'[r] # pc[r]]_vars

\* A run holds rows only inside its multi-statement transactions: while it
\* verifies, counts or has returned, with whatever answer, it blocks nobody.
NothingHeldOutside ==
    \A r \in Runs : pc[r] \notin Writing => wr[r] = Untouched

\* Every run that starts returns, although create locks the prompt before its
\* downstream rows and reset and delete lock them in the opposite order.
EveryRunReturns ==
    \A r \in Runs : pc[r] = "connect" ~> pc[r] \in Terminal
=============================================================================
