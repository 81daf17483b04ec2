------------------------ MODULE GovernanceLabProofs ------------------------
(***************************************************************************)
(* What holds of GovernanceLab for any set of runs and tenants.  Tenant    *)
(* isolation needs LikeExact, and OwnRowsOnly: an open transaction has     *)
(* written rows of its own tenant only.  That hardened runs leave nothing  *)
(* behind needs RowsOwned: every live row has a run that has yet to delete *)
(* it, and hands it on to another run when it loses its prompt to that     *)
(* run's reset.  That a lone run is exact needs LoneRuns: what such a run  *)
(* has found and made of its tenant's rows, from statement to statement,   *)
(* with nobody else to change them.                                        *)
(***************************************************************************)
EXTENDS GovernanceLab, TLAPS

\* No tenant's LIKE pattern matches rows of another tenant: no id holds a
\* wildcard, or begins with another id and a colon.
LikeExact == \A t \in Tenants : Like[t] = {t}

OwnRowsOnly ==
    \A r \in Runs : \A x \in Keys : wr[r][x] # None => x[1] = tenant[r]

----------------------------------------------------------------------------
(* What one statement does, whatever it writes.                            *)

\* The committed state after a transaction commits is again a state of rows:
\* Committed and Written only mix row states that were already there.
LEMMA CommittedType ==
    ASSUME TypeOK, NEW r \in Runs, NEW X, NEW v \in RowStates
    PROVE  /\ Written(r, X, v) \in [Keys -> RowStates \union {None}]
           /\ Committed(Written(r, X, v)) \in [Keys -> RowStates]
  BY DEF TypeOK, Written, Committed

\* A statement of a transaction (Execute) preserves the type invariant.
LEMMA ExecuteType ==
    ASSUME TypeOK, NEW r \in Runs, NEW v \in RowStates, NEW last \in 1 .. 6,
           NEW next \in Locations, Execute(r, v, last, next)
    PROVE  TypeOK'
<1>1. CASE k[r] < last
  <2>1. wr' = [wr EXCEPT ![r] = Written(r, Needs(r), v)] /\ UNCHANGED <<db, pc>>
        /\ k' = [k EXCEPT ![r] = @ + 1]
    BY <1>1, SMT DEF Execute, Commit, TypeOK
  <2>2. k' \in [Runs -> 1 .. 6]
    BY <1>1, <2>1 DEF TypeOK
  <2>3. wr' \in [Runs -> [Keys -> RowStates \union {None}]]
    BY <2>1, CommittedType DEF TypeOK
  <2> QED BY <2>1, <2>2, <2>3 DEF TypeOK, Execute
<1>2. CASE k[r] = last
  <2>1. /\ db' = Committed(Written(r, Needs(r), v))
        /\ wr' = [wr EXCEPT ![r] = Untouched]
        /\ k' = [k EXCEPT ![r] = 1]
        /\ pc' = [pc EXCEPT ![r] = next]
    BY <1>2, SMT DEF Execute, Commit, TypeOK
  <2>2. db' \in [Keys -> RowStates]
    BY <2>1, CommittedType
  <2>3. Untouched \in [Keys -> RowStates \union {None}]
    BY DEF Untouched
  <2>4. wr' \in [Runs -> [Keys -> RowStates \union {None}]]
    BY <2>1, <2>3 DEF TypeOK
  <2> QED BY <2>1, <2>2, <2>4 DEF TypeOK, Execute
<1> QED BY <1>1, <1>2 DEF Execute

\* A commit whose answer is lost is the last statement of its transaction
\* with another outcome.
LEMMA LostIsExecuted ==
    ASSUME TypeOK, NEW r \in Runs, LoseCommit(r)
    PROVE  /\ pc[r] \in InTransaction
           /\ \E v \in RowStates, last \in 1 .. 6 :
                /\ pc[r] \in Writing \/ last = 1
                /\ Execute(r, v, last, "aborted")
<1>1. CASE pc[r] = "reset" /\ k[r] = 6 /\ Commit(r, "absent", "aborted")
  <2>1. Execute(r, "absent", 6, "aborted")
    BY <1>1 DEF LoseCommit, Execute
  <2> QED BY <1>1, <2>1 DEF RowStates, Writing, InTransaction
<1>2. CASE pc[r] = "create" /\ k[r] = 5 /\ Commit(r, "live", "aborted")
  <2>1. Execute(r, "live", 5, "aborted")
    BY <1>2 DEF LoseCommit, Execute
  <2> QED BY <1>2, <2>1 DEF RowStates, Writing, InTransaction
<1>3. CASE pc[r] = "delete" /\ k[r] = DeleteLast(r) /\ Commit(r, "deleted", "aborted")
  <2>1. Execute(r, "deleted", DeleteLast(r), "aborted")
    BY <1>3 DEF LoseCommit, Execute
  <2>2. DeleteLast(r) \in 1 .. 6
    BY DEF DeleteLast
  <2> QED BY <1>3, <2>1, <2>2 DEF RowStates, Writing, InTransaction
<1>4. CASE pc[r] = "audit" /\ k[r] = 1 /\ Commit(r, "live", "aborted")
  <2>1. Execute(r, "live", 1, "aborted")
    BY <1>4 DEF LoseCommit, Execute
  <2> QED BY <1>4, <2>1 DEF RowStates, InTransaction
<1> QED BY <1>1, <1>2, <1>3, <1>4 DEF LoseCommit

\* Every action of the lab keeps every variable within its type.
LEMMA NextType ==
    ASSUME TypeOK, [Next]_vars
    PROVE  TypeOK'
<1>1. CASE UNCHANGED vars
  BY <1>1 DEF TypeOK, vars
<1>2. CASE Done
  BY <1>2 DEF Done, TypeOK, vars
<1>3. ASSUME NEW r \in Runs, Start(r)
      PROVE  TypeOK'
  BY <1>3 DEF Start, TypeOK, Locations
<1>4. ASSUME NEW r \in Runs, Connect(r)
      PROVE  TypeOK'
  BY <1>4 DEF Connect, TypeOK, Locations, InTransaction, Terminal
<1>5. ASSUME NEW r \in Runs, Reset(r)
      PROVE  TypeOK'
  BY <1>5, ExecuteType DEF Reset, RowStates, Locations, InTransaction
<1>6. ASSUME NEW r \in Runs, Create(r)
      PROVE  TypeOK'
  BY <1>6, ExecuteType DEF Create, RowStates, Locations, InTransaction
<1>7. ASSUME NEW r \in Runs, VerifyPromptTenant(r)
      PROVE  TypeOK'
  <2>1. pc' \in [Runs -> Locations]
    BY <1>7 DEF VerifyPromptTenant, TypeOK, Locations, InTransaction, Terminal
  <2> QED BY <1>7, <2>1 DEF VerifyPromptTenant, TypeOK
<1>8. ASSUME NEW r \in Runs, Delete(r)
      PROVE  TypeOK'
  <2>1. DeleteLast(r) \in 1 .. 6
    BY DEF DeleteLast
  <2> QED BY <1>8, <2>1, ExecuteType DEF Delete, RowStates, Locations, InTransaction
<1>9. ASSUME NEW r \in Runs, CountOrphans(r)
      PROVE  TypeOK'
  <2>1. OrphansIn(tenant[r], Tables[k[r]]) \in Nat
    BY DEF OrphansIn, RowsIn
  <2>2. orphans' \in [Runs -> Nat]
    BY <1>9, <2>1 DEF CountOrphans, TypeOK
  <2>3. k' \in [Runs -> 1 .. 6]
    BY <1>9 DEF CountOrphans, TypeOK
  <2>4. pc' \in [Runs -> Locations]
    BY <1>9 DEF CountOrphans, TypeOK, Locations, InTransaction, Terminal
  <2> QED BY <1>9, <2>2, <2>3, <2>4 DEF CountOrphans, TypeOK
<1>10. ASSUME NEW r \in Runs, InsertDeletionAudit(r)
       PROVE  TypeOK'
  BY <1>10, ExecuteType DEF InsertDeletionAudit, RowStates, Locations, Terminal
<1>11. ASSUME NEW r \in Runs, Rollback(r)
       PROVE  TypeOK'
  BY <1>11 DEF Rollback, TypeOK, Untouched, Locations, Terminal
<1>12. ASSUME NEW r \in Runs, LoseCommit(r)
       PROVE  TypeOK'
  BY <1>12, LostIsExecuted, ExecuteType DEF Locations, Terminal
<1> QED
  BY <1>1, <1>2, <1>3, <1>4, <1>5, <1>6, <1>7, <1>8, <1>9, <1>10, <1>11, <1>12
  DEF Next, Step, Fail, DeadlockAbort

\* The initial state, an empty database and idle runs, is well typed.
LEMMA InitType == Init => TypeOK
  BY ConstantsAssumption DEF Init, TypeOK, Untouched, RowStates, Locations

\* TypeOK holds throughout, for any set of runs and tenants.
THEOREM TypeCorrect == Spec => []TypeOK
  BY InitType, NextType, PTL DEF Spec

----------------------------------------------------------------------------
(* Nothing is held outside a writing transaction.                          *)

\* One statement of a transaction keeps NothingHeldOutside: the last one
\* gives up the locks with the commit that leaves the transaction.
LEMMA ExecuteHeld ==
    ASSUME TypeOK, NothingHeldOutside, NEW r \in Runs, NEW v, NEW last \in 1 .. 6,
           NEW next, pc[r] \in Writing \/ last = 1, Execute(r, v, last, next)
    PROVE  NothingHeldOutside'
<1>1. CASE k[r] < last
  <2>1. wr' = [wr EXCEPT ![r] = Written(r, Needs(r), v)] /\ UNCHANGED pc
    BY <1>1, SMT DEF Execute, Commit, TypeOK
  <2>2. pc[r] \in Writing
    BY <1>1 DEF TypeOK
  <2> QED BY <2>1, <2>2 DEF NothingHeldOutside, TypeOK
<1>2. CASE k[r] = last
  <2>1. wr' = [wr EXCEPT ![r] = Untouched] /\ pc' = [pc EXCEPT ![r] = next]
    BY <1>2, SMT DEF Execute, Commit, TypeOK
  <2> QED BY <2>1 DEF NothingHeldOutside, TypeOK, Untouched
<1> QED BY <1>1, <1>2 DEF Execute

\* A step that leaves wr alone and moves only r, from a location outside the
\* writing transactions, keeps NothingHeldOutside.
LEMMA MoveHeld ==
    ASSUME TypeOK, NothingHeldOutside, NEW r \in Runs, pc[r] \notin Writing,
           UNCHANGED wr, \A s \in Runs \ {r} : pc'[s] = pc[s]
    PROVE  NothingHeldOutside'
  BY DEF NothingHeldOutside, Untouched

\* Every action keeps NothingHeldOutside.
LEMMA NextHeld ==
    ASSUME TypeOK, NothingHeldOutside, [Next]_vars
    PROVE  NothingHeldOutside'
<1>1. CASE UNCHANGED vars \/ Done
  BY <1>1 DEF Done, vars, NothingHeldOutside, Untouched
<1>2. ASSUME NEW r \in Runs,
             Start(r) \/ Connect(r) \/ VerifyPromptTenant(r) \/ CountOrphans(r)
      PROVE  NothingHeldOutside'
  <2>1. pc[r] \notin Writing /\ UNCHANGED wr
    BY <1>2 DEF Start, Connect, VerifyPromptTenant, CountOrphans, Writing
  <2>2. \A s \in Runs \ {r} : pc'[s] = pc[s]
    BY <1>2 DEF Start, Connect, VerifyPromptTenant, CountOrphans, TypeOK
  <2> QED BY <2>1, <2>2, MoveHeld
<1>3. ASSUME NEW r \in Runs,
             Reset(r) \/ Create(r) \/ Delete(r) \/ InsertDeletionAudit(r)
      PROVE  NothingHeldOutside'
  <2>1. DeleteLast(r) \in 1 .. 6
    BY DEF DeleteLast
  <2> QED
    BY <1>3, <2>1, ExecuteHeld
    DEF Reset, Create, Delete, InsertDeletionAudit, Writing
<1>4. ASSUME NEW r \in Runs, Rollback(r)
      PROVE  NothingHeldOutside'
  BY <1>4 DEF Rollback, NothingHeldOutside, TypeOK, Untouched
<1>5. ASSUME NEW r \in Runs, LoseCommit(r)
      PROVE  NothingHeldOutside'
  BY <1>5, LostIsExecuted, ExecuteHeld
<1> QED
  BY <1>1, <1>2, <1>3, <1>4, <1>5 DEF Next, Step, Fail, DeadlockAbort

\* For any number of concurrent runs, a run blocks others only from inside
\* its reset, create or delete transaction.
THEOREM HeldOnlyInside == Spec => []NothingHeldOutside
<1>1. Init => NothingHeldOutside
  BY DEF Init, NothingHeldOutside, Untouched
<1> QED BY <1>1, TypeCorrect, NextHeld, PTL DEF Spec

----------------------------------------------------------------------------
(* Tenant isolation.                                                       *)

\* Every row a statement writes belongs to the tenant of its run, when the
\* LIKE prefix of a tenant matches that tenant only.
LEMMA NeedsOwnRows ==
    ASSUME LikeExact, TypeOK, NEW r \in Runs
    PROVE  \A x \in Needs(r) : x[1] = tenant[r]
<1>1. \A x \in ResetRows(tenant[r], k[r]) : x[1] = tenant[r]
  <2>1. Like[tenant[r]] = {tenant[r]}
    BY DEF LikeExact, TypeOK
  <2> QED BY <2>1 DEF ResetRows, Prompt, TypeOK
<1>2. \A x \in CreateRows(tenant[r], k[r]) : x[1] = tenant[r]
  BY DEF CreateRows, Prompt
<1>3. \A x \in DeleteRows(r, k[r]) : x[1] = tenant[r]
  BY DEF DeleteRows, Present, Prompt
<1> QED BY <1>1, <1>2, <1>3 DEF Needs, Present

\* Every action keeps OwnRowsOnly: a statement adds rows of its own tenant to
\* its transaction's writes, commit and rollback empty them.
LEMMA NextOwnRows ==
    ASSUME LikeExact, TypeOK, OwnRowsOnly, [Next]_vars
    PROVE  OwnRowsOnly'
<1>1. ASSUME UNCHANGED <<wr, tenant>>
      PROVE  OwnRowsOnly'
  BY <1>1 DEF OwnRowsOnly, Keys
<1>2. ASSUME NEW r \in Runs, UNCHANGED tenant,
             \/ wr' = [wr EXCEPT ![r] = Untouched]
             \/ \E v : wr' = [wr EXCEPT ![r] = Written(r, Needs(r), v)]
      PROVE  OwnRowsOnly'
  <2>1. CASE wr' = [wr EXCEPT ![r] = Untouched]
    BY <1>2, <2>1 DEF OwnRowsOnly, TypeOK, Untouched
  <2>2. ASSUME NEW v, wr' = [wr EXCEPT ![r] = Written(r, Needs(r), v)]
        PROVE  OwnRowsOnly'
    BY <1>2, <2>2, NeedsOwnRows DEF OwnRowsOnly, TypeOK, Written
  <2> QED BY <1>2, <2>1, <2>2
<1>3. ASSUME NEW r \in Runs, NEW v, NEW last, NEW next, Execute(r, v, last, next)
      PROVE  OwnRowsOnly'
  BY <1>2, <1>3 DEF Execute, Commit
<1>4. ASSUME NEW r \in Runs,
             Reset(r) \/ Create(r) \/ Delete(r) \/ InsertDeletionAudit(r)
      PROVE  OwnRowsOnly'
  BY <1>3, <1>4 DEF Reset, Create, Delete, InsertDeletionAudit
<1>5. ASSUME NEW r \in Runs,
             Start(r) \/ Connect(r) \/ VerifyPromptTenant(r) \/ CountOrphans(r)
      PROVE  OwnRowsOnly'
  BY <1>1, <1>5 DEF Start, Connect, VerifyPromptTenant, CountOrphans
<1>6. ASSUME NEW r \in Runs, Rollback(r)
      PROVE  OwnRowsOnly'
  BY <1>2, <1>6 DEF Rollback
<1>7. CASE UNCHANGED vars \/ Done
  BY <1>1, <1>7 DEF Done, vars
<1>8. ASSUME NEW r \in Runs, LoseCommit(r)
      PROVE  OwnRowsOnly'
  BY <1>3, <1>8, LostIsExecuted
<1> QED
  BY <1>4, <1>5, <1>6, <1>7, <1>8 DEF Next, Step, Fail, DeadlockAbort

\* A committed row changes only when a transaction of its tenant commits.
LEMMA StepIsolated ==
    ASSUME LikeExact, TypeOK, OwnRowsOnly, [Next]_vars,
           NEW x \in Keys, db'[x] # db[x]
    PROVE  \E r \in Runs : tenant[r] = x[1] /\ Active(r) /\ pc'[r] # pc[r]
<1>1. ASSUME NEW r \in Runs, NEW v, NEW last, NEW next, pc[r] \in InTransaction,
             next # pc[r], Execute(r, v, last, next)
      PROVE  tenant[r] = x[1] /\ Active(r) /\ pc'[r] # pc[r]
  <2>1. /\ db' = Committed(Written(r, Needs(r), v))
        /\ pc' = [pc EXCEPT ![r] = next]
    BY <1>1 DEF Execute, Commit
  <2>2. x \in Needs(r) \/ wr[r][x] # None
    BY <2>1 DEF Committed, Written
  <2>3. tenant[r] = x[1]
    BY <2>2, NeedsOwnRows DEF OwnRowsOnly
  <2> QED BY <1>1, <2>1, <2>3 DEF Active, InTransaction, Terminal, TypeOK
<1>2. ASSUME NEW r \in Runs,
             Reset(r) \/ Create(r) \/ Delete(r) \/ InsertDeletionAudit(r)
      PROVE  tenant[r] = x[1] /\ Active(r) /\ pc'[r] # pc[r]
  BY <1>1, <1>2
  DEF Reset, Create, Delete, InsertDeletionAudit, InTransaction
<1>3. ASSUME NEW r \in Runs
      PROVE  ~(Start(r) \/ Connect(r) \/ VerifyPromptTenant(r)
                 \/ CountOrphans(r) \/ Rollback(r))
  BY DEF Start, Connect, VerifyPromptTenant, CountOrphans, Rollback
<1>4. ~(UNCHANGED vars \/ Done)
  BY DEF Done, vars
<1>5. ASSUME NEW r \in Runs, LoseCommit(r)
      PROVE  tenant[r] = x[1] /\ Active(r) /\ pc'[r] # pc[r]
  BY <1>1, <1>5, LostIsExecuted DEF InTransaction
<1> QED
  BY <1>2, <1>3, <1>4, <1>5 DEF Next, Step, Fail, DeadlockAbort

\* For any runs and tenants, when no tenant's LIKE pattern matches another's
\* rows, the rows of a tenant are changed only by committing transactions of that tenant.
THEOREM TenantsIsolated ==
    ASSUME LikeExact
    PROVE  Spec => TenantIsolation
<1>1. Init => OwnRowsOnly
  BY DEF Init, OwnRowsOnly, Untouched
<1>2. TypeOK /\ OwnRowsOnly /\ [Next]_vars => OwnRowsOnly'
  BY NextOwnRows
<1>3. TypeOK /\ OwnRowsOnly /\ [Next]_vars =>
        [\A x \in Keys : db'[x] # db[x] =>
           \E r \in Runs : tenant[r] = x[1] /\ Active(r) /\ pc'[r] # pc[r]]_vars
  BY StepIsolated
<1> QED BY <1>1, <1>2, <1>3, TypeCorrect, PTL DEF Spec, TenantIsolation

----------------------------------------------------------------------------
(* Dangling and live rows always have somebody who will see to them.       *)

\* A row is written by one open transaction at a time.
Exclusive ==
    \A r, s \in Runs : \A x \in Keys : r # s /\ wr[r][x] # None => wr[s][x] = None

\* What the open transaction of r can have written so far.  Its last statement
\* commits at once, so reset has never written the prompt here.
Writes(r) ==
    /\ \A x \in Keys : wr[r][x] # None =>
          /\ pc[r] = "reset" => wr[r][x] = "absent" /\ x[2] # "prompt_requests"
          /\ pc[r] = "create" => wr[r][x] = "live" /\ x[1] = tenant[r]
          /\ pc[r] = "delete" => wr[r][x] = "deleted" /\ db[x] # "absent"
    /\ pc[r] = "create" /\ k[r] # 1 => wr[r][Prompt(tenant[r])] = "live"
    /\ pc[r] = "verifyDelete" => k[r] = 1

\* Run r has yet to delete the rows of t in downstream table i, was cut off, or
\* is of the mode that leaves them.
Responsible(r, t, i) ==
    /\ tenant[r] = t
    /\ \/ mode[r] = "vulnerable"
       \/ pc[r] \in {"create", "verifyDelete", "aborted"}
       \/ pc[r] = "delete" /\ (k[r] <= i \/ wr[r][<<t, Tables[i]>>] = "deleted")

LiveOwned ==
    \A t \in Tenants : \A i \in 1 .. 4 :
        db[<<t, Tables[i]>>] = "live" => \E r \in Runs : Responsible(r, t, i)

RowsOwned ==
    /\ TypeOK /\ NothingHeldOutside
    /\ Exclusive
    /\ \A r \in Runs : Writes(r)
    /\ DanglingIsTransient
    /\ LiveOwned

\* The table names, by position.
LEMMA TableFacts ==
    /\ \A i \in 1 .. 4 : Tables[i] \in Downstream
    /\ \A n \in Downstream : \E i \in 1 .. 4 : n = Tables[i]
    /\ \A i, j \in 1 .. 4 : Tables[i] = Tables[j] => i = j
    /\ "prompt_requests" \notin Downstream
<1>1. /\ Tables[1] = "prompt_logs" /\ Tables[2] = "tool_records"
      /\ Tables[3] = "evaluation_queue" /\ Tables[4] = "training_queue"
  BY DEF Tables
<1>2. \A i \in 1 .. 4 : i = 1 \/ i = 2 \/ i = 3 \/ i = 4
  OBVIOUS
<1> HIDE DEF Tables
<1> QED BY <1>1, <1>2 DEF Downstream

\* A statement of a transaction, with its outcome: Execute with the arguments
\* that the code gives it.
Statement(r, v, last, next) ==
    /\ Execute(r, v, last, next)
    /\ \/ pc[r] = "reset" /\ v = "absent" /\ last = 6 /\ next \in {"create", "aborted"}
       \/ pc[r] = "create" /\ v = "live" /\ last = 5 /\ next \in {"verifyDelete", "aborted"}
       \/ /\ pc[r] = "delete" /\ v = "deleted" /\ last = DeleteLast(r)
          /\ next \in {"verifyCount", "aborted"}
       \/ pc[r] = "audit" /\ v = "live" /\ last = 1 /\ next \in {"ok", "aborted"}

LEMMA Statements ==
    ASSUME NEW r \in Runs,
           \/ Reset(r) \/ Create(r) \/ Delete(r) \/ InsertDeletionAudit(r)
           \/ LoseCommit(r)
    PROVE  \E v, last, next : Statement(r, v, last, next)
<1>1. CASE LoseCommit(r)
  <2>1. CASE pc[r] = "reset" /\ k[r] = 6 /\ Commit(r, "absent", "aborted")
    <3>1. Statement(r, "absent", 6, "aborted")
      BY <1>1, <2>1 DEF LoseCommit, Execute, Statement
    <3> QED BY <3>1
  <2>2. CASE pc[r] = "create" /\ k[r] = 5 /\ Commit(r, "live", "aborted")
    <3>1. Statement(r, "live", 5, "aborted")
      BY <1>1, <2>2 DEF LoseCommit, Execute, Statement
    <3> QED BY <3>1
  <2>3. CASE pc[r] = "delete" /\ k[r] = DeleteLast(r) /\ Commit(r, "deleted", "aborted")
    <3>1. Statement(r, "deleted", DeleteLast(r), "aborted")
      BY <1>1, <2>3 DEF LoseCommit, Execute, Statement
    <3> QED BY <3>1
  <2>4. CASE pc[r] = "audit" /\ k[r] = 1 /\ Commit(r, "live", "aborted")
    <3>1. Statement(r, "live", 1, "aborted")
      BY <1>1, <2>4 DEF LoseCommit, Execute, Statement
    <3> QED BY <3>1
  <2> QED BY <1>1, <2>1, <2>2, <2>3, <2>4 DEF LoseCommit
<1>2. CASE Reset(r)
  <2>1. Statement(r, "absent", 6, "create")
    BY <1>2 DEF Reset, Statement
  <2> QED BY <2>1
<1>3. CASE Create(r)
  <2>1. Statement(r, "live", 5, "verifyDelete")
    BY <1>3 DEF Create, Statement
  <2> QED BY <2>1
<1>4. CASE Delete(r)
  <2>1. Statement(r, "deleted", DeleteLast(r), "verifyCount")
    BY <1>4 DEF Delete, Statement
  <2> QED BY <2>1
<1>5. CASE InsertDeletionAudit(r)
  <2>1. Statement(r, "live", 1, "ok")
    BY <1>5 DEF InsertDeletionAudit, Statement
  <2> QED BY <2>1
<1> QED BY <1>1, <1>2, <1>3, <1>4, <1>5

\* The rows a statement writes.
LEMMA NeedsFacts ==
    ASSUME TypeOK, NEW r \in Runs
    PROVE  /\ pc[r] = "reset" /\ k[r] < 6 => \A x \in Needs(r) : x[2] # "prompt_requests"
           /\ pc[r] = "reset" /\ k[r] = 6 => Needs(r) \subseteq {Prompt(tenant[r])}
           /\ pc[r] = "create" => \A x \in Needs(r) : x[1] = tenant[r]
           /\ pc[r] = "create" /\ k[r] = 1 => Needs(r) = {Prompt(tenant[r])}
           /\ pc[r] = "delete" => \A x \in Needs(r) : View(r, x) # "absent"
           /\ pc[r] = "audit" => Needs(r) = {<<tenant[r], r>>}
           /\ pc[r] \in InTransaction => \A x \in Needs(r) : x[1] \in Tenants
<1> USE DEF Needs
<1>0. k[r] \in 1 .. 6 /\ tenant[r] \in Tenants /\ Like[tenant[r]] \in SUBSET Tenants
  BY ConstantsAssumption DEF TypeOK
<1>1. CASE pc[r] = "reset"
  <2>1. Needs(r) \subseteq ResetRows(tenant[r], k[r])
    BY <1>1 DEF Present
  <2>2. ASSUME k[r] = 1 PROVE ResetRows(tenant[r], k[r]) = Like[tenant[r]] \X Runs
    BY <2>2 DEF ResetRows
  <2>3. ASSUME k[r] \in 2 .. 5
        PROVE  ResetRows(tenant[r], k[r]) = Like[tenant[r]] \X {Tables[k[r] - 1]}
    BY <2>3 DEF ResetRows
  <2>4. ASSUME k[r] = 6 PROVE ResetRows(tenant[r], k[r]) = {Prompt(tenant[r])}
    BY <2>4 DEF ResetRows
  <2>5. k[r] = 1 => \A x \in Needs(r) : x[2] \in Runs /\ x[1] \in Tenants
    BY <1>0, <2>1, <2>2
  <2>6. k[r] \in 2 .. 5 => \A x \in Needs(r) : x[2] \in Downstream /\ x[1] \in Tenants
    <3>1. k[r] \in 2 .. 5 => Tables[k[r] - 1] \in Downstream
      <4>1. k[r] \in 2 .. 5 => k[r] - 1 \in 1 .. 4
        OBVIOUS
      <4> QED BY <4>1, TableFacts
    <3> QED BY <1>0, <2>1, <2>3, <3>1
  <2>7. k[r] = 6 => \A x \in Needs(r) : x[1] \in Tenants
    BY <1>0, <2>1, <2>4 DEF Prompt
  <2>8. k[r] = 1 \/ k[r] \in 2 .. 5 \/ k[r] = 6
    BY <1>0
  <2> HIDE DEF Needs
  <2>9. k[r] < 6 => \A x \in Needs(r) : x[2] # "prompt_requests"
    BY <2>5, <2>6, <2>8, TableFacts, ConstantsAssumption
  <2> QED BY <1>1, <2>1, <2>4, <2>5, <2>6, <2>7, <2>8, <2>9
<1>2. CASE pc[r] = "create"
  BY <1>0, <1>2 DEF CreateRows, Prompt
<1>3. CASE pc[r] = "delete"
  <2>1. \A x \in DeleteRows(r, k[r]) : View(r, x) # "absent" /\ x[1] = tenant[r]
    BY DEF DeleteRows, Present, Prompt
  <2> QED BY <1>0, <1>3, <2>1
<1>4. CASE pc[r] = "audit"
  BY <1>0, <1>4
<1>5. CASE pc[r] \notin {"reset", "create", "delete", "audit"}
  BY <1>5
<1> QED BY <1>1, <1>2, <1>3, <1>4, <1>5

\* A statement either adds its rows to the open transaction or commits.
LEMMA StatementEffect ==
    ASSUME TypeOK, NEW r \in Runs, NEW v, NEW last, NEW next, Statement(r, v, last, next)
    PROVE  /\ \A x \in Needs(r), s \in Runs \ {r} : wr[s][x] = None
           /\ \A s \in Runs \ {r} : wr'[s] = wr[s] /\ pc'[s] = pc[s] /\ k'[s] = k[s]
           /\ UNCHANGED <<tenant, mode>>
           /\ \/ /\ k[r] < last /\ k'[r] = k[r] + 1 /\ UNCHANGED <<db, pc>>
                 /\ \A x \in Keys : wr'[r][x] = IF x \in Needs(r) THEN v ELSE wr[r][x]
              \/ /\ k[r] = last /\ k'[r] = 1 /\ pc'[r] = next
                 /\ wr'[r] = Untouched
                 /\ \A x \in Keys : db'[x] = IF x \in Needs(r) THEN v
                                             ELSE IF wr[r][x] = None THEN db[x] ELSE wr[r][x]
<1>0. v # None
  BY ConstantsAssumption DEF Statement, RowStates
<1>1. \A x \in Needs(r), s \in Runs \ {r} : wr[s][x] = None
  BY DEF Statement, Execute, LockedByOther
<1>2. UNCHANGED <<tenant, mode>>
  BY DEF Statement, Execute
<1>3. CASE /\ k[r] < last
           /\ wr' = [wr EXCEPT ![r] = Written(r, Needs(r), v)]
           /\ k' = [k EXCEPT ![r] = @ + 1]
           /\ UNCHANGED <<db, pc>>
  BY <1>1, <1>2, <1>3 DEF Written, TypeOK
<1>4. CASE k[r] = last /\ Commit(r, v, next)
  BY <1>0, <1>1, <1>2, <1>4 DEF Commit, Committed, Written, TypeOK
<1> QED BY <1>3, <1>4 DEF Statement, Execute

\* A row key of a tenant.
LEMMA KeyFacts ==
    /\ \A t \in Tenants : Prompt(t) \in Keys
    /\ \A t \in Tenants, n \in Downstream : <<t, n>> \in Keys
    /\ \A x \in Keys : x[1] \in Tenants /\ x = <<x[1], x[2]>>
  BY DEF Keys, Names, Prompt

\* Exclusive and Writes survive a statement.
LEMMA StatementWrites ==
    ASSUME RowsOwned, NEW r \in Runs, NEW v, NEW last, NEW next, Statement(r, v, last, next)
    PROVE  Exclusive' /\ \A s \in Runs : Writes(s)'
<1> USE DEF RowsOwned
<1>0. /\ k[r] \in 1 .. 6 /\ v # None
      /\ \A s \in Runs : tenant[s] \in Tenants /\ Prompt(tenant[s]) \in Keys
  BY KeyFacts, ConstantsAssumption DEF TypeOK, Statement, RowStates
<1>1. /\ \A x \in Needs(r), s \in Runs \ {r} : wr[s][x] = None
      /\ \A s \in Runs \ {r} : wr'[s] = wr[s] /\ pc'[s] = pc[s] /\ k'[s] = k[s]
      /\ UNCHANGED <<tenant, mode>>
  BY StatementEffect
<1>2. CASE /\ k[r] < last /\ k'[r] = k[r] + 1 /\ UNCHANGED <<db, pc>>
           /\ \A x \in Keys : wr'[r][x] = IF x \in Needs(r) THEN v ELSE wr[r][x]
  <2>1. Exclusive'
    BY <1>1, <1>2 DEF Exclusive
  <2>2. \A s \in Runs \ {r} : Writes(s)'
    BY <1>1, <1>2 DEF Writes
  <2>3. pc[r] # "audit"
    BY <1>0, <1>2 DEF Statement
  <2>4. CASE pc[r] = "reset"
    <3>1. \A x \in Keys : wr'[r][x] # None => wr'[r][x] = "absent" /\ x[2] # "prompt_requests"
      BY <1>2, <2>4, NeedsFacts DEF Writes, Statement
    <3> QED BY <1>1, <1>2, <2>1, <2>2, <2>4, <3>1 DEF Writes
  <2>5. CASE pc[r] = "create"
    <3>1. wr'[r][Prompt(tenant[r])] = "live"
      <4>1. CASE k[r] = 1
        BY <1>0, <1>2, <2>5, <4>1, NeedsFacts DEF Statement
      <4>2. CASE k[r] # 1
        BY <1>0, <1>2, <2>5, <4>2 DEF Writes, Statement
      <4> QED BY <4>1, <4>2
    <3>2. \A x \in Keys : wr'[r][x] # None => wr'[r][x] = "live" /\ x[1] = tenant[r]
      BY <1>2, <2>5, NeedsFacts DEF Writes, Statement
    <3> QED BY <1>1, <1>2, <2>2, <2>1, <2>5, <3>1, <3>2 DEF Writes
  <2>6. CASE pc[r] = "delete"
    <3>1. \A x \in Keys : wr'[r][x] # None => wr'[r][x] = "deleted" /\ db[x] # "absent"
      <4> TAKE x \in Keys
      <4>1. CASE x \in Needs(r)
        <5>1. View(r, x) # "absent" /\ v = "deleted"
          BY <2>6, <4>1, NeedsFacts DEF Statement
        <5> QED BY <1>2, <2>6, <4>1, <5>1 DEF View, Writes
      <4>2. CASE x \notin Needs(r)
        BY <1>2, <2>6, <4>2 DEF Writes
      <4> QED BY <4>1, <4>2
    <3> QED BY <1>1, <1>2, <2>1, <2>2, <2>6, <3>1 DEF Writes
  <2> QED BY <2>1, <2>2, <2>3, <2>4, <2>5, <2>6 DEF Statement
<1>3. CASE /\ k[r] = last /\ k'[r] = 1 /\ pc'[r] = next
           /\ wr'[r] = Untouched
           /\ \A x \in Keys : db'[x] = IF x \in Needs(r) THEN v
                                       ELSE IF wr[r][x] = None THEN db[x] ELSE wr[r][x]
  <2>1. \A x \in Keys : wr'[r][x] = None
    BY <1>3 DEF Untouched
  <2>2. Exclusive'
    BY <1>1, <2>1 DEF Exclusive
  <2>3. \A s \in Runs \ {r} : \A x \in Keys : wr[s][x] # None => db'[x] = db[x]
    BY <1>1, <1>3 DEF Exclusive
  <2>4. \A s \in Runs \ {r} : Writes(s)'
    BY <1>1, <2>3 DEF Writes
  <2>5. Writes(r)'
    BY <1>3, <2>1 DEF Writes
  <2> QED BY <2>2, <2>4, <2>5
<1> QED BY <1>2, <1>3, StatementEffect

\* DanglingIsTransient survives a statement: the prompt of a tenant goes with
\* the commit of its own reset, and comes back with that run's create.
LEMMA StatementDangling ==
    ASSUME RowsOwned, NEW r \in Runs, NEW v, NEW last, NEW next, Statement(r, v, last, next)
    PROVE  DanglingIsTransient'
<1> USE DEF RowsOwned
<1>1. /\ \A s \in Runs \ {r} : pc'[s] = pc[s]
      /\ UNCHANGED tenant
  BY StatementEffect
<1>2. CASE UNCHANGED <<db, pc>>
  BY <1>1, <1>2 DEF DanglingIsTransient
<1>3. CASE /\ k[r] = last /\ pc'[r] = next
           /\ \A x \in Keys : db'[x] = IF x \in Needs(r) THEN v
                                       ELSE IF wr[r][x] = None THEN db[x] ELSE wr[r][x]
  <2> SUFFICES ASSUME NEW t \in Tenants, NEW n \in Downstream,
                      db'[<<t, n>>] # "absent", db'[Prompt(t)] = "absent"
               PROVE  \E s \in Runs : tenant[s] = t /\ pc'[s] \in {"create", "aborted"}
    BY <1>1 DEF DanglingIsTransient
  <2>0. Prompt(t) \in Keys /\ <<t, n>> \in Keys /\ n # "prompt_requests" /\ n \notin Runs
    BY KeyFacts, TableFacts, ConstantsAssumption
  <2>1. CASE pc[r] = "reset" /\ tenant[r] = t
    BY <1>1, <1>3, <2>1 DEF Statement
  <2>2. CASE pc[r] # "reset" \/ tenant[r] # t
    <3>1. CASE pc[r] = "reset"
      <4>1. Prompt(t) \notin Needs(r) /\ wr[r][Prompt(t)] = None
        <5>1. Prompt(t)[1] = t /\ Prompt(t)[2] = "prompt_requests"
          BY DEF Prompt
        <5>2. Prompt(tenant[r]) # Prompt(t)
          BY <2>2, <3>1 DEF Prompt
        <5>3. k[r] \in 1 .. 6
          BY DEF TypeOK
        <5>4. CASE k[r] < 6
          BY <3>1, <5>1, <5>4, <2>0, NeedsFacts DEF Writes
        <5>5. CASE k[r] = 6
          BY <3>1, <5>1, <5>2, <5>5, <2>0, NeedsFacts DEF Writes
        <5> QED BY ONLY <5>3, <5>4, <5>5
      <4>2. db[Prompt(t)] = "absent" /\ db[<<t, n>>] # "absent"
        BY <1>3, <2>0, <3>1, <4>1 DEF Statement, Writes
      <4> QED BY <1>1, <3>1, <4>2 DEF DanglingIsTransient
    <3>2. CASE pc[r] = "create"
      <4>1. tenant[r] # t
        <5>1. wr[r][Prompt(tenant[r])] = "live" /\ v = "live"
          BY <1>3, <3>2 DEF Statement, Writes
        <5> QED BY <1>3, <2>0, <5>1, ConstantsAssumption DEF RowStates
      <4>2. db'[Prompt(t)] = db[Prompt(t)] /\ db'[<<t, n>>] = db[<<t, n>>]
        <5>1. \A x \in Keys : x[1] # tenant[r] => x \notin Needs(r) /\ wr[r][x] = None
          BY <3>2, NeedsFacts DEF Writes
        <5>2. Prompt(t)[1] = t /\ <<t, n>>[1] = t
          BY DEF Prompt
        <5> QED BY <1>3, <2>0, <4>1, <5>1, <5>2
      <4>3. PICK s \in Runs : tenant[s] = t /\ pc[s] \in {"create", "aborted"}
        BY <4>2 DEF DanglingIsTransient
      <4> QED BY <1>1, <4>1, <4>3
    <3>3. CASE pc[r] = "delete"
      <4>1. \A x \in Keys : db'[x] # db[x] => db'[x] = "deleted" /\ db[x] # "absent"
        <5> TAKE x \in Keys
        <5>1. CASE x \in Needs(r)
          <6>1. View(r, x) # "absent" /\ v = "deleted"
            BY <3>3, <5>1, NeedsFacts DEF Statement
          <6> QED BY <1>3, <3>3, <5>1, <6>1 DEF View, Writes
        <5>2. CASE x \notin Needs(r)
          BY <1>3, <3>3, <5>2 DEF Writes
        <5> QED BY <5>1, <5>2
      <4>2. PICK s \in Runs : tenant[s] = t /\ pc[s] \in {"create", "aborted"}
        BY <2>0, <4>1 DEF DanglingIsTransient
      <4> QED BY <1>1, <3>3, <4>2
    <3>4. CASE pc[r] = "audit"
      <4>1. Needs(r) = {<<tenant[r], r>>} /\ wr[r] = Untouched
        BY <3>4, NeedsFacts DEF NothingHeldOutside, Writing
      <4>2. r # "prompt_requests" /\ r # n
        BY <2>0, ConstantsAssumption
      <4>3. db'[Prompt(t)] = db[Prompt(t)] /\ db'[<<t, n>>] = db[<<t, n>>]
        BY <1>3, <2>0, <4>1, <4>2 DEF Prompt, Untouched
      <4>4. PICK s \in Runs : tenant[s] = t /\ pc[s] \in {"create", "aborted"}
        BY <4>3 DEF DanglingIsTransient
      <4> QED BY <1>1, <3>4, <4>4
    <3> QED BY <3>1, <3>2, <3>3, <3>4 DEF Statement
  <2> QED BY <2>1, <2>2
<1> QED BY <1>2, <1>3, StatementEffect

\* LiveOwned survives a statement: a row becomes live with the commit of a
\* create, whose run is then to delete it, and a delete that passes a live row
\* has written it.
LEMMA StatementLive ==
    ASSUME RowsOwned, NEW r \in Runs, NEW v, NEW last, NEW next, Statement(r, v, last, next)
    PROVE  LiveOwned'
<1> USE DEF RowsOwned
<1> SUFFICES ASSUME NEW t \in Tenants, NEW i \in 1 .. 4, db'[<<t, Tables[i]>>] = "live"
             PROVE  \E s \in Runs : Responsible(s, t, i)'
  BY DEF LiveOwned
<1> DEFINE x == <<t, Tables[i]>>
<1>0. /\ x \in Keys /\ x[1] = t /\ x[2] = Tables[i] /\ Tables[i] \in Downstream
      /\ Tables[i] # "prompt_requests" /\ Tables[i] \notin Runs
      /\ k[r] \in 1 .. 6 /\ mode[r] \in {"vulnerable", "hardened"}
      /\ None # "live" /\ None # "deleted"
  BY KeyFacts, TableFacts, ConstantsAssumption DEF TypeOK, RowStates
<1>1. /\ \A s \in Runs \ {r} : wr'[s] = wr[s] /\ pc'[s] = pc[s] /\ k'[s] = k[s]
      /\ UNCHANGED <<tenant, mode>>
  BY StatementEffect
<1>2. ASSUME NEW s \in Runs, s # r \/ mode[s] = "vulnerable", Responsible(s, t, i)
      PROVE  Responsible(s, t, i)'
  BY <1>1, <1>2 DEF Responsible
<1> HIDE DEF x
<1>3. CASE /\ k[r] < last /\ k'[r] = k[r] + 1 /\ UNCHANGED <<db, pc>>
           /\ \A y \in Keys : wr'[r][y] = IF y \in Needs(r) THEN v ELSE wr[r][y]
  <2>1. PICK s \in Runs : Responsible(s, t, i)
    BY <1>3 DEF LiveOwned
  <2>2. CASE s = r /\ mode[r] = "hardened" /\ pc[r] = "delete"
    <3>1. v = "deleted" /\ db[x] = "live"
      BY <1>3, <2>2 DEF Statement, x
    <3>2. CASE wr[r][x] = "deleted" \/ (k[r] = i /\ wr[r][x] # None)
      <4>1. wr'[r][x] = "deleted"
        BY <1>0, <1>3, <2>2, <3>1, <3>2 DEF Writes
      <4> QED BY <1>1, <1>3, <2>1, <2>2, <4>1 DEF Responsible, x
    <3>3. CASE k[r] = i /\ wr[r][x] = None
      <4>1. Needs(r) = {y \in {x} : View(r, y) = "live"}
        <5>1. tenant[r] = t /\ k[r] # 5
          BY <2>1, <2>2, <3>3 DEF Responsible
        <5> QED BY <2>2, <3>3, <5>1 DEF Needs, DeleteRows, x
      <4>2. x \in Needs(r)
        BY <3>1, <3>3, <4>1 DEF View
      <4>3. wr'[r][x] = "deleted"
        BY <1>0, <1>3, <3>1, <4>2
      <4> QED BY <1>1, <1>3, <2>1, <2>2, <4>3 DEF Responsible, x
    <3>4. CASE k[r] < i
      <4>1. k'[r] <= i
        BY <1>0, <1>3, <3>4
      <4> QED BY <1>1, <1>3, <2>1, <2>2, <4>1 DEF Responsible
    <3>5. k[r] <= i \/ wr[r][x] = "deleted"
      BY <2>1, <2>2 DEF Responsible, x
    <3> QED BY <1>0, <3>2, <3>3, <3>4, <3>5
  <2>3. CASE s = r /\ pc[r] # "delete"
    <3>1. Responsible(r, t, i)'
      BY <1>1, <1>3, <2>1, <2>3 DEF Responsible
    <3> QED BY <3>1
  <2>4. CASE s # r \/ mode[r] = "vulnerable"
    BY <1>2, <2>1, <2>4
  <2> QED BY <1>0, <2>2, <2>3, <2>4
<1>4. CASE /\ k[r] = last /\ pc'[r] = next
           /\ \A y \in Keys : db'[y] = IF y \in Needs(r) THEN v
                                       ELSE IF wr[r][y] = None THEN db[y] ELSE wr[r][y]
  <2>0. db'[x] = "live"
    BY DEF x
  <2>1. CASE pc[r] = "create" /\ tenant[r] = t
    <3>1. Responsible(r, t, i)'
      BY <1>1, <1>4, <2>1 DEF Responsible, Statement
    <3> QED BY <3>1
  <2>2. CASE ~(pc[r] = "create" /\ tenant[r] = t)
    <3>1. x \notin Needs(r) /\ wr[r][x] = None
      <4>1. CASE pc[r] = "reset" \/ pc[r] = "delete"
        BY <1>0, <1>4, <2>0, <4>1 DEF Statement, Writes
      <4>2. CASE pc[r] = "create"
        BY <1>0, <2>2, <4>2, NeedsFacts DEF Writes
      <4>3. CASE pc[r] = "audit"
        <5>1. Needs(r) = {<<tenant[r], r>>} /\ wr[r] = Untouched
          BY <4>3, NeedsFacts DEF NothingHeldOutside, Writing
        <5> QED BY <1>0, <5>1 DEF Untouched
      <4> QED BY <4>1, <4>2, <4>3 DEF Statement
    <3>2. db[x] = "live"
      BY <1>0, <1>4, <2>0, <3>1
    <3>3. PICK s \in Runs : Responsible(s, t, i)
      BY <3>2 DEF LiveOwned, x
    <3>4. s # r \/ mode[s] = "vulnerable"
      <4> SUFFICES ASSUME s = r, mode[r] = "hardened" PROVE FALSE
        BY <1>0
      <4>1. tenant[r] = t /\ pc[r] = "delete" /\ k[r] <= i
        BY <1>0, <2>2, <3>1, <3>3 DEF Responsible, Statement, x
      <4>2. k[r] = 5
        BY <1>4, <4>1 DEF Statement, DeleteLast
      <4> QED BY <4>1, <4>2
    <3> QED BY <1>2, <3>3, <3>4
  <2> QED BY <2>1, <2>2
<1> QED BY <1>3, <1>4, StatementEffect

\* Every action keeps the rows owned.
LEMMA NextOwned ==
    ASSUME RowsOwned, [Next]_vars
    PROVE  RowsOwned'
<1> USE DEF RowsOwned
<1>0. TypeOK' /\ NothingHeldOutside'
  BY NextType, NextHeld
<1>1. CASE UNCHANGED vars \/ Done
  <2>1. UNCHANGED vars
    BY <1>1 DEF Done
  <2>2. Exclusive' /\ DanglingIsTransient'
    BY <2>1 DEF vars, Exclusive, DanglingIsTransient
  <2>3. \A r \in Runs : Writes(r)'
    BY <2>1 DEF vars, Writes
  <2>4. LiveOwned'
    <3>1. ASSUME NEW r \in Runs, NEW t \in Tenants, NEW i \in 1 .. 4, Responsible(r, t, i)
          PROVE  Responsible(r, t, i)'
      BY <2>1, <3>1 DEF vars, Responsible
    <3> QED BY <2>1, <3>1 DEF vars, LiveOwned
  <2> QED BY <1>0, <2>2, <2>3, <2>4
<1>2. ASSUME NEW r \in Runs, Rollback(r) PROVE RowsOwned'
  <2>1. /\ wr'[r] = Untouched /\ pc'[r] = "aborted"
        /\ \A s \in Runs \ {r} : wr'[s] = wr[s] /\ pc'[s] = pc[s]
        /\ UNCHANGED <<db, k, tenant, mode>>
    BY <1>2 DEF Rollback, TypeOK
  <2>2. \A x \in Keys : wr'[r][x] = None
    BY <2>1 DEF Untouched
  <2>3. Exclusive' /\ \A s \in Runs : Writes(s)'
    BY <2>1, <2>2 DEF Exclusive, Writes
  <2>4. DanglingIsTransient'
    BY <2>1 DEF DanglingIsTransient
  <2>5. LiveOwned'
    <3>1. ASSUME NEW s \in Runs, NEW t \in Tenants, NEW i \in 1 .. 4, Responsible(s, t, i)
          PROVE  Responsible(s, t, i)'
      BY <2>1, <3>1 DEF Responsible
    <3> QED BY <2>1, <3>1 DEF LiveOwned
  <2> QED BY <1>0, <2>3, <2>4, <2>5
<1>3. ASSUME NEW r \in Runs, Start(r) \/ Connect(r) \/ CountOrphans(r) \/ VerifyPromptTenant(r)
      PROVE  RowsOwned'
  <2>1. /\ UNCHANGED <<db, wr, tenant, mode>>
        /\ \A s \in Runs \ {r} : pc'[s] = pc[s] /\ k'[s] = k[s]
        /\ pc[r] \notin Writing \union {"aborted"}
        /\ pc'[r] \notin {"create", "verifyDelete"}
        /\ pc'[r] = "delete" => pc[r] = "verifyDelete" /\ k'[r] = k[r]
    BY <1>3 DEF Start, Connect, CountOrphans, VerifyPromptTenant, TypeOK, Writing
  <2>2. \A x \in Keys : wr[r][x] = None
    BY <2>1 DEF NothingHeldOutside, Untouched
  <2>3. Exclusive' /\ \A s \in Runs : Writes(s)'
    BY <2>1, <2>2 DEF Exclusive, Writes
  <2>4. DanglingIsTransient'
    <3>1. \A s \in Runs : pc[s] \in {"create", "aborted"} => pc'[s] = pc[s]
      BY <2>1 DEF Writing
    <3> QED BY <2>1, <3>1 DEF DanglingIsTransient
  <2>5. LiveOwned'
    <3> SUFFICES ASSUME NEW t \in Tenants, NEW i \in 1 .. 4, db[<<t, Tables[i]>>] = "live"
                 PROVE  \E s \in Runs : Responsible(s, t, i)'
      BY <2>1 DEF LiveOwned
    <3>1. PICK s \in Runs : Responsible(s, t, i)
      BY DEF LiveOwned
    <3>2. CASE s # r \/ mode[s] = "vulnerable"
      <4>1. Responsible(s, t, i)'
        BY <2>1, <3>1, <3>2 DEF Responsible
      <4> QED BY <4>1
    <3>3. CASE s = r /\ mode[s] # "vulnerable"
      <4>1. tenant[r] = t /\ pc[r] = "verifyDelete" /\ VerifyPromptTenant(r)
        BY <1>3, <2>1, <3>1, <3>3
           DEF Responsible, Writing, Start, Connect, CountOrphans
      <4>2. CASE db[Prompt(t)] = "absent"
        <5>1. Tables[i] \in Downstream
          BY TableFacts
        <5>2. PICK u \in Runs : tenant[u] = t /\ pc[u] \in {"create", "aborted"}
          BY <4>2, <5>1 DEF DanglingIsTransient
        <5>3. Responsible(u, t, i)'
          BY <2>1, <4>1, <5>2 DEF Responsible
        <5> QED BY <5>3
      <4>3. CASE db[Prompt(t)] # "absent"
        <5>1. pc'[r] = "delete" /\ k'[r] = 1
          BY <4>1, <4>3 DEF VerifyPromptTenant, TypeOK, Writes
        <5>2. Responsible(r, t, i)'
          BY <2>1, <4>1, <5>1 DEF Responsible
        <5> QED BY <5>2
      <4> QED BY <4>2, <4>3
    <3> QED BY <3>2, <3>3
  <2> QED BY <1>0, <2>3, <2>4, <2>5
<1>4. ASSUME NEW r \in Runs,
             Reset(r) \/ Create(r) \/ Delete(r) \/ InsertDeletionAudit(r) \/ LoseCommit(r)
      PROVE  RowsOwned'
  <2>1. PICK v, last, next : Statement(r, v, last, next)
    BY <1>4, Statements
  <2> QED BY <1>0, <2>1, StatementWrites, StatementDangling, StatementLive
<1> QED BY <1>1, <1>2, <1>3, <1>4 DEF Next, Step, Fail, DeadlockAbort

LEMMA InitOwned == Init => RowsOwned
<1> SUFFICES ASSUME Init PROVE RowsOwned
  OBVIOUS
<1>1. TypeOK
  BY InitType
<1>2. \A t \in Tenants, n \in Downstream : db[<<t, n>>] = "absent"
  BY KeyFacts DEF Init
<1>3. NothingHeldOutside /\ Exclusive /\ (\A r \in Runs : Writes(r)) /\ DanglingIsTransient
  BY <1>2 DEF Init, NothingHeldOutside, Exclusive, Writes, Untouched, DanglingIsTransient
<1>4. LiveOwned
  BY <1>2, TableFacts DEF LiveOwned
<1> QED BY <1>1, <1>3, <1>4 DEF RowsOwned

\* DanglingIsTransient, for any runs and tenants, and whatever the LIKE of a
\* reset matches: a downstream row without its prompt waits for a create of its
\* tenant, unless that was cut off.
THEOREM DanglingRowsPass == Spec => []DanglingIsTransient
<1>1. RowsOwned => DanglingIsTransient
  BY DEF RowsOwned
<1> QED BY <1>1, InitOwned, NextOwned, PTL DEF Spec

\* CleanWhenQuiescent: however hardened runs overlap, delete_all_prompt_lifecycle_records
\* of one of them reaches every downstream row that any of them created.
THEOREM HardenedRunsLeaveNothing == Spec => []CleanWhenQuiescent
<1>1. RowsOwned => CleanWhenQuiescent
  <2> SUFFICES ASSUME RowsOwned, Quiescent, NEW t \in Tenants,
                      \A r \in Runs : tenant[r] = t => mode[r] = "hardened" /\ pc[r] # "aborted"
               PROVE  LiveDownstream(t) = {}
    BY DEF CleanWhenQuiescent
  <2>1. \A r \in Runs : \A i \in 1 .. 4 : ~Responsible(r, t, i)
    BY DEF Responsible, Quiescent, Terminal
  <2>2. \A i \in 1 .. 4 : db[<<t, Tables[i]>>] # "live"
    BY <2>1 DEF RowsOwned, LiveOwned
  <2> QED BY <2>2, TableFacts DEF LiveDownstream
<1> QED BY <1>1, InitOwned, NextOwned, PTL DEF Spec

----------------------------------------------------------------------------
(* A run that has met nobody reports what it left.                         *)

\* Where a run is in its chain of transactions: the statement it is at, and that it
\* has counted nothing before its count.
InStep(r) ==
    /\ pc[r] \in {"idle", "connect", "verifyDelete", "verifyCount", "verifyAudit", "audit"} =>
          k[r] = 1
    /\ pc[r] = "create" => k[r] <= 5
    /\ pc[r] = "delete" => k[r] <= DeleteLast(r)
    /\ pc[r] = "count" => k[r] <= 4
    /\ pc[r] \in {"idle", "connect", "reset", "create", "verifyDelete", "delete", "verifyCount"} =>
          orphans[r] = 0
    /\ pc[r] \in {"verifyAudit", "audit"} => mode[r] = "hardened"

\* Two runs of a tenant that are under way at once have met.
ActiveMet ==
    \A r, s \in Runs :
        r # s /\ Active(r) /\ Active(s) /\ tenant[r] = tenant[s] => s \in met[r]

\* What a run that has met nobody has made of its tenant's rows: they are all live
\* once it has created them, and what it deletes stays deleted.
LoneRows(r) ==
    LET t == tenant[r]
        row(i) == <<t, Tables[i]>>
        hardened == mode[r] = "hardened"
    IN  /\ pc[r] = "create" =>
             /\ k[r] > 1 => wr[r][Prompt(t)] = "live"
             /\ \A i \in 1 .. 4 : i < k[r] - 1 => wr[r][row(i)] = "live"
        /\ pc[r] \in {"verifyDelete", "delete"} =>
             db[Prompt(t)] = "live" /\ \A i \in 1 .. 4 : db[row(i)] = "live"
        /\ pc[r] = "delete" =>
             /\ wr[r][Prompt(t)] = None
             /\ \A i \in 1 .. 4 : wr[r][row(i)] = IF i < k[r] THEN "deleted" ELSE None
        /\ pc[r] \in {"verifyCount", "count", "verifyAudit", "audit"} =>
             /\ db[Prompt(t)] = "deleted"
             /\ \A i \in 1 .. 4 : db[row(i)] = IF hardened THEN "deleted" ELSE "live"
        /\ pc[r] = "count" =>
             orphans[r] = IF hardened \/ k[r] = 1 THEN 0 ELSE k[r]
        /\ pc[r] \in {"verifyAudit", "audit"} => orphans[r] = 0

\* The inductive invariant for LoneRunIsExact.
LoneRuns ==
    /\ RowsOwned /\ OwnRowsOnly
    /\ ActiveMet
    /\ \A r \in Runs : InStep(r)
    /\ \A r \in Runs : met[r] = {} => LoneRows(r)

\* A step is of one run at most; the others keep where they are and what they wrote.
LEMMA OneMoves ==
    ASSUME TypeOK, [Next]_vars, NEW r \in Runs
    PROVE  /\ UNCHANGED <<tenant, mode>>
           /\ \/ pc'[r] = pc[r] /\ k'[r] = k[r] /\ wr'[r] = wr[r] /\ orphans'[r] = orphans[r]
              \/ Start(r) \/ Connect(r) \/ VerifyPromptTenant(r) \/ CountOrphans(r)
              \/ (pc[r] \in InTransaction /\ Rollback(r))
              \/ \E v, last, next : Statement(r, v, last, next)
<1> DEFINE Still(s) == /\ pc'[s] = pc[s] /\ k'[s] = k[s] /\ wr'[s] = wr[s]
                       /\ orphans'[s] = orphans[s]
<1>1. CASE UNCHANGED vars \/ Done
  BY <1>1 DEF Done, vars
<1>2. ASSUME NEW q \in Runs, Start(q) \/ Connect(q) \/ VerifyPromptTenant(q) \/ CountOrphans(q)
                               \/ Rollback(q)
      PROVE  UNCHANGED <<tenant, mode>> /\ (q # r => Still(r))
  BY <1>2 DEF Start, Connect, VerifyPromptTenant, CountOrphans, Rollback, TypeOK
<1>3. ASSUME NEW q \in Runs, NEW v, NEW last, NEW next, Statement(q, v, last, next)
      PROVE  UNCHANGED <<tenant, mode>> /\ (q # r => Still(r))
  <2>1. UNCHANGED orphans
    BY <1>3 DEF Statement, Execute
  <2> QED BY <1>3, <2>1, StatementEffect
<1>4. \/ UNCHANGED vars \/ Done
      \/ \E q \in Runs : \/ Start(q) \/ Connect(q) \/ VerifyPromptTenant(q) \/ CountOrphans(q)
                         \/ (pc[q] \in InTransaction /\ Rollback(q))
                         \/ \E v, last, next : Statement(q, v, last, next)
  BY Statements DEF Next, Step, Fail, DeadlockAbort
<1> HIDE DEF Still
<1>5. ASSUME NEW q \in Runs, Start(q) \/ Connect(q) \/ VerifyPromptTenant(q) \/ CountOrphans(q)
                               \/ Rollback(q) \/ \E v, last, next : Statement(q, v, last, next)
      PROVE  UNCHANGED <<tenant, mode>> /\ (q # r => Still(r))
  BY <1>2, <1>3, <1>5
<1> QED BY <1>1, <1>4, <1>5 DEF Still

\* Every action keeps InStep.
LEMMA NextInStep ==
    ASSUME TypeOK, [Next]_vars, NEW r \in Runs, InStep(r)
    PROVE  InStep(r)'
<1>0. /\ k[r] \in 1 .. 6 /\ pc \in [Runs -> Locations] /\ k \in [Runs -> 1 .. 6]
      /\ orphans \in [Runs -> Nat] /\ UNCHANGED <<tenant, mode>>
      /\ mode[r] \in {"vulnerable", "hardened"} /\ DeleteLast(r)' = DeleteLast(r)
      /\ DeleteLast(r) \in {1, 5}
  BY OneMoves, ConstantsAssumption DEF TypeOK, DeleteLast
<1>1. CASE pc'[r] = pc[r] /\ k'[r] = k[r] /\ orphans'[r] = orphans[r]
  BY <1>0, <1>1 DEF InStep
<1>2. CASE Start(r) \/ Connect(r)
  BY <1>0, <1>2 DEF Start, Connect, InStep
<1>3. CASE VerifyPromptTenant(r)
  BY <1>0, <1>3 DEF VerifyPromptTenant, InStep
<1>4. CASE CountOrphans(r)
  BY <1>0, <1>4 DEF CountOrphans, InStep
<1>5. CASE Rollback(r)
  BY <1>0, <1>5 DEF Rollback, InStep
<1>6. ASSUME NEW v, NEW last, NEW next, Statement(r, v, last, next)
      PROVE  InStep(r)'
  <2>1. UNCHANGED orphans
    BY <1>6 DEF Statement, Execute
  <2>2. CASE k[r] < last /\ k'[r] = k[r] + 1 /\ UNCHANGED pc
    BY <1>0, <1>6, <2>1, <2>2 DEF InStep, Statement
  <2>3. CASE k[r] = last /\ k'[r] = 1 /\ pc'[r] = next
    BY <1>0, <1>6, <2>1, <2>3 DEF InStep, Statement
  <2> QED BY <1>6, <2>2, <2>3, StatementEffect
<1> QED BY <1>1, <1>2, <1>3, <1>4, <1>5, <1>6, OneMoves

\* Every action keeps ActiveMet: who starts meets all that are under way.
LEMMA NextMet ==
    ASSUME TypeOK, ActiveMet, [Next]_vars
    PROVE  /\ ActiveMet'
           /\ \A r \in Runs : Start(r) \/ met[r] \subseteq met'[r]
<1>1. ASSUME NEW q \in Runs, Start(q)
      PROVE  /\ ActiveMet'
             /\ \A r \in Runs : Start(r) \/ met[r] \subseteq met'[r]
  <2>1. /\ pc[q] = "idle" /\ pc' = [pc EXCEPT ![q] = "connect"] /\ UNCHANGED tenant
        /\ pc \in [Runs -> Locations]
        /\ \A s \in Runs : met'[s] = IF s = q THEN {u \in Runs : Active(u) /\ tenant[u] = tenant[q]}
                                     ELSE IF Active(s) /\ tenant[s] = tenant[q]
                                     THEN met[s] \union {q} ELSE met[s]
    BY <1>1 DEF Start, TypeOK
  <2>2. \A s \in Runs \ {q} : Active(s)' <=> Active(s)
    BY <2>1 DEF Active
  <2>3. ASSUME NEW r \in Runs, NEW s \in Runs, r # s, Active(r)', Active(s)', tenant[r] = tenant[s]
        PROVE  s \in met'[r]
    <3>1. CASE r = q
      BY <2>1, <2>2, <2>3, <3>1
    <3>2. CASE s = q
      BY <2>1, <2>2, <2>3, <3>2
    <3>3. CASE r # q /\ s # q
      <4>1. s \in met[r]
        BY <2>2, <2>3, <3>3 DEF ActiveMet
      <4> QED BY <2>1, <3>3, <4>1
    <3> QED BY <3>1, <3>2, <3>3
  <2>4. ActiveMet'
    BY <2>1, <2>3 DEF ActiveMet
  <2>5. \A r \in Runs : Start(r) \/ met[r] \subseteq met'[r]
    BY <1>1, <2>1
  <2> QED BY <2>4, <2>5
<1>2. ASSUME \A q \in Runs : ~Start(q)
      PROVE  /\ ActiveMet'
             /\ \A r \in Runs : met[r] \subseteq met'[r]
  <2>1. UNCHANGED met
    <3>1. ASSUME NEW q \in Runs, Connect(q) \/ VerifyPromptTenant(q) \/ CountOrphans(q)
                                   \/ Rollback(q) \/ \E v, last, next : Statement(q, v, last, next)
          PROVE  UNCHANGED met
      BY <3>1 DEF Connect, VerifyPromptTenant, CountOrphans, Rollback, Statement, Execute
    <3>2. CASE UNCHANGED vars \/ Done
      BY <3>2 DEF Done, vars
    <3> QED BY <1>2, <3>1, <3>2, Statements DEF Next, Step, Fail, DeadlockAbort
  <2>2. ASSUME NEW r \in Runs
        PROVE  UNCHANGED tenant /\ (Active(r)' => Active(r))
    <3>1. pc'[r] = pc[r] \/ Active(r)
      BY <1>2, OneMoves
      DEF Connect, VerifyPromptTenant, CountOrphans, Statement, Active, Terminal, InTransaction
    <3> QED BY <3>1, OneMoves DEF Active
  <2> QED BY <2>1, <2>2 DEF ActiveMet
<1> QED BY <1>1, <1>2

\* A step of another run leaves the rows of a tenant alone whose run is by itself.
LEMMA LoneRowsStay ==
    ASSUME LikeExact, TypeOK, OwnRowsOnly, ActiveMet, [Next]_vars, NEW r \in Runs,
           Active(r), met[r] = {}, pc'[r] = pc[r], NEW x \in Keys, x[1] = tenant[r]
    PROVE  db'[x] = db[x]
<1> SUFFICES ASSUME db'[x] # db[x] PROVE FALSE
  OBVIOUS
<1>1. PICK s \in Runs : tenant[s] = x[1] /\ Active(s) /\ pc'[s] # pc[s]
  BY StepIsolated
<1> QED BY <1>1 DEF ActiveMet

\* The statements of a run that has met nobody.
LEMMA LoneStatement ==
    ASSUME LoneRuns, NEW r \in Runs, LoneRows(r), NEW v, NEW last, NEW next,
           Statement(r, v, last, next)
    PROVE  LoneRows(r)'
<1> USE DEF LoneRuns, RowsOwned
<1> DEFINE t == tenant[r]
           P == Prompt(t)
           row(i) == <<t, Tables[i]>>
<1>0. /\ t \in Tenants /\ P \in Keys /\ \A i \in 1 .. 4 : row(i) \in Keys /\ row(i) # P
      /\ \A i, j \in 1 .. 4 : row(i) = row(j) => i = j
  BY TableFacts, KeyFacts DEF TypeOK, Prompt
<1>1. /\ UNCHANGED <<tenant, mode, orphans>> /\ k[r] \in 1 .. 6
      /\ mode[r] \in {"vulnerable", "hardened"}
      /\ None # "live" /\ None # "deleted"
  BY StatementEffect, ConstantsAssumption DEF Statement, Execute, TypeOK, RowStates
<1> DEFINE goesOn == /\ k[r] < last /\ k'[r] = k[r] + 1 /\ UNCHANGED <<db, pc>>
                     /\ \A x \in Keys : wr'[r][x] = IF x \in Needs(r) THEN v ELSE wr[r][x]
           commits == /\ k[r] = last /\ k'[r] = 1 /\ pc'[r] = next
                      /\ \A x \in Keys : db'[x] = IF x \in Needs(r) THEN v
                                            ELSE IF wr[r][x] = None THEN db[x] ELSE wr[r][x]
<1>2. goesOn \/ commits
  BY StatementEffect
<1>3. CASE pc[r] = "reset"
  BY <1>1, <1>2, <1>3 DEF Statement, LoneRows
<1>4. CASE pc[r] = "audit"
  <2>1. k[r] = 1 /\ last = 1
    BY <1>4 DEF InStep, Statement
  <2> QED BY <1>2, <1>4, <2>1 DEF Statement, LoneRows
<1>5. CASE pc[r] = "create"
  <2>1. /\ last = 5 /\ v = "live" /\ next \in {"verifyDelete", "aborted"} /\ k[r] <= 5
        /\ k[r] > 1 => wr[r][P] = "live"
        /\ \A i \in 1 .. 4 : i < k[r] - 1 => wr[r][row(i)] = "live"
    BY <1>5 DEF Statement, InStep, LoneRows
  <2>2. /\ k[r] = 1 => P \in Needs(r)
        /\ \A i \in 1 .. 4 : i = k[r] - 1 => row(i) \in Needs(r)
    BY <1>5 DEF Needs, CreateRows
  <2> HIDE DEF row, P, t
  <2>3. CASE goesOn
    <3>1. wr'[r][P] = "live"
      BY <1>0, <1>1, <2>1, <2>2, <2>3
    <3>2. \A i \in 1 .. 4 : i < k'[r] - 1 => wr'[r][row(i)] = "live"
      BY <1>0, <1>1, <2>1, <2>2, <2>3
    <3> QED BY <1>1, <1>5, <2>3, <3>1, <3>2 DEF LoneRows, row, P, t
  <2>4. CASE commits
    <3>1. db'[P] = "live"
      BY <1>0, <1>1, <2>1, <2>2, <2>4
    <3>2. \A i \in 1 .. 4 : db'[row(i)] = "live"
      <4> TAKE i \in 1 .. 4
      <4>1. CASE i < k[r] - 1
        BY <1>0, <1>1, <2>1, <2>4, <4>1
      <4>2. CASE i = k[r] - 1
        BY <1>0, <1>1, <2>1, <2>2, <2>4, <4>2
      <4> QED BY <2>1, <2>4, <4>1, <4>2
    <3> QED BY <1>1, <2>1, <2>4, <3>1, <3>2 DEF LoneRows, row, P, t
  <2> QED BY <1>2, <2>3, <2>4
<1>6. CASE pc[r] = "delete"
  <2>1. /\ last = DeleteLast(r) /\ v = "deleted" /\ next \in {"verifyCount", "aborted"}
        /\ k[r] <= DeleteLast(r) /\ db[P] = "live" /\ wr[r][P] = None
        /\ \A i \in 1 .. 4 : /\ db[row(i)] = "live"
                             /\ wr[r][row(i)] = IF i < k[r] THEN "deleted" ELSE None
    BY <1>6 DEF Statement, InStep, LoneRows
  <2>2. View(r, P) = "live" /\ \A i \in 1 .. 4 : ~(i < k[r]) => View(r, row(i)) = "live"
    BY <2>1 DEF View
  <2>3. IF mode[r] = "vulnerable" \/ k[r] = 5 THEN Needs(r) = {P} ELSE Needs(r) = {row(k[r])}
    <3>1. Needs(r) = DeleteRows(r, k[r])
      BY <1>6 DEF Needs
    <3>2. CASE mode[r] = "vulnerable" \/ k[r] = 5
      BY <2>2, <3>1, <3>2 DEF DeleteRows, Present
    <3>3. CASE ~(mode[r] = "vulnerable" \/ k[r] = 5)
      <4>1. k[r] \in 1 .. 4
        BY <1>1, <2>1, <3>3 DEF DeleteLast
      <4> QED BY <2>2, <3>1, <3>3, <4>1 DEF DeleteRows
    <3> QED BY <3>2, <3>3
  <2> HIDE DEF row, P, t
  <2>4. CASE goesOn
    <3>1. mode[r] = "hardened" /\ k[r] \in 1 .. 4 /\ Needs(r) = {row(k[r])}
      BY <1>1, <2>1, <2>3, <2>4 DEF DeleteLast
    <3>2. wr'[r][P] = None
      BY <1>0, <2>1, <2>4, <3>1
    <3>3. \A i \in 1 .. 4 : wr'[r][row(i)] = IF i < k'[r] THEN "deleted" ELSE None
      <4> TAKE i \in 1 .. 4
      <4>1. CASE i = k[r]
        BY <1>0, <2>1, <2>4, <3>1, <4>1
      <4>2. CASE i # k[r]
        <5>1. wr'[r][row(i)] = wr[r][row(i)]
          BY <1>0, <2>4, <3>1, <4>2
        <5>2. i < k'[r] <=> i < k[r]
          BY <2>4, <3>1, <4>2
        <5> QED BY <2>1, <5>1, <5>2
      <4> QED BY <4>1, <4>2
    <3> QED BY <1>1, <1>6, <2>1, <2>4, <3>2, <3>3 DEF LoneRows, row, P, t
  <2>5. CASE commits
    <3>1. Needs(r) = {P}
      BY <1>1, <2>1, <2>3, <2>5 DEF DeleteLast
    <3>2. db'[P] = "deleted"
      BY <1>0, <2>1, <2>5, <3>1
    <3>3. \A i \in 1 .. 4 :
             db'[row(i)] = IF mode[r] = "hardened" THEN "deleted" ELSE "live"
      <4> TAKE i \in 1 .. 4
      <4>1. db'[row(i)] = IF wr[r][row(i)] = None THEN db[row(i)] ELSE wr[r][row(i)]
        BY <1>0, <2>5, <3>1
      <4>2. i < k[r] <=> mode[r] = "hardened"
        BY <1>1, <2>1, <2>5 DEF DeleteLast
      <4> QED BY <1>1, <2>1, <4>1, <4>2
    <3> QED BY <1>1, <2>1, <2>5, <3>2, <3>3 DEF LoneRows, row, P, t
  <2> QED BY <1>2, <2>4, <2>5
<1> QED BY <1>3, <1>4, <1>5, <1>6 DEF Statement

\* What a run that has met nobody counts.
LEMMA LoneCount ==
    ASSUME LoneRuns, NEW r \in Runs, LoneRows(r), CountOrphans(r)
    PROVE  /\ mode[r] = "hardened" => orphans'[r] = 0
           /\ mode[r] # "hardened" => orphans'[r] = k[r] + 1
<1> USE DEF LoneRuns, RowsOwned
<1>1. /\ pc[r] = "count" /\ k[r] \in 1 .. 4
      /\ orphans'[r] = orphans[r] + OrphansIn(tenant[r], Tables[k[r]])
  BY DEF CountOrphans, TypeOK, InStep
<1>2. /\ db[Prompt(tenant[r])] = "deleted"
      /\ db[<<tenant[r], Tables[k[r]]>>] = IF mode[r] = "hardened" THEN "deleted" ELSE "live"
      /\ orphans[r] = IF mode[r] = "hardened" \/ k[r] = 1 THEN 0 ELSE k[r]
  BY <1>1 DEF LoneRows
<1>3. RowsIn(Tables[k[r]]) = IF k[r] = 1 THEN 2 ELSE 1
  BY <1>1 DEF RowsIn, Tables
<1>4. OrphansIn(tenant[r], Tables[k[r]]) =
         IF mode[r] = "hardened" THEN 0 ELSE IF k[r] = 1 THEN 2 ELSE 1
  BY <1>2, <1>3 DEF OrphansIn
<1> QED BY <1>1, <1>2, <1>4

\* Every action keeps what is said of runs that have met nobody.
LEMMA NextLone ==
    ASSUME LikeExact, LoneRuns, [Next]_vars
    PROVE  LoneRuns'
<1> USE DEF LoneRuns, RowsOwned
<1>1. RowsOwned' /\ OwnRowsOnly' /\ ActiveMet' /\ \A r \in Runs : InStep(r)'
  BY NextOwned, NextOwnRows, NextMet, NextInStep
<1>2. ASSUME NEW r \in Runs, met'[r] = {}
      PROVE  LoneRows(r)'
  <2>1. UNCHANGED <<tenant, mode>> /\ tenant[r] \in Tenants /\ k[r] \in 1 .. 6
        /\ pc \in [Runs -> Locations] /\ k \in [Runs -> 1 .. 6]
        /\ \A i \in 1 .. 4 : <<tenant[r], Tables[i]>> \in Keys
        /\ Prompt(tenant[r]) \in Keys
    BY OneMoves, KeyFacts, TableFacts DEF TypeOK
  <2>2. CASE Start(r)
    BY <2>1, <2>2 DEF Start, LoneRows
  <2>3. CASE ~Start(r)
    <3>1. met[r] = {} /\ LoneRows(r)
      BY <1>2, <2>3, NextMet
    <3>2. CASE pc'[r] = pc[r] /\ k'[r] = k[r] /\ wr'[r] = wr[r] /\ orphans'[r] = orphans[r]
      <4>1. CASE Active(r)
        <5>1. /\ db'[Prompt(tenant[r])] = db[Prompt(tenant[r])]
              /\ \A i \in 1 .. 4 : db'[<<tenant[r], Tables[i]>>] = db[<<tenant[r], Tables[i]>>]
          BY <2>1, <3>1, <3>2, <4>1, LoneRowsStay DEF Prompt
        <5> QED BY <2>1, <3>1, <3>2, <5>1 DEF LoneRows, Prompt
      <4>2. CASE ~Active(r)
        BY <2>1, <3>2, <4>2 DEF LoneRows, Active, Terminal
      <4> QED BY <4>1, <4>2
    <3>3. CASE Connect(r) \/ Rollback(r)
      BY <2>1, <3>3 DEF Connect, Rollback, LoneRows
    <3>4. CASE VerifyPromptTenant(r)
      <4>1. \A x \in Keys : pc[r] = "verifyDelete" => wr[r][x] = None
        BY DEF NothingHeldOutside, Writing, Untouched
      <4>2. k[r] = 1 /\ (pc[r] \in {"verifyDelete", "verifyCount"} => orphans[r] = 0)
        BY <3>4 DEF InStep, VerifyPromptTenant
      <4>3. /\ UNCHANGED <<db, wr, k, orphans>>
            /\ \/ pc'[r] = "notfound"
               \/ pc[r] = "verifyDelete" /\ pc'[r] = "delete"
               \/ pc[r] = "verifyCount" /\ pc'[r] = "count"
               \/ pc[r] = "verifyAudit" /\ pc'[r] = "audit"
        BY <2>1, <3>4 DEF VerifyPromptTenant
      <4> QED BY <2>1, <3>1, <4>1, <4>2, <4>3 DEF LoneRows, Prompt
    <3>5. CASE CountOrphans(r)
      <4>1. /\ mode[r] = "hardened" => orphans'[r] = 0
            /\ mode[r] # "hardened" => orphans'[r] = k[r] + 1
        BY <3>1, <3>5, LoneCount
      <4>2. /\ UNCHANGED <<db, wr>> /\ pc[r] = "count"
            /\ IF k[r] < 4 THEN pc'[r] = "count" /\ k'[r] = k[r] + 1
               ELSE pc'[r] = IF mode[r] = "hardened" THEN "verifyAudit" ELSE "ok"
        BY <2>1, <3>5 DEF CountOrphans
      <4> QED BY <2>1, <3>1, <4>1, <4>2 DEF LoneRows, Prompt
    <3>6. ASSUME NEW v, NEW last, NEW next, Statement(r, v, last, next)
          PROVE  LoneRows(r)'
      BY <3>1, <3>6, LoneStatement
    <3> QED BY <2>3, <3>2, <3>3, <3>4, <3>5, <3>6, OneMoves
  <2> QED BY <2>2, <2>3
<1> QED BY <1>1, <1>2

\* LoneRunIsExact, for any number of runs and tenants, if no tenant's LIKE pattern
\* matches another's rows: a run that met no other of its tenant reports what it left.
THEOREM LoneRunsAreExact ==
    ASSUME LikeExact
    PROVE  Spec => LoneRunIsExact
<1>1. Init => LoneRuns
  <2> SUFFICES ASSUME Init PROVE LoneRuns
    OBVIOUS
  <2>1. OwnRowsOnly /\ ActiveMet
    BY DEF Init, OwnRowsOnly, Untouched, ActiveMet, Active
  <2>2. \A r \in Runs : InStep(r) /\ LoneRows(r)
    BY DEF Init, InStep, LoneRows
  <2> QED BY <2>1, <2>2, InitOwned DEF LoneRuns
<1>2. LoneRuns /\ [Next]_vars => LoneRuns'
  BY NextLone
<1>3. LoneRuns /\ [Next]_vars =>
        [\A r \in Runs :
           pc[r] # "ok" /\ pc'[r] = "ok" /\ met'[r] = {} =>
              IF mode[r] = "vulnerable"
              THEN orphans'[r] = AllDownstreamRows
              ELSE /\ orphans'[r] = 0
                   /\ db'[<<tenant[r], r>>] = "live"
                   /\ \A n \in Downstream \union {"prompt_requests"} :
                          db'[<<tenant[r], n>>] = "deleted"]_vars
  <2> SUFFICES ASSUME LoneRuns, [Next]_vars, NEW r \in Runs, pc[r] # "ok", pc'[r] = "ok",
                      met'[r] = {}
               PROVE  IF mode[r] = "vulnerable"
                      THEN orphans'[r] = AllDownstreamRows
                      ELSE /\ orphans'[r] = 0
                           /\ db'[<<tenant[r], r>>] = "live"
                           /\ \A n \in Downstream \union {"prompt_requests"} :
                                  db'[<<tenant[r], n>>] = "deleted"
    OBVIOUS
  <2> USE DEF LoneRuns, RowsOwned
  <2>1. ~Start(r) /\ ~Connect(r) /\ ~VerifyPromptTenant(r) /\ ~Rollback(r)
        /\ pc \in [Runs -> Locations]
    BY DEF Start, Connect, VerifyPromptTenant, Rollback, TypeOK
  <2>2. met[r] = {} /\ LoneRows(r)
    BY <2>1, NextMet
  <2>3. CASE CountOrphans(r)
    <3>1. mode[r] # "hardened" /\ k[r] = 4 /\ mode[r] = "vulnerable"
      <4>1. /\ pc[r] = "count" /\ k[r] \in 1 .. 6 /\ k[r] <= 4
            /\ mode[r] \in {"vulnerable", "hardened"}
        BY <2>3, ConstantsAssumption DEF CountOrphans, TypeOK, InStep
      <4>2. pc'[r] = IF k[r] < 4 THEN "count"
                     ELSE IF mode[r] = "hardened" THEN "verifyAudit" ELSE "ok"
        BY <2>1, <2>3 DEF CountOrphans
      <4> QED BY <4>1, <4>2
    <3> QED BY <2>2, <2>3, <3>1, LoneCount DEF AllDownstreamRows
  <2>4. ASSUME NEW v, NEW last, NEW next, Statement(r, v, last, next)
        PROVE  /\ mode[r] = "hardened" /\ orphans'[r] = 0
               /\ db'[<<tenant[r], r>>] = "live"
               /\ \A n \in Downstream \union {"prompt_requests"} :
                      db'[<<tenant[r], n>>] = "deleted"
    <3>1. pc[r] = "audit" /\ v = "live"
      BY <2>4, StatementEffect DEF Statement
    <3>2. /\ mode[r] = "hardened" /\ orphans[r] = 0 /\ UNCHANGED orphans
          /\ db[Prompt(tenant[r])] = "deleted"
          /\ \A i \in 1 .. 4 : db[<<tenant[r], Tables[i]>>] = "deleted"
      BY <2>2, <2>4, <3>1 DEF LoneRows, InStep, Statement, Execute
    <3>3. Needs(r) = {<<tenant[r], r>>} /\ <<tenant[r], r>> \in Keys
          /\ \A x \in Keys : wr[r][x] = None
      <4>1. Needs(r) = {<<tenant[r], r>>}
        BY <3>1, NeedsFacts
      <4>2. <<tenant[r], r>> \in Keys
        BY DEF Keys, Names, TypeOK
      <4>3. wr[r] = Untouched
        BY <3>1 DEF NothingHeldOutside, Writing
      <4> QED BY <4>1, <4>2, <4>3 DEF Untouched
    <3>4. \A x \in Keys : db'[x] = IF x \in Needs(r) THEN v ELSE db[x]
      BY <2>4, <3>3, StatementEffect
    <3>5. \A n \in Downstream \union {"prompt_requests"} :
             <<tenant[r], n>> \in Keys /\ n # r /\ db[<<tenant[r], n>>] = "deleted"
      <4> TAKE n \in Downstream \union {"prompt_requests"}
      <4>1. n # r /\ tenant[r] \in Tenants
        BY ConstantsAssumption DEF TypeOK
      <4>2. CASE n = "prompt_requests"
        BY <3>2, <4>1, <4>2, KeyFacts DEF Prompt
      <4>3. CASE n \in Downstream
        <5>1. PICK i \in 1 .. 4 : n = Tables[i]
          BY <4>3, TableFacts
        <5> QED BY <3>2, <4>1, <4>3, <5>1, KeyFacts
      <4> QED BY <4>2, <4>3
    <3> QED BY <3>1, <3>2, <3>3, <3>4, <3>5
  <2> QED BY <2>1, <2>3, <2>4, OneMoves
<1> QED BY <1>1, <1>2, <1>3, PTL DEF Spec, LoneRunIsExact
=============================================================================
