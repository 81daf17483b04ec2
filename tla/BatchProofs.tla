---------------------------- MODULE BatchProofs ----------------------------
(***************************************************************************)
(* Two stores that concurrent requests append batches to and empty: the    *)
(* rows of the write storm lab (WriteStormLab) and the list of the alert   *)
(* webhook (AlertWebhook).  In both a request acts on                      *)
(* what it saw earlier, and what it may rely on is said by which other     *)
(* requests it has met.                                                    *)
(***************************************************************************)
EXTENDS WriteStormLab, AlertWebhook, SequenceTheorems, TLAPS

----------------------------------------------------------------------------
\* WriteStormLab.  Between its reset and its insert a run holds a promise that
\* no earlier batch is stored; AfterReset states it.

Peers(r, s) == r # s /\ tenant[r] = tenant[s]

\* Runs of a tenant that are active together have met each other.
ActiveMeet ==
    \A r, s \in Runs : Peers(r, s) /\ Active(r) /\ Active(s) => s \in met[r]

\* Only a run that has inserted has a batch stored.
StoredInserted ==
    \A r \in stored : pc[r] \in {"count", "ok", "aborted"}

\* What is stored when a run is about to insert came after its reset.
AfterReset ==
    \A r \in Runs : \A s \in stored :
        pc[r] = "insert" /\ Peers(r, s) => s \in met[r] /\ r \in met[s]

\* The part of TypeOK that the argument uses.  total is a sum over a set, and
\* nothing here depends on it.
TypeButTotal ==
    /\ pc \in [Runs -> Locations]
    /\ tenant \in [Runs -> Tenants]
    /\ stored \in SUBSET Runs
    /\ met \in [Runs -> SUBSET Runs]

Inductive == TypeButTotal /\ ActiveMeet /\ StoredInserted /\ AfterReset
                /\ StoredBatchesOverlap

----------------------------------------------------------------------------
\* A start meets the runs of the tenant that are active, and nobody loses a
\* meeting.
LEMMA StartKeeps ==
    ASSUME Inductive, NEW r \in Runs, Start(r)
    PROVE  Inductive'
<1> USE DEF Inductive, TypeButTotal, Active, Peers
<1>1. /\ pc[r] = "idle" /\ UNCHANGED <<tenant, stored>>
      /\ pc' \in [Runs -> Locations]
      /\ pc'[r] \in {"connect", "invalid"}
      /\ \A s \in Runs \ {r} : pc'[s] = pc[s]
  BY DEF Start, inputs, Locations, Terminal
<1>2. /\ met' \in [Runs -> SUBSET Runs]
      /\ met'[r] = {s \in Runs : Active(s) /\ tenant[s] = tenant[r]}
      /\ \A s \in Runs \ {r} :
            met'[s] = IF Active(s) /\ tenant[s] = tenant[r]
                      THEN met[s] \union {r} ELSE met[s]
  BY DEF Start
<1>3. TypeButTotal'
  BY <1>1, <1>2
<1>4. ActiveMeet'
  BY <1>1, <1>2 DEF ActiveMeet, Terminal
<1>5. StoredInserted'
  BY <1>1 DEF StoredInserted
<1>6. r \notin stored
  BY <1>1 DEF StoredInserted
<1>7. AfterReset'
  BY <1>1, <1>2, <1>6 DEF AfterReset
<1>8. StoredBatchesOverlap'
  BY <1>1, <1>2, <1>6 DEF StoredBatchesOverlap
<1> QED BY <1>3, <1>4, <1>5, <1>7, <1>8

\* A step that only moves run r on, to a location from which it does not
\* insert, or out of the run.
LEMMA MoveKeeps ==
    ASSUME Inductive, NEW r \in Runs, NEW l \in Locations \ {"idle", "insert"},
           Active(r), pc' = [pc EXCEPT ![r] = l],
           r \in stored => l \in {"ok", "aborted"},
           UNCHANGED <<tenant, stored, met>>
    PROVE  Inductive'
<1> USE DEF Inductive, TypeButTotal, Active, Peers
<1>1. TypeButTotal' /\ ActiveMeet'
  BY DEF ActiveMeet
<1>2. StoredInserted' /\ AfterReset' /\ StoredBatchesOverlap'
  BY DEF StoredInserted, AfterReset, StoredBatchesOverlap
<1> QED BY <1>1, <1>2

\* The reset empties the tenant's rows, and only then does the run insert.
LEMMA ResetKeeps ==
    ASSUME Inductive, NEW r \in Runs, Reset(r)
    PROVE  Inductive'
<1> USE DEF Inductive, TypeButTotal, Active, Peers
<1>1. /\ pc[r] = "reset" /\ pc' = [pc EXCEPT ![r] = "insert"]
      /\ UNCHANGED <<tenant, met>>
      /\ stored' = {s \in stored : tenant[s] # tenant[r]}
  BY DEF Reset, inputs, StoredOf
<1>2. TypeButTotal' /\ ActiveMeet'
  BY <1>1 DEF ActiveMeet, Locations, Terminal
<1>3. StoredInserted' /\ AfterReset' /\ StoredBatchesOverlap'
  BY <1>1 DEF StoredInserted, AfterReset, StoredBatchesOverlap
<1> QED BY <1>2, <1>3

\* The batch joins only batches of runs that met its run, whether or not the
\* run learns of the commit.
LEMMA InsertKeeps ==
    ASSUME Inductive, NEW r \in Runs, NEW l \in {"count", "aborted"},
           pc[r] = "insert", pc' = [pc EXCEPT ![r] = l],
           stored' = stored \union {r}, UNCHANGED <<tenant, met>>
    PROVE  Inductive'
<1> USE DEF Inductive, TypeButTotal, Active, Peers
<1>1. /\ pc[r] = "insert" /\ pc' = [pc EXCEPT ![r] = l]
      /\ UNCHANGED <<tenant, met>>
      /\ stored' = stored \union {r}
  OBVIOUS
<1>2. TypeButTotal' /\ ActiveMeet'
  BY <1>1 DEF ActiveMeet, Locations, Terminal
<1>3. StoredInserted' /\ StoredBatchesOverlap'
  BY <1>1 DEF StoredInserted, AfterReset, StoredBatchesOverlap
<1>4. \A s \in Runs : pc[s] = "insert" /\ Peers(s, r) => r \in met[s] /\ s \in met[r]
  BY <1>1 DEF ActiveMeet, Terminal
<1>5. AfterReset'
  BY <1>1, <1>4 DEF AfterReset
<1> QED BY <1>2, <1>3, <1>5

\* Every action keeps the invariant.
LEMMA NextKeeps ==
    ASSUME Inductive, [Next]_vars
    PROVE  Inductive'
<1>1. CASE UNCHANGED vars \/ Done
  BY <1>1
  DEF Done, vars, Inductive, TypeButTotal, ActiveMeet, StoredInserted,
      AfterReset, StoredBatchesOverlap, Active, Peers
<1>2. ASSUME NEW r \in Runs, Connect(r)
      PROVE  Inductive'
  <2>1. /\ r \notin stored /\ Active(r)
        /\ UNCHANGED <<tenant, stored, met>>
    BY <1>2 DEF Connect, inputs, Inductive, StoredInserted, Active, Terminal
  <2>2. \E l \in {"reset", "unavailable"} : pc' = [pc EXCEPT ![r] = l]
    BY <1>2 DEF Connect
  <2> QED BY <2>1, <2>2, MoveKeeps DEF Locations, Terminal
<1>3. ASSUME NEW r \in Runs, Count(r)
      PROVE  Inductive'
  <2>1. Active(r) /\ UNCHANGED <<tenant, stored, met>>
        /\ pc' = [pc EXCEPT ![r] = "ok"]
    BY <1>3 DEF Count, inputs, Active, Terminal
  <2> QED BY <2>1, MoveKeeps DEF Locations, Terminal
<1>4. ASSUME NEW r \in Runs, Fail(r)
      PROVE  Inductive'
  <2>1. Active(r) /\ UNCHANGED <<tenant, met>>
        /\ pc' = [pc EXCEPT ![r] = "aborted"]
    BY <1>4 DEF Fail, inputs, Active, Terminal
  <2>2. CASE UNCHANGED stored
    BY <2>1, <2>2, MoveKeeps DEF Locations, Terminal
  <2>3. CASE pc[r] = "reset" /\ stored' = stored \ StoredOf(tenant[r])
    BY <2>1, <2>3
    DEF Inductive, TypeButTotal, ActiveMeet, StoredInserted, AfterReset,
        StoredBatchesOverlap, StoredOf, Active, Peers, Locations, Terminal
  <2>4. CASE pc[r] = "insert" /\ stored' = stored \union {r}
    BY <2>1, <2>4, InsertKeeps
  <2> QED BY <1>4, <2>2, <2>3, <2>4 DEF Fail
<1>5. ASSUME NEW r \in Runs, Insert(r)
      PROVE  Inductive'
  BY <1>5, InsertKeeps DEF Insert, inputs
<1> QED
  BY <1>1, <1>2, <1>3, <1>4, <1>5, StartKeeps, ResetKeeps DEF Next

\* The invariant holds throughout.
LEMMA StormInvariant == Spec => []Inductive
<1>1. Init => Inductive
  BY DEF Init, Inductive, TypeButTotal, ActiveMeet, StoredInserted, AfterReset,
         StoredBatchesOverlap, Active, Peers, Locations
<1> QED BY <1>1, NextKeeps, PTL DEF Spec

\* For any runs, tenants and batch sizes: two batches of a tenant that are
\* stored together come from runs that overlapped.
THEOREM RowsDoNotPileUp == Spec => []StoredBatchesOverlap
<1>1. Inductive => StoredBatchesOverlap
  BY DEF Inductive
<1> QED BY <1>1, StormInvariant, PTL

\* The model is type correct.  What total holds is a sum over a set, which is
\* the subject of LoneRunCountsItself.
THEOREM WriteStormTypes == Spec => []TypeOK
<1>1. Init => TypeOK
  BY DEF Init, TypeOK, Locations
<1>2. ASSUME TypeOK, [Next]_vars
      PROVE  TypeOK'
  <2> USE <1>2 DEF TypeOK
  <2>1. ASSUME NEW r \in Runs, Start(r)
        PROVE  TypeOK'
    BY <2>1 DEF Start, inputs, Locations, Terminal
  <2>2. ASSUME NEW r \in Runs, Connect(r)
        PROVE  TypeOK'
    BY <2>2 DEF Connect, inputs, Locations, Terminal
  <2>3. ASSUME NEW r \in Runs, Reset(r)
        PROVE  TypeOK'
    BY <2>3 DEF Reset, inputs, Locations
  <2>4. ASSUME NEW r \in Runs, Insert(r)
        PROVE  TypeOK'
    BY <2>4 DEF Insert, inputs, Locations
  <2>5. ASSUME NEW r \in Runs, Count(r)
        PROVE  TypeOK'
    BY <2>5 DEF Count, inputs, Locations, Terminal
  <2>6. ASSUME NEW r \in Runs, Fail(r)
        PROVE  TypeOK'
    BY <2>6 DEF Fail, inputs, Locations, Terminal
  <2>7. CASE UNCHANGED vars
    BY <2>7 DEF vars
  <2> QED
    BY <2>1, <2>2, <2>3, <2>4, <2>5, <2>6, <2>7 DEF Next, Done
<1> QED BY <1>1, <1>2, PTL DEF Spec

\* The fold over one run is that run's batch: the recursive function that
\* MapThenSumSet chooses exists over the subsets of {r}, since w is one.
LEMMA SumOfOne ==
    ASSUME NEW r, Allowed(r) \in Nat
    PROVE  MapThenSumSet(Allowed, {r}) = Allowed(r)
<1> DEFINE pick(s) == CHOOSE x \in s : TRUE
           rhs(it, s) == IF s = {} THEN 0
                         ELSE LET x == pick(s) IN Allowed(x) + it[s \ {x}]
           iter == CHOOSE g : g = [s \in SUBSET {r} |-> rhs(g, s)]
           w == [s \in SUBSET {r} |-> IF s = {} THEN 0 ELSE Allowed(r)]
<1>1. \A s \in SUBSET {r} : s = {} \/ s = {r}
  OBVIOUS
<1>2. pick({r}) = r
  OBVIOUS
<1>3. w = [s \in SUBSET {r} |-> rhs(w, s)]
  <2>1. w[{}] = 0 /\ w[{r}] = Allowed(r) /\ {r} \ {r} = {}
    OBVIOUS
  <2>2. rhs(w, {r}) = Allowed(r) + w[{r} \ {r}]
    BY <1>2
  <2>3. \A s \in SUBSET {r} : w[s] = rhs(w, s)
    BY <2>1, <2>2, <1>1
  <2> QED BY <2>3
<1> HIDE DEF w
<1>4. iter = [s \in SUBSET {r} |-> rhs(iter, s)]
  BY <1>3
<1>5. iter[{r}] = Allowed(r)
  <2> HIDE DEF iter
  <2>1. iter[{}] = 0 /\ iter[{r}] = rhs(iter, {r})
    BY <1>4
  <2>2. rhs(iter, {r}) = Allowed(r) + iter[{r} \ {r}]
    BY <1>2
  <2> QED BY <2>1, <2>2
<1>6. MapThenSumSet(Allowed, {r}) = iter[{r}]
  BY DEF MapThenSumSet, MapThenFoldSet
<1> QED BY <1>5, <1>6

\* Between its insert and its count, only a run that it meets can remove the
\* batch of a run.
StillStored ==
    \A r \in Runs : pc[r] = "count" /\ met[r] = {} => r \in stored

LoneInductive == TypeOK /\ Inductive /\ StillStored /\ LoneRunCountsItself

\* What a run that is alone counts is its own batch.
LEMMA CountOfLoneRun ==
    ASSUME LoneInductive, NEW r \in Runs, pc[r] = "count", met[r] = {}
    PROVE  RowCount(tenant[r]) = Allowed(r)
<1>1. \A s \in stored : tenant[s] = tenant[r] => s = r
  <2> SUFFICES ASSUME NEW s \in stored, tenant[s] = tenant[r], s # r
               PROVE  FALSE
    OBVIOUS
  <2>1. r \in stored
    BY DEF LoneInductive, StillStored
  <2>2. s \in met[r]
    BY <2>1 DEF LoneInductive, Inductive, StoredBatchesOverlap
  <2> QED BY <2>2
<1>2. StoredOf(tenant[r]) = {r}
  BY <1>1 DEF StoredOf, LoneInductive, StillStored
<1>3. Allowed(r) \in Nat
  BY WriteStormAssumption DEF Allowed, LoneInductive, TypeOK
<1> QED BY <1>2, <1>3, SumOfOne DEF RowCount

\* The next-state action keeps what a lone run relies on.
LEMMA LoneNext ==
    ASSUME LoneInductive, [Next]_vars, TypeOK', Inductive'
    PROVE  LoneInductive'
<1> USE DEF LoneInductive
<1>1. ASSUME NEW r \in Runs
      PROVE  UNCHANGED <<mode, requested>> => Allowed(r)' = Allowed(r)
  BY DEF Allowed
<1>2. ASSUME NEW q \in Runs, Start(q)
      PROVE  StillStored' /\ LoneRunCountsItself'
  <2>1. /\ pc[q] = "idle" /\ UNCHANGED <<mode, requested, stored, total>>
        /\ pc'[q] \in {"connect", "invalid"}
        /\ \A s \in Runs \ {q} : pc'[s] = pc[s] /\ met[s] \subseteq met'[s]
    BY <1>2 DEF Start, inputs, TypeOK
  <2> QED BY <2>1, <1>1 DEF StillStored, LoneRunCountsItself
<1>3. ASSUME NEW q \in Runs, Connect(q) \/ Insert(q)
      PROVE  StillStored' /\ LoneRunCountsItself'
  <2>1. /\ UNCHANGED <<mode, requested, total, met>> /\ stored \subseteq stored'
        /\ pc'[q] # "ok" /\ (pc'[q] = "count" => q \in stored')
        /\ \A s \in Runs \ {q} : pc'[s] = pc[s]
    BY <1>3 DEF Connect, Insert, inputs, TypeOK
  <2> QED BY <2>1, <1>1 DEF StillStored, LoneRunCountsItself
<1>4. ASSUME NEW q \in Runs, Reset(q) \/ Fail(q)
      PROVE  StillStored' /\ LoneRunCountsItself'
  <2>1. /\ Active(q) /\ UNCHANGED <<tenant, mode, requested, total, met>>
        /\ \A s \in stored \ stored' : tenant[s] = tenant[q]
        /\ pc'[q] \in {"insert", "aborted"}
        /\ \A s \in Runs \ {q} : pc'[s] = pc[s]
    BY <1>4 DEF Reset, Fail, inputs, TypeOK, StoredOf, Active, Terminal
  <2>2. StillStored'
    <3> SUFFICES ASSUME NEW r \in Runs, pc'[r] = "count", met'[r] = {}
                 PROVE  r \in stored'
      BY DEF StillStored
    <3>1. r # q /\ pc[r] = "count" /\ met[r] = {} /\ r \in stored
      BY <2>1 DEF StillStored
    <3>2. Active(r)
      BY <3>1 DEF Active, Terminal
    <3>3. tenant[r] # tenant[q]
      BY <2>1, <3>1, <3>2 DEF Inductive, ActiveMeet, Peers
    <3> QED BY <2>1, <3>1, <3>3
  <2>3. LoneRunCountsItself'
    BY <2>1, <1>1 DEF LoneRunCountsItself
  <2> QED BY <2>2, <2>3
<1>5. ASSUME NEW q \in Runs, Count(q)
      PROVE  StillStored' /\ LoneRunCountsItself'
  <2>1. /\ pc[q] = "count" /\ pc'[q] = "ok" /\ UNCHANGED <<tenant, mode, requested, stored, met>>
        /\ total'[q] = RowCount(tenant[q])
        /\ \A s \in Runs \ {q} : pc'[s] = pc[s] /\ total'[s] = total[s]
    BY <1>5 DEF Count, inputs, TypeOK
  <2>2. met[q] = {} => total'[q] = Allowed(q)
    BY <2>1, CountOfLoneRun
  <2> QED BY <2>1, <2>2, <1>1 DEF StillStored, LoneRunCountsItself
<1>6. CASE UNCHANGED vars
  <2>1. UNCHANGED <<pc, mode, requested, stored, total, met>>
    BY <1>6 DEF vars
  <2> QED BY <2>1, <1>1 DEF StillStored, LoneRunCountsItself
<1> QED BY <1>2, <1>3, <1>4, <1>5, <1>6 DEF Next, Done

\* A run that met no other run of its tenant reports exactly its own batch.
THEOREM LoneRunsCountTheirBatch == Spec => []LoneRunCountsItself
<1>1. Init => StillStored /\ LoneRunCountsItself
  BY DEF Init, StillStored, LoneRunCountsItself
<1>2. LoneInductive => LoneRunCountsItself
  BY DEF LoneInductive
<1>3. TypeOK /\ Inductive /\ StillStored /\ LoneRunCountsItself <=> LoneInductive
  BY DEF LoneInductive
<1> QED BY <1>1, <1>2, <1>3, LoneNext, WriteStormTypes, StormInvariant, PTL DEF Spec

----------------------------------------------------------------------------
\* AlertWebhook.  The three properties of its run need each other's parts: who is
\* in the loop, how far each post is, and what it has appended.

\* How far a post has come: it appends from its first alert on, and is accepted
\* behind its last.
PostProgress ==
    \A p \in Posts :
       /\ at[p] \in {"idle", "enter", "401", "413"} => next[p] = 1
       /\ at[p] = "200" => next[p] = Len(batch[p]) + 1
       /\ next[p] <= Len(batch[p]) + 1
       /\ at[p] # "clear"

\* Posts in the loop together know of each other.
AppendingMeet == \A p, q \in Appending : p # q => q \in shared[p]

\* The alerts that a post has appended are in the list or were cleared.
AppendedKept ==
    \A p \in Posts :
       {a \in InStore \union removed : a[1] = p} = Alerts(p, next[p] - 1)

InOrder ==
    \A i, j \in 1 .. Len(alerts) :
        i < j /\ alerts[i][1] = alerts[j][1] => alerts[i][2] < alerts[j][2]

WebhookInductive ==
    WebhookTypeOK /\ PostProgress /\ AppendingMeet /\ SolePostKeepsCap
       /\ AppendedKept /\ InOrder

----------------------------------------------------------------------------
\* Nothing is stored and no post is in the loop.
LEMMA WebhookInitially ==
    ASSUME WebhookInit
    PROVE  WebhookInductive
<1>1. /\ alerts = <<>> /\ removed = {} /\ Len(alerts) = 0 /\ InStore = {}
      /\ batch \in [Posts -> Batches]
      /\ at = [h \in Handlers |-> "idle"]
      /\ next = [p \in Posts |-> 1]
      /\ \A p \in Posts : at[p] = "idle"
  BY DEF WebhookInit, InStore, Handlers
<1>2. WebhookTypeOK
  BY <1>1 DEF WebhookInit, WebhookTypeOK
<1>3. \A p \in Posts : Len(batch[p]) \in Nat
  BY <1>1, WebhookAssumption
<1>4. PostProgress
  BY <1>1, <1>3 DEF PostProgress
<1>5. AppendingMeet /\ SolePostKeepsCap
  BY <1>1 DEF AppendingMeet, SolePostKeepsCap, Appending
<1>6. AppendedKept /\ InOrder
  BY <1>1 DEF AppendedKept, InOrder, Alerts
<1> QED BY <1>2, <1>4, <1>5, <1>6 DEF WebhookInductive

\* A step that leaves the list alone and appends nothing, and by which handler h
\* leaves a location outside the loop for a place that is no answer of a post
\* that was stored whole.
LEMMA HandlerMoves ==
    ASSUME WebhookInductive, NEW h \in Handlers,
           NEW l \in {"enter", "clear", "401", "413", "422", "200"},
           at' = [at EXCEPT ![h] = l],
           h \in Posts /\ l \in {"enter", "401", "413"} => next[h] = 1,
           h \in Posts => l # "clear",
           h \in Posts /\ l = "200" => next[h] = Len(batch[h]) + 1,
           cleared' \in [Clears -> Nat],
           UNCHANGED <<alerts, batch, admitted, next, removed, shared>>
    PROVE  WebhookInductive'
<1> USE DEF WebhookInductive
<1>1. at' \in [Handlers -> {"idle", "enter", "append", "clear"} \union Statuses]
  BY DEF WebhookTypeOK, Statuses
<1>2. WebhookTypeOK'
  BY <1>1 DEF WebhookTypeOK
<1>3. Appending' \subseteq Appending /\ UNCHANGED InStore
  BY DEF Appending, Handlers, WebhookTypeOK, InStore
<1>4. PostProgress'
  BY DEF PostProgress, WebhookTypeOK, Handlers
<1>5. AppendingMeet' /\ SolePostKeepsCap'
  BY <1>3 DEF AppendingMeet, SolePostKeepsCap
<1>6. AppendedKept' /\ InOrder'
  BY <1>3 DEF AppendedKept, InOrder, Alerts
<1> QED BY <1>2, <1>4, <1>5, <1>6

\* A post that passes the check finds room for its whole batch, and meets the
\* posts in the loop.
LEMMA EnterLoop ==
    ASSUME WebhookInductive, NEW p \in Posts,
           CheckCapacity(p), at'[p] = "append"
    PROVE  WebhookInductive'
<1> USE DEF WebhookInductive
<1>1. /\ at[p] = "enter" /\ at' = [at EXCEPT ![p] = "append"]
      /\ Len(batch[p]) <= MaxStored - Len(alerts)
      /\ shared' = [s \in Posts |-> IF s = p THEN Appending
                                    ELSE IF s \in Appending THEN shared[s] \union {p}
                                    ELSE shared[s]]
      /\ UNCHANGED <<alerts, batch, admitted, next, cleared, removed>>
  <2>1. at[p] = "enter" /\ p \in DOMAIN at
    BY DEF CheckCapacity, WebhookTypeOK, Handlers
  <2>2. MaxStored \in Nat /\ Len(alerts) \in Nat /\ Len(batch[p]) \in Nat
    BY WebhookAssumption DEF WebhookTypeOK
  <2>3. ~(MaxStored - Len(alerts) <= 0 \/ Len(batch[p]) > MaxStored - Len(alerts))
    BY <2>1 DEF CheckCapacity
  <2> QED BY <2>1, <2>2, <2>3 DEF CheckCapacity
<1>2. /\ Appending' = Appending \union {p} /\ p \notin Appending
      /\ UNCHANGED InStore
  BY <1>1 DEF Appending, Handlers, WebhookTypeOK, InStore
<1>3. next[p] = 1
  BY <1>1 DEF PostProgress
<1>4. WebhookTypeOK'
  <2>1. at' \in [Handlers -> {"idle", "enter", "append", "clear"} \union Statuses]
    BY <1>1 DEF WebhookTypeOK
  <2>2. shared' \in [Posts -> SUBSET Posts]
    BY <1>1 DEF WebhookTypeOK, Appending
  <2> QED BY <1>1, <2>1, <2>2 DEF WebhookTypeOK
<1>5. PostProgress'
  BY <1>1 DEF PostProgress, WebhookTypeOK, Handlers
<1>6. AppendingMeet'
  BY <1>1, <1>2 DEF AppendingMeet, Appending
<1>7. SolePostKeepsCap'
  <2> SUFFICES ASSUME NEW q \in Appending', shared'[q] = {}
               PROVE  Len(alerts) + Len(batch[q]) - (next[q] - 1) <= MaxStored
    BY <1>1 DEF SolePostKeepsCap
  <2>1. CASE q = p
    <3>1. Len(batch[p]) \in Nat /\ Len(alerts) \in Nat /\ MaxStored \in Nat
      BY WebhookAssumption DEF WebhookTypeOK
    <3> QED BY <3>1, <2>1, <1>1, <1>3
  <2>2. CASE q # p
    <3>1. q \in Appending /\ q \in Posts /\ p \in shared'[q]
      BY <2>2, <1>1, <1>2 DEF Appending
    <3> QED BY <3>1
  <2> QED BY <2>1, <2>2
<1>8. AppendedKept' /\ InOrder'
  BY <1>1, <1>2 DEF AppendedKept, InOrder, Alerts
<1> QED BY <1>4, <1>5, <1>6, <1>7, <1>8

\* An append takes up room that a post in the loop by itself had counted on, and
\* the new alert comes behind the earlier ones of its post.
LEMMA AppendKeeps ==
    ASSUME WebhookInductive, NEW p \in Posts,
           AppendAlert(p), UNCHANGED at
    PROVE  WebhookInductive'
<1> USE DEF WebhookInductive
<1> DEFINE a == <<p, next[p]>>
<1>1. /\ at[p] = "append" /\ next[p] <= Len(batch[p])
      /\ alerts' = Append(alerts, a)
      /\ next' = [next EXCEPT ![p] = next[p] + 1]
      /\ UNCHANGED <<at, batch, admitted, cleared, removed, shared>>
  BY DEF AppendAlert, WebhookTypeOK, Handlers
<1>2. /\ alerts \in Seq(Posts \X Nat) /\ Len(alerts) \in Nat /\ MaxStored \in Nat
      /\ a \in Posts \X Nat
      /\ \A q \in Posts : next[q] \in Nat \ {0} /\ Len(batch[q]) \in Nat
      /\ \A q \in Posts : next'[q] = IF q = p THEN next[p] + 1 ELSE next[q]
  BY <1>1, WebhookAssumption DEF WebhookTypeOK
<1> DEFINE n == Len(alerts)
<1>3. /\ alerts' \in Seq(Posts \X Nat) /\ Len(alerts') = n + 1
      /\ \A i \in 1 .. n : alerts'[i] = alerts[i]
      /\ alerts'[n + 1] = a
  BY <1>1, <1>2, AppendProperties
<1>4. n \in Nat /\ 1 .. Len(alerts') = (1 .. n) \union {n + 1}
  BY <1>2, <1>3
<1>5. InStore' = InStore \union {a}
  <2> HIDE DEF a, n
  <2>1. InStore' = {alerts'[i] : i \in (1 .. n) \union {n + 1}}
    BY <1>4 DEF InStore
  <2>2. InStore = {alerts[i] : i \in 1 .. n}
    BY DEF InStore, n
  <2> QED BY <2>1, <2>2, <1>3
<1>6. UNCHANGED Appending
  BY <1>1 DEF Appending
<1>7. WebhookTypeOK'
  BY <1>1, <1>2, <1>3 DEF WebhookTypeOK
<1>8. PostProgress'
  BY <1>1, <1>2 DEF PostProgress
<1>9. AppendingMeet'
  BY <1>1, <1>6 DEF AppendingMeet
<1>10. SolePostKeepsCap'
  <2> SUFFICES ASSUME NEW q \in Appending, shared[q] = {}
               PROVE  Len(alerts') + Len(batch[q]) - (next'[q] - 1) <= MaxStored
    BY <1>1, <1>6 DEF SolePostKeepsCap
  <2>1. q = p
    BY <1>1 DEF AppendingMeet, Appending
  <2>2. Len(alerts) + Len(batch[p]) - (next[p] - 1) <= MaxStored
    BY <2>1 DEF SolePostKeepsCap
  <2>3. Len(alerts') = Len(alerts) + 1 /\ next'[p] = next[p] + 1
    BY <1>2, <1>3
  <2>4. /\ Len(alerts) \in Nat /\ Len(batch[p]) \in Nat /\ next[p] \in Nat
        /\ MaxStored \in Nat
    BY <1>2
  <2> DEFINE k == Len(alerts)
             l == Len(alerts')
             b == Len(batch[p])
             x == next[p]
             y == next'[p]
  <2>5. /\ k \in Nat /\ b \in Nat /\ x \in Nat /\ MaxStored \in Nat
        /\ l = k + 1 /\ y = x + 1 /\ k + b - (x - 1) <= MaxStored
    BY ONLY <2>2, <2>3, <2>4
  <2> HIDE DEF k, l, b, x, y
  <2>6. l + b - (y - 1) <= MaxStored
    BY ONLY <2>5
  <2> QED BY ONLY <2>1, <2>6 DEF l, b, y
<1>11. AppendedKept'
  <2> SUFFICES ASSUME NEW q \in Posts
               PROVE  {x \in InStore' \union removed : x[1] = q} = Alerts(q, next'[q] - 1)
    BY <1>1 DEF AppendedKept, Alerts
  <2>1. {x \in InStore \union removed : x[1] = q} = Alerts(q, next[q] - 1)
    BY DEF AppendedKept
  <2>2. CASE q # p
    BY <2>1, <2>2, <1>2, <1>5
  <2>3. CASE q = p
    <3>1. {x \in InStore' \union removed : x[1] = p}
            = {x \in InStore \union removed : x[1] = p} \union {a}
      BY <1>5
    <3>2. Alerts(p, next[p]) = Alerts(p, next[p] - 1) \union {a}
      BY <1>2 DEF Alerts
    <3> QED BY <2>1, <2>3, <3>1, <3>2, <1>2
  <2> QED BY <2>2, <2>3
<1>12. InOrder'
  <2> SUFFICES ASSUME NEW i \in 1 .. Len(alerts'), NEW j \in 1 .. Len(alerts'),
                      i < j, alerts'[i][1] = alerts'[j][1]
               PROVE  alerts'[i][2] < alerts'[j][2]
    BY DEF InOrder
  <2>1. i \in 1 .. Len(alerts) /\ alerts'[i] = alerts[i]
    <3> DEFINE k == Len(alerts)
               l == Len(alerts')
    <3>1. k \in Nat /\ l = k + 1 /\ i \in 1 .. l /\ j \in 1 .. l
      BY <1>2, <1>3
    <3> HIDE DEF k, l
    <3>2. i \in 1 .. k
      BY ONLY <3>1, i < j
    <3> QED BY ONLY <3>2, <1>3 DEF k
  <2>2. CASE j \in 1 .. Len(alerts)
    BY <2>1, <2>2, <1>3 DEF InOrder
  <2>3. CASE j = Len(alerts) + 1
    <3>1. alerts[i] \in {x \in InStore \union removed : x[1] = p}
      BY <2>1, <2>3, <1>3 DEF InStore
    <3>2. alerts[i] \in Alerts(p, next[p] - 1)
      BY <3>1 DEF AppendedKept
    <3>3. alerts[i][2] \in 1 .. next[p] - 1
      BY <3>2 DEF Alerts
    <3>4. alerts'[i] = alerts[i] /\ alerts'[j] = a /\ a[2] = next[p] /\ next[p] \in Nat
      BY <2>1, <2>3, <1>2, <1>3
    <3> QED BY ONLY <3>3, <3>4
  <2> QED BY <2>2, <2>3, <1>4
<1> QED BY <1>7, <1>8, <1>9, <1>10, <1>11, <1>12

\* A clear empties the list into removed, and only makes room.
LEMMA ClearKeeps ==
    ASSUME WebhookInductive, NEW c \in Clears, Clear(c)
    PROVE  WebhookInductive'
<1> USE DEF WebhookInductive
<1>1. /\ at' = [at EXCEPT ![c] = "200"]
      /\ alerts' = <<>> /\ Len(alerts') = 0 /\ InStore' = {}
      /\ removed' = removed \union InStore
      /\ UNCHANGED <<batch, admitted, next, cleared, shared>>
  BY DEF Clear, InStore
<1>2. /\ Len(alerts) \in Nat /\ MaxStored \in Nat
      /\ InStore \subseteq Posts \X Nat
      /\ \A q \in Posts : next[q] \in Nat \ {0} /\ Len(batch[q]) \in Nat
  BY WebhookAssumption DEF WebhookTypeOK, InStore
<1>3. /\ \A p \in Posts : at'[p] = at[p]
      /\ UNCHANGED Appending
  BY <1>1, WebhookAssumption DEF WebhookTypeOK, Handlers, Appending
<1>4. WebhookTypeOK'
  <2>1. at' \in [Handlers -> {"idle", "enter", "append", "clear"} \union Statuses]
    BY <1>1 DEF WebhookTypeOK, Statuses
  <2> QED BY <1>1, <1>2, <2>1 DEF WebhookTypeOK
<1>5. PostProgress' /\ AppendingMeet'
  BY <1>1, <1>3 DEF PostProgress, AppendingMeet
<1>6. SolePostKeepsCap'
  BY <1>1, <1>2, <1>3 DEF SolePostKeepsCap, Appending
<1>7. AppendedKept' /\ InOrder'
  BY <1>1 DEF AppendedKept, InOrder, Alerts
<1> QED BY <1>4, <1>5, <1>6, <1>7

\* Every action of the webhook keeps the invariant.
LEMMA WebhookInductiveStep ==
    ASSUME WebhookInductive, [WebhookNext]_webhookVars
    PROVE  WebhookInductive'
<1> USE DEF WebhookInductive
<1>1. ASSUME NEW h \in Handlers, Authorize(h)
      PROVE  WebhookInductive'
  BY <1>1, HandlerMoves DEF Authorize, PostProgress, WebhookTypeOK
<1>2. ASSUME NEW p \in Posts, RejectPayload(p)
      PROVE  WebhookInductive'
  BY <1>2, HandlerMoves DEF RejectPayload, WebhookTypeOK, Handlers
<1>3. ASSUME NEW p \in Posts, CheckCapacity(p)
      PROVE  WebhookInductive'
  <2>1. CASE at'[p] = "append"
    BY <1>3, <2>1, EnterLoop
  <2>2. CASE at'[p] # "append"
    <3>1. /\ at[p] = "enter" /\ at' = [at EXCEPT ![p] = "413"]
          /\ UNCHANGED <<alerts, batch, admitted, next, cleared, removed, shared>>
      BY <1>3, <2>2 DEF CheckCapacity, WebhookTypeOK, Handlers
    <3> QED BY <3>1, HandlerMoves DEF PostProgress, WebhookTypeOK, Handlers
  <2> QED BY <2>1, <2>2
<1>4. ASSUME NEW p \in Posts, AppendAlert(p)
      PROVE  WebhookInductive'
  <2>1. CASE UNCHANGED at
    BY <1>4, <2>1, AppendKeeps
  <2>2. CASE at' # at
    <3>1. /\ at' = [at EXCEPT ![p] = "422"]
          /\ UNCHANGED <<alerts, batch, admitted, next, cleared, removed, shared>>
      BY <1>4, <2>2 DEF AppendAlert
    <3> QED BY <3>1, HandlerMoves DEF WebhookTypeOK, Handlers
  <2> QED BY <2>1, <2>2
<1>5. ASSUME NEW p \in Posts, Accept(p)
      PROVE  WebhookInductive'
  <2>1. /\ at' = [at EXCEPT ![p] = "200"] /\ next[p] > Len(batch[p])
        /\ UNCHANGED <<alerts, batch, admitted, next, cleared, removed, shared>>
    BY <1>5 DEF Accept
  <2>2. next[p] \in Nat /\ Len(batch[p]) \in Nat
    BY WebhookAssumption DEF WebhookTypeOK
  <2>3. next[p] = Len(batch[p]) + 1
    BY <2>1, <2>2 DEF PostProgress
  <2> QED BY <2>1, <2>3, HandlerMoves DEF WebhookTypeOK, Handlers
<1>6. ASSUME NEW c \in Clears, CountForClear(c)
      PROVE  WebhookInductive'
  <2>1. /\ at' = [at EXCEPT ![c] = "clear"] /\ cleared' \in [Clears -> Nat]
        /\ UNCHANGED <<alerts, batch, admitted, next, removed, shared>>
    BY <1>6 DEF CountForClear, WebhookTypeOK
  <2> QED BY <2>1, HandlerMoves, WebhookAssumption DEF Handlers
<1>7. CASE UNCHANGED webhookVars
  <2>1. UNCHANGED <<alerts, batch, admitted, at, next, cleared, removed, shared>>
    BY <1>7 DEF webhookVars
  <2>2. UNCHANGED InStore /\ UNCHANGED Appending
    BY <2>1 DEF InStore, Appending
  <2> QED
    BY <2>1, <2>2
    DEF WebhookTypeOK, PostProgress, AppendingMeet, SolePostKeepsCap, AppendedKept,
        InOrder, Alerts
<1> QED
  BY <1>1, <1>2, <1>3, <1>4, <1>5, <1>6, <1>7, ClearKeeps DEF WebhookNext, HandlersDone

\* For any posts, clears, batches and cap.
LEMMA WebhookInvariant == WebhookSpec => []WebhookInductive
<1>1. WebhookInit => WebhookInductive
  BY WebhookInitially
<1>2. WebhookInductive /\ [WebhookNext]_webhookVars => WebhookInductive'
  BY WebhookInductiveStep
<1> QED BY <1>1, <1>2, PTL DEF WebhookSpec

\* The model of the webhook is type correct.
THEOREM WebhookTypes == WebhookSpec => []WebhookTypeOK
<1>1. WebhookInductive => WebhookTypeOK
  BY DEF WebhookInductive
<1> QED BY <1>1, WebhookInvariant, PTL

\* A post that shares the loop with nobody never passes max_stored_alerts,
\* whatever clears run meanwhile.
THEOREM CapWithoutSharing == WebhookSpec => []SolePostKeepsCap
<1>1. WebhookInductive => SolePostKeepsCap
  BY DEF WebhookInductive
<1> QED BY <1>1, WebhookInvariant, PTL

\* However posts and clears interleave: an accepted batch was stored whole and in
\* order, a refused one not at all, an invalid one up to its first bad alert.
THEOREM NothingLostOrMadeUp == WebhookSpec => []BatchAccounting
<1>1. WebhookInductive => BatchAccounting
  <2> SUFFICES ASSUME WebhookInductive
               PROVE  BatchAccounting
    OBVIOUS
  <2>1. ASSUME NEW p \in Posts
        PROVE  {a \in InStore \union removed : a[1] = p} =
                 CASE at[p] = "200" -> Alerts(p, Len(batch[p]))
                   [] at[p] \in {"append", "422"} -> Alerts(p, next[p] - 1)
                   [] OTHER -> {}
    <3>1. /\ {a \in InStore \union removed : a[1] = p} = Alerts(p, next[p] - 1)
          /\ at[p] = "200" => next[p] = Len(batch[p]) + 1
          /\ at[p] \in {"idle", "enter", "401", "413"} => next[p] = 1
          /\ at[p] \in {"idle", "enter", "append", "clear"} \union Statuses
          /\ at[p] # "clear"
          /\ Len(batch[p]) \in Nat
      BY WebhookAssumption
         DEF WebhookInductive, AppendedKept, PostProgress, WebhookTypeOK, Handlers
    <3>2. Alerts(p, 0) = {}
      BY DEF Alerts
    <3> QED BY <3>1, <3>2 DEF Statuses
  <2> QED BY <2>1 DEF BatchAccounting, WebhookInductive, InOrder
<1> QED BY <1>1, WebhookInvariant, PTL
=============================================================================
