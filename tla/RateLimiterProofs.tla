------------------------- MODULE RateLimiterProofs -------------------------
(***************************************************************************)
(* The bound of the distributed limiter, for any number of replicas, any   *)
(* limit and window, and any delays.  GrantedWithinBound alone is not      *)
(* inductive: a replica between its two pipelines will add without looking *)
(* again.  Capacity counts such replicas together with the members; the    *)
(* other parts carry the requests of the window from the history to zset.  *)
(***************************************************************************)
EXTENDS RateLimiter, FiniteSetTheorems, TLAPS

\* The replicas that have passed the check and not yet added.
Pending == {p \in Replicas : pc[p] = "add"}

Capacity ==
    /\ IsFiniteSet(zset)
    /\ Cardinality(zset) + Cardinality(Pending) <= Bound

\* No clock reading is ahead of the clock, and the key outlives the window of
\* every member.
Clocks ==
    /\ \A p \in Replicas : stamp[p] <= now
    /\ \A m \in recorded : m.at <= now /\ m.at + Window + 1 <= expireAt

\* A replica that fails closed grants only what it has recorded.
GrantedRecorded == \A m \in granted : m.replica \notin FailOpen => m \in recorded

\* Only recorded requests are members, and there are finitely many of them.
MembersRecorded == zset \subseteq recorded /\ IsFiniteSet(recorded)

\* A replica with the in-memory limiter is never between two steps.
MemoryAtomic == \A p \in memory : pc[p] \notin {"check", "add"}

IInv ==
    /\ TypeOK /\ Clocks /\ WindowKept /\ GrantedRecorded
    /\ MembersRecorded /\ MemoryAtomic /\ Capacity

----------------------------------------------------------------------------
\* Of any set of replicas the number is at most that of all replicas.
LEMMA ReplicaCount ==
    ASSUME NEW S \in SUBSET Replicas
    PROVE  /\ IsFiniteSet(S)
           /\ Cardinality(S) \in Nat
           /\ Cardinality(Replicas) \in Nat
           /\ Cardinality(S) <= Cardinality(Replicas)
  BY LimiterAssumption, FS_Subset, FS_CardinalityType

\* The empty set of members and no pending replica are within the bound: the
\* limiter starts within it.
LEMMA InitInv == Init => IInv
<1> SUFFICES ASSUME Init PROVE IInv
  OBVIOUS
<1>1. TypeOK /\ Clocks /\ WindowKept /\ GrantedRecorded
  BY LimiterAssumption DEF Init, TypeOK, Clocks, WindowKept, InWindow, GrantedRecorded
<1>5. MembersRecorded /\ MemoryAtomic
  BY FS_EmptySet, LimiterAssumption DEF Init, MembersRecorded, MemoryAtomic
<1>2. Pending = {}
  BY DEF Init, Pending
<1>3. Cardinality(Replicas) \in Nat /\ Cardinality(Replicas) # 0
  BY LimiterAssumption, FS_CardinalityType, FS_EmptySet
<1>4. Capacity
  BY <1>2, <1>3, LimiterAssumption, FS_EmptySet DEF Capacity, Bound, Init
<1> QED BY <1>1, <1>4, <1>5 DEF IInv

\* The parts of the invariant that speak of types, clocks and histories
\* survive every step of the limiter.
LEMMA StepHistory ==
    ASSUME IInv, [Next]_vars
    PROVE  TypeOK' /\ Clocks' /\ WindowKept' /\ GrantedRecorded'
<1> USE LimiterAssumption
           DEF IInv, TypeOK, Clocks, WindowKept, GrantedRecorded, InWindow
<1>1. CASE UNCHANGED vars
  BY <1>1 DEF vars
<1>2. CASE Tick
  BY <1>2 DEF Tick, Member
<1>3. ASSUME NEW p \in Replicas, Begin(p)
      PROVE  TypeOK' /\ Clocks' /\ WindowKept' /\ GrantedRecorded'
  BY <1>3 DEF Begin
<1>4. ASSUME NEW p \in Replicas, Check(p)
      PROVE  TypeOK' /\ Clocks' /\ WindowKept' /\ GrantedRecorded'
  BY <1>4 DEF Check, Member
<1>5. ASSUME NEW p \in Replicas, pc[p] = "add", AddMember(p)
      PROVE  /\ zset' \in SUBSET Member /\ recorded' \in SUBSET Member
             /\ expireAt' \in Nat
             /\ \A m \in recorded' : m.at <= now /\ m.at + Window + 1 <= expireAt'
  BY <1>5 DEF AddMember, MemberOf, Member
<1>6. ASSUME NEW p \in Replicas, Add(p)
      PROVE  TypeOK' /\ Clocks' /\ WindowKept' /\ GrantedRecorded'
  BY <1>5, <1>6 DEF Add, AddMember, Grant, MemberOf
<1>7. ASSUME NEW p \in Replicas, RedisError(p)
      PROVE  TypeOK' /\ Clocks' /\ WindowKept' /\ GrantedRecorded'
  BY <1>5, <1>7 DEF RedisError, OnRedisError, AddMember, Grant, MemberOf, Member
<1>8. ASSUME NEW p \in Replicas, AllowInMemory(p)
      PROVE  TypeOK' /\ Clocks' /\ WindowKept' /\ GrantedRecorded'
  <2> DEFINE m == [replica |-> p, seq |-> seq[p] + 1, at |-> now]
  <2>1. m \in Member /\ m.replica \in FailOpen
    BY <1>8 DEF AllowInMemory, Member
  <2>2. Pruned(p) \in SUBSET Member
    BY DEF Pruned
  <2>3. /\ bucket' \in [Replicas -> SUBSET Member]
        /\ granted' \in SUBSET Member
        /\ \A g \in granted' : g.replica \notin FailOpen => g \in recorded
    BY <1>8, <2>1, <2>2 DEF AllowInMemory
  <2>4. /\ pc' \in [Replicas -> {"idle", "check", "add", "denied", "granted", "unavailable"}]
        /\ seq' \in [Replicas -> 0 .. MaxRequests]
    BY <1>8 DEF AllowInMemory
  <2>5. UNCHANGED <<memory, now, zset, expireAt, stamp, recorded>>
    BY <1>8 DEF AllowInMemory
  <2> QED BY <2>3, <2>4, <2>5
<1> QED BY <1>1, <1>2, <1>3, <1>4, <1>6, <1>7, <1>8 DEF Next

\* Every step adds to the set only what it records.
LEMMA StepMembers ==
    ASSUME IInv, [Next]_vars
    PROVE  MembersRecorded'
<1> USE DEF IInv, MembersRecorded
<1>1. CASE zset' \subseteq zset /\ recorded' = recorded
  BY <1>1
<1>2. ASSUME NEW p \in Replicas, AddMember(p)
      PROVE  MembersRecorded'
  BY <1>2, FS_AddElement DEF AddMember
<1> QED
  BY <1>1, <1>2 DEF Next, vars, Tick, Begin, Check, Add, RedisError,
                    AllowInMemory, InWindow

\* No step takes an in-memory replica between two steps.
LEMMA StepAtomic ==
    ASSUME IInv, [Next]_vars
    PROVE  MemoryAtomic'
<1> USE LimiterAssumption DEF IInv, TypeOK, MemoryAtomic
<1>1. ASSUME NEW q \in Replicas, NEW a, pc' = [pc EXCEPT ![q] = a],
             memory' = memory, q \notin memory \/ a \notin {"check", "add"}
      PROVE  MemoryAtomic'
  BY <1>1
<1>2. CASE UNCHANGED <<pc, memory>>
  BY <1>2
<1> QED
  BY <1>1, <1>2 DEF Next, vars, Tick, Begin, Check, Add, RedisError,
                    OnRedisError, Grant, AllowInMemory

\* Capacity survives every step: a check that passes finds fewer than Limit
\* members, so even if every replica is pending then, the bound holds; an add
\* turns one pending replica into one member.
LEMMA StepCapacity ==
    ASSUME IInv, [Next]_vars
    PROVE  Capacity'
<1> USE DEF IInv, Capacity
<1>0. TypeOK'
  BY StepHistory
<1>1. ASSUME zset' \in SUBSET zset, Pending' \in SUBSET Pending
      PROVE  Capacity'
  <2>1. IsFiniteSet(zset') /\ Cardinality(zset') <= Cardinality(zset)
    BY <1>1, FS_Subset
  <2>2. Cardinality(Pending') <= Cardinality(Pending)
    BY <1>1, FS_Subset, ReplicaCount DEF Pending
  <2>3. /\ Cardinality(zset) \in Nat /\ Cardinality(zset') \in Nat
        /\ Cardinality(Pending) \in Nat /\ Cardinality(Pending') \in Nat
    BY <2>1, FS_CardinalityType, ReplicaCount DEF Pending
  <2>4. Bound \in Int /\ Bound' = Bound
    BY LimiterAssumption, ReplicaCount DEF Bound
  <2> QED BY <2>1, <2>2, <2>3, <2>4
<1>2. ASSUME NEW p \in Replicas, Check(p)
      PROVE  Capacity'
  <2>1. CASE Cardinality(zset') >= Limit
    <3>1. Pending' \in SUBSET Pending
      BY <1>2, <2>1 DEF Check, Pending, TypeOK
    <3>2. zset' \in SUBSET zset
      BY <1>2 DEF Check, InWindow
    <3> QED BY <1>1, <3>1, <3>2
  <2>2. CASE ~(Cardinality(zset') >= Limit)
    <3>1. zset' \in SUBSET zset
      BY <1>2 DEF Check, InWindow
    <3>2. IsFiniteSet(zset') /\ Cardinality(zset') \in Nat
      BY <3>1, FS_Subset, FS_CardinalityType
    <3>3. /\ Cardinality(Pending') \in Nat
          /\ Cardinality(Replicas) \in Nat
          /\ Cardinality(Pending') <= Cardinality(Replicas)
      BY ReplicaCount DEF Pending
    <3> QED BY <2>2, <3>2, <3>3, LimiterAssumption DEF Bound
  <2> QED BY <2>1, <2>2
<1>3. ASSUME NEW p \in Replicas, pc[p] = "add", AddMember(p),
             Pending' = Pending \ {p}
      PROVE  Capacity'
  <2>1. p \in Pending /\ IsFiniteSet(Pending)
    BY <1>3, ReplicaCount DEF Pending
  <2>2. Cardinality(Pending') = Cardinality(Pending) - 1
    BY <1>3, <2>1, FS_RemoveElement
  <2>3. /\ IsFiniteSet(zset')
        /\ Cardinality(zset') <= Cardinality(zset) + 1
    <3> DEFINE m == MemberOf(p)
    <3> HIDE DEF m
    <3>1. zset' = zset \union {m}
      BY <1>3 DEF AddMember, m
    <3>2. Cardinality(zset) \in Nat
      BY FS_CardinalityType
    <3>3. /\ IsFiniteSet(zset \union {m})
          /\ Cardinality(zset \union {m}) =
               IF m \in zset THEN Cardinality(zset) ELSE Cardinality(zset) + 1
      BY FS_AddElement
    <3> QED BY <3>1, <3>2, <3>3
  <2>4. /\ Cardinality(zset) \in Nat /\ Cardinality(zset') \in Nat
        /\ Cardinality(Pending) \in Nat
    BY <2>1, <2>3, FS_CardinalityType
  <2>5. Bound \in Int /\ Bound' = Bound
    BY LimiterAssumption, ReplicaCount DEF Bound
  <2> QED BY <2>2, <2>3, <2>4, <2>5
<1>4. ASSUME NEW p \in Replicas, Add(p)
      PROVE  Capacity'
  <2>1. Pending' = Pending \ {p}
    BY <1>4 DEF Add, Grant, Pending, TypeOK
  <2> QED BY <1>3, <1>4, <2>1 DEF Add
<1>5. ASSUME NEW p \in Replicas, RedisError(p)
      PROVE  Capacity'
  <2>1. \E a \in {"granted", "unavailable"} : pc' = [pc EXCEPT ![p] = a]
    BY <1>5 DEF RedisError, OnRedisError, Grant
  <2>2. Pending' = Pending \ {p}
    BY <2>1 DEF Pending, TypeOK
  <2>3. CASE pc[p] = "add" /\ AddMember(p)
    BY <1>3, <2>2, <2>3
  <2>4. CASE zset' \in SUBSET zset
    BY <1>1, <2>2, <2>4
  <2> QED BY <1>5, <2>3, <2>4 DEF RedisError, InWindow
<1>6. ASSUME NEW p \in Replicas, Begin(p)
      PROVE  Capacity'
  <2>1. Pending' = Pending
    BY <1>6 DEF Begin, Pending, TypeOK
  <2> QED BY <1>1, <1>6, <2>1 DEF Begin
<1>9. ASSUME NEW p \in Replicas, AllowInMemory(p)
      PROVE  Capacity'
  <2>1. \E a \in {"granted", "denied"} : pc' = [pc EXCEPT ![p] = a]
    BY <1>9 DEF AllowInMemory
  <2>2. Pending' \in SUBSET Pending
    BY <2>1 DEF Pending, TypeOK
  <2> QED BY <1>1, <1>9, <2>2 DEF AllowInMemory
<1>7. CASE Tick
  BY <1>1, <1>7 DEF Tick, Pending
<1>8. CASE UNCHANGED vars
  BY <1>1, <1>8 DEF vars, Pending
<1> QED BY <1>2, <1>4, <1>5, <1>6, <1>7, <1>8, <1>9 DEF Next

\* The recorded requests of the window are members of the set, so their
\* number is within the bound, and those a closed replica granted are among
\* them.
LEMMA InvBound == IInv => GrantedWithinBound
<1> SUFFICES ASSUME IInv PROVE GrantedWithinBound
  OBVIOUS
<1> DEFINE W == InWindow(recorded, now)
<1>1. W \subseteq zset
  BY DEF IInv, WindowKept
<1>2. GrantedClosed \subseteq W
  BY DEF IInv, GrantedClosed, GrantedRecorded, InWindow
<1>3. /\ IsFiniteSet(zset)
      /\ Cardinality(W) <= Cardinality(zset)
      /\ Cardinality(W) \in Nat /\ Cardinality(zset) \in Nat
  BY <1>1, FS_Subset, FS_CardinalityType DEF IInv, Capacity
<1>4. Cardinality(Pending) \in Nat /\ Bound \in Int
  BY ReplicaCount, LimiterAssumption DEF Pending, Bound
<1>5. Cardinality(W) <= Bound
  <2> HIDE DEF W
  <2> QED BY <1>3, <1>4 DEF IInv, Capacity
<1> QED BY <1>2, <1>5 DEF GrantedWithinBound

\* The invariant holds throughout.
THEOREM LimiterInvariant == Spec => []IInv
<1>1. IInv /\ [Next]_vars => IInv'
  BY StepHistory, StepMembers, StepAtomic, StepCapacity DEF IInv
<1> QED BY <1>1, InitInv, PTL DEF Spec

\* TypeOK of the limiters, for any replicas, limit and window.
THEOREM LimiterTypes == Spec => []TypeOK
  BY LimiterInvariant, PTL DEF IInv

\* No window holds more than Limit + replicas - 1 recorded requests, and every
\* request granted by a replica that fails closed is recorded, whatever the
\* delays between clock reading, check and add and whatever the replicas that
\* fail open do.
THEOREM LimiterBound == Spec => []GrantedWithinBound
  BY LimiterInvariant, InvBound, PTL

\* Neither a prune with an old clock reading nor the expiry of the key loses a
\* request of the window.
THEOREM LimiterKeepsWindow == Spec => []WindowKept
  BY LimiterInvariant, PTL DEF IInv

\* A 429 is earned: the refused request counted members that were recorded in
\* its own window.
THEOREM LimiterDenialsEarned == Spec => DenialsEarned
<1>1. ASSUME IInv, [Next]_vars, NEW p \in Replicas,
             pc[p] = "check", pc'[p] = "denied"
      PROVE  Cardinality(InWindow(recorded, stamp[p])) >= Limit
  <2>1. Check(p)
    <3> USE <1>1 DEF IInv, TypeOK
    <3>1. ASSUME NEW q \in Replicas, NEW a, pc' = [pc EXCEPT ![q] = a]
          PROVE  q = p /\ a = "denied"
      BY <3>1
    <3>2. ~Tick /\ ~UNCHANGED vars
      BY DEF Tick, vars
    <3>3. ASSUME NEW q \in Replicas, AllowInMemory(q)
          PROVE  FALSE
      <4>1. q = p
        BY <3>1, <3>3 DEF AllowInMemory
      <4> QED BY <3>3, <4>1 DEF AllowInMemory, MemoryAtomic
    <3>4. ASSUME NEW q \in Replicas, Begin(q) \/ Add(q) \/ RedisError(q)
          PROVE  FALSE
      <4>1. \E a \in {"check", "granted", "unavailable"} : pc' = [pc EXCEPT ![q] = a]
        BY <3>4 DEF Begin, Add, RedisError, OnRedisError, Grant
      <4> QED BY <3>1, <4>1
    <3>5. ASSUME NEW q \in Replicas, Check(q)
          PROVE  q = p
      BY <3>1, <3>5 DEF Check
    <3> QED BY <3>2, <3>3, <3>4, <3>5 DEF Next
  <2>2. zset' = InWindow(zset, stamp[p]) /\ Cardinality(zset') >= Limit
    BY <1>1, <2>1 DEF Check, IInv, TypeOK
  <2>3. zset' \subseteq InWindow(recorded, stamp[p])
    BY <1>1, <2>2 DEF IInv, MembersRecorded, InWindow
  <2>4. IsFiniteSet(InWindow(recorded, stamp[p]))
    BY <1>1, FS_Subset DEF IInv, MembersRecorded, InWindow
  <2>5. /\ IsFiniteSet(zset')
        /\ Cardinality(zset') <= Cardinality(InWindow(recorded, stamp[p]))
    BY <2>3, <2>4, FS_Subset
  <2>6. Cardinality(zset') \in Nat /\ Cardinality(InWindow(recorded, stamp[p])) \in Nat
    BY <2>4, <2>5, FS_CardinalityType
  <2> QED BY <2>2, <2>5, <2>6, LimiterAssumption
<1>2. IInv /\ [Next]_vars =>
        [\A p \in Replicas :
           pc[p] = "check" /\ pc'[p] = "denied" =>
             Cardinality(InWindow(recorded, stamp[p])) >= Limit]_vars
  BY <1>1
<1> QED BY <1>2, LimiterInvariant, PTL DEF Spec, DenialsEarned

----------------------------------------------------------------------------
\* Init is an initial state of the abstract window.
LEMMA SharedInit == Init => Shared!Init
  BY DEF Init, Shared!Init

\* Every step is one of the abstract window: time passes, one request is
\* admitted into a window with room, or nothing that the window shows changes.
LEMMA SharedStep ==
    ASSUME IInv, IInv', [Next]_vars
    PROVE  [Shared!Next]_<<now, recorded>>
<1> USE DEF Shared!Next
<1>1. CASE Tick
  BY <1>1 DEF Tick, Shared!Tick
<1>2. ASSUME NEW p \in Replicas, AddMember(p), now' = now
      PROVE  [Shared!Next]_<<now, recorded>>
  <2>1. GrantedWithinBound'
    BY InvBound, PTL
  <2>2. Shared!Recent(now)' = InWindow(recorded, now)'
    BY DEF Shared!Recent, InWindow
  <2>3. Shared!Cardinality(Shared!Recent(now)') <= Bound
    <3>1. Cardinality(Shared!Recent(now)') <= Bound
      BY <2>1, <2>2 DEF GrantedWithinBound, Bound
    <3>2. \A S : Shared!Cardinality(S) = Cardinality(S)
      BY DEF Cardinality, Shared!Cardinality
    <3> QED BY <3>1, <3>2
  <2>4. MemberOf(p) \in recorded' /\ recorded' = recorded \union {MemberOf(p)}
    BY <1>2 DEF AddMember
  <2>5. MemberOf(p).at <= now
    BY DEF MemberOf, IInv, Clocks
  <2>6. Shared!Admit
    BY <1>2, <2>3, <2>4, <2>5 DEF Shared!Admit
  <2> QED BY <2>6
<1>3. CASE UNCHANGED <<now, recorded>>
  BY <1>3
<1> QED
  BY <1>1, <1>2, <1>3 DEF Next, vars, Begin, Check, Add, RedisError, AllowInMemory

\* The replicas on Redis, with their two round trips, stalls and errors,
\* implement one sliding window whose budget is Limit + replicas - 1.
THEOREM LimiterImplementsWindow == Spec => SharedWindow
<1>1. IInv /\ IInv' /\ [Next]_vars => [Shared!Next]_<<now, recorded>>
  BY SharedStep
<1> QED BY <1>1, SharedInit, LimiterInvariant, PTL DEF Spec, SharedWindow, Shared!Spec

----------------------------------------------------------------------------
\* What an in-memory replica granted within its window is in its deque, which
\* never holds more than Limit entries.
Buckets ==
    \A p \in memory :
        /\ \A m \in GrantedBy(p) : m.at <= now
        /\ \A m \in GrantedBy(p) : now - m.at <= Window => m \in bucket[p]
        /\ IsFiniteSet(bucket[p])
        /\ Cardinality(bucket[p]) <= Limit

\* An in-memory replica has granted nothing at first.
LEMMA InitBuckets == Init => Buckets
  BY LimiterAssumption, FS_EmptySet DEF Init, Buckets, GrantedBy

\* One request of an in-memory replica: the deque is pruned to the window, and
\* grows only below the limit.
LEMMA MemoryStep ==
    ASSUME IInv, Buckets, NEW p \in Replicas, AllowInMemory(p)
    PROVE  /\ IsFiniteSet(bucket'[p])
           /\ Cardinality(bucket'[p]) <= Limit
           /\ \/ GrantedBy(p)' = GrantedBy(p)
              \/ \E m : m.at = now /\ m \in bucket'[p] /\ GrantedBy(p)' = GrantedBy(p) \union {m}
           /\ \A m \in GrantedBy(p) : now - m.at <= Window => m \in bucket'[p]
           /\ \A q \in Replicas \ {p} : bucket'[q] = bucket[q] /\ GrantedBy(q)' = GrantedBy(q)
<1> USE LimiterAssumption DEF IInv, TypeOK
<1> DEFINE n == [replica |-> p, seq |-> seq[p] + 1, at |-> now]
<1>1. /\ IsFiniteSet(bucket[p]) /\ Cardinality(bucket[p]) <= Limit
      /\ \A m \in GrantedBy(p) : now - m.at <= Window => m \in bucket[p]
  BY DEF Buckets, AllowInMemory
<1>2. /\ IsFiniteSet(Pruned(p)) /\ Cardinality(Pruned(p)) \in Nat
      /\ Cardinality(bucket[p]) \in Nat
      /\ Cardinality(Pruned(p)) <= Cardinality(bucket[p])
  BY <1>1, FS_Subset, FS_CardinalityType DEF Pruned
<1>3. \A m \in GrantedBy(p) : now - m.at <= Window => m \in Pruned(p)
  BY <1>1 DEF Pruned
<1>4. CASE Cardinality(Pruned(p)) >= Limit
  <2>1. bucket'[p] = Pruned(p) /\ granted' = granted
    BY <1>4 DEF AllowInMemory
  <2>2. \A q \in Replicas \ {p} : bucket'[q] = bucket[q]
    BY DEF AllowInMemory
  <2> QED BY <1>1, <1>2, <1>3, <2>1, <2>2 DEF GrantedBy
<1>5. CASE ~(Cardinality(Pruned(p)) >= Limit)
  <2>1. bucket'[p] = Pruned(p) \union {n} /\ granted' = granted \union {n}
    BY <1>5 DEF AllowInMemory
  <2>2. \A q \in Replicas \ {p} : bucket'[q] = bucket[q]
    BY DEF AllowInMemory
  <2>3. IsFiniteSet(bucket'[p]) /\ Cardinality(bucket'[p]) <= Cardinality(Pruned(p)) + 1
    <3> HIDE DEF n
    <3> DEFINE P == Pruned(p)
    <3>1. /\ IsFiniteSet(P \union {n})
          /\ Cardinality(P \union {n}) =
               IF n \in P THEN Cardinality(P) ELSE Cardinality(P) + 1
      <4>1. IsFiniteSet(P)
        BY <1>2
      <4> HIDE DEF P
      <4> QED BY <4>1, FS_AddElement
    <3>2. bucket'[p] = P \union {n} /\ Cardinality(P) \in Nat
      BY <1>2, <2>1
    <3> HIDE DEF P
    <3>3. IsFiniteSet(bucket'[p]) /\ Cardinality(bucket'[p]) <= Cardinality(P) + 1
      BY <3>1, <3>2
    <3> QED BY <3>3 DEF P
  <2>4. Cardinality(bucket'[p]) \in Nat
    BY <2>3, FS_CardinalityType
  <2>5. GrantedBy(p)' = GrantedBy(p) \union {n} /\ n.at = now /\ n \in bucket'[p]
    BY <2>1 DEF GrantedBy
  <2>6. \A q \in Replicas \ {p} : GrantedBy(q)' = GrantedBy(q)
    BY <2>1 DEF GrantedBy
  <2> QED BY <1>2, <1>3, <1>5, <2>1, <2>2, <2>3, <2>4, <2>5, <2>6
<1> QED BY <1>4, <1>5

\* Requests of a replica on Redis leave what others granted alone, and time
\* only takes requests out of a window.
LEMMA StepBuckets ==
    ASSUME IInv, Buckets, [Next]_vars
    PROVE  Buckets'
<1> USE LimiterAssumption DEF IInv, TypeOK
<1>1. ASSUME now' \in {now, now + 1}, memory' = memory, bucket' = bucket,
             \A q \in memory : GrantedBy(q)' = GrantedBy(q)
      PROVE  Buckets'
  <2>1. ASSUME NEW q \in memory
        PROVE  /\ \A m \in GrantedBy(q) : m.at <= now'
               /\ \A m \in GrantedBy(q) : now' - m.at <= Window => m \in bucket[q]
    <3>1. \A m \in GrantedBy(q) : m.at \in Nat
      BY DEF GrantedBy, Member
    <3> QED BY <1>1, <3>1 DEF Buckets
  <2> QED BY <1>1, <2>1 DEF Buckets
<1>2. ASSUME NEW p \in Replicas, AllowInMemory(p)
      PROVE  Buckets'
  <2>1. now' = now /\ memory' = memory /\ p \in memory
    BY <1>2 DEF AllowInMemory
  <2> DEFINE Kept(q) ==
        /\ \A m \in GrantedBy(q)' : m.at <= now
        /\ \A m \in GrantedBy(q)' : now - m.at <= Window => m \in bucket'[q]
        /\ IsFiniteSet(bucket'[q])
        /\ Cardinality(bucket'[q]) <= Limit
  <2>2. Kept(p)
    <3>1. \A m \in GrantedBy(p) : m.at <= now
      BY <2>1 DEF Buckets
    <3> QED BY <1>2, <3>1, MemoryStep
  <2>3. \A q \in memory \ {p} : Kept(q)
    BY <1>2, MemoryStep DEF Buckets
  <2> QED BY <2>1, <2>2, <2>3 DEF Buckets
<1>3. ASSUME NEW p \in Replicas, Check(p) \/ Begin(p) \/ Add(p) \/ RedisError(p)
      PROVE  Buckets'
  <2>1. /\ now' = now /\ memory' = memory /\ bucket' = bucket
        /\ granted' = granted \/ (p \notin memory /\ granted' = granted \union {MemberOf(p)})
    BY <1>3 DEF Check, Begin, Add, RedisError, OnRedisError, Grant, MemoryAtomic
  <2> QED BY <1>1, <2>1 DEF GrantedBy, MemberOf
<1>4. CASE Tick
  BY <1>1, <1>4 DEF Tick, GrantedBy
<1>5. CASE UNCHANGED vars
  BY <1>1, <1>5 DEF vars, GrantedBy
<1> QED BY <1>2, <1>3, <1>4, <1>5 DEF Next

\* Every step is, for each in-memory replica, one of its own abstract window.
LEMMA OwnStep ==
    ASSUME IInv, Buckets, Buckets', [Next]_vars, NEW p \in memory
    PROVE  [Own(p)!Next]_<<now, GrantedBy(p)>>
<1> USE LimiterAssumption DEF IInv, TypeOK, Own!Next
<1>1. CASE Tick
  BY <1>1 DEF Tick, Own!Tick, GrantedBy
<1>2. CASE AllowInMemory(p)
  <2>1. CASE GrantedBy(p)' = GrantedBy(p)
    BY <1>2, <2>1 DEF AllowInMemory
  <2>2. ASSUME NEW m, m.at = now, m \in bucket'[p],
               GrantedBy(p)' = GrantedBy(p) \union {m}
        PROVE  Own(p)!Admit
    <3>1. now' = now /\ p \in memory'
      BY <1>2 DEF AllowInMemory
    <3>2. Own(p)!Recent(now)' \subseteq bucket'[p]
      <4>1. \A g \in GrantedBy(p)' : g.at \in Nat
        BY StepHistory DEF GrantedBy, Member
      <4> QED BY <3>1, <4>1 DEF Own!Recent, Buckets
    <3>3. Cardinality(Own(p)!Recent(now)') <= Limit
      <4>1. /\ IsFiniteSet(bucket'[p]) /\ Cardinality(bucket'[p]) <= Limit
        BY <3>1 DEF Buckets
      <4> QED BY <3>2, <4>1, FS_Subset, FS_CardinalityType
    <3>4. \A S : Own(p)!Cardinality(S) = Cardinality(S)
      BY DEF Cardinality, Own!Cardinality
    <3> QED BY <2>2, <3>1, <3>3, <3>4 DEF Own!Admit
  <2> QED BY <1>2, <2>1, <2>2, MemoryStep
<1>3. ASSUME NEW q \in Replicas, Check(q) \/ Begin(q) \/ Add(q) \/ RedisError(q)
      PROVE  UNCHANGED <<now, GrantedBy(p)>>
  <2>1. /\ now' = now
        /\ granted' = granted \/ (q \notin memory /\ granted' = granted \union {MemberOf(q)})
    BY <1>3 DEF Check, Begin, Add, RedisError, OnRedisError, Grant, MemoryAtomic
  <2> QED BY <2>1 DEF GrantedBy, MemberOf
<1>4. ASSUME NEW q \in Replicas \ {p}, AllowInMemory(q)
      PROVE  UNCHANGED <<now, GrantedBy(p)>>
  BY <1>4, MemoryStep DEF AllowInMemory
<1>5. CASE UNCHANGED vars
  BY <1>5 DEF vars, GrantedBy
<1> QED BY <1>1, <1>2, <1>3, <1>4, <1>5 DEF Next

\* A replica with the in-memory limiter implements a sliding window of its own
\* whose budget is exactly Limit.
THEOREM MemoryImplementsWindow == Spec => OwnWindows
<1>1. Init => \A p \in memory : Own(p)!Init
  BY DEF Init, Own!Init, GrantedBy
<1>2. IInv /\ Buckets /\ [Next]_vars => Buckets'
  BY StepBuckets
<1>3. IInv /\ Buckets /\ Buckets' /\ [Next]_vars =>
        [\A p \in memory : [Own(p)!Next]_<<now, GrantedBy(p)>>]_vars
  BY OwnStep
<1> QED BY <1>1, <1>2, <1>3, InitBuckets, LimiterInvariant, PTL DEF Spec, OwnWindows
=============================================================================
