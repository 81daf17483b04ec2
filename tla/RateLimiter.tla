---------------------------- MODULE RateLimiter ----------------------------
(***************************************************************************)
(* The Redis-backed sliding-window limiter (apps/api/rate_limit.py) as the *)
(* rate-limit middleware drives it: several API replicas share one sorted  *)
(* set per client.  A replica runs the limiter on its event loop, so it    *)
(* has one request in the limiter at a time; but a request reads the       *)
(* clock, then runs a MULTI pipeline that prunes and counts, then a second *)
(* one that adds, and the replicas interleave between these steps.         *)
(* Outside production a replica may use the in-memory limiter instead: a   *)
(* deque of its own, handled in one step of the event loop.                *)
(*                                                                         *)
(* The model follows one client key.  Keys share nothing.                  *)
(***************************************************************************)
EXTENDS Integers, FiniteSets

CONSTANTS
    Replicas,     \* the API processes
    Limit,        \* rate_limit_requests
    Window,       \* rate_limit_window_seconds
    FailOpen,     \* the replicas that fail open: not settings.is_production
    MaxTime,      \* bound: the clock stops there
    MaxRequests   \* bound: requests per replica

ASSUME LimiterAssumption ==
    /\ IsFiniteSet(Replicas) /\ Replicas # {}
    /\ Limit \in Nat \ {0}
    /\ Window \in Nat \ {0}
    /\ FailOpen \subseteq Replicas
    /\ MaxTime \in Nat
    /\ MaxRequests \in Nat

VARIABLES
    memory,     \* the replicas for which build_rate_limiter made the in-memory
                \* limiter, by setting or as the fallback; not in production
    now,        \* seconds: time.time() and the clock of Redis
    zset,       \* the sorted set: members with their score
    expireAt,   \* when the key expires
    bucket,     \* bucket[p]: the deque of p's in-memory limiter
    pc,         \* pc[p]: where replica p is in allow(), or what the middleware
                \* answered: the route's response, 429 or 503
    stamp,      \* stamp[p]: the time _allow read
    seq,        \* seq[p]: the requests p has begun; with p it makes the member
    recorded,   \* history: every member ever added
    granted     \* history: the requests that were let through

vars == <<memory, now, zset, expireAt, bucket, pc, stamp, seq, recorded, granted>>

Member == [replica : Replicas, seq : 0 .. MaxRequests, at : 0 .. MaxTime]

\* member = f"{now}:{uuid}", scored with now
MemberOf(p) == [replica |-> p, seq |-> seq[p], at |-> stamp[p]]

\* Mutant: prunes a second too much.
InWindowShort(M, t) == {m \in M : m.at > t - Window + 1}

InWindow(M, t) == {m \in M : m.at > t - Window}

Init ==
    /\ memory \in SUBSET FailOpen
    /\ now = 0
    /\ zset = {}
    /\ expireAt = 0
    /\ bucket = [p \in Replicas |-> {}]
    /\ pc = [p \in Replicas |-> "idle"]
    /\ stamp = [p \in Replicas |-> 0]
    /\ seq = [p \in Replicas |-> 0]
    /\ recorded = {}
    /\ granted = {}

\* Time passes (external); Redis drops a key whose TTL has run out.
Tick ==
    /\ now < MaxTime
    /\ now' = now + 1
    /\ zset' = IF now' >= expireAt THEN {} ELSE zset
    /\ UNCHANGED <<memory, expireAt, bucket, pc, stamp, seq, recorded, granted>>

\* A request enters allow(): the clock is read once, here.
Begin(p) ==
    /\ p \notin memory
    /\ pc[p] \notin {"check", "add"}
    /\ seq[p] < MaxRequests
    /\ stamp' = [stamp EXCEPT ![p] = now]
    /\ seq' = [seq EXCEPT ![p] = @ + 1]
    /\ pc' = [pc EXCEPT ![p] = "check"]
    /\ UNCHANGED <<memory, now, zset, expireAt, bucket, recorded, granted>>

\* Mutant: off by one, the limit itself still passes.
CheckAbove(p) ==
    /\ pc[p] = "check"
    /\ zset' = InWindow(zset, stamp[p])
    /\ pc' = [pc EXCEPT ![p] = IF Cardinality(zset') > Limit
                               THEN "denied" ELSE "add"]
    /\ UNCHANGED <<memory, now, expireAt, bucket, stamp, seq, recorded, granted>>

\* Mutant: counts without pruning.
CheckUnpruned(p) ==
    /\ pc[p] = "check"
    /\ pc' = [pc EXCEPT ![p] = IF Cardinality(zset) >= Limit
                               THEN "denied" ELSE "add"]
    /\ UNCHANGED <<memory, now, zset, expireAt, bucket, stamp, seq, recorded, granted>>

\* First pipeline: ZREMRANGEBYSCORE 0 window_start, ZCARD; 429 at the limit.
Check(p) ==
    /\ pc[p] = "check"
    /\ zset' = InWindow(zset, stamp[p])
    /\ pc' = [pc EXCEPT ![p] = IF Cardinality(zset') >= Limit
                               THEN "denied" ELSE "add"]
    /\ UNCHANGED <<memory, now, expireAt, bucket, stamp, seq, recorded, granted>>

\* Mutant: EXPIRE only on a key that has no TTL.
AddMemberKeepTtl(p) ==
    /\ zset' = zset \union {MemberOf(p)}
    /\ recorded' = recorded \union {MemberOf(p)}
    /\ expireAt' = IF zset = {} THEN now + Window + 1 ELSE expireAt

\* The effect of the second pipeline: ZADD, EXPIRE window + 1.
AddMember(p) ==
    /\ zset' = zset \union {MemberOf(p)}
    /\ recorded' = recorded \union {MemberOf(p)}
    /\ expireAt' = now + Window + 1

Grant(p) ==
    /\ pc' = [pc EXCEPT ![p] = "granted"]
    /\ granted' = granted \union {MemberOf(p)}

Add(p) ==
    /\ pc[p] = "add"
    /\ AddMember(p)
    /\ Grant(p)
    /\ UNCHANGED <<memory, now, bucket, stamp, seq>>

\* allow()'s except: open lets the request pass, closed is a 503.
OnRedisError(p) ==
    IF p \in FailOpen THEN Grant(p)
    ELSE pc' = [pc EXCEPT ![p] = "unavailable"] /\ UNCHANGED granted

\* A pipeline fails before Redis ran it, or after and the reply is lost.
RedisError(p) ==
    /\ \/ pc[p] \in {"check", "add"} /\ UNCHANGED <<zset, recorded, expireAt>>
       \/ pc[p] = "check" /\ zset' = InWindow(zset, stamp[p])
                          /\ UNCHANGED <<recorded, expireAt>>
       \/ pc[p] = "add" /\ AddMember(p)
    /\ OnRedisError(p)
    /\ UNCHANGED <<memory, now, bucket, stamp, seq>>

\* Mutant: drops the entries that are exactly a window old too early.
PrunedHalf(p) == {m \in bucket[p] : now - m.at < Window}

\* while now - bucket[0] > window: the deque is in order of time.
Pruned(p) == {m \in bucket[p] : now - m.at <= Window}

\* InMemoryRateLimiter.allow: one step, for it never leaves the event loop.
AllowInMemory(p) ==
    LET m == [replica |-> p, seq |-> seq[p] + 1, at |-> now]
        full == Cardinality(Pruned(p)) >= Limit
    IN  /\ p \in memory
        /\ seq[p] < MaxRequests
        /\ seq' = [seq EXCEPT ![p] = @ + 1]
        /\ bucket' = [bucket EXCEPT
                        ![p] = IF full THEN Pruned(p) ELSE Pruned(p) \union {m}]
        /\ pc' = [pc EXCEPT ![p] = IF full THEN "denied" ELSE "granted"]
        /\ granted' = IF full THEN granted ELSE granted \union {m}
        /\ UNCHANGED <<memory, now, zset, expireAt, stamp, recorded>>

Next ==
    \/ Tick
    \/ \E p \in Replicas :
         Begin(p) \/ Check(p) \/ Add(p) \/ RedisError(p) \/ AllowInMemory(p)

Spec == Init /\ [][Next]_vars

----------------------------------------------------------------------------
TypeOK ==
    /\ memory \in SUBSET FailOpen
    /\ now \in 0 .. MaxTime
    /\ zset \in SUBSET Member
    /\ expireAt \in Nat
    /\ bucket \in [Replicas -> SUBSET Member]
    /\ pc \in [Replicas ->
                {"idle", "check", "add", "denied", "granted", "unavailable"}]
    /\ stamp \in [Replicas -> 0 .. MaxTime]
    /\ seq \in [Replicas -> 0 .. MaxRequests]
    /\ recorded \in SUBSET Member
    /\ granted \in SUBSET Member

\* The replicas check and add in two round trips, so together they can pass
\* the limit, but by one request per other replica and no more: with requests
\* that stall between clock, check and add, at most Limit + replicas - 1
\* recorded requests lie in any window, and every request that a replica
\* failing closed let through is one of them.  (One failing open grants
\* without recording.)
Bound == Limit + Cardinality(Replicas) - 1

GrantedClosed == {m \in InWindow(granted, now) : m.replica \notin FailOpen}

GrantedWithinBound ==
    /\ GrantedClosed \subseteq InWindow(recorded, now)
    /\ Cardinality(InWindow(recorded, now)) <= Bound

\* Neither a prune by a replica with an older clock reading nor the expiry of
\* the key loses a request that is still in the window.
WindowKept == InWindow(recorded, now) \subseteq zset

\* The refinement.  The replicas on Redis together are one sliding window with
\* the budget Bound, whatever happens between their round trips; a replica in
\* memory is one by itself, with the budget Limit over a window that includes
\* its far end.  So n of them let n * Limit requests through.
GrantedBy(p) == {m \in granted : m.replica = p}

Shared == INSTANCE SlidingWindow WITH
    Budget <- Bound, Span <- Window, admitted <- recorded

Own(p) == INSTANCE SlidingWindow WITH
    Budget <- Limit, Span <- Window + 1, admitted <- GrantedBy(p)

SharedWindow == Shared!Spec

OwnWindows ==
    /\ \A p \in memory : Own(p)!Init
    /\ [][\A p \in memory : [Own(p)!Next]_<<now, GrantedBy(p)>>]_vars

\* A 429 is earned: at least Limit recorded requests lie in the window of the
\* refused one.  A request that was refused is never counted.
DenialsEarned ==
    [][\A p \in Replicas :
         pc[p] = "check" /\ pc'[p] = "denied" =>
            Cardinality(InWindow(recorded, stamp[p])) >= Limit]_vars
=============================================================================
