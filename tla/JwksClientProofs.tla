-------------------------- MODULE JwksClientProofs --------------------------
(***************************************************************************)
(* How old the keys can be that a JWKS client judges a token by, for any   *)
(* number of threads and keys, any TTL, and refreshes of any bounded       *)
(* length.                                                                 *)
(*                                                                         *)
(* Held(S, x) says that at x or later the provider published every key of  *)
(* S, and at x or later it lacked every other.  Of the set of a client x   *)
(* is fetchedAt less two refreshes: another refresh that overlapped the    *)
(* one that stamped it may have installed an older answer.  Sets says this *)
(* of the clients, Installed of the refreshes that have yet to stamp,      *)
(* Judged of the calls that have decided to use the set, Cached of the     *)
(* entries made from it.  Own is about the clients that serve one call.    *)
(***************************************************************************)
EXTENDS JwksClient, TLAPS

Held(S, x) ==
    \A k \in Kids : IF k \in S THEN LastPublished(k) >= x ELSE LastAbsent(k) >= x

\* Nothing is dated after now, and a refresh is not older than MaxFetch.
Clocks ==
    /\ \A k \in Kids : changedAt[k] <= now
    /\ \A c \in Clients : fetchedAt[c] <= now
    /\ \A t \in Threads : stamp[t] <= now
    /\ \A t \in Threads : pc[t] \in Refreshing =>
          stamp[t] <= sentAt[t] /\ sentAt[t] <= now /\ now <= sentAt[t] + MaxFetch

\* A call that runs is about a key.
KidsKnown == \A t \in Threads : pc[t] \in Calling => kid[t] \in Kids

\* An answer of the provider is a set that it has published since the refresh began.
Payloads ==
    \A t \in Threads : pc[t] = "install" => payload[t] # {} /\ Held(payload[t], sentAt[t])

Sets == \A c \in Clients : keys[c] # {} => Held(keys[c], fetchedAt[c] - 2 * MaxFetch)

Installed ==
    \A t \in Threads : pc[t] \in {"clear", "stamp"} =>
       keys[ClientOf(t)] # {} /\ Held(keys[ClientOf(t)], sentAt[t] - MaxFetch)

Judged ==
    \A t \in Threads : pc[t] \in {"find", "read"} =>
       keys[ClientOf(t)] # {} /\ Held(keys[ClientOf(t)], stamp[t] - SetAge)

Stored == \A t \in Threads : pc[t] = "store" => LastPublished(kid[t]) >= stamp[t] - SetAge

Cached ==
    \A c \in Clients, k \in Kids :
       cache[c][k] # None => LastPublished(k) >= cache[c][k] - Ttl - SetAge

\* A client of one call knows nothing before its refresh, and then what was
\* published while the call ran.
Own ==
    perRequest => \A t \in Threads :
       /\ cache[t] = [k \in Kids |-> None]
       /\ pc[t] \notin {"clear", "stamp", "find", "read", "store"} => keys[t] = {}
       /\ pc[t] \in {"clear", "stamp"} => Held(keys[t], sentAt[t])
       /\ pc[t] \in {"find", "read"} => Held(keys[t], stamp[t])
       /\ pc[t] = "read" => kid[t] \in keys[t]
       /\ pc[t] = "store" => LastPublished(kid[t]) >= stamp[t]

IInv ==
    /\ TypeOK /\ Clocks /\ KidsKnown /\ Payloads
    /\ Sets /\ Installed /\ Judged /\ Stored /\ Cached /\ Own

----------------------------------------------------------------------------
\* The calls of a thread, begun or under way.
CallStep(t) == Step(t) \/ \E k \in Kids \union {NoKid} : Begin(t, k)

\* A fresh client knows nothing.
LEMMA InitInv == Init => IInv
<1> SUFFICES ASSUME Init PROVE IInv
  OBVIOUS
<1> USE JwksAssumption DEF Init
<1>1. TypeOK
  BY DEF TypeOK, Never, None, Clients
<1>2. Clocks /\ KidsKnown /\ Payloads /\ Sets /\ Installed /\ Judged /\ Stored /\ Cached
  BY DEF Clocks, KidsKnown, Payloads, Sets, Installed, Judged, Stored, Cached, Never,
         Calling, Refreshing
<1>3. Own
  BY DEF Own, Clients
<1> QED BY <1>1, <1>2, <1>3 DEF IInv

\* The steps of a call change neither the clock nor the provider.
LEMMA CallIsQuiet ==
    ASSUME NEW t \in Threads, CallStep(t)
    PROVE  UNCHANGED <<perRequest, now, published, changedAt>>
  BY DEF CallStep, Step, Begin, CacheLookup, Decide, Fetch, FetchFails, Install, Clear, Stamp,
         Find, Read, Store, idp

\* A call ends: its locals are typed, and it neither refreshes nor judges.
LEMMA EndTypes ==
    ASSUME TypeOK, NEW t \in Threads, NEW o \in Outcomes, End(t, o)
    PROVE  /\ pc' \in [Threads -> {"idle"} \union Calling \union Outcomes]
           /\ kid' \in [Threads -> Kids \union {NoKid}]
           /\ stamp' \in [Threads -> 0 .. MaxTime]
           /\ payload' \in [Threads -> SUBSET Kids]
           /\ sentAt' \in [Threads -> 0 .. MaxTime]
  BY JwksAssumption DEF TypeOK, End, Goto

\* A client that is dropped is as it was made, any other is left alone.
LEMMA DropTypes ==
    ASSUME TypeOK, NEW t \in Threads, DropClient(t)
    PROVE  /\ keys' \in [Clients -> SUBSET Kids]
           /\ cache' \in [Clients -> [Kids -> {None} \union 0 .. MaxTime + Ttl]]
           /\ fetchedAt' \in [Clients -> 0 .. MaxTime]
<1>1. CASE ~perRequest
  BY <1>1 DEF TypeOK, DropClient, client
<1>2. CASE perRequest
  <2> DEFINE empty == [k \in Kids |-> None]
  <2>1. t \in Clients /\ empty \in [Kids -> {None} \union 0 .. MaxTime + Ttl]
    BY DEF Clients
  <2>2. /\ keys' = [keys EXCEPT ![t] = {}]
        /\ cache' = [cache EXCEPT ![t] = empty]
        /\ fetchedAt' = [fetchedAt EXCEPT ![t] = 0]
    BY <1>2 DEF DropClient
  <2> HIDE DEF empty
  <2>3. keys' \in [Clients -> SUBSET Kids]
    <3>1. keys \in [Clients -> SUBSET Kids] /\ {} \in SUBSET Kids
      BY DEF TypeOK
    <3> QED BY <2>2, <3>1
  <2>5. fetchedAt' \in [Clients -> 0 .. MaxTime]
    <3>1. fetchedAt \in [Clients -> 0 .. MaxTime] /\ 0 \in 0 .. MaxTime
      BY JwksAssumption DEF TypeOK
    <3> QED BY <2>2, <3>1
  <2>4. cache' \in [Clients -> [Kids -> {None} \union 0 .. MaxTime + Ttl]]
    BY <2>1, <2>2 DEF TypeOK
  <2> QED BY <2>3, <2>4, <2>5
<1> QED BY <1>1, <1>2

\* Types survive every step.
LEMMA StepTypes ==
    ASSUME TypeOK, KidsKnown, [Next]_vars
    PROVE  TypeOK'
<1> USE JwksAssumption DEF TypeOK, idp, client, locals
<1>1. CASE UNCHANGED vars
  BY <1>1 DEF vars
<1>2. CASE Tick
  BY <1>2 DEF Tick
<1>3. ASSUME NEW new \in SUBSET Kids, Rotate(new) PROVE TypeOK'
  BY <1>3 DEF Rotate
<1>4. ASSUME NEW t \in Threads, NEW k \in Kids \union {NoKid}, Begin(t, k) PROVE TypeOK'
  <2>1. CASE k = NoKid
    <3>1. /\ End(t, "missing_kid") /\ calls' \in 0 .. MaxCalls
          /\ UNCHANGED <<perRequest, now, idp, client>>
      BY <1>4, <2>1 DEF Begin
    <3> QED BY <3>1, EndTypes DEF Outcomes
  <2>2. CASE k # NoKid
    <3>1. /\ kid' = [kid EXCEPT ![t] = k] /\ stamp' = [stamp EXCEPT ![t] = now]
          /\ pc' = [pc EXCEPT ![t] = "cache"] /\ calls' \in 0 .. MaxCalls
          /\ UNCHANGED <<perRequest, now, idp, client, payload, sentAt>>
      BY <1>4, <2>2 DEF Begin, Goto
    <3> QED BY <3>1 DEF Calling
  <2> QED BY <2>1, <2>2
<1>5. ASSUME NEW t \in Threads, NEW o \in Outcomes, End(t, o), DropClient(t),
             UNCHANGED <<perRequest, now, idp, calls>>
      PROVE  TypeOK'
  BY <1>5, EndTypes, DropTypes
<1>6. ASSUME NEW t \in Threads, CacheLookup(t) PROVE TypeOK'
  <2>1. CASE End(t, "key") /\ DropClient(t)
    BY <1>5, <1>6, <2>1 DEF CacheLookup, Outcomes
  <2>2. CASE Goto(t, "decide") /\ UNCHANGED <<client, locals>>
    BY <1>6, <2>2 DEF CacheLookup, Goto, Calling
  <2> QED BY <1>6, <2>1, <2>2 DEF CacheLookup
<1>7. ASSUME NEW t \in Threads, Decide(t) PROVE TypeOK'
  BY <1>7 DEF Decide, Goto, Calling, Refreshing
<1>8. ASSUME NEW t \in Threads, Fetch(t) PROVE TypeOK'
  BY <1>8 DEF Fetch, Goto, Calling, Refreshing
<1>9. ASSUME NEW t \in Threads, FetchFails(t) PROVE TypeOK'
  BY <1>5, <1>9 DEF FetchFails, Outcomes
<1>10. ASSUME NEW t \in Threads, Install(t) PROVE TypeOK'
  BY <1>10 DEF Install, Goto, Calling, Refreshing, ClientOf, Clients
<1>11. ASSUME NEW t \in Threads, Clear(t) PROVE TypeOK'
  BY <1>11 DEF Clear, Goto, Calling, Refreshing, ClientOf, Clients
<1>12. ASSUME NEW t \in Threads, Stamp(t) PROVE TypeOK'
  BY <1>12 DEF Stamp, Goto, Calling, Refreshing, ClientOf, Clients
<1>13. ASSUME NEW t \in Threads, Find(t) PROVE TypeOK'
  <2>1. CASE End(t, "unknown_kid") /\ DropClient(t)
    BY <1>5, <1>13, <2>1 DEF Find, Outcomes
  <2>2. CASE Goto(t, "read") /\ UNCHANGED <<client, locals>>
    BY <1>13, <2>2 DEF Find, Goto, Calling
  <2> QED BY <1>13, <2>1, <2>2 DEF Find
<1>14. ASSUME NEW t \in Threads, Read(t) PROVE TypeOK'
  <2>1. CASE End(t, "key_error") /\ DropClient(t)
    BY <1>5, <1>14, <2>1 DEF Read, Outcomes
  <2>2. CASE Goto(t, "store") /\ UNCHANGED <<client, locals>>
    BY <1>14, <2>2 DEF Read, Goto, Calling
  <2> QED BY <1>14, <2>1, <2>2 DEF Read
<1>15. ASSUME NEW t \in Threads, kid[t] \in Kids, Store(t) PROVE TypeOK'
  <2>1. CASE perRequest
    BY <1>5, <1>15, <2>1 DEF Store, Outcomes
  <2>2. CASE ~perRequest
    <3>1. /\ cache' = [cache EXCEPT !["shared"][kid[t]] = Expiry(t)]
          /\ UNCHANGED <<keys, fetchedAt, perRequest, now, idp, calls>>
      BY <1>15, <2>2 DEF Store
    <3>2. Expiry(t) \in 0 .. MaxTime + Ttl
      BY DEF Expiry
    <3>3. cache' \in [Clients -> [Kids -> {None} \union 0 .. MaxTime + Ttl]]
      BY <3>1, <3>2 DEF Clients
    <3> QED BY <1>15, <3>1, <3>3, EndTypes DEF Store, Outcomes
  <2> QED BY <2>1, <2>2
<1> QED
  BY <1>1, <1>2, <1>3, <1>4, <1>6, <1>7, <1>8, <1>9, <1>10, <1>11, <1>12, <1>13, <1>14, <1>15
     DEF Next, Step, KidsKnown, Calling, Store

\* The clock of what was last published or absent only goes forward.
LEMMA HeldGrows ==
    ASSUME TypeOK, Clocks, [Next]_vars
    PROVE  \A k \in Kids : /\ LastPublished(k) \in Int /\ LastPublished(k)' \in Int
                           /\ LastPublished(k)' >= LastPublished(k)
                           /\ LastAbsent(k) \in Int /\ LastAbsent(k)' \in Int
                           /\ LastAbsent(k)' >= LastAbsent(k)
<1> DEFINE Goal ==
       \A k \in Kids : /\ LastPublished(k) \in Int /\ LastPublished(k)' \in Int
                       /\ LastPublished(k)' >= LastPublished(k)
                       /\ LastAbsent(k) \in Int /\ LastAbsent(k)' \in Int
                       /\ LastAbsent(k)' >= LastAbsent(k)
<1> USE DEF LastPublished, LastAbsent
<1>1. /\ \A k \in Kids : changedAt[k] \in Int /\ changedAt[k] <= now
      /\ now \in Int
  BY JwksAssumption DEF TypeOK, Clocks, Never
<1>2. CASE UNCHANGED <<now, published, changedAt>>
  BY <1>1, <1>2
<1>3. CASE Tick
  BY <1>1, <1>3 DEF Tick, idp
<1>4. ASSUME NEW new \in SUBSET Kids, Rotate(new) PROVE Goal
  BY <1>1, <1>4 DEF Rotate
<1> QED BY <1>2, <1>3, <1>4, CallIsQuiet DEF Next, CallStep, vars, idp

\* Time and rotations do not undo Held.
LEMMA HeldStays ==
    ASSUME TypeOK, Clocks, [Next]_vars
    PROVE  \A S \in SUBSET Kids, x \in Int : Held(S, x) => Held(S, x)'
  BY HeldGrows DEF Held

\* What held at x or later held at any earlier time or later.
LEMMA HeldSince ==
    ASSUME TypeOK, NEW S, NEW x \in Int, NEW y \in Int, y <= x, Held(S, x)
    PROVE  Held(S, y)
<1>1. \A k \in Kids : LastPublished(k) \in Int /\ LastAbsent(k) \in Int
  BY JwksAssumption DEF TypeOK, LastPublished, LastAbsent, Never
<1> HIDE DEF LastPublished, LastAbsent
<1> QED BY <1>1 DEF Held

\* What a step of a call does to the clients.
ClientEffect(t) ==
    /\ \A c \in Clients :
          \/ keys'[c] = keys[c]
          \/ pc[t] = "install" /\ pc'[t] = "clear" /\ c = ClientOf(t) /\ keys'[c] = payload[t]
          \/ perRequest /\ c = t /\ keys'[c] = {} /\ pc'[t] \in Outcomes
    /\ \A c \in Clients :
          \/ fetchedAt'[c] = fetchedAt[c]
          \/ pc[t] = "stamp" /\ c = ClientOf(t) /\ fetchedAt'[c] = now /\ keys'[c] = keys[c]
          \/ fetchedAt'[c] = 0 /\ keys'[c] = {}
    /\ \A c \in Clients :
          \/ cache'[c] = cache[c]
          \/ cache'[c] = [k \in Kids |-> None]
          \/ /\ pc[t] = "store" /\ ~perRequest
             /\ cache'[c] = [cache[c] EXCEPT ![kid[t]] = stamp[t] + Ttl]
    /\ perRequest /\ pc'[t] \in Outcomes =>
          keys'[t] = {} \/ (pc[t] \notin Calling /\ keys'[t] = keys[t])

\* What it does to the calls.
CallEffect(t) ==
    /\ \A u \in Threads : u # t =>
          /\ pc'[u] = pc[u] /\ kid'[u] = kid[u] /\ stamp'[u] = stamp[u]
          /\ payload'[u] = payload[u] /\ sentAt'[u] = sentAt[u]
    /\ pc'[t] \in Calling =>
          IF pc'[t] = "cache" THEN kid'[t] \in Kids /\ stamp'[t] = now /\ pc[t] \notin Calling
          ELSE kid'[t] = kid[t] /\ stamp'[t] = stamp[t] /\ pc[t] \in Calling
    /\ pc'[t] \notin Calling => stamp'[t] \in {0, stamp[t]}
    /\ pc'[t] = "decide" => pc[t] = "cache"
    /\ pc'[t] = "fetch" => pc[t] = "decide" /\ sentAt'[t] = now
    /\ pc'[t] = "install" => /\ pc[t] = "fetch" /\ sentAt'[t] = sentAt[t]
                             /\ payload'[t] = published /\ published # {}
    /\ pc'[t] = "clear" => /\ pc[t] = "install" /\ sentAt'[t] = sentAt[t]
                           /\ keys'[ClientOf(t)] = payload[t]
    /\ pc'[t] = "stamp" => /\ pc[t] = "clear" /\ sentAt'[t] = sentAt[t]
                           /\ keys'[ClientOf(t)] = keys[ClientOf(t)]
    /\ pc'[t] = "find" => /\ keys'[ClientOf(t)] = keys[ClientOf(t)]
                          /\ pc[t] = "stamp" \/ (pc[t] = "decide" /\ ~NeedsRefresh(t))
    /\ pc'[t] = "read" => /\ pc[t] = "find" /\ kid[t] \in keys[ClientOf(t)]
                          /\ keys'[ClientOf(t)] = keys[ClientOf(t)]
    /\ pc'[t] = "store" => pc[t] = "read" /\ kid[t] \in keys[ClientOf(t)]

\* Every step of a call has these effects.
LEMMA Effects ==
    ASSUME TypeOK, NEW t \in Threads, CallStep(t)
    PROVE  ClientEffect(t) /\ CallEffect(t)
<1>0. ClientOf(t) \in Clients /\ t \in Clients
  BY DEF ClientOf, Clients
<1> USE DEF ClientEffect, CallEffect, TypeOK, Goto, client, locals, Calling, Refreshing, Outcomes
<1>1. ASSUME NEW o \in Outcomes, End(t, o), DropClient(t), pc[t] \in Calling
      PROVE  ClientEffect(t) /\ CallEffect(t)
  <2>1. CallEffect(t)
    BY <1>1 DEF End
  <2>2. ClientEffect(t)
    BY <1>0, <1>1 DEF End, DropClient, ClientOf
  <2> QED BY <2>1, <2>2
<1>2. ASSUME NEW k \in Kids \union {NoKid}, Begin(t, k)
      PROVE  ClientEffect(t) /\ CallEffect(t)
  BY <1>2 DEF Begin, End
<1>3. CASE CacheLookup(t)
  BY <1>1, <1>3 DEF CacheLookup
<1>4. CASE Decide(t)
  BY <1>4 DEF Decide
<1>5. CASE Fetch(t)
  BY <1>5 DEF Fetch
<1>6. CASE FetchFails(t)
  BY <1>1, <1>6 DEF FetchFails
<1>7. CASE Install(t)
  BY <1>0, <1>7 DEF Install
<1>8. CASE Clear(t)
  BY <1>0, <1>8 DEF Clear
<1>9. CASE Stamp(t)
  BY <1>0, <1>9 DEF Stamp
<1>10. CASE Find(t)
  BY <1>1, <1>10 DEF Find
<1>11. CASE Read(t)
  BY <1>1, <1>11 DEF Read
<1>12. CASE Store(t)
  <2>1. CASE perRequest
    BY <1>1, <1>12, <2>1 DEF Store
  <2>2. CASE ~perRequest
    BY <1>12, <2>2 DEF Store, End, Expiry
  <2> QED BY <2>1, <2>2
<1> QED BY <1>2, <1>3, <1>4, <1>5, <1>6, <1>7, <1>8, <1>9, <1>10, <1>11, <1>12
           DEF CallStep, Step

\* Times and kids of the calls are in order after every step.
LEMMA StepClocks ==
    ASSUME TypeOK, Clocks, KidsKnown, [Next]_vars
    PROVE  Clocks' /\ KidsKnown'
<1>0. /\ now \in Int /\ MaxFetch \in Nat /\ now >= 0
      /\ \A k \in Kids : changedAt[k] \in Int
      /\ \A t \in Threads : stamp[t] \in Int /\ sentAt[t] \in Int
      /\ \A c \in Clients : fetchedAt[c] \in Int
  BY JwksAssumption DEF TypeOK, Never
<1>1. CASE UNCHANGED vars
  BY <1>1 DEF Clocks, KidsKnown, vars, idp, client, locals
<1>2. CASE Tick
  BY <1>0, <1>2 DEF Tick, Clocks, KidsKnown, idp, client, locals
<1>3. ASSUME NEW new \in SUBSET Kids, Rotate(new) PROVE Clocks' /\ KidsKnown'
  BY <1>0, <1>3 DEF Rotate, Clocks, KidsKnown, client, locals
<1>4. ASSUME NEW t \in Threads, CallStep(t) PROVE Clocks' /\ KidsKnown'
  <2>0. /\ ClientEffect(t) /\ CallEffect(t)
        /\ UNCHANGED <<perRequest, now, published, changedAt>>
    BY <1>4, Effects, CallIsQuiet
  <2>1. \A c \in Clients : fetchedAt'[c] <= now
    BY <1>0, <2>0 DEF ClientEffect, Clocks
  <2>2. \A u \in Threads : stamp'[u] <= now
    BY <1>0, <2>0 DEF CallEffect, Clocks
  <2>3. \A u \in Threads : pc'[u] \in Refreshing =>
           stamp'[u] <= sentAt'[u] /\ sentAt'[u] <= now /\ now <= sentAt'[u] + MaxFetch
    BY <1>0, <2>0 DEF CallEffect, Clocks, Refreshing, Calling
  <2>4. KidsKnown'
    BY <2>0 DEF CallEffect, KidsKnown
  <2> QED BY <2>0, <2>1, <2>2, <2>3, <2>4 DEF Clocks
<1> QED BY <1>1, <1>2, <1>3, <1>4 DEF Next, CallStep

\* What the provider publishes holds now.
LEMMA PublishedHeld ==
    ASSUME TypeOK, Clocks, NEW x \in Int, x <= now
    PROVE  Held(published, x)
<1>1. now \in Int
  BY JwksAssumption DEF TypeOK
<1> QED BY <1>1 DEF Held, LastPublished, LastAbsent

\* The sets that clients and calls rely on survive time, rotations and all steps
\* of the call t.
LEMMA StepSets ==
    ASSUME TypeOK, Clocks, Payloads, Sets, Installed, Judged, [Next]_vars
    PROVE  Payloads' /\ Sets' /\ Installed' /\ Judged'
<1>0. /\ now \in Int /\ MaxFetch \in Nat /\ Ttl \in Nat
      /\ \A t \in Threads : /\ stamp[t] \in Int /\ sentAt[t] \in Int
                            /\ payload[t] \in SUBSET Kids
      /\ \A c \in Clients : fetchedAt[c] \in Int /\ keys[c] \in SUBSET Kids
      /\ SetAge \in Int
      /\ published \in SUBSET Kids
      /\ \A t \in Threads : ClientOf(t) \in Clients
  BY JwksAssumption DEF TypeOK, SetAge, ClientOf, Clients
<1>1. CASE UNCHANGED <<perRequest, keys, fetchedAt, pc, stamp, payload, sentAt>>
  <2>1. \A S \in SUBSET Kids, x \in Int : Held(S, x) => Held(S, x)'
    BY HeldStays
  <2> QED BY <1>0, <1>1, <2>1 DEF Payloads, Sets, Installed, Judged, ClientOf
<1>2. ASSUME NEW t \in Threads, CallStep(t)
      PROVE  Payloads' /\ Sets' /\ Installed' /\ Judged'
  <2>0. /\ ClientEffect(t) /\ CallEffect(t)
        /\ UNCHANGED <<perRequest, now, published, changedAt>>
    BY <1>2, Effects, CallIsQuiet
  <2>2. ASSUME pc[t] = "install"
        PROVE  /\ payload[t] # {} /\ sentAt[t] <= now /\ now <= sentAt[t] + MaxFetch
               /\ \A x \in Int : x <= sentAt[t] => Held(payload[t], x)
    BY <1>0, <2>2, HeldSince DEF Payloads, Clocks, Refreshing
  <2>3. Payloads'
    <3> SUFFICES ASSUME NEW u \in Threads, pc'[u] = "install"
                 PROVE  payload'[u] # {} /\ Held(payload[u], sentAt[u])'
      BY DEF Payloads
    <3>1. CASE u = t
      <4>1. /\ payload'[t] = published /\ published # {} /\ sentAt'[t] = sentAt[t]
            /\ pc[t] = "fetch"
        BY <2>0, <3>1 DEF CallEffect
      <4>2. Held(published, sentAt[t])
        BY <1>0, <4>1, PublishedHeld DEF Clocks, Refreshing
      <4> QED BY <2>0, <3>1, <4>1, <4>2 DEF Held, LastPublished, LastAbsent
    <3>2. CASE u # t
      BY <2>0, <3>2 DEF CallEffect, Payloads, Held, LastPublished, LastAbsent
    <3> QED BY <3>1, <3>2
  <2>4. Sets'
    <3> SUFFICES ASSUME NEW c \in Clients, keys'[c] # {}
                 PROVE  Held(keys[c], fetchedAt[c] - 2 * MaxFetch)'
      BY DEF Sets
    <3>1. Held(keys'[c], fetchedAt'[c] - 2 * MaxFetch)
      <4>1. CASE keys'[c] = keys[c] /\ fetchedAt'[c] = fetchedAt[c]
        BY <4>1 DEF Sets
      <4>2. CASE pc[t] = "install" /\ keys'[c] = payload[t]
        <5>1. fetchedAt'[c] = fetchedAt[c]
          BY <2>0, <4>2 DEF ClientEffect
        <5>2. fetchedAt[c] - 2 * MaxFetch \in Int /\ fetchedAt[c] - 2 * MaxFetch <= sentAt[t]
          BY <1>0, <2>2, <4>2 DEF Clocks
        <5> QED BY <2>2, <4>2, <5>1, <5>2
      <4>3. CASE pc[t] = "stamp" /\ c = ClientOf(t) /\ fetchedAt'[c] = now
                 /\ keys'[c] = keys[c]
        <5>1. Held(keys[c], sentAt[t] - MaxFetch)
          BY <4>3 DEF Installed
        <5>2. now <= sentAt[t] + MaxFetch
          BY <4>3 DEF Clocks, Refreshing
        <5>3. /\ now - 2 * MaxFetch \in Int /\ sentAt[t] - MaxFetch \in Int
              /\ now - 2 * MaxFetch <= sentAt[t] - MaxFetch
          BY <1>0, <5>2
        <5> QED BY <4>3, <5>1, <5>3, HeldSince
      <4> QED BY <2>0, <4>1, <4>2, <4>3 DEF ClientEffect
    <3> QED BY <2>0, <3>1 DEF Held, LastPublished, LastAbsent
  <2>5. Installed'
    <3> SUFFICES ASSUME NEW u \in Threads, pc'[u] \in {"clear", "stamp"}
                 PROVE  /\ keys'[ClientOf(u)] # {}
                        /\ Held(keys'[ClientOf(u)], sentAt'[u] - MaxFetch)
      BY <2>0 DEF Installed, ClientOf, Held, LastPublished, LastAbsent
    <3>1. sentAt'[u] = sentAt[u] /\ sentAt[u] - MaxFetch \in Int
      BY <1>0, <2>0 DEF CallEffect
    <3>2. CASE keys'[ClientOf(u)] = keys[ClientOf(u)] /\ pc[u] \in {"clear", "stamp"}
      BY <3>1, <3>2 DEF Installed
    <3>3. CASE pc[t] = "install" /\ keys'[ClientOf(u)] = payload[t]
      <4>1. sentAt[u] - MaxFetch <= sentAt[t]
        <5>1. sentAt[u] <= now
          BY <2>0, <3>3 DEF CallEffect, Clocks, Refreshing
        <5> QED BY <1>0, <2>2, <3>3, <5>1
      <4> QED BY <2>2, <3>1, <3>3, <4>1
    <3>4. u # t => pc[u] \in {"clear", "stamp"}
                   /\ ~(perRequest /\ ClientOf(u) = t)
      BY <2>0 DEF CallEffect, ClientOf
    <3>5. u = t => \/ keys'[ClientOf(u)] = keys[ClientOf(u)] /\ pc[u] \in {"clear", "stamp"}
                   \/ pc[t] = "install" /\ keys'[ClientOf(u)] = payload[t]
      BY <2>0 DEF CallEffect
    <3> QED BY <1>0, <2>0, <3>2, <3>3, <3>4, <3>5 DEF ClientEffect
  <2>6. Judged'
    <3> SUFFICES ASSUME NEW u \in Threads, pc'[u] \in {"find", "read"}
                 PROVE  /\ keys'[ClientOf(u)] # {}
                        /\ Held(keys'[ClientOf(u)], stamp'[u] - SetAge)
      BY <2>0 DEF Judged, ClientOf, Held, LastPublished, LastAbsent
    <3>1. /\ stamp'[u] = stamp[u] /\ stamp[u] - SetAge \in Int /\ stamp[u] <= now
          /\ SetAge = Ttl + 2 * MaxFetch
      BY <1>0, <2>0 DEF CallEffect, Clocks, Calling, SetAge
    <3>2. CASE keys'[ClientOf(u)] = keys[ClientOf(u)] /\ pc[u] \in {"find", "read"}
      BY <3>1, <3>2 DEF Judged
    <3>3. CASE pc[t] = "install" /\ keys'[ClientOf(u)] = payload[t]
      <4>1. stamp[u] - SetAge <= sentAt[t]
        BY <1>0, <2>2, <3>1, <3>3
      <4> QED BY <2>2, <3>1, <3>3, <4>1
    <3>4. CASE u = t /\ pc[t] = "stamp" /\ keys'[ClientOf(u)] = keys[ClientOf(u)]
      <4>1. /\ keys[ClientOf(t)] # {} /\ Held(keys[ClientOf(t)], sentAt[t] - MaxFetch)
            /\ stamp[t] <= sentAt[t]
        BY <3>4 DEF Installed, Clocks, Refreshing
      <4>2. sentAt[t] - MaxFetch \in Int /\ stamp[t] - SetAge <= sentAt[t] - MaxFetch
        BY <1>0, <3>1, <4>1
      <4> QED BY <3>1, <3>4, <4>1, <4>2, HeldSince
    <3>5. CASE u = t /\ ~NeedsRefresh(t) /\ keys'[ClientOf(u)] = keys[ClientOf(u)]
      <4>1. keys[ClientOf(t)] # {} /\ stamp[t] - fetchedAt[ClientOf(t)] <= Ttl
        BY <1>0, <3>5 DEF NeedsRefresh
      <4>2. Held(keys[ClientOf(t)], fetchedAt[ClientOf(t)] - 2 * MaxFetch)
        BY <1>0, <4>1 DEF Sets
      <4>3. /\ fetchedAt[ClientOf(t)] - 2 * MaxFetch \in Int
            /\ stamp[t] - SetAge <= fetchedAt[ClientOf(t)] - 2 * MaxFetch
        BY <1>0, <3>1, <4>1
      <4> QED BY <3>1, <3>5, <4>1, <4>2, <4>3, HeldSince
    <3>6. u # t => pc[u] \in {"find", "read"} /\ ~(perRequest /\ ClientOf(u) = t)
      BY <2>0 DEF CallEffect, ClientOf
    <3>7. u = t =>
            \/ keys'[ClientOf(u)] = keys[ClientOf(u)] /\ pc[u] \in {"find", "read"}
            \/ pc[t] = "stamp" /\ keys'[ClientOf(u)] = keys[ClientOf(u)]
            \/ ~NeedsRefresh(t) /\ keys'[ClientOf(u)] = keys[ClientOf(u)]
      BY <2>0 DEF CallEffect
    <3> QED BY <1>0, <2>0, <3>2, <3>3, <3>4, <3>5, <3>6, <3>7 DEF ClientEffect
  <2> QED BY <2>3, <2>4, <2>5, <2>6
<1> QED BY <1>1, <1>2 DEF Next, CallStep, Tick, Rotate, vars, client, locals

\* A key that is read from a set, and the entry made of it, are no older than
\* the set.
LEMMA StepCached ==
    ASSUME TypeOK, Clocks, KidsKnown, Judged, Stored, Cached, [Next]_vars
    PROVE  Stored' /\ Cached'
<1>0. /\ MaxFetch \in Nat /\ Ttl \in Nat /\ SetAge \in Int
      /\ \A t \in Threads : stamp[t] \in Int /\ ClientOf(t) \in Clients
      /\ \A c \in Clients, k \in Kids : cache[c][k] \in Int
      /\ \A c \in Clients : DOMAIN cache[c] = Kids
  BY JwksAssumption DEF TypeOK, SetAge, ClientOf, Clients, None
<1>1. \A k \in Kids : LastPublished(k) \in Int /\ LastPublished(k)' \in Int
                      /\ LastPublished(k)' >= LastPublished(k)
  BY HeldGrows
<1>2. CASE UNCHANGED <<cache, pc, kid, stamp>>
  <2>1. Cached'
    BY <1>0, <1>1, <1>2 DEF Cached
  <2>2. Stored'
    <3> SUFFICES ASSUME NEW t \in Threads, pc'[t] = "store"
                 PROVE  LastPublished(kid[t])' >= stamp'[t] - SetAge
      BY DEF Stored
    <3>1. kid[t] \in Kids /\ LastPublished(kid[t]) >= stamp[t] - SetAge
      BY <1>2 DEF Stored, KidsKnown, Calling
    <3> QED BY <1>0, <1>1, <1>2, <3>1 DEF LastPublished
  <2> QED BY <2>1, <2>2
<1>3. ASSUME NEW t \in Threads, CallStep(t) PROVE Stored' /\ Cached'
  <2>0. /\ ClientEffect(t) /\ CallEffect(t)
        /\ UNCHANGED <<perRequest, now, published, changedAt>>
    BY <1>3, Effects, CallIsQuiet
  <2>1. Stored'
    <3> SUFFICES ASSUME NEW u \in Threads, pc'[u] = "store"
                 PROVE  LastPublished(kid'[u]) >= stamp'[u] - SetAge
      BY <2>0 DEF Stored, LastPublished
    <3>1. CASE u # t
      BY <2>0, <3>1 DEF CallEffect, Stored
    <3>2. CASE u = t
      <4>1. /\ pc[t] = "read" /\ kid[t] \in keys[ClientOf(t)]
            /\ kid'[t] = kid[t] /\ stamp'[t] = stamp[t]
        BY <2>0, <3>2 DEF CallEffect, Calling
      <4>2. Held(keys[ClientOf(t)], stamp[t] - SetAge) /\ kid[t] \in Kids
        BY <4>1 DEF Judged, KidsKnown, Calling
      <4>3. LastPublished(kid[t]) >= stamp[t] - SetAge
        BY <4>1, <4>2 DEF Held
      <4> QED BY <3>2, <4>1, <4>3
    <3> QED BY <3>1, <3>2
  <2>2. Cached'
    <3> SUFFICES ASSUME NEW c \in Clients, NEW k \in Kids, cache'[c][k] # None
                 PROVE  LastPublished(k) >= cache'[c][k] - Ttl - SetAge
      BY <2>0 DEF Cached, LastPublished
    <3>1. CASE cache'[c][k] = cache[c][k]
      BY <3>1 DEF Cached
    <3>2. CASE pc[t] = "store" /\ k = kid[t] /\ cache'[c][k] = stamp[t] + Ttl
      <4>1. LastPublished(k) >= stamp[t] - SetAge
        BY <3>2 DEF Stored
      <4> DEFINE x == LastPublished(k)
                 y == stamp[t]
                 z == cache'[c][k]
      <4>2. x \in Int /\ y \in Int /\ Ttl \in Int /\ SetAge \in Int /\ x >= y - SetAge
        BY <1>0, <1>1, <4>1
      <4>3. z = y + Ttl
        BY <3>2
      <4> HIDE DEF x, y, z
      <4>4. x >= z - Ttl - SetAge
        BY ONLY <4>2, <4>3
      <4> QED BY ONLY <4>4 DEF x, z
    <3> QED BY <1>0, <2>0, <3>1, <3>2 DEF ClientEffect
  <2> QED BY <2>1, <2>2
<1> QED BY <1>2, <1>3 DEF Next, CallStep, Tick, Rotate, vars, client, locals

\* A client of its own sees only what its call has fetched.
LEMMA StepOwn ==
    ASSUME TypeOK, Clocks, KidsKnown, Payloads, Own, [Next]_vars
    PROVE  Own'
<1>0. /\ \A t \in Threads : /\ stamp[t] \in Int /\ sentAt[t] \in Int /\ t \in Clients
                            /\ keys[t] \in SUBSET Kids
  BY JwksAssumption DEF TypeOK, Clients
<1>1. CASE UNCHANGED <<perRequest, keys, cache, pc, kid, stamp, sentAt>>
  <2>1. \A S \in SUBSET Kids, x \in Int : Held(S, x) => Held(S, x)'
    BY HeldStays
  <2>2. \A k \in Kids : LastPublished(k) \in Int /\ LastPublished(k)' \in Int
                        /\ LastPublished(k)' >= LastPublished(k)
    BY HeldGrows
  <2>3. ASSUME NEW t \in Threads, pc[t] = "store", LastPublished(kid[t]) >= stamp[t]
        PROVE  LastPublished(kid[t])' >= stamp'[t]
    <3>1. kid[t] \in Kids
      BY <2>3 DEF KidsKnown, Calling
    <3> QED BY <1>0, <1>1, <2>2, <2>3, <3>1 DEF LastPublished
  <2>4. ASSUME NEW t \in Threads
        PROVE  /\ Held(keys[t], sentAt[t]) => Held(keys[t], sentAt[t])'
               /\ Held(keys[t], stamp[t]) => Held(keys[t], stamp[t])'
    BY <1>0, <1>1, <2>1
  <2> QED BY <1>1, <2>3, <2>4 DEF Own
<1>2. ASSUME NEW t \in Threads, CallStep(t) PROVE Own'
  <2>0. /\ ClientEffect(t) /\ CallEffect(t)
        /\ UNCHANGED <<perRequest, now, published, changedAt>>
        /\ pc \in [Threads -> {"idle"} \union Calling \union Outcomes]
        /\ pc' \in [Threads -> {"idle"} \union Calling \union Outcomes]
    BY <1>2, Effects, CallIsQuiet, StepTypes DEF TypeOK, Next, CallStep
  <2> SUFFICES ASSUME perRequest, NEW u \in Threads
               PROVE  /\ cache'[u] = [k \in Kids |-> None]
                      /\ pc'[u] \notin {"clear", "stamp", "find", "read", "store"} => keys'[u] = {}
                      /\ pc'[u] \in {"clear", "stamp"} => Held(keys'[u], sentAt'[u])
                      /\ pc'[u] \in {"find", "read"} => Held(keys'[u], stamp'[u])
                      /\ pc'[u] = "read" => kid'[u] \in keys'[u]
                      /\ pc'[u] = "store" => LastPublished(kid'[u]) >= stamp'[u]
    BY <2>0 DEF Own, Held, LastPublished, LastAbsent
  <2>1. cache'[u] = [k \in Kids |-> None]
    BY <1>0, <2>0 DEF ClientEffect, Own
  <2>2. CASE u # t
    <3>1. keys'[u] = keys[u]
      BY <1>0, <2>0, <2>2 DEF ClientEffect, ClientOf
    <3> QED BY <2>0, <2>1, <2>2, <3>1 DEF CallEffect, Own
  <2>3. CASE u = t
    <3>0. ClientOf(t) = t
      BY DEF ClientOf
    <3>1. pc'[t] \notin {"clear", "stamp", "find", "read", "store"} => keys'[t] = {}
      <4>1. CASE pc'[t] \in Outcomes
        <5>1. keys'[t] = {} \/ (pc[t] \notin Calling /\ keys'[t] = keys[t])
          BY <2>0, <4>1 DEF ClientEffect
        <5>2. pc[t] \notin Calling => keys[t] = {}
          BY DEF Own, Calling, Refreshing
        <5> QED BY <5>1, <5>2
      <4>2. CASE pc'[t] \in {"cache", "decide", "fetch", "install"}
        <5>1. pc[t] \notin {"clear", "stamp", "find", "read", "store"}
          BY <2>0, <4>2 DEF CallEffect, Calling, Refreshing
        <5>2. keys'[t] = keys[t]
          BY <1>0, <2>0, <4>2 DEF ClientEffect, Outcomes
        <5> QED BY <5>1, <5>2 DEF Own
      <4>3. CASE pc'[t] = "idle"
        <5>1. pc[t] = "idle"
          BY <1>2, <2>0, <4>3
             DEF CallStep, Step, Begin, CacheLookup, Decide, Fetch, FetchFails, Install, Clear,
                 Stamp, Find, Read, Store, End, Goto
        <5>2. keys'[t] = keys[t]
          BY <1>0, <2>0, <4>3 DEF ClientEffect, Outcomes
        <5> QED BY <5>1, <5>2 DEF Own
      <4> QED BY <2>0, <4>1, <4>2, <4>3 DEF Calling, Refreshing
    <3>2. pc'[t] \in {"clear", "stamp"} => Held(keys'[t], sentAt'[t])
      BY <2>0, <3>0 DEF CallEffect, Payloads, Own
    <3>3. pc'[t] \in {"find", "read"} => Held(keys'[t], stamp'[t])
      <4> SUFFICES ASSUME pc'[t] \in {"find", "read"} PROVE Held(keys'[t], stamp'[t])
        OBVIOUS
      <4>1. stamp'[t] = stamp[t] /\ keys'[t] = keys[t]
        BY <2>0, <3>0 DEF CallEffect, Calling
      <4>2. CASE pc[t] = "stamp"
        <5>1. Held(keys[t], sentAt[t]) /\ stamp[t] <= sentAt[t]
          BY <4>2 DEF Own, Clocks, Refreshing
        <5> QED BY <1>0, <4>1, <5>1, HeldSince
      <4>3. CASE pc[t] = "find"
        BY <4>1, <4>3 DEF Own
      <4>4. ~(pc[t] = "decide" /\ ~NeedsRefresh(t))
        BY <3>0 DEF Own, NeedsRefresh
      <4> QED BY <2>0, <4>2, <4>3, <4>4 DEF CallEffect
    <3>4. pc'[t] = "read" => kid'[t] \in keys'[t]
      BY <2>0, <3>0 DEF CallEffect, Calling
    <3>5. pc'[t] = "store" => LastPublished(kid'[t]) >= stamp'[t]
      <4> SUFFICES ASSUME pc'[t] = "store" PROVE LastPublished(kid'[t]) >= stamp'[t]
        OBVIOUS
      <4>1. /\ pc[t] = "read" /\ kid[t] \in keys[t]
            /\ kid'[t] = kid[t] /\ stamp'[t] = stamp[t]
        BY <2>0, <3>0 DEF CallEffect, Calling
      <4>2. Held(keys[t], stamp[t])
        BY <4>1 DEF Own
      <4>3. LastPublished(kid[t]) >= stamp[t]
        BY <1>0, <4>1, <4>2 DEF Held
      <4> QED BY <4>1, <4>3
    <3> QED BY <2>1, <2>3, <3>1, <3>2, <3>3, <3>4, <3>5
  <2> QED BY <2>2, <2>3
<1> QED BY <1>1, <1>2 DEF Next, CallStep, Tick, Rotate, vars, client, locals

\* The parts together are inductive.
LEMMA StepInv == IInv /\ [Next]_vars => IInv'
<1> SUFFICES ASSUME IInv, [Next]_vars PROVE IInv'
  OBVIOUS
<1>1. TypeOK' /\ Clocks' /\ KidsKnown'
  BY StepTypes, StepClocks DEF IInv
<1>2. Payloads' /\ Sets' /\ Installed' /\ Judged'
  BY StepSets DEF IInv
<1>3. Stored' /\ Cached' /\ Own'
  BY StepCached, StepOwn DEF IInv
<1> QED BY <1>1, <1>2, <1>3 DEF IInv

\* A call ends with a key from a live entry or from the set, and is refused at
\* the line that looks for its key in the set.
LEMMA EndSteps ==
    ASSUME TypeOK, [Next]_vars, NEW t \in Threads, pc[t] \in Calling, pc'[t] \in Outcomes
    PROVE  /\ Ends(t, "key") => \/ pc[t] = "cache" /\ cache[ClientOf(t)][kid[t]] > stamp[t]
                                \/ pc[t] = "store"
           /\ Ends(t, "unknown_kid") => pc[t] = "find" /\ kid[t] \notin keys[ClientOf(t)]
           /\ Ends(t, "key_error") => pc[t] = "read" /\ kid[t] \notin keys[ClientOf(t)]
<1> USE DEF Ends, Calling, Refreshing, Outcomes
<1>1. pc'[t] # pc[t]
  OBVIOUS
<1>2. PICK u \in Threads : CallStep(u)
  BY <1>1 DEF Next, Tick, Rotate, vars, CallStep
<1>3. u = t
  <2>1. CallEffect(u)
    BY <1>2, Effects
  <2> QED BY <1>1, <2>1 DEF CallEffect
<1>4. \A k \in Kids \union {NoKid} : ~Begin(t, k)
  BY DEF Begin
<1>5. Step(t)
  BY <1>2, <1>3, <1>4 DEF CallStep
<1> USE DEF TypeOK, Goto, End
<1>6. ~Decide(t) /\ ~Fetch(t) /\ ~Install(t) /\ ~Clear(t) /\ ~Stamp(t)
  BY DEF Decide, Fetch, Install, Clear, Stamp
<1>7. CASE FetchFails(t)
  BY <1>7 DEF FetchFails
<1>8. CASE CacheLookup(t)
  BY <1>8 DEF CacheLookup
<1>9. CASE Find(t) \/ Read(t) \/ Store(t)
  BY <1>9 DEF Find, Read, Store
<1> QED BY <1>5, <1>6, <1>7, <1>8, <1>9 DEF Step

\* TypeOK of the client, for any threads, keys and TTL.
THEOREM JwksTypes == Spec => []TypeOK
<1>1. IInv => TypeOK
  BY DEF IInv
<1> QED BY <1>1, InitInv, StepInv, PTL DEF Spec

\* AcceptedKeyAge: however the calls of get_signing_key overlap on the unlocked
\* client, the key that one returns was published less than two TTLs and two
\* refreshes before the call.
THEOREM OldKeysGoOut == Spec => AcceptedKeyAge
<1>1. ASSUME IInv, [Next]_vars
      PROVE  [\A t \in Threads :
                Ends(t, "key") => LastPublished(kid[t]) > stamp[t] - SetAge - Ttl]_vars
  <2> SUFFICES ASSUME NEW t \in Threads, Ends(t, "key")
               PROVE  LastPublished(kid[t]) > stamp[t] - SetAge - Ttl
    OBVIOUS
  <2>1. /\ kid[t] \in Kids /\ ClientOf(t) \in Clients /\ stamp[t] \in Int
        /\ stamp[t] >= 0 /\ SetAge \in Int /\ Ttl \in Int /\ Ttl > 0
        /\ cache[ClientOf(t)][kid[t]] \in Int
    BY <1>1, JwksAssumption
       DEF IInv, TypeOK, KidsKnown, Ends, ClientOf, Clients, SetAge, None
  <2>2. LastPublished(kid[t]) \in Int
    BY <1>1, <2>1, HeldGrows DEF IInv
  <2>3. CASE pc[t] = "cache" /\ cache[ClientOf(t)][kid[t]] > stamp[t]
    <3>1. cache[ClientOf(t)][kid[t]] # None
      BY <2>1, <2>3 DEF None
    <3>2. LastPublished(kid[t]) >= cache[ClientOf(t)][kid[t]] - Ttl - SetAge
      BY <1>1, <2>1, <3>1 DEF IInv, Cached
    <3> HIDE DEF LastPublished, SetAge
    <3> QED BY <2>1, <2>2, <2>3, <3>2
  <2>4. CASE pc[t] = "store"
    <3>1. LastPublished(kid[t]) >= stamp[t] - SetAge
      BY <1>1, <2>4 DEF IInv, Stored
    <3> HIDE DEF LastPublished, SetAge
    <3> QED BY <2>1, <2>2, <3>1
  <2> QED BY <1>1, <2>3, <2>4, EndSteps DEF IInv, Ends, Outcomes
<1> QED BY <1>1, InitInv, StepInv, PTL DEF Spec, AcceptedKeyAge

\* UnknownKidAge: a kid that get_signing_key refuses as unknown was absent from
\* the provider's set at most a TTL and two refreshes before the call.
THEOREM NewKeysComeIn == Spec => UnknownKidAge
<1>1. ASSUME IInv, [Next]_vars
      PROVE  [\A t \in Threads :
                Ends(t, "unknown_kid") => LastAbsent(kid[t]) >= stamp[t] - SetAge]_vars
  <2> SUFFICES ASSUME NEW t \in Threads, Ends(t, "unknown_kid")
               PROVE  LastAbsent(kid[t]) >= stamp[t] - SetAge
    OBVIOUS
  <2>1. pc[t] = "find" /\ kid[t] \notin keys[ClientOf(t)]
    BY <1>1, EndSteps DEF IInv, Ends, Outcomes
  <2>2. kid[t] \in Kids
    BY <1>1 DEF IInv, KidsKnown, Ends
  <2>3. Held(keys[ClientOf(t)], stamp[t] - SetAge)
    BY <1>1, <2>1 DEF IInv, Judged
  <2> QED BY <2>1, <2>2, <2>3 DEF Held
<1> QED BY <1>1, InitInv, StepInv, PTL DEF Spec, UnknownKidAge

\* OwnClientIsFresh: as verify_jwt_token uses the client, a token is judged by
\* what was published while it was judged, and never fails with a KeyError.
THEOREM OwnClientsAreFresh == Spec => OwnClientIsFresh
<1>1. ASSUME IInv, [Next]_vars
      PROVE  [perRequest => \A t \in Threads :
                /\ Ends(t, "key") => LastPublished(kid[t]) >= stamp[t]
                /\ Ends(t, "unknown_kid") => LastAbsent(kid[t]) >= stamp[t]
                /\ ~Ends(t, "key_error")]_vars
  <2> SUFFICES ASSUME perRequest, NEW t \in Threads
               PROVE  /\ Ends(t, "key") => LastPublished(kid[t]) >= stamp[t]
                      /\ Ends(t, "unknown_kid") => LastAbsent(kid[t]) >= stamp[t]
                      /\ ~Ends(t, "key_error")
    OBVIOUS
  <2>1. ClientOf(t) = t /\ stamp[t] \in Nat
    BY <1>1, JwksAssumption DEF ClientOf, IInv, TypeOK
  <2>2. ASSUME Ends(t, "key") PROVE LastPublished(kid[t]) >= stamp[t]
    <3>1. kid[t] \in Kids /\ cache[t] = [k \in Kids |-> None]
      BY <1>1, <2>2 DEF IInv, KidsKnown, Ends, Own
    <3>2. ~(cache[t][kid[t]] > stamp[t])
      BY <2>1, <3>1 DEF None
    <3>3. pc[t] = "store"
      BY <1>1, <2>1, <2>2, <3>2, EndSteps DEF IInv, Ends, Outcomes
    <3> QED BY <1>1, <3>3 DEF IInv, Own
  <2>3. ASSUME Ends(t, "unknown_kid") PROVE LastAbsent(kid[t]) >= stamp[t]
    <3>1. pc[t] = "find" /\ kid[t] \notin keys[t]
      BY <1>1, <2>1, <2>3, EndSteps DEF IInv, Ends, Outcomes
    <3>2. kid[t] \in Kids /\ Held(keys[t], stamp[t])
      BY <1>1, <2>3, <3>1 DEF IInv, KidsKnown, Ends, Own
    <3> QED BY <3>1, <3>2 DEF Held
  <2>4. ASSUME Ends(t, "key_error") PROVE FALSE
    <3>1. pc[t] = "read" /\ kid[t] \notin keys[t]
      BY <1>1, <2>1, <2>4, EndSteps DEF IInv, Ends, Outcomes
    <3> QED BY <1>1, <3>1 DEF IInv, Own
  <2> QED BY <2>2, <2>3, <2>4
<1> QED BY <1>1, InitInv, StepInv, PTL DEF Spec, OwnClientIsFresh
=============================================================================
