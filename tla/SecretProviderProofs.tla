----------------------- MODULE SecretProviderProofs -----------------------
(***************************************************************************)
(* How old a secret can be when a call returns it, for any number of       *)
(* threads and spellings, any TTL, and lookups of any bounded length.      *)
(*                                                                         *)
(* The age of an answer follows from that of the entry it is read from,    *)
(* and that one from the lookup that made the entry, perhaps by another    *)
(* thread: EntriesAge and FoundAge carry it along.  For a refresh Refreshes *)
(* says what the entry it dropped can have been replaced by.               *)
(***************************************************************************)
EXTENDS SecretProvider, TLAPS

Entries == [expires : 0 .. MaxTime + ttl, value : Values]

\* An entry was stored at most ttl before it expires, and looked up at most
\* MaxLookup before that.
EntryAge(e) == e # NoEntry => LastHeld(e.value) >= e.expires - ttl - MaxLookup

EntriesAge ==
    /\ \A n \in Spellings : EntryAge(cache[n])
    /\ \A t \in Threads : EntryAge(entry[t])
    /\ \A t \in Threads : pc[t] = "expiry" => entry[t] # NoEntry

\* Nothing is dated after now, and a lookup is not older than MaxLookup.
Clocks ==
    /\ \A v \in Values : heldUntil[v] <= now
    /\ \A t \in Threads : began[t] <= now
    /\ \A t \in Threads : pc[t] \in LookingUp =>
          sentAt[t] <= now /\ now <= sentAt[t] + MaxLookup /\ began[t] <= sentAt[t]

\* What a lookup found its manager held after the lookup began.
FoundAge ==
    \A t \in Threads : pc[t] = "store" =>
       found[t] \in Values /\ LastHeld(found[t]) >= sentAt[t]

\* Of two calls that run neither is alone.
Overlap ==
    \A t, u \in Threads : t # u /\ pc[t] \in Calling /\ pc[u] \in Calling => ~alone[t]

Refreshing(t) == op[t] = "refresh" /\ (provider = "environment" => name[t] = Canonical)

\* The entry that a refresh finds was put there by a call that overlapped it.
Foreign(t, e) ==
    e # NoEntry => ~alone[t] /\ LastHeld(e.value) >= began[t] - MaxLookup

Refreshes ==
    \A t \in Threads : Refreshing(t) =>
       /\ pc[t] = "read" => Foreign(t, cache[name[t]])
       /\ pc[t] = "expiry" => Foreign(t, entry[t])

IInv == TypeOK /\ Clocks /\ EntriesAge /\ FoundAge /\ Overlap /\ Refreshes

----------------------------------------------------------------------------
\* The errors a provider can end with before it asks its manager.
LEMMA LacksAreErrors == lack \in Lacks(provider) => lack \in Errors
  BY DEF Lacks, Errors

\* The states that a provider is built in.
LEMMA InitInv == Init => IInv
<1> SUFFICES ASSUME Init PROVE IInv
  OBVIOUS
<1> USE SecretAssumption DEF Init
<1>1. TypeOK
  <2>1. provider \in {"environment", "secret_manager_missing"} \union Supported
    BY DEF Provider
  <2> QED BY <2>1 DEF TypeOK, Operations, Never
<1>2. Clocks /\ EntriesAge /\ FoundAge /\ Overlap
  BY DEF Clocks, EntriesAge, EntryAge, FoundAge, Overlap, Never, LookingUp, Calling
<1>3. Refreshes
  BY DEF Refreshes, Refreshing
<1> QED BY <1>1, <1>2, <1>3 DEF IInv

\* The locals of a call that ends have their types.
LEMMA EndTypes ==
    ASSUME TypeOK, NEW t \in Threads, NEW o \in Answers \union Errors, End(t, o)
    PROVE  /\ pc' \in [Threads -> {"idle"} \union Calling \union Answers \union Errors]
           /\ op' \in [Threads -> Operations]
           /\ name' \in [Threads -> Spellings]
           /\ entry' \in [Threads -> {NoEntry} \union Entries]
           /\ found' \in [Threads -> Values \union {Absent}]
           /\ began' \in [Threads -> 0 .. MaxTime]
           /\ sentAt' \in [Threads -> 0 .. MaxTime]
           /\ alone' \in [Threads -> BOOLEAN]
<1> USE SecretAssumption DEF TypeOK, End, Goto
<1>1. /\ pc' \in [Threads -> {"idle"} \union Calling \union Answers \union Errors]
      /\ name' \in [Threads -> Spellings]
      /\ found' \in [Threads -> Values \union {Absent}]
  OBVIOUS
<1>2. op' \in [Threads -> Operations] /\ alone' \in [Threads -> BOOLEAN]
  BY DEF Operations
<1>3. began' \in [Threads -> 0 .. MaxTime] /\ sentAt' \in [Threads -> 0 .. MaxTime]
  OBVIOUS
<1>4. entry' \in [Threads -> {NoEntry} \union Entries]
  BY DEF Entries
<1> QED BY <1>1, <1>2, <1>3, <1>4

\* Types survive every step.
LEMMA StepTypes ==
    ASSUME TypeOK, [Next]_vars, \A t \in Threads : pc[t] = "store" => found[t] \in Values
    PROVE  TypeOK'
<1> USE SecretAssumption
        DEF TypeOK, deployment, secret, locals
<1>1. CASE UNCHANGED vars
  BY <1>1 DEF vars
<1>2. CASE Tick
  BY <1>2 DEF Tick
<1>3. ASSUME NEW v \in Values \union {Absent}, Change(v) PROVE TypeOK'
  BY <1>3 DEF Change
<1>4. ASSUME NEW t \in Threads, NEW o \in Operations, NEW n \in Spellings, Begin(t, o, n)
      PROVE  TypeOK'
  <2>1. /\ pc' \in [Threads -> {"idle"} \union Calling \union Answers \union Errors]
        /\ op' \in [Threads -> Operations] /\ name' \in [Threads -> Spellings]
        /\ began' \in [Threads -> 0 .. MaxTime] /\ calls' \in 0 .. MaxCalls
    BY <1>4 DEF Begin, Goto, Calling
  <2>2. alone' \in [Threads -> BOOLEAN]
    BY <1>4 DEF Begin
  <2>3. PoppedName(n) \in Spellings
    BY DEF PoppedName
  <2>4. cache' = [cache EXCEPT ![PoppedName(n)] = NoEntry] \/ cache' = cache
    BY <1>4 DEF Begin
  <2>5. cache' \in [Spellings -> {NoEntry} \union Entries]
    BY <2>3, <2>4 DEF Entries
  <2>6. UNCHANGED <<deployment, now, secret, entry, found, sentAt>>
    BY <1>4 DEF Begin
  <2> QED BY <2>1, <2>2, <2>5, <2>6 DEF Entries
<1>5. ASSUME NEW t \in Threads, ReadEntry(t) PROVE TypeOK'
  BY <1>5 DEF ReadEntry, StartLookup, Calling, LookingUp, Goto
<1>6. ASSUME NEW t \in Threads, CheckExpiry(t) PROVE TypeOK'
  <2>1. CASE \E o \in Answers : End(t, o)
    <3>1. UNCHANGED <<deployment, now, secret, cache, calls>>
      BY <1>6 DEF CheckExpiry
    <3> QED BY <2>1, <3>1, EndTypes DEF Entries
  <2>2. CASE Goto(t, "drop") /\ UNCHANGED locals
    BY <1>6, <2>2 DEF CheckExpiry, Goto, Calling
  <2> QED BY <1>6, <2>1, <2>2 DEF CheckExpiry, Return, Answers
<1>7. ASSUME NEW t \in Threads, DropExpired(t) PROVE TypeOK'
  BY <1>7 DEF DropExpired, StartLookup, Calling, LookingUp, Goto
<1>8. ASSUME NEW t \in Threads, Lookup(t) PROVE TypeOK'
  BY <1>8 DEF Lookup, Calling, LookingUp, Goto
<1>9. ASSUME NEW t \in Threads, LookupFails(t) PROVE TypeOK'
  <2>1. PICK o \in Errors : End(t, o)
    BY <1>9, LacksAreErrors DEF LookupFails, Errors
  <2>2. UNCHANGED <<deployment, now, secret, cache, calls>>
    BY <1>9 DEF LookupFails
  <2> QED BY <2>1, <2>2, EndTypes DEF Entries
<1>10. ASSUME NEW t \in Threads, Store(t) PROVE TypeOK'
  <2>1. PICK o \in Answers : End(t, o)
    BY <1>10 DEF Store, Return, Answers
  <2>2. [expires |-> now + ttl, value |-> found[t]] \in Entries
    BY <1>10 DEF Store, Entries
  <2>3. \/ cache' = cache
        \/ cache' = [cache EXCEPT ![name[t]] = [expires |-> now + ttl, value |-> found[t]]]
    BY <1>10 DEF Store
  <2>4. cache' \in [Spellings -> {NoEntry} \union Entries]
    BY <2>2, <2>3 DEF Entries
  <2>5. UNCHANGED <<deployment, now, secret, calls>>
    BY <1>10 DEF Store
  <2> QED BY <2>1, <2>4, <2>5, EndTypes DEF Entries
<1> QED
  BY <1>1, <1>2, <1>3, <1>4, <1>5, <1>6, <1>7, <1>8, <1>9, <1>10 DEF Next, Step

\* The steps of a call change neither the clock nor the secret.
LEMMA CallIsQuiet ==
    ASSUME NEW t \in Threads,
           Step(t) \/ \E o \in Operations, n \in Spellings : Begin(t, o, n)
    PROVE  UNCHANGED <<provider, lack, ttl, now, source, heldUntil>>
  BY DEF Step, Begin, ReadEntry, CheckExpiry, DropExpired, Lookup, LookupFails, Store,
         deployment, secret

\* The time at which a value was last held only grows.
LEMMA HeldGrows ==
    ASSUME TypeOK, Clocks, [Next]_vars
    PROVE  \A v \in Values : LastHeld(v) \in Int /\ LastHeld(v)' \in Int
                             /\ LastHeld(v)' >= LastHeld(v)
<1> USE SecretAssumption DEF LastHeld
<1>1. \A v \in Values : heldUntil[v] \in Int /\ heldUntil[v] <= now
  BY DEF TypeOK, Clocks, Never
<1>2. now \in Int
  BY DEF TypeOK
<1>3. CASE UNCHANGED <<now, source, heldUntil>>
  BY <1>1, <1>2, <1>3
<1>4. CASE Tick
  BY <1>1, <1>2, <1>4 DEF Tick, secret
<1>5. ASSUME NEW x \in Values \union {Absent}, Change(x)
      PROVE  \A v \in Values : LastHeld(v) \in Int /\ LastHeld(v)' \in Int
                               /\ LastHeld(v)' >= LastHeld(v)
  BY <1>1, <1>2, <1>5 DEF Change
<1> QED BY <1>3, <1>4, <1>5, CallIsQuiet DEF Next, vars, secret

\* Every step of the clock, of the secret and of the calls respects the times.
LEMMA StepClocks ==
    ASSUME TypeOK, Clocks, [Next]_vars
    PROVE  Clocks'
<1> USE SecretAssumption DEF Clocks, LookingUp
<1>0. /\ now \in Int
      /\ \A t \in Threads : began[t] \in Int /\ sentAt[t] \in Int
      /\ \A v \in Values : heldUntil[v] \in Int
      /\ pc \in [Threads -> {"idle"} \union Calling \union Answers \union Errors]
      /\ began \in [Threads -> 0 .. MaxTime] /\ sentAt \in [Threads -> 0 .. MaxTime]
  BY DEF TypeOK, Never
<1>1. CASE UNCHANGED vars
  BY <1>1 DEF vars, secret, locals
<1>2. CASE Tick
  BY <1>0, <1>2 DEF Tick, secret, locals
<1>3. ASSUME NEW x \in Values \union {Absent}, Change(x) PROVE Clocks'
  BY <1>0, <1>3 DEF Change, locals
<1>4. ASSUME NEW t \in Threads, NEW o \in Operations, NEW n \in Spellings, Begin(t, o, n)
      PROVE  Clocks'
  BY <1>0, <1>4 DEF Begin, Goto, secret
<1>5. ASSUME NEW t \in Threads, NEW o \in Answers \union Errors, End(t, o),
             UNCHANGED <<now, heldUntil>>
      PROVE  Clocks'
  <2>1. \A u \in Threads : pc'[u] \in LookingUp => u # t
    BY <1>0, <1>5 DEF End, Goto, Answers, Errors
  <2>2. \A u \in Threads : u # t => /\ pc'[u] = pc[u] /\ began'[u] = began[u]
                                    /\ sentAt'[u] = sentAt[u]
    BY <1>0, <1>5 DEF End, Goto
  <2>3. began'[t] <= now
    BY <1>0, <1>5 DEF End, TypeOK
  <2> QED BY <1>5, <2>1, <2>2, <2>3
<1>6. ASSUME NEW t \in Threads, ReadEntry(t) PROVE Clocks'
  BY <1>0, <1>6 DEF ReadEntry, StartLookup, Goto, secret
<1>7. ASSUME NEW t \in Threads, CheckExpiry(t) PROVE Clocks'
  <2>1. CASE \E o \in Answers : End(t, o)
    BY <1>5, <1>7, <2>1, CallIsQuiet DEF Step
  <2>2. CASE Goto(t, "drop") /\ UNCHANGED locals
    BY <1>0, <1>7, <2>2 DEF CheckExpiry, Goto, locals, secret
  <2> QED BY <1>7, <2>1, <2>2 DEF CheckExpiry, Return, Answers
<1>8. ASSUME NEW t \in Threads, DropExpired(t) PROVE Clocks'
  BY <1>0, <1>8 DEF DropExpired, StartLookup, Goto, secret
<1>9. ASSUME NEW t \in Threads, Lookup(t) PROVE Clocks'
  BY <1>0, <1>9 DEF Lookup, Goto, secret
<1>10. ASSUME NEW t \in Threads, LookupFails(t) PROVE Clocks'
  <2>1. PICK o \in Errors : End(t, o)
    BY <1>10, LacksAreErrors DEF LookupFails, Errors, TypeOK
  <2> QED BY <1>5, <1>10, <2>1, CallIsQuiet DEF Step
<1>11. ASSUME NEW t \in Threads, Store(t) PROVE Clocks'
  <2>1. PICK o \in Answers : End(t, o)
    BY <1>11 DEF Store, Return, Answers
  <2> QED BY <1>5, <1>11, <2>1, CallIsQuiet DEF Step
<1> QED
  BY <1>1, <1>2, <1>3, <1>4, <1>6, <1>7, <1>8, <1>9, <1>10, <1>11 DEF Next, Step

\* An entry stays as young as it is.
LEMMA EntryKeepsAge ==
    ASSUME TypeOK, Clocks, [Next]_vars
    PROVE  ttl' = ttl /\ \A e \in {NoEntry} \union Entries : EntryAge(e) => EntryAge(e)'
<1>1. ttl' = ttl
  BY CallIsQuiet DEF Next, Tick, Change, vars, deployment
<1>2. ttl \in Int /\ MaxLookup \in Int /\ MaxTime \in Int
  BY SecretAssumption DEF TypeOK
<1>3. \A v \in Values : LastHeld(v) \in Int /\ LastHeld(v)' \in Int
                        /\ LastHeld(v)' >= LastHeld(v)
  BY HeldGrows
<1> QED BY <1>1, <1>2, <1>3 DEF EntryAge, Entries

\* What is stored was looked up at most MaxLookup ago.
LEMMA StoredEntryAge ==
    ASSUME TypeOK, Clocks, FoundAge, NEW t \in Threads, pc[t] = "store"
    PROVE  EntryAge([expires |-> now + ttl, value |-> found[t]])
<1>1. found[t] \in Values /\ LastHeld(found[t]) >= sentAt[t]
  BY DEF FoundAge
<1>2. now <= sentAt[t] + MaxLookup
  BY DEF Clocks, LookingUp
<1>3. now \in Int /\ sentAt[t] \in Int /\ ttl \in Int /\ MaxLookup \in Int
      /\ LastHeld(found[t]) \in Int
  BY <1>1, SecretAssumption DEF TypeOK, LastHeld, Never
<1> HIDE DEF LastHeld
<1> QED BY <1>1, <1>2, <1>3 DEF EntryAge

\* A step of a call leaves the entries of the cache, drops one, or stores what
\* the call has found; and takes into its locals what the cache holds.
CallEffect(t) ==
    /\ \A n \in Spellings :
          \/ cache'[n] = cache[n] \/ cache'[n] = NoEntry
          \/ /\ pc[t] = "store" /\ n = name[t] /\ pc'[t] \in Answers
             /\ cache'[n] = [expires |-> now + ttl, value |-> found[t]]
    /\ \A u \in Threads :
          \/ entry'[u] = entry[u] \/ entry'[u] = NoEntry
          \/ \E n \in Spellings : entry'[u] = cache[n]
    /\ \A u \in Threads : u # t =>
          /\ pc'[u] = pc[u] /\ entry'[u] = entry[u] /\ found'[u] = found[u]
          /\ sentAt'[u] = sentAt[u] /\ op'[u] = op[u] /\ name'[u] = name[u]
          /\ began'[u] = began[u] /\ (alone'[u] => alone[u])
    /\ pc'[t] = "expiry" =>
          /\ pc[t] = "read" /\ entry'[t] = cache[name[t]] /\ entry'[t] # NoEntry
          /\ op'[t] = op[t] /\ name'[t] = name[t] /\ began'[t] = began[t]
          /\ alone'[t] = alone[t]
    /\ pc'[t] = "read" /\ op'[t] = "refresh" => cache'[PoppedName(name'[t])] = NoEntry
    /\ pc'[t] = "store" => found'[t] = source /\ source \in Values
                           /\ sentAt'[t] = sentAt[t] /\ pc[t] = "lookup"

\* Every step of a call has such an effect.
LEMMA CacheStep ==
    ASSUME TypeOK, NEW t \in Threads,
           Step(t) \/ \E o \in Operations, n \in Spellings : Begin(t, o, n)
    PROVE  CallEffect(t)
<1> USE DEF CallEffect, TypeOK, Goto
<1>1. ASSUME NEW o \in Answers \union Errors, End(t, o), cache' = cache PROVE CallEffect(t)
  BY <1>1 DEF End, Answers, Errors
<1>2. ASSUME NEW o \in Operations, NEW n \in Spellings, Begin(t, o, n) PROVE CallEffect(t)
  <2>1. PoppedName(n) \in Spellings
    BY SecretAssumption DEF PoppedName
  <2> QED BY <1>2, <2>1 DEF Begin, Calling
<1>3. CASE ReadEntry(t)
  BY <1>3 DEF ReadEntry, StartLookup
<1>4. CASE CheckExpiry(t)
  BY <1>1, <1>4 DEF CheckExpiry, Return, Answers, locals
<1>5. CASE DropExpired(t)
  BY <1>5 DEF DropExpired, StartLookup
<1>6. CASE Lookup(t)
  BY <1>6 DEF Lookup
<1>7. CASE LookupFails(t)
  BY <1>1, <1>7, LacksAreErrors DEF LookupFails, Errors
<1>8. CASE Store(t)
  <2>1. PICK o \in Answers : End(t, o)
    BY <1>8 DEF Store, Return, Answers
  <2> QED BY <1>8, <2>1 DEF Store, End, Answers
<1> QED BY <1>2, <1>3, <1>4, <1>5, <1>6, <1>7, <1>8 DEF Step

\* The ages of entries and of found values survive every step.
LEMMA StepAges ==
    ASSUME TypeOK, Clocks, EntriesAge, FoundAge, [Next]_vars
    PROVE  EntriesAge' /\ FoundAge'
<1>1. /\ ttl' = ttl
      /\ \A e \in {NoEntry} \union Entries : EntryAge(e) => EntryAge(e)'
  BY EntryKeepsAge
<1>2. /\ \A n \in Spellings : cache[n] \in {NoEntry} \union Entries
      /\ \A t \in Threads : entry[t] \in {NoEntry} \union Entries
  BY DEF TypeOK, Entries
<1>3. \A v \in Values : LastHeld(v) \in Int /\ LastHeld(v)' \in Int
                        /\ LastHeld(v)' >= LastHeld(v)
  BY HeldGrows
<1>4. \A t \in Threads : sentAt[t] \in Int
  BY SecretAssumption DEF TypeOK
<1>5. CASE UNCHANGED <<cache, entry, pc, found, sentAt>>
  <2>1. /\ \A n \in Spellings : EntryAge(cache[n])'
        /\ \A t \in Threads : EntryAge(entry[t])'
    BY <1>1, <1>2, <1>5 DEF EntriesAge, EntryAge
  <2>2. FoundAge'
    BY <1>3, <1>4, <1>5 DEF FoundAge, LastHeld
  <2> QED BY <1>5, <2>1, <2>2 DEF EntriesAge
<1>6. ASSUME NEW t \in Threads,
             Step(t) \/ \E o \in Operations, n \in Spellings : Begin(t, o, n)
      PROVE  EntriesAge' /\ FoundAge'
  <2>0. CallEffect(t) /\ UNCHANGED <<provider, lack, ttl, now, source, heldUntil>>
    BY <1>6, CacheStep, CallIsQuiet
  <2>1. ASSUME NEW n \in Spellings PROVE EntryAge(cache[n])'
    <3>1. CASE cache'[n] = cache[n] \/ cache'[n] = NoEntry
      BY <1>2, <2>0, <3>1 DEF EntriesAge, EntryAge, LastHeld
    <3>2. CASE pc[t] = "store"
               /\ cache'[n] = [expires |-> now + ttl, value |-> found[t]]
      BY <2>0, <3>2, StoredEntryAge DEF EntryAge, LastHeld
    <3> QED BY <2>0, <3>1, <3>2 DEF CallEffect
  <2>2. ASSUME NEW u \in Threads PROVE EntryAge(entry[u])'
    <3>1. \/ entry'[u] = entry[u] \/ entry'[u] = NoEntry
          \/ \E n \in Spellings : entry'[u] = cache[n]
      BY <2>0 DEF CallEffect
    <3> QED BY <2>0, <3>1 DEF EntriesAge, EntryAge, LastHeld
  <2>3. ASSUME NEW u \in Threads, pc'[u] = "expiry" PROVE entry'[u] # NoEntry
    BY <2>0, <2>3 DEF CallEffect, EntriesAge
  <2>4. FoundAge'
    <3> SUFFICES ASSUME NEW u \in Threads, pc'[u] = "store"
                 PROVE  found'[u] \in Values /\ LastHeld(found[u])' >= sentAt'[u]
      BY DEF FoundAge
    <3>1. CASE u = t
      <4>1. found'[t] = source /\ source \in Values /\ sentAt'[t] = sentAt[t]
            /\ pc[t] = "lookup"
        BY <2>0, <3>1 DEF CallEffect
      <4>2. sentAt[t] <= now
        BY <4>1 DEF Clocks, LookingUp
      <4> QED BY <2>0, <3>1, <4>1, <4>2 DEF LastHeld
    <3>2. CASE u # t
      BY <2>0, <3>2 DEF CallEffect, FoundAge, LastHeld
    <3> QED BY <3>1, <3>2
  <2> QED BY <2>1, <2>2, <2>3, <2>4 DEF EntriesAge
<1> QED BY <1>5, <1>6 DEF Next, Tick, Change, vars, locals

\* Begin takes away the solitude of all that run; nothing gives it back while
\* they do.
LEMMA StepOverlap ==
    ASSUME TypeOK, Overlap, [Next]_vars
    PROVE  Overlap'
<1> USE DEF TypeOK, Overlap, Goto
<1>1. CASE UNCHANGED <<pc, alone>>
  BY <1>1
<1>2. ASSUME NEW t \in Threads, NEW o \in Operations, NEW n \in Spellings, Begin(t, o, n)
      PROVE  Overlap'
  BY <1>2 DEF Begin, Calling
<1>3. ASSUME NEW t \in Threads, NEW o \in Answers \union Errors, End(t, o)
      PROVE  Overlap'
  BY <1>3 DEF End, Answers, Errors, Calling, LookingUp
<1>4. ASSUME NEW t \in Threads, pc[t] \in Calling, NEW l \in Calling, Goto(t, l), alone' = alone
      PROVE  Overlap'
  BY <1>4
<1>5. ASSUME NEW t \in Threads, Step(t) PROVE Overlap'
  <2> USE DEF Calling, LookingUp
  <2>1. CASE ReadEntry(t)
    BY <1>4, <2>1 DEF ReadEntry, StartLookup
  <2>2. CASE CheckExpiry(t)
    BY <1>3, <1>4, <2>2 DEF CheckExpiry, Return, Answers, locals
  <2>3. CASE DropExpired(t)
    BY <1>4, <2>3 DEF DropExpired, StartLookup
  <2>4. CASE Lookup(t)
    BY <1>4, <2>4 DEF Lookup
  <2>5. CASE LookupFails(t)
    BY <1>3, <2>5, LacksAreErrors DEF LookupFails, Errors
  <2>6. CASE Store(t)
    BY <1>3, <2>6 DEF Store, Return, Answers
  <2> QED BY <1>5, <2>1, <2>2, <2>3, <2>4, <2>5, <2>6 DEF Step
<1> QED BY <1>1, <1>2, <1>5 DEF Next, Tick, Change, vars, locals

\* A refresh finds no entry, or one of a call that overlapped it.
LEMMA StepRefreshes ==
    ASSUME IInv, [Next]_vars
    PROVE  Refreshes'
<1> USE DEF IInv
<1>1. \A v \in Values : LastHeld(v) \in Int /\ LastHeld(v)' \in Int
                        /\ LastHeld(v)' >= LastHeld(v)
  BY HeldGrows
<1>2. /\ \A n \in Spellings : cache[n] # NoEntry => cache[n].value \in Values
      /\ \A t \in Threads : entry[t] # NoEntry => entry[t].value \in Values
      /\ \A t \in Threads : began[t] \in Int /\ sentAt[t] \in Int /\ name[t] \in Spellings
      /\ now \in Int /\ MaxLookup \in Int
  BY SecretAssumption DEF TypeOK
<1>3. CASE UNCHANGED <<provider, cache, pc, op, name, entry, began, alone>>
  <2>1. \A t \in Threads : /\ Foreign(t, cache[name[t]]) => Foreign(t, cache[name[t]])'
                           /\ Foreign(t, entry[t]) => Foreign(t, entry[t])'
    BY <1>1, <1>2, <1>3 DEF Foreign, LastHeld
  <2> QED BY <1>3, <2>1 DEF Refreshes, Refreshing
<1>4. ASSUME NEW t \in Threads,
             Step(t) \/ \E o \in Operations, n \in Spellings : Begin(t, o, n)
      PROVE  Refreshes'
  <2>0. CallEffect(t) /\ UNCHANGED <<provider, lack, ttl, now, source, heldUntil>>
    BY <1>4, CacheStep, CallIsQuiet
  <2> SUFFICES ASSUME NEW u \in Threads, Refreshing(u)'
               PROVE  /\ pc'[u] = "read" => Foreign(u, cache[name[u]])'
                      /\ pc'[u] = "expiry" => Foreign(u, entry[u])'
    BY DEF Refreshes
  <2>1. ASSUME u = t, pc'[u] = "read" PROVE Foreign(u, cache[name[u]])'
    <3>1. cache'[PoppedName(name'[t])] = NoEntry
      BY <2>0, <2>1 DEF CallEffect, Refreshing
    <3>2. PoppedName(name'[t]) = name'[t]
      BY <2>0, <2>1 DEF PoppedName, Refreshing
    <3> QED BY <2>1, <3>1, <3>2 DEF Foreign
  <2>2. ASSUME u = t, pc'[u] = "expiry" PROVE Foreign(u, entry[u])'
    <3>1. /\ pc[t] = "read" /\ entry'[t] = cache[name[t]]
          /\ op'[t] = op[t] /\ name'[t] = name[t] /\ began'[t] = began[t]
          /\ alone'[t] = alone[t]
      BY <2>0, <2>2 DEF CallEffect
    <3>2. Refreshing(t)
      BY <2>0, <2>2, <3>1 DEF Refreshing
    <3>3. Foreign(t, cache[name[t]])
      BY <3>1, <3>2 DEF Refreshes
    <3> QED BY <2>0, <2>2, <3>1, <3>3 DEF Foreign, LastHeld
  <2>3. ASSUME u # t
        PROVE  /\ pc'[u] = "read" => Foreign(u, cache[name[u]])'
               /\ pc'[u] = "expiry" => Foreign(u, entry[u])'
    <3>1. /\ pc'[u] = pc[u] /\ entry'[u] = entry[u] /\ op'[u] = op[u]
          /\ name'[u] = name[u] /\ began'[u] = began[u] /\ (alone'[u] => alone[u])
      BY <2>0, <2>3 DEF CallEffect
    <3>2. Refreshing(u)
      BY <2>0, <3>1 DEF Refreshing
    <3>3. pc'[u] = "expiry" => Foreign(u, entry[u])'
      BY <2>0, <3>1, <3>2 DEF Refreshes, Foreign, LastHeld
    <3>4. ASSUME pc'[u] = "read" PROVE Foreign(u, cache[name[u]])'
      <4>1. Foreign(u, cache[name[u]])
        BY <3>1, <3>2, <3>4 DEF Refreshes
      <4>2. CASE cache'[name[u]] = cache[name[u]] \/ cache'[name[u]] = NoEntry
        BY <2>0, <3>1, <4>1, <4>2 DEF Foreign, LastHeld
      <4>3. ASSUME pc[t] = "store",
                   cache'[name[u]] = [expires |-> now + ttl, value |-> found[t]]
            PROVE  Foreign(u, cache[name[u]])'
        <5>1. ~alone[u]
          BY <2>3, <3>1, <3>4, <4>3 DEF Overlap, Calling, LookingUp
        <5>2. LastHeld(found[t]) >= began[u] - MaxLookup
          <6>1. /\ found[t] \in Values /\ LastHeld(found[t]) >= sentAt[t]
                /\ now <= sentAt[t] + MaxLookup /\ began[u] <= now
            BY <4>3 DEF FoundAge, Clocks, LookingUp
          <6>2. LastHeld(found[t]) \in Int
            BY <1>1, <6>1
          <6> HIDE DEF LastHeld
          <6> QED BY <1>2, <6>1, <6>2
        <5> QED BY <2>0, <3>1, <4>3, <5>1, <5>2 DEF Foreign, LastHeld
      <4> QED BY <1>2, <2>0, <4>2, <4>3 DEF CallEffect
    <3> QED BY <3>3, <3>4
  <2> QED BY <2>1, <2>2, <2>3
<1> QED BY <1>3, <1>4 DEF Next, Tick, Change, vars, locals, deployment

\* The parts together are inductive.
LEMMA StepInv == IInv /\ [Next]_vars => IInv'
<1> SUFFICES ASSUME IInv, [Next]_vars PROVE IInv'
  OBVIOUS
<1>1. TypeOK'
  BY StepTypes DEF IInv, FoundAge
<1>2. Clocks' /\ EntriesAge' /\ FoundAge' /\ Overlap' /\ Refreshes'
  BY StepClocks, StepAges, StepOverlap, StepRefreshes DEF IInv
<1> QED BY <1>1, <1>2 DEF IInv

\* A call is answered from a live entry or with what its own lookup found.
LEMMA AnswerSteps ==
    ASSUME TypeOK, [Next]_vars, NEW t \in Threads, Answered(t)
    PROVE  (pc[t] = "expiry" /\ Live(entry[t])) \/ pc[t] = "store"
<1> USE DEF TypeOK, Answered, Goto, Answers, Calling, LookingUp
<1>1. pc'[t] # pc[t]
  OBVIOUS
<1>2. PICK u \in Threads :
         Step(u) \/ \E o \in Operations, n \in Spellings : Begin(u, o, n)
  BY <1>1 DEF Next, Tick, Change, vars
<1>3. u = t
  <2>1. CallEffect(u)
    BY <1>2, CacheStep
  <2> QED BY <1>1, <2>1 DEF CallEffect
<1>4. ~ReadEntry(t) /\ ~DropExpired(t) /\ ~Lookup(t)
  BY DEF ReadEntry, DropExpired, Lookup, StartLookup
<1>5. ~LookupFails(t)
  BY LacksAreErrors DEF LookupFails, End, Errors
<1>6. \A o \in Operations, n \in Spellings : ~Begin(t, o, n)
  BY DEF Begin
<1>7. CASE CheckExpiry(t)
  BY <1>7 DEF CheckExpiry
<1> QED BY <1>2, <1>3, <1>4, <1>5, <1>6, <1>7 DEF Step, Store

\* TypeOK of the secret providers, for any threads, spellings and TTLs.
THEOREM SecretTypes == Spec => []TypeOK
<1>1. IInv => TypeOK
  BY DEF IInv
<1> QED BY <1>1, InitInv, StepInv, PTL DEF Spec

\* ValueAge: however get_secret and refresh_secret overlap on the unlocked cache, a
\* cached value is younger than the TTL and one lookup.
THEOREM ValuesAreYoung == Spec => ValueAge
<1>1. ASSUME IInv, [Next]_vars
      PROVE  [\A t \in Threads : Answered(t) =>
                IF pc[t] = "expiry" THEN LastHeld(Answer(t)) > now - ttl - MaxLookup
                                    ELSE LastHeld(Answer(t)) >= now - MaxLookup]_vars
  <2> SUFFICES ASSUME NEW t \in Threads, Answered(t)
               PROVE  IF pc[t] = "expiry" THEN LastHeld(Answer(t)) > now - ttl - MaxLookup
                                          ELSE LastHeld(Answer(t)) >= now - MaxLookup
    OBVIOUS
  <2>0. now \in Int /\ ttl \in Int /\ MaxLookup \in Int /\ sentAt[t] \in Int
        /\ \A v \in Values : LastHeld(v) \in Int
    BY <1>1, SecretAssumption, HeldGrows DEF IInv, TypeOK
  <2>1. CASE pc[t] = "expiry" /\ Live(entry[t])
    <3>1. entry[t] # NoEntry /\ LastHeld(entry[t].value) >= entry[t].expires - ttl - MaxLookup
      BY <1>1, <2>1 DEF IInv, EntriesAge, EntryAge
    <3>2. now < entry[t].expires
      BY <2>1 DEF Live
    <3>3. entry[t].value \in Values /\ entry[t].expires \in Int
      BY <1>1, <3>1, SecretAssumption DEF IInv, TypeOK
    <3> HIDE DEF LastHeld
    <3> QED BY <2>0, <2>1, <3>1, <3>2, <3>3 DEF Answer
  <2>2. CASE pc[t] = "store"
    <3>1. found[t] \in Values /\ LastHeld(found[t]) >= sentAt[t] /\ now <= sentAt[t] + MaxLookup
      BY <1>1, <2>2 DEF IInv, FoundAge, Clocks, LookingUp
    <3> HIDE DEF LastHeld
    <3> QED BY <2>0, <2>2, <3>1 DEF Answer
  <2> QED BY <1>1, <2>1, <2>2, AnswerSteps DEF IInv
<1> QED BY <1>1, InitInv, StepInv, PTL DEF Spec, ValueAge

\* RefreshedValueAge: what refresh_secret returns was the manager's while the
\* refresh ran or, if another call overlapped it, at most a lookup before.
THEOREM RefreshesAreFresh == Spec => RefreshedValueAge
<1>1. ASSUME IInv, [Next]_vars
      PROVE  [\A t \in Threads : Refreshed(t) =>
                LastHeld(Answer(t)) >= began[t] - (IF alone[t] THEN 0 ELSE MaxLookup)]_vars
  <2> SUFFICES ASSUME NEW t \in Threads, Refreshed(t)
               PROVE  LastHeld(Answer(t)) >= began[t] - (IF alone[t] THEN 0 ELSE MaxLookup)
    OBVIOUS
  <2>0. now \in Int /\ MaxLookup \in Nat /\ sentAt[t] \in Int /\ began[t] \in Int
        /\ \A v \in Values : LastHeld(v) \in Int
    BY <1>1, SecretAssumption, HeldGrows DEF IInv, TypeOK
  <2>1. CASE pc[t] = "expiry"
    <3>1. entry[t] # NoEntry /\ Foreign(t, entry[t])
      BY <1>1, <2>1 DEF IInv, EntriesAge, Refreshes, Refreshing, Refreshed
    <3> HIDE DEF LastHeld
    <3> QED BY <2>0, <2>1, <3>1 DEF Answer, Foreign
  <2>2. CASE pc[t] = "store"
    <3>1. found[t] \in Values /\ LastHeld(found[t]) >= sentAt[t] /\ began[t] <= sentAt[t]
      BY <1>1, <2>2 DEF IInv, FoundAge, Clocks, LookingUp
    <3> HIDE DEF LastHeld
    <3> QED BY <2>0, <2>2, <3>1 DEF Answer
  <2> QED BY <1>1, <2>1, <2>2, AnswerSteps DEF IInv, Refreshed
<1> QED BY <1>1, InitInv, StepInv, PTL DEF Spec, RefreshedValueAge
=============================================================================
