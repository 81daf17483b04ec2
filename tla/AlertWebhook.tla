---------------------------- MODULE AlertWebhook ----------------------------
(***************************************************************************)
(* The alert webhook (apps/alert_webhook/main.py): one process, handlers   *)
(* in the thread pool, one list _stored_alerts and no lock.  The           *)
(* interpreter may switch threads between the capacity check and the first *)
(* append, between two appends, and between len() and clear(); a single    *)
(* len, append or clear is atomic.                                         *)
(***************************************************************************)
EXTENDS Integers, Sequences, FiniteSets

CONSTANTS
    Posts,       \* POST /alerts requests
    Clears,      \* DELETE /alerts requests
    Batches,     \* the alert lists posted: sequences over {"object", "other"}
    MaxStored    \* max_stored_alerts

ASSUME WebhookAssumption ==
    /\ Posts \intersect Clears = {}
    /\ MaxStored \in Nat
    /\ \A b \in Batches : b \in Seq({"object", "other"})

VARIABLES
    alerts,   \* _stored_alerts: <<post, index>> for the alert at that index
    batch,    \* batch[p]: the alerts of post p
    admitted, \* admitted[p]: the credentials of p are accepted
    at,       \* at[h]: where handler h is, or its status
    next,     \* next[p]: the alert p appends next
    cleared,  \* cleared[c]: the number DELETE reports
    removed,  \* history: the alerts that a clear removed
    shared    \* history: shared[p]: the posts that were in the loop with p

webhookVars == <<alerts, batch, admitted, at, next, cleared, removed, shared>>

Handlers == Posts \union Clears
Statuses == {"200", "401", "413", "422"}

Alerts(p, n) == {<<p, i>> : i \in 1 .. n}
\* The posts between their check and their answer.
Appending == {p \in Posts : at[p] = "append"}

InStore == {alerts[i] : i \in 1 .. Len(alerts)}

WebhookInit ==
    /\ alerts = <<>>
    /\ batch \in [Posts -> Batches]
    /\ admitted \in [Handlers -> BOOLEAN]
    /\ at = [h \in Handlers |-> "idle"]
    /\ next = [p \in Posts |-> 1]
    /\ cleared = [c \in Clears |-> 0]
    /\ removed = {}
    /\ shared = [p \in Posts |-> {}]

\* verify_webhook_access
Authorize(h) ==
    /\ at[h] = "idle"
    /\ at' = [at EXCEPT ![h] = IF admitted[h] THEN "enter" ELSE "401"]
    /\ UNCHANGED <<alerts, batch, admitted, next, cleared, removed, shared>>

\* receive_alerts: no "alerts" in the payload, or no list.
RejectPayload(p) ==
    /\ at[p] = "enter"
    /\ at' = [at EXCEPT ![p] = "422"]
    /\ UNCHANGED <<alerts, batch, admitted, next, cleared, removed, shared>>

\* Mutant: off by one, a batch may pass the room by one alert.
CheckCapacityAbove(p) ==
    /\ at[p] = "enter"
    /\ LET room == MaxStored - Len(alerts)
       IN IF room <= 0 \/ Len(batch[p]) > room + 1
          THEN at' = [at EXCEPT ![p] = "413"] /\ UNCHANGED shared
          ELSE /\ at' = [at EXCEPT ![p] = "append"]
               /\ shared' = [s \in Posts |-> IF s = p THEN Appending
                                             ELSE IF s \in Appending THEN shared[s] \union {p}
                                             ELSE shared[s]]
    /\ UNCHANGED <<alerts, batch, admitted, next, cleared, removed>>

\* receive_alerts up to the loop: the room is computed once.
CheckCapacity(p) ==
    /\ at[p] = "enter"
    /\ LET room == MaxStored - Len(alerts)
       IN IF room <= 0 \/ Len(batch[p]) > room
          THEN at' = [at EXCEPT ![p] = "413"] /\ UNCHANGED shared
          ELSE /\ at' = [at EXCEPT ![p] = "append"]
               /\ shared' = [s \in Posts |-> IF s = p THEN Appending
                                             ELSE IF s \in Appending THEN shared[s] \union {p}
                                             ELSE shared[s]]
    /\ UNCHANGED <<alerts, batch, admitted, next, cleared, removed>>

\* Mutant: an alert that is no object is skipped.
AppendOrSkip(p) ==
    /\ at[p] = "append"
    /\ next[p] <= Len(batch[p])
    /\ alerts' = IF batch[p][next[p]] = "other" THEN alerts
                 ELSE Append(alerts, <<p, next[p]>>)
    /\ next' = [next EXCEPT ![p] = @ + 1]
    /\ UNCHANGED <<at, batch, admitted, cleared, removed, shared>>

\* One turn of the loop: an alert that is no object ends the request with 422
\* and leaves what the earlier turns appended.
AppendAlert(p) ==
    /\ at[p] = "append"
    /\ next[p] <= Len(batch[p])
    /\ IF batch[p][next[p]] = "other"
       THEN at' = [at EXCEPT ![p] = "422"] /\ UNCHANGED <<alerts, next>>
       ELSE /\ alerts' = Append(alerts, <<p, next[p]>>)
            /\ next' = [next EXCEPT ![p] = @ + 1]
            /\ UNCHANGED at
    /\ UNCHANGED <<batch, admitted, cleared, removed, shared>>

Accept(p) ==
    /\ at[p] = "append"
    /\ next[p] > Len(batch[p])
    /\ at' = [at EXCEPT ![p] = "200"]
    /\ UNCHANGED <<alerts, batch, admitted, next, cleared, removed, shared>>

\* Mutant: the room left is reported instead of the count.
CountRoomForClear(c) ==
    /\ at[c] = "enter"
    /\ cleared' = [cleared EXCEPT ![c] = MaxStored - Len(alerts)]
    /\ at' = [at EXCEPT ![c] = "clear"]
    /\ UNCHANGED <<alerts, batch, admitted, next, removed, shared>>

\* clear_alerts: len, then clear.
CountForClear(c) ==
    /\ at[c] = "enter"
    /\ cleared' = [cleared EXCEPT ![c] = Len(alerts)]
    /\ at' = [at EXCEPT ![c] = "clear"]
    /\ UNCHANGED <<alerts, batch, admitted, next, removed, shared>>

Clear(c) ==
    /\ at[c] = "clear"
    /\ removed' = removed \union InStore
    /\ alerts' = <<>>
    /\ at' = [at EXCEPT ![c] = "200"]
    /\ UNCHANGED <<batch, admitted, next, cleared, shared>>

HandlersDone == (\A h \in Handlers : at[h] \in Statuses) /\ UNCHANGED webhookVars

WebhookNext ==
    \/ \E h \in Handlers : Authorize(h)
    \/ \E p \in Posts : RejectPayload(p) \/ CheckCapacity(p) \/ AppendAlert(p) \/ Accept(p)
    \/ \E c \in Clears : CountForClear(c) \/ Clear(c)
    \/ HandlersDone

WebhookSpec == WebhookInit /\ [][WebhookNext]_webhookVars

----------------------------------------------------------------------------
WebhookTypeOK ==
    /\ alerts \in Seq(Posts \X Nat)
    /\ batch \in [Posts -> Batches]
    /\ admitted \in [Handlers -> BOOLEAN]
    /\ at \in [Handlers -> {"idle", "enter", "append", "clear"} \union Statuses]
    /\ next \in [Posts -> Nat \ {0}]
    /\ cleared \in [Clears -> Nat]
    /\ removed \subseteq Posts \X Nat
    /\ shared \in [Posts -> SUBSET Posts]

\* The cap is checked before the loop and not in it, so posts that share the
\* loop can pass it.  A post that shares it with nobody never does, whatever
\* clears run meanwhile: the room it found is still there for what it has yet
\* to append.
SolePostKeepsCap ==
    \A p \in Appending :
        shared[p] = {} => Len(alerts) + Len(batch[p]) - (next[p] - 1) <= MaxStored

\* Nothing is lost or made up: an accepted batch was stored whole, a refused
\* one not at all, an invalid one up to its first bad alert, and what is no
\* longer there was removed by a clear.  Posts interleave in the list, but the
\* alerts of one post keep their order and none is stored twice.
BatchAccounting ==
    /\ \A p \in Posts :
        {a \in InStore \union removed : a[1] = p} =
            CASE at[p] = "200" -> Alerts(p, Len(batch[p]))
              [] at[p] \in {"append", "422"} -> Alerts(p, next[p] - 1)
              [] OTHER -> {}
    /\ \A i, j \in 1 .. Len(alerts) :
        i < j /\ alerts[i][1] = alerts[j][1] => alerts[i][2] < alerts[j][2]
=============================================================================
