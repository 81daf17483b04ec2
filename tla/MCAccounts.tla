----------------------------- MODULE MCAccounts -----------------------------
(***************************************************************************)
(* Instances for TLC of three components that keep accounts of concurrent  *)
(* requests in shared state: the write storm's table, the webhook's list,  *)
(* the registry of metrics.  They share nothing, so a behaviour of one is  *)
(* checked while the other two rest.                                       *)
(***************************************************************************)
EXTENDS WriteStormLab, AlertWebhook, LabMetrics, TLC

CONSTANTS
    r1, r2, r3,  \* the requests: write storm runs, posts or lab runs
    c1           \* a clear

VARIABLE part   \* the component that moves

accountsVars == <<vars, webhookVars, metricsVars, part>>

\* An empty list, lists below the cap and, with a bad alert in the middle, at it.
SmallBatches ==
    {<<>>, <<"object">>, <<"object", "object">>, <<"object", "other", "object">>}

\* Below the range of the labs, and on both sides of each threshold: 50, 100
\* and 200.
UnitChoices == {0, 1, 100, 101, 201}

TenantIds == {"t", "u"}

\* What a component that rests is asked.
StormRests ==
    /\ tenant = [r \in Runs |-> "t"]
    /\ mode = [r \in Runs |-> "hardened"]
    /\ requested = [r \in Runs |-> 0]

WebhookRests ==
    /\ batch = [p \in Posts |-> <<>>]
    /\ admitted = [h \in Handlers |-> FALSE]

AccountsInit ==
    /\ Init /\ WebhookInit /\ MetricsInit
    /\ \/ part = "storm" /\ WebhookRests
       \/ part = "webhook" /\ StormRests
       \/ part = "metrics" /\ StormRests /\ WebhookRests

AccountsNext ==
    /\ \/ part = "storm" /\ Next /\ UNCHANGED <<webhookVars, metricsVars>>
       \/ part = "webhook" /\ WebhookNext /\ UNCHANGED <<vars, metricsVars>>
       \/ part = "metrics" /\ MetricsNext /\ UNCHANGED <<vars, webhookVars>>
    /\ UNCHANGED part

AccountsSpec == AccountsInit /\ [][AccountsNext]_accountsVars

\* r3 is no lab run.
Symmetry == Permutations({r1, r2})
=============================================================================
