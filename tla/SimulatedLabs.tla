--------------------------- MODULE SimulatedLabs ---------------------------
(***************************************************************************)
(* The labs without a backend (labs/circuit_breaker.py, sse_exhaustion.py, *)
(* file_upload.py, tool_router.py, authz.py): a result is a function of    *)
(* the request.  A result has the fields that the metrics read; wording    *)
(* and events are left out.                                                *)
(***************************************************************************)
EXTENDS Integers

LabModes == {"vulnerable", "hardened"}

\* circuit_breaker.py
SafeCapacity == 100
CriticalCapacity == 200

\* sse_exhaustion.py
MaxStreamsPerTenant == 50

\* Both labs, and the write storm, take 1 to 1000 units.
UnitsAllowed(n) == n \in 1 .. 1000

Above(n, cap) == IF n > cap THEN n - cap ELSE 0

CircuitBreaker(mode, requested) ==
    LET shed == IF mode = "hardened" THEN Above(requested, SafeCapacity) ELSE 0
        accepted == requested - shed
    IN  [blocked   |-> shed > 0,
         requested |-> requested,
         accepted  |-> accepted,
         shed      |-> shed,
         failures  |-> IF mode = "vulnerable"
                       THEN Above(requested, CriticalCapacity) ELSE 0,
         queue     |-> accepted,
         p99       |-> 100 + accepted * 2,
         state     |-> IF shed > 0 THEN 1 ELSE 0]

\* Mutant: the count below the cap is negative.
OrphanedUnclamped(accepted) == accepted - MaxStreamsPerTenant

\* _simulate_orphaned_streams_vulnerable
Orphaned(accepted) == Above(accepted, MaxStreamsPerTenant)

SseExhaustion(mode, requested, seconds) ==
    LET rejected == IF mode = "hardened" THEN Above(requested, MaxStreamsPerTenant) ELSE 0
        accepted == requested - rejected
    IN  [blocked   |-> rejected > 0,
         requested |-> requested,
         accepted  |-> accepted,
         rejected  |-> rejected,
         active    |-> accepted,
         orphaned  |-> IF mode = "vulnerable" THEN Orphaned(accepted) ELSE 0,
         workers   |-> accepted,
         memory    |-> (accepted * seconds) \div 60,
         cleanup   |-> mode = "hardened"]

FileTypesAllowed == {"pdf", "docx", "txt", "svg", "html"}

FileUpload(mode, hidden, active, egress) ==
    LET hardened == mode = "hardened"
        blocked == hardened /\ (hidden \/ active \/ egress)
    IN  [blocked    |-> blocked,
         extraction |-> IF ~hardened THEN "unsafe"
                        ELSE IF blocked THEN "blocked" ELSE "sandboxed",
         sandbox    |-> hardened,
         egress     |-> hardened /\ egress,
         active     |-> hardened /\ active,
         hidden     |-> hardened /\ hidden,
         wrapped    |-> hardened]

\* The poisoned context matches a pattern of _detect_injection: hardened mode
\* always blocks.
ToolRouter(mode) == [blocked |-> mode = "hardened"]

\* The fixed token of the lab, and the two checks of it.
BroadToken == [authenticated |-> TRUE, tenant |-> "tenant-b", scopes |-> {"read:basic"}]

CheckAccess(mode, token) ==
    /\ token.authenticated
    /\ mode = "hardened" => "pii:export" \in token.scopes /\ token.tenant = "tenant-a"

Authz(mode) == [blocked |-> ~CheckAccess(mode, BroadToken)]
=============================================================================
