------------------------- MODULE MCRequestPipeline -------------------------
(* Instances of RequestPipeline for TLC.                                   *)
EXTENDS RequestPipeline, TLC

CONSTANTS q1, q2, t1, t2

Plain == [path |-> "lab", token |-> "valid", tenant |-> t1, role |-> "lab_runner",
          tenantA |-> None, tenantB |-> t2, mode |-> "hardened", oversized |-> FALSE,
          preflight |-> "no", host |-> "trusted"]
Cache == [Plain EXCEPT !.path = "prompt-cache"]

\* One request for each decision of the pipeline.
EveryInput ==
    {Plain,
     [Plain EXCEPT !.token = "none"],
     [Plain EXCEPT !.token = "unreadable"],
     [Plain EXCEPT !.token = "invalid"],
     [Plain EXCEPT !.role = "observer"],
     [Plain EXCEPT !.mode = "vulnerable"],
     [Plain EXCEPT !.mode = "other"],
     [Plain EXCEPT !.path = "docs"],
     [Plain EXCEPT !.oversized = TRUE],
     [Plain EXCEPT !.preflight = "allowed"],
     [Plain EXCEPT !.preflight = "refused", !.path = "docs"],
     [Plain EXCEPT !.host = "bare"],
     [Plain EXCEPT !.host = "unknown", !.preflight = "allowed"],
     [Plain EXCEPT !.path = "own-parameters"],
     Cache,
     [Cache EXCEPT !.tenantA = t2],
     [Cache EXCEPT !.tenantA = t1, !.tenantB = t1],
     [Cache EXCEPT !.tenantA = t2, !.role = "platform_admin"]}

\* Every profile, with the optional layers and without them.
AllDeployments ==
    {d \in [profile : {"local-lab", "production-like", "production-saas"},
            allowVulnerable : BOOLEAN, cors : BOOLEAN, trustedHosts : BOOLEAN] :
       /\ d.profile # "local-lab" => ~d.allowVulnerable
       /\ d.cors = d.trustedHosts}

RequestSymmetry == Permutations(Requests)
=============================================================================
