---------------------------- MODULE MCRedisLabs ----------------------------
(* Instances of RedisLabs for TLC.                                         *)
EXTENDS RedisLabs, TLC

CONSTANTS r1, r2

\* An id, the same id with spaces around it, one of spaces only, and the
\* name the shared key uses.
TenantIds == {"t", " t ", " ", "global"}

StripTable == ("t" :> "t") @@ (" t " :> "t") @@ (" " :> "") @@ ("global" :> "global")
=============================================================================
