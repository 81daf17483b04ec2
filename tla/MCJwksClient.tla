---------------------------- MODULE MCJwksClient ----------------------------
(* Instances of JwksClient for TLC: two interchangeable threads and keys.  *)
EXTENDS JwksClient, TLC

CONSTANTS t1, t2, k1, k2

Symmetry == Permutations({t1, t2}) \union Permutations({k1, k2})
=============================================================================
