-------------------------- MODULE MCSecretProvider --------------------------
(* Instances of SecretProvider for TLC: interchangeable threads.           *)
EXTENDS SecretProvider, TLC

CONSTANTS t1, t2

Symmetry == Permutations({t1, t2})
=============================================================================
