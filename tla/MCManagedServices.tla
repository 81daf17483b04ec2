------------------------- MODULE MCManagedServices -------------------------
(* Instances of ManagedServices for TLC.  The tenants' ids and keys are the  *)
(* ones that could be taken for another tenant's: an id with a slash, a key   *)
(* that names a tenant, with and without a slash before it, and a key whose   *)
(* tenant is missing.                                                         *)
EXTENDS ManagedServices, TLC

CONSTANTS c1, c2

MCTenants == {<<>>, <<"a">>, <<"a", "b">>, <<"b">>}
MCKeys == {<<"b", "f">>, <<"tenants", "b", "f">>, <<"", "tenants", "staging-health", "check">>,
           <<"tenants", "staging-health", "check">>, <<"tenants", "", "f">>}
MCPrefixes == {<<>>, <<"tenants">>, <<"subtenants">>, <<"", "tenants">>,
               <<"tenants", "staging-health">>}
MCHealthTenant == <<"staging-health">>
MCHealthKey == <<"check">>

Symmetry == Permutations({c1, c2})
=============================================================================
