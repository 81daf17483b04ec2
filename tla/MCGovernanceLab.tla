-------------------------- MODULE MCGovernanceLab --------------------------
(* Instances of GovernanceLab for TLC.                                     *)
EXTENDS GovernanceLab, TLC

CONSTANTS r1, r2, t1, t2

\* Ids with no wildcard, none of which begins with another and a colon: a
\* tenant's pattern matches its own rows only.
LikeLiteral == [t \in Tenants |-> {t}]
=============================================================================
