---------------------------- MODULE MCAuditTrail ----------------------------
(* Who sends which query, for the finite instances of AuditTrail. *)
EXTENDS AuditTrail

CONSTANTS k1, k2, q1

\* All queries of one user.
OneKey == [q \in Queries |-> k1]

\* One of the users sends q1, the other one the rest.
TwoKeys == [q \in Queries |-> IF q = q1 THEN k1 ELSE k2]
=============================================================================
