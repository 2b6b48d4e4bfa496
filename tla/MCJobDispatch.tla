--------------------------- MODULE MCJobDispatch ---------------------------
(* Fault budgets for the finite instances of JobDispatch. *)
EXTENDS JobDispatch

Budget(c, d, r, p) ==
  [k \in FaultKind |-> CASE k = "crash" -> c [] k = "database" -> d
                         [] k = "rebalance" -> r [] k = "publish" -> p]

NoFaults == Budget(0, 0, 0, 0)
ServerFaults == Budget(1, 1, 0, 0)
AllFaults == Budget(1, 1, 1, 1)
=============================================================================
