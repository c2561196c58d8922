--------------------------- MODULE MCExecutionLease ---------------------------
(* Instances of ExecutionLease for TLC. *)
EXTENDS ExecutionLease, TLC

CONSTANTS p1, p2, p3, a, b, c

\* Every process drew an owner id of its own.
OwnIds == p1 :> a @@ p2 :> b @@ p3 :> c
===============================================================================
