--------------------------- MODULE MCTaskDispatch ---------------------------
(***************************************************************************)
(* Model checking TaskDispatch: one import that the admin route may start  *)
(* over (a render could not), and the instances that may serve it.         *)
(***************************************************************************)
EXTENDS TaskDispatch

MCMaxAttempts == [t \in Tasks |-> 2]
=============================================================================
