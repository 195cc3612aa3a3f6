---------------------------- MODULE MCTaskQueue ----------------------------
(***************************************************************************)
(* Model checking TaskQueue: a render export and an                        *)
(* import that the admin route may start over, two attempts each (the      *)
(* limits their services pass to enqueueTask), two workers.                *)
(***************************************************************************)
EXTENDS TaskQueue, TLC

CONSTANTS export, import

MCMaxAttempts == (export :> 2) @@ (import :> 2)
=============================================================================
