--------------------------- MODULE MCSourceIntake ---------------------------
(***************************************************************************)
(* Instances of SourceIntake for TLC: one direct, one proxied and one      *)
(* remote source of a project, so that every pair of them competes.        *)
(***************************************************************************)
EXTENDS SourceIntake, TLC
=============================================================================
