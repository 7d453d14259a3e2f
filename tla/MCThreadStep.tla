---------------------------- MODULE MCThreadStep ----------------------------
(* ThreadStep on the programs of StepPrograms, for TLC. *)
EXTENDS ThreadStep, StepPrograms

=============================================================================
