-------------------------- MODULE MCRequestOverlap ---------------------------
(* RequestOverlap on small instances, for TLC. *)
EXTENDS RequestOverlap
=============================================================================
