----------------------------- MODULE MCAuditLog ------------------------------
(* AuditLog on small instances, for TLC. *)
EXTENDS AuditLog, TLC

Symmetry == Permutations(Writers) \cup Permutations(Actions)
=============================================================================
