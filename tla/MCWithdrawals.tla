---------------------------- MODULE MCWithdrawals ----------------------------
(* Withdrawals on small instances, for TLC. *)
EXTENDS Withdrawals, TLC

(* Sessions are interchangeable and so are organizations: no action and no   *)
(* property names one.                                                       *)
Symmetry == Permutations(Sessions) \cup Permutations(Organizations)
=============================================================================
