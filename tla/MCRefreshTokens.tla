--------------------------- MODULE MCRefreshTokens ---------------------------
(* RefreshTokens on small instances, for TLC. *)
EXTENDS RefreshTokens
=============================================================================
