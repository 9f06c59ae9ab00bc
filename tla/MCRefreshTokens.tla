-------------------------- MODULE MCRefreshTokens --------------------------
(***************************************************************************)
(* RefreshTokens for TLC.  Three requests are enough for two that race and *)
(* a third that overtakes them; the number of tokens bounds logins plus    *)
(* rotations.                                                              *)
(***************************************************************************)
EXTENDS RefreshTokens
=============================================================================
