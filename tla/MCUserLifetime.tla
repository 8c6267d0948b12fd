--------------------------- MODULE MCUserLifetime ---------------------------
(* Small instances of UserLifetime.                                         *)
EXTENDS UserLifetime
=============================================================================
