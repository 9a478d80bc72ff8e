--------------------------- MODULE MCProfileCache ---------------------------
(* Small instances of ProfileCache for TLC.                                *)
EXTENDS ProfileCache
=============================================================================
