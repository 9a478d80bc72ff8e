---------------------------- MODULE MCUpstream ----------------------------
(* Small instances of Upstream for TLC.                                    *)
EXTENDS Upstream
=============================================================================
