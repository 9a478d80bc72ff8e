---------------------------- MODULE MCPeerClient ----------------------------
(* A small instance of PeerClient for TLC: two browsers, each of which the *)
(* relay feeds one of two events.                                          *)
EXTENDS PeerClient

CONSTANTS b1, b2, e1, e2

FedDef    == {<<b1, e1>>, <<b2, e2>>}
MortalDef == {<<b2, e2>>}
=============================================================================
