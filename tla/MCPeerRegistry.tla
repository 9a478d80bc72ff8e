--------------------------- MODULE MCPeerRegistry ---------------------------
(* Small instances of PeerRegistry for TLC.                                *)
EXTENDS PeerRegistry

(* After a fault, which the properties mostly except, one handler less     *)
(* runs at a time.                                                         *)
AfterFault ==
  (\E c \in Client : "fault" \in past[c]) => \E t \in Task : task[t] = Idle

Symmetry == Permutations(Client) \cup Permutations(Task)
=============================================================================
