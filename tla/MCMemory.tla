------------------------------ MODULE MCMemory ------------------------------
(* What one relay process keeps in memory, for TLC: the clients and links, *)
(* the window and listener of Signaling, and the index of CacheTracker.    *)
(* The three share no variable that a step of one changes and the other    *)
(* reads, but that a client leaves: each behaviour takes the steps of one  *)
(* part, the gate those of one client.                                     *)
EXTENDS Signaling, CacheTracker

VARIABLE part   \* whose steps are taken: a client stands for its gate

memoryVars == <<vars, trackerVars, part>>

MCInit ==
  /\ Init /\ TrackerInit
  /\ part \in {"links", "index"} \cup Client

(* The gate of c, beside the listener.                                     *)
GateOf(c) ==
  \/ Tick \/ Listening
  \/ SignalRefused(c) \/ Signal(c)
  \/ Register(c) \/ Lapse(c) \/ Disconnect(c) \/ Cleanup(c) \/ DisconnectFails(c)

MCNext ==
  /\ part' = part
  /\ \/ part = "links" /\ LinksNext /\ UNCHANGED trackerVars
     \/ part = "index" /\ TrackerNext /\ UNCHANGED vars
     \/ part \in Client /\ GateOf(part) /\ UNCHANGED trackerVars

MCSpec == MCInit /\ [][MCNext]_memoryVars

Symmetry == Permutations(Client) \cup Permutations(Event) \cup Permutations(Peer)
              \cup Permutations(Author) \cup Permutations(Kind)
=============================================================================
