---------------------------- MODULE Connections ----------------------------
(***************************************************************************)
(* peers/connections.ts: which peers are connected to which super peer.    *)
(* superPeerConnections maps a super peer to the set of its peers and      *)
(* peerToSuper maps a peer back to its super peer; a super peer absent     *)
(* from the first map is one with the empty set, a peer absent from the    *)
(* second is mapped to NoClient.  Each operation is an operator on the     *)
(* pair of maps (a record), since one handler may call two of them.        *)
(***************************************************************************)
EXTENDS Clients

CONSTANT MaxPeersPerSuper      \* MAX_PEERS_PER_SUPER (10)

ASSUME ConnectionsAssumption == MaxPeersPerSuper \in Nat \ {0}

VARIABLE links

ConnType == [peers : [Client -> SUBSET Client],
             super : [Client -> Client \cup {NoClient}]]

NoLinks == [peers |-> [c \in Client |-> {}],
            super |-> [c \in Client |-> NoClient]]

(* Mutant: off by one at the limit.                                        *)
IsSuperPeerFullLate(k, s) == Cardinality(k.peers[s]) > MaxPeersPerSuper

IsSuperPeerFull(k, s) == Cardinality(k.peers[s]) >= MaxPeersPerSuper

(* registerConnection: a full super peer refuses, even a peer it has.      *)
(* The set of a super peer the peer was on before is left as it is.        *)
RegisterConnection(k, s, p) ==
  IF IsSuperPeerFull(k, s) THEN k
  ELSE [peers |-> [k.peers EXCEPT ![s] = @ \cup {p}],
        super |-> [k.super EXCEPT ![p] = s]]

(* Mutant: the pointer of the peer that leaves is not deleted.             *)
RemoveConnectionKeepsPointer(k, p) ==
  IF k.super[p] = NoClient THEN k
  ELSE [k EXCEPT !.peers[k.super[p]] = @ \ {p}]

(* Mutant: the slot of the peer that leaves is not freed.                  *)
RemoveConnectionKeepsSlot(k, p) == [k EXCEPT !.super[p] = NoClient]

(* removeConnection: the peer leaves the super peer it points at.          *)
RemoveConnection(k, p) ==
  IF k.super[p] = NoClient THEN k
  ELSE [peers |-> [k.peers EXCEPT ![k.super[p]] = @ \ {p}],
        super |-> [k.super EXCEPT ![p] = NoClient]]

(* handleSuperPeerDisconnect: every peer of the set loses its pointer,     *)
(* wherever it points, and the set is dropped; Orphans is its result.      *)
Orphans(k, s) == k.peers[s]

(* Mutant: the pointers are deleted but the super peer's set is kept.      *)
HandleSuperPeerDisconnectKeepsSet(k, s) ==
  [k EXCEPT !.super = [p \in Client |-> IF p \in Orphans(k, s) THEN NoClient
                                                               ELSE k.super[p]]]

(* Mutant: the set of peers is reset to one undefined entry.            *)
HandleSuperPeerDisconnectUndefined(k, s) ==
  [peers |-> [k.peers EXCEPT ![s] = {NoClient}],
   super |-> [p \in Client |-> IF p \in Orphans(k, s) THEN NoClient
                                                     ELSE k.super[p]]]

HandleSuperPeerDisconnect(k, s) ==
  [peers |-> [k.peers EXCEPT ![s] = {}],
   super |-> [p \in Client |-> IF p \in Orphans(k, s) THEN NoClient
                                                     ELSE k.super[p]]]

(* Mutant: a peer that leaves is cleaned up as a peer only.                *)
CleanupPeerConnectionsAsPeer(k, p) == RemoveConnection(k, p)

CleanupPeerConnections(k, p) ==
  HandleSuperPeerDisconnect(RemoveConnection(k, p), p)

-----------------------------------------------------------------------------
(* The maps on their own: any caller, any order.  A client may report      *)
(* itself; a restart of the process empties the maps.                      *)
ConnInit == links = NoLinks

ConnNext ==
  \/ \E s, p \in Client : links' = RegisterConnection(links, s, p)
  \/ \E s \in Client : links' = HandleSuperPeerDisconnect(links, s)
  \/ \E p \in Client : links' = CleanupPeerConnections(links, p)
  \/ links' = NoLinks

ConnSpec == ConnInit /\ [][ConnNext]_links

-----------------------------------------------------------------------------
(* Properties.                                                             *)

(* The maps hold clients only, in both directions.                         *)
ConnTypeOK == links \in ConnType

(* No super peer ever holds more peers than MAX_PEERS_PER_SUPER.           *)
WithinCapacity == \A s \in Client : Cardinality(links.peers[s]) <= MaxPeersPerSuper

(* A peer's pointer is never left at a super peer that no longer lists it: *)
(* otherwise removeConnection would free no slot when the peer leaves.     *)
PointerIsListed ==
  \A p \in Client : links.super[p] # NoClient => p \in links.peers[links.super[p]]

(* Once a client's connections are cleaned up nothing names it as a super  *)
(* peer: no pointer leads to it and its own set is empty, though the only  *)
(* pointers the code deletes are those of the peers it lists.              *)
Forgotten(k, c) == /\ k.peers[c] = {}
                   /\ \A p \in Client : k.super[p] # c

CleanupForgets ==
  [][\A c \in Client : links' = CleanupPeerConnections(links, c) /\ links' # links
                         => Forgotten(links', c)]_links
=============================================================================
