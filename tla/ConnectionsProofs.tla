------------------------- MODULE ConnectionsProofs -------------------------
(***************************************************************************)
(* Proofs about the connection maps, for every finite set of clients and   *)
(* every limit.  The inductive invariant is ConnInv, a property of a pair  *)
(* of maps, so that the lemmas serve every module that calls the           *)
(* operations.                                                             *)
(***************************************************************************)
EXTENDS Connections, FiniteSetTheorems, TLAPS

ConnInv(k) ==
  /\ k \in ConnType
  /\ \A s \in Client : Cardinality(k.peers[s]) <= MaxPeersPerSuper
  /\ \A p \in Client : k.super[p] # NoClient => p \in k.peers[k.super[p]]

-----------------------------------------------------------------------------
(* Each operation on the maps keeps the invariant.                         *)

(* The cardinality of a set of clients is a natural number.                *)
LEMMA ClientSets ==
  ASSUME NEW S \in SUBSET Client
  PROVE  IsFiniteSet(S) /\ Cardinality(S) \in Nat
BY ClientsAssumption, FS_Subset, FS_CardinalityType

(* The empty maps satisfy the invariant.                                   *)
LEMMA NoLinksInv == ConnInv(NoLinks)
<1>1. Cardinality({}) = 0
  BY FS_EmptySet
<1> QED
  BY <1>1, ConnectionsAssumption, ClientsAssumption DEF ConnInv, ConnType, NoLinks

(* A report of a connection: the set that grows had a slot left.           *)
LEMMA RegisterConnectionInv ==
  ASSUME NEW k, ConnInv(k), NEW s \in Client, NEW p \in Client
  PROVE  ConnInv(RegisterConnection(k, s, p))
<1> DEFINE grown == [peers |-> [k.peers EXCEPT ![s] = @ \cup {p}],
                     super |-> [k.super EXCEPT ![p] = s]]
<1>1. CASE IsSuperPeerFull(k, s)
  BY <1>1 DEF RegisterConnection
<1>2. CASE ~ IsSuperPeerFull(k, s)
  <2>1. RegisterConnection(k, s, p) = grown
    BY <1>2 DEF RegisterConnection
  <2>2. grown \in ConnType
    BY DEF ConnInv, ConnType
  <2>3. Cardinality(k.peers[s] \cup {p}) <= MaxPeersPerSuper
    <3>1. k.peers[s] \in SUBSET Client
      BY DEF ConnInv, ConnType
    <3>2. IsFiniteSet(k.peers[s]) /\ Cardinality(k.peers[s]) \in Nat
      BY <3>1, ClientSets
    <3>3. Cardinality(k.peers[s]) < MaxPeersPerSuper
      BY <1>2, <3>2, ConnectionsAssumption DEF IsSuperPeerFull
    <3>4. \/ Cardinality(k.peers[s] \cup {p}) = Cardinality(k.peers[s]) + 1
          \/ Cardinality(k.peers[s] \cup {p}) = Cardinality(k.peers[s])
      BY <3>2, FS_AddElement
    <3> QED
      BY <3>2, <3>3, <3>4, ConnectionsAssumption
  <2>4. \A t \in Client : Cardinality(grown.peers[t]) <= MaxPeersPerSuper
    BY <2>3 DEF ConnInv, ConnType
  <2>5. \A q \in Client : grown.super[q] # NoClient => q \in grown.peers[grown.super[q]]
    BY DEF ConnInv, ConnType
  <2> QED
    BY <2>1, <2>2, <2>4, <2>5 DEF ConnInv
<1> QED
  BY <1>1, <1>2

(* A peer leaves the super peer it points at.                              *)
LEMMA RemoveConnectionInv ==
  ASSUME NEW k, ConnInv(k), NEW p \in Client
  PROVE  ConnInv(RemoveConnection(k, p)) /\ RemoveConnection(k, p).super[p] = NoClient
<1> DEFINE s == k.super[p]
           left == [peers |-> [k.peers EXCEPT ![s] = @ \ {p}],
                    super |-> [k.super EXCEPT ![p] = NoClient]]
<1>1. CASE s = NoClient
  BY <1>1 DEF RemoveConnection
<1>2. CASE s # NoClient
  <2>1. RemoveConnection(k, p) = left /\ s \in Client
    BY <1>2 DEF RemoveConnection, ConnInv, ConnType
  <2>2. left \in ConnType
    BY <2>1 DEF ConnInv, ConnType
  <2>3. Cardinality(k.peers[s] \ {p}) <= MaxPeersPerSuper
    <3>1. k.peers[s] \in SUBSET Client /\ k.peers[s] \ {p} \in SUBSET Client
      BY <2>1 DEF ConnInv, ConnType
    <3>2. Cardinality(k.peers[s] \ {p}) <= Cardinality(k.peers[s])
      BY <3>1, ClientSets, FS_Subset
    <3>3. Cardinality(k.peers[s]) <= MaxPeersPerSuper
      BY <2>1 DEF ConnInv
    <3>4. Cardinality(k.peers[s] \ {p}) \in Nat /\ Cardinality(k.peers[s]) \in Nat
      BY <3>1, ClientSets
    <3> QED
      BY <3>2, <3>3, <3>4, ConnectionsAssumption
  <2>4. \A t \in Client : Cardinality(left.peers[t]) <= MaxPeersPerSuper
    BY <2>1, <2>3 DEF ConnInv, ConnType
  <2>5. \A q \in Client : left.super[q] # NoClient => q \in left.peers[left.super[q]]
    BY <2>1 DEF ConnInv, ConnType
  <2>6. left.super[p] = NoClient
    BY DEF ConnInv, ConnType
  <2> QED
    BY <2>1, <2>2, <2>4, <2>5, <2>6 DEF ConnInv
<1> QED
  BY <1>1, <1>2

(* A super peer disconnects: by the invariant its set lists every peer     *)
(* that points at it, so afterwards nothing names it as a super peer.      *)
LEMMA HandleSuperPeerDisconnectInv ==
  ASSUME NEW k, ConnInv(k), NEW s \in Client
  PROVE  /\ ConnInv(HandleSuperPeerDisconnect(k, s))
         /\ Forgotten(HandleSuperPeerDisconnect(k, s), s)
<1> DEFINE h == HandleSuperPeerDisconnect(k, s)
<1>1. h \in ConnType
  BY DEF HandleSuperPeerDisconnect, Orphans, ConnInv, ConnType
<1>2. Cardinality({}) = 0
  BY FS_EmptySet
<1>3. \A t \in Client : h.peers[t] = IF t = s THEN {} ELSE k.peers[t]
  BY DEF HandleSuperPeerDisconnect, ConnInv, ConnType
<1>4. \A t \in Client : Cardinality(h.peers[t]) <= MaxPeersPerSuper
  BY <1>2, <1>3, ConnectionsAssumption DEF ConnInv
<1>5. \A q \in Client : h.super[q] = IF q \in k.peers[s] THEN NoClient ELSE k.super[q]
  BY DEF HandleSuperPeerDisconnect, Orphans
<1>6. \A q \in Client : h.super[q] # s
  BY <1>5, ClientsAssumption DEF ConnInv
<1>7. \A q \in Client : h.super[q] # NoClient => q \in h.peers[h.super[q]]
  <2> SUFFICES ASSUME NEW q \in Client, h.super[q] # NoClient
               PROVE  q \in h.peers[h.super[q]]
    OBVIOUS
  <2>1. h.super[q] = k.super[q] /\ h.super[q] # s
    BY <1>5, <1>6
  <2>2. q \in k.peers[k.super[q]] /\ k.super[q] \in Client
    BY <2>1 DEF ConnInv, ConnType
  <2> QED
    BY <1>3, <2>1, <2>2
<1> QED
  BY <1>1, <1>3, <1>4, <1>6, <1>7 DEF ConnInv, Forgotten

(* A client is cleaned up: nothing names it as a super peer afterwards.    *)
LEMMA CleanupPeerConnectionsInv ==
  ASSUME NEW k, ConnInv(k), NEW c \in Client
  PROVE  /\ ConnInv(CleanupPeerConnections(k, c))
         /\ Forgotten(CleanupPeerConnections(k, c), c)
BY RemoveConnectionInv, HandleSuperPeerDisconnectInv DEF CleanupPeerConnections

-----------------------------------------------------------------------------
(* Whoever calls the operations, and in whatever order.                    *)
LEMMA ConnInvariance == ConnSpec => []ConnInv(links)
<1>1. ConnInit => ConnInv(links)
  BY NoLinksInv DEF ConnInit
<1>2. ConnInv(links) /\ [ConnNext]_links => ConnInv(links)'
  <2> SUFFICES ASSUME ConnInv(links), [ConnNext]_links PROVE ConnInv(links')
    BY DEF ConnInv, ConnType
  <2> QED
    BY NoLinksInv, RegisterConnectionInv, HandleSuperPeerDisconnectInv,
       CleanupPeerConnectionsInv DEF ConnNext
<1> QED
  BY <1>1, <1>2, PTL DEF ConnSpec

(* What connections.ts guarantees: types, no more peers on a super peer    *)
(* than MAX_PEERS_PER_SUPER, and no pointer to a super peer that does not  *)
(* list the peer.                                                          *)
THEOREM ConnectionsSafe ==
  ConnSpec => [](ConnTypeOK /\ WithinCapacity /\ PointerIsListed)
<1>1. ConnInv(links) => ConnTypeOK /\ WithinCapacity /\ PointerIsListed
  BY DEF ConnInv, ConnTypeOK, WithinCapacity, PointerIsListed
<1> QED
  BY <1>1, ConnInvariance, PTL

(* cleanupPeerConnections of connections.ts leaves nothing that names the  *)
(* client as a super peer.                                                 *)
THEOREM CleanupIsComplete == ConnSpec => CleanupForgets
<1>1. ConnInv(links) =>
        [\A c \in Client : links' = CleanupPeerConnections(links, c) /\ links' # links
                             => Forgotten(links', c)]_links
  BY CleanupPeerConnectionsInv
<1> QED
  BY <1>1, ConnInvariance, PTL DEF CleanupForgets
=============================================================================
