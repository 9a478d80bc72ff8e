------------------------- MODULE CacheTrackerProofs -------------------------
(***************************************************************************)
(* Proofs about the cache index, for every set of peers, events, authors   *)
(* and kinds.  None of the invariants is inductive alone: that the author  *)
(* and kind indices stay exact as a peer leaves needs that metadata belong *)
(* to held events, and which events those are needs the two primary        *)
(* indices to mirror each other.  Their conjunction IInv is inductive.     *)
(***************************************************************************)
EXTENDS CacheTracker, TLAPS

IInv == TrackerTypeOK /\ Mirror /\ MetaOnlyForHeld /\ IndicesExact

(* The empty maps satisfy the invariant.                                   *)
LEMMA InitIInv == TrackerInit => IInv
BY TrackerAssumption
DEF TrackerInit, IInv, TrackerTypeOK, Mirror, MetaOnlyForHeld, IndicesExact, NoMeta

-----------------------------------------------------------------------------
(* addEventToPeer keeps the invariant: the first metadata of an event      *)
(* enter both secondary indices, later ones enter neither.                 *)
LEMMA AddEventToPeerIInv ==
  ASSUME IInv, NEW p \in Peer, NEW e \in Event, NEW m \in Meta \cup {NoMeta},
         AddEventToPeer(p, e, m)
  PROVE  IInv'
<1> USE DEF IInv
<1>1. CASE m # NoMeta /\ eventMeta[e] = NoMeta
  <2>1. TrackerTypeOK'
    BY <1>1 DEF AddEventToPeer, TrackerTypeOK, Meta
  <2>2. Mirror'
    BY DEF AddEventToPeer, TrackerTypeOK, Mirror
  <2>3. MetaOnlyForHeld'
    BY <1>1 DEF AddEventToPeer, TrackerTypeOK, MetaOnlyForHeld
  <2>4. IndicesExact'
    <3>1. m \in Meta /\ m.pubkey \in Author /\ m.kind \in Kind
      BY <1>1 DEF Meta
    <3>2. /\ eventMeta' = [eventMeta EXCEPT ![e] = m]
          /\ authorEvents' = [authorEvents EXCEPT ![m.pubkey] = @ \cup {e}]
          /\ kindEvents' = [kindEvents EXCEPT ![m.kind] = @ \cup {e}]
      BY <1>1 DEF AddEventToPeer
    <3>3. /\ \A a \in Author : e \notin authorEvents[a]
          /\ \A k \in Kind : e \notin kindEvents[k]
      BY <1>1, TrackerAssumption DEF IndicesExact, NoMeta
    <3> QED
      BY <3>1, <3>2, <3>3 DEF IndicesExact, TrackerTypeOK
  <2> QED
    BY <2>1, <2>2, <2>3, <2>4
<1>2. CASE ~ (m # NoMeta /\ eventMeta[e] = NoMeta)
  <2>1. UNCHANGED <<eventMeta, authorEvents, kindEvents, now>>
    BY <1>2 DEF AddEventToPeer
  <2>2. /\ peerEvents' = [peerEvents EXCEPT ![p] = @ \cup {e}]
        /\ eventPeers' = [eventPeers EXCEPT ![e] = @ \cup {p}]
    BY DEF AddEventToPeer
  <2> QED
    BY <2>1, <2>2 DEF TrackerTypeOK, Mirror, MetaOnlyForHeld, IndicesExact
<1> QED
  BY <1>1, <1>2

(* removeEventMetadata keeps the secondary indices exact, whichever events *)
(* it is called for.                                                       *)
LEMMA RemoveEventMetadataExact ==
  ASSUME TrackerTypeOK, IndicesExact, NEW E \in SUBSET Event, RemoveEventMetadata(E)
  PROVE  /\ IndicesExact'
         /\ eventMeta' \in [Event -> Meta \cup {NoMeta}]
         /\ authorEvents' \in [Author -> SUBSET Event]
         /\ kindEvents' \in [Kind -> SUBSET Event]
         /\ \A e \in Event : eventMeta'[e] = IF e \in E THEN NoMeta ELSE eventMeta[e]
<1>1. \A e \in Event : eventMeta'[e] = IF e \in E THEN NoMeta ELSE eventMeta[e]
  BY DEF RemoveEventMetadata
<1>2. eventMeta' \in [Event -> Meta \cup {NoMeta}]
  BY DEF RemoveEventMetadata, TrackerTypeOK
<1>3. \A e \in Event, a \in Author :
        e \in authorEvents'[a] <=> e \in authorEvents[a] /\ e \notin E
  BY DEF RemoveEventMetadata, IndicesExact
<1>4. \A e \in Event, k \in Kind :
        e \in kindEvents'[k] <=> e \in kindEvents[k] /\ e \notin E
  BY DEF RemoveEventMetadata, IndicesExact
<1>5. authorEvents' \in [Author -> SUBSET Event] /\ kindEvents' \in [Kind -> SUBSET Event]
  BY DEF RemoveEventMetadata, TrackerTypeOK
<1>6. IndicesExact'
  BY <1>1, <1>3, <1>4, TrackerAssumption DEF IndicesExact, NoMeta
<1> QED
  BY <1>1, <1>2, <1>5, <1>6

(* removePeerFromCache keeps the invariant: the events it takes the        *)
(* metadata of are those nobody has any more.                              *)
LEMMA RemovePeerFromCacheIInv ==
  ASSUME IInv, NEW p \in Peer, RemovePeerFromCache(p)
  PROVE  IInv'
<1> USE DEF IInv
<1> DEFINE E == {e \in peerEvents[p] : eventPeers[e] \subseteq {p}}
<1>1. E \in SUBSET Event /\ RemoveEventMetadata(E)
  BY DEF RemovePeerFromCache, TrackerTypeOK
<1>2. /\ \A e \in Event : eventPeers'[e] = IF e \in peerEvents[p] THEN eventPeers[e] \ {p}
                                                                 ELSE eventPeers[e]
      /\ peerEvents' = [peerEvents EXCEPT ![p] = {}]
      /\ eventPeers' \in [Event -> SUBSET Peer] /\ now' = now
  BY DEF RemovePeerFromCache, TrackerTypeOK
<1>3. TrackerTypeOK'
  BY <1>1, <1>2, RemoveEventMetadataExact DEF TrackerTypeOK
<1>4. Mirror'
  BY <1>2 DEF Mirror, TrackerTypeOK
<1>5. MetaOnlyForHeld'
  <2> SUFFICES ASSUME NEW e \in Event, eventMeta'[e] # NoMeta PROVE eventPeers'[e] # {}
    BY DEF MetaOnlyForHeld
  <2>1. e \notin E /\ eventMeta[e] # NoMeta
    BY <1>1, RemoveEventMetadataExact
  <2>2. eventPeers[e] # {}
    BY <2>1 DEF MetaOnlyForHeld
  <2> QED
    BY <1>2, <2>1, <2>2 DEF TrackerTypeOK
<1> QED
  BY <1>1, <1>3, <1>4, <1>5, RemoveEventMetadataExact

(* pruneOldEvents keeps the invariant: by Mirror, an old event leaves      *)
(* every peer that has it.                                                 *)
LEMMA PruneOldEventsIInv ==
  ASSUME IInv, PruneOldEvents
  PROVE  IInv'
<1> USE DEF IInv
<1>1. OldEvents \in SUBSET Event /\ RemoveEventMetadata(OldEvents)
  BY DEF PruneOldEvents, OldEvents
<1>2. /\ \A e \in Event : eventPeers'[e] = IF e \in OldEvents THEN {} ELSE eventPeers[e]
      /\ \A q \in Peer : peerEvents'[q] = peerEvents[q]
                                            \ {e \in OldEvents : q \in eventPeers[e]}
      /\ peerEvents' \in [Peer -> SUBSET Event]
      /\ eventPeers' \in [Event -> SUBSET Peer] /\ now' = now
  BY DEF PruneOldEvents, TrackerTypeOK
<1>3. TrackerTypeOK'
  BY <1>1, <1>2, RemoveEventMetadataExact DEF TrackerTypeOK
<1>4. Mirror'
  BY <1>1, <1>2 DEF Mirror
<1>5. MetaOnlyForHeld'
  BY <1>1, <1>2, RemoveEventMetadataExact DEF MetaOnlyForHeld
<1> QED
  BY <1>1, <1>3, <1>4, <1>5, RemoveEventMetadataExact

(* Every step keeps the invariant.                                         *)
LEMMA NextIInv == IInv /\ [TrackerNext]_trackerVars => IInv'
<1> SUFFICES ASSUME IInv, [TrackerNext]_trackerVars PROVE IInv'
  OBVIOUS
<1>1. ASSUME NEW p \in Peer, NEW e \in Event, NEW m \in Meta \cup {NoMeta},
             AddEventToPeer(p, e, m)
      PROVE  IInv'
  BY <1>1, AddEventToPeerIInv
<1>2. ASSUME NEW p \in Peer, RemovePeerFromCache(p) PROVE IInv'
  BY <1>2, RemovePeerFromCacheIInv
<1>3. CASE PruneOldEvents
  BY <1>3, PruneOldEventsIInv
<1>4. CASE TimePasses
  BY <1>4 DEF TimePasses, IInv, TrackerTypeOK, Mirror, MetaOnlyForHeld, IndicesExact
<1>5. CASE UNCHANGED trackerVars
  BY <1>5 DEF trackerVars, IInv, TrackerTypeOK, Mirror, MetaOnlyForHeld, IndicesExact
<1> QED
  BY <1>1, <1>2, <1>3, <1>4, <1>5 DEF TrackerNext

(* The index of cache-tracker.ts stays well formed and consistent: types,  *)
(* the two primary indices mirror each other, metadata belong to held      *)
(* events, the author and kind indices are exact.                          *)
THEOREM IndexConsistent == TrackerSpec => []IInv
BY InitIInv, NextIInv, PTL DEF TrackerSpec

(* The five maps of cache-tracker.ts keep their types.                     *)
THEOREM TrackerTypes == TrackerSpec => []TrackerTypeOK
BY IndexConsistent, PTL DEF IInv

(* peerEvents and eventPeers are always two directions of one relation.    *)
THEOREM PrimaryIndicesMirror == TrackerSpec => []Mirror
BY IndexConsistent, PTL DEF IInv

(* Metadata is kept only for events a peer has, and the author and kind    *)
(* indices hold exactly the events whose metadata name them.               *)
THEOREM SecondaryIndicesExact == TrackerSpec => [](MetaOnlyForHeld /\ IndicesExact)
BY IndexConsistent, PTL DEF IInv

-----------------------------------------------------------------------------
(* findPeersForFilter finds, in every state the index can be in and for    *)
(* every filter, exactly the matches of the reference definition.          *)
LEMMA FilterFromIInv == IInv => FilterExact
<1> SUFFICES ASSUME IInv, NEW f \in Filter, NEW x \in Peer, NEW e \in Event, NEW p \in Peer
             PROVE  <<e, p>> \in FindPeersForFilter(f, x)
                      <=> /\ Indexable(f) /\ Matches(f, e)
                          /\ e \in peerEvents[p] /\ p # x
  BY DEF IInv, TrackerTypeOK, FilterExact, Announced
<1>1. f.ids \in SUBSET Event /\ f.authors \in SUBSET Author /\ f.kinds \in SUBSET Kind
  BY DEF Filter
<1> SUFFICES (/\ e \in Candidates(f) /\ InTime(f, e)
              /\ p \in eventPeers[e] \ {x})
             <=> (/\ Indexable(f) /\ Matches(f, e)
                  /\ e \in peerEvents[p] /\ p # x)
  BY DEF FindPeersForFilter
<1>2. e \in peerEvents[p] <=> p \in eventPeers[e]
  BY DEF IInv, Mirror
<1>3. (\E a \in f.authors : e \in authorEvents[a]) <=> eventMeta[e].pubkey \in f.authors
  BY <1>1 DEF IInv, IndicesExact
<1>4. (\E k \in f.kinds : e \in kindEvents[k]) <=> eventMeta[e].kind \in f.kinds
  BY <1>1 DEF IInv, IndicesExact
<1>5. ASSUME p \in eventPeers[e]
      PROVE  e \in Candidates(f) <=>
               /\ Indexable(f)
               /\ f.ids # {} => e \in f.ids
               /\ f.authors # {} => eventMeta[e].pubkey \in f.authors
               /\ f.kinds # {} => eventMeta[e].kind \in f.kinds
  BY <1>3, <1>4, <1>5 DEF Candidates, Indexable
<1>6. InTime(f, e) <=>
        /\ f.since # 0 => eventMeta[e] # NoMeta /\ eventMeta[e].created_at >= f.since
        /\ f.until # 0 => eventMeta[e] # NoMeta /\ eventMeta[e].created_at <= f.until
  BY DEF InTime
<1> QED
  BY <1>2, <1>5, <1>6 DEF Matches

(* findPeersForFilter gives exactly the peers that have an event the       *)
(* filter matches.                                                         *)
THEOREM FiltersAnsweredExactly == TrackerSpec => []FilterExact
BY IndexConsistent, FilterFromIInv, PTL

-----------------------------------------------------------------------------
(* The refinement: each operation of the five maps is the operation of the *)
(* directory of the same purpose.                                          *)
Held == {pair \in Peer \X Event : pair[2] \in peerEvents[pair[1]]}

(* addEventToPeer is an announcement of the directory.                     *)
LEMMA AddIsAnnounce ==
  ASSUME IInv, NEW p \in Peer, NEW e \in Event, NEW m \in Meta \cup {NoMeta},
         AddEventToPeer(p, e, m)
  PROVE  Directory!Announce(p, e, m)
<1>1. Directory!HeldBy(p) = peerEvents[p]
  BY DEF IInv, TrackerTypeOK, Directory!HeldBy
<1>2. peerEvents' = [peerEvents EXCEPT ![p] = @ \cup {e}]
  BY DEF AddEventToPeer
<1>3. Held' = Held \cup {<<p, e>>}
  BY <1>2 DEF Held, IInv, TrackerTypeOK
<1>4. eventMeta' = [eventMeta EXCEPT ![e] = IF @ = NoMeta THEN m ELSE @]
  BY DEF AddEventToPeer, IInv, TrackerTypeOK
<1>5. Directory!Cardinality(peerEvents[p]) = Cardinality(peerEvents[p])
  BY DEF Cardinality, Directory!Cardinality
<1> QED
  BY <1>1, <1>3, <1>4, <1>5
  DEF AddEventToPeer, Held, Directory!Announce, NoMeta, Directory!NoMeta

(* removePeerFromCache is a departure in the directory.                    *)
LEMMA RemoveIsLeave ==
  ASSUME IInv, NEW p \in Peer, RemovePeerFromCache(p)
  PROVE  Directory!Leave(p)
<1> DEFINE E == {e \in peerEvents[p] : eventPeers[e] \subseteq {p}}
<1>1. peerEvents' = [peerEvents EXCEPT ![p] = {}]
  BY DEF RemovePeerFromCache
<1>2. Held' = {pair \in Held : pair[1] # p}
  BY <1>1 DEF Held, IInv, TrackerTypeOK
<1>3. E \in SUBSET Event /\ RemoveEventMetadata(E)
  BY DEF RemovePeerFromCache, IInv, TrackerTypeOK
<1>4. \A e \in Event : Directory!HoldersOf(Held', e) = eventPeers[e] \ {p}
  BY <1>1 DEF Held, Directory!HoldersOf, IInv, TrackerTypeOK, Mirror
<1>5. \A e \in Event : eventMeta'[e] =
        IF eventPeers[e] \ {p} = {} THEN NoMeta ELSE eventMeta[e]
  BY <1>3, RemoveEventMetadataExact DEF IInv, TrackerTypeOK, Mirror, MetaOnlyForHeld
<1>6. eventMeta' = [e \in Event |-> IF Directory!HoldersOf(Held', e) = {}
                                    THEN NoMeta ELSE eventMeta[e]]
  BY <1>3, <1>4, <1>5, RemoveEventMetadataExact DEF IInv
<1> QED
  BY <1>2, <1>6 DEF RemovePeerFromCache, Held, Directory!Leave, Directory!KnownIn,
                    NoMeta, Directory!NoMeta

(* pruneOldEvents forgets the old events of the directory.                 *)
LEMMA PruneIsForgetOld ==
  ASSUME IInv, PruneOldEvents
  PROVE  Directory!ForgetOld
<1>1. /\ \A q \in Peer : peerEvents'[q] = peerEvents[q] \ OldEvents
      /\ peerEvents' \in [Peer -> SUBSET Event] /\ now' = now
  BY DEF PruneOldEvents, IInv, TrackerTypeOK, Mirror, OldEvents
<1>2. \A e \in Event : e \notin OldEvents <=>
        (eventMeta[e] = NoMeta \/ eventMeta[e].created_at + MaxAge >= now)
  <2> SUFFICES ASSUME NEW e \in Event, eventMeta[e] # NoMeta
               PROVE  ~ (eventMeta[e].created_at + MaxAge < now)
                        <=> eventMeta[e].created_at + MaxAge >= now
    BY DEF OldEvents
  <2>1. eventMeta[e].created_at \in Nat /\ now \in Nat /\ MaxAge \in Nat
    BY TrackerAssumption DEF IInv, TrackerTypeOK, Meta
  <2> QED
    BY <2>1
<1>3. Held' = {pair \in Held : eventMeta[pair[2]] = NoMeta
                               \/ eventMeta[pair[2]].created_at + MaxAge >= now}
  BY <1>1, <1>2 DEF Held
<1>4. OldEvents \in SUBSET Event /\ RemoveEventMetadata(OldEvents)
  BY DEF PruneOldEvents, OldEvents
<1>5. \A e \in Event : Directory!HoldersOf(Held', e) =
        IF e \in OldEvents THEN {} ELSE eventPeers[e]
  BY <1>1 DEF Held, Directory!HoldersOf, IInv, TrackerTypeOK, Mirror
<1>6. \A e \in Event : eventMeta'[e] =
        IF Directory!HoldersOf(Held', e) = {} THEN NoMeta ELSE eventMeta[e]
  BY <1>4, <1>5, RemoveEventMetadataExact DEF IInv, MetaOnlyForHeld
<1>7. eventMeta' = [e \in Event |-> IF Directory!HoldersOf(Held', e) = {}
                                    THEN NoMeta ELSE eventMeta[e]]
  BY <1>4, <1>6, RemoveEventMetadataExact DEF IInv
<1>8. \E lost \in SUBSET {e \in Event : eventMeta[e] = NoMeta} :
        Held' = {pair \in Held : IF eventMeta[pair[2]] = NoMeta THEN pair[2] \notin lost
                                 ELSE eventMeta[pair[2]].created_at + MaxAge >= now}
  <2> WITNESS {} \in SUBSET {e \in Event : eventMeta[e] = NoMeta}
  <2> QED
    BY <1>3
<1> QED
  BY <1>1, <1>7, <1>8 DEF Held, Directory!ForgetOld, Directory!KnownIn,
                          NoMeta, Directory!NoMeta

(* The five maps of cache-tracker.ts implement the directory: one relation *)
(* of peers and events, and metadata for as long as an event is held.      *)
THEOREM TrackerImplementsDirectory == TrackerSpec => ImplementsDirectory
<1>1. TrackerInit => Directory!DirInit
  BY DEF TrackerInit, Directory!DirInit, NoMeta, Directory!NoMeta
<1>2. IInv /\ [TrackerNext]_trackerVars => [Directory!DirNext]_(Directory!dirVars)
  <2> SUFFICES ASSUME IInv, [TrackerNext]_trackerVars
               PROVE  Directory!DirNext \/ UNCHANGED Directory!dirVars
    OBVIOUS
  <2>1. ASSUME NEW p \in Peer, NEW e \in Event, NEW m \in Meta \cup {NoMeta},
               AddEventToPeer(p, e, m)
        PROVE  Directory!DirNext
    BY <2>1, AddIsAnnounce
    DEF Directory!DirNext, Meta, Directory!Meta, NoMeta, Directory!NoMeta
  <2>2. ASSUME NEW p \in Peer, RemovePeerFromCache(p) PROVE Directory!DirNext
    BY <2>2, RemoveIsLeave DEF Directory!DirNext
  <2>3. CASE PruneOldEvents
    BY <2>3, PruneIsForgetOld DEF Directory!DirNext
  <2>4. CASE TimePasses
    BY <2>4 DEF TimePasses, IInv, TrackerTypeOK, Directory!DirNext, Directory!Passes
  <2>5. CASE UNCHANGED trackerVars
    BY <2>5 DEF trackerVars, Directory!dirVars
  <2> QED
    BY <2>1, <2>2, <2>3, <2>4, <2>5 DEF TrackerNext
<1> QED
  BY <1>1, <1>2, IndexConsistent, PTL DEF TrackerSpec, ImplementsDirectory, Directory!DirSpec
=============================================================================
