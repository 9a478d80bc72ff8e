---------------------------- MODULE CacheTracker ----------------------------
(***************************************************************************)
(* peers/cache-tracker.ts: the index of which peer has which event, kept   *)
(* in five maps.  A key absent from a map of sets is a key with the empty  *)
(* set: the code deletes an entry as its set gets empty.  Every operation  *)
(* runs to its end without giving up the thread, so each is one action.    *)
(***************************************************************************)
EXTENDS Naturals, FiniteSets

CONSTANTS Peer, Event, Author, Kind,
          Time,       \* the values of created_at a peer may report
          MaxAge,     \* 24 hours
          MaxEvents,  \* MAX_EVENTS_PER_PEER (10 000)
          MaxTime     \* bounds the clock

ASSUME TrackerAssumption ==
  /\ Time \subseteq Nat \ {0} /\ MaxAge \in Nat /\ MaxTime \in Nat
  /\ MaxEvents \in Nat \ {0}
  /\ IsFiniteSet(Event)
  /\ "none" \notin Author /\ "none" \notin Kind

Meta   == [pubkey : Author, kind : Kind, created_at : Time]
NoMeta == [pubkey |-> "none", kind |-> "none", created_at |-> 0]

VARIABLES peerEvents, eventPeers,              \* the primary indices
          eventMeta, authorEvents, kindEvents, \* the secondary indices
          now                                  \* Date.now()

trackerVars == <<peerEvents, eventPeers, eventMeta, authorEvents, kindEvents, now>>

(* Each index maps to events and peers; metadata is there or NoMeta.       *)
TrackerTypeOK ==
  /\ peerEvents \in [Peer -> SUBSET Event]
  /\ eventPeers \in [Event -> SUBSET Peer]
  /\ eventMeta \in [Event -> Meta \cup {NoMeta}]
  /\ authorEvents \in [Author -> SUBSET Event]
  /\ kindEvents \in [Kind -> SUBSET Event]
  /\ now \in Nat

TrackerInit ==
  /\ peerEvents = [p \in Peer |-> {}]
  /\ eventPeers = [e \in Event |-> {}]
  /\ eventMeta = [e \in Event |-> NoMeta]
  /\ authorEvents = [a \in Author |-> {}]
  /\ kindEvents = [k \in Kind |-> {}]
  /\ now = 1

-----------------------------------------------------------------------------
(* Mutants: metadata is indexed again under the new author and kind; the   *)
(* limit is checked off by one.                                            *)
AddEventToPeerReindexes(p, e, m) ==
  /\ Cardinality(peerEvents[p]) < MaxEvents
  /\ peerEvents' = [peerEvents EXCEPT ![p] = @ \cup {e}]
  /\ eventPeers' = [eventPeers EXCEPT ![e] = @ \cup {p}]
  /\ IF m # NoMeta
     THEN /\ eventMeta' = [eventMeta EXCEPT ![e] = m]
          /\ authorEvents' = [authorEvents EXCEPT ![m.pubkey] = @ \cup {e}]
          /\ kindEvents' = [kindEvents EXCEPT ![m.kind] = @ \cup {e}]
     ELSE UNCHANGED <<eventMeta, authorEvents, kindEvents>>
  /\ UNCHANGED now

AddEventToPeerPastLimit(p, e, m) ==
  /\ Cardinality(peerEvents[p]) <= MaxEvents
  /\ peerEvents' = [peerEvents EXCEPT ![p] = @ \cup {e}]
  /\ eventPeers' = [eventPeers EXCEPT ![e] = @ \cup {p}]
  /\ IF m # NoMeta /\ eventMeta[e] = NoMeta
     THEN /\ eventMeta' = [eventMeta EXCEPT ![e] = m]
          /\ authorEvents' = [authorEvents EXCEPT ![m.pubkey] = @ \cup {e}]
          /\ kindEvents' = [kindEvents EXCEPT ![m.kind] = @ \cup {e}]
     ELSE UNCHANGED <<eventMeta, authorEvents, kindEvents>>
  /\ UNCHANGED now

(* addEventToPeer: at the limit the call does nothing, not even for an     *)
(* event the peer has already; the first metadata given is kept.           *)
AddEventToPeer(p, e, m) ==
  /\ Cardinality(peerEvents[p]) < MaxEvents
  /\ peerEvents' = [peerEvents EXCEPT ![p] = @ \cup {e}]
  /\ eventPeers' = [eventPeers EXCEPT ![e] = @ \cup {p}]
  /\ IF m # NoMeta /\ eventMeta[e] = NoMeta
     THEN /\ eventMeta' = [eventMeta EXCEPT ![e] = m]
          /\ authorEvents' = [authorEvents EXCEPT ![m.pubkey] = @ \cup {e}]
          /\ kindEvents' = [kindEvents EXCEPT ![m.kind] = @ \cup {e}]
     ELSE UNCHANGED <<eventMeta, authorEvents, kindEvents>>
  /\ UNCHANGED now

(* Mutant: the entry is blanked where it should be deleted.                *)
RemoveEventMetadataBlanks(E) ==
  /\ eventMeta' = [e \in Event |-> IF e \in E THEN [eventMeta[e] EXCEPT !.created_at = 0]
                                             ELSE eventMeta[e]]
  /\ UNCHANGED <<authorEvents, kindEvents>>

(* removeEventMetadata, for every event of E: an event with metadata       *)
(* leaves the indices its metadata names.                                  *)
RemoveEventMetadata(E) ==
  /\ eventMeta' = [e \in Event |-> IF e \in E THEN NoMeta ELSE eventMeta[e]]
  /\ authorEvents' = [a \in Author |->
                        authorEvents[a] \ {e \in E : eventMeta[e].pubkey = a}]
  /\ kindEvents' = [k \in Kind |-> kindEvents[k] \ {e \in E : eventMeta[e].kind = k}]

RemovePeerFromCache(p) ==
  /\ eventPeers' = [e \in Event |-> IF e \in peerEvents[p] THEN eventPeers[e] \ {p}
                                                          ELSE eventPeers[e]]
  /\ RemoveEventMetadata({e \in peerEvents[p] : eventPeers[e] \subseteq {p}})
  /\ peerEvents' = [peerEvents EXCEPT ![p] = {}]
  /\ UNCHANGED now

(* pruneOldEvents: walks eventMeta, so it sees only events with metadata,  *)
(* and drops each old one from the peers eventPeers lists for it.          *)
OldEvents == {e \in Event : eventMeta[e] # NoMeta
                            /\ eventMeta[e].created_at + MaxAge < now}

(* Mutant: an old event is dropped from eventPeers only.                   *)
PruneOldEventsOneSide ==
  /\ eventPeers' = [e \in Event |-> IF e \in OldEvents THEN {} ELSE eventPeers[e]]
  /\ RemoveEventMetadata(OldEvents)
  /\ UNCHANGED <<peerEvents, now>>

PruneOldEvents ==
  /\ peerEvents' = [p \in Peer |->
                      peerEvents[p] \ {e \in OldEvents : p \in eventPeers[e]}]
  /\ eventPeers' = [e \in Event |-> IF e \in OldEvents THEN {} ELSE eventPeers[e]]
  /\ RemoveEventMetadata(OldEvents)
  /\ UNCHANGED now

TimePasses ==
  /\ now < MaxTime
  /\ now' = now + 1
  /\ UNCHANGED <<peerEvents, eventPeers, eventMeta, authorEvents, kindEvents>>

TrackerNext ==
  \/ \E p \in Peer, e \in Event, m \in Meta \cup {NoMeta} : AddEventToPeer(p, e, m)
  \/ \E p \in Peer : RemovePeerFromCache(p)
  \/ PruneOldEvents
  \/ TimePasses

TrackerSpec == TrackerInit /\ [][TrackerNext]_trackerVars

-----------------------------------------------------------------------------
(* findPeersForFilter.  An empty list in a filter is the same as none, and *)
(* so is a since or until of 0; tag filters are not looked at.             *)

Filter == [ids : SUBSET Event, authors : SUBSET Author, kinds : SUBSET Kind,
           since : {0} \cup Time, until : {0} \cup Time]

(* The candidates: what the indices give for each list of the filter, all  *)
(* intersected; nothing for a filter that has no list.                     *)
Candidates(f) ==
  {e \in Event :
     /\ f.ids = {} \/ (e \in f.ids /\ eventPeers[e] # {})
     /\ f.authors = {} \/ \E a \in f.authors : e \in authorEvents[a]
     /\ f.kinds = {} \/ \E k \in f.kinds : e \in kindEvents[k]
     /\ f.ids # {} \/ f.authors # {} \/ f.kinds # {}}

(* Mutant: an event of unknown age passes a filter on the time.            *)
InTimeUnknownPasses(f, e) ==
  eventMeta[e] # NoMeta =>
     /\ f.since = 0 \/ eventMeta[e].created_at >= f.since
     /\ f.until = 0 \/ eventMeta[e].created_at <= f.until

InTime(f, e) ==
  \/ f.since = 0 /\ f.until = 0
  \/ /\ eventMeta[e] # NoMeta
     /\ f.since = 0 \/ eventMeta[e].created_at >= f.since
     /\ f.until = 0 \/ eventMeta[e].created_at <= f.until

(* The result: pairs of an event and a peer to ask for it.                 *)
FindPeersForFilter(f, exclude) ==
  UNION {{e} \X (eventPeers[e] \ {exclude}) : e \in {x \in Candidates(f) : InTime(f, x)}}

-----------------------------------------------------------------------------
(* Properties.                                                             *)

(* The two primary indices are the two directions of one relation.  A peer *)
(* left in one of them only would be offered for ever, or never.           *)
Mirror == \A p \in Peer, e \in Event : e \in peerEvents[p] <=> p \in eventPeers[e]

(* Metadata is kept for an event only while a peer has it: the secondary   *)
(* indices cannot outgrow the primary ones.                                *)
MetaOnlyForHeld == \A e \in Event : eventMeta[e] # NoMeta => eventPeers[e] # {}

(* The author and kind indices hold exactly the events whose metadata name *)
(* that author or kind, though they are written in three other places.     *)
IndicesExact ==
  \A e \in Event :
    /\ \A a \in Author : e \in authorEvents[a] <=> eventMeta[e].pubkey = a
    /\ \A k \in Kind : e \in kindEvents[k] <=> eventMeta[e].kind = k

(* A filter finds exactly the peers, other than the one that asks, that    *)
(* have an event whose metadata match it, by the reference definition of a *)
(* Nostr filter (NIP-01) without tags: the walk over the indices loses no  *)
(* match and invents none.  Left open is what a filter without authors,    *)
(* kinds and dates finds of events that have no metadata: by the comment   *)
(* of the function nothing, by the code whatever its ids name.  (What is   *)
(* in neither primary index is found by no filter.)                        *)
Matches(f, e) ==
  LET m == eventMeta[e] IN
  /\ f.ids # {} => e \in f.ids
  /\ f.authors # {} => m.pubkey \in f.authors
  /\ f.kinds # {} => m.kind \in f.kinds
  /\ f.since # 0 => m # NoMeta /\ m.created_at >= f.since
  /\ f.until # 0 => m # NoMeta /\ m.created_at <= f.until

Indexable(f) == f.ids \cup f.authors \cup f.kinds # {}

Announced ==
  {e \in Event : eventPeers[e] # {}} \cup UNION {peerEvents[p] : p \in Peer}

OnlyIds(f) == f.authors \cup f.kinds = {} /\ f.since = 0 /\ f.until = 0

FilterExact ==
  \A e \in Announced, f \in Filter, exclude \in Peer :
    LET found == FindPeersForFilter(f, exclude) IN
    \A p \in Peer :
      eventMeta[e] # NoMeta \/ ~ OnlyIds(f) =>
        (<<e, p>> \in found <=> /\ Indexable(f) /\ Matches(f, e)
                                /\ e \in peerEvents[p] /\ p # exclude)

(* The five maps implement the directory of EventDirectory, which forgets  *)
(* what is known to be old and leaves open if events of unknown age are    *)
(* pruned, as the comment of pruneOldEvents has it, or stay.               *)
Directory == INSTANCE EventDirectory
               WITH holds <- {pair \in Peer \X Event : pair[2] \in peerEvents[pair[1]]},
                    known <- eventMeta

ImplementsDirectory == Directory!DirSpec
=============================================================================
