--------------------------- MODULE EventDirectory ---------------------------
(***************************************************************************)
(* What the relay's cache index promises: one relation that says which     *)
(* peer holds which event, and what is known of an event for as long as    *)
(* some peer holds it.                                                     *)
(***************************************************************************)
EXTENDS Naturals, FiniteSets

CONSTANTS Peer, Event, Author, Kind,
          Time,       \* the times of creation a peer may report
          MaxAge,     \* how old an event may get: 24 hours
          MaxEvents   \* how many events are kept for one peer

Meta   == [pubkey : Author, kind : Kind, created_at : Time]
NoMeta == [pubkey |-> "none", kind |-> "none", created_at |-> 0]

VARIABLES holds,   \* pairs of a peer and an event it holds
          known,   \* the metadata of each event
          now      \* the time

dirVars == <<holds, known, now>>

HeldBy(p)    == {e \in Event : <<p, e>> \in holds}
HoldersOf(H, e) == {p \in Peer : <<p, e>> \in H}

(* What is known of the events that somebody holds in H.                   *)
KnownIn(H) == [e \in Event |-> IF HoldersOf(H, e) = {} THEN NoMeta ELSE known[e]]

DirInit == holds = {} /\ known = [e \in Event |-> NoMeta] /\ now = 1

Announce(p, e, m) ==
  /\ Cardinality(HeldBy(p)) < MaxEvents
  /\ holds' = holds \cup {<<p, e>>}
  /\ known' = [known EXCEPT ![e] = IF @ = NoMeta THEN m ELSE @]
  /\ UNCHANGED now

Leave(p) ==
  /\ holds' = {pair \in holds : pair[1] # p}
  /\ known' = KnownIn(holds')
  /\ UNCHANGED now

(* An event that is known to be old is forgotten, one that is known not to *)
(* be stays, and of those nothing is known of some may go.                 *)
ForgetOld ==
  /\ \E lost \in SUBSET {e \in Event : known[e] = NoMeta} :
       holds' = {pair \in holds : IF known[pair[2]] = NoMeta THEN pair[2] \notin lost
                                  ELSE known[pair[2]].created_at + MaxAge >= now}
  /\ known' = KnownIn(holds')
  /\ UNCHANGED now

Passes == now' \in Nat /\ now' > now /\ UNCHANGED <<holds, known>>

DirNext ==
  \/ \E p \in Peer, e \in Event, m \in Meta \cup {NoMeta} : Announce(p, e, m)
  \/ \E p \in Peer : Leave(p)
  \/ ForgetOld
  \/ Passes

DirSpec == DirInit /\ [][DirNext]_dirVars
=============================================================================
