----------------------------- MODULE PeerClient -----------------------------
(***************************************************************************)
(* The browser library: the session with the relay (lib/src/client.ts),    *)
(* the WebRTC connections (lib/src/p2p.ts) and the event cache             *)
(* (lib/src/cache.ts), with as much of the relay as the library sees: it   *)
(* knows what each session announced, offers sources (onRequest), forwards *)
(* signals in order (onSignal) and credits what is reported as served      *)
(* (onStats, without event ids: the library sends none).                   *)
(*                                                                         *)
(* A session is one WebSocket of a browser, numbered in the order of their *)
(* creation; the relay gives each an id of its own.  An application calls  *)
(* connect() only when it is not connected.  Instances of SimplePeer are   *)
(* numbered too.  SimplePeer is external: assumed of it is how offers and  *)
(* answers pair two instances, and that it emits 'close' in the microtask  *)
(* after destroy(), so that an instance dies and leaves the map in a step. *)
(* Descriptions are said at once, candidates with the offer they follow.   *)
(***************************************************************************)
EXTENDS Naturals, FiniteSets, Sequences, Functions

CONSTANTS Browser, Event,
          Fed,          \* a browser and an event: the relay may send it
          Mortal,       \* a browser and an event: its time may be over
          Again,        \* the browsers that connect a second time
          Shaky,        \* the browsers whose network may fail
          MaxFetch,     \* bounds the fetches of a browser
          MaxDelta      \* a report is credited below it (20)

ASSUME PeerClientAssumption ==
  /\ IsFiniteSet(Browser)
  /\ Fed \subseteq Browser \X Event /\ Mortal \subseteq Browser \X Event
  /\ Again \subseteq Browser /\ Shaky \subseteq Browser
  /\ MaxFetch \in Nat /\ MaxDelta \in Nat

Session  == Browser \X {1} \cup Again \X {2}
None     == <<>>
Owner(s) == s[1]
Pair     == {l \in Session \X Session : Owner(l[1]) # Owner(l[2])}
Instance == Nat \ {0}

VARIABLES sock,     \* the WebSocket of each session
          ws,       \* this.ws of each browser
          p2p,      \* the session whose onopen made this.p2p
          timers,   \* whether heartbeats and reports run
          cache,    \* the IndexedDB of each browser
          peers,    \* P2PManager.peers: per session and remote session
          next,     \* the number of the next instance
          fetches,  \* how often connect() made an instance, for the bound
          chan,     \* signals from one session to another, via the relay
          served,   \* stats.served of each manager
          received, \* stats.received of each manager
          index,    \* the relay: what each session announced
          last,     \* the relay: lastReportedServed
          credit,   \* the relay: events credited to a session
          marred,   \* history: pairs between which something was lost
          cut       \* history: browsers hit by the late close of a socket

sessions == <<sock, ws, p2p, timers, cut>>
links    == <<peers, next, fetches, chan, marred>>
counts   == <<served, received>>
relay    == <<index, last, credit>>
vars     == <<sessions, cache, links, counts, relay>>

NoPeer == [id |-> 0]
Phase  == {"new", "offered", "linking", "asking", "up", "reading", "sent", "done"}
Peer   == [id : Instance, initiator : BOOLEAN, phase : Phase,
           remote : Instance \cup {0}, event : Event \cup {None}]
Signal == [kind : {"offer", "answer", "candidate"}, id : Instance, re : Instance \cup {0}]

(* Every map has its type.                                                 *)
TypeOK ==
  /\ sock \in [Session -> {"new", "connecting", "open", "registered", "closing", "closed"}]
  /\ ws \in [Browser -> Session \cup {None}] /\ p2p \in [Browser -> Session \cup {None}]
  /\ timers \in [Browser -> BOOLEAN]
  /\ cache \in [Browser -> SUBSET Event]
  /\ peers \in [Pair -> {NoPeer} \cup Peer] /\ next \in Instance /\ fetches \in [Browser -> 0..MaxFetch]
  /\ chan \in [Pair -> Seq(Signal)]
  /\ served \in [Session -> Nat] /\ received \in [Session -> Nat]
  /\ index \subseteq Session \X Event
  /\ last \in [Session -> Nat] /\ credit \in [Session -> Nat]
  /\ marred \subseteq Pair /\ cut \subseteq Browser

Init ==
  /\ sock = [s \in Session |-> "new"] /\ timers = [b \in Browser |-> FALSE]
  /\ ws = [b \in Browser |-> None] /\ p2p = [b \in Browser |-> None]
  /\ cache = [b \in Browser |-> {}]
  /\ peers = [l \in Pair |-> NoPeer] /\ next = 1 /\ fetches = [b \in Browser |-> 0]
  /\ chan = [l \in Pair |-> << >>]
  /\ served = [s \in Session |-> 0] /\ received = [s \in Session |-> 0]
  /\ index = {} /\ last = [s \in Session |-> 0] /\ credit = [s \in Session |-> 0]
  /\ marred = {} /\ cut = {}

Open(s)    == s # None /\ sock[s] \in {"open", "registered"}
Known(s)   == s # None /\ sock[s] = "registered"      \* to the relay, as a peer
Has(m, t)  == peers[<<m, t>>] # NoPeer
Both(l)    == {l, <<l[2], l[1]>>}
Touching(s) == {l \in Pair : s \in {l[1], l[2]}}

(* Mutant: the entry is cleared, not deleted.                              *)
DestroyBlanks(dead) == [l \in Pair |-> IF l \in dead THEN None ELSE peers[l]]

(* The instances of the pairs in dead are destroyed.                       *)
Destroy(dead) == [l \in Pair |-> IF l \in dead THEN NoPeer ELSE peers[l]]

(* The socket of s is closed: the relay forgets s and nothing reaches it.  *)
Severed(s) == [l \in Pair |-> IF l[2] = s THEN << >> ELSE chan[l]]

-----------------------------------------------------------------------------
(* The session: client.ts.                                                 *)

Connect(s) ==
  /\ sock[s] = "new" /\ ws[Owner(s)] = None
  /\ s[2] = 2 => sock[<<Owner(s), 1>>] # "new"
  /\ sock' = [sock EXCEPT ![s] = "connecting"] /\ ws' = [ws EXCEPT ![Owner(s)] = s]
  /\ UNCHANGED <<p2p, timers, cut, cache, links, counts, relay>>

(* Mutant: the manager of an earlier session goes on.                      *)
SocketOpensKeepsManager(s) ==
  /\ sock[s] = "connecting"
  /\ sock' = [sock EXCEPT ![s] = "open"]
  /\ p2p' = [p2p EXCEPT ![Owner(s)] = IF @ = None THEN s ELSE @]
  /\ timers' = [timers EXCEPT ![Owner(s)] = TRUE]
  /\ UNCHANGED <<ws, cut, cache, links, counts, relay>>

(* onopen: a new manager, PEER_REGISTER, and the timers.                   *)
SocketOpens(s) ==
  /\ sock[s] = "connecting"
  /\ sock' = [sock EXCEPT ![s] = "open"] /\ p2p' = [p2p EXCEPT ![Owner(s)] = s]
  /\ timers' = [timers EXCEPT ![Owner(s)] = TRUE]
  /\ UNCHANGED <<ws, cut, cache, links, counts, relay>>

(* The relay registers s.  PEER_REGISTERED: _announceCache, once cleanup() *)
(* has removed what is past its time.  That get() refuses anyway, so that  *)
(* the cleanups on a timer change nothing anybody sees.                    *)
Registered(s) ==
  /\ sock[s] = "open" /\ ws[Owner(s)] = s
  /\ sock' = [sock EXCEPT ![s] = "registered"]
  /\ \E over \in SUBSET {e \in Event : <<Owner(s), e>> \in Mortal} :
       /\ cache' = [cache EXCEPT ![Owner(s)] = @ \ over]
       /\ index' = index \cup {s} \X cache'[Owner(s)]
  /\ UNCHANGED <<ws, p2p, timers, cut, links, counts, last, credit>>

(* EVENT: the event is put into the cache and announced over this.ws,      *)
(* which the relay refuses before the registration.                        *)
RelayEvent(s, e) ==
  /\ Open(s) /\ <<Owner(s), e>> \in Fed
  /\ cache' = [cache EXCEPT ![Owner(s)] = @ \cup {e}]
  /\ index' = index \cup {<<w, e>> : w \in {x \in {ws[Owner(s)]} : Known(x)}}
  /\ UNCHANGED <<sessions, links, counts, last, credit>>

(* Mutant: the connections of the manager are left alone.                  *)
CleanupKeepsPeers(b) ==
  /\ timers' = [timers EXCEPT ![b] = FALSE] /\ ws' = [ws EXCEPT ![b] = None]
  /\ UNCHANGED <<peers, marred>>

(* _cleanup of the client of b, whose manager is this.p2p: destroyAll.     *)
Cleanup(b) ==
  /\ timers' = [timers EXCEPT ![b] = FALSE] /\ ws' = [ws EXCEPT ![b] = None]
  /\ peers' = Destroy({l \in Pair : l[1] = p2p[b]})
  /\ marred' = marred \cup Touching(p2p[b])

Disconnect(b) ==
  /\ ws[b] # None
  /\ sock' = [sock EXCEPT ![ws[b]] = "closing"] /\ chan' = Severed(ws[b])
  /\ index' = {i \in index : i[1] # ws[b]}
  /\ Cleanup(b)
  /\ UNCHANGED <<p2p, cut, cache, next, fetches, counts, last, credit>>

(* The relay closes the socket, the network fails, or connect() does.      *)
SocketFails(s) ==
  /\ Owner(s) \in Shaky /\ (sock[s] = "connecting" \/ Open(s))
  /\ sock' = [sock EXCEPT ![s] = "closing"] /\ chan' = Severed(s)
  /\ index' = {i \in index : i[1] # s} /\ marred' = marred \cup Touching(s)
  /\ UNCHANGED <<ws, p2p, timers, cut, cache, peers, next, fetches, counts, last, credit>>

(* onclose: it cleans up whatever session the client has by now.           *)
CloseEvent(s) ==
  /\ sock[s] = "closing"
  /\ sock' = [sock EXCEPT ![s] = "closed"]
  /\ cut' = cut \cup {b \in {Owner(s)} : ws[b] \notin {None, s}}
  /\ Cleanup(Owner(s))
  /\ UNCHANGED <<p2p, cache, next, fetches, chan, counts, relay>>

(* _sendStats, and onStats of the relay: what was served since the last    *)
(* report counts if it is little enough.                                   *)
SendStats(s) ==
  /\ Known(s) /\ ws[Owner(s)] = s /\ timers[Owner(s)]
  /\ LET n == served[p2p[Owner(s)]]
         delta == IF n > last[s] THEN n - last[s] ELSE 0 IN
     /\ last' = [last EXCEPT ![s] = n]
     /\ credit' = [credit EXCEPT ![s] = IF delta < MaxDelta THEN @ + delta ELSE @]
  /\ UNCHANGED <<sessions, cache, links, counts, index>>

-----------------------------------------------------------------------------
(* The connections: p2p.ts.                                                *)

(* The manager m says signals to t: they go out over this.ws of its client *)
(* and the relay forwards them, or drops those past the rate limit, those  *)
(* of a client it does not know and those to one that left.                *)
Say(before, m, t, signals) ==
  LET w == ws[Owner(m)] IN
  \E pass \in IF Known(w) /\ Open(t)
              THEN {signals, << >>, SubSeq(signals, 2, Len(signals))} ELSE {<< >>} :
    /\ chan' = IF pass = << >> THEN before ELSE [before EXCEPT ![<<w, t>>] = @ \o pass]
    /\ marred' = IF pass = signals THEN marred ELSE marred \cup Both(<<m, t>>)

NewPeer(initiator, e) == [id |-> next, initiator |-> initiator,
  phase |-> IF initiator THEN "offered" ELSE "new", remote |-> 0, event |-> e]

(* PEER_OFFER: s fetches e from t, unless it has a connection to t, in     *)
(* whatever state, and then the offer is dropped.                          *)
Offer(s, t, e) ==
  /\ Known(s) /\ <<t, e>> \in index /\ e \notin cache[Owner(s)]
  /\ LET m == p2p[Owner(s)] IN
     /\ <<m, t>> \in Pair /\ ~ Has(m, t) /\ fetches[Owner(s)] < MaxFetch
     /\ peers' = [peers EXCEPT ![<<m, t>>] = NewPeer(TRUE, e)]
     /\ next' = next + 1 /\ fetches' = [fetches EXCEPT ![Owner(s)] = @ + 1]
     /\ Say(chan, m, t, <<[kind |-> "offer", id |-> next, re |-> 0],
                          [kind |-> "candidate", id |-> next, re |-> 0]>>)
  /\ UNCHANGED <<sessions, cache, counts, relay>>

(* What SimplePeer makes of a signal: an offer is for a responder that has *)
(* none, an answer for the initiator it answers; it fails at any other.    *)
Take(p, g) ==
  IF g.kind = "candidate" THEN p
  ELSE IF \/ g.kind = "offer" /\ ~ p.initiator /\ p.phase = "new"
          \/ g.kind = "answer" /\ p.initiator /\ p.phase = "offered" /\ g.re = p.id
  THEN [p EXCEPT !.phase = "linking", !.remote = g.id]
  ELSE NoPeer

(* Mutant: a new responder for every signal, also if there is a peer.      *)
FoundAnew(m, from) == NewPeer(FALSE, None)

(* A signal of a stranger makes a responder.                               *)
Found(m, from) == IF Has(m, from) THEN peers[<<m, from>>] ELSE NewPeer(FALSE, None)

(* An offer that meets another fetch or an earlier connection, an answer   *)
(* to an instance that is gone.                                            *)
Stray(m, from, g) ==
  \/ g.kind = "offer" /\ Has(m, from)
     /\ (peers[<<m, from>>].initiator \/ peers[<<m, from>>].phase # "new")
  \/ g.kind = "answer" /\ ~ (Has(m, from) /\ peers[<<m, from>>].id = g.re)

(* PEER_SIGNAL: handleSignal.  The first signal is handed to a responder   *)
(* in a timer; SimplePeer holds candidates back, so that it is moot which  *)
(* it gets first.  It answers an offer it takes.                           *)
Deliver(s, t) ==
  /\ Open(t) /\ chan[<<s, t>>] # << >>
  /\ LET m == p2p[Owner(t)]
         g == Head(chan[<<s, t>>])
         p == Found(m, s)
         q == Take(p, g)
         rest == [chan EXCEPT ![<<s, t>>] = Tail(@)] IN
     /\ peers' = [peers EXCEPT ![<<m, s>>] = q]
     /\ next' = IF p.id = next THEN next + 1 ELSE next
     /\ IF q # NoPeer /\ g.kind = "offer"
        THEN Say(rest, m, s, <<[kind |-> "answer", id |-> q.id, re |-> g.id]>>)
        ELSE /\ chan' = rest
             /\ marred' = IF Stray(m, s, g) THEN marred \cup Both(<<m, s>>) ELSE marred
  /\ UNCHANGED <<sessions, cache, fetches, counts, relay>>

(* m and n hold the two ends of a connection.                              *)
Joined(m, n) ==
  /\ Has(m, n) /\ Has(n, m)
  /\ peers[<<m, n>>].remote = peers[<<n, m>>].id /\ peers[<<n, m>>].remote = peers[<<m, n>>].id

(* Both ends connect, and the initiator sends P2P_REQUEST.                 *)
ConnectUp(m, n) ==
  /\ Joined(m, n) /\ peers[<<m, n>>].initiator
  /\ peers[<<m, n>>].phase = "linking" /\ peers[<<n, m>>].phase = "linking"
  /\ peers' = [peers EXCEPT ![<<m, n>>].phase = "asking", ![<<n, m>>].phase = "up"]
  /\ UNCHANGED <<sessions, cache, next, fetches, chan, marred, counts, relay>>

(* P2P_REQUEST: cache.get; without the event, or if its time is over,      *)
(* there is no answer.                                                     *)
ServeRead(m, n) ==
  /\ Joined(m, n) /\ peers[<<m, n>>].phase = "up" /\ peers[<<n, m>>].phase = "asking"
  /\ LET e == peers[<<n, m>>].event IN
     \/ /\ e \in cache[Owner(m)]
        /\ peers' = [peers EXCEPT ![<<m, n>>].phase = "reading"] /\ marred' = marred
     \/ /\ e \notin cache[Owner(m)] \/ <<Owner(m), e>> \in Mortal
        /\ peers' = [peers EXCEPT ![<<m, n>>].phase = "done"]
        /\ marred' = marred \cup Both(<<m, n>>)
  /\ UNCHANGED <<sessions, cache, next, fetches, chan, counts, relay>>

(* The event is there: it is sent, and counted, if the peer lives.         *)
ServeSend(m, n) ==
  /\ Has(m, n) /\ peers[<<m, n>>].phase = "reading"
  /\ peers' = [peers EXCEPT ![<<m, n>>].phase = "sent"]
  /\ served' = [served EXCEPT ![m] = @ + 1]
  /\ UNCHANGED <<sessions, cache, next, fetches, chan, marred, received, relay>>

(* P2P_EVENTS: counted and put into the cache, but not announced.          *)
Receive(m, n) ==
  /\ Joined(m, n) /\ peers[<<m, n>>].phase = "asking" /\ peers[<<n, m>>].phase = "sent"
  /\ peers' = [peers EXCEPT ![<<m, n>>].phase = "done", ![<<n, m>>].phase = "done"]
  /\ received' = [received EXCEPT ![m] = @ + 1]
  /\ cache' = [cache EXCEPT ![Owner(m)] = @ \cup {peers[<<m, n>>].event}]
  /\ UNCHANGED <<sessions, next, fetches, chan, marred, served, relay>>

(* WebRTC notices that the other end is gone, or fails: 'close'.           *)
PeerLost(m, n) ==
  /\ Has(m, n) /\ peers[<<m, n>>].remote # 0 /\ ~ Joined(m, n)
  /\ peers' = Destroy({<<m, n>>}) /\ marred' = marred \cup Both(<<m, n>>)
  /\ UNCHANGED <<sessions, cache, next, fetches, chan, counts, relay>>

(* PEER_RECONNECT: the super peer of s has left; P2PManager.disconnect.    *)
SuperPeerLeft(s, t) ==
  /\ Open(s) /\ sock[t] \in {"closing", "closed"} /\ Has(p2p[Owner(s)], t)
  /\ peers' = Destroy({<<p2p[Owner(s)], t>>}) /\ marred' = marred \cup Both(<<s, t>>)
  /\ UNCHANGED <<sessions, cache, next, fetches, chan, counts, relay>>

-----------------------------------------------------------------------------
Handshake(m, n) ==
  \/ Deliver(m, n) \/ ConnectUp(m, n)
  \/ ServeRead(m, n) \/ ServeSend(m, n) \/ Receive(m, n)

Next ==
  \/ \E s \in Session :
       \/ Connect(s) \/ SocketOpens(s) \/ Registered(s) \/ SocketFails(s)
       \/ CloseEvent(s) \/ SendStats(s)
       \/ \E e \in Event : RelayEvent(s, e) \/ \E t \in Session : Offer(s, t, e)
  \/ \E l \in Pair :
       Handshake(l[1], l[2]) \/ PeerLost(l[1], l[2]) \/ SuperPeerLeft(l[1], l[2])
  \/ \E b \in Browser : Disconnect(b)

(* The relay and SimplePeer go on; nothing makes anybody connect or leave. *)
Fairness == WF_vars(\E l \in Pair : Handshake(l[1], l[2]))

Spec == Init /\ [][Next]_vars /\ Fairness

-----------------------------------------------------------------------------
(* Properties.                                                             *)

(* A connection lives only under the manager of the session its client     *)
(* has: disconnect() and the close of the socket leave none behind, with   *)
(* one exception: the late close of an old socket cleans up the session    *)
(* that followed, whose socket stays open and may bring new signals.       *)
NoStrayConnection ==
  \A l \in Pair :
    peers[l] # NoPeer => ws[Owner(l[1])] = l[1] \/ Owner(l[1]) \in cut

(* The relay credits a session with no more events than it served in that  *)
(* session, whatever was served before, and in all no more events are      *)
(* received than were counted as served.                                   *)
CreditedWasServed ==
  /\ \A s \in Session : credit[s] <= served[s]
  /\ SumFunction(received) <= SumFunction(served)

(* A fetch from another browser that nothing mars (a lost signal, somebody *)
(* leaving, both fetching from each other at once, an event that expired)  *)
(* ends with the event in the cache.                                       *)
Fetching(l) == peers[l] # NoPeer /\ peers[l].initiator /\ peers[l].phase # "done"
Fetched(l)  ==
  /\ peers[l] # NoPeer /\ peers[l].phase = "done"
  /\ peers[l].event \in cache[Owner(l[1])] \/ <<Owner(l[1]), peers[l].event>> \in Mortal
FetchEnds == \A l \in Pair : Fetching(l) ~> (Fetched(l) \/ l \in marred)
=============================================================================
