-------------------------- MODULE PeerClientProofs --------------------------
(***************************************************************************)
(* Proofs about the browser library: its maps have their types, a peer     *)
(* connection lives only under the session its client has, and the relay   *)
(* credits a session with no more than it served, and no more is received  *)
(* than was served.                                                        *)
(***************************************************************************)
EXTENDS PeerClient, DataLemmas

Active(s) == sock[s] \in {"connecting", "open", "registered"}

(* The session a client has is its own and was begun, and so is that of    *)
(* the manager, which there is once a socket opened.                       *)
Owned ==
  /\ \A b \in Browser :
       /\ ws[b] # None => ws[b] \in Session /\ Owner(ws[b]) = b /\ sock[ws[b]] # "new"
       /\ p2p[b] # None => p2p[b] \in Session /\ Owner(p2p[b]) = b
  /\ \A s \in Session : Open(s) => p2p[Owner(s)] # None

(* A live socket belongs to the session the client has, and once it opened *)
(* so does the manager, unless a late close of an older socket hit it.     *)
LiveIsCurrent == \A s \in Session : Owner(s) \notin cut =>
  /\ Active(s) => ws[Owner(s)] = s
  /\ Open(s) => p2p[Owner(s)] = s

(* A connection is of the session and of the manager the client has.       *)
PeersAreCurrent == \A l \in Pair : peers[l] # NoPeer =>
  Owner(l[1]) \in cut \/ (ws[Owner(l[1])] = l[1] /\ p2p[Owner(l[1])] = l[1])

(* The sessions of a browser follow one another: the second begins when    *)
(* the first is over, and while the client has an open one the manager is  *)
(* that session's.                                                         *)
InTurn ==
  /\ \A b \in Browser : Active(<<b, 1>>) => ws[b] = <<b, 1>>
  /\ \A b \in Again : sock[<<b, 2>>] # "new" =>
       ws[b] # <<b, 1>> /\ sock[<<b, 1>>] # "new"
  /\ \A s \in Session : Open(s) /\ ws[Owner(s)] = s => p2p[Owner(s)] = s

(* What is credited was reported, and what was reported was served.        *)
Reported == \A s \in Session : credit[s] <= last[s] /\ last[s] <= served[s]

(* What was sent on the connections there are and is not received yet.     *)
OnTheWay == {l \in Pair : peers[l] # NoPeer /\ peers[l].phase = "sent"}

(* What was served was received, or is on its way, or was lost with its    *)
(* connection.                                                             *)
DeliveredInv == SumFunction(received) + Cardinality(OnTheWay) <= SumFunction(served)

(* Who asks for an event has one to ask for.                               *)
Fetcher == {p \in Peer : p.initiator \/ p.phase = "asking" => p.event \in Event}

SessionType ==
  /\ sock \in [Session -> {"new", "connecting", "open", "registered", "closing", "closed"}]
  /\ ws \in [Browser -> Session \cup {None}] /\ p2p \in [Browser -> Session \cup {None}]
  /\ timers \in [Browser -> BOOLEAN] /\ cut \subseteq Browser

LinkType ==
  /\ cache \in [Browser -> SUBSET Event]
  /\ peers \in [Pair -> {NoPeer} \cup Fetcher] /\ next \in Instance
  /\ fetches \in [Browser -> 0..MaxFetch]
  /\ chan \in [Pair -> Seq(Signal)] /\ marred \subseteq Pair

CountType ==
  /\ served \in [Session -> Nat] /\ received \in [Session -> Nat]
  /\ index \subseteq Session \X Event
  /\ last \in [Session -> Nat] /\ credit \in [Session -> Nat]

SessionInv == SessionType /\ Owned /\ LiveIsCurrent /\ InTurn

-----------------------------------------------------------------------------
(* Sessions.                                                               *)

(* A session is the first or the second of its browser.                    *)
LEMMA SessionsOfBrowser ==
  /\ \A s \in Session : s # None /\ Owner(s) \in Browser
  /\ \A s \in Session : s = <<Owner(s), 1>> \/ (Owner(s) \in Again /\ s = <<Owner(s), 2>>)
  /\ \A b \in Browser : <<b, 1>> \in Session /\ Owner(<<b, 1>>) = b
  /\ \A b \in Again : b \in Browser /\ <<b, 2>> \in Session /\ Owner(<<b, 2>>) = b
  /\ \A b : <<b, 1>> # <<b, 2>>
<1>1. \A s \in Session : (\E b \in Browser : s = <<b, 1>>) \/ (\E b \in Again : s = <<b, 2>>)
  BY DEF Session
<1>2. \A b : <<b, 1>> # None /\ <<b, 2>> # None /\ Owner(<<b, 1>>) = b /\ Owner(<<b, 2>>) = b
             /\ <<b, 1>> # <<b, 2>>
  BY DEF None, Owner
<1>3. Again \subseteq Browser
  BY PeerClientAssumption
<1>4. /\ \A b \in Browser : <<b, 1>> \in Session
      /\ \A b \in Again : <<b, 2>> \in Session
  BY DEF Session
<1> QED
  BY <1>1, <1>2, <1>3, <1>4

(* The two ends of a pair are sessions.                                    *)
LEMMA PairsOfSessions == \A l \in Pair : l = <<l[1], l[2]>> /\ l[1] \in Session /\ l[2] \in Session
  BY DEF Pair

(* A step on the sessions of the clients, or one that leaves them alone.   *)
LEMMA SessionSteps ==
  ASSUME [Next]_vars
  PROVE  \/ \E s \in Session : \/ Connect(s) \/ SocketOpens(s) \/ Registered(s)
                               \/ SocketFails(s) \/ CloseEvent(s)
         \/ \E b \in Browser : Disconnect(b)
         \/ UNCHANGED sessions
<1>1. ASSUME NEW s \in Session,
             \/ SendStats(s)
             \/ \E e \in Event : RelayEvent(s, e) \/ \E t \in Session : Offer(s, t, e)
      PROVE  UNCHANGED sessions
  BY <1>1 DEF SendStats, RelayEvent, Offer
<1>2. ASSUME NEW l \in Pair,
             Handshake(l[1], l[2]) \/ PeerLost(l[1], l[2]) \/ SuperPeerLeft(l[1], l[2])
      PROVE  UNCHANGED sessions
  BY <1>2 DEF Handshake, Deliver, ConnectUp, ServeRead, ServeSend, Receive, PeerLost, SuperPeerLeft
<1>3. UNCHANGED vars => UNCHANGED sessions
  BY DEF vars
<1> QED
  BY <1>1, <1>2, <1>3 DEF Next

(* What a step makes of a socket and of the client's session and manager.  *)
LEMMA SessionStep == SessionInv /\ [Next]_vars => SessionInv'
<1> SUFFICES ASSUME SessionInv, [Next]_vars PROVE SessionInv'
  OBVIOUS
<1> USE SessionsOfBrowser DEF SessionInv, SessionType
<1>1. ASSUME NEW s \in Session, Connect(s) PROVE SessionInv'
  <2>1. SessionType'
    BY <1>1 DEF Connect
  <2>2. Owned'
    BY <1>1 DEF Connect, Owned, Open
  <2>3. LiveIsCurrent'
    BY <1>1 DEF Connect, Owned, LiveIsCurrent, Active, Open
  <2>4. InTurn'
    BY <1>1 DEF Connect, Owned, InTurn, Active, Open
  <2> QED
    BY <2>1, <2>2, <2>3, <2>4
<1>2. ASSUME NEW s \in Session, SocketOpens(s) PROVE SessionInv'
  <2>1. SessionType'
    BY <1>2 DEF SocketOpens
  <2>2. Owned'
    BY <1>2 DEF SocketOpens, Owned, Open
  <2>3. LiveIsCurrent'
    BY <1>2 DEF SocketOpens, Owned, LiveIsCurrent, Active, Open
  <2>4. InTurn'
    BY <1>2 DEF SocketOpens, Owned, InTurn, Active, Open
  <2> QED
    BY <2>1, <2>2, <2>3, <2>4
<1>3. ASSUME NEW s \in Session, Registered(s) PROVE SessionInv'
  <2>1. SessionType'
    BY <1>3 DEF Registered
  <2>2. Owned' /\ LiveIsCurrent' /\ InTurn'
    BY <1>3 DEF Registered, Owned, LiveIsCurrent, InTurn, Active, Open
  <2> QED
    BY <2>1, <2>2
<1>4. ASSUME NEW s \in Session, SocketFails(s) PROVE SessionInv'
  <2>1. SessionType'
    BY <1>4 DEF SocketFails
  <2>2. Owned' /\ LiveIsCurrent'
    BY <1>4 DEF SocketFails, Owned, LiveIsCurrent, Active, Open
  <2>3. InTurn'
    BY <1>4 DEF SocketFails, InTurn, Active, Open
  <2> QED
    BY <2>1, <2>2, <2>3
<1>5. ASSUME NEW s \in Session, CloseEvent(s) PROVE SessionInv'
  <2>1. SessionType'
    BY <1>5 DEF CloseEvent, Cleanup
  <2>2. Owned'
    BY <1>5 DEF CloseEvent, Cleanup, Owned, Open
  <2>3. LiveIsCurrent'
    BY <1>5 DEF CloseEvent, Cleanup, Owned, LiveIsCurrent, Active, Open
  <2>4. InTurn'
    BY <1>5 DEF CloseEvent, Cleanup, Owned, InTurn, Active, Open
  <2> QED
    BY <2>1, <2>2, <2>3, <2>4
<1>6. ASSUME NEW b \in Browser, Disconnect(b) PROVE SessionInv'
  <2>1. SessionType'
    BY <1>6 DEF Disconnect, Cleanup, Owned
  <2>2. Owned'
    BY <1>6 DEF Disconnect, Cleanup, Owned, Open
  <2>3. LiveIsCurrent'
    BY <1>6 DEF Disconnect, Cleanup, Owned, LiveIsCurrent, Active, Open
  <2>4. InTurn'
    <3>1. \A a \in Browser : Active(<<a, 1>>)' => ws'[a] = <<a, 1>>
      BY <1>6 DEF Disconnect, Cleanup, Owned, InTurn, Active
    <3>2. \A a \in Again : sock'[<<a, 2>>] # "new" => ws'[a] # <<a, 1>> /\ sock'[<<a, 1>>] # "new"
      <4> SUFFICES ASSUME NEW a \in Again, sock'[<<a, 2>>] # "new"
                   PROVE  ws'[a] # <<a, 1>> /\ sock'[<<a, 1>>] # "new"
        OBVIOUS
      <4>1. CASE a = b
        BY <4>1, <1>6 DEF Disconnect, Cleanup, Owned, InTurn, Active
      <4>2. CASE a # b
        BY <4>2, <1>6 DEF Disconnect, Cleanup, Owned, InTurn
      <4> QED
        BY <4>1, <4>2
    <3>3. \A s \in Session : (Open(s) /\ ws[Owner(s)] = s)' => p2p'[Owner(s)] = s
      BY <1>6 DEF Disconnect, Cleanup, Owned, InTurn, Open
    <3> QED
      BY <3>1, <3>2, <3>3 DEF InTurn, Active, Open
  <2> QED
    BY <2>1, <2>2, <2>3, <2>4
<1>7. UNCHANGED sessions => SessionInv'
  BY DEF sessions, Owned, LiveIsCurrent, InTurn, Active, Open
<1> QED
  BY <1>1, <1>2, <1>3, <1>4, <1>5, <1>6, <1>7, SessionSteps

LEMMA SessionInit == Init => SessionInv
  BY SessionsOfBrowser
  DEF Init, SessionInv, SessionType, Owned, LiveIsCurrent, InTurn, Active, Open

-----------------------------------------------------------------------------
(* The types of the connections and of the signals.                        *)

(* Both pairs of two sessions are pairs.                                   *)
LEMMA PairsAreMutual == \A l \in Pair : Both(l) \subseteq Pair
  BY DEF Pair, Both

(* An instance stays one when it changes its phase, but only an initiator  *)
(* asks, and it is no empty entry.                                         *)
LEMMA PeerPhase ==
  /\ NoPeer \notin Fetcher
  /\ \A p \in Fetcher, f \in Phase : f # "asking" \/ p.initiator =>
       [p EXCEPT !.phase = f] \in Fetcher
<1>1. NoPeer \notin Fetcher
  BY DEF NoPeer, Fetcher, Peer, Instance
<1>2. ASSUME NEW p \in Fetcher, NEW f \in Phase, f # "asking" \/ p.initiator
      PROVE  [p EXCEPT !.phase = f] \in Fetcher
  BY <1>2 DEF Fetcher, Peer
<1> QED
  BY <1>1, <1>2

(* A new instance is one; an initiator is made to fetch an event.          *)
LEMMA NewPeerIsPeer ==
  ASSUME next \in Instance
  PROVE  /\ \A e \in Event : NewPeer(TRUE, e) \in Fetcher
         /\ NewPeer(FALSE, None) \in Fetcher /\ next + 1 \in Instance
  BY DEF NewPeer, Fetcher, Peer, Phase, Instance

(* What is said reaches one channel, whole, in part or not at all.         *)
LEMMA SayIsTyped ==
  ASSUME NEW before \in [Pair -> Seq(Signal)], NEW m, NEW t, <<m, t>> \in Pair,
         NEW signals \in Seq(Signal), marred \subseteq Pair, Say(before, m, t, signals)
  PROVE  chan' \in [Pair -> Seq(Signal)] /\ marred' \subseteq Pair
<1> DEFINE w == ws[Owner(m)]
<1>1. PICK pass \in {signals, << >>, SubSeq(signals, 2, Len(signals))} :
        /\ chan' = IF pass = << >> THEN before ELSE [before EXCEPT ![<<w, t>>] = @ \o pass]
        /\ marred' = IF pass = signals THEN marred ELSE marred \cup Both(<<m, t>>)
  BY DEF Say
<1>2. SubSeq(signals, 2, Len(signals)) \in Seq(Signal)
  BY SubSeqProperties
<1>3. pass \in Seq(Signal)
  <2>1. << >> \in Seq(Signal)
    OBVIOUS
  <2> QED
    BY <1>1, <1>2, <2>1
<1>4. \A q \in Seq(Signal) : q \o pass \in Seq(Signal)
  BY <1>3
<1>5. chan' \in [Pair -> Seq(Signal)]
  BY <1>1, <1>4
<1>6. marred' \subseteq Pair
  BY <1>1, PairsAreMutual
<1> QED
  BY <1>5, <1>6

(* What the steps that touch a connection or a channel need of its type.   *)
LEMMA LinkSteps ==
  ASSUME SessionInv, LinkType, Next
  PROVE  LinkType'
<1> USE DEF LinkType
<1>1. ASSUME NEW s \in Session, Connect(s) \/ SocketOpens(s) PROVE LinkType'
  BY <1>1 DEF Connect, SocketOpens, links
<1>2. ASSUME NEW s \in Session, Registered(s) PROVE LinkType'
  BY <1>2 DEF Registered, links
<1>3. ASSUME NEW s \in Session, NEW e \in Event, RelayEvent(s, e) PROVE LinkType'
  BY <1>3 DEF RelayEvent, links
<1>4. ASSUME NEW s \in Session, SocketFails(s) PROVE LinkType'
  <2>1. Severed(s) \in [Pair -> Seq(Signal)] /\ Touching(s) \subseteq Pair
    BY DEF Severed, Touching
  <2> QED
    BY <1>4, <2>1 DEF SocketFails
<1>5. \A dead : Destroy(dead) \in [Pair -> {NoPeer} \cup Fetcher]
  BY DEF Destroy
<1>6. \A s : Severed(s) \in [Pair -> Seq(Signal)] /\ Touching(s) \subseteq Pair
  BY DEF Severed, Touching
<1>7. ASSUME NEW s \in Session, CloseEvent(s) PROVE LinkType'
  BY <1>7, <1>5, <1>6 DEF CloseEvent, Cleanup
<1>8. ASSUME NEW b \in Browser, Disconnect(b) PROVE LinkType'
  BY <1>8, <1>5, <1>6 DEF Disconnect, Cleanup
<1>9. ASSUME NEW s \in Session, SendStats(s) PROVE LinkType'
  BY <1>9 DEF SendStats, links
<1>10. ASSUME NEW s \in Session, NEW t \in Session, NEW e \in Event, Offer(s, t, e)
       PROVE  LinkType'
  <2> DEFINE m == p2p[Owner(s)]
             signals == <<[kind |-> "offer", id |-> next, re |-> 0],
                          [kind |-> "candidate", id |-> next, re |-> 0]>>
  <2>1. /\ <<m, t>> \in Pair /\ Say(chan, m, t, signals)
        /\ peers' = [peers EXCEPT ![<<m, t>>] = NewPeer(TRUE, e)]
        /\ next' = next + 1 /\ fetches[Owner(s)] < MaxFetch
        /\ fetches' = [fetches EXCEPT ![Owner(s)] = @ + 1] /\ cache' = cache
    BY <1>10 DEF Offer
  <2>2. signals \in Seq(Signal)
    BY DEF Signal, Instance
  <2>3. chan' \in [Pair -> Seq(Signal)] /\ marred' \subseteq Pair
    BY <2>1, <2>2, SayIsTyped
  <2>4. peers' \in [Pair -> {NoPeer} \cup Fetcher] /\ next' \in Instance
    BY <2>1, NewPeerIsPeer
  <2>5. fetches' \in [Browser -> 0..MaxFetch]
    BY <2>1, SessionsOfBrowser, PeerClientAssumption
  <2> QED
    BY <2>1, <2>3, <2>4, <2>5
<1>11. ASSUME NEW l \in Pair, Deliver(l[1], l[2]) PROVE LinkType'
  <2> DEFINE s == l[1]
             t == l[2]
             m == p2p[Owner(t)]
             g == Head(chan[<<s, t>>])
             p == Found(m, s)
             q == Take(p, g)
             rest == [chan EXCEPT ![<<s, t>>] = Tail(@)]
  <2>1. /\ l = <<s, t>> /\ chan[l] # << >> /\ chan[l] \in Seq(Signal)
        /\ g \in Signal /\ Tail(chan[l]) \in Seq(Signal)
    <3>1. l = <<s, t>>
      BY PairsOfSessions
    <3>2. chan[l] # << >> /\ chan[l] \in Seq(Signal)
      BY <1>11, <3>1 DEF Deliver
    <3> QED
      BY <3>1, <3>2, HeadTailProperties
  <2>2. rest \in [Pair -> Seq(Signal)]
    BY <2>1
  <2>3. <<m, s>> \in Pair
    <3>1. m \in Session /\ Owner(m) = Owner(t)
      BY <1>11, SessionsOfBrowser, PairsOfSessions DEF Deliver, SessionInv, SessionType, Owned
    <3> QED
      BY <3>1, PairsOfSessions DEF Pair
  <2>4. p \in Fetcher /\ next + 1 \in Instance
    BY <2>3, NewPeerIsPeer DEF Found, Has
  <2>5. q \in Fetcher \cup {NoPeer}
    <3>1. g.id \in Instance
      BY <2>1 DEF Signal
    <3>2. q \in {p, NoPeer, [p EXCEPT !.phase = "linking", !.remote = g.id]}
      BY DEF Take
    <3> HIDE DEF p, q, g
    <3>3. [p EXCEPT !.phase = "linking", !.remote = g.id] \in Fetcher
      BY <3>1, <2>4 DEF Fetcher, Peer, Phase
    <3> QED
      BY <2>4, <3>2, <3>3
  <2>6. chan' \in [Pair -> Seq(Signal)] /\ marred' \subseteq Pair
    <3>1. CASE q # NoPeer /\ g.kind = "offer"
      <4> DEFINE signals == <<[kind |-> "answer", id |-> q.id, re |-> g.id]>>
      <4>1. Say(rest, m, s, signals)
        BY <1>11, <3>1 DEF Deliver
      <4>2. signals \in Seq(Signal)
        <5>1. q.id \in Instance /\ g.id \in Instance
          BY <2>1, <2>5, <3>1 DEF Signal, Fetcher, Peer
        <5> QED
          BY <5>1 DEF Signal
      <4> HIDE DEF m, s, rest, signals
      <4> QED
        BY <2>2, <2>3, <4>1, <4>2, SayIsTyped
    <3>2. CASE ~ (q # NoPeer /\ g.kind = "offer")
      BY <1>11, <2>2, <2>3, <3>2, PairsAreMutual DEF Deliver
    <3> QED
      BY <3>1, <3>2
  <2>7. peers' = [peers EXCEPT ![<<m, s>>] = q] /\ next' \in {next, next + 1}
        /\ cache' = cache /\ fetches' = fetches
    BY <1>11 DEF Deliver
  <2> QED
    BY <2>4, <2>5, <2>6, <2>7
<1>12. ASSUME NEW l \in Pair, ConnectUp(l[1], l[2]) PROVE LinkType'
  BY <1>12, PairsOfSessions, PeerPhase DEF ConnectUp, Joined, Has, Phase
<1>13. ASSUME NEW l \in Pair, ServeRead(l[1], l[2]) PROVE LinkType'
  <2>1. /\ <<l[1], l[2]>> \in Pair /\ peers[<<l[1], l[2]>>] \in Fetcher
        /\ UNCHANGED <<cache, next, fetches, chan>>
    BY <1>13, PairsOfSessions DEF ServeRead, Joined, Has
  <2>2. PICK f \in {"reading", "done"} :
          /\ peers' = [peers EXCEPT ![<<l[1], l[2]>>].phase = f]
          /\ marred' \in {marred, marred \cup Both(<<l[1], l[2]>>)}
    BY <1>13 DEF ServeRead
  <2>3. marred' \subseteq Pair
    BY <2>1, <2>2, PairsAreMutual
  <2>4. peers' \in [Pair -> {NoPeer} \cup Fetcher]
    <3>1. [peers[<<l[1], l[2]>>] EXCEPT !.phase = f] \in Fetcher
      BY <2>1, PeerPhase DEF Phase
    <3> QED
      BY <2>1, <2>2, <3>1
  <2> QED
    BY <2>1, <2>3, <2>4
<1>14. ASSUME NEW l \in Pair, ServeSend(l[1], l[2]) PROVE LinkType'
  BY <1>14, PairsOfSessions, PeerPhase DEF ServeSend, Has, Phase
<1>15. ASSUME NEW l \in Pair, Receive(l[1], l[2]) PROVE LinkType'
  <2> DEFINE m == l[1]
             n == l[2]
             half == [peers EXCEPT ![<<m, n>>].phase = "done"]
  <2>1. /\ <<m, n>> \in Pair /\ peers[<<m, n>>] \in Fetcher /\ peers[<<m, n>>].phase = "asking"
        /\ <<n, m>> \in Pair /\ <<n, m>> # <<m, n>> /\ peers[<<n, m>>] \in Fetcher
    <3>1. <<m, n>> \in Pair /\ <<n, m>> \in Pair /\ m # n
      BY PairsOfSessions, PairsAreMutual DEF Both, Pair
    <3> QED
      BY <1>15, <3>1 DEF Receive, Joined, Has
  <2>2. /\ peers' = [half EXCEPT ![<<n, m>>].phase = "done"]
        /\ cache' = [cache EXCEPT ![Owner(m)] = @ \cup {peers[<<m, n>>].event}]
        /\ UNCHANGED <<next, fetches, chan, marred>>
    BY <1>15 DEF Receive
  <2>3. peers[<<m, n>>].event \in Event
    BY <2>1 DEF Fetcher
  <2>4. half \in [Pair -> {NoPeer} \cup Fetcher] /\ half[<<n, m>>] \in Fetcher
    BY <2>1, PeerPhase DEF Phase
  <2>5. peers' \in [Pair -> {NoPeer} \cup Fetcher]
    <3> HIDE DEF half, m, n
    <3> QED
      BY <2>1, <2>2, <2>4, PeerPhase DEF Phase
  <2>6. cache' \in [Browser -> SUBSET Event]
    BY <2>2, <2>3
  <2> QED
    BY <2>2, <2>5, <2>6
<1>16. ASSUME NEW l \in Pair, PeerLost(l[1], l[2]) \/ SuperPeerLeft(l[1], l[2])
       PROVE  LinkType'
  BY <1>16, <1>5, PairsAreMutual DEF PeerLost, SuperPeerLeft, Both
<1> QED
  BY <1>1, <1>2, <1>3, <1>4, <1>7, <1>8, <1>9, <1>10, <1>11, <1>12, <1>13, <1>14, <1>15, <1>16
  DEF Next, Handshake

LEMMA LinkStep == SessionInv /\ LinkType /\ [Next]_vars => LinkType'
<1>1. LinkType /\ UNCHANGED vars => LinkType'
  BY DEF LinkType, vars, links
<1> QED
  BY <1>1, LinkSteps

-----------------------------------------------------------------------------
(* Connections and the session they belong to.                             *)

(* A step that leaves the sessions alone and makes no connection.          *)
LEMMA NoNewPeers ==
  ASSUME PeersAreCurrent, UNCHANGED sessions,
         \A l \in Pair : peers'[l] # NoPeer => peers[l] # NoPeer
  PROVE  PeersAreCurrent'
  BY DEF PeersAreCurrent, sessions

(* The manager that makes a connection is that of the open session.        *)
LEMMA NewPeerIsCurrent ==
  ASSUME SessionInv, PeersAreCurrent, UNCHANGED sessions,
         NEW s \in Session, Open(s), NEW r,
         \A l \in Pair : peers'[l] # NoPeer /\ l # <<p2p[Owner(s)], r>> => peers[l] # NoPeer
  PROVE  PeersAreCurrent'
<1> DEFINE m == p2p[Owner(s)]
<1>1. m \in Session /\ Owner(m) = Owner(s)
  BY SessionsOfBrowser DEF SessionInv, Owned
<1>2. Owner(m) \in cut \/ (ws[Owner(m)] = m /\ p2p[Owner(m)] = m)
  BY <1>1 DEF SessionInv, LiveIsCurrent, Active, Open
<1>3. ASSUME NEW l \in Pair, peers'[l] # NoPeer
      PROVE  Owner(l[1]) \in cut \/ (ws[Owner(l[1])] = l[1] /\ p2p[Owner(l[1])] = l[1])
  <2>1. CASE l = <<m, r>>
    BY <1>2, <2>1
  <2>2. CASE l # <<m, r>>
    BY <1>3, <2>2 DEF PeersAreCurrent
  <2> QED
    BY <2>1, <2>2
<1> QED
  BY <1>3 DEF PeersAreCurrent, sessions

LEMMA CurrentStep ==
  ASSUME SessionInv, LinkType, PeersAreCurrent, [Next]_vars
  PROVE  PeersAreCurrent'
<1> USE DEF LinkType
<1>1. ASSUME NEW s \in Session, Connect(s) PROVE PeersAreCurrent'
  BY <1>1, SessionsOfBrowser, PairsOfSessions
  DEF Connect, links, PeersAreCurrent, SessionInv, SessionType
<1>2. ASSUME NEW s \in Session, SocketOpens(s) PROVE PeersAreCurrent'
  BY <1>2, SessionsOfBrowser, PairsOfSessions
  DEF SocketOpens, links, PeersAreCurrent, SessionInv, SessionType, LiveIsCurrent, Active
<1>3. ASSUME NEW s \in Session, Registered(s) \/ SocketFails(s) PROVE PeersAreCurrent'
  BY <1>3 DEF Registered, SocketFails, links, PeersAreCurrent
<1>4. ASSUME NEW s \in Session, CloseEvent(s) PROVE PeersAreCurrent'
  <2>1. ASSUME NEW l \in Pair, peers'[l] # NoPeer, Owner(l[1]) \notin cut'
        PROVE  ws'[Owner(l[1])] = l[1] /\ p2p'[Owner(l[1])] = l[1]
    <3>1. peers[l] # NoPeer /\ l[1] # p2p[Owner(s)] /\ Owner(l[1]) \notin cut /\ p2p' = p2p
      BY <1>4, <2>1 DEF CloseEvent, Cleanup, Destroy
    <3>2. ws[Owner(l[1])] = l[1] /\ p2p[Owner(l[1])] = l[1]
      BY <3>1 DEF PeersAreCurrent
    <3>3. ws'[Owner(l[1])] = ws[Owner(l[1])]
      BY <1>4, <3>1, <3>2, PairsOfSessions, SessionsOfBrowser
      DEF CloseEvent, Cleanup, SessionInv, SessionType
    <3> QED
      BY <3>1, <3>2, <3>3
  <2> QED
    BY <2>1 DEF PeersAreCurrent
<1>5. ASSUME NEW b \in Browser, Disconnect(b) PROVE PeersAreCurrent'
  <2>1. ASSUME NEW l \in Pair, peers'[l] # NoPeer, Owner(l[1]) \notin cut'
        PROVE  ws'[Owner(l[1])] = l[1] /\ p2p'[Owner(l[1])] = l[1]
    <3>1. peers[l] # NoPeer /\ l[1] # p2p[b] /\ Owner(l[1]) \notin cut /\ p2p' = p2p
      BY <1>5, <2>1 DEF Disconnect, Cleanup, Destroy
    <3>2. ws[Owner(l[1])] = l[1] /\ p2p[Owner(l[1])] = l[1]
      BY <3>1 DEF PeersAreCurrent
    <3>3. ws'[Owner(l[1])] = ws[Owner(l[1])]
      BY <1>5, <3>1, <3>2, PairsOfSessions, SessionsOfBrowser
      DEF Disconnect, Cleanup, SessionInv, SessionType
    <3> QED
      BY <3>1, <3>2, <3>3
  <2> QED
    BY <2>1 DEF PeersAreCurrent
<1>6. ASSUME NEW s \in Session, NEW t \in Session, NEW e \in Event, Offer(s, t, e)
      PROVE  PeersAreCurrent'
  <2>1. Open(s)
    BY <1>6 DEF Offer, Known, Open
  <2>2. \A l \in Pair : peers'[l] # NoPeer /\ l # <<p2p[Owner(s)], t>> => peers[l] # NoPeer
    BY <1>6 DEF Offer
  <2>3. UNCHANGED sessions
    BY <1>6 DEF Offer
  <2> QED
    BY <2>1, <2>2, <2>3, NewPeerIsCurrent
<1>7. ASSUME NEW l \in Pair, Deliver(l[1], l[2]) PROVE PeersAreCurrent'
  <2>1. l[2] \in Session /\ Open(l[2]) /\ UNCHANGED sessions
    BY <1>7, PairsOfSessions DEF Deliver
  <2>2. \A k \in Pair : peers'[k] # NoPeer /\ k # <<p2p[Owner(l[2])], l[1]>> => peers[k] # NoPeer
    BY <1>7 DEF Deliver
  <2> QED
    BY <2>1, <2>2, NewPeerIsCurrent
<1>8. ASSUME NEW l \in Pair, ConnectUp(l[1], l[2]) \/ Receive(l[1], l[2])
      PROVE  PeersAreCurrent'
  <2>1. /\ peers[<<l[1], l[2]>>] # NoPeer /\ peers[<<l[2], l[1]>>] # NoPeer
        /\ UNCHANGED sessions
    BY <1>8 DEF ConnectUp, Receive, Joined, Has
  <2>2. \A k \in Pair : peers'[k] # NoPeer => peers[k] # NoPeer
    BY <1>8, <2>1 DEF ConnectUp, Receive
  <2> QED
    BY <2>1, <2>2, NoNewPeers
<1>9. ASSUME NEW l \in Pair, ServeRead(l[1], l[2]) \/ ServeSend(l[1], l[2])
      PROVE  PeersAreCurrent'
  <2>1. peers[<<l[1], l[2]>>] # NoPeer /\ UNCHANGED sessions
    BY <1>9 DEF ServeRead, ServeSend, Joined, Has
  <2>2. \A k \in Pair : peers'[k] # NoPeer => peers[k] # NoPeer
    BY <1>9, <2>1 DEF ServeRead, ServeSend
  <2> QED
    BY <2>1, <2>2, NoNewPeers
<1>10. ASSUME NEW l \in Pair, PeerLost(l[1], l[2]) \/ SuperPeerLeft(l[1], l[2])
       PROVE  PeersAreCurrent'
  <2>1. UNCHANGED sessions /\ \A k \in Pair : peers'[k] # NoPeer => peers[k] # NoPeer
    BY <1>10 DEF PeerLost, SuperPeerLeft, Destroy
  <2> QED
    BY <2>1, NoNewPeers
<1>11. ASSUME NEW s \in Session, SendStats(s) \/ \E e \in Event : RelayEvent(s, e)
       PROVE  PeersAreCurrent'
  BY <1>11, NoNewPeers DEF SendStats, RelayEvent, links
<1>12. UNCHANGED vars => PeersAreCurrent'
  BY NoNewPeers DEF vars, links
<1> QED
  BY <1>1, <1>2, <1>3, <1>4, <1>5, <1>6, <1>7, <1>8, <1>9, <1>10, <1>11, <1>12
  DEF Next, Handshake

-----------------------------------------------------------------------------
(* The counts.                                                             *)

(* A report is of the session's own manager, so that the difference to the *)
(* report before is what this session served in between.                   *)
LEMMA CountStep ==
  ASSUME SessionInv, LinkType, CountType, Reported, [Next]_vars
  PROVE  CountType' /\ Reported'
<1> USE DEF CountType, Reported
<1>1. ASSUME NEW s \in Session, Connect(s) \/ SocketOpens(s) PROVE CountType' /\ Reported'
  BY <1>1 DEF Connect, SocketOpens, counts, relay
<1>2. ASSUME NEW s \in Session, Registered(s) PROVE CountType' /\ Reported'
  <2>1. cache' \in [Browser -> SUBSET Event]
    BY <1>2 DEF Registered, LinkType
  <2>2. index' \subseteq Session \X Event
    BY <1>2, <2>1, SessionsOfBrowser DEF Registered
  <2> QED
    BY <1>2, <2>2 DEF Registered, counts
<1>3. ASSUME NEW s \in Session, NEW e \in Event, RelayEvent(s, e)
      PROVE  CountType' /\ Reported'
  <2>1. \A w : Known(w) /\ w \in {ws[Owner(s)]} => w \in Session
    BY SessionsOfBrowser DEF Known, SessionInv, SessionType
  <2>2. index' \subseteq Session \X Event
    BY <1>3, <2>1 DEF RelayEvent
  <2> QED
    BY <1>3, <2>2 DEF RelayEvent, counts
<1>4. ASSUME NEW s \in Session, SocketFails(s) \/ CloseEvent(s) PROVE CountType' /\ Reported'
  BY <1>4 DEF SocketFails, CloseEvent, counts, relay
<1>5. ASSUME NEW b \in Browser, Disconnect(b) PROVE CountType' /\ Reported'
  BY <1>5 DEF Disconnect, counts
<1>6. ASSUME NEW s \in Session, SendStats(s) PROVE CountType' /\ Reported'
  <2> DEFINE n == served[s]
             delta == IF n > last[s] THEN n - last[s] ELSE 0
  <2>1. p2p[Owner(s)] = s
    BY <1>6 DEF SendStats, Known, SessionInv, InTurn, Open
  <2>2. /\ last' = [last EXCEPT ![s] = n]
        /\ credit' = [credit EXCEPT ![s] = IF delta < MaxDelta THEN @ + delta ELSE @]
        /\ UNCHANGED <<index, served, received>>
    BY <1>6, <2>1 DEF SendStats, counts
  <2>3. n \in Nat /\ last[s] \in Nat /\ credit[s] \in Nat /\ credit[s] <= last[s] /\ last[s] <= n
    OBVIOUS
  <2>4. delta \in Nat /\ credit[s] + delta <= n
    BY <2>3
  <2>5. credit'[s] \in Nat /\ credit'[s] <= n
    BY <2>2, <2>3, <2>4
  <2>6. last' \in [Session -> Nat] /\ credit' \in [Session -> Nat]
    BY <2>2, <2>3, <2>5
  <2>7. \A u \in Session : credit'[u] <= last'[u] /\ last'[u] <= served'[u]
    BY <2>2, <2>3, <2>5
  <2> QED
    BY <2>2, <2>6, <2>7
<1>7. ASSUME NEW s \in Session, NEW t \in Session, NEW e \in Event, Offer(s, t, e)
      PROVE  CountType' /\ Reported'
  BY <1>7 DEF Offer, counts, relay
<1>8. ASSUME NEW l \in Pair,
             \/ Deliver(l[1], l[2]) \/ ConnectUp(l[1], l[2]) \/ ServeRead(l[1], l[2])
             \/ PeerLost(l[1], l[2]) \/ SuperPeerLeft(l[1], l[2])
      PROVE  CountType' /\ Reported'
  BY <1>8 DEF Deliver, ConnectUp, ServeRead, PeerLost, SuperPeerLeft, counts, relay
<1>9. ASSUME NEW l \in Pair, ServeSend(l[1], l[2]) PROVE CountType' /\ Reported'
  <2>1. /\ served' = [served EXCEPT ![l[1]] = @ + 1]
        /\ UNCHANGED <<received, index, last, credit>>
    BY <1>9 DEF ServeSend, relay
  <2>2. served' \in [Session -> Nat] /\ \A u \in Session : served[u] <= served'[u]
    <3>1. \A u \in Session : served[u] \in Nat /\ served'[u] \in {served[u], served[u] + 1}
      BY <2>1
    <3> DEFINE n == served[l[1]] + 1
    <3>2. n \in Nat /\ served' = [served EXCEPT ![l[1]] = n]
      BY <2>1, PairsOfSessions
    <3> HIDE DEF n
    <3>3. served' \in [Session -> Nat]
      BY <3>2
    <3> QED
      BY <3>1, <3>3
  <2>3. \A u \in Session : last'[u] \in Nat /\ last'[u] <= served'[u]
    BY <2>1, <2>2
  <2> QED
    BY <2>1, <2>2, <2>3
<1>10. ASSUME NEW l \in Pair, Receive(l[1], l[2]) PROVE CountType' /\ Reported'
  BY <1>10, PairsOfSessions DEF Receive, relay
<1>11. UNCHANGED vars => CountType' /\ Reported'
  BY DEF vars, counts, relay
<1> QED
  BY <1>1, <1>2, <1>3, <1>4, <1>5, <1>6, <1>7, <1>8, <1>9, <1>10, <1>11 DEF Next, Handshake

-----------------------------------------------------------------------------
(* What is received was served.                                            *)

(* There are as many sessions and pairs of them as numbers.                *)
LEMMA PairsAreFinite == IsFiniteSet(Session) /\ IsFiniteSet(Pair)
<1>1. IsFiniteSet({1}) /\ IsFiniteSet({2})
  BY FS_Singleton
<1>2. IsFiniteSet(Browser) /\ IsFiniteSet(Again)
  BY PeerClientAssumption, FS_Subset
<1>3. IsFiniteSet(Browser \X {1}) /\ IsFiniteSet(Again \X {2})
  BY <1>1, <1>2, FS_Product
<1>4. IsFiniteSet(Session)
  BY <1>3, FS_Union DEF Session
<1>5. IsFiniteSet(Session \X Session)
  BY <1>4, FS_Product
<1>6. Pair \subseteq Session \X Session
  BY DEF Pair
<1> QED
  BY <1>4, <1>5, <1>6, FS_Subset

(* The events on their way can be counted.                                 *)
LEMMA WayIsFinite == \A w \in SUBSET Pair : IsFiniteSet(w) /\ Cardinality(w) \in Nat
  BY PairsAreFinite, FS_Subset, FS_CardinalityType

(* Adding one to a summand adds one to the sum.                            *)
LEMMA SumOfCounted ==
  ASSUME NEW f \in [Session -> Nat], NEW s \in Session
  PROVE  SumFunction([f EXCEPT ![s] = @ + 1]) = SumFunction(f) + 1
<1> DEFINE g == [f EXCEPT ![s] = @ + 1]
<1>1. f[s] \in Nat /\ g \in [Session -> Nat] /\ g[s] = f[s] + 1
      /\ \A y \in Session \ {s} : g[y] = f[y]
  OBVIOUS
<1> HIDE DEF g
<1>2. DiffersAt(s, g, f, Session)
  BY <1>1, PairsAreFinite DEF DiffersAt
<1>3. SumFunction(g) = SumFunction(f) + g[s] - f[s]
  BY <1>2, SumOfChanged
<1>4. SumFunction(f) \in Nat
  BY PairsAreFinite, SumIsNat
<1>5. SumFunction(g) = SumFunction(f) + 1
  BY <1>1, <1>3, <1>4
<1> QED
  BY <1>5 DEF g

LEMMA DeliveredBounds ==
  ASSUME CountType, DeliveredInv
  PROVE  SumFunction(received) <= SumFunction(served)
<1>1. SumFunction(received) \in Nat /\ SumFunction(served) \in Nat
  BY PairsAreFinite, SumIsNat DEF CountType
<1>2. Cardinality(OnTheWay) \in Nat
  BY WayIsFinite DEF OnTheWay
<1> QED
  BY <1>1, <1>2 DEF DeliveredInv

(* A step that counts nothing and sends nothing.                           *)
LEMMA NothingSent ==
  ASSUME CountType, DeliveredInv, UNCHANGED counts,
         \A l \in Pair : peers'[l] # NoPeer /\ peers'[l].phase = "sent" => peers'[l] = peers[l]
  PROVE  DeliveredInv'
<1>1. OnTheWay' \subseteq OnTheWay /\ OnTheWay \in SUBSET Pair
  BY DEF OnTheWay
<1>2. Cardinality(OnTheWay') <= Cardinality(OnTheWay)
  BY <1>1, WayIsFinite, FS_Subset
<1>3. Cardinality(OnTheWay') \in Nat /\ Cardinality(OnTheWay) \in Nat
  BY <1>1, WayIsFinite
<1>4. SumFunction(received) \in Nat /\ SumFunction(served) \in Nat
  BY PairsAreFinite, SumIsNat DEF CountType
<1>5. received' = received /\ served' = served
  BY DEF counts
<1> QED
  BY <1>2, <1>3, <1>4, <1>5 DEF DeliveredInv

LEMMA DeliveredStep ==
  ASSUME SessionInv, LinkType, CountType, DeliveredInv, [Next]_vars
  PROVE  DeliveredInv'
<1> USE DEF LinkType
<1>1. ASSUME NEW s \in Session,
             \/ Connect(s) \/ SocketOpens(s) \/ Registered(s) \/ SocketFails(s) \/ SendStats(s)
             \/ \E e \in Event : RelayEvent(s, e)
      PROVE  DeliveredInv'
  BY <1>1, NothingSent
  DEF Connect, SocketOpens, Registered, SocketFails, SendStats, RelayEvent, links, counts
<1>2. ASSUME NEW s \in Session, CloseEvent(s) PROVE DeliveredInv'
  BY <1>2, NothingSent DEF CloseEvent, Cleanup, Destroy
<1>3. ASSUME NEW b \in Browser, Disconnect(b) PROVE DeliveredInv'
  BY <1>3, NothingSent DEF Disconnect, Cleanup, Destroy
<1>4. ASSUME NEW s \in Session, NEW t \in Session, NEW e \in Event, Offer(s, t, e)
      PROVE  DeliveredInv'
  BY <1>4, NothingSent DEF Offer, NewPeer
<1>5. ASSUME NEW l \in Pair, Deliver(l[1], l[2]) PROVE DeliveredInv'
  <2> DEFINE s == l[1]
             m == p2p[Owner(l[2])]
             g == Head(chan[<<s, l[2]>>])
             q == Take(Found(m, s), g)
  <2>1. peers' = [peers EXCEPT ![<<m, s>>] = q] /\ UNCHANGED counts
    BY <1>5 DEF Deliver
  <2>2. <<m, s>> \in Pair => q = NoPeer \/ q.phase # "sent" \/ q = peers[<<m, s>>]
    <3>1. q \in {Found(m, s), NoPeer, [Found(m, s) EXCEPT !.phase = "linking", !.remote = g.id]}
      BY DEF Take
    <3>2. Found(m, s) = peers[<<m, s>>] \/ Found(m, s) = NewPeer(FALSE, None)
      BY DEF Found
    <3>3. NewPeer(FALSE, None).phase = "new"
      BY DEF NewPeer
    <3>4. ASSUME <<m, s>> \in Pair, q = [Found(m, s) EXCEPT !.phase = "linking", !.remote = g.id],
                 q # NoPeer
          PROVE  q.phase # "sent"
      <4> DEFINE p == Found(m, s)
                 h == g.id
      <4>1. p \in Fetcher
        BY <3>4, NewPeerIsPeer DEF Found, Has
      <4>2. q = [p EXCEPT !.phase = "linking", !.remote = h]
        BY <3>4
      <4> HIDE DEF p, h, q
      <4>3. q.phase = "linking"
        BY <4>1, <4>2 DEF Fetcher, Peer
      <4> QED
        BY <4>3
    <3> HIDE DEF q, m, s, g
    <3> QED
      BY <3>1, <3>2, <3>3, <3>4
  <2> HIDE DEF q
  <2>3. \A k \in Pair : peers'[k] # NoPeer /\ peers'[k].phase = "sent" => peers'[k] = peers[k]
    BY <2>1, <2>2
  <2> QED
    BY <2>1, <2>3, NothingSent
<1>6. ASSUME NEW l \in Pair, ConnectUp(l[1], l[2]) PROVE DeliveredInv'
  <2>1. \A k \in Pair : peers'[k] # NoPeer /\ peers'[k].phase = "sent" => peers'[k] = peers[k]
    BY <1>6 DEF ConnectUp, Joined, Has, Fetcher, Peer
  <2> QED
    BY <1>6, <2>1, NothingSent DEF ConnectUp
<1>7. ASSUME NEW l \in Pair, ServeRead(l[1], l[2]) PROVE DeliveredInv'
  <2>1. PICK f \in {"reading", "done"} : peers' = [peers EXCEPT ![<<l[1], l[2]>>].phase = f]
    BY <1>7 DEF ServeRead
  <2>2. peers[<<l[1], l[2]>>] # NoPeer /\ UNCHANGED counts
    BY <1>7 DEF ServeRead, Joined, Has
  <2>3. l = <<l[1], l[2]>> /\ peers[l] \in Fetcher
    BY <2>2, PairsOfSessions
  <2>4. peers' = [peers EXCEPT ![l].phase = f] /\ peers'[l].phase # "sent"
    BY <2>1, <2>3 DEF Fetcher, Peer
  <2>5. \A k \in Pair : peers'[k] # NoPeer /\ peers'[k].phase = "sent" => peers'[k] = peers[k]
    <3>1. \A k \in Pair \ {l} : peers'[k] = peers[k]
      BY <2>4
    <3> QED
      BY <2>4, <3>1
  <2> QED
    BY <2>2, <2>5, NothingSent
<1>8. ASSUME NEW l \in Pair, ServeSend(l[1], l[2]) PROVE DeliveredInv'
  <2>1. /\ l[1] \in Session /\ <<l[1], l[2]>> = l
        /\ peers[l] \in Fetcher /\ peers[l].phase = "reading"
        /\ peers' = [peers EXCEPT ![l].phase = "sent"]
        /\ served' = [served EXCEPT ![l[1]] = @ + 1] /\ received' = received
    BY <1>8, PairsOfSessions DEF ServeSend, Has
  <2>2. OnTheWay' = OnTheWay \cup {l} /\ l \notin OnTheWay
    <3>1. peers'[l] = [peers[l] EXCEPT !.phase = "sent"]
      BY <2>1
    <3>2. [peers[l] EXCEPT !.phase = "sent"] \in Fetcher
      BY <2>1, PeerPhase DEF Phase
    <3>3. peers'[l] # NoPeer /\ peers'[l].phase = "sent"
      BY <2>1, <3>1, <3>2, PeerPhase DEF Fetcher, Peer
    <3>4. \A k \in Pair \ {l} : peers'[k] = peers[k]
      BY <2>1
    <3> QED
      BY <2>1, <3>3, <3>4 DEF OnTheWay
  <2>3. Cardinality(OnTheWay') = Cardinality(OnTheWay) + 1 /\ Cardinality(OnTheWay) \in Nat
    <3>1. OnTheWay \in SUBSET Pair
      BY DEF OnTheWay
    <3> QED
      BY <2>2, <3>1, WayIsFinite, FS_AddElement
  <2>4. SumFunction(served') = SumFunction(served) + 1
    BY <2>1, SumOfCounted DEF CountType
  <2>5. SumFunction(received) \in Nat /\ SumFunction(served) \in Nat
    BY PairsAreFinite, SumIsNat DEF CountType
  <2> QED
    BY <2>1, <2>3, <2>4, <2>5 DEF DeliveredInv
<1>9. ASSUME NEW l \in Pair, Receive(l[1], l[2]) PROVE DeliveredInv'
  <2> DEFINE n == l[2]
             m == l[1]
             k == <<n, m>>
  <2>1. /\ m \in Session /\ k \in Pair /\ <<m, n>> = l /\ k # l
        /\ peers[l] \in Fetcher /\ peers[l].phase = "asking"
        /\ peers[k] \in Fetcher /\ peers[k].phase = "sent"
    <3>1. m \in Session /\ k \in Pair /\ <<m, n>> = l /\ k # l
      BY PairsOfSessions, PairsAreMutual DEF Both, Pair
    <3> QED
      BY <1>9, <3>1 DEF Receive, Joined, Has
  <2>2. /\ peers' = [peers EXCEPT ![l].phase = "done", ![k].phase = "done"]
        /\ received' = [received EXCEPT ![m] = @ + 1] /\ served' = served
    BY <1>9, <2>1 DEF Receive
  <2> HIDE DEF k, m
  <2>3. OnTheWay' = OnTheWay \ {k} /\ k \in OnTheWay
    <3>1. k \in OnTheWay
      BY <2>1, PeerPhase DEF OnTheWay
    <3>2. peers'[k].phase = "done" /\ peers'[l].phase = "done"
          /\ \A j \in Pair \ {k, l} : peers'[j] = peers[j]
      BY <2>1, <2>2 DEF Fetcher, Peer
    <3>3. l \notin OnTheWay
      BY <2>1 DEF OnTheWay
    <3> QED
      BY <3>1, <3>2, <3>3 DEF OnTheWay
  <2>4. Cardinality(OnTheWay') = Cardinality(OnTheWay) - 1 /\ Cardinality(OnTheWay) \in Nat
    <3>1. OnTheWay \in SUBSET Pair
      BY DEF OnTheWay
    <3> QED
      BY <2>3, <3>1, WayIsFinite, FS_RemoveElement
  <2>5. SumFunction(received') = SumFunction(received) + 1
    BY <2>1, <2>2, SumOfCounted DEF CountType
  <2>6. SumFunction(received) \in Nat /\ SumFunction(served) \in Nat
    BY PairsAreFinite, SumIsNat DEF CountType
  <2> QED
    BY <2>2, <2>4, <2>5, <2>6 DEF DeliveredInv
<1>10. ASSUME NEW l \in Pair, PeerLost(l[1], l[2]) \/ SuperPeerLeft(l[1], l[2])
       PROVE  DeliveredInv'
  BY <1>10, NothingSent DEF PeerLost, SuperPeerLeft, Destroy
<1>11. UNCHANGED vars => DeliveredInv'
  BY NothingSent DEF vars, links
<1> QED
  BY <1>1, <1>2, <1>3, <1>4, <1>5, <1>6, <1>7, <1>8, <1>9, <1>10, <1>11 DEF Next, Handshake

LEMMA DeliveredInit == Init => DeliveredInv
<1> SUFFICES ASSUME Init PROVE DeliveredInv
  OBVIOUS
<1>1. OnTheWay = {}
  BY DEF Init, OnTheWay
<1>2. Cardinality(OnTheWay) = 0
  BY <1>1, FS_EmptySet
<1>3. received = served /\ served \in [Session -> Nat]
  BY DEF Init
<1>4. SumFunction(served) \in Nat
  BY <1>3, PairsAreFinite, SumIsNat
<1> QED
  BY <1>2, <1>3, <1>4 DEF DeliveredInv

-----------------------------------------------------------------------------
LEMMA LinkInit == Init => LinkType /\ PeersAreCurrent /\ CountType /\ Reported
<1> SUFFICES ASSUME Init PROVE LinkType /\ PeersAreCurrent /\ CountType /\ Reported
  OBVIOUS
<1>1. << >> \in Seq(Signal) /\ 1 \in Instance /\ 0 \in 0..MaxFetch
  BY PeerClientAssumption DEF Instance
<1> QED
  BY <1>1 DEF Init, LinkType, PeersAreCurrent, CountType, Reported

(* The library keeps the types of its maps, with any number of browsers,   *)
(* sessions one after another, fetches and signals.                        *)
THEOREM PeerClientTypeCorrect == Spec => []TypeOK
<1>1. SessionType /\ LinkType /\ CountType => TypeOK
  BY DEF SessionType, LinkType, CountType, TypeOK, Fetcher
<1> QED
  BY <1>1, SessionInit, SessionStep, LinkInit, LinkStep, CountStep, PTL DEF Spec, SessionInv

(* client.ts:106, 118: disconnect() and the close of a socket leave no     *)
(* connection behind, but for a client whose next session was cleaned up   *)
(* by the late close of the last one.                                      *)
THEOREM ConnectionsEndWithSession == Spec => []NoStrayConnection
<1>1. PeersAreCurrent => NoStrayConnection
  BY DEF PeersAreCurrent, NoStrayConnection
<1> QED
  BY <1>1, SessionInit, SessionStep, LinkInit, LinkStep, CurrentStep, PTL DEF Spec

(* p2p.ts, _handleMessage and handleRequest, and onStats in handler.ts: a  *)
(* session is never credited with more than it served, and no more events  *)
(* are received than were counted as served, though a connection may go at *)
(* any moment of an exchange.                                              *)
THEOREM CreditIsServed == Spec => []CreditedWasServed
<1>1. CountType /\ Reported => \A s \in Session : credit[s] <= served[s]
  BY DEF CountType, Reported
<1>2. CountType /\ DeliveredInv => SumFunction(received) <= SumFunction(served)
  BY DeliveredBounds
<1>3. CountType /\ Reported /\ DeliveredInv => CreditedWasServed
  BY <1>1, <1>2 DEF CreditedWasServed
<1> QED
  BY <1>3, SessionInit, SessionStep, LinkInit, LinkStep, CountStep, DeliveredInit, DeliveredStep,
     PTL DEF Spec
=============================================================================
