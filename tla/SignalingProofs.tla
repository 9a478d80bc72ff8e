--------------------------- MODULE SignalingProofs ---------------------------
(***************************************************************************)
(* Proofs about Signaling, for every finite set of clients, set of events, *)
(* limit and window.  The maps of connections satisfy ConnInv, by the      *)
(* lemmas of ConnectionsProofs; what is added relates them to the clients  *)
(* that are cleaned up as they leave, the windows to what passed, and the set of         *)
(* confirmed events to the age of its members.                             *)
(***************************************************************************)
EXTENDS Signaling, ConnectionsProofs, DataLemmas

(* A client that is not registered, and neither lapsed nor had a cleanup   *)
(* fail, is nobody's super peer.                                           *)
OnlyRegistered ==
  \A c \in Client : client[c] \in {"open", "closed"} /\ c \notin uncleaned
                     => Forgotten(links, c)

(* Every client is in one of four states.                                  *)
ClientType == client \in [Client -> Stage] /\ uncleaned \subseteq Client

LinksInv == ClientType /\ ConnInv(links) /\ OnlyRegistered /\ SlotsAccounted

-----------------------------------------------------------------------------
(* The maps of connections.                                                *)

(* The maps h only take away from the maps k: they add no peer to a set,   *)
(* and a pointer they change is deleted, with its slot or because its peer *)
(* was one of c's.                                                         *)
Shrinks(k, h, c) ==
  /\ \A s \in Client : h.peers[s] \subseteq k.peers[s]
  /\ \A p \in Client : h.super[p] \in {k.super[p], NoClient}
  /\ \A p \in Client : h.super[p] # k.super[p] =>
       \/ p = c /\ (k.super[p] \in Client => p \notin h.peers[k.super[p]])
       \/ p \in k.peers[c]

(* A super peer that is dropped takes its peers' pointers along.           *)
LEMMA DropShrinks ==
  ASSUME NEW k \in ConnType, NEW c \in Client
  PROVE  Shrinks(k, HandleSuperPeerDisconnect(k, c), c)
<1> DEFINE h == HandleSuperPeerDisconnect(k, c)
<1>1. /\ \A s \in Client : h.peers[s] = IF s = c THEN {} ELSE k.peers[s]
      /\ \A p \in Client : h.super[p] = IF p \in k.peers[c] THEN NoClient ELSE k.super[p]
  BY DEF HandleSuperPeerDisconnect, Orphans, ConnType
<1> HIDE DEF h
<1> QED
  BY <1>1 DEF Shrinks, h

(* So does a cleanup, which first frees the client's own slot.             *)
LEMMA CleanupShrinks ==
  ASSUME NEW k \in ConnType, NEW c \in Client
  PROVE  Shrinks(k, CleanupPeerConnections(k, c), c)
<1> DEFINE r == RemoveConnection(k, c)
           h == HandleSuperPeerDisconnect(r, c)
<1>1. r \in ConnType
  BY DEF RemoveConnection, ConnType
<1>2. /\ \A s \in Client : r.peers[s] \subseteq k.peers[s]
      /\ \A p \in Client : r.super[p] = IF p = c THEN NoClient ELSE k.super[p]
      /\ k.super[c] \in Client => c \notin r.peers[k.super[c]]
  BY ClientsAssumption DEF RemoveConnection, ConnType
<1>3. /\ \A s \in Client : h.peers[s] = IF s = c THEN {} ELSE r.peers[s]
      /\ \A p \in Client : h.super[p] = IF p \in r.peers[c] THEN NoClient ELSE r.super[p]
  BY <1>1 DEF HandleSuperPeerDisconnect, Orphans, ConnType
<1> HIDE DEF r, h
<1>4. h = CleanupPeerConnections(k, c)
  BY DEF CleanupPeerConnections, r, h
<1> QED
  BY <1>2, <1>3, <1>4 DEF Shrinks

(* Initially nothing names anybody.                                        *)
LEMMA LinksInit == Init => LinksInv
<1> SUFFICES ASSUME Init PROVE LinksInv
  OBVIOUS
<1>1. ConnInv(links)
  BY NoLinksInv DEF Init
<1>2. \A c \in Client : links.peers[c] = {} /\ links.super[c] = NoClient
  BY DEF Init, NoLinks
<1>3. OnlyRegistered
  BY <1>2, ClientsAssumption DEF OnlyRegistered, Forgotten
<1>4. Unpointed(links) = {}
  BY <1>2 DEF Unpointed
<1> QED
  BY <1>1, <1>3, <1>4 DEF LinksInv, ClientType, Stage, SlotsAccounted, Init

(* A report: the reporter is registered, and only its own set grows.       *)
LEMMA P2PConnectedKeepsLinks ==
  ASSUME LinksInv, NEW c \in Client, NEW remote \in Client, P2PConnected(c, remote)
  PROVE  LinksInv'
<1>1. ConnInv(links') /\ ClientType'
  BY RegisterConnectionInv DEF LinksInv, P2PConnected, ClientType, signalVars
<1>2. links \in ConnType
  BY DEF LinksInv, ConnInv
<1>3. CASE IsSuperPeerFull(links, c)
  <2>1. links' = links
    BY <1>3 DEF P2PConnected, RegisterConnection
  <2>2. Unpointed(links') = leaked'
    BY <2>1 DEF P2PConnected, LinksInv, SlotsAccounted, Unpointed
  <2> QED
    BY <1>1, <2>1, <2>2 DEF LinksInv, OnlyRegistered, SlotsAccounted, P2PConnected, signalVars
<1>4. CASE ~ IsSuperPeerFull(links, c)
  <2>1. /\ \A s \in Client : links'.peers[s] = IF s = c THEN links.peers[s] \cup {remote}
                                                        ELSE links.peers[s]
        /\ \A p \in Client : links'.super[p] = IF p = remote THEN c ELSE links.super[p]
    BY <1>2, <1>4 DEF P2PConnected, RegisterConnection, ConnType
  <2>2. OnlyRegistered'
    <3> SUFFICES ASSUME NEW d \in Client, client'[d] \in {"open", "closed"}, d \notin uncleaned'
                 PROVE  Forgotten(links', d)
      BY DEF OnlyRegistered
    <3>1. d # c /\ Forgotten(links, d)
      BY DEF P2PConnected, LinksInv, OnlyRegistered, signalVars
    <3> QED
      BY <2>1, <3>1 DEF Forgotten
  <2>3. Unpointed(links') = leaked'
    <3> SUFFICES ASSUME NEW s \in Client, NEW p \in Client,
                        p \in links'.peers[s], links'.super[p] # s
                 PROVE  <<s, p>> \in leaked \cup {<<links.super[remote], remote>>}
      BY DEF P2PConnected, Unpointed
    <3>1. p \in links.peers[s]
      BY <2>1
    <3>2. links.super[p] # s => <<s, p>> \in leaked
      BY <3>1 DEF LinksInv, SlotsAccounted, Unpointed
    <3>3. links.super[p] = s => p = remote
      BY <2>1
    <3> QED
      BY <3>2, <3>3
  <2> QED
    BY <1>1, <2>2, <2>3 DEF LinksInv, SlotsAccounted
<1> QED
  BY <1>3, <1>4

(* Whatever only takes away keeps the invariant, if who leaves by it is    *)
(* forgotten and the slots that lost their pointers are accounted for.     *)
LEMMA ShrinkKeepsLinks ==
  ASSUME LinksInv, NEW c \in Client, ClientType', ConnInv(links'), Forgotten(links', c),
         Shrinks(links, links', c), DropsOrphans(c), uncleaned' = uncleaned,
         \A d \in Client : d # c => client'[d] = client[d]
  PROVE  LinksInv'
<1>1. OnlyRegistered'
  <2> SUFFICES ASSUME NEW d \in Client, client'[d] \in {"open", "closed"}, d \notin uncleaned'
               PROVE  Forgotten(links', d)
    BY DEF OnlyRegistered
  <2>1. d = c \/ Forgotten(links, d)
    BY DEF LinksInv, OnlyRegistered
  <2> QED
    BY <2>1, ClientsAssumption DEF Forgotten, Shrinks
<1>2. Unpointed(links') = leaked'
  <2> DEFINE freed == {<<links.super[p], p>> : p \in links.peers[c]}
  <2> SUFFICES ASSUME NEW s \in Client, NEW p \in Client,
                      p \in links'.peers[s], links'.super[p] # s
               PROVE  <<s, p>> \in leaked \cup freed
    BY DEF DropsOrphans, Unpointed
  <2>1. p \in links.peers[s]
    BY DEF Shrinks
  <2>2. links.super[p] # s => <<s, p>> \in leaked
    BY <2>1 DEF LinksInv, SlotsAccounted, Unpointed
  <2>3. links.super[p] = s => p \in links.peers[c]
    BY DEF Shrinks
  <2> QED
    BY <2>2, <2>3
<1> QED
  BY <1>1, <1>2 DEF LinksInv, SlotsAccounted

(* A disconnect that drops the orphans of c, or cleans up after it: the    *)
(* maps forget c.                                                          *)
LEMMA DisconnectKeepsLinks ==
  ASSUME LinksInv, NEW c \in Client, OrphanPeers(c) \/ Cleanup(c)
  PROVE  LinksInv'
<1>1. links \in ConnType /\ ConnInv(links)
  BY DEF LinksInv, ConnInv
<1>2. ClientType' /\ uncleaned' = uncleaned /\ \A d \in Client : d # c => client'[d] = client[d]
  BY DEF LinksInv, OrphanPeers, Cleanup, ClientType, Stage, signalVars
<1>3. DropsOrphans(c) /\ links' \in {HandleSuperPeerDisconnect(links, c),
                                     CleanupPeerConnections(links, c)}
  BY DEF OrphanPeers, Cleanup
<1>4. ConnInv(links') /\ Forgotten(links', c) /\ Shrinks(links, links', c)
  BY <1>1, <1>3, HandleSuperPeerDisconnectInv, CleanupPeerConnectionsInv, DropShrinks,
     CleanupShrinks
<1> QED
  BY <1>2, <1>3, <1>4, ShrinkKeepsLinks

(* What does not touch the maps: nobody is counted as cleaned up by it.    *)
LEMMA OthersKeepLinks ==
  ASSUME LinksInv, UNCHANGED <<links, leaked>>, ClientType',
         \A c \in Client : client'[c] \in {"open", "closed"} /\ c \notin uncleaned' =>
                            client[c] \in {"open", "closed"} /\ c \notin uncleaned
  PROVE  LinksInv'
BY DEF LinksInv, OnlyRegistered, SlotsAccounted, Unpointed

(* Every step keeps the invariant of the maps.                             *)
LEMMA LinksStep == LinksInv /\ [Next]_vars => LinksInv'
<1> SUFFICES ASSUME LinksInv, [Next]_vars PROVE LinksInv'
  OBVIOUS
<1>1. ASSUME NEW c \in Client, Register(c) \/ Lapse(c) \/ Disconnect(c) \/ DisconnectFails(c)
      PROVE  LinksInv'
  <2>1. /\ ClientType' /\ UNCHANGED <<links, leaked>>
        /\ \A d \in Client : client'[d] \in {"open", "closed"} /\ d \notin uncleaned' =>
                               client[d] \in {"open", "closed"} /\ d \notin uncleaned
    BY <1>1 DEF Register, Lapse, Disconnect, DisconnectFails, Here, LinksInv, ClientType, Stage
  <2> QED
    BY <2>1, OthersKeepLinks
<1>2. ASSUME NEW c \in Client, OrphanPeers(c) \/ Cleanup(c) PROVE LinksInv'
  BY <1>2, DisconnectKeepsLinks
<1>3. ASSUME NEW c \in Client, NEW remote \in Client, P2PConnected(c, remote) PROVE LinksInv'
  BY <1>3, P2PConnectedKeepsLinks
<1>4. CASE UNCHANGED <<links, leaked, client, uncleaned>>
  BY <1>4, OthersKeepLinks DEF LinksInv, ClientType
<1>5. GateNext => LinksInv'
  BY <1>4 DEF GateNext, SignalRefused, Signal, Tick
<1>6. Listening \/ UNCHANGED vars => LinksInv'
  BY <1>4 DEF Listening, vars, signalVars
<1> QED
  BY <1>1, <1>2, <1>3, <1>5, <1>6 DEF Next, LinksNext

(* The invariant of the maps holds in every state of every behaviour.      *)
LEMMA LinksInvariance == Spec => []LinksInv
BY LinksInit, LinksStep, PTL DEF Spec

(* connections.ts under the handlers of handler.ts and manager.ts: no      *)
(* super peer over the limit, no pointer to one that does not list the     *)
(* peer, nothing that names a client that left and was cleaned up, and no  *)
(* slot without its peer but those of peers that moved or were orphaned.   *)
THEOREM SignalingSafe ==
  Spec => [](WithinCapacity /\ PointerIsListed /\ Departed /\ SlotsAccounted)
<1>1. LinksInv => WithinCapacity /\ PointerIsListed /\ Departed /\ SlotsAccounted
  BY DEF LinksInv, ConnInv, OnlyRegistered, WithinCapacity, PointerIsListed, Departed
<1> QED
  BY <1>1, LinksInvariance, PTL

(* connections.ts, whatever the handlers do: a pointer leads to a super    *)
(* peer that lists the peer.                                               *)
THEOREM PointersAreListed == Spec => []PointerIsListed
  BY SignalingSafe, PTL

(* manager.ts:56-75, handler.ts:410: a client that left without a lapse or *)
(* a failure of Redis is nobody's super peer, though it was reported while *)
(* its disconnect waited, and still is.                                    *)
THEOREM DepartedAreForgotten == Spec => []Departed
  BY SignalingSafe, PTL

(* connections.ts:25, 69: the slots without a pointer are those of peers   *)
(* that moved, or lost their pointer with their old super peer.            *)
THEOREM SlotsAreAccounted == Spec => []SlotsAccounted
  BY SignalingSafe, PTL

(* The handlers change the maps only as connections.ts alone allows: what  *)
(* is proved of ConnSpec holds of the relay.                               *)
THEOREM RelayImplementsConnections == Spec => ImplementsConnections
<1>1. Init => ConnInit
  BY DEF Init, ConnInit
<1>2. [Next]_vars => [ConnNext]_links
  <2> SUFFICES ASSUME [Next]_vars PROVE [ConnNext]_links
    OBVIOUS
  <2>1. ASSUME NEW c \in Client, NEW remote \in Client, P2PConnected(c, remote)
        PROVE  ConnNext
    BY <2>1 DEF P2PConnected, ConnNext
  <2>2. ASSUME NEW c \in Client, OrphanPeers(c) \/ Cleanup(c) PROVE ConnNext
    BY <2>2 DEF OrphanPeers, Cleanup, ConnNext
  <2>3. ASSUME NEW c \in Client, Register(c) \/ Lapse(c) \/ Disconnect(c) \/ DisconnectFails(c)
        PROVE  UNCHANGED links
    BY <2>3 DEF Register, Lapse, Disconnect, DisconnectFails
  <2>4. GateNext \/ Listening \/ UNCHANGED vars => UNCHANGED links
    BY DEF GateNext, SignalRefused, Signal, Tick, Listening, vars
  <2> QED
    BY <2>1, <2>2, <2>3, <2>4 DEF Next, LinksNext
<1> QED
  BY <1>1, <1>2, PTL DEF Spec, ImplementsConnections, ConnSpec

-----------------------------------------------------------------------------
(* The windows of the rate limiter.                                        *)

WinInv ==
  /\ win \in [Client -> [count : 0..Limit + 1, age : 0..Old]]
  /\ recent \in [Client -> [0..Window -> 0..Limit]]
  /\ \A c \in Client : Here(c) => recent[c][0] <= Current(c).count

(* The smaller of two numbers.                                             *)
LEMMA MinOfTwo ==
  ASSUME NEW a \in Int, NEW b \in Int
  PROVE  Min({a, b}) = IF a <= b THEN a ELSE b
<1>1. \A x, y \in {a, b} : (\A z \in {a, b} : x <= z) /\ (\A z \in {a, b} : y <= z) => x = y
  OBVIOUS
<1>2. \E x \in {a, b} : \A y \in {a, b} : x <= y
  OBVIOUS
<1>3. Min({a, b}) \in {a, b} /\ \A y \in {a, b} : Min({a, b}) <= y
  BY <1>2 DEF Min
<1> QED
  BY <1>3

(* A window that counts one more message.                                  *)
LEMMA CountedType ==
  ASSUME WinInv, NEW c \in Client
  PROVE  /\ Current(c) \in [count : 0..Limit + 1, age : 0..Window]
         /\ Counted(c) \in [count : 0..Limit + 1, age : 0..Window]
         /\ Counted(c).count = IF Current(c).count <= Limit THEN Current(c).count + 1
                                                            ELSE Limit + 1
<1>1. Current(c) \in [count : 0..Limit + 1, age : 0..Window]
  BY SignalingAssumption DEF WinInv, Current, Old
<1>2. Counted(c).count = Min({Current(c).count + 1, Limit + 1}) /\ Counted(c).age = Current(c).age
  BY <1>1 DEF Counted
<1>3. Counted(c) \in [count : {Counted(c).count}, age : {Counted(c).age}]
  BY <1>1, <1>2 DEF Counted
<1>4. Counted(c).count = IF Current(c).count <= Limit THEN Current(c).count + 1 ELSE Limit + 1
  BY <1>1, <1>2, MinOfTwo, SignalingAssumption
<1> QED
  BY <1>1, <1>2, <1>3, <1>4, SignalingAssumption

(* Every step keeps the windows in range, and what passed in the present   *)
(* tick is counted in the window.                                          *)
LEMMA WinStep == LinksInv /\ WinInv /\ [Next]_vars => WinInv'
<1> SUFFICES ASSUME LinksInv, WinInv, [Next]_vars PROVE WinInv'
  OBVIOUS
<1>1. ASSUME NEW c \in Client, Register(c) \/ Lapse(c) \/ Disconnect(c) \/ DisconnectFails(c)
      PROVE  WinInv'
  <2>1. UNCHANGED <<win, recent>> /\ \A d \in Client : Here(d)' => Here(d)
    BY <1>1 DEF Register, Lapse, Disconnect, DisconnectFails, Here, LinksInv, ClientType
  <2> QED
    BY <2>1 DEF WinInv, Current
<1>2. ASSUME NEW c \in Client, Cleanup(c) PROVE WinInv'
  <2>1. NoWin \in [count : 0..Limit + 1, age : 0..Old]
    BY SignalingAssumption DEF NoWin, Old
  <2>2. win' \in [Client -> [count : 0..Limit + 1, age : 0..Old]] /\ recent' = recent
    BY <1>2, <2>1 DEF Cleanup, WinInv
  <2>3. \A d \in Client : Here(d)' => d # c /\ Here(d) /\ win'[d] = win[d]
    BY <1>2 DEF Cleanup, Here, LinksInv, ClientType, WinInv
  <2> QED
    BY <2>2, <2>3 DEF WinInv, Current
<1>3. ASSUME NEW c \in Client, OrphanPeers(c) \/ \E remote \in Client : P2PConnected(c, remote)
      PROVE  WinInv'
  BY <1>3 DEF OrphanPeers, P2PConnected, signalVars, WinInv, Here, Current
<1>4. ASSUME NEW c \in Client, SignalRefused(c) \/ Signal(c) PROVE WinInv'
  <2>1. /\ win' = [win EXCEPT ![c] = Counted(c)] /\ client' = client
        /\ recent' = recent \/ /\ recent' = [recent EXCEPT ![c][0] = @ + 1]
                               /\ Here(c) /\ Current(c).count < Limit
    BY <1>4, CountedType, SignalingAssumption DEF SignalRefused, Signal, IsRateLimited
  <2>2. Current(c)' = Counted(c) /\ \A d \in Client \ {c} : Current(d)' = Current(d)
    <3>1. win'[c] = Counted(c) /\ \A d \in Client \ {c} : win'[d] = win[d]
      BY <2>1 DEF WinInv
    <3>2. Counted(c).age \in 0..Window
      BY CountedType
    <3>3. ~ (win'[c].age > Window)
      BY <3>1, <3>2, SignalingAssumption
    <3> QED
      BY <3>1, <3>3 DEF Current
  <2>3. Here(c) => recent[c][0] <= Current(c).count
    BY DEF WinInv
  <2>4. win' \in [Client -> [count : 0..Limit + 1, age : 0..Old]]
    <3>1. 0..Window \subseteq 0..Old
      BY SignalingAssumption DEF Old
    <3>2. Counted(c) \in [count : 0..Limit + 1, age : 0..Old]
      BY <3>1, CountedType
    <3> QED
      BY <2>1, <3>2 DEF WinInv
  <2>5. 0 \in 0..Window /\ recent[c][0] \in 0..Limit
    BY SignalingAssumption DEF WinInv
  <2>6. CASE recent' = recent
    <3>1. Current(c).count <= Counted(c).count
      BY CountedType, SignalingAssumption
    <3>2. Here(c)' => recent'[c][0] <= Current(c)'.count
      BY <2>1, <2>2, <2>3, <2>5, <2>6, <3>1, CountedType, SignalingAssumption DEF Here
    <3>3. \A d \in Client \ {c} : Here(d)' => recent'[d][0] <= Current(d)'.count
      BY <2>1, <2>2, <2>6 DEF WinInv, Here
    <3> QED
      BY <2>4, <2>6, <3>2, <3>3 DEF WinInv
  <2>7. CASE /\ recent' = [recent EXCEPT ![c][0] = @ + 1]
             /\ Here(c) /\ Current(c).count < Limit
    <3>1. recent[c][0] + 1 \in 0..Limit /\ recent[c][0] + 1 <= Counted(c).count
      BY <2>3, <2>5, <2>7, CountedType, SignalingAssumption
    <3>2. recent' \in [Client -> [0..Window -> 0..Limit]]
      BY <2>5, <2>7, <3>1 DEF WinInv
    <3>3. recent'[c][0] = recent[c][0] + 1 /\ \A d \in Client \ {c} : recent'[d] = recent[d]
      BY <2>5, <2>7 DEF WinInv
    <3> QED
      BY <2>1, <2>2, <2>4, <3>1, <3>2, <3>3 DEF WinInv, Here
  <2> QED
    BY <2>1, <2>6, <2>7
<1>5. CASE Tick
  <2>1. /\ client' = client
        /\ \A c \in Client : recent'[c] = [a \in 0..Window |-> IF a = 0 THEN 0 ELSE recent[c][a - 1]]
        /\ DOMAIN recent' = Client
    BY <1>5 DEF Tick, signalVars
  <2>2. recent' \in [Client -> [0..Window -> 0..Limit]]
    <3>1. \A c \in Client : \A a \in 0..Window : a # 0 => a - 1 \in 0..Window
      BY SignalingAssumption
    <3>2. \A c \in Client : recent'[c] \in [0..Window -> 0..Limit]
      <4> TAKE c \in Client
      <4>1. recent[c] \in [0..Window -> 0..Limit] /\ 0 \in 0..Limit
        BY SignalingAssumption DEF WinInv
      <4>2. \A a \in 0..Window : (IF a = 0 THEN 0 ELSE recent[c][a - 1]) \in 0..Limit
        BY <3>1, <4>1
      <4> QED
        BY <2>1, <4>2
    <3>3. recent' = [c \in Client |-> recent'[c]]
      BY <1>5 DEF Tick
    <3> QED
      BY <3>2, <3>3
  <2>3. \A c \in Client : recent'[c][0] = 0
    BY <2>1, SignalingAssumption
  <2>4. win' \in [Client -> [count : 0..Limit + 1, age : 0..Old]]
    <3>1. \A c \in Client : Min({win[c].age + 1, Old}) \in 0..Old
      <4> TAKE c \in Client
      <4>1. win[c].age \in 0..Old /\ Old \in Nat
        BY SignalingAssumption DEF WinInv, Old
      <4>2. Min({win[c].age + 1, Old}) = IF win[c].age + 1 <= Old THEN win[c].age + 1 ELSE Old
        BY <4>1, MinOfTwo
      <4> QED
        BY <4>1, <4>2
    <3> DEFINE older(c) == Min({win[c].age + 1, Old})
    <3>2. win' = [c \in Client |-> [win[c] EXCEPT !.age = older(c)]]
      BY <1>5, Zenon DEF Tick
    <3> HIDE DEF older
    <3> QED
      BY <3>1, <3>2 DEF WinInv, older
  <2>5. \A c \in Client : Current(c)'.count \in Nat
    BY <2>4, SignalingAssumption DEF Current
  <2> QED
    BY <2>2, <2>3, <2>4, <2>5 DEF WinInv
<1>6. Listening \/ UNCHANGED vars => WinInv'
  BY DEF Listening, vars, signalVars, WinInv, Here, Current
<1> QED
  BY <1>1, <1>2, <1>3, <1>4, <1>5, <1>6 DEF Next, LinksNext, GateNext

-----------------------------------------------------------------------------
(* What passed, by its age, and the window it is counted in.  A window w   *)
(* that is not over has counted, up to the limit, what passed since the    *)
(* message that opened it; and since that one found no window open, less   *)
(* than the limit of what came before is still remembered: the message     *)
(* that opened the window before is older.                                 *)
Since(w, r)  == SumFunction(Masked(r, 0..w.age))
Before(w, r) == SumFunction(Masked(r, (0..Window) \ (0..w.age)))

IsWindow(w)  == w \in [count : 0..Limit + 1, age : 0..Old]
IsHistory(r) == r \in [0..Window -> 0..Limit]

(* A client that is gone has lost its window, but not what it sent.        *)
Fits(w, r, here) ==
  IF w.age <= Window
  THEN /\ Since(w, r) = IF w.count <= Limit THEN w.count ELSE Limit
       /\ Before(w, r) <= Limit - 1 /\ r[w.age] >= 1
  ELSE IF here THEN r[0] = 0 /\ SumFunction(r) <= Limit - 1
               ELSE SumFunction(r) <= 2 * Limit - 1

PassedInv == \A c \in Client : Fits(win[c], recent[c], Here(c))

(* A window has finitely many ages.                                        *)
LEMMA AgesFinite == IsFiniteSet(0..Window)
<1>1. 0 \in Int /\ Window \in Int
  BY SignalingAssumption DEF IsWindow
<1> QED
  BY <1>1, FS_Interval

(* What the invariant says of the whole history, and of a full window.     *)
LEMMA FitsBounds ==
  ASSUME NEW w, NEW r, NEW here, IsWindow(w), IsHistory(r), Fits(w, r, here)
  PROVE  /\ SumFunction(r) <= 2 * Limit - 1
         /\ w.age <= Window /\ w.count >= Limit => SumFunction(r) >= Limit
<1> DEFINE S == 0..Window
<1>1. IsFiniteSet(S) /\ r \in [S -> Nat]
  BY AgesFinite DEF IsHistory
<1>2. CASE w.age <= Window
  <2> DEFINE s == 0..w.age
  <2>1. s \in SUBSET S
    BY <1>2, SignalingAssumption DEF IsWindow
  <2>2. /\ SumFunction(Masked(r, s)) = IF w.count <= Limit THEN w.count ELSE Limit
        /\ SumFunction(Masked(r, S \ s)) <= Limit - 1
    BY <1>2, Zenon DEF Fits, Since, Before
  <2> HIDE DEF s, S
  <2>3. SumFunction(r) = SumFunction(Masked(r, s)) + SumFunction(Masked(r, S \ s))
        /\ SumFunction(Masked(r, s)) \in Nat /\ SumFunction(Masked(r, S \ s)) \in Nat
    BY <1>1, <2>1, SumOfParts
  <2> QED
    BY <2>2, <2>3, SignalingAssumption DEF IsWindow
<1>3. CASE w.age > Window
  <2>1. SumFunction(r) \in Nat
    BY <1>1, SumIsNat
  <2> QED
    BY <1>3, <2>1, SignalingAssumption DEF Fits, IsWindow
<1> QED
  BY <1>2, <1>3, SignalingAssumption DEF IsWindow

(* A tick makes the window and what passed older.                          *)
LEMMA LaterFits ==
  ASSUME NEW w, NEW r, NEW v, NEW q, NEW here, IsWindow(w), IsHistory(r), IsWindow(v),
         IsHistory(q), Fits(w, r, here), IsShift(q, r, Window),
         v.count = w.count, v.age = IF w.age < Old THEN w.age + 1 ELSE Old
  PROVE  Fits(v, q, here)
<1> DEFINE S == 0..Window
<1>1. IsFiniteSet(S) /\ r \in [S -> Nat] /\ q \in [S -> Nat]
  BY AgesFinite DEF IsHistory
<1>2. SumFunction(r) \in Nat /\ SumFunction(q) \in Nat /\ r[Window] \in Nat
  <2>1. r[Window] \in Nat
    BY <1>1, SignalingAssumption
  <2> HIDE DEF S
  <2> QED
    BY <1>1, <2>1, SumIsNat
<1>3. SumFunction(q) + r[Window] = SumFunction(r)
  BY SumOfShifted
<1>4. CASE w.age < Window
  <2>1. w.age \in Nat /\ v.age = w.age + 1 /\ v.age <= Window /\ w.age <= Window
    BY <1>4, SignalingAssumption DEF Old, IsWindow
  <2> DEFINE late  == 0..w.age
             late1 == 0..v.age
  <2>2. IsShiftOfSet(late1, late, Window) /\ Window \notin late
    BY <2>1, <1>4, SignalingAssumption DEF IsShiftOfSet
  <2>3. /\ Since(w, r) = SumFunction(Masked(r, late)) /\ Before(w, r) = SumFunction(Masked(r, S \ late))
        /\ Since(v, q) = SumFunction(Masked(q, late1)) /\ Before(v, q) = SumFunction(Masked(q, S \ late1))
    BY Zenon DEF Since, Before
  <2>4. /\ Since(w, r) = IF w.count <= Limit THEN w.count ELSE Limit
        /\ Before(w, r) <= Limit - 1 /\ r[w.age] >= 1
    BY <2>1 DEF Fits
  <2> HIDE DEF late, late1
  <2>5. Since(v, q) = Since(w, r)
    <3>1. SumFunction(Masked(q, late1)) = SumFunction(Masked(r, late))
      BY <2>2, SumOfShiftedPart
    <3> QED
      BY <2>3, <3>1, Zenon
  <2>6. Before(v, q) <= Before(w, r) /\ Before(v, q) \in Nat /\ Before(w, r) \in Nat
    <3> DEFINE early  == S \ late
               early1 == S \ late1
    <3>1. IsShiftOfSet(early1, early, Window)
      BY <2>2, SignalingAssumption DEF IsShiftOfSet
    <3> HIDE DEF early, early1
    <3>2. /\ SumFunction(Masked(q, early1)) <= SumFunction(Masked(r, early))
          /\ SumFunction(Masked(q, early1)) \in Nat /\ SumFunction(Masked(r, early)) \in Nat
      BY <3>1, SumOfShiftedPart
    <3>3. Before(w, r) = SumFunction(Masked(r, early)) /\ Before(v, q) = SumFunction(Masked(q, early1))
      BY <2>3, Zenon DEF early, early1
    <3> QED
      BY <1>2, <3>2, <3>3
  <2>7. Before(v, q) <= Limit - 1
    BY <2>4, <2>6, SignalingAssumption DEF IsWindow
  <2>8. q[v.age] = r[w.age]
    BY <2>1, SignalingAssumption DEF IsShift
  <2> QED
    BY <2>1, <2>4, <2>5, <2>7, <2>8 DEF Fits
<1>5. CASE w.age = Window
  <2>1. Masked(r, 0..w.age) = r
    BY <1>1, <1>5 DEF Masked
  <2>2. SumFunction(r) <= Limit /\ r[Window] >= 1
    BY <1>5, <2>1, SignalingAssumption DEF Fits, Since
  <2>3. v.age > Window /\ q[0] = 0
    BY <1>5, SignalingAssumption DEF Old, IsShift, IsWindow
  <2> QED
    BY <1>2, <1>3, <2>2, <2>3, SignalingAssumption DEF Fits, IsWindow
<1>6. CASE w.age = Old
  <2>1. v.age > Window /\ w.age > Window /\ q[0] = 0
    BY <1>6, SignalingAssumption DEF Old, IsShift, IsWindow
  <2> QED
    BY <1>2, <1>3, <2>1, SignalingAssumption DEF Fits, IsWindow
<1> QED
  BY <1>4, <1>5, <1>6, SignalingAssumption DEF Old, IsWindow

(* A message that passes is counted in the window it opens or finds open.  *)
LEMMA PassedFits ==
  ASSUME NEW w, NEW r, NEW v, NEW q, IsWindow(w), IsHistory(r), IsWindow(v), IsHistory(q),
         v.age <= Window, Fits(w, r, TRUE), q[0] = r[0] + 1, \A a \in 1..Window : q[a] = r[a],
         IF w.age > Window THEN v.age = 0 /\ v.count = 1
                           ELSE v.age = w.age /\ v.count = w.count + 1 /\ w.count < Limit
  PROVE  Fits(v, q, TRUE)
<1> DEFINE S == 0..Window
           s == 0..v.age
           seen == IF w.age > Window THEN 0 ELSE w.count
           now  == Masked(r, s)
           rest == Masked(r, S \ s)
           now1  == Masked(q, s)
           rest1 == Masked(q, S \ s)
<1>1. IsFiniteSet(S) /\ r \in [S -> Nat] /\ q \in [S -> Nat]
  BY AgesFinite DEF IsHistory
<1>2. v.age \in 0..Window /\ 0 \in s /\ 0 \in S /\ \A a \in S : a # 0 => a \in 1..Window
  BY SignalingAssumption DEF IsWindow
<1>3. v.count = seen + 1 /\ seen < Limit /\ seen \in Nat
  BY SignalingAssumption DEF IsWindow
<1>4. /\ now \in [S -> Nat] /\ \A a \in S : now[a] = IF a \in s THEN r[a] ELSE 0
      /\ now1 \in [S -> Nat] /\ \A a \in S : now1[a] = IF a \in s THEN q[a] ELSE 0
  BY <1>1 DEF Masked
<1>5. rest1 = rest
  BY <1>1, <1>2 DEF Masked
<1>6. Since(v, q) = SumFunction(now1) /\ Before(v, q) = SumFunction(rest1)
  BY Zenon DEF Since, Before
<1>7. SumFunction(now) = seen /\ SumFunction(rest) <= Limit - 1
  <2>1. CASE w.age > Window
    <3>1. r[0] = 0 /\ SumFunction(r) <= Limit - 1 /\ v.age = 0 /\ seen = 0
      BY <2>1, SignalingAssumption DEF Fits, IsWindow
    <3>2. s = {0}
      BY <3>1
    <3>3. now \in [S -> {0}]
      BY <1>4, <3>1, <3>2
    <3> HIDE DEF S, s, now
    <3>4. SumFunction(now) = 0
      BY <1>1, <3>3, SumOfZeros
    <3>5. /\ SumFunction(r) = SumFunction(Masked(r, s)) + SumFunction(Masked(r, S \ s))
          /\ SumFunction(Masked(r, s)) \in Nat /\ SumFunction(Masked(r, S \ s)) \in Nat
      BY <1>1, SumOfParts
    <3>6. SumFunction(Masked(r, S \ s)) <= Limit - 1
      BY <3>1, <3>5, SignalingAssumption DEF IsWindow
    <3> QED
      BY <3>1, <3>4, <3>6
  <2>2. CASE ~ (w.age > Window)
    <3>1. v.age = w.age /\ w.age <= Window /\ w.count < Limit /\ seen = w.count
      BY <2>2, SignalingAssumption DEF Old, IsWindow
    <3>2. Since(w, r) = SumFunction(now) /\ Before(w, r) = SumFunction(rest)
      BY <3>1, Zenon DEF Since, Before
    <3> HIDE DEF now, rest, seen
    <3> QED
      BY <3>1, <3>2, SignalingAssumption DEF Fits, IsWindow
  <2> QED
    BY <2>1, <2>2
<1>8. SumFunction(now1) = SumFunction(now) + 1
  <2>1. now1[0] = now[0] + 1 /\ now[0] \in Nat /\ now1[0] \in Nat
    BY <1>1, <1>2, <1>4
  <2>2. \A a \in S \ {0} : now1[a] = now[a]
    BY <1>2, <1>4
  <2> DEFINE zero == 0
  <2>3. DiffersAt(zero, now1, now, S) /\ now1[zero] = now[zero] + 1 /\ now[zero] \in Nat
    BY <1>1, <1>2, <1>4, <2>1, <2>2 DEF DiffersAt
  <2> HIDE DEF now, now1, S, zero
  <2>4. SumFunction(now1) = SumFunction(now) + now1[zero] - now[zero]
    BY <2>3, SumOfChanged
  <2>5. SumFunction(now) \in Nat
    BY <1>1, <1>4, SumIsNat
  <2> QED
    BY <2>3, <2>4, <2>5
<1>9. v.age <= Window /\ q[v.age] >= 1
  <2>1. CASE v.age = 0
    BY <1>1, <1>2, <2>1
  <2>2. CASE v.age # 0
    BY <1>2, <2>2, SignalingAssumption DEF Fits, IsWindow
  <2> QED
    BY <1>2, <2>1, <2>2, SignalingAssumption DEF IsWindow
<1> HIDE DEF now, now1, rest, rest1, seen
<1> QED
  BY <1>3, <1>5, <1>6, <1>7, <1>8, <1>9, SignalingAssumption DEF Fits, IsWindow

(* Every step keeps what passed in the bounds of its window.               *)
LEMMA PassedStep == LinksInv /\ WinInv /\ PassedInv /\ [Next]_vars => PassedInv'
<1> SUFFICES ASSUME LinksInv, WinInv, PassedInv, [Next]_vars, NEW d \in Client
             PROVE  Fits(win'[d], recent'[d], Here(d)')
  BY DEF PassedInv
<1> DEFINE w == win[d]
           r == recent[d]
           v == win'[d]
           q == recent'[d]
<1>1. IsWindow(w) /\ IsHistory(r) /\ Fits(w, r, Here(d)) /\ Here(d) \in BOOLEAN
  BY DEF WinInv, PassedInv, IsWindow, IsHistory, Here
<1>2. IsWindow(v) /\ IsHistory(q)
  BY WinStep DEF WinInv, IsWindow, IsHistory
<1>3. ASSUME v = w, q = r, Here(d)' = Here(d) PROVE Fits(v, q, Here(d)')
  BY <1>1, <1>3
<1>4. ASSUME NEW c \in Client,
             \/ Register(c) \/ Lapse(c) \/ OrphanPeers(c) \/ DisconnectFails(c)
             \/ \E remote \in Client : P2PConnected(c, remote)
      PROVE  Fits(v, q, Here(d)')
  <2>1. v = w /\ q = r /\ Here(d)' = Here(d)
    BY <1>4 DEF Register, Lapse, OrphanPeers, DisconnectFails, P2PConnected, signalVars, Here,
               LinksInv, ClientType
  <2> QED
    BY <1>3, <2>1
<1>5. ASSUME NEW c \in Client, Disconnect(c) \/ Cleanup(c) PROVE Fits(v, q, Here(d)')
  <2>1. CASE c # d
    <3>1. v = w /\ q = r /\ Here(d)' = Here(d)
      BY <1>5, <2>1 DEF Disconnect, Cleanup, Here, LinksInv, ClientType, WinInv
    <3> QED
      BY <1>3, <3>1
  <2>2. CASE c = d
    <3>1. q = r /\ v \in {w, NoWin} /\ Here(d)' = FALSE
      BY <1>5, <2>2 DEF Disconnect, Cleanup, Here, LinksInv, ClientType, WinInv
    <3>2. ~ (NoWin.age <= Window)
      BY SignalingAssumption DEF NoWin, Old
    <3>3. SumFunction(r) <= 2 * Limit - 1
      BY <1>1, FitsBounds
    <3>4. CASE v = NoWin
      <4> HIDE DEF v, q, r
      <4>1. ~ (v.age <= Window) /\ SumFunction(q) <= 2 * Limit - 1
        BY <3>1, <3>2, <3>3, <3>4
      <4>2. Fits(v, q, FALSE)
        BY <4>1 DEF Fits
      <4> QED
        BY <3>1, <4>2, Zenon
    <3>5. CASE v = w
      <4> HIDE DEF v, q, r, w
      <4>1. CASE w.age <= Window
        BY <1>1, <3>1, <3>5, <4>1 DEF Fits
      <4>2. CASE ~ (w.age <= Window)
        BY <3>1, <3>3, <3>5, <4>2 DEF Fits
      <4> QED
        BY <4>1, <4>2
    <3> QED
      BY <3>1, <3>4, <3>5
  <2> QED
    BY <2>1, <2>2
<1>6. ASSUME NEW c \in Client, SignalRefused(c) PROVE Fits(v, q, Here(d)')
  <2>1. q = r /\ Here(d)' = Here(d) /\ Current(c).count >= Limit
    BY <1>6 DEF SignalRefused, Here, IsRateLimited
  <2>2. CASE c # d
    <3>1. v = w
      BY <1>6, <2>2 DEF SignalRefused, WinInv
    <3> QED
      BY <1>3, <2>1, <3>1
  <2>3. CASE c = d
    <3>1. v = Counted(d) /\ Current(d).count >= Limit
      BY <1>6, <2>1, <2>3 DEF SignalRefused, WinInv
    <3>2. w.age <= Window /\ Current(d) = w
      BY <1>1, <3>1, SignalingAssumption DEF Current, IsWindow, Old
    <3>3. v.age = w.age /\ v.count >= Limit /\ v.count \in Nat /\ w.count >= Limit /\ w.count \in Nat
      <4>1. v.age = Current(d).age
        BY <3>1 DEF Counted
      <4>2. v.count >= Limit /\ v.count \in Nat
        BY <3>1, CountedType, SignalingAssumption
      <4> QED
        BY <1>1, <3>1, <3>2, <4>1, <4>2, SignalingAssumption DEF IsWindow
    <3>4. Since(v, q) = Since(w, r) /\ Before(v, q) = Before(w, r)
      BY <2>1, <3>3 DEF Since, Before
    <3>5. /\ (IF w.count <= Limit THEN w.count ELSE Limit) = Limit
          /\ (IF v.count <= Limit THEN v.count ELSE Limit) = Limit
      BY <3>3, SignalingAssumption
    <3>6. q[v.age] = r[w.age]
      BY <2>1, <3>3
    <3> HIDE DEF v, w, r, q
    <3> QED
      BY <1>1, <3>2, <3>3, <3>4, <3>5, <3>6 DEF Fits
  <2> QED
    BY <2>2, <2>3
<1>7. ASSUME NEW c \in Client, Signal(c) PROVE Fits(v, q, Here(d)')
  <2>1. Here(d)' = Here(d) /\ Here(c) /\ Current(c).count < Limit
    BY <1>7, CountedType, SignalingAssumption DEF Signal, Here, IsRateLimited
  <2>2. CASE c # d
    <3>1. v = w /\ q = r
      BY <1>7, <2>2 DEF Signal, WinInv
    <3> QED
      BY <1>3, <2>1, <3>1
  <2>3. CASE c = d
    <3>1. v = Counted(d)
      BY <1>7, <2>3 DEF Signal, WinInv
    <3>2. q[0] = r[0] + 1 /\ \A a \in 1..Window : q[a] = r[a]
      BY <1>7, <2>3, SignalingAssumption DEF Signal, WinInv
    <3>3. v.age = Current(d).age /\ v.count = Current(d).count + 1 /\ v.age <= Window
      <4>1. v.age = Current(d).age
        BY <3>1 DEF Counted
      <4> QED
        BY <2>1, <2>3, <3>1, <4>1, CountedType, SignalingAssumption
    <3>4. IF w.age > Window THEN v.age = 0 /\ v.count = 1
                            ELSE v.age = w.age /\ v.count = w.count + 1 /\ w.count < Limit
      BY <2>1, <2>3, <3>3 DEF Current
    <3>5. Fits(w, r, TRUE)
      BY <1>1, <2>1, <2>3
    <3> HIDE DEF v, w, r, q
    <3>6. Fits(v, q, TRUE)
      BY <1>1, <1>2, <3>2, <3>3, <3>4, <3>5, PassedFits
    <3> QED
      BY <2>1, <2>3, <3>6
  <2> QED
    BY <2>2, <2>3
<1>8. CASE Tick
  <2>1. Here(d)' = Here(d)
    BY <1>8 DEF Tick, Here
  <2>2. v.count = w.count /\ v.age = IF w.age < Old THEN w.age + 1 ELSE Old
    <3>1. win' = [c \in Client |-> [win[c] EXCEPT !.age = Min({win[c].age + 1, Old})]]
      BY <1>8, Zenon DEF Tick
    <3>2. v = [w EXCEPT !.age = Min({w.age + 1, Old})]
      BY <3>1
    <3>3. w.age \in 0..Old /\ w = [count |-> w.count, age |-> w.age]
      BY <1>1 DEF IsWindow
    <3>4. Min({w.age + 1, Old}) = IF w.age + 1 <= Old THEN w.age + 1 ELSE Old
      BY <3>3, MinOfTwo, SignalingAssumption DEF Old
    <3>5. v.age = Min({w.age + 1, Old}) /\ v.count = w.count
      BY <3>2, <3>3
    <3> QED
      BY <3>3, <3>4, <3>5, SignalingAssumption DEF Old
  <2>3. IsShift(q, r, Window)
    <3>1. q = [a \in 0..Window |-> IF a = 0 THEN 0 ELSE r[a - 1]]
      BY <1>8 DEF Tick
    <3>2. r \in [0..Window -> Nat] /\ q \in [0..Window -> Nat]
      BY <1>1, <1>2 DEF IsHistory
    <3> QED
      BY <3>1, <3>2, SignalingAssumption DEF IsShift
  <2> HIDE DEF v, w, r, q
  <2>4. Fits(v, q, Here(d))
    BY <1>1, <1>2, <2>2, <2>3, LaterFits
  <2>5. Fits(v, q, Here(d)')
    BY <2>1, <2>4
  <2> QED
    BY <2>5 DEF v, q
<1>9. CASE Listening \/ UNCHANGED vars
  <2>1. v = w /\ q = r /\ Here(d)' = Here(d)
    BY <1>9 DEF Listening, vars, signalVars, Here
  <2> QED
    BY <1>3, <2>1
<1> QED
  BY <1>4, <1>5, <1>6, <1>7, <1>8, <1>9 DEF Next, LinksNext, GateNext

(* Initially nothing has passed.                                           *)
LEMMA PassedInit == Init => PassedInv
<1> SUFFICES ASSUME Init, NEW c \in Client PROVE Fits(win[c], recent[c], Here(c))
  BY DEF PassedInv
<1> DEFINE r == recent[c]
           S == 0..Window
<1>1. ~ (win[c].age <= Window) /\ Here(c)
  BY SignalingAssumption DEF Init, NoWin, Old, Here
<1>2. r[0] = 0 /\ r \in [S -> {0}]
  BY SignalingAssumption DEF Init
<1>3. IsFiniteSet(S)
  BY AgesFinite
<1> HIDE DEF r, S
<1>4. SumFunction(r) <= Limit - 1
  BY <1>2, <1>3, SumOfZeros, SignalingAssumption
<1>5. Fits(win[c], r, Here(c))
  BY <1>1, <1>2, <1>4 DEF Fits
<1> QED
  BY <1>5 DEF r

(* What the invariant means for the limit.                                 *)
RateBound == \A c \in Client : SumFunction(recent[c]) <= 2 * Limit - 1

LEMMA PassedBounds == WinInv /\ PassedInv => RateBound /\ RefusedWhenBusy
<1> SUFFICES ASSUME WinInv, PassedInv, NEW c \in Client
             PROVE  /\ SumFunction(recent[c]) <= 2 * Limit - 1
                    /\ IsRateLimited(c) => SumFunction(recent[c]) >= Limit
  BY DEF RateBound, RefusedWhenBusy
<1>1. IsWindow(win[c]) /\ IsHistory(recent[c]) /\ Fits(win[c], recent[c], Here(c))
  BY DEF WinInv, PassedInv, IsWindow, IsHistory
<1>2. IsRateLimited(c) => win[c].age <= Window /\ win[c].count >= Limit
  BY <1>1, SignalingAssumption DEF IsRateLimited, Current, IsWindow, Old
<1> QED
  BY <1>1, <1>2, FitsBounds

-----------------------------------------------------------------------------
(* The listener and the confirmed events.                                  *)

(* An id is as old as the ids behind it are many, since each came with a   *)
(* message of its own; a missing one is as old as can be.                  *)
AgeInv ==
  /\ BroadcastTypeOK
  /\ Len(confirmed) <= ConfirmedMax
  /\ \A i \in 1..Len(confirmed) : age[confirmed[i]] >= Len(confirmed) - i
  /\ FreshStays

(* Making room: the oldest id may go, the others move up.                  *)
LEMMA EvictedFacts ==
  ASSUME confirmed \in Seq(EventId), Len(confirmed) <= ConfirmedMax
  PROVE  /\ Evicted \in Seq(EventId) /\ Len(Evicted) < ConfirmedMax
         /\ \/ Evicted = confirmed /\ Len(confirmed) < ConfirmedMax
            \/ /\ Len(confirmed) = ConfirmedMax /\ Len(Evicted) = ConfirmedMax - 1
               /\ \A i \in 1..Len(Evicted) : Evicted[i] = confirmed[i + 1]
BY BroadcastAssumption DEF Evicted

(* A message of strfry keeps the ids in the order of their age.            *)
LEMMA ConfirmKeepsAge ==
  ASSUME AgeInv, NEW e \in EventId, Confirm(e), UNCHANGED <<listener, timer, stopped>>
  PROVE  AgeInv'
<1> DEFINE fresh == e \notin ToSet(Evicted)
           n == Len(Evicted)
<1>1. /\ Evicted \in Seq(EventId) /\ n \in Nat /\ n < ConfirmedMax
      /\ ConfirmedMax \in Nat
      /\ confirmed \in Seq(EventId) /\ age \in [EventId -> 0..ConfirmedMax]
  BY EvictedFacts, BroadcastAssumption DEF AgeInv, BroadcastTypeOK
<1>2. \A x \in EventId :
        age'[x] = IF x = e /\ fresh THEN 0
                  ELSE IF age[x] < ConfirmedMax THEN age[x] + 1 ELSE age[x]
  BY DEF Confirm
<1>3. age' \in [EventId -> 0..ConfirmedMax]
  BY <1>1 DEF Confirm
<1>4. \A i \in 1..n : /\ Evicted[i] \in EventId
                      /\ age[Evicted[i]] >= n - i
  <2>1. CASE Evicted = confirmed
    BY <1>1, <2>1 DEF AgeInv
  <2>2. CASE /\ Len(confirmed) = ConfirmedMax /\ n = ConfirmedMax - 1
             /\ \A i \in 1..n : Evicted[i] = confirmed[i + 1]
    <3>1. \A i \in 1..n : i + 1 \in 1..Len(confirmed) /\ Len(confirmed) - (i + 1) = n - i
      BY <1>1, <2>2
    <3> TAKE i \in 1..n
    <3>2. confirmed[i + 1] \in EventId /\ age[confirmed[i + 1]] >= Len(confirmed) - (i + 1)
      BY <1>1, <3>1 DEF AgeInv
    <3> QED
      BY <2>2, <3>1, <3>2
  <2> QED
    BY <2>1, <2>2, EvictedFacts DEF AgeInv, BroadcastTypeOK
<1>5. \A x \in EventId : age[x] < ConfirmedMax /\ x \notin ToSet(Evicted)
                         => age[x] >= ConfirmedMax - 1
  <2> SUFFICES ASSUME NEW x \in EventId, age[x] < ConfirmedMax, x \notin ToSet(Evicted)
               PROVE  age[x] >= ConfirmedMax - 1
    OBVIOUS
  <2>1. PICK i \in 1..Len(confirmed) : confirmed[i] = x
    BY <1>1 DEF AgeInv, FreshStays, IsConfirmedEvent, ToSet
  <2>2. Evicted # confirmed
    BY <1>1, <2>1 DEF ToSet
  <2>3. /\ Len(confirmed) = ConfirmedMax /\ n = ConfirmedMax - 1
        /\ \A j \in 1..n : Evicted[j] = confirmed[j + 1]
    BY <2>2, EvictedFacts DEF AgeInv, BroadcastTypeOK
  <2>4. i = 1
    <3> SUFFICES ASSUME i # 1 PROVE FALSE
      OBVIOUS
    <3>1. i - 1 \in 1..n /\ i - 1 + 1 = i
      BY <1>1, <2>1, <2>3
    <3>2. Evicted[i - 1] = x /\ i - 1 \in DOMAIN Evicted
      BY <1>1, <2>1, <2>3, <3>1
    <3> QED
      BY <3>2 DEF ToSet
  <2> QED
    BY <1>1, <2>1, <2>3, <2>4 DEF AgeInv
<1>6. CASE fresh
  <2>1. confirmed' = Append(Evicted, e)
    BY <1>6 DEF Confirm
  <2>2. /\ confirmed' \in Seq(EventId) /\ Len(confirmed') = n + 1
        /\ \A i \in 1..n : confirmed'[i] = Evicted[i]
        /\ confirmed'[n + 1] = e
    BY <1>1, <2>1
  <2>3. \A i \in 1..n : Evicted[i] # e
    BY <1>1, <1>6 DEF ToSet
  <2>4. \A i \in 1..n + 1 : age'[confirmed'[i]] >= n + 1 - i
    <3> TAKE i \in 1..n + 1
    <3>1. CASE i = n + 1
      BY <1>1, <1>2, <1>6, <2>2, <3>1
    <3>2. CASE i \in 1..n
      <4>1. /\ confirmed'[i] = Evicted[i] /\ Evicted[i] # e
            /\ Evicted[i] \in EventId /\ age[Evicted[i]] >= n - i
        BY <1>4, <2>2, <2>3, <3>2
      <4>2. age'[Evicted[i]] = IF age[Evicted[i]] < ConfirmedMax THEN age[Evicted[i]] + 1
                                                                 ELSE age[Evicted[i]]
        BY <1>2, <4>1
      <4> QED
        BY <1>1, <3>2, <4>1, <4>2
    <3> QED
      BY <1>1, <3>1, <3>2
  <2>5. \A x \in EventId : age'[x] < ConfirmedMax => x \in ToSet(confirmed')
    <3> SUFFICES ASSUME NEW x \in EventId, age'[x] < ConfirmedMax PROVE x \in ToSet(confirmed')
      OBVIOUS
    <3>1. CASE x = e
      BY <1>1, <2>2, <3>1 DEF ToSet
    <3>2. CASE x # e
      <4>1. age[x] < ConfirmedMax - 1
        BY <1>1, <1>2, <3>2
      <4>2. PICK i \in 1..n : Evicted[i] = x
        BY <1>1, <1>5, <4>1 DEF ToSet
      <4>3. confirmed'[i] = x /\ i \in DOMAIN confirmed'
        BY <1>1, <2>2, <4>2
      <4> QED
        BY <4>3 DEF ToSet
    <3> QED
      BY <3>1, <3>2
  <2> QED
    BY <1>1, <1>3, <2>2, <2>4, <2>5 DEF AgeInv, BroadcastTypeOK, FreshStays, IsConfirmedEvent
<1>7. CASE ~ fresh
  <2>1. confirmed' = Evicted
    BY <1>7 DEF Confirm
  <2>2. \A i \in 1..n : age'[Evicted[i]] >= n - i
    <3> TAKE i \in 1..n
    <3>1. Evicted[i] \in EventId /\ age[Evicted[i]] >= n - i
      BY <1>4
    <3>2. age'[Evicted[i]] = IF age[Evicted[i]] < ConfirmedMax THEN age[Evicted[i]] + 1
                                                               ELSE age[Evicted[i]]
      BY <1>2, <1>7, <3>1
    <3> QED
      BY <1>1, <3>1, <3>2
  <2>3. \A x \in EventId : age'[x] < ConfirmedMax => x \in ToSet(Evicted)
    BY <1>1, <1>2, <1>5, <1>7
  <2> QED
    BY <1>1, <1>3, <2>1, <2>2, <2>3 DEF AgeInv, BroadcastTypeOK, FreshStays, IsConfirmedEvent
<1> QED
  BY <1>6, <1>7

(* Every step keeps the invariant of the listener.                         *)
LEMMA ListenerStep ==
  AgeInv /\ ReconnectPending /\ [Next]_vars => AgeInv' /\ ReconnectPending'
<1> SUFFICES ASSUME AgeInv, ReconnectPending, [Next]_vars PROVE AgeInv' /\ ReconnectPending'
  OBVIOUS
<1> USE DEF ReconnectPending
<1>1. CASE UNCHANGED broadcastVars
  BY <1>1 DEF broadcastVars, AgeInv, BroadcastTypeOK, FreshStays, IsConfirmedEvent
<1>2. ASSUME NEW e \in EventId, EventArrives(e) PROVE AgeInv' /\ ReconnectPending'
  BY <1>2, ConfirmKeepsAge DEF EventArrives
<1>3. CASE ListenerOpens \/ ListenerCloses \/ Reconnect \/ StopBroadcastListener
  <2> USE DEF ListenerOpens, ListenerCloses, ScheduleReconnect, Reconnect, StopBroadcastListener
  <2>1. ReconnectPending'
    BY <1>3 DEF AgeInv, BroadcastTypeOK
  <2>2. BroadcastTypeOK' /\ UNCHANGED <<confirmed, age>>
    BY <1>3 DEF AgeInv, BroadcastTypeOK
  <2> QED
    BY <2>1, <2>2 DEF AgeInv, FreshStays, IsConfirmedEvent
<1>4. LinksNext => UNCHANGED broadcastVars
  BY DEF LinksNext, Register, Lapse, Disconnect, OrphanPeers, Cleanup, DisconnectFails,
         P2PConnected
<1>5. GateNext \/ UNCHANGED vars => UNCHANGED broadcastVars
  BY DEF GateNext, SignalRefused, Signal, Tick, vars
<1> QED
  BY <1>1, <1>2, <1>3, <1>4, <1>5 DEF Next, Listening, BroadcastNext

-----------------------------------------------------------------------------
(* The invariants of windows and listener hold initially.                  *)
LEMMA SignalingInit == Init => WinInv /\ AgeInv /\ ReconnectPending
<1> SUFFICES ASSUME Init PROVE WinInv /\ AgeInv /\ ReconnectPending
  OBVIOUS
<1>1. WinInv
  BY SignalingAssumption DEF Init, WinInv, NoWin, Old, Current
<1>2. ReconnectPending /\ BroadcastTypeOK
  <2>1. ReconnectPending
    BY DEF Init, BroadcastInit, ReconnectPending
  <2>2. << >> \in Seq(EventId) /\ ConfirmedMax \in 0..ConfirmedMax
    BY BroadcastAssumption
  <2>3. confirmed \in Seq(EventId) /\ age \in [EventId -> 0..ConfirmedMax]
    BY <2>2 DEF Init, BroadcastInit
  <2>4. listener = "connecting" /\ timer = FALSE /\ stopped = FALSE
    BY DEF Init, BroadcastInit
  <2> QED
    BY <2>1, <2>3, <2>4 DEF BroadcastTypeOK
<1>3. /\ confirmed = << >> /\ ConfirmedMax \in Nat
      /\ \A e \in EventId : age[e] = ConfirmedMax
  BY BroadcastAssumption DEF Init, BroadcastInit
<1>4. AgeInv
  <2>1. Len(confirmed) = 0
    BY <1>3
  <2> QED
    BY <1>2, <1>3, <2>1 DEF AgeInv, FreshStays
<1> QED
  BY <1>1, <1>2, <1>4

(* The maps, windows and the listener have their types: in particular the  *)
(* rate limiter lets no more than RATE_LIMITS pass in one tick.            *)
THEOREM SignalingTypeCorrect == Spec => []TypeOK
<1>1. LinksInv /\ WinInv /\ AgeInv => TypeOK
  BY DEF LinksInv, ClientType, ConnInv, ConnTypeOK, WinInv, AgeInv, TypeOK, SlotsAccounted,
         Unpointed
<1> QED
  BY <1>1, LinksInit, LinksStep, SignalingInit, WinStep, ListenerStep, PTL DEF Spec

(* handler.ts:51-73: in any ten seconds less than twice the limit passes   *)
(* the gate, whenever the windows begin and whoever leaves meanwhile.      *)
(* More than the limit may: handler.ts:35 calls the windows sliding, but   *)
(* they are fixed.                                                         *)
THEOREM RateIsBounded == Spec => []RateBound
  BY PassedBounds, PassedInit, PassedStep, LinksInit, LinksStep, SignalingInit, WinStep,
     PTL DEF Spec

(* handler.ts:63-71: who is refused did send as many messages as the limit *)
(* in the last ten seconds, since refusals do not prolong a window.        *)
THEOREM RefusalIsDeserved == Spec => []RefusedWhenBusy
  BY PassedBounds, PassedInit, PassedStep, LinksInit, LinksStep, SignalingInit, WinStep,
     PTL DEF Spec

(* broadcast.ts: an id stays confirmed while fewer than CONFIRMED_MAX      *)
(* messages follow, and a closed listener waits for its reconnection.      *)
THEOREM ListenerSafe == Spec => [](FreshStays /\ ReconnectPending)
<1>1. AgeInv => FreshStays
  BY DEF AgeInv
<1> QED
  BY <1>1, SignalingInit, ListenerStep, PTL DEF Spec

(* broadcast.ts:63, 73, 118: a closed listener waits for its reconnection, *)
(* and none is pending beside one that lives.                              *)
THEOREM ReconnectionIsPending == Spec => []ReconnectPending
  BY ListenerSafe, PTL
=============================================================================
