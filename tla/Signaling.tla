----------------------------- MODULE Signaling -----------------------------
(***************************************************************************)
(* The side of the relay that never waits for Redis: the gate of           *)
(* handleSignaling with its rate limits, the handlers of PEER_SIGNAL       *)
(* and PEER_P2P_CONNECTED (signaling/handler.ts) over the maps of          *)
(* Connections, and the strfry listener of Broadcast.  What registrations  *)
(* and disconnects do in Redis is left to PeerRegistry; here only the      *)
(* moments show at which they touch what is kept here, and that an answer  *)
(* of Redis may tell a client lapsed, or not come at all.                  *)
(*                                                                         *)
(* Windows are kept per client and message type and never touch each       *)
(* other, so those of one limited type, PEER_SIGNAL, stand for all.  Time  *)
(* is the age of what is remembered: a Tick makes everything older.        *)
(***************************************************************************)
EXTENDS Connections, Broadcast

CONSTANTS Limit,   \* RATE_LIMITS[PEER_SIGNAL] (20)
          Window   \* ticks a window lasts (10 000 ms)

ASSUME SignalingAssumption == Limit \in Nat \ {0} /\ Window \in Nat \ {0}

VARIABLES client,     \* each connection, and if it is in registeredPeers
          uncleaned,  \* history: clients that lapsed or whose cleanup failed
          win,        \* rateLimits: count and age of the window of a client
          recent,     \* history: messages let through, by age, up to Window
          leaked      \* history: slots whose peer no longer points at them

signalVars == <<client, uncleaned, win, recent>>
vars       == <<links, leaked, signalVars, broadcastVars>>

Old   == Window + 1       \* the age of what is older than a window
NoWin == [count |-> 0, age |-> Old]

(* "leaving" is a registered client whose disconnect waits for Redis.      *)
Stage == {"open", "registered", "leaving", "closed"}

(* A window counts up to one past the limit, which is as good as further.  *)
TypeOK ==
  /\ ConnTypeOK /\ BroadcastTypeOK
  /\ client \in [Client -> Stage] /\ uncleaned \subseteq Client
  /\ win \in [Client -> [count : 0..Limit + 1, age : 0..Old]]
  /\ recent \in [Client -> [0..Window -> 0..Limit]]
  /\ leaked \subseteq Client \X Client

Init ==
  /\ links = NoLinks /\ leaked = {}
  /\ BroadcastInit
  /\ client = [c \in Client |-> "open"] /\ uncleaned = {}
  /\ win = [c \in Client |-> NoWin]
  /\ recent = [c \in Client |-> [a \in 0..Window |-> 0]]

Here(c) == client[c] \in {"open", "registered"}      \* in the clients map

-----------------------------------------------------------------------------
(* The rate limiter.                                                       *)

(* The window of c, or a new one if it has none or one that is over.       *)
Current(c) == IF win[c].age > Window THEN [count |-> 0, age |-> 0] ELSE win[c]

IsRateLimited(c) == Current(c).count >= Limit

(* Mutant: every message starts the window again.                          *)
CountedRenews(c) == [Current(c) EXCEPT !.count = Min({@ + 1, Limit + 1}), !.age = 0]

Counted(c) == [Current(c) EXCEPT !.count = Min({@ + 1, Limit + 1})]

-----------------------------------------------------------------------------
(* server.ts and manager.ts.                                               *)

(* registerPeer adds the client to registeredPeers; after a lapse again.   *)
Register(c) ==
  /\ client[c] = "open"
  /\ client' = [client EXCEPT ![c] = "registered"]
  /\ uncleaned' = uncleaned \ {c}
  /\ UNCHANGED <<links, leaked, win, recent, broadcastVars>>

(* handleHeartbeat finds no hash any more: the client is taken out of      *)
(* registeredPeers, and of nothing else.                                   *)
Lapse(c) ==
  /\ client[c] = "registered"
  /\ client' = [client EXCEPT ![c] = "open"]
  /\ uncleaned' = uncleaned \cup {c}
  /\ UNCHANGED <<links, leaked, win, recent, broadcastVars>>

(* handleDisconnect: one that is not registered goes no further, and what  *)
(* it had before a lapse stays; the others wait for Redis.                 *)
Disconnect(c) ==
  /\ Here(c)
  /\ client' = [client EXCEPT ![c] = IF @ = "registered" THEN "leaving" ELSE "closed"]
  /\ UNCHANGED <<links, leaked, uncleaned, win, recent, broadcastVars>>

(* The slots k holds whose peer does not point back.                       *)
Unpointed(k) == {slot \in Client \X Client :
                   slot[2] \in k.peers[slot[1]] /\ k.super[slot[2]] # slot[1]}

(* As c is dropped as a super peer its orphans lose their pointers, also   *)
(* those that point at another super peer by now.                          *)
DropsOrphans(c) ==
  leaked' = {slot \in leaked \cup {<<links.super[p], p>> : p \in links.peers[c]} :
               slot \in Unpointed(links')}

(* getPeer answered: of a super peer the orphans are dropped to be told.   *)
OrphanPeers(c) ==
  /\ client[c] = "leaving"
  /\ links' = HandleSuperPeerDisconnect(links, c) /\ DropsOrphans(c)
  /\ UNCHANGED <<signalVars, broadcastVars>>

(* removePeer answered.  A socket that failed closes too: the handler may  *)
(* have been called twice, and the second run is yet to come then.         *)
Cleanup(c) ==
  /\ client[c] = "leaving"
  /\ \E s \in {"leaving", "closed"} : client' = [client EXCEPT ![c] = s]
  /\ links' = CleanupPeerConnections(links, c) /\ DropsOrphans(c)
  /\ win' = [win EXCEPT ![c] = NoWin]            \* cleanupRateLimit
  /\ UNCHANGED <<uncleaned, recent, broadcastVars>>

(* Redis rejects a command of the disconnect: the rest of it is skipped.   *)
DisconnectFails(c) ==
  /\ client[c] = "leaving"
  /\ client' = [client EXCEPT ![c] = "closed"]
  /\ uncleaned' = uncleaned \cup {c}
  /\ UNCHANGED <<links, leaked, win, recent, broadcastVars>>

-----------------------------------------------------------------------------
(* The messages.                                                           *)

(* PEER_SIGNAL: past the gate it is checked and forwarded at once.         *)
SignalRefused(c) ==
  /\ Here(c) /\ IsRateLimited(c)
  /\ win' = [win EXCEPT ![c] = Counted(c)]
  /\ UNCHANGED <<links, leaked, client, uncleaned, recent, broadcastVars>>

Signal(c) ==
  /\ Here(c) /\ ~ IsRateLimited(c)
  /\ win' = [win EXCEPT ![c] = Counted(c)]
  /\ recent' = [recent EXCEPT ![c][0] = @ + 1]
  /\ UNCHANGED <<links, leaked, client, uncleaned, broadcastVars>>

(* onP2PConnected: the reporter counts as the super peer, and the peer it  *)
(* names may have left, be at another super peer, or be itself.            *)
P2PConnected(c, remote) ==
  /\ client[c] = "registered"
  /\ links' = RegisterConnection(links, c, remote)
  /\ leaked' = {slot \in leaked \cup {<<links.super[remote], remote>>} :
                  slot \in Unpointed(links')}
  /\ UNCHANGED <<signalVars, broadcastVars>>

Tick ==
  /\ win' = [c \in Client |-> [win[c] EXCEPT !.age = Min({@ + 1, Old})]]
  /\ recent' = [c \in Client |-> [a \in 0..Window |-> IF a = 0 THEN 0 ELSE recent[c][a - 1]]]
  /\ UNCHANGED <<links, leaked, client, uncleaned, broadcastVars>>

Listening == BroadcastNext /\ UNCHANGED <<links, leaked, signalVars>>

(* The clients and the maps, and the windows of the gate: neither reads    *)
(* the other, since RATE_LIMITS does not list PEER_P2P_CONNECTED.          *)
LinksNext ==
  \E c \in Client :
    \/ Register(c) \/ Lapse(c) \/ Disconnect(c)
    \/ OrphanPeers(c) \/ Cleanup(c) \/ DisconnectFails(c)
    \/ \E remote \in Client : P2PConnected(c, remote)

GateNext == Tick \/ \E c \in Client : SignalRefused(c) \/ Signal(c)

Next == LinksNext \/ GateNext \/ Listening

Spec == Init /\ [][Next]_vars

-----------------------------------------------------------------------------
(* Properties.                                                             *)

(* A message is refused only if as many as the limit were let through in   *)
(* the last ten seconds: refusals do not prolong a window.                 *)
RefusedWhenBusy ==
  \A c \in Client : IsRateLimited(c) => SumFunction(recent[c]) >= Limit

(* A slot is held by a peer that points at it, unless the peer moved to    *)
(* another super peer or lost its pointer as that one left.                *)
SlotsAccounted == Unpointed(links) = leaked

(* A client that left is no super peer to anyone any more, whatever is     *)
(* reported, also of it, while it leaves and afterwards: no pointer leads  *)
(* to it and its own set is empty.  Not so one that lapsed and did not     *)
(* register again: its disconnect ends at once (manager.ts:59), like one   *)
(* that Redis fails, and leaves it the super peer of those it had.         *)
Departed ==
  \A c \in Client : client[c] = "closed" /\ c \notin uncleaned => Forgotten(links, c)

(* The maps, as the handlers change them, behave as ConnSpec says.         *)
ImplementsConnections == ConnSpec
=============================================================================
