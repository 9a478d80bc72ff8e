---------------------------- MODULE PeerRegistry ----------------------------
(***************************************************************************)
(* The life of a peer in the relay: registration, heartbeats, promotion to *)
(* super peer, disconnection (signaling/handler.ts, peers/manager.ts,      *)
(* peers/classifier.ts, server.ts), over the Redis keys of PeerStore and   *)
(* the maps of Connections.                                                *)
(*                                                                         *)
(* The process is single-threaded, but every handler is an async function  *)
(* that gives up the thread at each Redis command, so handlers interleave. *)
(* A running handler is a task: a slot that holds the client it serves and *)
(* pc, the one command it waits for.  All commands share one connection:   *)
(* wire holds the tasks in the order they sent their commands, Redis       *)
(* executes them in that order (the first "done" of them are executed) and *)
(* answers in that order.  Answers that arrive in one chunk resolve their  *)
(* promises together and the handlers then go on in an order that depends  *)
(* on how many promises each has nested: any of the first Chunk executed   *)
(* ones may go on.  Chunk = 1 is strict arrival order.                     *)
(***************************************************************************)
EXTENDS PeerStore, Connections, SequencesExt

CONSTANTS Task,    \* slots: bounds the handlers running at one time
          Chunk,   \* answers whose handlers may be reordered
          Timers,  \* the timers of index.ts that run: "classify", "prune"
          Failures \* what may go wrong: "expire", "redis", "crash"

ASSUME RegistryAssumption == /\ Chunk \in Nat \ {0}
                             /\ Timers \subseteq {"classify", "prune"}
                             /\ Failures \subseteq {"expire", "redis", "crash"}

VARIABLES up,          \* the process is running
          sock,        \* each client's WebSocket, as the server sees it
          registered,  \* registeredPeers (manager.ts)
          cached,      \* the clients that have a cached event (peerEvents)
          scored,      \* the clients in peerReputation
          task, wire, done,
          notices,     \* RECONNECT messages sent to p about super peer s
          past         \* history: what befell a client, for the properties

memVars  == <<registered, cached, scored, links>>
taskVars == <<task, wire, done>>
vars     == <<up, sock, memVars, taskVars, storeVars, notices, past>>

-----------------------------------------------------------------------------
(* Tasks.  A pc is named for the command the handler waits for.            *)

RegisterPC   == {"hSet", "expire", "addAll", "addCasual", "loadRep", "saveRep"}
PromotePC    == {"setSuper", "remCasual", "addSuper"}
DemotePC     == {"setCasual", "remSuper", "readdCasual"}
ClassifyPC   == {"getPeer"} \cup PromotePC \cup DemotePC
DisconnectPC == {"dcGet", "dcDel", "dcRemAll", "dcRemSuper", "dcRemCasual"}

(* What Redis answered: "pending" until the command is executed.  A read   *)
(* of a hash answers its status, or "eligible" for a casual peer whose     *)
(* fields and age meet the time, bandwidth and storage criteria.           *)
Reply == {"pending", "ok", "none", "casual", "super", "eligible"}

TaskState ==
  [op : {"idle", "register", "heartbeat", "sweep", "disconnect"},
   c : Client \cup {NoClient}, pc : {"none", "refresh"} \cup RegisterPC
                                    \cup ClassifyPC \cup DisconnectPC,
   reply : Reply, rest : SUBSET Client]

Idle == [op |-> "idle", c |-> NoClient, pc |-> "none", reply |-> "ok",
         rest |-> {}]

Busy(t)      == task[t].op # "idle"
Serving(t, c) == task[t].c = c
Doing(op, c) == \E t \in Task : task[t].op = op /\ Serving(t, c)
Sweeping(c)  == \E t \in Task : task[t].op = "sweep"
                                /\ (Serving(t, c) \/ c \in task[t].rest)

(* A handler starts and runs up to its first command.                      *)
Start(t, op, c, pc, rest) ==
  /\ ~ Busy(t)
  /\ task' = [task EXCEPT ![t] = [op |-> op, c |-> c, pc |-> pc,
                                  reply |-> "pending", rest |-> rest]]
  /\ wire' = Append(wire, t)
  /\ UNCHANGED done

(* The i-th command is answered and its handler goes on to send another,   *)
(* for the same client or, in a sweep, for the next one.                   *)
Send(i, c, pc, rest) ==
  /\ task' = [task EXCEPT ![wire[i]] = [op |-> @.op, c |-> c, pc |-> pc,
                                        reply |-> "pending", rest |-> rest]]
  /\ wire' = Append(RemoveAt(wire, i), wire[i])
  /\ done' = done - 1

Await(i, pc) == Send(i, task[wire[i]].c, pc, task[wire[i]].rest)

(* The i-th command is answered and its handler returns.                   *)
Return(i) ==
  /\ task' = [task EXCEPT ![wire[i]] = Idle]
  /\ wire' = RemoveAt(wire, i)
  /\ done' = done - 1

(* The i-th command is answered: the task that goes on.                    *)
Answered(i, op, pc) == task[wire[i]].op = op /\ task[wire[i]].pc = pc

-----------------------------------------------------------------------------
(* Every variable has its type: a command in the queue belongs to a        *)
(* running handler, and Redis holds only the statuses and sets the code    *)
(* knows.                                                                  *)
TypeOK ==
  /\ StoreTypeOK
  /\ links \in ConnType
  /\ up \in BOOLEAN
  /\ sock \in [Client -> {"new", "open", "errored", "closed", "lost"}]
  /\ registered \subseteq Client /\ cached \subseteq Client /\ scored \subseteq Client
  /\ task \in [Task -> TaskState]
  /\ wire \in Seq(Task) /\ done \in 0..Len(wire)
  /\ \A i \in 1..Len(wire) : Busy(wire[i])
  /\ notices \in [Client \X Client -> 0..2]
  /\ past \in [Client -> SUBSET {"register", "again", "lapsed", "fault",
                                 "raced_register", "raced_classify"}]

Init ==
  /\ StoreInit
  /\ links = NoLinks
  /\ up = TRUE
  /\ sock = [c \in Client |-> "new"]
  /\ registered = {} /\ cached = {} /\ scored = {}
  /\ task = [t \in Task |-> Idle] /\ wire = << >> /\ done = 0
  /\ notices = [pair \in Client \X Client |-> 0]
  /\ past = [c \in Client |-> {}]

Mark(S, e) == past' = [c \in Client |-> IF c \in S THEN past[c] \cup {e} ELSE past[c]]

-----------------------------------------------------------------------------
(* The WebSocket server.                                                   *)

Connect(c) ==
  /\ up /\ sock[c] = "new"
  /\ sock' = [sock EXCEPT ![c] = "open"]
  /\ UNCHANGED <<up, memVars, taskVars, storeVars, notices, past>>

(* Mutant: only a client with cached events is cleaned up.                 *)
HandleDisconnectIfCached(c) ==
  IF c \in registered \cap cached
  THEN \E t \in Task : Start(t, "disconnect", c, "dcGet", {})
  ELSE UNCHANGED taskVars

(* handleDisconnect up to its first command: a client that is not in       *)
(* registeredPeers at this moment is not cleaned up at all.                *)
HandleDisconnect(c) ==
  IF c \in registered
  THEN \E t \in Task : Start(t, "disconnect", c, "dcGet", {})
  ELSE UNCHANGED taskVars

(* The handlers of c that were running when its socket left.               *)
MarkRaces(c) ==
  past' = [past EXCEPT ![c] = @
             \cup (IF Doing("register", c) THEN {"raced_register"} ELSE {})
             \cup (IF Doing("heartbeat", c) \/ Sweeping(c)
                   THEN {"raced_classify"} ELSE {})]

(* ws 'error': the client leaves the clients map and is disconnected; ws   *)
(* always emits 'close' after it, which calls handleDisconnect again.      *)
SocketError(c) ==
  /\ up /\ sock[c] = "open"
  /\ sock' = [sock EXCEPT ![c] = "errored"]
  /\ HandleDisconnect(c) /\ MarkRaces(c)
  /\ UNCHANGED <<up, memVars, storeVars, notices>>

SocketClose(c) ==
  /\ up /\ sock[c] \in {"open", "errored"}
  /\ sock' = [sock EXCEPT ![c] = "closed"]
  /\ HandleDisconnect(c) /\ MarkRaces(c)
  /\ UNCHANGED <<up, memVars, storeVars, notices>>

-----------------------------------------------------------------------------
(* The signaling messages of an open client.                               *)

(* onRegister: a client already registered is only answered.               *)
Register(c) ==
  /\ up /\ sock[c] = "open" /\ c \notin registered
  /\ \E t \in Task : Start(t, "register", c, "hSet", {})
  /\ Mark({c}, IF "register" \in past[c] THEN "again" ELSE "register")
  /\ UNCHANGED <<up, sock, memVars, storeVars, notices>>

(* onHeartbeat: a client not registered is only answered.                  *)
Heartbeat(c) ==
  /\ up /\ sock[c] = "open" /\ c \in registered
  /\ \E t \in Task : Start(t, "heartbeat", c, "refresh", {})
  /\ UNCHANGED <<up, sock, memVars, storeVars, notices, past>>

CacheHave(c) ==
  /\ up /\ sock[c] = "open" /\ c \in registered
  /\ cached' = cached \cup {c}
  /\ UNCHANGED <<up, sock, registered, scored, links, taskVars, storeVars,
                 notices, past>>

(* onStats with a verified delta: adjustReputation creates the entry.      *)
Stats(c) ==
  /\ up /\ sock[c] = "open" /\ c \in registered
  /\ scored' = scored \cup {c}
  /\ UNCHANGED <<up, sock, registered, cached, links, taskVars, storeVars,
                 notices, past>>

(* onP2PConnected: the client that reports is taken as the super peer,     *)
(* whatever its role, and the peer it names is not looked up.              *)
P2PConnected(c, remote) ==
  /\ up /\ sock[c] = "open" /\ c \in registered /\ sock[remote] # "new"
  /\ links' = RegisterConnection(links, c, remote)
  /\ UNCHANGED <<up, sock, registered, cached, scored, taskVars, storeVars,
                 notices, past>>

-----------------------------------------------------------------------------
(* The other entry points: the strfry listener and the timers.             *)

(* broadcastToPeers: the event is sent to and recorded for every           *)
(* registered client whose socket is open.                                 *)
Broadcast ==
  /\ up
  /\ cached' = cached \cup {c \in registered : sock[c] = "open"}
  /\ UNCHANGED <<up, sock, registered, scored, links, taskVars, storeVars,
                 notices, past>>

(* pruneOldEvents: the peers that held only old events leave the index.    *)
PruneOldEvents ==
  /\ up
  /\ "prune" \in Timers
  /\ \E gone \in SUBSET cached : cached' = cached \ gone
  /\ UNCHANGED <<up, sock, registered, scored, links, taskVars, storeVars,
                 notices, past>>

(* classifyAllPeers: the ids are copied once, then served one by one.      *)
ClassifyAllPeers ==
  /\ up
  /\ "classify" \in Timers
  /\ \E t \in Task, c \in registered :
       Start(t, "sweep", c, "getPeer", registered \ {c})
  /\ Mark({c \in registered : sock[c] # "open"}, "raced_classify")
  /\ UNCHANGED <<up, sock, memVars, storeVars, notices>>

-----------------------------------------------------------------------------
(* Redis.                                                                  *)

(* Mutant: a promotion adds the peer to peers:all again.                   *)
ExecuteWrongSet(c, pc) ==
  \/ pc = "hSet" /\ HSetPeer(c)
  \/ pc \in {"expire", "refresh"} /\ ExpireKey(c)
  \/ pc \in {"addAll", "addSuper"} /\ SAdd("all", c)
  \/ pc \in {"addCasual", "readdCasual"} /\ SAdd("casual", c)
  \/ pc = "setSuper" /\ HSetStatus(c, "super")
  \/ pc \in {"remCasual", "dcRemCasual"} /\ SRem("casual", c)
  \/ pc \notin {"hSet", "expire", "refresh", "addAll", "addSuper", "addCasual",
                "readdCasual", "setSuper", "remCasual", "dcRemCasual"}
     /\ UNCHANGED storeVars

Execute(c, pc) ==
  \/ pc = "hSet" /\ HSetPeer(c)
  \/ pc \in {"expire", "refresh"} /\ ExpireKey(c)
  \/ pc = "addAll" /\ SAdd("all", c)
  \/ pc \in {"addCasual", "readdCasual"} /\ SAdd("casual", c)
  \/ pc = "addSuper" /\ SAdd("super", c)
  \/ pc = "setSuper" /\ HSetStatus(c, "super")
  \/ pc = "setCasual" /\ HSetStatus(c, "casual")
  \/ pc = "dcDel" /\ Del(c)
  \/ pc = "dcRemAll" /\ SRem("all", c)
  \/ pc \in {"remSuper", "dcRemSuper"} /\ SRem("super", c)
  \/ pc \in {"remCasual", "dcRemCasual"} /\ SRem("casual", c)
  \/ pc \in {"getPeer", "dcGet", "loadRep", "saveRep"} /\ UNCHANGED storeVars

(* EXPIRE answers 1 or 0; a saved reputation is found or not; whether a    *)
(* full casual hash meets the criteria of age, bandwidth and storage is    *)
(* left open.                                                              *)
Answer(c, pc) ==
  CASE pc = "refresh" -> {IF Exists(c) THEN "ok" ELSE "none"}
    [] pc = "loadRep" -> {"ok", "none"}
    [] pc = "getPeer" /\ hash[c].status = "casual" /\ hash[c].full
                      -> {"casual", "eligible"}
    [] pc \in {"getPeer", "dcGet"} -> {hash[c].status}
    [] OTHER -> {"ok"}

RedisExec ==
  /\ done < Len(wire)
  /\ LET t == wire[done + 1] IN
       /\ Execute(task[t].c, task[t].pc)
       /\ \E r \in Answer(task[t].c, task[t].pc) :
            task' = [task EXCEPT ![t].reply = r]
  /\ done' = done + 1
  /\ UNCHANGED <<up, sock, memVars, wire, notices, past>>

Expire(c) ==
  /\ "expire" \in Failures
  /\ KeyExpires(c)
  /\ UNCHANGED <<up, sock, memVars, taskVars, notices, past>>

-----------------------------------------------------------------------------
(* The handlers go on, each at the answer it waited for.                   *)

(* registerPeer, then initReputation: the client counts as registered      *)
(* before its reputation is known.                                         *)
RegisterStep(i) ==
  LET c == task[wire[i]].c IN
  \/ /\ \/ Answered(i, "register", "hSet") /\ Await(i, "expire")
        \/ Answered(i, "register", "expire") /\ Await(i, "addAll")
        \/ Answered(i, "register", "addAll") /\ Await(i, "addCasual")
     /\ UNCHANGED memVars
  \/ /\ Answered(i, "register", "addCasual")
     /\ registered' = registered \cup {c}
     /\ \/ Await(i, "loadRep") /\ UNCHANGED scored     \* it gave a public key
        \/ Return(i) /\ scored' = scored \cup {c}      \* it gave none
     /\ UNCHANGED <<cached, links>>
  \/ /\ Answered(i, "register", "loadRep")
     /\ scored' = scored \cup {c}
     /\ IF task[wire[i]].reply = "ok" THEN Return(i) ELSE Await(i, "saveRep")
     /\ UNCHANGED <<registered, cached, links>>
  \/ /\ Answered(i, "register", "saveRep")
     /\ Return(i)
     /\ UNCHANGED memVars

(* handleHeartbeat: a hash that is gone makes the client unregistered, and *)
(* nothing else of it is cleaned up.                                       *)
HeartbeatStep(i) ==
  /\ Answered(i, "heartbeat", "refresh")
  /\ IF task[wire[i]].reply = "ok"
     THEN Await(i, "getPeer") /\ UNCHANGED <<registered, past>>
     ELSE /\ Return(i)
          /\ registered' = registered \ {task[wire[i]].c}
          /\ Mark({task[wire[i]].c}, "lapsed")
  /\ UNCHANGED <<cached, scored, links>>

(* classifyPeer, given what the read answered.  A reputation that is known *)
(* is never below 50 (see README), one that is missing counts as 0.        *)
(* Mutant: the reputation criterion is dropped.                            *)
ShouldPromoteUnscored(c, read) == read = "eligible" /\ c \in cached

ShouldPromote(c, read) == read = "eligible" /\ c \in scored /\ c \in cached
ShouldDemote(c, read)  == read = "super" /\ c \notin scored

(* The classification of a client ends: a heartbeat's handler returns, a   *)
(* sweep goes on to the next client of its copy.                           *)
EndClassify(i) ==
  LET me == task[wire[i]] IN
  IF me.op = "heartbeat" \/ me.rest = {} THEN Return(i)
  ELSE \E next \in me.rest : Send(i, next, "getPeer", me.rest \ {next})

(* Mutants: removePeer forgets peers:all; promotePeer forgets peers:casual.*)
NextCommandKeepsAll ==
  [setSuper |-> "remCasual", remCasual |-> "addSuper", setCasual |-> "remSuper",
   remSuper |-> "readdCasual", dcDel |-> "dcRemSuper", dcRemSuper |-> "dcRemCasual"]

NextCommandKeepsCasual ==
  [setSuper |-> "addSuper", setCasual |-> "remSuper", remSuper |-> "readdCasual",
   dcDel |-> "dcRemAll", dcRemAll |-> "dcRemSuper", dcRemSuper |-> "dcRemCasual"]

NextCommand == [setSuper |-> "remCasual", remCasual |-> "addSuper",
                setCasual |-> "remSuper", remSuper |-> "readdCasual",
                dcDel |-> "dcRemAll", dcRemAll |-> "dcRemSuper",
                dcRemSuper |-> "dcRemCasual"]

ClassifyStep(i) ==
  LET me == task[wire[i]] IN
  /\ me.op \in {"heartbeat", "sweep"}
  /\ \/ /\ me.pc = "getPeer"
        /\ \/ ShouldPromote(me.c, me.reply) /\ Await(i, "setSuper")
           \/ ShouldDemote(me.c, me.reply) /\ Await(i, "setCasual")
           \/ /\ ~ ShouldPromote(me.c, me.reply) /\ ~ ShouldDemote(me.c, me.reply)
              /\ EndClassify(i)
     \/ /\ me.pc \in {"setSuper", "remCasual", "setCasual", "remSuper"}
        /\ Await(i, NextCommand[me.pc])
     \/ /\ me.pc \in {"addSuper", "readdCasual"}
        /\ EndClassify(i)

(* notifyOrphans: only those whose socket is open are told.                *)
NotifyOrphans(s) ==
  notices' = [pair \in Client \X Client |->
                IF /\ pair[1] = s /\ pair[2] \in Orphans(links, s)
                   /\ sock[pair[2]] = "open" /\ notices[pair] < 2
                THEN notices[pair] + 1 ELSE notices[pair]]

(* handleDisconnect after its first command, and removePeer.               *)
DisconnectStep(i) ==
  LET me == task[wire[i]] IN
  /\ me.op = "disconnect"
  /\ \/ /\ me.pc = "dcGet" /\ Await(i, "dcDel")
        /\ IF me.reply = "super"
           THEN /\ NotifyOrphans(me.c)
                /\ links' = HandleSuperPeerDisconnect(links, me.c)
           ELSE UNCHANGED <<notices, links>>
        /\ UNCHANGED <<registered, cached, scored>>
     \/ /\ me.pc \in {"dcDel", "dcRemAll", "dcRemSuper"}
        /\ Await(i, NextCommand[me.pc])
        /\ UNCHANGED <<memVars, notices>>
     \/ /\ me.pc = "dcRemCasual" /\ Return(i)
        /\ cached' = cached \ {me.c}
        /\ scored' = scored \ {me.c}
        /\ links' = CleanupPeerConnections(links, me.c)
        /\ registered' = registered \ {me.c}
        /\ UNCHANGED notices

Resume(i) ==
  /\ i <= done
  /\ \/ RegisterStep(i) /\ UNCHANGED <<notices, past>>
     \/ HeartbeatStep(i) /\ UNCHANGED notices
     \/ ClassifyStep(i) /\ UNCHANGED <<memVars, notices, past>>
     \/ DisconnectStep(i) /\ UNCHANGED past
  /\ UNCHANGED <<up, sock, storeVars>>

-----------------------------------------------------------------------------
(* Failures.                                                               *)

DropTasks ==
  /\ task' = [t \in Task |-> Idle]
  /\ wire' = << >>
  /\ done' = 0

ForgetAll ==
  /\ up' = FALSE
  /\ sock' = [c \in Client |-> IF sock[c] = "new" THEN "new" ELSE "lost"]
  /\ registered' = {} /\ cached' = {} /\ scored' = {} /\ links' = NoLinks

(* The connection to Redis breaks: every command in flight is rejected and *)
(* every handler stops where it is.  Handlers of messages answer with an   *)
(* error or log it, handleDisconnect's error is swallowed, and the one of  *)
(* a sweep is an unhandled rejection, which ends the process.              *)
RedisFault ==
  /\ "redis" \in Failures /\ wire # << >>
  /\ DropTasks
  /\ Mark({c \in Client : \E t \in Task : Serving(t, c)}, "fault")
  /\ IF \E t \in Task : task[t].op = "sweep"
     THEN ForgetAll
     ELSE UNCHANGED <<up, sock, memVars>>
  /\ UNCHANGED <<storeVars, notices>>

Crash ==
  /\ "crash" \in Failures /\ up
  /\ DropTasks /\ ForgetAll
  /\ UNCHANGED <<storeVars, notices, past>>

Restart ==
  /\ ~ up
  /\ up' = TRUE
  /\ CleanupStaleSets
  /\ UNCHANGED <<sock, memVars, taskVars, notices, past>>

-----------------------------------------------------------------------------
ClientStep(c) ==
  \/ Connect(c) \/ SocketError(c) \/ SocketClose(c)
  \/ Register(c) \/ Heartbeat(c) \/ CacheHave(c) \/ Stats(c)
  \/ \E remote \in Client : P2PConnected(c, remote)
  \/ Expire(c)

ServerStep ==
  \/ Broadcast \/ PruneOldEvents \/ ClassifyAllPeers
  \/ RedisExec
  \/ \E i \in 1..Chunk : Resume(i)

FailureStep == RedisFault \/ Crash \/ Restart

Next == (\E c \in Client : ClientStep(c)) \/ ServerStep \/ FailureStep

(* Redis answers, and the event loop runs the handler of an answer that    *)
(* arrived: nothing in the code can hold either back.                      *)
Fairness == WF_vars(RedisExec) /\ WF_vars(Resume(1))

Spec == Init /\ [][Next]_vars /\ Fairness

-----------------------------------------------------------------------------
(* Properties.                                                             *)

(* No task serves the client, and no sweep is still to reach it.           *)
Quiet(c) == \A t \in Task : ~ Serving(t, c) /\ c \notin task[t].rest

(* Nothing of the client is left, in memory or in Redis.                   *)
NoTrace(c) ==
  /\ c \notin registered \cup cached \cup scored
  /\ Forgotten(links, c)
  /\ ~ Exists(c) /\ \A s \in SetName : c \notin sets[s]

(* The client closed and none of the hazards the code leaves open (see     *)
(* README) befell it.                                                      *)
Tidy(c) == sock[c] = "closed" /\ past[c] \subseteq {"register", "again"}

(* What is left of a client that closed, once its handlers have ended, has *)
(* one of three causes: it closed while it registered, or while it was     *)
(* being classified, or a heartbeat had found its hash expired (a broken   *)
(* Redis connection may leave anything).  Only the first leaves it         *)
(* registered, only the third leaves its events or connections, and the    *)
(* second no more than a status and an index set.  What the other clients, *)
(* the broadcast and the timers did meanwhile, or 'error' and 'close' that *)
(* ran handleDisconnect twice, leaves nothing.                             *)
Left(c, causes) == past[c] \cap ({"fault"} \cup causes) # {}

LeftoversExplained ==
  \A c \in Client : sock[c] = "closed" /\ Quiet(c) =>
    /\ c \in registered => Left(c, {"raced_register"})
    /\ c \in cached => Left(c, {"lapsed"})
    /\ c \in scored => Left(c, {"raced_register", "lapsed"})
    /\ ~ Forgotten(links, c) => Left(c, {"lapsed"})
    /\ c \in sets["all"] \/ hash[c].full => Left(c, {"raced_register", "lapsed"})
    /\ Exists(c) \/ c \in sets["casual"] \cup sets["super"]
         => Left(c, {"raced_register", "raced_classify", "lapsed"})

(* ... and its handlers do end: no chain of handlers on the one connection *)
(* can keep a disconnect from finishing.                                   *)
CloseIsCleaned == \A c \in Client : Tidy(c) ~> (NoTrace(c) \/ ~ Tidy(c))

(* A registered client whose socket is open and whose hash is alive is in  *)
(* peers:all and in peers:casual or peers:super; a promotion may have it   *)
(* out of both for as long as its handler is under way.                    *)
BeingMoved(c) == \E t \in Task : Serving(t, c) /\ task[t].pc \in PromotePC

IndexedWhileLive ==
  \A c \in registered :
    sock[c] = "open" /\ hash[c].full /\ "fault" \notin past[c] =>
      /\ c \in sets["all"]
      /\ c \in sets["casual"] \cup sets["super"] \/ BeingMoved(c)

(* When no handler works for it, an open client that registered once is in *)
(* the one set its status names, however heartbeats and sweeps raced to    *)
(* promote it.                                                             *)
StatusMatchesSet ==
  \A c \in Client :
    (/\ sock[c] = "open" /\ Quiet(c) /\ hash[c].full
     /\ past[c] \subseteq {"register"}) =>
      \A s \in Status : c \in sets[s] <=> hash[c].status = s

(* No open client is ever being demoted: a registration whose reputation   *)
(* is still being loaded must not be judged by the 0 of a missing one.     *)
NeverDemotedWhileOpen ==
  \A t \in Task, c \in Client :
    Serving(t, c) /\ task[t].pc \in DemotePC => sock[c] # "open"

(* The full record of a peer always gets the TTL that ends it, though HSET *)
(* and EXPIRE are two commands; only a broken Redis connection or a crash  *)
(* between the two can leave one that stays for ever.                      *)
FullHashHasTtl ==
  \A c \in Client :
    hash[c].full /\ ~ hash[c].ttl =>
      \/ \E t \in Task : Serving(t, c) /\ task[t].pc \in {"hSet", "expire"}
      \/ "fault" \in past[c] \/ sock[c] = "lost"

(* A peer is told at most once that a given super peer disconnected, even  *)
(* when two disconnects of it run, and only after it has left.             *)
OrphansToldOnce ==
  \A s, p \in Client : /\ notices[<<s, p>>] <= 1
                       /\ notices[<<s, p>>] = 1 => sock[s] # "open"

-----------------------------------------------------------------------------
(* Statements of the documents and tests of the relay that the code does   *)
(* not keep.                                                               *)

(* broadcast.ts:88 calls registeredPeers "always current, no stale Redis   *)
(* IDs": a client in it is connected or is being disconnected.             *)
RegisteredIsCurrent ==
  \A c \in registered : sock[c] = "open" \/ Doing("disconnect", c)
                        \/ "fault" \in past[c]

(* "Cache should be cleaned after peer A disconnect" (tests/test-fase4.ts):*)
(* a client that is offered as a source is connected or being disconnected.*)
CachedIsConnected ==
  \A c \in cached : sock[c] = "open" \/ Doing("disconnect", c)
                    \/ past[c] \cap {"fault", "raced_register"} # {}

(* The key peer:{id} is a hash with a TTL of 120 s (ARQUITETURA.md): a     *)
(* client that has left leaves no hash that never expires.                 *)
EveryHashExpires ==
  \A c \in Client :
    sock[c] = "closed" /\ Quiet(c) /\ Exists(c) /\ "fault" \notin past[c]
      => hash[c].ttl
=============================================================================
