------------------------- MODULE PeerRegistryProofs -------------------------
(***************************************************************************)
(* Proofs about PeerRegistry, for every set of clients, any number of      *)
(* handler slots, any reordering of answers and every subset of the        *)
(* failures.  IInv is the inductive invariant of what a client is while it *)
(* is here; OpenInv, RoleInv and LeaveInv say, on top of it, what there is *)
(* of a client before, during and after its time in the relay.             *)
(***************************************************************************)
EXTENDS PeerRegistry, ConnectionsProofs, DataLemmas

(* The queue of commands: a handler waits for one command at a time, and   *)
(* the commands that were executed are exactly those with an answer.       *)
WireInv ==
  /\ Distinct(wire)
  /\ \A i \in 1..done : task[wire[i]].reply # "pending"

TasksOK ==
  /\ task \in [Task -> TaskState]
  /\ wire \in Seq(Task) /\ done \in 0..Len(wire)
  /\ \A i \in 1..Len(wire) : Busy(wire[i])
  /\ \A t \in Task : Busy(t) <=> task[t].c \in Client

TaskInv == TasksOK /\ WireInv

(* Every variable but the tasks has its type.                              *)
DataOK ==
  /\ StoreTypeOK /\ links \in ConnType /\ up \in BOOLEAN
  /\ sock \in [Client -> {"new", "open", "errored", "closed", "lost"}]
  /\ registered \subseteq Client /\ cached \subseteq Client /\ scored \subseteq Client
  /\ notices \in [Client \X Client -> 0..2]
  /\ past \in [Client -> SUBSET {"register", "again", "lapsed", "fault",
                                 "raced_register", "raced_classify"}]

(* A client that has not closed, been lost or failed yet.                  *)
Here(c) == sock[c] \in {"new", "open"}

(* Nothing knows a client before it connects, and a process that is down   *)
(* has no open socket.                                                     *)
NewInv ==
  /\ \A c \in Client : sock[c] = "new" =>
       /\ c \notin registered \cup scored /\ hash[c] = NoHash
       /\ \A t \in Task : task[t].c # c /\ c \notin task[t].rest
  /\ ~ up => \A c \in Client : sock[c] # "open"

(* A client is disconnected or demoted only when it has left.              *)
GoneInv ==
  \A t \in Task, c \in Client :
    task[t].c = c /\ (task[t].op = "disconnect" \/ task[t].pc \in DisconnectPC \cup DemotePC)
      => ~ Here(c)

(* A client that is, or is about to be, a super peer has a reputation.     *)
ScoredInv ==
  \A c \in Client : Here(c) /\ c \notin scored =>
    /\ hash[c].status # "super"
    /\ \A t \in Task : task[t].c = c =>
         task[t].pc \notin PromotePC /\ task[t].reply \notin {"super"}

Writing(t, c) == /\ task[t].c = c
                 /\ \/ task[t].pc = "hSet"
                    \/ task[t].pc = "expire" /\ task[t].reply = "pending"

(* A full hash exists, and the handler that wrote it has yet to execute    *)
(* the EXPIRE that follows.                                                *)
TtlInv ==
  \A c \in Client : hash[c].full /\ "fault" \notin past[c] /\ sock[c] # "lost" =>
    hash[c].status # "none" /\ (hash[c].ttl \/ \E t \in Task : Writing(t, c))

(* An open client enters peers:all, then peers:casual, then                *)
(* registeredPeers; it leaves peers:casual only on its way to peers:super. *)
Placed(c) == c \in sets["casual"] \cup sets["super"] \/ BeingMoved(c)

TaskIndexed(t, c) == task[t].c = c =>
  /\ task[t].pc = "addAll" /\ task[t].reply # "pending" => c \in sets["all"]
  /\ task[t].pc = "addCasual" => c \in sets["all"]
  /\ task[t].pc = "addCasual" /\ task[t].reply # "pending" => Placed(c)
  /\ task[t].pc = "addSuper" /\ task[t].reply # "pending" => c \in sets["super"]

IndexInv ==
  \A c \in Client : sock[c] = "open" /\ "fault" \notin past[c] =>
    /\ c \in registered => c \in sets["all"] /\ Placed(c)
    /\ \A t \in Task : TaskIndexed(t, c)

(* Once told of a super peer that left, a peer is not connected to it.     *)
ToldInv ==
  \A s, p \in Client :
    /\ notices[<<s, p>>] \in {0, 1}
    /\ notices[<<s, p>>] = 1 => ~ Here(s) /\ p \notin links.peers[s]

(* The inductive invariant.                                                *)
IInv == /\ DataOK /\ TaskInv /\ ConnInv(links)
        /\ NewInv /\ GoneInv /\ ScoredInv /\ TtlInv /\ IndexInv /\ ToldInv

PC == {"none", "refresh"} \cup RegisterPC \cup ClassifyPC \cup DisconnectPC
Op == {"register", "heartbeat", "sweep", "disconnect"}

-----------------------------------------------------------------------------
(* What the task operations do to the queue.                               *)

(* A handler that starts puts its command at the end of the queue.         *)
LEMMA StartTask ==
  ASSUME TaskInv, NEW t \in Task, NEW op \in Op, NEW c \in Client,
         NEW pc \in PC, NEW rest \in SUBSET Client, Start(t, op, c, pc, rest)
  PROVE  TaskInv'
<1> DEFINE new == [op |-> op, c |-> c, pc |-> pc, reply |-> "pending", rest |-> rest]
<1>1. new \in TaskState /\ new.op # "idle" /\ new.c = c
  BY DEF TaskState, PC, Op, Reply
<1>2. task' = [task EXCEPT ![t] = new] /\ wire' = Append(wire, t) /\ done' = done
  BY DEF Start
<1>3. /\ wire \in Seq(Task) /\ Len(wire) \in Nat /\ done \in 0..Len(wire)
      /\ Distinct(wire) /\ \A i \in 1..Len(wire) : wire[i] \in Task /\ wire[i] # t
  BY DEF TaskInv, TasksOK, WireInv, Start
<1>4. /\ wire' \in Seq(Task) /\ Len(wire') = Len(wire) + 1 /\ wire'[Len(wire) + 1] = t
      /\ \A i \in 1..Len(wire) : wire'[i] = wire[i]
  BY <1>2, <1>3
<1>5. Distinct(wire')
  BY <1>3, <1>4 DEF Distinct
<1>6. \A u \in Task : task'[u] = IF u = t THEN new ELSE task[u]
  BY <1>2 DEF TaskInv, TasksOK
<1> HIDE DEF new
<1>7. WireInv'
  BY <1>2, <1>3, <1>4, <1>5, <1>6 DEF TaskInv, WireInv
<1>8. /\ task' \in [Task -> TaskState]
      /\ \A u \in Task : (Busy(u) => Busy(u)') /\ (Busy(u)' <=> task'[u].c \in Client)
  BY <1>1, <1>2, <1>6 DEF TaskInv, TasksOK, Busy
<1>9. \A i \in 1..Len(wire') : Busy(wire[i])'
  BY <1>1, <1>3, <1>4, <1>6, <1>8 DEF TaskInv, TasksOK, Busy
<1> QED
  BY <1>2, <1>3, <1>4, <1>7, <1>8, <1>9 DEF TaskInv, TasksOK

(* What holds of the handler whose command is the i-th executed.           *)
LEMMA AnsweredTask ==
  ASSUME TaskInv, NEW i \in 1..done
  PROVE  /\ done \in 1..Len(wire) /\ i \in 1..Len(wire) /\ Len(wire) \in Nat
         /\ wire \in Seq(Task) /\ Distinct(wire)
         /\ wire[i] \in Task /\ task[wire[i]] \in TaskState /\ Busy(wire[i])
         /\ task[wire[i]].reply # "pending" /\ task[wire[i]].c \in Client
BY DEF TaskInv, TasksOK, WireInv

(* When the i-th element leaves the executed part of the queue, and the    *)
(* other handlers stay as they are, each command left there is answered.   *)
LEMMA StillAnswered ==
  ASSUME TaskInv, NEW i \in 1..done, NEW s,
         \A j \in 1..(Len(wire) - 1) : s[j] = IF j < i THEN wire[j] ELSE wire[j + 1],
         NEW new, task' = [task EXCEPT ![wire[i]] = new]
  PROVE  \A j \in 1..(done - 1) : task'[s[j]].reply # "pending"
<1> SUFFICES ASSUME NEW j \in 1..(done - 1) PROVE task'[s[j]].reply # "pending"
  OBVIOUS
<1>1. PICK k \in 1..done : k # i /\ s[j] = wire[k]
  <2>1. CASE j < i
    BY <2>1, AnsweredTask
  <2>2. CASE ~ (j < i)
    <3>1. j + 1 \in 1..done /\ j + 1 # i /\ s[j] = wire[j + 1]
      BY <2>2, AnsweredTask
    <3> QED
      BY <3>1
  <2> QED
    BY <2>1, <2>2
<1>2. k \in 1..Len(wire) /\ wire[k] \in Task /\ wire[k] # wire[i]
  BY <1>1, AnsweredTask DEF Distinct
<1>3. task[wire[k]].reply # "pending"
  BY AnsweredTask
<1> QED
  BY <1>1, <1>2, <1>3 DEF TaskInv, TasksOK

(* A handler that goes on moves to the end of the queue.                   *)
LEMMA SendTask ==
  ASSUME TaskInv, NEW i \in 1..done, NEW c \in Client, NEW pc \in PC,
         NEW rest \in SUBSET Client, Send(i, c, pc, rest)
  PROVE  /\ TaskInv'
         /\ task' = [task EXCEPT ![wire[i]] =
                       [op |-> task[wire[i]].op, c |-> c, pc |-> pc,
                        reply |-> "pending", rest |-> rest]]
<1> DEFINE t   == wire[i]
           new == [op |-> task[t].op, c |-> c, pc |-> pc, reply |-> "pending",
                   rest |-> rest]
<1>1. /\ t \in Task /\ task[t] \in TaskState /\ Busy(t) /\ i \in 1..Len(wire)
      /\ done \in 1..Len(wire) /\ wire \in Seq(Task) /\ Distinct(wire)
      /\ Len(wire) \in Nat
  BY AnsweredTask
<1>2. new \in TaskState /\ new.op # "idle" /\ new.c = c
  BY <1>1 DEF TaskState, PC, Reply, Busy
<1>3. task' = [task EXCEPT ![t] = new]
  BY DEF Send
<1>4. done' = done - 1 /\ wire' = Append(RemoveAt(wire, i), wire[i])
  BY DEF Send
<1>5. /\ wire' \in Seq(Task) /\ Distinct(wire') /\ Len(wire') = Len(wire)
      /\ wire'[Len(wire)] = t
      /\ \A j \in 1..(Len(wire) - 1) : wire'[j] = IF j < i THEN wire[j] ELSE wire[j + 1]
  BY <1>1, <1>4, MovedLast
<1>6. \A u \in Task : task'[u] = IF u = t THEN new ELSE task[u]
  BY <1>3 DEF TaskInv, TasksOK
<1> HIDE DEF new
<1>7. WireInv'
  BY <1>3, <1>4, <1>5, StillAnswered DEF WireInv
<1> HIDE DEF t
<1>8. \A u \in Task : (Busy(u) => Busy(u)') /\ (Busy(u)' <=> task'[u].c \in Client)
  BY <1>2, <1>6 DEF TaskInv, TasksOK, Busy
<1>9. \A j \in 1..Len(wire') : Busy(wire[j])'
  <2> SUFFICES ASSUME NEW j \in 1..Len(wire) PROVE \E u \in Task : Busy(u) /\ wire'[j] = u
    BY <1>5, <1>8
  <2>1. \A k \in 1..Len(wire) : wire[k] \in Task /\ Busy(wire[k])
    BY DEF TaskInv, TasksOK
  <2>2. j = Len(wire) \/ j \in 1..(Len(wire) - 1)
    BY <1>1
  <2> QED
    BY <1>1, <1>5, <2>1, <2>2
<1>10. task' \in [Task -> TaskState] /\ done' \in 0..Len(wire')
  BY <1>1, <1>2, <1>3, <1>4, <1>5 DEF TaskInv, TasksOK
<1> QED
  BY <1>3, <1>5, <1>7, <1>8, <1>9, <1>10 DEF TaskInv, TasksOK, t, new

(* A handler that returns leaves the queue.                                *)
LEMMA ReturnTask ==
  ASSUME TaskInv, NEW i \in 1..done, Return(i)
  PROVE  TaskInv'
<1> DEFINE t == wire[i]
<1>1. /\ t \in Task /\ task[t] \in TaskState /\ Busy(t) /\ i \in 1..Len(wire)
      /\ done \in 1..Len(wire) /\ wire \in Seq(Task) /\ Distinct(wire)
      /\ Len(wire) \in Nat
  BY AnsweredTask
<1>2. Idle \in TaskState /\ Idle.op = "idle" /\ Idle.c \notin Client
  BY ClientsAssumption DEF TaskState, Reply, Idle
<1>3. task' = [task EXCEPT ![t] = Idle] /\ done' = done - 1 /\ wire' = RemoveAt(wire, i)
  BY DEF Return
<1>4. /\ wire' \in Seq(Task) /\ Distinct(wire') /\ Len(wire') = Len(wire) - 1
      /\ \A j \in 1..(Len(wire) - 1) : wire'[j] # t
      /\ \A j \in 1..(Len(wire) - 1) : wire'[j] = IF j < i THEN wire[j] ELSE wire[j + 1]
  BY <1>1, <1>3, RemoveAtElements, TakenOut
<1>5. \A u \in Task : task'[u] = IF u = t THEN Idle ELSE task[u]
  BY <1>3 DEF TaskInv, TasksOK
<1>6. WireInv'
  BY <1>3, <1>4, StillAnswered DEF WireInv
<1> HIDE DEF t
<1>7. \A u \in Task : Busy(u)' <=> task'[u].c \in Client
  BY <1>2, <1>5, ClientsAssumption DEF TaskInv, TasksOK, Busy
<1>8. \A j \in 1..Len(wire') : Busy(wire[j])'
  <2> SUFFICES ASSUME NEW j \in 1..(Len(wire) - 1)
               PROVE  \E u \in Task \ {t} : Busy(u) /\ wire'[j] = u
    BY <1>4, <1>5 DEF Busy
  <2>1. \A k \in 1..Len(wire) : wire[k] \in Task /\ Busy(wire[k])
    BY DEF TaskInv, TasksOK
  <2>2. j \in 1..Len(wire) /\ j + 1 \in 1..Len(wire)
    BY <1>1
  <2> QED
    BY <1>4, <2>1, <2>2
<1>9. task' \in [Task -> TaskState] /\ done' \in 0..Len(wire')
  BY <1>1, <1>2, <1>3, <1>4 DEF TaskInv, TasksOK
<1> QED
  BY <1>4, <1>6, <1>7, <1>8, <1>9 DEF TaskInv, TasksOK

(* Redis executes the next command.                                        *)
LEMMA ExecTask ==
  ASSUME TaskInv, done < Len(wire), NEW r \in Reply \ {"pending"},
         task' = [task EXCEPT ![wire[done + 1]].reply = r],
         done' = done + 1, wire' = wire
  PROVE  /\ TaskInv'
         /\ wire[done + 1] \in Task /\ Busy(wire[done + 1])
         /\ task[wire[done + 1]] \in TaskState
         /\ \A u \in Task : task'[u] =
              IF u = wire[done + 1]
              THEN [op |-> task[u].op, c |-> task[u].c, pc |-> task[u].pc,
                    reply |-> r, rest |-> task[u].rest]
              ELSE task[u]
<1> DEFINE t   == wire[done + 1]
           new == [op |-> task[t].op, c |-> task[t].c, pc |-> task[t].pc,
                   reply |-> r, rest |-> task[t].rest]
<1>1. /\ Len(wire) \in Nat /\ done \in 0..Len(wire) /\ done + 1 \in 1..Len(wire)
      /\ t \in Task /\ Busy(t) /\ task[t] \in TaskState /\ wire \in Seq(Task)
      /\ Distinct(wire)
  BY DEF TaskInv, TasksOK, WireInv
<1>2. new \in TaskState /\ new.op = task[t].op /\ new.c = task[t].c /\ new.reply = r
  BY <1>1 DEF TaskState
<1>3. [task[t] EXCEPT !.reply = r] = new
  BY <1>1 DEF TaskState
<1>4. \A u \in Task : task'[u] = IF u = t THEN new ELSE task[u]
  BY <1>1, <1>3 DEF TaskInv, TasksOK
<1>5. task' \in [Task -> TaskState]
  BY <1>1, <1>2, <1>3 DEF TaskInv, TasksOK
<1> HIDE DEF new
<1>6. \A j \in 1..(done + 1) : task'[wire[j]].reply # "pending"
  <2> SUFFICES ASSUME NEW j \in 1..(done + 1) PROVE task'[wire[j]].reply # "pending"
    OBVIOUS
  <2>1. wire[j] \in Task
    BY <1>1
  <2>2. CASE wire[j] = t
    BY <1>1, <1>2, <1>4, <2>2
  <2>3. CASE wire[j] # t
    <3>1. j \in 1..done
      BY <1>1, <2>3
    <3> QED
      BY <1>4, <2>1, <2>3, <3>1 DEF TaskInv, WireInv
  <2> QED
    BY <2>2, <2>3
<1>7. \A u \in Task : /\ Busy(u) => Busy(u)'
                      /\ Busy(u)' <=> task'[u].c \in Client
  <2> HIDE DEF t
  <2> QED
    BY <1>2, <1>4 DEF TaskInv, TasksOK, Busy
<1>8. TasksOK'
  BY <1>1, <1>5, <1>7 DEF TaskInv, TasksOK
<1> QED
  BY <1>1, <1>4, <1>6, <1>8 DEF TaskInv, WireInv, new

-----------------------------------------------------------------------------
(* The handlers that go on, with their queue operations expanded: "me" is  *)
(* the handler before the step and "new" after it.                         *)

Onward(me, new, c, pc, rest) ==
  new = [op |-> me.op, c |-> c, pc |-> pc, reply |-> "pending", rest |-> rest]

Went(me, new, pc) == Onward(me, new, me.c, pc, me.rest)

RegisterCase(me, new) ==
  /\ me.op = "register"
  /\ \/ /\ \/ me.pc = "hSet" /\ Went(me, new, "expire")
           \/ me.pc = "expire" /\ Went(me, new, "addAll")
           \/ me.pc = "addAll" /\ Went(me, new, "addCasual")
           \/ me.pc = "saveRep" /\ new = Idle
        /\ UNCHANGED <<registered, scored>>
     \/ /\ me.pc = "addCasual" /\ registered' = registered \cup {me.c}
        /\ \/ Went(me, new, "loadRep") /\ scored' = scored
           \/ new = Idle /\ scored' = scored \cup {me.c}
     \/ /\ me.pc = "loadRep" /\ registered' = registered
        /\ scored' = scored \cup {me.c}
        /\ new = Idle \/ Went(me, new, "saveRep")
  /\ UNCHANGED <<cached, links, notices, past>>

HeartbeatCase(me, new) ==
  /\ me.op = "heartbeat" /\ me.pc = "refresh"
  /\ \/ Went(me, new, "getPeer") /\ UNCHANGED <<registered, past>>
     \/ /\ new = Idle
        /\ registered' = registered \ {me.c} /\ Mark({me.c}, "lapsed")
  /\ UNCHANGED <<cached, scored, links, notices>>

ClassifyCase(me, new) ==
  /\ me.op \in {"heartbeat", "sweep"}
  /\ \/ /\ me.pc = "getPeer"
        /\ \/ ShouldPromote(me.c, me.reply) /\ Went(me, new, "setSuper")
           \/ ShouldDemote(me.c, me.reply) /\ Went(me, new, "setCasual")
     \/ me.pc = "setSuper" /\ Went(me, new, "remCasual")
     \/ me.pc = "remCasual" /\ Went(me, new, "addSuper")
     \/ me.pc = "setCasual" /\ Went(me, new, "remSuper")
     \/ me.pc = "remSuper" /\ Went(me, new, "readdCasual")
     \/ /\ me.pc \in {"getPeer", "addSuper", "readdCasual"}
        /\ \/ new = Idle
           \/ \E c \in me.rest : Onward(me, new, c, "getPeer", me.rest \ {c})
  /\ UNCHANGED <<registered, cached, scored, links, notices, past>>

DisconnectCase(me, new) ==
  /\ me.op = "disconnect"
  /\ \/ /\ me.pc = "dcGet" /\ Went(me, new, "dcDel")
        /\ \/ NotifyOrphans(me.c) /\ links' = HandleSuperPeerDisconnect(links, me.c)
           \/ UNCHANGED <<notices, links>>
        /\ UNCHANGED <<registered, cached, scored>>
     \/ /\ \/ me.pc = "dcDel" /\ Went(me, new, "dcRemAll")
           \/ me.pc = "dcRemAll" /\ Went(me, new, "dcRemSuper")
           \/ me.pc = "dcRemSuper" /\ Went(me, new, "dcRemCasual")
        /\ UNCHANGED <<registered, cached, scored, links, notices>>
     \/ /\ me.pc = "dcRemCasual" /\ new = Idle
        /\ cached' = cached \ {me.c} /\ scored' = scored \ {me.c}
        /\ links' = CleanupPeerConnections(links, me.c)
        /\ registered' = registered \ {me.c} /\ UNCHANGED notices
  /\ UNCHANGED past

ResumeCase(me, new) == \/ RegisterCase(me, new) \/ HeartbeatCase(me, new)
                       \/ ClassifyCase(me, new) \/ DisconnectCase(me, new)

(* The order of the commands of promotePeer, demotePeer and removePeer.    *)
LEMMA NextCommands ==
  /\ NextCommand["setSuper"] = "remCasual" /\ NextCommand["remCasual"] = "addSuper"
  /\ NextCommand["setCasual"] = "remSuper" /\ NextCommand["remSuper"] = "readdCasual"
  /\ NextCommand["dcDel"] = "dcRemAll" /\ NextCommand["dcRemAll"] = "dcRemSuper"
  /\ NextCommand["dcRemSuper"] = "dcRemCasual"
BY DEF NextCommand

(* Every step of Resume is one of these cases.                             *)
LEMMA ResumeCases ==
  ASSUME TaskInv, NEW i \in Nat \ {0}, Resume(i)
  PROVE  /\ TaskInv' /\ UNCHANGED <<up, sock, hash, sets>>
         /\ \E t \in Task, new \in TaskState :
              /\ Busy(t) /\ task[t].reply # "pending" /\ task[t].c \in Client
              /\ task[t] \in TaskState
              /\ task' = [task EXCEPT ![t] = new]
              /\ ResumeCase(task[t], new)
<1> DEFINE t  == wire[i]
           me == task[t]
<1>1. done \in Nat /\ i \in 1..done /\ UNCHANGED <<up, sock, hash, sets>>
  BY DEF Resume, TaskInv, TasksOK, storeVars
<1>2. t \in Task /\ me \in TaskState /\ Busy(t) /\ me.reply # "pending" /\ me.c \in Client
      /\ me.rest \in SUBSET Client
  BY <1>1, AnsweredTask DEF TaskState
<1>3. ASSUME NEW c \in Client, NEW pc \in PC, NEW rest \in SUBSET Client,
             Send(i, c, pc, rest)
      PROVE  TaskInv' /\ \E new \in TaskState : /\ task' = [task EXCEPT ![t] = new]
                                               /\ Onward(me, new, c, pc, rest)
  <2>1. TaskInv' /\ task' = [task EXCEPT ![t] = [op |-> me.op, c |-> c, pc |-> pc,
                                       reply |-> "pending", rest |-> rest]]
    BY <1>1, <1>3, SendTask
  <2>2. [op |-> me.op, c |-> c, pc |-> pc, reply |-> "pending", rest |-> rest]
          \in TaskState
    BY <1>2 DEF TaskState, PC, Reply
  <2> QED
    BY <2>1, <2>2 DEF Onward
<1>4. ASSUME NEW pc \in PC, Await(i, pc)
      PROVE  TaskInv' /\ \E new \in TaskState : /\ task' = [task EXCEPT ![t] = new]
                                               /\ Went(me, new, pc)
  BY <1>2, <1>3, <1>4 DEF Await, Went
<1>5. ASSUME Return(i)
      PROVE  TaskInv' /\ \E new \in TaskState : /\ task' = [task EXCEPT ![t] = new]
                                               /\ new = Idle
  <2>1. Idle \in TaskState
    BY DEF Idle, TaskState, Reply
  <2> QED
    BY <1>1, <1>5, <2>1, ReturnTask DEF Return
<1> HIDE DEF t
<1>6. CASE RegisterStep(i) /\ UNCHANGED <<notices, past>>
  <2> USE <1>6 DEF t
  <2>1. TaskInv' /\ \E new \in TaskState : /\ task' = [task EXCEPT ![t] = new]
                                          /\ RegisterCase(me, new)
    <3>1. CASE Answered(i, "register", "hSet") /\ Await(i, "expire") /\ UNCHANGED memVars
      BY <1>4, <3>1 DEF Answered, RegisterCase, memVars, PC, RegisterPC
    <3>2. CASE Answered(i, "register", "expire") /\ Await(i, "addAll") /\ UNCHANGED memVars
      BY <1>4, <3>2 DEF Answered, RegisterCase, memVars, PC, RegisterPC
    <3>3. CASE Answered(i, "register", "addAll") /\ Await(i, "addCasual") /\ UNCHANGED memVars
      BY <1>4, <3>3 DEF Answered, RegisterCase, memVars, PC, RegisterPC
    <3>4. CASE /\ Answered(i, "register", "addCasual")
               /\ registered' = registered \cup {me.c}
               /\ UNCHANGED <<cached, links>>
               /\ Await(i, "loadRep") /\ UNCHANGED scored
      BY <1>4, <3>4 DEF Answered, RegisterCase, PC, RegisterPC
    <3>5. CASE /\ Answered(i, "register", "addCasual")
               /\ registered' = registered \cup {me.c}
               /\ UNCHANGED <<cached, links>>
               /\ Return(i) /\ scored' = scored \cup {me.c}
      BY <1>5, <3>5 DEF Answered, RegisterCase
    <3>6. CASE /\ Answered(i, "register", "loadRep") /\ scored' = scored \cup {me.c}
               /\ UNCHANGED <<registered, cached, links>> /\ Return(i)
      BY <1>5, <3>6 DEF Answered, RegisterCase
    <3>7. CASE /\ Answered(i, "register", "loadRep") /\ scored' = scored \cup {me.c}
               /\ UNCHANGED <<registered, cached, links>> /\ Await(i, "saveRep")
      BY <1>4, <3>7 DEF Answered, RegisterCase, PC, RegisterPC
    <3>8. CASE Answered(i, "register", "saveRep") /\ Return(i) /\ UNCHANGED memVars
      BY <1>5, <3>8 DEF Answered, RegisterCase, memVars
    <3> QED
      BY <3>1, <3>2, <3>3, <3>4, <3>5, <3>6, <3>7, <3>8 DEF RegisterStep
  <2> QED
    BY <1>1, <1>2, <2>1 DEF ResumeCase
<1>7. CASE HeartbeatStep(i) /\ UNCHANGED notices
  <2> USE <1>7 DEF t
  <2>1. TaskInv' /\ \E new \in TaskState : /\ task' = [task EXCEPT ![t] = new]
                                          /\ HeartbeatCase(me, new)
    <3>1. CASE Await(i, "getPeer") /\ UNCHANGED <<registered, past>>
      BY <1>4, <3>1 DEF HeartbeatStep, Answered, HeartbeatCase, PC, ClassifyPC
    <3>2. CASE Return(i) /\ registered' = registered \ {me.c} /\ Mark({me.c}, "lapsed")
      BY <1>5, <3>2 DEF HeartbeatStep, Answered, HeartbeatCase
    <3> QED
      BY <3>1, <3>2 DEF HeartbeatStep
  <2> QED
    BY <1>1, <1>2, <2>1 DEF ResumeCase
<1>8. CASE ClassifyStep(i) /\ UNCHANGED <<memVars, notices, past>>
  <2> USE <1>8 DEF t
  <2>1. TaskInv' /\ \E new \in TaskState : /\ task' = [task EXCEPT ![t] = new]
                                          /\ ClassifyCase(me, new)
    <3> USE DEF ClassifyCase, memVars, PC, ClassifyPC, PromotePC, DemotePC
    <3>1. CASE me.pc = "getPeer" /\ ShouldPromote(me.c, me.reply) /\ Await(i, "setSuper")
      BY <1>4, <3>1 DEF ClassifyStep
    <3>2. CASE me.pc = "getPeer" /\ ShouldDemote(me.c, me.reply) /\ Await(i, "setCasual")
      BY <1>4, <3>2 DEF ClassifyStep
    <3>3. CASE me.pc = "setSuper" /\ Await(i, "remCasual")
      BY <1>4, <3>3 DEF ClassifyStep
    <3>4. CASE me.pc = "remCasual" /\ Await(i, "addSuper")
      BY <1>4, <3>4 DEF ClassifyStep
    <3>5. CASE me.pc = "setCasual" /\ Await(i, "remSuper")
      BY <1>4, <3>5 DEF ClassifyStep
    <3>6. CASE me.pc = "remSuper" /\ Await(i, "readdCasual")
      BY <1>4, <3>6 DEF ClassifyStep
    <3>7. CASE me.pc \in {"getPeer", "addSuper", "readdCasual"} /\ EndClassify(i)
      <4>1. CASE Return(i)
        BY <1>5, <3>7, <4>1 DEF ClassifyStep
      <4>2. CASE \E c \in me.rest : Send(i, c, "getPeer", me.rest \ {c})
        <5>1. PICK c \in me.rest : Send(i, c, "getPeer", me.rest \ {c})
          BY <4>2
        <5>2. PICK rest \in SUBSET Client : rest = me.rest \ {c}
          BY <1>2
        <5>3. TaskInv' /\ \E new \in TaskState : /\ task' = [task EXCEPT ![t] = new]
                                                /\ Onward(me, new, c, "getPeer", rest)
          BY <1>2, <1>3, <5>1, <5>2
        <5> QED
          BY <3>7, <5>2, <5>3 DEF ClassifyStep
      <4> QED
        BY <3>7, <4>1, <4>2 DEF EndClassify
    <3> QED
      BY <3>1, <3>2, <3>3, <3>4, <3>5, <3>6, <3>7, NextCommands DEF ClassifyStep
  <2> QED
    BY <1>1, <1>2, <2>1 DEF ResumeCase
<1>9. CASE DisconnectStep(i) /\ UNCHANGED past
  <2> USE <1>9 DEF t
  <2>1. TaskInv' /\ \E new \in TaskState : /\ task' = [task EXCEPT ![t] = new]
                                          /\ DisconnectCase(me, new)
    <3> USE DEF DisconnectCase, memVars, PC, DisconnectPC
    <3>1. CASE me.pc = "dcGet" /\ Await(i, "dcDel")
      BY <1>4, <3>1 DEF DisconnectStep
    <3>2. CASE me.pc = "dcDel" /\ Await(i, "dcRemAll")
      BY <1>4, <3>2 DEF DisconnectStep
    <3>3. CASE me.pc = "dcRemAll" /\ Await(i, "dcRemSuper")
      BY <1>4, <3>3 DEF DisconnectStep
    <3>4. CASE me.pc = "dcRemSuper" /\ Await(i, "dcRemCasual")
      BY <1>4, <3>4 DEF DisconnectStep
    <3>5. CASE me.pc = "dcRemCasual" /\ Return(i)
      BY <1>5, <3>5 DEF DisconnectStep
    <3> QED
      BY <3>1, <3>2, <3>3, <3>4, <3>5, NextCommands DEF DisconnectStep
  <2> QED
    BY <1>1, <1>2, <2>1 DEF ResumeCase
<1> QED
  BY <1>6, <1>7, <1>8, <1>9 DEF Resume

-----------------------------------------------------------------------------
(* The steps of the other actions on the tasks.                            *)

(* An action that starts a handler: t is its slot.                         *)
Starts(t, op, c, pc, rest) ==
  /\ ~ Busy(t) /\ op # "idle"
  /\ task' = [task EXCEPT ![t] = [op |-> op, c |-> c, pc |-> pc,
                                  reply |-> "pending", rest |-> rest]]

(* Start, with the invariant of the queue kept.                            *)
LEMMA StartCase ==
  ASSUME TaskInv, NEW t \in Task, NEW op \in Op, NEW c \in Client,
         NEW pc \in PC, NEW rest \in SUBSET Client, Start(t, op, c, pc, rest)
  PROVE  TaskInv' /\ Starts(t, op, c, pc, rest)
BY StartTask DEF Start, Starts, Op

(* SocketError and SocketClose.                                            *)
LEMMA LeaveCases ==
  ASSUME TaskInv, NEW c \in Client, SocketError(c) \/ SocketClose(c)
  PROVE  /\ TaskInv' /\ MarkRaces(c) /\ sock[c] # "new"
         /\ sock' = [sock EXCEPT ![c] = "errored"] \/ sock' = [sock EXCEPT ![c] = "closed"]
         /\ UNCHANGED <<up, registered, cached, scored, links, hash, sets, notices>>
         /\ \/ UNCHANGED task
            \/ \E t \in Task : Starts(t, "disconnect", c, "dcGet", {})
<1>1. /\ HandleDisconnect(c) /\ MarkRaces(c) /\ sock[c] # "new"
      /\ UNCHANGED <<up, memVars, storeVars, notices>>
  BY DEF SocketError, SocketClose
<1>2. sock' = [sock EXCEPT ![c] = "errored"] \/ sock' = [sock EXCEPT ![c] = "closed"]
  BY DEF SocketError, SocketClose
<1>3. CASE UNCHANGED taskVars
  <2>1. TaskInv'
    BY <1>3 DEF taskVars, TaskInv, TasksOK, WireInv, Distinct, Busy
  <2> QED
    BY <1>1, <1>2, <1>3, <2>1 DEF memVars, storeVars, taskVars
<1>4. CASE \E t \in Task : Start(t, "disconnect", c, "dcGet", {})
  <2>1. TaskInv' /\ \E t \in Task : Starts(t, "disconnect", c, "dcGet", {})
    BY <1>4, StartCase DEF Op, PC, DisconnectPC
  <2> QED
    BY <1>1, <1>2, <2>1 DEF memVars, storeVars
<1> QED
  BY <1>1, <1>3, <1>4 DEF HandleDisconnect

(* Register and Heartbeat.                                                 *)
LEMMA MessageCases ==
  ASSUME TaskInv, NEW c \in Client, Register(c) \/ Heartbeat(c)
  PROVE  /\ TaskInv' /\ sock[c] = "open"
         /\ UNCHANGED <<up, sock, registered, cached, scored, links, hash, sets, notices>>
         /\ Mark({c}, "register") \/ Mark({c}, "again") \/ UNCHANGED past
         /\ \E t \in Task : \/ Starts(t, "register", c, "hSet", {})
                            \/ Starts(t, "heartbeat", c, "refresh", {})
BY StartCase DEF Register, Heartbeat, Op, PC, RegisterPC, memVars, storeVars

(* A sweep starts: every client it will serve is registered.               *)
LEMMA SweepCase ==
  ASSUME TaskInv, registered \subseteq Client, ClassifyAllPeers
  PROVE  /\ TaskInv'
         /\ UNCHANGED <<up, sock, registered, cached, scored, links, hash, sets, notices>>
         /\ Mark({c \in registered : sock[c] # "open"}, "raced_classify")
         /\ \E t \in Task, c \in registered :
              Starts(t, "sweep", c, "getPeer", registered \ {c})
<1>1. PICK t \in Task, c \in registered :
        Start(t, "sweep", c, "getPeer", registered \ {c})
  BY DEF ClassifyAllPeers
<1>2. PICK rest \in SUBSET Client : rest = registered \ {c}
  OBVIOUS
<1>3. TaskInv' /\ Starts(t, "sweep", c, "getPeer", rest)
  BY <1>1, <1>2, StartCase DEF Op, PC, ClassifyPC
<1> QED
  BY <1>2, <1>3 DEF ClassifyAllPeers, memVars, storeVars

(* Redis executes the command of the handler t.                            *)
Executes(t, r) ==
  /\ Busy(t) /\ task[t].c \in Client /\ task[t] \in TaskState
  /\ Execute(task[t].c, task[t].pc) /\ r \in Answer(task[t].c, task[t].pc)
  /\ task' = [task EXCEPT ![t] = [op |-> task[t].op, c |-> task[t].c, pc |-> task[t].pc,
                                  reply |-> r, rest |-> task[t].rest]]

(* RedisExec executes the command of one handler and answers it.           *)
LEMMA ExecCase ==
  ASSUME TaskInv, StoreTypeOK, RedisExec
  PROVE  /\ TaskInv'
         /\ UNCHANGED <<up, sock, registered, cached, scored, links, notices, past>>
         /\ \E t \in Task, r \in Reply \ {"pending"} : Executes(t, r)
<1> DEFINE t == wire[done + 1]
<1>1. t \in Task /\ Busy(t) /\ task[t].c \in Client
  BY DEF RedisExec, TaskInv, TasksOK
<1>2. PICK r \in Answer(task[t].c, task[t].pc) : task' = [task EXCEPT ![t].reply = r]
  BY DEF RedisExec
<1>3. hash[task[t].c].status \in {"none", "casual", "super"}
  BY <1>1 DEF StoreTypeOK, Status
<1>4. r \in Reply \ {"pending"}
  BY <1>2, <1>3 DEF Answer, Reply
<1>5. /\ TaskInv' /\ task[t] \in TaskState
      /\ \A u \in Task : task'[u] =
           IF u = t THEN [op |-> task[u].op, c |-> task[u].c, pc |-> task[u].pc,
                          reply |-> r, rest |-> task[u].rest]
           ELSE task[u]
  BY <1>2, <1>4, ExecTask DEF RedisExec
<1>6. task \in [Task -> TaskState] /\ task' \in [Task -> TaskState]
  BY <1>5 DEF TaskInv, TasksOK
<1>7. task' = [task EXCEPT ![t] = [op |-> task[t].op, c |-> task[t].c,
                                   pc |-> task[t].pc, reply |-> r,
                                   rest |-> task[t].rest]]
  <2> HIDE DEF t
  <2> QED
    BY <1>1, <1>5, <1>6
<1>8. Execute(task[t].c, task[t].pc)
  BY DEF RedisExec
<1> QED
  BY <1>1, <1>2, <1>4, <1>5, <1>7, <1>8 DEF Executes, RedisExec, memVars

(* Every task is dropped: the connection to Redis breaks or the process    *)
(* ends.                                                                   *)
LEMMA DropCases ==
  ASSUME RedisFault \/ Crash
  PROVE  /\ TaskInv' /\ task' = [t \in Task |-> Idle] /\ UNCHANGED <<hash, sets, notices>>
         /\ \/ ForgetAll
            \/ UNCHANGED <<up, sock, registered, cached, scored, links>>
         /\ \/ Mark({c \in Client : \E t \in Task : task[t].c = c}, "fault")
            \/ UNCHANGED past /\ ForgetAll
<1>1. task' = [t \in Task |-> Idle] /\ wire' = << >> /\ done' = 0
  BY DEF RedisFault, Crash, DropTasks
<1>2. Idle \in TaskState
  BY DEF Idle, TaskState, Reply
<1>3. TaskInv'
  BY <1>1, <1>2, ClientsAssumption DEF TaskInv, TasksOK, WireInv, Distinct, Busy, Idle
<1> QED
  BY <1>1, <1>3 DEF RedisFault, Crash, memVars, storeVars, Serving

(* The steps that start, serve or drop no handler.                         *)
QuietStep ==
  \/ \E c \in Client : Connect(c) \/ CacheHave(c) \/ Stats(c) \/ Expire(c)
  \/ \E c \in Client : \E remote \in Client : P2PConnected(c, remote)
  \/ Broadcast \/ PruneOldEvents \/ Restart \/ UNCHANGED vars

(* The quiet steps leave the handlers and their queue as they are.         *)
LEMMA QuietTasks == TaskInv /\ QuietStep => TaskInv' /\ UNCHANGED task
BY DEF QuietStep, Connect, CacheHave, Stats, Expire, P2PConnected, Broadcast,
       PruneOldEvents, Restart, vars, taskVars, TaskInv, TasksOK, WireInv, Distinct, Busy

(* Every step is one of the above.                                         *)
LEMMA NextCases ==
  ASSUME [Next]_vars
  PROVE  \/ QuietStep
         \/ \E c \in Client : SocketError(c) \/ SocketClose(c)
         \/ \E c \in Client : Register(c) \/ Heartbeat(c)
         \/ ClassifyAllPeers
         \/ RedisExec
         \/ \E i \in Nat \ {0} : Resume(i)
         \/ RedisFault \/ Crash
BY RegistryAssumption DEF Next, ClientStep, ServerStep, FailureStep, QuietStep

(* The invariant of the queue is kept by every step.                       *)
LEMMA TaskInvStep == TaskInv /\ DataOK /\ [Next]_vars => TaskInv'
<1> SUFFICES ASSUME TaskInv, DataOK, [Next]_vars PROVE TaskInv'
  OBVIOUS
<1>1. registered \subseteq Client /\ StoreTypeOK
  BY DEF DataOK
<1> QED
  BY <1>1, NextCases, QuietTasks, LeaveCases, MessageCases, SweepCase, ExecCase,
     ResumeCases, DropCases

-----------------------------------------------------------------------------
(* What a command does to the keys: the hash of one client or one set.     *)

HashSet(c, status, full, ttl) ==
  /\ hash' = [hash EXCEPT ![c] = [status |-> status, full |-> full, ttl |-> ttl]]
  /\ sets' = sets

ExecuteCase(c, pc) ==
  \/ pc = "hSet" /\ HashSet(c, "casual", TRUE, hash[c].ttl)
  \/ /\ pc \in {"expire", "refresh"}
     /\ HashSet(c, hash[c].status, hash[c].full, Exists(c))
  \/ pc = "addAll" /\ SAdd("all", c)
  \/ pc \in {"addCasual", "readdCasual"} /\ SAdd("casual", c)
  \/ pc = "addSuper" /\ SAdd("super", c)
  \/ pc = "setSuper" /\ HashSet(c, "super", hash[c].full, hash[c].ttl)
  \/ pc = "setCasual" /\ HashSet(c, "casual", hash[c].full, hash[c].ttl)
  \/ pc = "dcDel" /\ HashSet(c, "none", FALSE, FALSE)
  \/ pc = "dcRemAll" /\ SRem("all", c)
  \/ pc \in {"remSuper", "dcRemSuper"} /\ SRem("super", c)
  \/ pc \in {"remCasual", "dcRemCasual"} /\ SRem("casual", c)
  \/ pc \in {"getPeer", "dcGet", "loadRep", "saveRep"} /\ hash' = hash /\ sets' = sets

(* Execute is one of these cases, and keeps the types of the keys.         *)
LEMMA StoreCases ==
  ASSUME StoreTypeOK, NEW c \in Client, NEW pc, Execute(c, pc)
  PROVE  ExecuteCase(c, pc) /\ StoreTypeOK'
<1>1. hash[c] \in [status : Status \cup {"none"}, full : BOOLEAN, ttl : BOOLEAN]
  BY DEF StoreTypeOK
<1>2. ASSUME NEW s \in Status, HSetStatus(c, s)
      PROVE  HashSet(c, s, hash[c].full, hash[c].ttl)
  <2>1. [hash[c] EXCEPT !.status = s] = [status |-> s, full |-> hash[c].full,
                                         ttl |-> hash[c].ttl]
    BY <1>1
  <2> QED
    BY <1>2, <2>1 DEF HSetStatus, HashSet, StoreTypeOK
<1>3. HSetPeer(c) => HashSet(c, "casual", TRUE, hash[c].ttl)
  BY <1>1 DEF HSetPeer, HashSet, StoreTypeOK
<1>4. ASSUME ExpireKey(c)
      PROVE  HashSet(c, hash[c].status, hash[c].full, Exists(c))
  <2>1. ASSUME NEW b \in BOOLEAN
        PROVE  [hash[c] EXCEPT !.ttl = b] = [status |-> hash[c].status,
                                             full |-> hash[c].full, ttl |-> b]
    BY <1>1
  <2>2. Exists(c) \in BOOLEAN
    BY DEF Exists
  <2> QED
    BY <1>4, <2>1, <2>2 DEF ExpireKey, HashSet, StoreTypeOK
<1>5. Del(c) => HashSet(c, "none", FALSE, FALSE)
  BY DEF Del, HashSet, NoHash
<1>6. ExecuteCase(c, pc)
  BY <1>2, <1>3, <1>4, <1>5 DEF Execute, ExecuteCase, Status, storeVars
<1>7. ASSUME NEW s \in Status \cup {"none"}, NEW full \in BOOLEAN, NEW ttl \in BOOLEAN,
             HashSet(c, s, full, ttl)
      PROVE  StoreTypeOK'
  BY <1>7 DEF HashSet, StoreTypeOK
<1>8. Exists(c) \in BOOLEAN
  BY DEF Exists
<1>9. ASSUME NEW s \in SetName, SAdd(s, c) \/ SRem(s, c) PROVE StoreTypeOK'
  BY <1>9 DEF SAdd, SRem, StoreTypeOK
<1>10. hash' = hash /\ sets' = sets => StoreTypeOK'
  BY DEF StoreTypeOK
<1> QED
  BY <1>1, <1>6, <1>7, <1>8, <1>9, <1>10 DEF ExecuteCase, Status, SetName

-----------------------------------------------------------------------------
(* Each part of the invariant is kept by every step.                       *)

(* The connection maps change by the operations of connections.ts alone.   *)
LEMMA ConnInvStep ==
  ASSUME TaskInv, DataOK, ConnInv(links), [Next]_vars
  PROVE  ConnInv(links)'
<1>1. CASE QuietStep
  <2>1. \/ links' = links
        \/ \E c \in Client, remote \in Client : links' = RegisterConnection(links, c, remote)
    BY <1>1 DEF QuietStep, Connect, CacheHave, Stats, Expire, P2PConnected, Broadcast,
                PruneOldEvents, Restart, vars, memVars
  <2> QED
    BY <2>1, RegisterConnectionInv DEF ConnInv, ConnType
<1>2. CASE \E i \in Nat \ {0} : Resume(i)
  <2>. PICK t \in Task, new \in TaskState :
          task[t].c \in Client /\ ResumeCase(task[t], new)
    BY <1>2, ResumeCases
  <2>1. \/ links' = links
        \/ \E c \in Client : \/ links' = HandleSuperPeerDisconnect(links, c)
                            \/ links' = CleanupPeerConnections(links, c)
    BY DEF ResumeCase, RegisterCase, HeartbeatCase, ClassifyCase,
                             DisconnectCase
  <2> QED
    BY <2>1, HandleSuperPeerDisconnectInv, CleanupPeerConnectionsInv DEF ConnInv, ConnType
<1>3. CASE RedisFault \/ Crash
  <2>1. links' = links \/ links' = NoLinks
    BY <1>3, DropCases DEF ForgetAll
  <2> QED
    BY <2>1, NoLinksInv DEF ConnInv, ConnType
<1>4. CASE links' = links
  BY <1>4 DEF ConnInv, ConnType
<1>5. registered \subseteq Client /\ StoreTypeOK
  BY DEF DataOK
<1> QED
  BY <1>1, <1>2, <1>3, <1>4, <1>5, NextCases, LeaveCases, MessageCases, SweepCase, ExecCase

(* The history marks are those of the type.                                *)
LEMMA MarkType ==
  ASSUME DataOK, NEW S,
         NEW e \in {"register", "again", "lapsed", "fault", "raced_register", "raced_classify"},
         Mark(S, e)
  PROVE  /\ past' \in [Client -> SUBSET {"register", "again", "lapsed", "fault",
                                         "raced_register", "raced_classify"}]
         /\ \A c \in Client : past[c] \subseteq past'[c] /\ (c \in S => e \in past'[c])
BY DEF Mark, DataOK

(* The types are kept; notices stay in range because ToldInv bounds them.  *)
LEMMA DataOKStep ==
  ASSUME TaskInv, DataOK, ConnInv(links), ToldInv, [Next]_vars
  PROVE  DataOK'
<1> DEFINE SockType == [Client -> {"new", "open", "errored", "closed", "lost"}]
           PastType == [Client -> SUBSET {"register", "again", "lapsed", "fault",
                                          "raced_register", "raced_classify"}]
<1>1. links' \in ConnType
  BY ConnInvStep DEF ConnInv
<1>2. CASE QuietStep
  <2>1. StoreTypeOK'
    <3>1. CASE \E c \in Client : Expire(c)
      BY <3>1 DEF Expire, KeyExpires, Del, NoHash, DataOK, StoreTypeOK, Status
    <3>2. CASE Restart
      BY <3>2 DEF Restart, CleanupStaleSets, DataOK, StoreTypeOK
    <3>3. CASE UNCHANGED storeVars
      BY <3>3 DEF storeVars, DataOK, StoreTypeOK
    <3> QED
      BY <1>2, <3>1, <3>2, <3>3 DEF QuietStep, Connect, CacheHave, Stats, P2PConnected,
         Broadcast, PruneOldEvents, vars, storeVars
  <2>2. sock' \in SockType /\ up' \in BOOLEAN /\ past' = past /\ notices' = notices
    BY <1>2 DEF QuietStep, Connect, CacheHave, Stats, Expire, P2PConnected, Broadcast,
       PruneOldEvents, Restart, vars, DataOK
  <2>3. registered' = registered /\ cached' \subseteq Client /\ scored' \subseteq Client
    BY <1>2 DEF QuietStep, Connect, CacheHave, Stats, Expire, P2PConnected, Broadcast,
       PruneOldEvents, Restart, vars, memVars, DataOK
  <2> QED
    BY <1>1, <2>1, <2>2, <2>3 DEF DataOK
<1>3. CASE \E c \in Client : SocketError(c) \/ SocketClose(c)
  <2>1. PICK c \in Client : SocketError(c) \/ SocketClose(c)
    BY <1>3
  <2>2. past' \in PastType
    BY <2>1, LeaveCases DEF MarkRaces, DataOK
  <2> QED
    BY <1>1, <2>1, <2>2, LeaveCases DEF DataOK, StoreTypeOK
<1>4. CASE \E c \in Client : Register(c) \/ Heartbeat(c)
  <2>1. past' \in PastType
    BY <1>4, MessageCases, MarkType DEF DataOK
  <2> QED
    BY <1>1, <1>4, <2>1, MessageCases DEF DataOK, StoreTypeOK
<1>5. CASE ClassifyAllPeers
  <2>1. past' \in PastType
    BY <1>5, SweepCase, MarkType DEF DataOK
  <2> QED
    BY <1>1, <1>5, <2>1, SweepCase DEF DataOK, StoreTypeOK
<1>6. CASE RedisExec
  <2>1. PICK t \in Task, r \in Reply \ {"pending"} : Executes(t, r)
    BY <1>6, ExecCase DEF DataOK
  <2>2. StoreTypeOK'
    BY <2>1, StoreCases DEF Executes, DataOK
  <2> QED
    BY <1>1, <1>6, <2>2, ExecCase DEF DataOK
<1>7. CASE \E i \in Nat \ {0} : Resume(i)
  <2>1. PICK t \in Task, new \in TaskState :
          task[t].c \in Client /\ ResumeCase(task[t], new)
    BY <1>7, ResumeCases
  <2>2. past' \in PastType
    BY <2>1, MarkType DEF DataOK, ResumeCase, RegisterCase, HeartbeatCase, ClassifyCase,
                          DisconnectCase
  <2>3. notices' \in [Client \X Client -> 0..2]
    BY <2>1 DEF DataOK, ResumeCase, RegisterCase, HeartbeatCase, ClassifyCase,
                DisconnectCase, NotifyOrphans
  <2>4. registered' \subseteq Client /\ cached' \subseteq Client /\ scored' \subseteq Client
    BY <2>1 DEF DataOK, ResumeCase, RegisterCase, HeartbeatCase, ClassifyCase, DisconnectCase
  <2> QED
    BY <1>1, <1>7, <2>2, <2>3, <2>4, ResumeCases DEF DataOK, StoreTypeOK
<1>8. CASE RedisFault \/ Crash
  <2>1. past' \in PastType
    BY <1>8, DropCases, MarkType DEF DataOK
  <2>2. /\ up' \in BOOLEAN /\ sock' \in SockType
        /\ registered' \subseteq Client /\ cached' \subseteq Client /\ scored' \subseteq Client
    BY <1>8, DropCases DEF DataOK, ForgetAll
  <2> QED
    BY <1>1, <1>8, <2>1, <2>2, DropCases DEF DataOK, StoreTypeOK
<1> QED
  BY <1>2, <1>3, <1>4, <1>5, <1>6, <1>7, <1>8, NextCases

(* Sockets never go back: a client that is new or open was so before, and  *)
(* one that is new was new.                                                *)
LEMMA SockStep ==
  ASSUME TaskInv, DataOK, [Next]_vars
  PROVE  /\ \A c \in Client : (Here(c)' => Here(c)) /\ (sock'[c] = "new" => sock[c] = "new")
         /\ \A c \in Client : sock[c] = "lost" => sock'[c] = "lost"
         /\ \A c \in Client : past[c] \subseteq past'[c]
<1> USE DEF Here
<1>1. CASE QuietStep
  <2>1. past' = past /\ (sock' = sock \/ \E c \in Client : Connect(c))
    BY <1>1 DEF QuietStep, Connect, CacheHave, Stats, Expire, P2PConnected, Broadcast,
                PruneOldEvents, Restart, vars
  <2> QED
    BY <2>1 DEF Connect, DataOK
<1>2. CASE \E c \in Client : SocketError(c) \/ SocketClose(c)
  <2>1. PICK c \in Client : SocketError(c) \/ SocketClose(c)
    BY <1>2
  <2>2. sock[c] \in {"open", "errored"}
    BY <2>1 DEF SocketError, SocketClose
  <2> QED
    BY <2>1, <2>2, LeaveCases DEF MarkRaces, DataOK
<1>3. CASE \E c \in Client : Register(c) \/ Heartbeat(c)
  BY <1>3, MessageCases, MarkType
<1>4. CASE ClassifyAllPeers
  BY <1>4, SweepCase, MarkType DEF DataOK
<1>5. CASE RedisExec
  BY <1>5, ExecCase DEF DataOK
<1>6. CASE \E i \in Nat \ {0} : Resume(i)
  <2>1. PICK t \in Task, new \in TaskState :
          task[t].c \in Client /\ ResumeCase(task[t], new) /\ sock' = sock
    BY <1>6, ResumeCases
  <2> QED
    BY <2>1, MarkType DEF ResumeCase, RegisterCase, HeartbeatCase, ClassifyCase,
                          DisconnectCase
<1>7. CASE RedisFault \/ Crash
  BY <1>7, DropCases, MarkType DEF DataOK, ForgetAll
<1> QED
  BY <1>1, <1>2, <1>3, <1>4, <1>5, <1>6, <1>7, NextCases

(* A client is disconnected or demoted only when it has left: no reply     *)
(* "super" reaches a handler of one that is here and has no reputation.    *)
LEMMA GoneStep ==
  ASSUME IInv, [Next]_vars
  PROVE  GoneInv'
<1> USE DEF IInv
<1>1. TaskInv' /\ \A c \in Client : Here(c)' => Here(c)
  BY TaskInvStep, SockStep
<1>2. task \in [Task -> TaskState]
  BY DEF TaskInv, TasksOK
<1> SUFFICES ASSUME NEW u \in Task, NEW c \in Client, task'[u].c = c,
                    \/ task'[u].op = "disconnect"
                    \/ task'[u].pc \in DisconnectPC \cup DemotePC
             PROVE  ~ Here(c)'
  BY DEF GoneInv
<1>3. CASE task'[u] = task[u]
  BY <1>1, <1>3 DEF GoneInv
<1>4. CASE task'[u] # task[u] /\ \E d \in Client : SocketError(d) \/ SocketClose(d)
  <2>1. PICK d \in Client : SocketError(d) \/ SocketClose(d)
    BY <1>4
  <2>2. c = d
    BY <1>2, <1>4, <2>1, LeaveCases DEF Starts
  <2> QED
    BY <2>1, <2>2, LeaveCases DEF Here, DataOK
<1>5. CASE \E d \in Client : Register(d) \/ Heartbeat(d)
  <2>1. PICK t \in Task, d \in Client : \/ Starts(t, "register", d, "hSet", {})
                                        \/ Starts(t, "heartbeat", d, "refresh", {})
    BY <1>5, MessageCases
  <2> QED
    BY <1>2, <1>3, <2>1 DEF Starts, DisconnectPC, DemotePC
<1>6. CASE ClassifyAllPeers
  <2>1. registered \subseteq Client
    BY DEF DataOK
  <2> QED
    BY <1>2, <1>3, <1>6, <2>1, SweepCase DEF Starts, DisconnectPC, DemotePC
<1>7. CASE RedisExec
  <2>1. PICK t \in Task, r \in Reply \ {"pending"} : Executes(t, r)
    BY <1>7, ExecCase DEF DataOK
  <2> QED
    BY <1>1, <1>2, <1>3, <2>1 DEF Executes, GoneInv
<1>8. CASE \E i \in Nat \ {0} : Resume(i)
  <2>1. PICK t \in Task, new \in TaskState :
          /\ task' = [task EXCEPT ![t] = new] /\ ResumeCase(task[t], new)
          /\ task[t].c \in Client
    BY <1>8, ResumeCases
  <2>2. CASE u = t
    <3>1. task'[u] = new
      BY <1>2, <2>1, <2>2
    <3>2. /\ new.c = task[t].c
          /\ \/ task[t].op = "disconnect"
             \/ task[t].pc \in DemotePC
             \/ ShouldDemote(c, task[t].reply)
      BY <2>1, <3>1 DEF ResumeCase, RegisterCase, HeartbeatCase, ClassifyCase, DisconnectCase,
                        Went, Onward, DisconnectPC, DemotePC, Idle
    <3>3. ~ Here(c)
      BY <2>1, <3>1, <3>2 DEF GoneInv, ScoredInv, ShouldDemote
    <3> QED
      BY <1>1, <3>3
  <2>3. CASE u # t
    BY <1>2, <1>3, <2>1, <2>3
  <2> QED
    BY <2>2, <2>3
<1>9. CASE RedisFault \/ Crash
  BY <1>9, DropCases, ClientsAssumption DEF Idle
<1>10. CASE QuietStep
  BY <1>3, <1>10, QuietTasks
<1> QED
  BY <1>3, <1>4, <1>5, <1>6, <1>7, <1>8, <1>9, <1>10, NextCases

(* Nothing of a client exists before it connects: the ids of the handlers  *)
(* are those of messages, of sockets or of registeredPeers.                *)
LEMMA NewStep ==
  ASSUME IInv, [Next]_vars
  PROVE  NewInv'
<1> USE DEF IInv
<1>1. /\ TaskInv' /\ DataOK'
      /\ \A c \in Client : sock'[c] = "new" => sock[c] = "new"
  BY TaskInvStep, SockStep, DataOKStep
<1>2. task \in [Task -> TaskState] /\ registered \subseteq Client
  BY DEF TaskInv, TasksOK, DataOK
<1>3. ~ up' => \A c \in Client : sock'[c] # "open"
  <2>1. CASE QuietStep
    BY <2>1 DEF QuietStep, Connect, CacheHave, Stats, Expire, P2PConnected, Broadcast,
                PruneOldEvents, Restart, vars, NewInv, DataOK
  <2>2. CASE \E c \in Client : SocketError(c) \/ SocketClose(c)
    BY <2>2, LeaveCases DEF NewInv, DataOK
  <2>3. CASE RedisFault \/ Crash
    BY <2>3, DropCases DEF NewInv, ForgetAll, DataOK
  <2>4. CASE up' = up /\ sock' = sock
    BY <2>4 DEF NewInv
  <2> QED
    BY <1>2, <2>1, <2>2, <2>3, <2>4, NextCases, MessageCases, SweepCase, ExecCase,
       ResumeCases DEF DataOK
<1> SUFFICES ASSUME NEW c \in Client, sock'[c] = "new"
             PROVE  /\ c \notin registered' \cup scored' /\ hash'[c] = NoHash
                    /\ \A u \in Task : task'[u].c # c /\ c \notin task'[u].rest
  BY <1>3 DEF NewInv
<1>4. /\ sock[c] = "new" /\ c \notin registered \cup scored /\ hash[c] = NoHash
      /\ \A u \in Task : task[u].c # c /\ c \notin task[u].rest
  BY <1>1 DEF NewInv
<1>5. CASE QuietStep
  <2>1. CASE \E d \in Client : Expire(d)
    BY <1>4, <1>5, <2>1, QuietTasks DEF Expire, KeyExpires, Del, memVars, DataOK, StoreTypeOK
  <2>2. CASE \E d \in Client : Stats(d)
    BY <1>4, <1>5, <2>2, QuietTasks DEF Stats, storeVars
  <2>3. CASE registered' = registered /\ scored' = scored /\ hash' = hash
    BY <1>4, <1>5, <2>3, QuietTasks
  <2> QED
    BY <1>5, <2>1, <2>2, <2>3 DEF QuietStep, Connect, CacheHave, P2PConnected, Broadcast,
                PruneOldEvents, Restart, CleanupStaleSets, vars, memVars, storeVars
<1>6. CASE \E d \in Client : SocketError(d) \/ SocketClose(d)
  <2>1. PICK d \in Client : SocketError(d) \/ SocketClose(d)
    BY <1>6
  <2>2. d # c
    BY <1>4, <2>1, LeaveCases
  <2> QED
    BY <1>2, <1>4, <2>1, <2>2, LeaveCases DEF Starts
<1>7. CASE \E d \in Client : Register(d) \/ Heartbeat(d)
  <2>1. PICK d \in Client : Register(d) \/ Heartbeat(d)
    BY <1>7
  <2>2. d # c
    BY <1>4, <2>1, MessageCases
  <2>3. PICK t \in Task : \/ Starts(t, "register", d, "hSet", {})
                          \/ Starts(t, "heartbeat", d, "refresh", {})
    BY <2>1, MessageCases
  <2>4. \A u \in Task : task'[u].c # c /\ c \notin task'[u].rest
    BY <1>2, <1>4, <2>2, <2>3 DEF Starts
  <2> QED
    BY <1>4, <2>1, <2>4, MessageCases
<1>8. CASE ClassifyAllPeers
  BY <1>2, <1>4, <1>8, SweepCase DEF Starts
<1>9. CASE RedisExec
  <2>1. PICK t \in Task, r \in Reply \ {"pending"} : Executes(t, r)
    BY <1>9, ExecCase DEF DataOK
  <2>2. task[t].c # c /\ StoreTypeOK
    BY <1>4 DEF DataOK
  <2>3. hash'[c] = hash[c]
    BY <2>1, <2>2, StoreCases DEF Executes, ExecuteCase, HashSet, SAdd, SRem, StoreTypeOK
  <2>4. \A u \in Task : task'[u].c # c /\ c \notin task'[u].rest
    BY <1>2, <1>4, <2>1 DEF Executes
  <2> QED
    BY <1>4, <1>9, <2>3, <2>4, ExecCase DEF DataOK
<1>10. CASE \E i \in Nat \ {0} : Resume(i)
  <2>1. PICK t \in Task, new \in TaskState :
          /\ task' = [task EXCEPT ![t] = new] /\ ResumeCase(task[t], new)
          /\ UNCHANGED <<sock, hash>>
    BY <1>10, ResumeCases
  <2>2. task[t].c # c /\ c \notin task[t].rest
    BY <1>4
  <2>3. /\ new.c # c /\ c \notin new.rest
        /\ c \notin registered' \cup scored'
    BY <1>4, <2>1, <2>2, ClientsAssumption DEF ResumeCase, RegisterCase, HeartbeatCase, ClassifyCase,
                DisconnectCase, Went, Onward, Idle
  <2> QED
    BY <1>2, <1>4, <2>1, <2>3
<1>11. CASE RedisFault \/ Crash
  <2>1. \A u \in Task : task'[u].c # c /\ c \notin task'[u].rest
    BY <1>11, DropCases, ClientsAssumption DEF Idle
  <2> QED
    BY <1>4, <1>11, <2>1, DropCases DEF ForgetAll
<1> QED
  BY <1>5, <1>6, <1>7, <1>8, <1>9, <1>10, <1>11, NextCases

(* A client becomes a super peer only when it has a reputation, and loses  *)
(* its reputation only when it has left or the process ends.               *)
LEMMA ScoredStep ==
  ASSUME IInv, [Next]_vars
  PROVE  ScoredInv'
<1> USE DEF IInv
<1>1. /\ TaskInv' /\ NewInv' /\ \A c \in Client : Here(c)' => Here(c)
  BY TaskInvStep, SockStep, NewStep
<1>2. task \in [Task -> TaskState] /\ registered \subseteq Client /\ StoreTypeOK
  BY DEF TaskInv, TasksOK, DataOK
<1> SUFFICES ASSUME NEW c \in Client, Here(c)', c \notin scored'
             PROVE  /\ hash'[c].status # "super"
                    /\ \A u \in Task : task'[u].c = c =>
                         task'[u].pc \notin PromotePC /\ task'[u].reply # "super"
  BY DEF ScoredInv, Here
<1>3. Here(c)
  BY <1>1
<1>4. ASSUME c \notin scored
      PROVE  /\ hash[c].status # "super"
             /\ \A u \in Task : task[u].c = c =>
                  task[u].pc \notin PromotePC /\ task[u].reply # "super"
  BY <1>3, <1>4 DEF ScoredInv
<1>5. CASE QuietStep
  <2>1. c \notin scored
    BY <1>5 DEF QuietStep, Connect, CacheHave, Stats, Expire, P2PConnected, Broadcast,
                PruneOldEvents, Restart, vars, memVars
  <2>2. hash' = hash \/ \E d \in Client : hash' = [hash EXCEPT ![d] = NoHash]
    BY <1>5 DEF QuietStep, Connect, CacheHave, Stats, Expire, KeyExpires, Del, P2PConnected,
                Broadcast, PruneOldEvents, Restart, CleanupStaleSets, vars, storeVars
  <2>3. hash'[c].status # "super"
    BY <1>2, <1>4, <2>1, <2>2 DEF StoreTypeOK, NoHash
  <2> QED
    BY <1>4, <1>5, <2>1, <2>3, QuietTasks
<1>6. CASE \E d \in Client : SocketError(d) \/ SocketClose(d)
  BY <1>2, <1>4, <1>6, LeaveCases DEF Starts, PromotePC
<1>7. CASE \E d \in Client : Register(d) \/ Heartbeat(d)
  <2>1. PICK d \in Client : Register(d) \/ Heartbeat(d)
    BY <1>7
  <2>2. PICK t \in Task : \/ Starts(t, "register", d, "hSet", {})
                          \/ Starts(t, "heartbeat", d, "refresh", {})
    BY <2>1, MessageCases
  <2>3. c \notin scored /\ hash' = hash
    BY <2>1, MessageCases
  <2> QED
    BY <1>2, <1>4, <2>2, <2>3 DEF Starts, PromotePC
<1>8. CASE ClassifyAllPeers
  BY <1>2, <1>4, <1>8, SweepCase DEF Starts, PromotePC
<1>9. CASE RedisExec
  <2>1. c \notin scored
    BY <1>2, <1>9, ExecCase
  <2>2. PICK t \in Task, r \in Reply \ {"pending"} : Executes(t, r)
    BY <1>2, <1>9, ExecCase
  <2>3. hash'[c].status # "super"
    BY <1>2, <1>4, <2>1, <2>2, StoreCases DEF Executes, ExecuteCase, HashSet, SAdd, SRem,
       StoreTypeOK, PromotePC
  <2>4. task[t].c = c => r # "super"
    <3>1. hash[c].status \in {"none", "casual"}
      BY <1>2, <1>4, <2>1 DEF StoreTypeOK, Status
    <3> QED
      BY <2>2, <3>1 DEF Executes, Answer
  <2> QED
    BY <1>2, <1>4, <2>1, <2>2, <2>3, <2>4 DEF Executes
<1>10. CASE \E i \in Nat \ {0} : Resume(i)
  <2>1. PICK t \in Task, new \in TaskState :
          /\ task' = [task EXCEPT ![t] = new] /\ ResumeCase(task[t], new)
          /\ task[t].c \in Client /\ UNCHANGED <<sock, hash>>
    BY <1>10, ResumeCases
  <2>2. c \notin scored
    BY <1>3, <2>1 DEF ResumeCase, RegisterCase, HeartbeatCase, ClassifyCase,
                      DisconnectCase, GoneInv
  <2>3. new.c = c => new.pc \notin PromotePC /\ new.reply # "super"
    BY <1>4, <2>1, <2>2, ClientsAssumption DEF ResumeCase, RegisterCase, HeartbeatCase,
       ClassifyCase, DisconnectCase, Went, Onward, Idle, ShouldPromote, PromotePC
  <2> QED
    BY <1>2, <1>4, <2>1, <2>2, <2>3
<1>11. CASE RedisFault \/ Crash
  <2>1. \A u \in Task : task'[u].c # c
    BY <1>11, DropCases, ClientsAssumption DEF Idle
  <2>2. CASE ForgetAll
    <3>1. sock[c] = "new"
      BY <1>1, <2>2 DEF ForgetAll, Here
    <3> QED
      BY <1>11, <2>1, <3>1, DropCases DEF NewInv, NoHash
  <2>3. CASE ~ ForgetAll
    BY <1>4, <1>11, <2>1, <2>3, DropCases
  <2> QED
    BY <2>2, <2>3
<1> QED
  BY <1>5, <1>6, <1>7, <1>8, <1>9, <1>10, <1>11, NextCases

(* The handler that writes a full hash executes EXPIRE before it goes on,  *)
(* and no other command takes a TTL away from a key that stays.            *)
LEMMA TtlStep ==
  ASSUME IInv, [Next]_vars
  PROVE  TtlInv'
<1> SUFFICES ASSUME NEW c \in Client, hash'[c].full,
                    "fault" \notin past'[c], sock'[c] # "lost"
             PROVE  /\ hash'[c].status # "none"
                    /\ hash'[c].ttl \/ \E u \in Task : Writing(u, c)'
  BY DEF TtlInv, Writing
<1> USE DEF IInv
<1>1. /\ TaskInv' /\ \A d \in Client : sock[d] = "lost" => sock'[d] = "lost"
      /\ \A d \in Client : past[d] \subseteq past'[d]
  BY TaskInvStep, SockStep
<1>2. task \in [Task -> TaskState] /\ registered \subseteq Client /\ StoreTypeOK
  BY DEF TaskInv, TasksOK, DataOK
<1>3. hash[c].full => /\ hash[c].status # "none"
                      /\ hash[c].ttl \/ \E u \in Task : Writing(u, c)
  BY <1>1 DEF TtlInv
<1>4. \A u \in Task : Writing(u, c) => Busy(u)
  BY DEF Writing, TaskInv, TasksOK
<1>5. CASE QuietStep
  <2>1. hash' = hash \/ \E d \in Client : hash' = [hash EXCEPT ![d] = NoHash]
    BY <1>5 DEF QuietStep, Connect, CacheHave, Stats, Expire, KeyExpires, Del, P2PConnected,
                Broadcast, PruneOldEvents, Restart, CleanupStaleSets, vars, storeVars
  <2>2. hash'[c] = hash[c]
    BY <1>2, <2>1 DEF StoreTypeOK, NoHash
  <2> QED
    BY <1>3, <1>5, <2>2, QuietTasks DEF Writing
<1>6. CASE hash' = hash /\ \A u \in Task : Busy(u) => task'[u] = task[u]
  BY <1>3, <1>4, <1>6 DEF Writing
<1>7. CASE \/ \E d \in Client : SocketError(d) \/ SocketClose(d)
           \/ \E d \in Client : Register(d) \/ Heartbeat(d)
           \/ ClassifyAllPeers
  <2>1. hash' = hash /\ \A u \in Task : Busy(u) => task'[u] = task[u]
    BY <1>2, <1>7, LeaveCases, MessageCases, SweepCase DEF Starts
  <2> QED
    BY <1>6, <2>1
<1>8. CASE RedisExec
  <2>1. PICK t \in Task, r \in Reply \ {"pending"} : Executes(t, r)
    BY <1>2, <1>8, ExecCase
  <2>2. \A u \in Task \ {t} : Writing(u, c) => Writing(u, c)'
    BY <1>2, <2>1 DEF Executes, Writing
  <2>3. task[t].pc = "hSet" /\ task[t].c = c => Writing(t, c)'
    BY <1>2, <2>1 DEF Executes, Writing
  <2>4. CASE task[t].c # c
    <3>1. hash'[c] = hash[c] /\ ~ Writing(t, c)
      BY <1>2, <2>1, <2>4, StoreCases DEF Executes, ExecuteCase, HashSet, SAdd, SRem,
         StoreTypeOK, Writing
    <3> QED
      BY <1>3, <2>2, <3>1
  <2>5. CASE task[t].c = c
    <3>1. ExecuteCase(c, task[t].pc)
      BY <1>2, <2>1, <2>5, StoreCases DEF Executes
    <3>2. CASE task[t].pc = "hSet"
      BY <1>2, <2>3, <2>5, <3>1, <3>2 DEF ExecuteCase, HashSet, StoreTypeOK
    <3>3. CASE task[t].pc = "expire"
      BY <1>2, <1>3, <3>1, <3>3 DEF ExecuteCase, HashSet, StoreTypeOK, Exists
    <3>4. CASE task[t].pc \notin {"hSet", "expire"}
      <4>1. ~ Writing(t, c)
        BY <3>4 DEF Writing
      <4>2. /\ hash[c].full /\ hash'[c].status # "none"
            /\ hash'[c].ttl = hash[c].ttl \/ hash'[c].ttl
        BY <1>2, <1>3, <3>1, <3>4 DEF ExecuteCase, HashSet, StoreTypeOK, Exists, SAdd, SRem
      <4> QED
        BY <1>3, <2>2, <4>1, <4>2
    <3> QED
      BY <3>2, <3>3, <3>4
  <2> QED
    BY <2>4, <2>5
<1>9. CASE \E i \in Nat \ {0} : Resume(i)
  <2>1. PICK t \in Task, new \in TaskState :
          /\ task' = [task EXCEPT ![t] = new] /\ ResumeCase(task[t], new)
          /\ task[t].reply # "pending" /\ hash' = hash
    BY <1>9, ResumeCases
  <2>2. \A u \in Task \ {t} : Writing(u, c) => Writing(u, c)'
    BY <1>2, <2>1 DEF Writing
  <2>3. Writing(t, c) => Writing(t, c)'
    <3>1. task'[t] = new
      BY <1>2, <2>1
    <3> QED
      BY <2>1, <3>1 DEF Writing, ResumeCase, RegisterCase, HeartbeatCase, ClassifyCase,
         DisconnectCase, Went, Onward
  <2> QED
    BY <1>3, <2>1, <2>2, <2>3
<1>10. CASE RedisFault \/ Crash
  <2>1. hash'[c] = hash[c]
    BY <1>10, DropCases
  <2>2. CASE ForgetAll
    <3>1. sock[c] = "new"
      BY <2>2 DEF ForgetAll, DataOK
    <3> QED
      BY <2>1, <3>1 DEF NewInv, NoHash
  <2>3. CASE Mark({d \in Client : \E t \in Task : task[t].c = d}, "fault")
    <3>1. \A u \in Task : task[u].c # c
      BY <2>3, MarkType
    <3> QED
      BY <1>3, <2>1, <3>1 DEF Writing
  <2> QED
    BY <1>10, <2>2, <2>3, DropCases
<1> QED
  BY <1>5, <1>7, <1>8, <1>9, <1>10, NextCases

(* A peer is told of a super peer only when it is taken off its set, and   *)
(* is put on the set again only by a report of the super peer, which has   *)
(* left by then.                                                           *)
LEMMA ToldStep ==
  ASSUME IInv, [Next]_vars
  PROVE  ToldInv'
<1> USE DEF IInv
<1>1. \A c \in Client : Here(c)' => Here(c)
  BY SockStep
<1>2. links \in ConnType /\ notices \in [Client \X Client -> 0..2]
  BY DEF DataOK
<1> SUFFICES ASSUME NEW s \in Client, NEW p \in Client
             PROVE  /\ notices'[<<s, p>>] \in {0, 1}
                    /\ notices'[<<s, p>>] = 1 => ~ Here(s)' /\ p \notin links'.peers[s]
  BY DEF ToldInv
<1>3. /\ notices[<<s, p>>] \in {0, 1}
      /\ notices[<<s, p>>] = 1 => ~ Here(s) /\ p \notin links.peers[s]
  BY DEF ToldInv
<1>4. CASE notices' = notices /\ links'.peers[s] \subseteq links.peers[s]
  BY <1>1, <1>3, <1>4
<1>5. \A c \in Client : /\ HandleSuperPeerDisconnect(links, c).peers[s] \subseteq links.peers[s]
                       /\ CleanupPeerConnections(links, c).peers[s] \subseteq links.peers[s]
                       /\ p \notin HandleSuperPeerDisconnect(links, s).peers[s]
  <2> TAKE c \in Client
  <2>1. /\ HandleSuperPeerDisconnect(links, c).peers[s] \subseteq links.peers[s]
        /\ p \notin HandleSuperPeerDisconnect(links, s).peers[s]
    BY <1>2 DEF HandleSuperPeerDisconnect, ConnType
  <2>2. /\ RemoveConnection(links, c) \in ConnType
        /\ RemoveConnection(links, c).peers[s] \subseteq links.peers[s]
    BY <1>2 DEF RemoveConnection, ConnType
  <2> HIDE DEF IInv
  <2>3. CleanupPeerConnections(links, c).peers[s] \subseteq RemoveConnection(links, c).peers[s]
    BY <2>2 DEF CleanupPeerConnections, HandleSuperPeerDisconnect, ConnType
  <2> QED
    BY <2>1, <2>2, <2>3
<1>6. CASE QuietStep
  <2>1. CASE \E c \in Client : \E remote \in Client : P2PConnected(c, remote)
    <3>1. PICK c \in Client, remote \in Client : P2PConnected(c, remote)
      BY <2>1
    <3>2. Here(c) /\ notices' = notices /\ links' = RegisterConnection(links, c, remote)
      BY <3>1 DEF P2PConnected, Here
    <3>3. s # c => links'.peers[s] = links.peers[s]
      BY <1>2, <3>2 DEF RegisterConnection, ConnType
    <3>4. CASE s = c
      BY <1>1, <1>3, <3>2, <3>4
    <3> QED
      BY <1>4, <3>2, <3>3, <3>4
  <2>2. CASE notices' = notices /\ links' = links
    BY <1>4, <2>2
  <2> QED
    BY <1>6, <2>1, <2>2 DEF QuietStep, Connect, CacheHave, Stats, Expire, Broadcast,
       PruneOldEvents, Restart, vars, memVars
<1>7. CASE \E i \in Nat \ {0} : Resume(i)
  <2>1. PICK t \in Task, new \in TaskState :
          ResumeCase(task[t], new) /\ task[t].c \in Client
    BY <1>7, ResumeCases
  <2> DEFINE c == task[t].c
  <2>2. CASE /\ task[t].op = "disconnect" /\ NotifyOrphans(c)
             /\ links' = HandleSuperPeerDisconnect(links, c)
    <3>1. ~ Here(c)
      BY <2>1, <2>2 DEF GoneInv
    <3>2. \/ notices'[<<s, p>>] = notices[<<s, p>>]
          \/ s = c /\ p \in links.peers[s] /\ notices'[<<s, p>>] = notices[<<s, p>>] + 1
      BY <1>3, <2>2 DEF NotifyOrphans, Orphans
    <3>3. links'.peers[s] \subseteq links.peers[s]
      BY <1>5, <2>1, <2>2
    <3>4. CASE notices'[<<s, p>>] = notices[<<s, p>>]
      BY <1>1, <1>3, <3>3, <3>4
    <3>5. CASE s = c /\ p \in links.peers[s] /\ notices'[<<s, p>>] = notices[<<s, p>>] + 1
      <4>1. notices'[<<s, p>>] = 1 /\ ~ Here(s) /\ p \notin links'.peers[s]
        BY <1>3, <1>5, <2>2, <3>1, <3>5
      <4> QED
        BY <1>1, <4>1
    <3> QED
      BY <3>2, <3>4, <3>5
  <2>3. CASE notices' = notices /\ (links' = links \/ links' = CleanupPeerConnections(links, c))
    BY <1>4, <1>5, <2>1, <2>3
  <2> QED
    BY <2>1, <2>2, <2>3 DEF ResumeCase, RegisterCase, HeartbeatCase, ClassifyCase,
                            DisconnectCase
<1>8. CASE RedisFault \/ Crash
  <2>1. notices' = notices /\ (links' = links \/ links' = NoLinks)
    BY <1>8, DropCases DEF ForgetAll
  <2> QED
    BY <1>4, <2>1 DEF NoLinks
<1>9. CASE notices' = notices /\ links' = links
  BY <1>4, <1>9
<1>10. registered \subseteq Client /\ StoreTypeOK
  BY DEF DataOK
<1> QED
  BY <1>6, <1>7, <1>8, <1>9, <1>10, NextCases, LeaveCases, MessageCases, SweepCase, ExecCase

(* An open client enters the three places in order, and a promotion takes  *)
(* it out of peers:casual before it puts it into peers:super.              *)
LEMMA IndexStep ==
  ASSUME IInv, [Next]_vars
  PROVE  IndexInv'
<1> USE DEF IInv
<1>1. /\ TaskInv' /\ NewInv' /\ \A c \in Client : Here(c)' => Here(c)
      /\ \A c \in Client : past[c] \subseteq past'[c]
  BY TaskInvStep, SockStep, NewStep
<1>2. /\ task \in [Task -> TaskState] /\ registered \subseteq Client /\ StoreTypeOK
      /\ \A u \in Task : Busy(u) <=> task[u].c \in Client
  BY DEF TaskInv, TasksOK, DataOK
<1> SUFFICES ASSUME NEW c \in Client, sock'[c] = "open", "fault" \notin past'[c]
             PROVE  /\ c \in registered' => c \in sets'["all"] /\ Placed(c)'
                    /\ \A u \in Task : TaskIndexed(u, c)'
  BY DEF IndexInv, TaskIndexed, Placed, BeingMoved, Serving
<1>3. Here(c) /\ "fault" \notin past[c]
  BY <1>1 DEF Here
<1>4. /\ c \in registered => c \in sets["all"] /\ Placed(c)
      /\ \A u \in Task : TaskIndexed(u, c)
  BY <1>3 DEF Here, IndexInv, NewInv, TaskIndexed
<1>5. \A u \in Task : task[u].c = c => Busy(u) /\ task[u].pc \notin DisconnectPC \cup DemotePC
  BY <1>2, <1>3 DEF GoneInv
<1> USE DEF Placed, BeingMoved, Serving, TaskIndexed
<1>6. ASSUME registered' = registered, sets' = sets,
             \A u \in Task : Busy(u) => task'[u] = task[u],
             \A u \in Task : ~ Busy(u) /\ task'[u].c = c => task'[u].reply = "pending"
                                                         /\ task'[u].pc # "addCasual"
      PROVE  /\ c \in registered' => c \in sets'["all"] /\ Placed(c)'
             /\ \A u \in Task : TaskIndexed(u, c)'
  BY <1>4, <1>5, <1>6
<1>7. CASE QuietStep
  <2>1. ~ Restart
    <3>1. Restart => ~ up /\ sock' = sock
      BY DEF Restart
    <3> QED
      BY <3>1 DEF NewInv
  <2>2. registered' = registered /\ sets' = sets
    BY <1>7, <2>1 DEF QuietStep, Connect, CacheHave, Stats, Expire, KeyExpires, Del, P2PConnected,
       Broadcast, PruneOldEvents, vars, storeVars, memVars
  <2> QED
    BY <1>2, <1>6, <1>7, <2>2, QuietTasks
<1>8. CASE \/ \E d \in Client : SocketError(d) \/ SocketClose(d)
           \/ \E d \in Client : Register(d) \/ Heartbeat(d)
           \/ ClassifyAllPeers
  <2>1. registered' = registered /\ sets' = sets
    BY <1>2, <1>8, LeaveCases, MessageCases, SweepCase
  <2>2. \/ task' = task
        \/ \E t \in Task, op \in Op, d \in Client, rest \in SUBSET Client :
             \E pc \in {"hSet", "refresh", "getPeer", "dcGet"} : Starts(t, op, d, pc, rest)
    BY <1>2, <1>8, LeaveCases, MessageCases, SweepCase DEF Op
  <2> QED
    BY <1>2, <1>6, <2>1, <2>2 DEF Starts
<1>9. CASE RedisExec
  <2>1. PICK t \in Task, r \in Reply \ {"pending"} : Executes(t, r)
    BY <1>2, <1>9, ExecCase
  <2>2. registered' = registered
    BY <1>2, <1>9, ExecCase
  <2> DEFINE d == task[t].c
             pc == task[t].pc
  <2>3. ExecuteCase(d, pc)
    BY <1>2, <2>1, StoreCases DEF Executes
  <2>4. \A u \in Task : /\ task'[u].c = task[u].c /\ task'[u].pc = task[u].pc
                       /\ task'[u].reply = IF u = t THEN r ELSE task[u].reply
    BY <1>2, <2>1 DEF Executes
  <2>5. /\ c \in sets["all"] => c \in sets'["all"]
        /\ c \in sets["super"] => c \in sets'["super"]
        /\ c \in sets["casual"] => c \in sets'["casual"] \/ (d = c /\ pc = "remCasual")
    BY <1>2, <1>5, <2>3 DEF ExecuteCase, HashSet, SAdd, SRem, StoreTypeOK, SetName,
                            DisconnectPC, DemotePC
  <2>6. Placed(c) => Placed(c)'
    BY <2>4, <2>5 DEF PromotePC
  <2>7. d = c => /\ pc = "addAll" => c \in sets'["all"]
                 /\ pc = "addCasual" => c \in sets'["casual"]
                 /\ pc = "addSuper" => c \in sets'["super"]
    BY <1>2, <2>3 DEF ExecuteCase, HashSet, SAdd, SRem, StoreTypeOK, SetName
  <2>8. ASSUME NEW u \in Task PROVE TaskIndexed(u, c)'
    <3>1. CASE u = t
      BY <1>4, <2>4, <2>5, <2>7, <3>1
    <3>2. CASE u # t
      <4>1. TaskIndexed(u, c) /\ task'[u].c = task[u].c /\ task'[u].pc = task[u].pc
            /\ task'[u].reply = task[u].reply
        BY <1>4, <2>4, <3>2
      <4> QED
        BY <2>5, <2>6, <4>1
    <3> QED
      BY <3>1, <3>2
  <2> QED
    BY <1>4, <2>2, <2>5, <2>6, <2>8
<1>10. CASE \E i \in Nat \ {0} : Resume(i)
  <2>1. PICK t \in Task, new \in TaskState :
          /\ task' = [task EXCEPT ![t] = new] /\ ResumeCase(task[t], new)
          /\ task[t].reply # "pending" /\ task[t].c \in Client /\ sets' = sets
    BY <1>10, ResumeCases
  <2>2. \A u \in Task : task'[u] = IF u = t THEN new ELSE task[u]
    BY <1>2, <2>1
  <2>3. Placed(c) => Placed(c)'
    <3> SUFFICES ASSUME Placed(c) PROVE Placed(c)'
      OBVIOUS
    <3>1. CASE c \in sets["casual"] \cup sets["super"]
      BY <2>1, <3>1
    <3>2. CASE task[t].c = c /\ task[t].pc \in PromotePC
      <4>1. (new.c = c /\ new.pc \in PromotePC) \/ task[t].pc = "addSuper"
        BY <2>1, <3>2 DEF ResumeCase, RegisterCase, HeartbeatCase, ClassifyCase,
           DisconnectCase, Went, Onward, PromotePC
      <4>2. task[t].pc = "addSuper" => c \in sets["super"]
        BY <1>4, <2>1, <3>2
      <4> QED
        BY <2>1, <2>2, <4>1, <4>2
    <3>3. CASE \E u \in Task \ {t} : task[u].c = c /\ task[u].pc \in PromotePC
      BY <2>2, <3>3
    <3> QED
      BY <3>1, <3>2, <3>3
  <2>4. TaskIndexed(t, c)'
    <3>1. new.c = c => \/ new.pc \notin {"addAll", "addCasual", "addSuper"}
                       \/ new.reply = "pending" /\ new.pc # "addCasual"
                       \/ /\ new.reply = "pending" /\ new.pc = "addCasual"
                          /\ task[t].c = c /\ task[t].pc = "addAll"
      BY <2>1, ClientsAssumption DEF ResumeCase, RegisterCase, HeartbeatCase, ClassifyCase,
         DisconnectCase, Went, Onward, Idle
    <3>2. task[t].c = c /\ task[t].pc = "addAll" => c \in sets["all"]
      BY <1>4, <2>1
    <3> HIDE DEF Placed
    <3> QED
      BY <2>1, <2>2, <3>1, <3>2
  <2>5. \A u \in Task : TaskIndexed(u, c)'
    <3> HIDE DEF Placed
    <3> QED
      BY <1>4, <2>1, <2>2, <2>3, <2>4
  <2>6. c \in registered' =>
          c \in registered \/ (task[t].c = c /\ task[t].pc = "addCasual")
    BY <2>1 DEF ResumeCase, RegisterCase, HeartbeatCase, ClassifyCase, DisconnectCase
  <2>7. c \in registered' => c \in sets["all"] /\ Placed(c)
    <3> HIDE DEF Placed
    <3> QED
      BY <1>4, <2>1, <2>6
  <2> QED
    BY <2>1, <2>3, <2>5, <2>7
<1>11. CASE RedisFault \/ Crash
  <2>1. /\ sets' = sets /\ UNCHANGED registered
        /\ \A u \in Task : task'[u] = Idle /\ task[u].c # c
    <3>1. ~ ForgetAll
      BY DEF ForgetAll, DataOK
    <3>2. Mark({d \in Client : \E t \in Task : task[t].c = d}, "fault")
      BY <1>11, <3>1, DropCases
    <3>3. \A u \in Task : task[u].c # c
      BY <3>2, MarkType
    <3> QED
      BY <1>11, <3>1, <3>3, DropCases
  <2> QED
    BY <1>4, <2>1, ClientsAssumption DEF Idle
<1> QED
  BY <1>7, <1>8, <1>9, <1>10, <1>11, NextCases

-----------------------------------------------------------------------------
(* What is known of a client while it is here.                             *)

(* A handler waits for the commands of its kind; a sweep alone has more    *)
(* clients to serve.                                                       *)
OfKind(me) ==
  /\ me.op = "register" => me.pc \in RegisterPC
  /\ me.op = "heartbeat" => me.pc \in {"refresh"} \cup ClassifyPC
  /\ me.op = "sweep" => me.pc \in ClassifyPC
  /\ me.op = "disconnect" => me.pc \in DisconnectPC
  /\ me.op # "sweep" => me.rest = {}

OpInv == \A t \in Task : OfKind(task[t])

(* The first half of a registration, up to registeredPeers.add.            *)
EntryPC == {"hSet", "expire", "addAll", "addCasual"}

(* A client that is here, and was not made unregistered.                   *)
Steady(c) == Here(c) /\ "lapsed" \notin past[c] /\ "fault" \notin past[c]

(* Nothing of the client is in Redis.                                      *)
NoKeys(c) == hash[c] = NoHash /\ \A s \in SetName : c \notin sets[s]

(* Until it is registered only its registrations work for it, and memory   *)
(* holds nothing of it; nor does Redis, until one begins.                  *)
Outside(c) ==
  /\ c \notin cached \cup scored /\ Forgotten(links, c)
  /\ c \notin sets["super"] /\ hash[c].status # "super"
  /\ \A t \in Task : /\ c \notin task[t].rest
                     /\ task[t].c = c => task[t].op = "register"
  /\ (\A t \in Task : task[t].c # c) => NoKeys(c)

Known(c) ==
  /\ "register" \notin past[c] => c \notin registered /\ ~ Doing("register", c)
  /\ \A t \in Task : task[t].c = c /\ task[t].pc \in {"loadRep", "saveRep"} => c \in registered
  /\ c \notin registered => Outside(c)

OpenInv == \A c \in Client : Steady(c) => Known(c)

(* A client that registered once: its status and the index sets agree, but *)
(* for what the promotions under way have done or have yet to do.          *)
Once(c) == Steady(c) /\ "again" \notin past[c]

Registers(t, c) == task[t].c = c /\ task[t].op = "register"

Promoted(t, c)   == task[t].c = c /\ \/ task[t].pc \in {"remCasual", "addSuper"}
                                     \/ task[t].pc = "setSuper" /\ task[t].reply # "pending"
WillRemove(t, c) == task[t].c = c /\ \/ task[t].pc = "setSuper"
                                     \/ task[t].pc = "remCasual" /\ task[t].reply = "pending"
WillAdd(t, c)    == task[t].c = c /\ \/ task[t].pc \in {"setSuper", "remCasual"}
                                     \/ task[t].pc = "addSuper" /\ task[t].reply = "pending"

Agrees(c) ==
  /\ hash[c].full /\ hash[c].status = "casual" =>
       /\ c \in sets["casual"] /\ c \notin sets["super"]
       /\ \A t \in Task : ~ Promoted(t, c)
  /\ hash[c].full /\ hash[c].status = "super" =>
       /\ c \notin sets["casual"] \/ \E t \in Task : WillRemove(t, c)
       /\ c \in sets["super"] \/ \E t \in Task : WillAdd(t, c)

Settled(c) ==
  /\ \A t, u \in Task : Registers(t, c) /\ Registers(u, c) => t = u
  /\ c \notin registered => \A t \in Task :
       task[t].c = c /\ task[t].pc = "addCasual" /\ task[t].reply # "pending"
         => c \in sets["casual"]
  /\ c \in registered =>
       /\ \A t \in Task : task[t].c = c => task[t].pc \notin EntryPC
       /\ Agrees(c)

RoleInv == \A c \in Client : Once(c) => Settled(c)

-----------------------------------------------------------------------------
(* A client that has left.                                                 *)

Departed(c) == sock[c] \in {"errored", "closed"} /\ "fault" \notin past[c]

(* A disconnect of the client has yet to execute the command "at".         *)
Due(c, before, at) ==
  \E t \in Task : /\ task[t].c = c
                  /\ \/ task[t].pc \in before
                     \/ task[t].pc = at /\ task[t].reply = "pending"

DelDue(c)    == Due(c, {"dcGet"}, "dcDel")
AllDue(c)    == Due(c, {"dcGet", "dcDel"}, "dcRemAll")
SuperDue(c)  == Due(c, {"dcGet", "dcDel", "dcRemAll"}, "dcRemSuper")
CasualDue(c) == Due(c, {"dcGet", "dcDel", "dcRemAll", "dcRemSuper"}, "dcRemCasual")

(* Whatever there is of a client that left, a disconnect has yet to remove *)
(* it, or one of the three causes explains it.                             *)
Accounted(c) ==
  /\ Doing("register", c) => "raced_register" \in past[c]
  /\ Doing("heartbeat", c) \/ Sweeping(c) => "raced_classify" \in past[c]
  /\ c \in registered => "raced_register" \in past[c] \/ Doing("disconnect", c)
  /\ "lapsed" \notin past[c] =>
       /\ c \in cached => Doing("disconnect", c)
       /\ ~ Forgotten(links, c) => Doing("disconnect", c)
  /\ past[c] \cap {"lapsed", "raced_register"} = {} =>
       /\ c \in scored => Doing("disconnect", c)
       /\ c \in sets["all"] => AllDue(c)
       /\ hash[c].full => DelDue(c)
  /\ past[c] \cap {"lapsed", "raced_register", "raced_classify"} = {} =>
       /\ hash[c].status # "none" => DelDue(c)
       /\ c \in sets["casual"] => CasualDue(c)
       /\ c \in sets["super"] => SuperDue(c)

LeaveInv == \A c \in Client : Departed(c) => Accounted(c)

-----------------------------------------------------------------------------
(* A handler keeps to the commands of its kind.                            *)
LEMMA OpStep ==
  ASSUME TaskInv, DataOK, OpInv, [Next]_vars
  PROVE  OpInv'
<1>1. task \in [Task -> TaskState] /\ registered \subseteq Client /\ StoreTypeOK
  BY DEF TaskInv, TasksOK, DataOK
<1> USE DEF OpInv, OfKind, RegisterPC, ClassifyPC, PromotePC, DemotePC, DisconnectPC
<1>2. ASSUME NEW t \in Task, NEW new, OfKind(new),
             task' = [task EXCEPT ![t] = new]
      PROVE  OpInv'
  <2> HIDE DEF OfKind
  <2> QED
    BY <1>1, <1>2
<1>3. CASE UNCHANGED task
  BY <1>3
<1>4. CASE \/ \E c \in Client : SocketError(c) \/ SocketClose(c)
           \/ \E c \in Client : Register(c) \/ Heartbeat(c)
           \/ ClassifyAllPeers
  <2>1. \/ task' = task
        \/ \E t \in Task, c \in Client, rest \in SUBSET Client :
             \/ Starts(t, "disconnect", c, "dcGet", {})
             \/ Starts(t, "register", c, "hSet", {})
             \/ Starts(t, "heartbeat", c, "refresh", {})
             \/ Starts(t, "sweep", c, "getPeer", rest)
    BY <1>1, <1>4, LeaveCases, MessageCases, SweepCase
  <2> QED
    BY <1>2, <1>3, <2>1 DEF Starts
<1>5. CASE RedisExec
  <2>1. PICK t \in Task, r \in Reply \ {"pending"} : Executes(t, r)
    BY <1>1, <1>5, ExecCase
  <2> QED
    BY <1>2, <2>1 DEF Executes
<1>6. CASE \E i \in Nat \ {0} : Resume(i)
  <2>1. PICK t \in Task, new \in TaskState :
          /\ task' = [task EXCEPT ![t] = new] /\ ResumeCase(task[t], new)
    BY <1>6, ResumeCases
  <2>2. OfKind(new)
    <3>1. CASE RegisterCase(task[t], new)
      BY <2>1, <3>1 DEF RegisterCase, Went, Onward, Idle
    <3>2. CASE HeartbeatCase(task[t], new)
      BY <2>1, <3>2 DEF HeartbeatCase, Went, Onward, Idle
    <3>3. CASE ClassifyCase(task[t], new)
      BY <2>1, <3>3 DEF ClassifyCase, Went, Onward, Idle
    <3>4. CASE DisconnectCase(task[t], new)
      BY <2>1, <3>4 DEF DisconnectCase, Went, Onward, Idle
    <3> QED
      BY <2>1, <3>1, <3>2, <3>3, <3>4 DEF ResumeCase
  <2> QED
    BY <1>2, <2>1, <2>2
<1>7. CASE RedisFault \/ Crash
  BY <1>7, DropCases DEF Idle
<1> QED
  BY <1>3, <1>4, <1>5, <1>6, <1>7, NextCases, QuietTasks

(* What is executed for another client leaves the keys of c alone.         *)
LEMMA KeysOfOthers ==
  ASSUME StoreTypeOK, NEW t \in Task, NEW r, Executes(t, r),
         NEW c \in Client, task[t].c # c
  PROVE  hash'[c] = hash[c] /\ \A s \in SetName : c \in sets'[s] <=> c \in sets[s]
<1>1. ExecuteCase(task[t].c, task[t].pc)
  BY StoreCases DEF Executes
<1> QED
  BY <1>1 DEF ExecuteCase, HashSet, SAdd, SRem, StoreTypeOK, Executes, SetName

(* What the connections of others do to a client that nothing names.       *)
LEMMA ForgottenStays ==
  ASSUME links \in ConnType, NEW c \in Client, Forgotten(links, c),
         \/ links' \in {links, NoLinks}
         \/ \E s \in Client \ {c}, p \in Client : links' = RegisterConnection(links, s, p)
         \/ \E s \in Client : \/ links' = HandleSuperPeerDisconnect(links, s)
                              \/ links' = CleanupPeerConnections(links, s)
  PROVE  Forgotten(links', c)
<1> USE ClientsAssumption DEF Forgotten, ConnType
<1>1. CASE links' \in {links, NoLinks}
  BY <1>1 DEF NoLinks
<1>2. CASE \E s \in Client \ {c}, p \in Client : links' = RegisterConnection(links, s, p)
  BY <1>2 DEF RegisterConnection
<1>3. ASSUME NEW k \in ConnType, Forgotten(k, c), NEW s \in Client
      PROVE  Forgotten(HandleSuperPeerDisconnect(k, s), c)
  BY <1>3 DEF HandleSuperPeerDisconnect
<1>4. ASSUME NEW s \in Client
      PROVE  RemoveConnection(links, s) \in ConnType /\ Forgotten(RemoveConnection(links, s), c)
  BY DEF RemoveConnection
<1> HIDE DEF Forgotten, ConnType
<1> QED
  BY <1>1, <1>2, <1>3, <1>4 DEF CleanupPeerConnections

(* How the connections change in a step.                                   *)
LEMMA LinksCases ==
  ASSUME TaskInv, DataOK, [Next]_vars
  PROVE  \/ links' \in {links, NoLinks}
         \/ \E s \in Client : \E p \in Client :
              /\ links' = RegisterConnection(links, s, p)
              /\ s \in registered /\ sock[s] = "open"
         \/ \E s \in Client : \/ links' = HandleSuperPeerDisconnect(links, s)
                              \/ links' = CleanupPeerConnections(links, s)
<1>1. CASE QuietStep
  BY <1>1 DEF QuietStep, Connect, CacheHave, Stats, Expire, P2PConnected, Broadcast,
              PruneOldEvents, Restart, vars, memVars
<1>2. CASE \E i \in Nat \ {0} : Resume(i)
  <2>1. PICK t \in Task, new \in TaskState :
          task[t].c \in Client /\ ResumeCase(task[t], new)
    BY <1>2, ResumeCases
  <2> QED
    BY <2>1 DEF ResumeCase, RegisterCase, HeartbeatCase, ClassifyCase, DisconnectCase
<1>3. CASE RedisFault \/ Crash
  BY <1>3, DropCases DEF ForgetAll
<1>4. CASE links' = links
  BY <1>4
<1>5. registered \subseteq Client /\ StoreTypeOK
  BY DEF DataOK
<1> QED
  BY <1>1, <1>2, <1>3, <1>4, <1>5, NextCases, LeaveCases, MessageCases, SweepCase, ExecCase

(* A client that stays here, and whose hash is found, stays registered.    *)
LEMMA StaysRegistered ==
  ASSUME IInv, [Next]_vars, NEW c \in registered, Steady(c)'
  PROVE  c \in registered' /\ Steady(c)
<1> USE DEF IInv
<1>1. c \in Client /\ registered \subseteq Client /\ StoreTypeOK
  BY DEF DataOK
<1>2. Here(c) /\ past[c] \subseteq past'[c] /\ sock[c] # "new"
  BY <1>1, SockStep DEF Steady, NewInv
<1> SUFFICES c \in registered'
  BY <1>2 DEF Steady
<1>3. CASE \E i \in Nat \ {0} : Resume(i)
  <2>1. PICK t \in Task, new \in TaskState :
          ResumeCase(task[t], new) /\ task[t].c \in Client
    BY <1>3, ResumeCases
  <2>2. task[t].op = "disconnect" => task[t].c # c
    BY <1>1, <1>2 DEF GoneInv
  <2>3. Mark({task[t].c}, "lapsed") => task[t].c # c
    BY <1>1, <2>1, MarkType DEF Steady
  <2> QED
    BY <2>1, <2>2, <2>3 DEF ResumeCase, RegisterCase, HeartbeatCase, ClassifyCase, DisconnectCase
<1>4. CASE RedisFault \/ Crash
  <2>1. ~ ForgetAll
    BY <1>1, <1>2 DEF ForgetAll, Steady, Here
  <2> QED
    BY <1>4, <2>1, DropCases
<1>5. CASE QuietStep
  BY <1>5 DEF QuietStep, Connect, CacheHave, Stats, Expire, P2PConnected, Broadcast,
              PruneOldEvents, Restart, vars, memVars
<1> QED
  BY <1>1, <1>3, <1>4, <1>5, NextCases, LeaveCases, MessageCases, SweepCase, ExecCase

(* What is outside stays so until its registration adds it.                *)
LEMMA OpenStep ==
  ASSUME IInv, OpInv, OpenInv, [Next]_vars
  PROVE  OpenInv'
<1> USE DEF IInv
<1> SUFFICES ASSUME NEW c \in Client, Steady(c)' PROVE Known(c)'
  BY DEF OpenInv
<1>1. /\ task \in [Task -> TaskState] /\ registered \subseteq Client /\ StoreTypeOK
      /\ DataOK' /\ links \in ConnType
  BY DataOKStep DEF TaskInv, TasksOK, DataOK
<1>2. /\ Steady(c) /\ Here(c) /\ Known(c) /\ past[c] \subseteq past'[c]
      /\ \A d \in Client : Here(d)' => Here(d)
  BY SockStep DEF Steady, OpenInv
<1>3. CASE c \in registered
  <2>1. c \in registered' /\ "register" \in past'[c]
    BY <1>2, <1>3, StaysRegistered DEF Known
  <2> QED
    BY <2>1 DEF Known
<1>4. CASE c \in registered' /\ "register" \in past[c]
  BY <1>2, <1>4 DEF Known
<1> SUFFICES ASSUME c \notin registered PROVE Known(c)'
  BY <1>3
<1>5. /\ Outside(c)
      /\ \A t \in Task : task[t].c = c =>
           task[t].op = "register" /\ task[t].pc \in EntryPC /\ "register" \in past[c]
  BY <1>2 DEF Known, Outside, OpInv, OfKind, RegisterPC, EntryPC, Doing, Serving
<1>6. Forgotten(links', c)
  BY <1>1, <1>5, LinksCases, ForgottenStays DEF Outside
<1>7. ASSUME c \notin registered', c \notin cached' \cup scored', past'[c] = past[c],
             hash'[c] \in {hash[c], NoHash}, \A s \in SetName : c \in sets'[s] => c \in sets[s],
             \A t \in Task : c \notin task'[t].rest,
             \A t \in Task : task'[t].c = c => task'[t] = task[t],
             \A t \in Task : task[t].c = c => task'[t].c = c
      PROVE  Known(c)'
  <2>1. Known(c)!1' /\ Known(c)!2'
    BY <1>2, <1>7 DEF Known, Doing, Serving
  <2>2. c \notin sets'["super"] /\ hash'[c].status # "super"
    BY <1>5, <1>7 DEF Outside, NoHash, SetName
  <2>3. (\A t \in Task : task'[t].c # c) => NoKeys(c)'
    BY <1>5, <1>7 DEF Outside, NoKeys
  <2>4. \A t \in Task : task'[t].c = c => task'[t].op = "register"
    BY <1>5, <1>7 DEF Outside
  <2> QED
    BY <1>6, <1>7, <2>1, <2>2, <2>3, <2>4 DEF Known, Outside
<1>8. CASE QuietStep
  <2>1. TaskInv' /\ UNCHANGED <<task, registered, past>>
    BY <1>8, QuietTasks DEF QuietStep, Connect, CacheHave, Stats, Expire, P2PConnected, Broadcast,
       PruneOldEvents, Restart, vars, memVars
  <2>2. c \notin cached' \cup scored'
    BY <1>5, <1>8 DEF Outside, QuietStep, Connect, CacheHave, Stats, Expire, P2PConnected,
       Broadcast, PruneOldEvents, Restart, vars, memVars
  <2>3. hash'[c] \in {hash[c], NoHash} /\ \A s \in SetName : c \in sets'[s] => c \in sets[s]
    BY <1>1, <1>8 DEF QuietStep, Connect, CacheHave, Stats, Expire, KeyExpires, Del, P2PConnected,
       Broadcast, PruneOldEvents, Restart, CleanupStaleSets, vars, storeVars, StoreTypeOK
  <2> QED
    BY <1>5, <1>7, <2>1, <2>2, <2>3 DEF Outside
<1>9. ASSUME UNCHANGED <<registered, cached, scored, hash, sets>>, past'[c] = past[c],
             NEW t \in Task, NEW op \in Op, NEW d \in Client \ {c}, NEW pc, NEW rest \in SUBSET Client,
             c \notin rest, Starts(t, op, d, pc, rest)
      PROVE  Known(c)'
  <2>1. /\ task'[t].c = d /\ task'[t].rest = rest /\ task[t].c # c
        /\ \A u \in Task \ {t} : task'[u] = task[u]
    BY <1>1, <1>9 DEF Starts, TaskInv, TasksOK
  <2> QED
    BY <1>5, <1>7, <1>9, <2>1 DEF Outside
<1>10. CASE \E d \in Client : SocketError(d) \/ SocketClose(d)
  <2>1. PICK d \in Client : SocketError(d) \/ SocketClose(d)
    BY <1>10
  <2>2. d # c /\ past'[c] = past[c]
    BY <1>1, <2>1, LeaveCases DEF Steady, Here, DataOK, MarkRaces
  <2>3. CASE UNCHANGED task
    BY <1>5, <1>7, <2>1, <2>2, <2>3, LeaveCases DEF Outside
  <2>4. CASE \E t \in Task : Starts(t, "disconnect", d, "dcGet", {})
    BY <1>9, <2>1, <2>2, <2>4, LeaveCases DEF Op
  <2> QED
    BY <2>1, <2>3, <2>4, LeaveCases
<1>11. CASE \E d \in Client : Register(d) \/ Heartbeat(d)
  <2>1. PICK d \in Client : Register(d) \/ Heartbeat(d)
    BY <1>11
  <2>2. PICK t \in Task : \/ Starts(t, "register", d, "hSet", {})
                          \/ Starts(t, "heartbeat", d, "refresh", {})
    BY <2>1, MessageCases
  <2>3. CASE d # c
    <3>1. past'[c] = past[c]
      BY <2>1, <2>3, MessageCases DEF Mark, DataOK
    <3>2. UNCHANGED <<registered, cached, scored, hash, sets>>
      BY <2>1, MessageCases
    <3>3. PICK op \in Op, pc \in PC : Starts(t, op, d, pc, {})
      BY <2>2 DEF Op, PC, RegisterPC
    <3> QED
      BY <1>9, <2>3, <3>1, <3>2, <3>3
  <2>4. CASE d = c
    <3>1. Register(c)
      BY <2>1, <2>4 DEF Heartbeat
    <3>2. PICK u \in Task : Starts(u, "register", c, "hSet", {})
      BY <3>1 DEF Register, Start, Starts
    <3>3. "register" \in past'[c]
      BY <1>2, <3>1 DEF Register, Mark
    <3>4. /\ task'[u].c = c /\ task'[u].op = "register" /\ task'[u].pc = "hSet"
          /\ task'[u].rest = {} /\ \A v \in Task \ {u} : task'[v] = task[v]
      BY <1>1, <3>2 DEF Starts
    <3>5. UNCHANGED <<registered, cached, scored, hash, sets>>
      BY <3>1, MessageCases
    <3>6. Outside(c)'
      BY <1>5, <1>6, <3>4, <3>5 DEF Outside
    <3>7. \A v \in Task : task'[v].c = c => task'[v].pc \notin {"loadRep", "saveRep"}
      BY <1>5, <3>4 DEF EntryPC
    <3> QED
      BY <3>3, <3>6, <3>7 DEF Known
  <2> QED
    BY <2>3, <2>4
<1>12. CASE ClassifyAllPeers
  <2>1. PICK t \in Task, d \in registered : Starts(t, "sweep", d, "getPeer", registered \ {d})
    BY <1>1, <1>12, SweepCase
  <2>2. past'[c] = past[c] /\ registered \ {d} \in SUBSET Client
    BY <1>1, <1>12, SweepCase DEF Mark, DataOK
  <2>3. UNCHANGED <<registered, cached, scored, hash, sets>>
    BY <1>1, <1>12, SweepCase
  <2> QED
    BY <1>1, <1>9, <2>1, <2>2, <2>3 DEF Op
<1>13. CASE RedisExec
  <2>1. PICK t \in Task, r \in Reply \ {"pending"} : Executes(t, r)
    BY <1>1, <1>13, ExecCase
  <2>2. UNCHANGED <<registered, cached, scored, past>>
    BY <1>1, <1>13, ExecCase
  <2>3. \A u \in Task : /\ task'[u].c = task[u].c /\ task'[u].pc = task[u].pc
                        /\ task'[u].op = task[u].op /\ task'[u].rest = task[u].rest
                        /\ u # t => task'[u] = task[u]
    BY <1>1, <2>1 DEF Executes
  <2>4. CASE task[t].c # c
    <3>1. hash'[c] = hash[c] /\ \A s \in SetName : c \in sets'[s] <=> c \in sets[s]
      BY <1>1, <2>1, <2>4, KeysOfOthers
    <3>2. \A u \in Task : task'[u].c = c => task'[u] = task[u]
      BY <2>3, <2>4
    <3> QED
      BY <1>5, <1>7, <2>2, <2>3, <3>1, <3>2 DEF Outside
  <2>5. CASE task[t].c = c
    <3>1. ExecuteCase(c, task[t].pc) /\ task[t].pc \in EntryPC
      BY <1>1, <1>5, <2>1, <2>5, StoreCases DEF Executes
    <3>2. c \notin sets'["super"] /\ hash'[c].status # "super"
      BY <1>1, <1>5, <3>1 DEF ExecuteCase, HashSet, SAdd, SRem, StoreTypeOK, EntryPC, Outside, SetName
    <3>3. Outside(c)'
      BY <1>5, <1>6, <2>2, <2>3, <2>5, <3>2 DEF Outside
    <3>4. \A u \in Task : task'[u].c = c => task'[u].pc \notin {"loadRep", "saveRep"}
      BY <1>5, <2>3 DEF EntryPC
    <3> QED
      BY <1>5, <2>2, <2>5, <3>3, <3>4 DEF Known
  <2> QED
    BY <2>4, <2>5
<1>14. CASE \E i \in Nat \ {0} : Resume(i)
  <2>1. PICK t \in Task, new \in TaskState :
          /\ task' = [task EXCEPT ![t] = new] /\ ResumeCase(task[t], new)
          /\ task[t].reply # "pending" /\ task[t].c \in Client /\ UNCHANGED <<hash, sets>>
    BY <1>14, ResumeCases
  <2>2. \A u \in Task : task'[u] = IF u = t THEN new ELSE task[u]
    BY <1>1, <2>1
  <2>3. CASE task[t].c # c
    <3>1. c \notin registered' /\ c \notin cached' \cup scored'
      BY <1>5, <2>1, <2>3 DEF Outside, ResumeCase, RegisterCase, HeartbeatCase, ClassifyCase,
         DisconnectCase
    <3>2. past'[c] = past[c]
      BY <2>1, <2>3 DEF Mark, DataOK, ResumeCase, RegisterCase, HeartbeatCase, ClassifyCase,
         DisconnectCase
    <3>3. new.c # c /\ c \notin new.rest
      BY <1>5, <2>1, <2>3, ClientsAssumption DEF Outside, ResumeCase, RegisterCase, HeartbeatCase,
         ClassifyCase, DisconnectCase, Went, Onward, Idle
    <3> QED
      BY <1>5, <1>7, <2>1, <2>2, <2>3, <3>1, <3>2, <3>3 DEF Outside
  <2>4. CASE task[t].c = c
    <3>1. RegisterCase(task[t], new) /\ task[t].pc \in EntryPC
      BY <1>5, <2>1, <2>4 DEF ResumeCase, HeartbeatCase, ClassifyCase, DisconnectCase
    <3>2. CASE task[t].pc = "addCasual"
      BY <1>4, <1>5, <2>4, <3>1, <3>2 DEF RegisterCase
    <3>3. CASE task[t].pc # "addCasual"
      <4>1. /\ UNCHANGED <<registered, cached, scored, past>>
            /\ new.c = c /\ new.op = "register" /\ c \notin new.rest
            /\ new.pc \notin {"loadRep", "saveRep"}
        BY <1>5, <2>4, <3>1, <3>3 DEF RegisterCase, Went, Onward, EntryPC, Outside
      <4>2. Outside(c)'
        BY <1>5, <1>6, <2>1, <2>2, <2>4, <4>1 DEF Outside
      <4> QED
        BY <1>2, <1>5, <2>2, <2>4, <4>1, <4>2 DEF Known, EntryPC
    <3> QED
      BY <3>2, <3>3
  <2> QED
    BY <2>3, <2>4
<1>15. CASE RedisFault \/ Crash
  <2>1. \A u \in Task : task[u].c # c
    <3>1. CASE ForgetAll
      BY <1>1, <3>1 DEF ForgetAll, Steady, Here, NewInv, DataOK
    <3>2. CASE ~ ForgetAll
      BY <1>15, <3>2, DropCases, MarkType DEF Steady
    <3> QED
      BY <3>1, <3>2
  <2>2. /\ c \notin registered' /\ c \notin cached' \cup scored'
        /\ UNCHANGED <<hash, sets>> /\ \A u \in Task : task'[u] = Idle
    BY <1>5, <1>15, DropCases DEF Outside, ForgetAll
  <2>3. past'[c] = past[c]
    BY <1>15, <2>1, DropCases DEF Mark, DataOK
  <2> QED
    BY <1>7, <2>1, <2>2, <2>3, ClientsAssumption DEF Idle
<1> QED
  BY <1>8, <1>10, <1>11, <1>12, <1>13, <1>14, <1>15, NextCases

(* The status and the sets of a client that registered once.               *)
LEMMA RoleStep ==
  ASSUME IInv, OpInv, OpenInv, RoleInv, [Next]_vars
  PROVE  RoleInv'
<1> USE DEF IInv
<1> SUFFICES ASSUME NEW c \in Client, Once(c)' PROVE Settled(c)'
  BY DEF RoleInv
<1>1. /\ task \in [Task -> TaskState] /\ registered \subseteq Client /\ StoreTypeOK
      /\ DataOK' /\ Steady(c)' /\ Here(c)' /\ GoneInv' /\ Known(c)'
  BY DataOKStep, GoneStep, OpenStep DEF TaskInv, TasksOK, DataOK, Once, Steady, OpenInv
<1>2. /\ Once(c) /\ Steady(c) /\ Here(c) /\ Known(c) /\ Settled(c)
      /\ past[c] \subseteq past'[c] /\ (c \in registered => c \in registered')
  BY SockStep, StaysRegistered DEF Once, Steady, OpenInv, RoleInv
<1>3. c \notin registered => /\ Outside(c)
                             /\ \A t \in Task : task[t].c = c => Registers(t, c)
  BY <1>2 DEF Known, Outside, Registers
<1>4. /\ \A t \in Task : task[t].c = c =>
           task[t].op # "disconnect" /\ task[t].pc \notin DisconnectPC \cup DemotePC
      /\ \A t \in Task : task'[t].c = c => task'[t].pc \notin DemotePC
  BY <1>1, <1>2 DEF GoneInv
<1>5. ASSUME c \in registered' <=> c \in registered,
             hash'[c] \in {hash[c], NoHash},
             \A s \in Status : c \in sets'[s] <=> c \in sets[s],
             \A t \in Task : Registers(t, c)' => Registers(t, c),
             \A t \in Task : task'[t].c = c /\ task'[t].pc \in EntryPC => task'[t] = task[t],
             \A t \in Task : Promoted(t, c)' => Promoted(t, c),
             \A t \in Task : WillRemove(t, c) => WillRemove(t, c)',
             \A t \in Task : WillAdd(t, c) => WillAdd(t, c)'
      PROVE  Settled(c)'
  <2>1. Settled(c)!1'
    BY <1>2, <1>5 DEF Settled
  <2>2. Settled(c)!2'
    BY <1>2, <1>5 DEF Settled, EntryPC, Status
  <2>3. c \in registered' => \A t \in Task : task'[t].c = c => task'[t].pc \notin EntryPC
    BY <1>2, <1>5 DEF Settled
  <2>4. c \in registered' => Agrees(c)'
    <3>1. hash'[c].full => hash'[c] = hash[c]
      BY <1>5 DEF NoHash
    <3> QED
      BY <1>2, <1>5, <3>1 DEF Settled, Agrees, Status
  <2> QED
    BY <2>1, <2>2, <2>3, <2>4 DEF Settled
<1> USE DEF Registers, Promoted, WillRemove, WillAdd
<1>6. ASSUME c \in registered' <=> c \in registered, hash'[c] \in {hash[c], NoHash},
             \A s \in Status : c \in sets'[s] <=> c \in sets[s],
             NEW t \in Task, NEW new, task' = [task EXCEPT ![t] = new], task[t].c # c,
             new.c = c => new.op # "register" /\ new.pc \notin EntryPC \cup PromotePC
      PROVE  Settled(c)'
  <2>1. \A u \in Task : task'[u] = IF u = t THEN new ELSE task[u]
    BY <1>1, <1>6
  <2> QED
    BY <1>5, <1>6, <2>1 DEF PromotePC
<1>7. CASE QuietStep
  <2>1. TaskInv' /\ UNCHANGED <<task, registered>>
    BY <1>7, QuietTasks DEF QuietStep, Connect, CacheHave, Stats, Expire, P2PConnected, Broadcast,
       PruneOldEvents, Restart, vars, memVars
  <2>2. hash'[c] \in {hash[c], NoHash}
    BY <1>1, <1>7 DEF QuietStep, Connect, CacheHave, Stats, Expire, KeyExpires, Del, P2PConnected,
       Broadcast, PruneOldEvents, Restart, CleanupStaleSets, vars, storeVars, StoreTypeOK
  <2>3. ~ Restart \/ sock[c] = "new"
    <3>1. Restart => ~ up
      BY DEF Restart
    <3> QED
      BY <1>2, <3>1 DEF NewInv, Here
  <2>4. CASE ~ Restart
    <3>1. sets' = sets
      BY <1>7, <2>4 DEF QuietStep, Connect, CacheHave, Stats, Expire, KeyExpires, Del, P2PConnected,
         Broadcast, PruneOldEvents, vars, storeVars
    <3> QED
      BY <1>5, <2>1, <2>2, <3>1
  <2>5. CASE sock[c] = "new"
    BY <2>1, <2>5 DEF NewInv, Settled
  <2> QED
    BY <2>3, <2>4, <2>5
<1>8. CASE \E d \in Client : SocketError(d) \/ SocketClose(d)
  <2>1. PICK d \in Client : SocketError(d) \/ SocketClose(d)
    BY <1>8
  <2>2. d # c
    BY <1>1, <2>1, LeaveCases DEF Here, DataOK
  <2>3. CASE UNCHANGED task
    BY <1>5, <2>1, <2>3, LeaveCases
  <2>4. CASE \E t \in Task : Starts(t, "disconnect", d, "dcGet", {})
    <3>1. PICK t \in Task : Starts(t, "disconnect", d, "dcGet", {})
      BY <2>4
    <3>2. task[t].c # c
      BY <3>1 DEF Starts, TaskInv, TasksOK
    <3> QED
      BY <1>6, <2>1, <2>2, <3>1, <3>2, LeaveCases DEF Starts
  <2> QED
    BY <2>1, <2>3, <2>4, LeaveCases
<1>9. CASE \E d \in Client : Register(d) \/ Heartbeat(d)
  <2>1. PICK d \in Client : Register(d) \/ Heartbeat(d)
    BY <1>9
  <2>2. PICK t \in Task : \/ Starts(t, "register", d, "hSet", {})
                          \/ Starts(t, "heartbeat", d, "refresh", {})
    BY <2>1, MessageCases
  <2>3. UNCHANGED <<registered, hash, sets>>
    BY <2>1, MessageCases
  <2>4. CASE d # c
    <3>1. task[t].c # c
      BY <2>2 DEF Starts, TaskInv, TasksOK
    <3> QED
      BY <1>6, <2>2, <2>3, <2>4, <3>1 DEF Starts
  <2>5. CASE Heartbeat(c)
    <3>1. PICK u \in Task : Starts(u, "heartbeat", c, "refresh", {})
      BY <2>5 DEF Heartbeat, Start, Starts
    <3>2. task[u].c # c
      BY <3>1 DEF Starts, TaskInv, TasksOK
    <3> QED
      BY <1>6, <2>3, <3>1, <3>2 DEF Starts, EntryPC, PromotePC
  <2>6. CASE Register(c)
    <3>1. PICK u \in Task : Starts(u, "register", c, "hSet", {})
      BY <2>6 DEF Register, Start, Starts
    <3>2. c \notin registered /\ "register" \notin past[c]
      BY <1>1, <2>6 DEF Register, Mark, Once
    <3>3. \A v \in Task : task[v].c # c
      BY <1>2, <1>3, <3>2 DEF Known, Doing, Serving
    <3>4. \A v \in Task : task'[v].c = c => v = u /\ task'[v].pc = "hSet"
      BY <1>1, <3>1, <3>3 DEF Starts
    <3> QED
      BY <2>3, <3>2, <3>4 DEF Settled
  <2> QED
    BY <2>1, <2>4, <2>5, <2>6
<1>10. CASE ClassifyAllPeers
  <2>1. PICK t \in Task, d \in registered : Starts(t, "sweep", d, "getPeer", registered \ {d})
    BY <1>1, <1>10, SweepCase
  <2>2. task[t].c # c /\ UNCHANGED <<registered, hash, sets>>
    BY <1>1, <1>10, <2>1, SweepCase DEF Starts, TaskInv, TasksOK
  <2> QED
    BY <1>6, <2>1, <2>2 DEF Starts, EntryPC, PromotePC
<1>11. CASE RedisExec
  <2>1. PICK t \in Task, r \in Reply \ {"pending"} : Executes(t, r)
    BY <1>1, <1>11, ExecCase
  <2>2. UNCHANGED registered
    BY <1>1, <1>11, ExecCase
  <2>3. \A u \in Task : /\ task'[u].c = task[u].c /\ task'[u].pc = task[u].pc
                        /\ task'[u].op = task[u].op
                        /\ task'[u].reply = IF u = t THEN r ELSE task[u].reply
                        /\ u # t => task'[u] = task[u]
    BY <1>1, <2>1 DEF Executes
  <2>4. CASE task[t].c # c
    <3>1. hash'[c] = hash[c] /\ \A s \in SetName : c \in sets'[s] <=> c \in sets[s]
      BY <1>1, <2>1, <2>4, KeysOfOthers
    <3>2. \A u \in Task : task'[u].c = c => task'[u] = task[u]
      BY <2>3, <2>4
    <3>3. \A u \in Task : task[u].c = c => task'[u] = task[u]
      BY <2>3, <2>4
    <3> QED
      BY <1>5, <2>2, <3>1, <3>2, <3>3 DEF SetName, Status
  <2>5. CASE task[t].c = c /\ c \notin registered
    <3>1. ExecuteCase(c, task[t].pc) /\ task[t].pc \in RegisterPC
      BY <1>1, <1>3, <2>1, <2>5, StoreCases DEF Executes, OpInv, OfKind
    <3>2. /\ c \in sets["casual"] => c \in sets'["casual"]
          /\ task[t].pc = "addCasual" => c \in sets'["casual"]
      BY <1>1, <3>1 DEF ExecuteCase, HashSet, SAdd, SRem, StoreTypeOK, RegisterPC, SetName
    <3>3. Settled(c)!2'
      BY <1>2, <2>3, <2>5, <3>2 DEF Settled
    <3> QED
      BY <1>2, <2>2, <2>3, <2>5, <3>3 DEF Settled
  <2>6. CASE task[t].c = c /\ c \in registered
    <3>1. /\ ExecuteCase(c, task[t].pc)
          /\ task[t].pc \notin EntryPC \cup DisconnectPC \cup DemotePC
      BY <1>1, <1>2, <1>4, <2>1, <2>6, StoreCases DEF Executes, Settled
    <3>2. hash[c].full /\ hash[c].status = "casual" =>
            /\ c \in sets["casual"] /\ c \notin sets["super"]
            /\ \A u \in Task : ~ Promoted(u, c)
      BY <1>2, <2>6 DEF Settled, Agrees
    <3>3. hash[c].full /\ hash[c].status = "super" =>
            /\ c \notin sets["casual"] \/ \E u \in Task : WillRemove(u, c)
            /\ c \in sets["super"] \/ \E u \in Task : WillAdd(u, c)
      BY <1>2, <2>6 DEF Settled, Agrees
    <3>4. \A u \in Task \ {t} : /\ Promoted(u, c) <=> Promoted(u, c)'
                                /\ WillRemove(u, c) <=> WillRemove(u, c)'
                                /\ WillAdd(u, c) <=> WillAdd(u, c)'
      BY <2>3
    <3>5. Agrees(c)'
      <4>1. CASE task[t].pc = "setSuper"
        <5>1. hash'[c].status = "super" /\ sets' = sets
          BY <1>1, <3>1, <4>1 DEF ExecuteCase, HashSet, StoreTypeOK
        <5>2. WillRemove(t, c)' /\ WillAdd(t, c)'
          BY <2>3, <2>6, <4>1
        <5> QED
          BY <5>1, <5>2 DEF Agrees
      <4>2. CASE task[t].pc = "remCasual"
        <5>1. /\ hash' = hash /\ c \notin sets'["casual"] /\ sets'["super"] = sets["super"]
          BY <1>1, <3>1, <4>2 DEF ExecuteCase, SRem, StoreTypeOK, SetName
        <5>2. Promoted(t, c) /\ WillAdd(t, c)'
          BY <2>3, <2>6, <4>2
        <5> QED
          BY <3>2, <3>3, <3>4, <5>1, <5>2 DEF Agrees
      <4>3. CASE task[t].pc = "addSuper"
        <5>1. /\ hash' = hash /\ c \in sets'["super"] /\ sets'["casual"] = sets["casual"]
          BY <1>1, <3>1, <4>3 DEF ExecuteCase, SAdd, StoreTypeOK, SetName
        <5>2. Promoted(t, c) /\ ~ WillRemove(t, c)
          BY <2>6, <4>3
        <5> QED
          BY <3>2, <3>3, <3>4, <5>1, <5>2 DEF Agrees
      <4>4. CASE task[t].pc \notin PromotePC
        <5>1. /\ hash'[c].full = hash[c].full /\ hash'[c].status = hash[c].status
              /\ sets' = sets
          BY <1>1, <3>1, <4>4 DEF ExecuteCase, HashSet, StoreTypeOK, PromotePC, EntryPC,
                                  DemotePC, DisconnectPC
        <5>2. /\ ~ Promoted(t, c)' /\ ~ WillRemove(t, c) /\ ~ WillAdd(t, c)
          BY <2>3, <4>4 DEF PromotePC
        <5> QED
          BY <3>2, <3>3, <3>4, <5>1, <5>2 DEF Agrees
      <4> QED
        BY <4>1, <4>2, <4>3, <4>4 DEF PromotePC
    <3> QED
      BY <1>2, <2>2, <2>3, <2>6, <3>5 DEF Settled
  <2> QED
    BY <2>4, <2>5, <2>6
<1>12. CASE \E i \in Nat \ {0} : Resume(i)
  <2>1. PICK t \in Task, new \in TaskState :
          /\ task' = [task EXCEPT ![t] = new] /\ ResumeCase(task[t], new)
          /\ task[t].reply # "pending" /\ task[t].c \in Client /\ UNCHANGED <<hash, sets>>
    BY <1>12, ResumeCases
  <2>2. \A u \in Task : task'[u] = IF u = t THEN new ELSE task[u]
    BY <1>1, <2>1
  <2>3. CASE task[t].c # c
    <3>1. c \in registered' <=> c \in registered
      BY <1>2, <2>1, <2>3 DEF ResumeCase, RegisterCase, HeartbeatCase, ClassifyCase, DisconnectCase
    <3>2. new.c = c => new.op # "register" /\ new.pc \notin EntryPC \cup PromotePC
      BY <2>1, <2>3, ClientsAssumption DEF ResumeCase, RegisterCase, HeartbeatCase,
         ClassifyCase, DisconnectCase, Went, Onward, Idle, EntryPC, PromotePC
    <3> QED
      BY <1>6, <2>1, <2>3, <3>1, <3>2
  <2>4. CASE task[t].c = c /\ c \notin registered
    <3>1. RegisterCase(task[t], new)
      BY <1>3, <2>1, <2>4 DEF ResumeCase, HeartbeatCase, ClassifyCase, DisconnectCase
    <3>2. \A u \in Task : task[u].c = c => u = t
      BY <1>2, <1>3, <2>4 DEF Settled
    <3>3. CASE task[t].pc = "addCasual"
      <4>1. c \in sets["casual"] /\ c \notin sets["super"] /\ hash[c].status # "super"
        BY <1>2, <1>3, <2>1, <2>4, <3>3 DEF Settled, Outside
      <4>2. \A u \in Task : task'[u].c = c => u = t /\ task'[u].pc = "loadRep"
        BY <2>2, <3>1, <3>2, <3>3, ClientsAssumption DEF RegisterCase, Went, Onward, Idle
      <4>3. Agrees(c)'
        BY <2>1, <4>1, <4>2 DEF Agrees
      <4> QED
        BY <4>2, <4>3, <2>4, <3>1, <3>3 DEF Settled, EntryPC, RegisterCase
    <3>4. CASE task[t].pc # "addCasual"
      <4>1. c \notin registered'
        BY <2>4, <3>1, <3>4 DEF RegisterCase
      <4>2. \A u \in Task : task'[u].c = c => u = t /\ task'[u].reply = "pending"
        BY <2>2, <3>1, <3>2, <3>4, ClientsAssumption DEF RegisterCase, Went, Onward, Idle
      <4> QED
        BY <4>1, <4>2 DEF Settled
    <3> QED
      BY <3>3, <3>4
  <2>5. CASE task[t].c = c /\ c \in registered
    <3>1. task[t].pc \notin EntryPC \cup DemotePC /\ task[t].op # "disconnect"
      BY <1>2, <1>4, <2>5 DEF Settled
    <3>2. new.c = c => new.pc \notin EntryPC \cup DemotePC
      BY <1>4, <2>1, <2>2, <3>1, ClientsAssumption DEF ResumeCase, RegisterCase, HeartbeatCase,
         ClassifyCase, DisconnectCase, Went, Onward, Idle, EntryPC
    <3>3. new.c = c /\ new.op = "register" => task[t].op = "register"
      BY <2>1, <2>5 DEF ResumeCase, RegisterCase, HeartbeatCase, ClassifyCase, DisconnectCase,
         Went, Onward, Idle
    <3>4. /\ Promoted(t, c)' => Promoted(t, c)
          /\ WillRemove(t, c) => WillRemove(t, c)'
          /\ WillAdd(t, c) => WillAdd(t, c)'
      <4>1. CASE RegisterCase(task[t], new) \/ HeartbeatCase(task[t], new)
        BY <2>2, <4>1, ClientsAssumption DEF RegisterCase, HeartbeatCase, Went, Onward, Idle
      <4>2. CASE ClassifyCase(task[t], new)
        BY <2>1, <2>2, <2>5, <4>2, <3>1, ClientsAssumption DEF ClassifyCase, Went, Onward, Idle, DemotePC
      <4> QED
        BY <2>1, <3>1, <4>1, <4>2 DEF ResumeCase, DisconnectCase
    <3> QED
      BY <1>2, <1>5, <2>1, <2>2, <2>5, <3>2, <3>3, <3>4
  <2> QED
    BY <2>3, <2>4, <2>5
<1>13. CASE RedisFault \/ Crash
  <2>1. \A u \in Task : task[u].c # c
    <3>1. CASE ForgetAll
      BY <1>1, <3>1 DEF ForgetAll, Here, NewInv, DataOK
    <3>2. CASE ~ ForgetAll
      BY <1>1, <1>13, <3>2, DropCases, MarkType DEF Steady
    <3> QED
      BY <3>1, <3>2
  <2>2. /\ c \in registered' <=> c \in registered
        /\ UNCHANGED <<hash, sets>> /\ \A u \in Task : task'[u] = Idle
    BY <1>2, <1>13, DropCases DEF ForgetAll
  <2> QED
    BY <1>5, <2>1, <2>2, ClientsAssumption DEF Idle
<1> QED
  BY <1>7, <1>8, <1>9, <1>10, <1>11, <1>12, <1>13, NextCases

-----------------------------------------------------------------------------
(* A socket is left by its own error or close event.                       *)
LEMMA OwnEvent ==
  ASSUME TaskInv, DataOK, [Next]_vars, NEW c \in Client,
         sock'[c] \in {"errored", "closed"}, sock'[c] # sock[c]
  PROVE  sock[c] # "new" /\ (SocketError(c) \/ SocketClose(c))
<1>1. registered \subseteq Client /\ StoreTypeOK
  BY DEF DataOK
<1>2. CASE QuietStep
  BY <1>2 DEF QuietStep, Connect, CacheHave, Stats, Expire, P2PConnected, Broadcast,
              PruneOldEvents, Restart, vars, DataOK
<1>3. CASE \E d \in Client : SocketError(d) \/ SocketClose(d)
  <2>1. PICK d \in Client : SocketError(d) \/ SocketClose(d)
    BY <1>3
  <2>2. d = c
    BY <2>1, LeaveCases DEF DataOK
  <2> QED
    BY <2>1, <2>2, LeaveCases
<1>4. CASE RedisFault \/ Crash
  BY <1>4, DropCases DEF ForgetAll
<1>5. CASE \E i \in Nat \ {0} : Resume(i)
  BY <1>5 DEF Resume
<1> QED
  BY <1>1, <1>2, <1>3, <1>4, <1>5, NextCases, MessageCases, SweepCase, ExecCase

(* A classification of the client, by its heartbeat or by the sweep.       *)
Serves(c) == Doing("heartbeat", c) \/ Sweeping(c)

(* A client leaves: a disconnect removes what there is of it, or it was    *)
(* not registered and a handler that is marked works for it.               *)
LEMMA LeavingAccounted ==
  ASSUME IInv, OpenInv, NEW c \in Client, Departed(c)', past[c] \subseteq past'[c],
         sock[c] = "open", SocketError(c) \/ SocketClose(c)
  PROVE  Accounted(c)'
<1> USE DEF IInv
<1>1. task \in [Task -> TaskState]
  BY DEF TaskInv, TasksOK
<1>2. /\ MarkRaces(c) /\ UNCHANGED <<registered, cached, scored, links, hash, sets>>
      /\ \/ UNCHANGED task
         \/ \E t \in Task : Starts(t, "disconnect", c, "dcGet", {})
  BY LeaveCases
<1>3. /\ Doing("register", c) => "raced_register" \in past'[c]
      /\ Doing("heartbeat", c) \/ Sweeping(c) => "raced_classify" \in past'[c]
  BY <1>2 DEF MarkRaces, DataOK
<1>4. /\ Doing("register", c)' => Doing("register", c)
      /\ Doing("heartbeat", c)' \/ Sweeping(c)' => Doing("heartbeat", c) \/ Sweeping(c)
  BY <1>1, <1>2 DEF Doing, Sweeping, Serving, Starts
<1>5. CASE c \in registered
  <2>1. PICK t \in Task : Starts(t, "disconnect", c, "dcGet", {})
    BY <1>5 DEF SocketError, SocketClose, HandleDisconnect, Start, Starts
  <2>2. task'[t].c = c /\ task'[t].op = "disconnect" /\ task'[t].pc = "dcGet"
    BY <1>1, <2>1 DEF Starts
  <2>3. Doing("disconnect", c)'
    BY <2>2 DEF Doing, Serving
  <2>4. ASSUME NEW before, NEW at, "dcGet" \in before PROVE Due(c, before, at)'
    BY <2>2, <2>4 DEF Due
  <2>5. DelDue(c)' /\ AllDue(c)' /\ SuperDue(c)' /\ CasualDue(c)'
    BY <2>4 DEF DelDue, AllDue, SuperDue, CasualDue
  <2> QED
    BY <1>3, <1>4, <2>3, <2>5 DEF Accounted
<1>6. CASE c \notin registered
  <2>1. "lapsed" \notin past[c] => Known(c)
    BY DEF OpenInv, Steady, Here, Departed
  <2>2. "lapsed" \notin past[c] => c \notin cached \cup scored /\ Forgotten(links, c)
    BY <1>6, <2>1 DEF Known, Outside
  <2>3. past'[c] \cap {"lapsed", "raced_register"} = {} => NoKeys(c)
    BY <1>3, <1>6, <2>1 DEF Known, Outside, Doing, Serving
  <2> QED
    BY <1>2, <1>3, <1>4, <1>6, <2>2, <2>3 DEF Accounted, NoKeys, NoHash, SetName
<1> QED
  BY <1>5, <1>6

(* What a step must keep of a client that has left.                        *)
LEMMA StillAccounted ==
  ASSUME NEW c \in Client, Accounted(c), past[c] \subseteq past'[c],
         Doing("register", c)' => Doing("register", c),
         Serves(c)' => Serves(c) \/ "raced_classify" \in past'[c],
         c \in registered' => c \in registered \/ "raced_register" \in past'[c],
         c \in cached' => c \in cached, Forgotten(links, c) => Forgotten(links', c),
         c \in registered' \/ c \in cached' \/ c \in scored' \/ ~ Forgotten(links', c)
           => (Doing("disconnect", c) => Doing("disconnect", c)'),
         past'[c] \cap {"lapsed", "raced_register"} = {} =>
           /\ c \in scored' => c \in scored
           /\ c \in sets'["all"] => c \in sets["all"] /\ (AllDue(c) => AllDue(c)')
           /\ hash'[c].full => hash[c].full /\ (DelDue(c) => DelDue(c)'),
         past'[c] \cap {"lapsed", "raced_register", "raced_classify"} = {} =>
           /\ hash'[c].status # "none" => hash[c].status # "none" /\ (DelDue(c) => DelDue(c)')
           /\ c \in sets'["casual"] => c \in sets["casual"] /\ (CasualDue(c) => CasualDue(c)')
           /\ c \in sets'["super"] => c \in sets["super"] /\ (SuperDue(c) => SuperDue(c)')
  PROVE  Accounted(c)'
<1>1. /\ Doing("register", c)' => "raced_register" \in past'[c]
      /\ Serves(c)' => "raced_classify" \in past'[c]
  BY DEF Accounted, Serves
<1>2. c \in registered' => "raced_register" \in past'[c] \/ Doing("disconnect", c)'
  BY DEF Accounted
<1>3. "lapsed" \notin past'[c] =>
        /\ c \in cached' => Doing("disconnect", c)'
        /\ ~ Forgotten(links', c) => Doing("disconnect", c)'
  BY DEF Accounted
<1>4. past'[c] \cap {"lapsed", "raced_register"} = {} =>
        /\ c \in scored' => Doing("disconnect", c)'
        /\ c \in sets'["all"] => AllDue(c)'
        /\ hash'[c].full => DelDue(c)'
  BY DEF Accounted
<1>5. past'[c] \cap {"lapsed", "raced_register", "raced_classify"} = {} =>
        /\ hash'[c].status # "none" => DelDue(c)'
        /\ c \in sets'["casual"] => CasualDue(c)'
        /\ c \in sets'["super"] => SuperDue(c)'
  BY DEF Accounted
<1> QED
  BY <1>1, <1>2, <1>3, <1>4, <1>5 DEF Accounted, Serves

(* The handlers that wait for another command than a disconnect's have no  *)
(* part in what is due.                                                    *)
LEMMA DuesStay ==
  ASSUME NEW c \in Client,
         \A u \in Task : task[u].c = c /\ task[u].pc \in DisconnectPC => task'[u] = task[u]
  PROVE  /\ DelDue(c) => DelDue(c)'
         /\ AllDue(c) => AllDue(c)'
         /\ SuperDue(c) => SuperDue(c)'
         /\ CasualDue(c) => CasualDue(c)'
<1>1. ASSUME NEW before \in SUBSET DisconnectPC, NEW at \in DisconnectPC, Due(c, before, at)
      PROVE  Due(c, before, at)'
  <2>1. PICK u \in Task : /\ task[u].c = c
                          /\ \/ task[u].pc \in before
                             \/ task[u].pc = at /\ task[u].reply = "pending"
    BY <1>1 DEF Due
  <2>2. task'[u] = task[u]
    BY <1>1, <2>1
  <2> QED
    BY <2>1, <2>2 DEF Due
<1>2. DelDue(c) => DelDue(c)'
  BY <1>1 DEF DelDue, DisconnectPC
<1>3. AllDue(c) => AllDue(c)'
  BY <1>1 DEF AllDue, DisconnectPC
<1>4. SuperDue(c) => SuperDue(c)'
  BY <1>1 DEF SuperDue, DisconnectPC
<1>5. CasualDue(c) => CasualDue(c)'
  BY <1>1 DEF CasualDue, DisconnectPC
<1> QED
  BY <1>2, <1>3, <1>4, <1>5

(* The disconnects of a client keep what they have yet to do, and whatever *)
(* is left of it has no cause but those marked.                            *)
LEMMA LeaveStep ==
  ASSUME IInv, OpInv, OpenInv, LeaveInv, [Next]_vars
  PROVE  LeaveInv'
<1> USE DEF IInv
<1> SUFFICES ASSUME NEW c \in Client, Departed(c)' PROVE Accounted(c)'
  BY DEF LeaveInv
<1>1. /\ task \in [Task -> TaskState] /\ registered \subseteq Client /\ StoreTypeOK
      /\ links \in ConnType /\ past[c] \subseteq past'[c] /\ sock[c] # "lost"
  BY SockStep DEF TaskInv, TasksOK, DataOK, Departed
<1>2. CASE sock[c] \notin {"errored", "closed"}
  <2>1. sock[c] = "open" /\ (SocketError(c) \/ SocketClose(c))
    BY <1>1, <1>2, OwnEvent DEF Departed, DataOK
  <2> QED
    BY <1>1, <2>1, LeavingAccounted
<1> SUFFICES ASSUME sock[c] \in {"errored", "closed"} PROVE Accounted(c)'
  BY <1>2
<1>3. Departed(c) /\ Accounted(c) /\ "fault" \notin past'[c]
  BY <1>1 DEF Departed, LeaveInv
<1>4. Forgotten(links, c) => Forgotten(links', c)
  <2>1. ASSUME NEW s \in Client, sock[s] = "open" PROVE s # c
    BY <2>1
  <2> QED
    BY <1>1, <2>1, LinksCases, ForgottenStays
<1>5. ASSUME c \in registered' => c \in registered, c \in cached' => c \in cached,
             c \in scored' => c \in scored, hash'[c] \in {hash[c], NoHash},
             \A s \in SetName : c \in sets'[s] => c \in sets[s],
             \A u \in Task : task[u].c = c => task'[u] = task[u],
             Doing("register", c)' => Doing("register", c),
             Serves(c)' => Serves(c) \/ "raced_classify" \in past'[c]
      PROVE  Accounted(c)'
  <2>1. Doing("disconnect", c) => Doing("disconnect", c)'
    BY <1>5 DEF Doing, Serving
  <2>2. /\ hash'[c].full => hash[c].full
        /\ hash'[c].status # "none" => hash[c].status # "none"
    BY <1>5 DEF NoHash
  <2> QED
    BY <1>1, <1>3, <1>4, <1>5, <2>1, <2>2, DuesStay, StillAccounted DEF SetName
<1>6. ASSUME UNCHANGED <<registered, cached, scored, hash, sets>>,
             NEW t \in Task, NEW op \in Op, NEW d \in Client, NEW pc, NEW rest \in SUBSET Client,
             Starts(t, op, d, pc, rest), op = "register" => d # c,
             op = "heartbeat" => d # c,
             op = "sweep" /\ (d = c \/ c \in rest) => "raced_classify" \in past'[c]
      PROVE  Accounted(c)'
  <2>1. task[t].c # c
    BY <1>6 DEF Starts, TaskInv, TasksOK
  <2>2. /\ \A u \in Task \ {t} : task'[u] = task[u]
        /\ task'[t].op = op /\ task'[t].c = d /\ task'[t].rest = rest
    BY <1>1, <1>6 DEF Starts
  <2>3. Doing("register", c)' => Doing("register", c)
    BY <1>6, <2>2 DEF Doing, Serving
  <2>4. Serves(c)' => Serves(c) \/ "raced_classify" \in past'[c]
    BY <1>6, <2>2 DEF Serves, Sweeping, Doing, Serving
  <2> QED
    BY <1>5, <1>6, <2>1, <2>2, <2>3, <2>4
<1>7. CASE QuietStep
  <2>1. TaskInv' /\ UNCHANGED <<task, registered>>
    BY <1>7, QuietTasks DEF QuietStep, Connect, CacheHave, Stats, Expire, P2PConnected, Broadcast,
       PruneOldEvents, Restart, vars, memVars
  <2>2. (c \in cached' => c \in cached) /\ (c \in scored' => c \in scored)
    BY <1>7 DEF QuietStep, Connect, CacheHave, Stats, Expire, P2PConnected,
       Broadcast, PruneOldEvents, Restart, vars, memVars
  <2>3. hash'[c] \in {hash[c], NoHash} /\ \A s \in SetName : c \in sets'[s] => c \in sets[s]
    BY <1>1, <1>7 DEF QuietStep, Connect, CacheHave, Stats, Expire, KeyExpires, Del, P2PConnected,
       Broadcast, PruneOldEvents, Restart, CleanupStaleSets, vars, storeVars, StoreTypeOK
  <2>4. (Doing("register", c)' => Doing("register", c)) /\ (Serves(c)' => Serves(c))
    BY <2>1 DEF Doing, Serves, Sweeping, Serving
  <2> QED
    BY <1>5, <2>1, <2>2, <2>3, <2>4
<1>8. CASE \E d \in Client : SocketError(d) \/ SocketClose(d)
  <2>1. PICK d \in Client : SocketError(d) \/ SocketClose(d)
    BY <1>8
  <2>2. UNCHANGED <<registered, cached, scored, hash, sets>>
    BY <2>1, LeaveCases
  <2>3. CASE UNCHANGED task
    <3>1. (Doing("register", c)' => Doing("register", c)) /\ (Serves(c)' => Serves(c))
      BY <2>3 DEF Doing, Serves, Sweeping, Serving
    <3> QED
      BY <1>5, <2>2, <2>3, <3>1
  <2>4. CASE \E t \in Task : Starts(t, "disconnect", d, "dcGet", {})
    BY <1>6, <2>2, <2>4 DEF Op
  <2> QED
    BY <2>1, <2>3, <2>4, LeaveCases
<1>9. CASE \E d \in Client : Register(d) \/ Heartbeat(d)
  <2>1. PICK d \in Client : Register(d) \/ Heartbeat(d)
    BY <1>9
  <2>2. d # c /\ UNCHANGED <<registered, cached, scored, hash, sets>>
    BY <2>1, MessageCases
  <2>3. PICK t \in Task : \/ Starts(t, "register", d, "hSet", {})
                          \/ Starts(t, "heartbeat", d, "refresh", {})
    BY <2>1, MessageCases
  <2>4. PICK op \in {"register", "heartbeat"}, pc \in PC : Starts(t, op, d, pc, {})
    BY <2>3 DEF PC, RegisterPC
  <2> QED
    BY <1>6, <2>2, <2>4 DEF Op
<1>10. CASE ClassifyAllPeers
  <2>1. PICK t \in Task, d \in registered : Starts(t, "sweep", d, "getPeer", registered \ {d})
    BY <1>1, <1>10, SweepCase
  <2>2. UNCHANGED <<registered, cached, scored, hash, sets>>
    BY <1>1, <1>10, SweepCase
  <2>3. c \in registered => "raced_classify" \in past'[c]
    BY <1>1, <1>10, SweepCase, MarkType
  <2>4. PICK rest \in SUBSET Client : rest = registered \ {d}
    BY <1>1
  <2> QED
    BY <1>1, <1>6, <2>1, <2>2, <2>3, <2>4 DEF Op
<1>11. CASE RedisExec
  <2>1. PICK t \in Task, r \in Reply \ {"pending"} : Executes(t, r)
    BY <1>1, <1>11, ExecCase
  <2>2. UNCHANGED <<registered, cached, scored, past>>
    BY <1>1, <1>11, ExecCase
  <2>3. \A u \in Task : /\ task'[u].c = task[u].c /\ task'[u].pc = task[u].pc
                        /\ task'[u].op = task[u].op /\ task'[u].rest = task[u].rest
                        /\ u # t => task'[u] = task[u]
    BY <1>1, <2>1 DEF Executes
  <2>4. /\ Doing("register", c)' => Doing("register", c)
        /\ Doing("disconnect", c) => Doing("disconnect", c)'
        /\ Serves(c)' => Serves(c)
    BY <2>3 DEF Doing, Serves, Sweeping, Serving
  <2>5. CASE task[t].c # c
    <3>1. hash'[c] = hash[c] /\ \A s \in SetName : c \in sets'[s] <=> c \in sets[s]
      BY <1>1, <2>1, <2>5, KeysOfOthers
    <3> QED
      BY <1>5, <2>2, <2>3, <2>4, <2>5, <3>1
  <2>6. CASE task[t].c = c
    <3>1. ExecuteCase(c, task[t].pc) /\ OfKind(task[t]) /\ task[t].op \in Op
      BY <1>1, <2>1, <2>6, StoreCases DEF Executes, OpInv, Busy, TaskState, Op
    <3>2. CASE task[t].op = "register"
      <4>1. "raced_register" \in past'[c]
        BY <1>3, <2>2, <2>6, <3>2 DEF Accounted, Doing, Serving
      <4> QED
        BY <1>1, <1>3, <1>4, <2>2, <2>4, <4>1, StillAccounted
    <3>3. CASE task[t].op \in {"heartbeat", "sweep"}
      <4>1. "raced_classify" \in past'[c]
        BY <1>3, <2>2, <2>6, <3>3 DEF Accounted, Doing, Sweeping, Serving
      <4>2. task[t].pc \in {"refresh"} \cup ClassifyPC
        BY <3>1, <3>3 DEF OfKind
      <4>3. (hash'[c].full => hash[c].full) /\ (c \in sets'["all"] => c \in sets["all"])
        BY <1>1, <3>1, <4>2 DEF ExecuteCase, HashSet, SAdd, SRem, StoreTypeOK, SetName,
           ClassifyPC, PromotePC, DemotePC
      <4>4. \A u \in Task : task[u].c = c /\ task[u].pc \in DisconnectPC => task'[u] = task[u]
        BY <2>3, <4>2 DEF ClassifyPC, PromotePC, DemotePC, DisconnectPC
      <4> QED
        BY <1>1, <1>3, <1>4, <2>2, <2>4, <4>1, <4>3, <4>4, DuesStay, StillAccounted
    <3>4. CASE task[t].op = "disconnect"
      <4>1. task[t].pc \in DisconnectPC
        BY <3>1, <3>4 DEF OfKind
      <4>2. /\ hash'[c].full => hash[c].full /\ task[t].pc # "dcDel"
            /\ hash'[c].status # "none" => hash[c].status # "none" /\ task[t].pc # "dcDel"
        BY <1>1, <3>1, <4>1 DEF ExecuteCase, HashSet, SRem, StoreTypeOK, DisconnectPC
      <4>3. /\ c \in sets'["all"] => c \in sets["all"] /\ task[t].pc # "dcRemAll"
            /\ c \in sets'["super"] => c \in sets["super"] /\ task[t].pc # "dcRemSuper"
            /\ c \in sets'["casual"] => c \in sets["casual"] /\ task[t].pc # "dcRemCasual"
        BY <1>1, <3>1, <4>1 DEF ExecuteCase, HashSet, SRem, StoreTypeOK, DisconnectPC, SetName
      <4>4. ASSUME NEW before, NEW at, Due(c, before, at), task[t].pc # at
            PROVE  Due(c, before, at)'
        <5>1. PICK u \in Task : /\ task[u].c = c
                                /\ \/ task[u].pc \in before
                                   \/ task[u].pc = at /\ task[u].reply = "pending"
          BY <4>4 DEF Due
        <5>2. u # t => task'[u] = task[u]
          BY <2>3
        <5>3. task'[u].c = c /\ task'[u].pc = task[u].pc
          BY <2>3, <5>1
        <5> QED
          BY <4>4, <5>1, <5>2, <5>3 DEF Due
      <4>5. /\ task[t].pc # "dcDel" => (DelDue(c) => DelDue(c)')
            /\ task[t].pc # "dcRemAll" => (AllDue(c) => AllDue(c)')
            /\ task[t].pc # "dcRemSuper" => (SuperDue(c) => SuperDue(c)')
            /\ task[t].pc # "dcRemCasual" => (CasualDue(c) => CasualDue(c)')
        BY <4>4 DEF DelDue, AllDue, SuperDue, CasualDue
      <4> QED
        BY <1>1, <1>3, <1>4, <2>2, <2>4, <4>2, <4>3, <4>5, StillAccounted
    <3> QED
      BY <3>1, <3>2, <3>3, <3>4 DEF Op
  <2> QED
    BY <2>5, <2>6
<1>12. CASE \E i \in Nat \ {0} : Resume(i)
  <2>1. PICK t \in Task, new \in TaskState :
          /\ task' = [task EXCEPT ![t] = new] /\ ResumeCase(task[t], new)
          /\ Busy(t) /\ task[t].reply # "pending" /\ task[t].c \in Client
          /\ UNCHANGED <<hash, sets>>
    BY <1>12, ResumeCases
  <2>2. \A u \in Task : task'[u] = IF u = t THEN new ELSE task[u]
    BY <1>1, <2>1
  <2>3. OfKind(task[t])
    BY DEF OpInv
  <2>4. CASE task[t].c # c
    <3>1. /\ c \in registered' => c \in registered
          /\ c \in cached' => c \in cached
          /\ c \in scored' => c \in scored
      BY <2>1, <2>4 DEF ResumeCase, RegisterCase, HeartbeatCase, ClassifyCase, DisconnectCase
    <3>2. \/ new = Idle
          \/ new.c = task[t].c /\ new.op = task[t].op /\ new.rest = task[t].rest
          \/ new.op = "sweep" /\ new.rest \subseteq task[t].rest /\ new.c \in task[t].rest
      BY <2>1, <2>3 DEF ResumeCase, RegisterCase, HeartbeatCase, ClassifyCase, DisconnectCase,
         Went, Onward, OfKind
    <3>3. new.op \in {"heartbeat", "sweep"} /\ (new.c = c \/ c \in new.rest)
            => new.op = "sweep" /\ task[t].op = "sweep" /\ c \in task[t].rest
      BY <2>3, <2>4, <3>2, ClientsAssumption DEF Idle, OfKind
    <3>4. Doing("register", c)' => Doing("register", c)
      BY <2>2, <2>4, <3>2, ClientsAssumption DEF Doing, Serving, Idle
    <3>5. Serves(c)' => Serves(c)
      <4>1. ASSUME NEW u \in Task, \/ task'[u].op = "heartbeat" /\ task'[u].c = c
                                   \/ task'[u].op = "sweep" /\ (task'[u].c = c \/ c \in task'[u].rest)
            PROVE  \/ task[u].op = "heartbeat" /\ task[u].c = c
                   \/ task[u].op = "sweep" /\ (task[u].c = c \/ c \in task[u].rest)
        BY <2>2, <3>3, <4>1
      <4> QED
        BY <4>1 DEF Serves, Doing, Sweeping, Serving
    <3> QED
      BY <1>5, <2>1, <2>2, <2>4, <3>1, <3>4, <3>5
  <2>5. CASE task[t].c = c /\ task[t].op # "disconnect"
    <3>1. task[t].pc \notin DisconnectPC
      BY <2>3, <2>5, <2>1 DEF OfKind, RegisterPC, ClassifyPC, PromotePC, DemotePC, DisconnectPC, Busy,
        ResumeCase, RegisterCase, HeartbeatCase, ClassifyCase, DisconnectCase
    <3>2. \A u \in Task : task[u].c = c /\ task[u].pc \in DisconnectPC => task'[u] = task[u]
      BY <2>2, <3>1
    <3>3. Doing("disconnect", c) => Doing("disconnect", c)'
      BY <2>2, <2>5 DEF Doing, Serving
    <3>4. CASE RegisterCase(task[t], new)
      <4>1. "raced_register" \in past'[c]
        BY <1>1, <1>3, <2>5, <3>4 DEF Accounted, Doing, Serving, RegisterCase
      <4>2. (Doing("register", c)' => Doing("register", c)) /\ UNCHANGED <<cached>>
        BY <2>2, <2>5, <3>4 DEF RegisterCase, Doing, Serving
      <4>3. new.op # "heartbeat" /\ new.op # "sweep"
        BY <3>4 DEF RegisterCase, Went, Onward, Idle
      <4>4. Serves(c)' => Serves(c)
        BY <2>2, <4>3 DEF Serves, Doing, Sweeping, Serving
      <4> QED
        BY <1>1, <1>3, <1>4, <3>3, <4>1, <4>2, <4>4, StillAccounted
    <3>5. CASE HeartbeatCase(task[t], new) \/ ClassifyCase(task[t], new)
      <4>1. Serves(c)
        BY <2>5, <3>5 DEF HeartbeatCase, ClassifyCase, Serves, Doing, Sweeping, Serving
      <4>2. new.op # "register"
        BY <3>5 DEF HeartbeatCase, ClassifyCase, Went, Onward, Idle
      <4>3. Doing("register", c)' => Doing("register", c)
        BY <2>2, <4>2 DEF Doing, Serving
      <4>4. /\ c \in registered' => c \in registered
            /\ UNCHANGED <<cached, scored>>
        BY <3>5 DEF HeartbeatCase, ClassifyCase
      <4> QED
        BY <1>1, <1>3, <1>4, <2>1, <3>2, <3>3, <4>1, <4>3, <4>4, DuesStay, StillAccounted
    <3> QED
      BY <2>1, <2>5, <3>4, <3>5 DEF ResumeCase, DisconnectCase
  <2>6. CASE task[t].c = c /\ task[t].op = "disconnect"
    <3>1. DisconnectCase(task[t], new)
      BY <2>1, <2>6 DEF ResumeCase, RegisterCase, HeartbeatCase, ClassifyCase
    <3>2. new.op \in {"idle", "disconnect"} /\ (new.rest = {} \/ new.op = "disconnect")
      BY <2>6, <3>1 DEF DisconnectCase, Went, Onward, Idle
    <3>3. Doing("register", c)' => Doing("register", c)
      BY <2>2, <3>2 DEF Doing, Serving
    <3>4. Serves(c)' => Serves(c)
      BY <2>2, <3>2 DEF Serves, Doing, Sweeping, Serving
    <3>5. CASE task[t].pc = "dcRemCasual"
      <4>1. c \notin registered' \cup cached' \cup scored' /\ Forgotten(links', c)
        BY <2>6, <3>1, <3>5, CleanupPeerConnectionsInv DEF DisconnectCase
      <4>2. ASSUME NEW before, NEW at, "dcRemCasual" \notin before, Due(c, before, at)
            PROVE  Due(c, before, at)'
        <5>1. PICK u \in Task : /\ task[u].c = c
                                /\ \/ task[u].pc \in before
                                   \/ task[u].pc = at /\ task[u].reply = "pending"
          BY <4>2 DEF Due
        <5>2. task'[u] = task[u]
          BY <2>1, <2>2, <3>5, <4>2, <5>1
        <5> QED
          BY <5>1, <5>2 DEF Due
      <4>3. /\ DelDue(c) => DelDue(c)'
            /\ AllDue(c) => AllDue(c)'
            /\ SuperDue(c) => SuperDue(c)'
            /\ CasualDue(c) => CasualDue(c)'
        BY <4>2 DEF DelDue, AllDue, SuperDue, CasualDue
      <4> QED
        BY <1>1, <1>3, <2>1, <3>3, <3>4, <4>1, <4>3, StillAccounted
    <3>6. CASE task[t].pc # "dcRemCasual"
      <4>1. /\ new.c = c /\ new.op = "disconnect" /\ new.reply = "pending"
            /\ \/ task[t].pc = "dcGet" /\ new.pc = "dcDel"
               \/ task[t].pc = "dcDel" /\ new.pc = "dcRemAll"
               \/ task[t].pc = "dcRemAll" /\ new.pc = "dcRemSuper"
               \/ task[t].pc = "dcRemSuper" /\ new.pc = "dcRemCasual"
        BY <2>6, <3>1, <3>6 DEF DisconnectCase, Went, Onward
      <4>2. UNCHANGED <<registered, cached, scored>>
        BY <3>1, <3>6 DEF DisconnectCase
      <4>3. Doing("disconnect", c)'
        BY <2>2, <4>1 DEF Doing, Serving
      <4>4. ASSUME NEW before, NEW at, Due(c, before, at),
                   task[t].pc \in before => new.pc \in before \cup {at}
            PROVE  Due(c, before, at)'
        <5>1. PICK u \in Task : /\ task[u].c = c
                                /\ \/ task[u].pc \in before
                                   \/ task[u].pc = at /\ task[u].reply = "pending"
          BY <4>4 DEF Due
        <5>2. CASE u = t
          BY <2>1, <2>2, <4>1, <4>4, <5>1, <5>2 DEF Due
        <5>3. CASE u # t
          BY <2>2, <5>1, <5>3 DEF Due
        <5> QED
          BY <5>2, <5>3
      <4>5. DelDue(c) => DelDue(c)'
        BY <4>1, <4>4 DEF DelDue
      <4>6. AllDue(c) => AllDue(c)'
        BY <4>1, <4>4 DEF AllDue
      <4>7. SuperDue(c) => SuperDue(c)'
        BY <4>1, <4>4 DEF SuperDue
      <4>8. CasualDue(c) => CasualDue(c)'
        BY <4>1, <4>4 DEF CasualDue
      <4> QED
        BY <1>1, <1>3, <1>4, <2>1, <3>3, <3>4, <4>2, <4>3, <4>5, <4>6, <4>7, <4>8, StillAccounted
    <3> QED
      BY <3>5, <3>6
  <2> QED
    BY <2>4, <2>5, <2>6
<1>13. CASE RedisFault \/ Crash
  <2>1. ~ ForgetAll
    BY <1>1, <1>3 DEF ForgetAll, Departed
  <2>2. \A u \in Task : task[u].c # c
    BY <1>3, <1>13, <2>1, DropCases, MarkType
  <2>3. UNCHANGED <<registered, cached, scored, hash, sets>> /\ \A u \in Task : task'[u] = Idle
    BY <1>13, <2>1, DropCases
  <2>4. ~ Doing("register", c)' /\ ~ Serves(c)'
    BY <2>3, ClientsAssumption DEF Idle, Doing, Serves, Sweeping, Serving
  <2> QED
    BY <1>5, <2>2, <2>3, <2>4
<1> QED
  BY <1>7, <1>8, <1>9, <1>10, <1>11, <1>12, <1>13, NextCases

-----------------------------------------------------------------------------
(* The order of the commands of one client in the queue.                   *)

(* The i-th command begins a registration of the client and has not been   *)
(* executed.                                                               *)
Enters(i, c) == i > done /\ task[wire[i]].c = c /\ task[wire[i]].pc = "hSet"

(* The j-th command is of a heartbeat or a classification of the client.   *)
Judges(j, c) == task[wire[j]].c = c /\ task[wire[j]].pc \in {"refresh"} \cup ClassifyPC

(* A registration is sent before the client is registered, hence before    *)
(* any classification of it, and is executed before.                       *)
QueueInv ==
  \A c \in Client : Steady(c) =>
    \A i \in 1..Len(wire) : Enters(i, c) =>
      /\ hash[c].status # "super"
      /\ \A j \in 1..Len(wire) : Judges(j, c) => i < j

(* What a handler that goes on does to the queue.                          *)
LEMMA ResumeQueue ==
  ASSUME TaskInv, NEW i \in Nat \ {0}, Resume(i)
  PROVE  /\ i \in 1..done /\ done' = done - 1
         /\ \/ wire' = RemoveAt(wire, i)
            \/ wire' = Append(RemoveAt(wire, i), wire[i])
         /\ \E new : task' = [task EXCEPT ![wire[i]] = new] /\ new.pc # "hSet"
<1>1. i \in 1..done
  BY DEF Resume, TaskInv, TasksOK
<1> DEFINE Moves == /\ done' = done - 1
                    /\ \/ wire' = RemoveAt(wire, i)
                       \/ wire' = Append(RemoveAt(wire, i), wire[i])
                    /\ \E new : task' = [task EXCEPT ![wire[i]] = new] /\ new.pc # "hSet"
<1>2. ASSUME NEW c, NEW pc, NEW rest, pc # "hSet", Send(i, c, pc, rest)
      PROVE  Moves
  <2> DEFINE new == [op |-> task[wire[i]].op, c |-> c, pc |-> pc, reply |-> "pending",
                     rest |-> rest]
  <2>1. task' = [task EXCEPT ![wire[i]] = new] /\ new.pc # "hSet"
    BY <1>2 DEF Send
  <2> HIDE DEF new
  <2> QED
    BY <1>2, <2>1 DEF Send
<1>3. ASSUME Return(i) PROVE Moves
  <2>1. Idle.pc # "hSet"
    BY DEF Idle
  <2> QED
    BY <1>3, <2>1 DEF Return
<1> HIDE DEF Moves
<1>4. ASSUME NEW pc, pc # "hSet", Await(i, pc) PROVE Moves
  BY <1>2, <1>4 DEF Await
<1>5. RegisterStep(i) => Moves
  BY <1>3, <1>4 DEF RegisterStep
<1>6. HeartbeatStep(i) => Moves
  BY <1>3, <1>4 DEF HeartbeatStep
<1>7. EndClassify(i) => Moves
  BY <1>2, <1>3 DEF EndClassify
<1>8. ClassifyStep(i) => Moves
  BY <1>4, <1>7, NextCommands DEF ClassifyStep
<1>9. DisconnectStep(i) => Moves
  BY <1>3, <1>4, NextCommands DEF DisconnectStep
<1>10. Moves
  BY <1>5, <1>6, <1>8, <1>9 DEF Resume
<1> QED
  BY <1>1, <1>10 DEF Moves

(* A classification never comes before a registration still to be executed.*)
LEMMA QueueStep ==
  ASSUME IInv, OpInv, OpenInv, QueueInv, [Next]_vars
  PROVE  QueueInv'
<1> USE DEF IInv
<1> SUFFICES ASSUME NEW c \in Client, Steady(c)', NEW i \in 1..Len(wire'), Enters(i, c)'
             PROVE  /\ hash'[c].status # "super"
                    /\ \A j \in 1..Len(wire') : Judges(j, c)' => i < j
  BY DEF QueueInv
<1>1. /\ task \in [Task -> TaskState] /\ registered \subseteq Client /\ StoreTypeOK
      /\ wire \in Seq(Task) /\ Len(wire) \in Nat /\ done \in 0..Len(wire)
      /\ \A k \in 1..Len(wire) : wire[k] \in Task /\ Busy(wire[k])
  BY DEF TaskInv, TasksOK, DataOK
<1>2. Steady(c) /\ Here(c) /\ Known(c)
  BY SockStep DEF Steady, OpenInv
<1>3. ASSUME NEW k \in 1..Len(wire), Enters(k, c)
      PROVE  hash[c].status # "super" /\ \A j \in 1..Len(wire) : Judges(j, c) => k < j
  BY <1>2, <1>3 DEF QueueInv
<1> DEFINE Goal == /\ hash'[c].status # "super"
                   /\ \A j \in 1..Len(wire') : Judges(j, c)' => i < j
<1>4. ASSUME UNCHANGED taskVars, hash'[c] \in {hash[c], NoHash} PROVE Goal
  BY <1>3, <1>4 DEF taskVars, Enters, Judges, NoHash
<1>5. ASSUME NEW t, NEW op \in Op, NEW d, NEW pc, NEW rest, t \in Task, Start(t, op, d, pc, rest),
             hash' = hash, pc = "hSet" /\ d = c => c \notin registered
      PROVE  Goal
  <2>1. /\ wire' = Append(wire, t) /\ done' = done /\ Len(wire') = Len(wire) + 1
        /\ wire'[Len(wire) + 1] = t /\ \A k \in 1..Len(wire) : wire'[k] = wire[k] /\ wire[k] # t
    BY <1>1, <1>5 DEF Start
  <2>2. /\ task'[t].c = d /\ task'[t].pc = pc
        /\ \A u \in Task \ {t} : task'[u] = task[u]
    BY <1>1, <1>5 DEF Start
  <2>3. \A k \in 1..Len(wire) : (Enters(k, c)' => Enters(k, c)) /\ (Judges(k, c)' => Judges(k, c))
    BY <1>1, <2>1, <2>2 DEF Enters, Judges
  <2>4. CASE i \in 1..Len(wire)
    <3>1. Enters(i, c)
      BY <2>3, <2>4
    <3>2. ASSUME NEW j \in 1..Len(wire'), Judges(j, c)' PROVE i < j
      <4>1. CASE j \in 1..Len(wire)
        BY <1>3, <2>3, <2>4, <3>1, <3>2, <4>1
      <4>2. CASE j \notin 1..Len(wire)
        BY <1>1, <2>1, <2>4, <4>2
      <4> QED
        BY <4>1, <4>2
    <3> QED
      BY <1>3, <1>5, <2>4, <3>1, <3>2
  <2>5. CASE i \notin 1..Len(wire)
    <3>1. i = Len(wire) + 1 /\ d = c /\ pc = "hSet"
      BY <1>1, <2>1, <2>2, <2>5 DEF Enters
    <3>2. Outside(c) /\ hash[c].status # "super"
      BY <1>2, <1>5, <3>1 DEF Known, Outside
    <3>3. ASSUME NEW j \in 1..Len(wire'), Judges(j, c)' PROVE FALSE
      <4>1. j \in 1..Len(wire)
        BY <1>1, <2>1, <2>2, <3>1, <3>3 DEF Judges, ClassifyPC, PromotePC, DemotePC
      <4>2. Judges(j, c) /\ wire[j] \in Task
        BY <1>1, <2>3, <3>3, <4>1
      <4>3. task[wire[j]].op = "register" /\ task[wire[j]].pc \in RegisterPC
        BY <3>2, <4>2 DEF Outside, Judges, OpInv, OfKind
      <4> QED
        BY <4>2, <4>3 DEF Judges, RegisterPC, ClassifyPC, PromotePC, DemotePC
    <3> QED
      BY <1>5, <3>2, <3>3
  <2> QED
    BY <2>4, <2>5
<1>6. CASE QuietStep
  <2>1. UNCHANGED taskVars
    BY <1>6 DEF QuietStep, Connect, CacheHave, Stats, Expire, P2PConnected, Broadcast,
       PruneOldEvents, Restart, vars
  <2>2. hash'[c] \in {hash[c], NoHash}
    BY <1>1, <1>6 DEF QuietStep, Connect, CacheHave, Stats, Expire, KeyExpires, Del, P2PConnected,
       Broadcast, PruneOldEvents, Restart, CleanupStaleSets, vars, storeVars, StoreTypeOK
  <2> QED
    BY <1>4, <2>1, <2>2
<1>7. CASE \/ \E d \in Client : SocketError(d) \/ SocketClose(d) \/ Register(d) \/ Heartbeat(d)
           \/ ClassifyAllPeers
  <2>1. /\ hash' = hash
        /\ \/ UNCHANGED taskVars
           \/ \E t \in Task, op \in Op, d \in Client, pc \in PC, rest \in SUBSET Client :
                /\ Start(t, op, d, pc, rest)
                /\ pc = "hSet" /\ d = c => c \notin registered
    <3>1. ASSUME NEW d \in Client, SocketError(d) \/ SocketClose(d)
          PROVE  /\ hash' = hash
                 /\ \/ UNCHANGED taskVars
                    \/ \E t \in Task : Start(t, "disconnect", d, "dcGet", {})
      BY <3>1 DEF SocketError, SocketClose, HandleDisconnect, storeVars
    <3>2. ASSUME NEW d \in Client, Register(d)
          PROVE  /\ hash' = hash /\ d \notin registered
                 /\ \E t \in Task : Start(t, "register", d, "hSet", {})
      BY <3>2 DEF Register, storeVars
    <3>3. ASSUME NEW d \in Client, Heartbeat(d)
          PROVE  hash' = hash /\ \E t \in Task : Start(t, "heartbeat", d, "refresh", {})
      BY <3>3 DEF Heartbeat, storeVars
    <3>4. ASSUME ClassifyAllPeers
          PROVE  /\ hash' = hash
                 /\ \E t \in Task, d \in Client, rest \in SUBSET Client :
                      Start(t, "sweep", d, "getPeer", rest)
      <4>1. PICK t \in Task, d \in registered : Start(t, "sweep", d, "getPeer", registered \ {d})
        BY <3>4 DEF ClassifyAllPeers
      <4> QED
        BY <1>1, <3>4, <4>1 DEF ClassifyAllPeers, storeVars
    <3> QED
      BY <1>7, <3>1, <3>2, <3>3, <3>4 DEF Op, PC, RegisterPC, ClassifyPC, DisconnectPC
  <2>2. CASE UNCHANGED taskVars
    BY <1>4, <2>1, <2>2
  <2>3. CASE ~ UNCHANGED taskVars
    BY <1>5, <2>1, <2>3
  <2> QED
    BY <2>2, <2>3
<1>8. CASE RedisExec
  <2>1. PICK t \in Task, r \in Reply \ {"pending"} : Executes(t, r)
    BY <1>1, <1>8, ExecCase
  <2> DEFINE n == done + 1
  <2>2. /\ wire' = wire /\ done' = done + 1 /\ n \in 1..Len(wire)
        /\ Execute(task[wire[n]].c, task[wire[n]].pc)
    BY <1>1, <1>8 DEF RedisExec
  <2>3. \A u \in Task : task'[u].c = task[u].c /\ task'[u].pc = task[u].pc
    BY <1>1, <2>1 DEF Executes
  <2>4. Enters(i, c) /\ i > n /\ i \in 1..Len(wire) /\ \A j \in 1..Len(wire) : Judges(j, c)' => Judges(j, c)
    BY <1>1, <2>2, <2>3 DEF Enters, Judges
  <2>5. hash[c].status # "super" /\ \A j \in 1..Len(wire) : Judges(j, c) => i < j
    BY <1>3, <2>4
  <2>6. task[wire[n]].c = c => task[wire[n]].pc # "setSuper"
    <3>1. ~ Judges(n, c)
      BY <1>1, <2>2, <2>4, <2>5
    <3> QED
      BY <3>1 DEF Judges, ClassifyPC, PromotePC
  <2>7. hash'[c].status # "super"
    <3>1. task[wire[n]].c \in Client
      BY <1>1, <2>2 DEF TaskInv, TasksOK
    <3>2. ExecuteCase(task[wire[n]].c, task[wire[n]].pc)
      BY <1>1, <2>2, <3>1, StoreCases
    <3> HIDE DEF n
    <3> QED
      BY <1>1, <2>5, <2>6, <3>1, <3>2 DEF ExecuteCase, HashSet, SAdd, SRem, StoreTypeOK
  <2> QED
    BY <2>2, <2>4, <2>5, <2>7
<1>9. CASE \E k \in Nat \ {0} : Resume(k)
  <2>1. PICK k \in Nat \ {0} : Resume(k)
    BY <1>9
  <2>2. PICK new : task' = [task EXCEPT ![wire[k]] = new] /\ new.pc # "hSet"
    BY <2>1, ResumeQueue
  <2>3. k \in 1..done /\ done' = done - 1 /\ k \in 1..Len(wire) /\ hash' = hash
    BY <1>1, <2>1, ResumeQueue DEF Resume, storeVars
  <2>4. /\ Len(RemoveAt(wire, k)) = Len(wire) - 1 /\ RemoveAt(wire, k) \in Seq(Task)
        /\ \A j \in 1..(Len(wire) - 1) :
             /\ RemoveAt(wire, k)[j] = IF j < k THEN wire[j] ELSE wire[j + 1]
             /\ RemoveAt(wire, k)[j] # wire[k]
    BY <1>1, <2>3, RemoveAtElements, TakenOut DEF TaskInv, WireInv
  <2>5. /\ Len(wire') \in {Len(wire) - 1, Len(wire)}
        /\ \A j \in 1..(Len(wire) - 1) :
             /\ wire'[j] = IF j < k THEN wire[j] ELSE wire[j + 1]
             /\ wire'[j] # wire[k] /\ wire'[j] \in Task
        /\ Len(wire') = Len(wire) => wire'[Len(wire)] = wire[k]
    <3>1. wire' = RemoveAt(wire, k) \/ wire' = Append(RemoveAt(wire, k), wire[k])
      BY <2>1, ResumeQueue
    <3>2. CASE wire' = RemoveAt(wire, k)
      BY <1>1, <2>3, <2>4, <3>2
    <3>3. CASE wire' = Append(RemoveAt(wire, k), wire[k])
      BY <1>1, <2>3, <2>4, <3>3
    <3> QED
      BY <3>1, <3>2, <3>3
  <2>6. task'[wire[k]].pc # "hSet" /\ \A u \in Task : u # wire[k] => task'[u] = task[u]
    BY <1>1, <2>2, <2>3
  <2>7. i \in 1..(Len(wire) - 1) /\ i > done - 1
    BY <1>1, <2>3, <2>5, <2>6 DEF Enters
  <2>8. i + 1 \in 1..Len(wire) /\ ~ (i < k)
    BY <1>1, <2>3, <2>7
  <2>9. Enters(i + 1, c)
    BY <1>1, <2>3, <2>5, <2>6, <2>7, <2>8 DEF Enters
  <2>10. ASSUME NEW j \in 1..Len(wire'), Judges(j, c)' PROVE i < j
    <3>1. CASE j \in 1..(Len(wire) - 1)
      <4>1. \E old \in {j, j + 1} : old \in 1..Len(wire) /\ Judges(old, c)
        BY <1>1, <2>5, <2>6, <2>10, <3>1 DEF Judges
      <4> QED
        BY <1>1, <1>3, <2>8, <2>9, <3>1, <4>1
    <3>2. CASE j \notin 1..(Len(wire) - 1)
      BY <1>1, <2>5, <2>7, <3>2
    <3> QED
      BY <3>1, <3>2
  <2> QED
    BY <1>3, <2>3, <2>8, <2>9, <2>10
<1>10. CASE RedisFault \/ Crash
  <2>1. Len(wire') = 0
    BY <1>10 DEF RedisFault, Crash, DropTasks
  <2> QED
    BY <2>1
<1> QED
  BY <1>6, <1>7, <1>8, <1>9, <1>10, NextCases

(* What a client has reached is taken from it by no step while it is open. *)
LEMMA KeptStep ==
  ASSUME IInv, OpenInv, QueueInv, [Next]_vars, NEW c \in Client,
         sock'[c] = "open", past'[c] \subseteq {"register", "again"}
  PROVE  /\ c \in registered => c \in registered'
         /\ c \in scored => c \in scored'
         /\ c \in sets["super"] => c \in sets'["super"]
         /\ hash[c].status = "super" => hash'[c].status \in {"super", "none"}
<1> USE DEF IInv
<1>1. /\ task \in [Task -> TaskState] /\ registered \subseteq Client /\ StoreTypeOK
      /\ past[c] \subseteq past'[c] /\ Here(c)
  BY SockStep DEF TaskInv, TasksOK, DataOK, Here
<1>2. Steady(c)' /\ Steady(c)
  BY <1>1 DEF Steady, Here
<1>3. c \in registered => c \in registered'
  BY <1>2, StaysRegistered
<1>4. \A i \in 1..Len(wire) : Enters(i, c) => hash[c].status # "super"
  BY <1>2 DEF QueueInv
<1>5. \A t \in Task : task[t].c = c => /\ task[t].op # "disconnect"
                                       /\ task[t].pc \notin DisconnectPC \cup DemotePC
  BY <1>1 DEF GoneInv
<1> SUFFICES /\ c \in scored => c \in scored'
             /\ c \in sets["super"] => c \in sets'["super"]
             /\ hash[c].status = "super" => hash'[c].status \in {"super", "none"}
  BY <1>3
<1>6. CASE QuietStep
  <2>1. ~ Restart
    <3>1. Restart => sock' = sock /\ ~ up
      BY DEF Restart
    <3> QED
      BY <3>1 DEF NewInv
  <2>2. sets' = sets /\ hash'[c] \in {hash[c], NoHash}
    BY <1>1, <1>6, <2>1 DEF QuietStep, Connect, CacheHave, Stats, Expire, KeyExpires, Del, P2PConnected,
       Broadcast, PruneOldEvents, vars, storeVars, StoreTypeOK
  <2>3. c \in scored => c \in scored'
    BY <1>6 DEF QuietStep, Connect, CacheHave, Stats, Expire, P2PConnected,
       Broadcast, PruneOldEvents, Restart, vars, memVars
  <2> QED
    BY <2>2, <2>3 DEF NoHash
<1>7. CASE RedisExec
  <2> DEFINE t == wire[done + 1]
  <2>1. /\ t \in Task /\ task[t].c \in Client /\ Execute(task[t].c, task[t].pc)
        /\ done + 1 \in 1..Len(wire) /\ done + 1 > done
    BY <1>1, <1>7 DEF RedisExec, TaskInv, TasksOK
  <2>2. scored' = scored
    BY <1>1, <1>7, ExecCase
  <2>3. CASE task[t].c # c
    <3>1. ExecuteCase(task[t].c, task[t].pc)
      BY <1>1, <2>1, StoreCases
    <3> HIDE DEF t
    <3>2. hash'[c] = hash[c] /\ \A s \in SetName : c \in sets'[s] <=> c \in sets[s]
      BY <1>1, <2>1, <2>3, <3>1 DEF ExecuteCase, HashSet, SAdd, SRem, StoreTypeOK, SetName
    <3> QED
      BY <2>2, <3>2 DEF SetName
  <2>4. CASE task[t].c = c
    <3>1. ExecuteCase(c, task[t].pc) /\ task[t].pc \notin DisconnectPC \cup DemotePC
      BY <1>1, <1>5, <2>1, <2>4, StoreCases
    <3>2. task[t].pc = "hSet" => hash[c].status # "super"
      BY <1>4, <2>1, <2>4 DEF Enters
    <3> HIDE DEF t
    <3>3. c \in sets["super"] => c \in sets'["super"]
      BY <1>1, <3>1 DEF ExecuteCase, HashSet, SAdd, SRem, StoreTypeOK, SetName, DisconnectPC, DemotePC
    <3>4. hash[c].status = "super" => hash'[c].status = "super"
      BY <1>1, <3>1, <3>2 DEF ExecuteCase, HashSet, SAdd, SRem, StoreTypeOK,
         DisconnectPC, DemotePC
    <3> QED
      BY <2>2, <3>3, <3>4
  <2> QED
    BY <2>3, <2>4
<1>8. CASE \E i \in Nat \ {0} : Resume(i)
  <2>1. PICK t \in Task, new \in TaskState :
          ResumeCase(task[t], new) /\ task[t].c \in Client /\ UNCHANGED <<hash, sets>>
    BY <1>8, ResumeCases
  <2>2. c \in scored => c \in scored'
    BY <1>5, <2>1 DEF ResumeCase, RegisterCase, HeartbeatCase, ClassifyCase, DisconnectCase
  <2> QED
    BY <2>1, <2>2
<1>9. CASE RedisFault \/ Crash
  <2>1. ~ ForgetAll
    BY DEF ForgetAll
  <2> QED
    BY <1>9, <2>1, DropCases
<1> QED
  BY <1>1, <1>6, <1>7, <1>8, <1>9, NextCases, LeaveCases, MessageCases, SweepCase

-----------------------------------------------------------------------------
(* The theorems.                                                           *)

(* The initial state satisfies the invariant.                              *)
LEMMA InitIInv == Init => IInv
<1> SUFFICES ASSUME Init PROVE IInv
  OBVIOUS
<1>1. DataOK
  BY DEF Init, DataOK, StoreInit, StoreTypeOK, NoHash, NoLinks, ConnType, Status, SetName
<1>2. TaskInv
  BY ClientsAssumption DEF Init, TaskInv, TasksOK, WireInv, Distinct, Busy, Idle, TaskState, Reply
<1>3. ConnInv(links)
  BY NoLinksInv DEF Init
<1>4. /\ \A t \in Task : task[t].c \notin Client /\ task[t].rest = {}
      /\ hash = [c \in Client |-> NoHash] /\ registered = {} /\ scored = {} /\ up
      /\ sock = [c \in Client |-> "new"] /\ notices = [pair \in Client \X Client |-> 0]
  BY ClientsAssumption DEF Init, StoreInit, Idle
<1>5. NewInv /\ GoneInv /\ ScoredInv /\ TtlInv /\ IndexInv /\ ToldInv
  BY <1>4 DEF NewInv, GoneInv, ScoredInv, TtlInv, IndexInv, ToldInv, NoHash
<1> QED
  BY <1>1, <1>2, <1>3, <1>5 DEF IInv

(* Every step keeps the invariant.                                         *)
LEMMA IInvStep == IInv /\ [Next]_vars => IInv'
<1> SUFFICES ASSUME IInv, [Next]_vars PROVE IInv'
  OBVIOUS
<1>1. TaskInv' /\ DataOK' /\ ConnInv(links)'
  BY TaskInvStep, DataOKStep, ConnInvStep DEF IInv
<1> QED
  BY <1>1, NewStep, GoneStep, ScoredStep, TtlStep, IndexStep, ToldStep DEF IInv

(* The invariant holds in every state of every behaviour.                  *)
LEMMA Invariance == Spec => []IInv
BY InitIInv, IInvStep, PTL DEF Spec

(* Every variable of the registry keeps its type.                          *)
THEOREM RegistryTypes == Spec => []TypeOK
<1>1. IInv => TypeOK
  BY DEF IInv, DataOK, TaskInv, TasksOK, TypeOK
<1> QED
  BY <1>1, Invariance, PTL

(* A registered client that is open and has its hash is in the index sets, *)
(* whatever handlers run, unless the connection to Redis broke under one   *)
(* of them.                                                                *)
THEOREM LivePeersAreIndexed == Spec => []IndexedWhileLive
<1>1. IInv => IndexedWhileLive
  BY DEF IInv, DataOK, IndexInv, Placed, IndexedWhileLive
<1> QED
  BY <1>1, Invariance, PTL

(* A client that is open is never demoted by classifyPeer.                 *)
THEOREM OpenPeersKeepTheirRole == Spec => []NeverDemotedWhileOpen
<1>1. IInv => NeverDemotedWhileOpen
  BY DEF IInv, GoneInv, NeverDemotedWhileOpen, Serving, Here
<1> QED
  BY <1>1, Invariance, PTL

(* setPeer's HSET is always followed by its EXPIRE.                        *)
THEOREM FullHashesExpire == Spec => []FullHashHasTtl
<1>1. IInv => FullHashHasTtl
  BY DEF IInv, TtlInv, Writing, FullHashHasTtl, Serving
<1> QED
  BY <1>1, Invariance, PTL

(* notifyOrphans tells a peer of a super peer once, after it has left.     *)
THEOREM OrphansAreToldOnce == Spec => []OrphansToldOnce
<1>1. ToldInv => OrphansToldOnce
  <2> SUFFICES ASSUME ToldInv, NEW s \in Client, NEW p \in Client
               PROVE  /\ notices[<<s, p>>] <= 1
                      /\ notices[<<s, p>>] = 1 => sock[s] # "open"
    BY DEF OrphansToldOnce
  <2>1. notices[<<s, p>>] \in {0, 1} /\ (notices[<<s, p>>] = 1 => ~ Here(s))
    BY DEF ToldInv
  <2> QED
    BY <2>1 DEF Here
<1>2. IInv => ToldInv
  BY DEF IInv
<1> QED
  BY <1>1, <1>2, Invariance, PTL

(* The connection maps are safe as the registry uses them.                 *)
THEOREM RegistryLinksSafe == Spec => [](WithinCapacity /\ PointerIsListed)
<1>1. IInv => WithinCapacity /\ PointerIsListed
  BY DEF IInv, ConnInv, WithinCapacity, PointerIsListed
<1> QED
  BY <1>1, Invariance, PTL

(* The initial state satisfies what is known of the clients.               *)
LEMMA InitClients == Init => OpInv /\ OpenInv /\ RoleInv /\ LeaveInv /\ QueueInv
<1> SUFFICES ASSUME Init PROVE OpInv /\ OpenInv /\ RoleInv /\ LeaveInv /\ QueueInv
  OBVIOUS
<1>1. /\ \A t \in Task : task[t] = Idle
      /\ hash = [c \in Client |-> NoHash] /\ sets = [s \in SetName |-> {}]
      /\ registered = {} /\ cached = {} /\ scored = {} /\ links = NoLinks
      /\ sock = [c \in Client |-> "new"] /\ past = [c \in Client |-> {}]
  BY DEF Init, StoreInit
<1>2. OpInv
  BY <1>1 DEF OpInv, OfKind, Idle
<1>3. ASSUME NEW c \in Client PROVE Forgotten(links, c)
  BY <1>1, ClientsAssumption DEF NoLinks, Forgotten
<1>4. ASSUME NEW c \in Client PROVE Known(c)
  <2>1. \A t \in Task : task[t].c # c /\ task[t].rest = {}
    BY <1>1, ClientsAssumption DEF Idle
  <2>2. NoKeys(c) /\ hash[c].status # "super"
    BY <1>1 DEF NoKeys, NoHash
  <2>3. c \notin registered /\ ~ Doing("register", c)
    BY <1>1, <2>1 DEF Doing, Serving
  <2>4. Outside(c)
    BY <1>1, <1>3, <2>1, <2>2 DEF Outside, SetName
  <2> QED
    BY <2>1, <2>3, <2>4 DEF Known
<1>5. RoleInv
  BY <1>1, ClientsAssumption DEF RoleInv, Settled, Registers, Idle
<1>6. LeaveInv
  BY <1>1 DEF LeaveInv, Departed
<1>7. QueueInv
  <2>1. Len(wire) = 0
    BY DEF Init
  <2> QED
    BY <2>1 DEF QueueInv
<1> QED
  BY <1>2, <1>4, <1>5, <1>6, <1>7 DEF OpenInv

(* ... and every step keeps it.                                            *)
LEMMA ClientsInvariance == Spec => [](IInv /\ OpInv /\ OpenInv /\ RoleInv /\ LeaveInv /\ QueueInv)
<1> DEFINE All == IInv /\ OpInv /\ OpenInv /\ RoleInv /\ LeaveInv /\ QueueInv
<1>1. Init => All
  BY InitIInv, InitClients
<1>2. All /\ [Next]_vars => All'
  <2> SUFFICES ASSUME All, [Next]_vars PROVE All'
    OBVIOUS
  <2>1. TaskInv /\ DataOK
    BY DEF IInv
  <2>2. IInv'
    BY IInvStep
  <2>3. OpInv'
    BY <2>1, OpStep
  <2>4. OpenInv'
    BY OpenStep
  <2>5. RoleInv'
    BY RoleStep
  <2>6. LeaveInv'
    BY LeaveStep
  <2>7. QueueInv'
    BY QueueStep
  <2> QED
    BY <2>2, <2>3, <2>4, <2>5, <2>6, <2>7
<1> HIDE DEF All
<1>3. Spec => []All
  BY <1>1, <1>2, PTL DEF Spec
<1> QED
  BY <1>3 DEF All

(* However heartbeats and sweeps race to promote a client that registered  *)
(* once, when they have ended it is in the set of its status only.         *)
THEOREM StatusesMatchSets == Spec => []StatusMatchesSet
<1>1. IInv /\ OpenInv /\ RoleInv => StatusMatchesSet
  <2> SUFFICES ASSUME IInv, OpenInv, RoleInv, NEW c \in Client, sock[c] = "open", Quiet(c),
                      hash[c].full, past[c] \subseteq {"register"}, NEW s \in Status
               PROVE  c \in sets[s] <=> hash[c].status = s
    BY DEF StatusMatchesSet
  <2>1. Once(c) /\ Steady(c) /\ \A t \in Task : task[t].c # c
    BY DEF Once, Steady, Here, Quiet, Serving
  <2>2. c \in registered
    BY <2>1 DEF OpenInv, Known, Outside, NoKeys, NoHash
  <2>3. Agrees(c)
    BY <2>1, <2>2 DEF RoleInv, Settled
  <2>4. hash[c].status \in Status
    BY <2>1 DEF IInv, DataOK, StoreTypeOK, TtlInv, Steady, Here
  <2> QED
    BY <2>1, <2>3, <2>4 DEF Agrees, Status, WillRemove, WillAdd
<1> QED
  BY <1>1, ClientsInvariance, PTL

(* What a client that closed leaves behind, once its handlers have ended,  *)
(* is explained by one of the three races the code leaves open.            *)
THEOREM LeftoversAreExplained == Spec => []LeftoversExplained
<1>1. LeaveInv => LeftoversExplained
  <2> SUFFICES ASSUME LeaveInv, NEW c \in Client, sock[c] = "closed", Quiet(c),
                      "fault" \notin past[c]
               PROVE  /\ c \in registered => Left(c, {"raced_register"})
                      /\ c \in cached => Left(c, {"lapsed"})
                      /\ c \in scored => Left(c, {"raced_register", "lapsed"})
                      /\ ~ Forgotten(links, c) => Left(c, {"lapsed"})
                      /\ c \in sets["all"] \/ hash[c].full
                           => Left(c, {"raced_register", "lapsed"})
                      /\ Exists(c) \/ c \in sets["casual"] \cup sets["super"]
                           => Left(c, {"raced_register", "raced_classify", "lapsed"})
    BY DEF LeftoversExplained, Left
  <2>1. Accounted(c)
    BY DEF LeaveInv, Departed
  <2>2. ~ Doing("disconnect", c)
    BY DEF Quiet, Doing
  <2>3. ~ DelDue(c) /\ ~ AllDue(c) /\ ~ SuperDue(c) /\ ~ CasualDue(c)
    BY DEF Quiet, Serving, Due, DelDue, AllDue, SuperDue, CasualDue
  <2> QED
    BY <2>1, <2>2, <2>3 DEF Accounted, Left, Exists
<1> QED
  BY <1>1, ClientsInvariance, PTL

(* While its socket is open, a client keeps what it reached, however often *)
(* it asked to register and whatever handlers of it or of others are under *)
(* way: its place in registeredPeers, its reputation, its place in         *)
(* peers:super and, until its hash is gone, the status of a super peer. It *)
(* may lose them only if a heartbeat found no hash of it, or Redis failed. *)
RoleKept ==
  [][\A c \in Client : sock'[c] = "open" /\ past'[c] \subseteq {"register", "again"} =>
       /\ c \in registered => c \in registered'
       /\ c \in scored => c \in scored'
       /\ c \in sets["super"] => c \in sets'["super"]
       /\ hash[c].status = "super" => hash'[c].status \in {"super", "none"}]_vars

(* An open client is not unregistered, and a super peer stays one, but for *)
(* a hash that is gone.                                                    *)
THEOREM RolesAreKept == Spec => RoleKept
<1>1. IInv /\ OpenInv /\ QueueInv /\ [Next]_vars =>
        [\A c \in Client : sock'[c] = "open" /\ past'[c] \subseteq {"register", "again"} =>
           /\ c \in registered => c \in registered'
           /\ c \in scored => c \in scored'
           /\ c \in sets["super"] => c \in sets'["super"]
           /\ hash[c].status = "super" => hash'[c].status \in {"super", "none"}]_vars
  BY KeptStep
<1> QED
  BY <1>1, ClientsInvariance, PTL DEF Spec, RoleKept

(* Handlers change the maps of connections by the operations of            *)
(* connections.ts alone, one at a time: what is proved of ConnSpec, as     *)
(* CleanupForgets, holds inside the registry.                              *)
THEOREM RegistryImplementsConnections == Spec => ConnSpec
<1>1. Init => ConnInit
  BY DEF Init, ConnInit
<1>2. IInv /\ [Next]_vars => [ConnNext]_links
  <2> SUFFICES ASSUME IInv, [Next]_vars PROVE [ConnNext]_links
    OBVIOUS
  <2>1. TaskInv /\ DataOK
    BY DEF IInv
  <2> QED
    BY <2>1, LinksCases DEF ConnNext
<1> QED
  BY <1>1, <1>2, Invariance, PTL DEF Spec, ConnSpec
=============================================================================
