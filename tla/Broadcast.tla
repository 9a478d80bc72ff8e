----------------------------- MODULE Broadcast -----------------------------
(***************************************************************************)
(* broadcast.ts: the one WebSocket on which the relay hears of new events  *)
(* from strfry, its reconnection, and confirmedEventIds, the ids of the    *)
(* last events heard of.  A JavaScript Set iterates in the order of        *)
(* insertion and adding a member again leaves it where it is, so the set   *)
(* is a sequence without repetitions, the oldest id first.                 *)
(***************************************************************************)
EXTENDS Naturals, FiniteSets, SequencesExt

CONSTANTS EventId,      \* the ids of events
          ConfirmedMax  \* CONFIRMED_MAX (50 000)

ASSUME BroadcastAssumption == ConfirmedMax \in Nat \ {0}

VARIABLES listener,   \* the WebSocket to strfry
          timer,      \* reconnectTimer is set
          stopped,    \* stopBroadcastListener was called
          confirmed,  \* confirmedEventIds
          age         \* history: messages since an id was put in the set

broadcastVars == <<listener, timer, stopped, confirmed, age>>

BroadcastTypeOK ==
  /\ listener \in {"connecting", "open", "closing", "closed"}
  /\ timer \in BOOLEAN /\ stopped \in BOOLEAN
  /\ confirmed \in Seq(EventId)
  /\ age \in [EventId -> 0..ConfirmedMax]

(* main has called startBroadcastListener.                                 *)
BroadcastInit ==
  /\ listener = "connecting" /\ timer = FALSE /\ stopped = FALSE
  /\ confirmed = << >>
  /\ age = [e \in EventId |-> ConfirmedMax]

IsConfirmedEvent(e) == e \in ToSet(confirmed)

(* Mutant: the id at the end, the newest, is the one evicted.              *)
EvictedNewest == IF Len(confirmed) >= ConfirmedMax THEN Front(confirmed) ELSE confirmed

(* A full set loses its oldest id, whether or not the one that came is new.*)
Evicted == IF Len(confirmed) >= ConfirmedMax THEN Tail(confirmed) ELSE confirmed

Confirm(e) ==
  LET fresh == e \notin ToSet(Evicted) IN
  /\ confirmed' = IF fresh THEN Append(Evicted, e) ELSE Evicted
  /\ age' = [x \in EventId |-> IF x = e /\ fresh THEN 0
                               ELSE IF age[x] < ConfirmedMax THEN age[x] + 1 ELSE age[x]]

(* 'message': what arrives while the socket closes is still handled. The   *)
(* forwarding to the peers is an action of PeerRegistry.                   *)
EventArrives(e) ==
  /\ listener \in {"open", "closing"}
  /\ Confirm(e)
  /\ UNCHANGED <<listener, timer, stopped>>

ListenerOpens ==
  /\ listener = "connecting"
  /\ listener' = "open"
  /\ UNCHANGED <<timer, stopped, confirmed, age>>

ScheduleReconnect == timer' = TRUE

(* 'close', after a refusal, a loss, or the close() of a stop.             *)
ListenerCloses ==
  /\ listener # "closed"
  /\ listener' = "closed"
  /\ ScheduleReconnect
  /\ UNCHANGED <<stopped, confirmed, age>>

(* Mutant: the timer is not set to null as it fires.                       *)
ReconnectKeepsTimer ==
  /\ timer
  /\ listener' = "connecting"
  /\ UNCHANGED <<timer, stopped, confirmed, age>>

Reconnect ==
  /\ timer
  /\ timer' = FALSE /\ listener' = "connecting"
  /\ UNCHANGED <<stopped, confirmed, age>>

(* The close event that follows sets the timer again.                      *)
StopBroadcastListener ==
  /\ ~ stopped
  /\ stopped' = TRUE /\ timer' = FALSE
  /\ listener' = IF listener \in {"connecting", "open"} THEN "closing" ELSE listener
  /\ UNCHANGED <<confirmed, age>>

BroadcastNext ==
  \/ \E e \in EventId : EventArrives(e)
  \/ ListenerOpens \/ ListenerCloses \/ Reconnect \/ StopBroadcastListener

-----------------------------------------------------------------------------
(* Properties.                                                             *)

(* An id put in the set stays confirmed while fewer than CONFIRMED_MAX     *)
(* messages follow, although a repeated event evicts an id without adding  *)
(* one: a peer that reports it in that time is credited for it.            *)
FreshStays == \A e \in EventId : age[e] < ConfirmedMax => IsConfirmedEvent(e)

(* A closed listener waits for its reconnection, unless the relay stopped  *)
(* it, and no reconnection is pending beside a listener that lives: it     *)
(* would open a second one and forward every event twice.                  *)
ReconnectPending == /\ listener = "closed" => timer \/ stopped
                    /\ timer => listener = "closed"
=============================================================================
