------------------------------ MODULE Upstream ------------------------------
(***************************************************************************)
(* proxy.ts: the connection to strfry that carries a client's messages.    *)
(* All of its maps are keyed by client id and no entry of one client       *)
(* touches another's, so the module follows one client: its messages are   *)
(* numbered in the order it sends them, and the WebSockets to strfry made  *)
(* for it are numbered in the order of their creation.                     *)
(*                                                                         *)
(* A WebSocket is connecting, open, closing (close() was called or a close *)
(* frame arrived, the 'close' event is still to come) or closed.  The      *)
(* listeners each has are closures over the socket and its first message,  *)
(* but they reach the entry and the queue of the client by its id.         *)
(***************************************************************************)
EXTENDS Naturals, FiniteSets, SequencesExt

CONSTANTS MaxMsg,   \* bounds the messages the client sends
          MaxWs,    \* bounds the WebSockets made for it
          Failures  \* what may go wrong: "refuse", "drop", "error"

ASSUME UpstreamAssumption ==
  /\ MaxMsg \in Nat /\ MaxWs \in Nat \ {0}
  /\ Failures \subseteq {"refuse", "drop", "error"}

Msg == 1..MaxMsg
Ws  == 1..MaxWs
NoWs == 0

VARIABLES client,    \* the client's own WebSocket: "open" or "closed"
          next,      \* the number of its next message
          lookups,   \* profile REQs that wait for Redis, first come first served
          upstream,  \* upstreams.get(client.id), NoWs if there is none
          pending,   \* pendingMessages.get(client.id), empty if there is none
          ws,        \* the readyState of each WebSocket, "none" if not made
          first,     \* the message each was made for
          sent,      \* what was sent on each
          answered,  \* the profile REQs answered from the cache alone
          profile    \* history: the messages that are profile REQs

wsVars == <<upstream, pending, ws, first, sent>>
vars   == <<client, next, lookups, wsVars, answered, profile>>

WsState == {"none", "connecting", "open", "closing", "closed"}

(* The state of each socket and the places a message may be in.            *)
TypeOK ==
  /\ client \in {"open", "closed"}
  /\ next \in 1..MaxMsg + 1
  /\ lookups \in Seq(Msg) /\ pending \in Seq(Msg)
  /\ upstream \in Ws \cup {NoWs}
  /\ ws \in [Ws -> WsState]
  /\ first \in [Ws -> Msg \cup {0}]
  /\ sent \in [Ws -> Seq(Msg)]
  /\ answered \subseteq Msg /\ profile \subseteq Msg

Init ==
  /\ client = "open" /\ next = 1
  /\ lookups = << >> /\ pending = << >> /\ answered = {} /\ profile = {}
  /\ upstream = NoWs
  /\ ws = [w \in Ws |-> "none"]
  /\ first = [w \in Ws |-> 0]
  /\ sent = [w \in Ws |-> << >>]

-----------------------------------------------------------------------------
(* _proxyRaw.                                                              *)

State(w) == IF w = NoWs THEN "none" ELSE ws[w]

SendNow(m) ==
  /\ State(upstream) = "open"
  /\ sent' = [sent EXCEPT ![upstream] = Append(@, m)]
  /\ UNCHANGED <<upstream, pending, ws, first>>

(* Mutant: a message that has to wait is put at the front of the queue.    *)
EnqueueFront(m) ==
  /\ State(upstream) = "connecting"
  /\ pending' = <<m>> \o pending
  /\ UNCHANGED <<upstream, ws, first, sent>>

Enqueue(m) ==
  /\ State(upstream) = "connecting"
  /\ pending' = Append(pending, m)
  /\ UNCHANGED <<upstream, ws, first, sent>>

(* Mutant: the listeners are added without the message at hand.            *)
OpenNewWithoutFirst(m) ==
  /\ State(upstream) \in {"none", "closing", "closed"}
  /\ \E w \in Ws :
       /\ ws[w] = "none" /\ \A v \in Ws : v < w => ws[v] # "none"
       /\ ws' = [ws EXCEPT ![w] = "connecting"]
       /\ upstream' = w
  /\ UNCHANGED <<pending, first, sent>>

(* An upstream that is closing or closed is replaced (closing it again     *)
(* changes nothing); its listeners stay in place.                          *)
OpenNew(m) ==
  /\ State(upstream) \in {"none", "closing", "closed"}
  /\ \E w \in Ws :
       /\ ws[w] = "none" /\ \A v \in Ws : v < w => ws[v] # "none"
       /\ ws' = [ws EXCEPT ![w] = "connecting"]
       /\ first' = [first EXCEPT ![w] = m]
       /\ upstream' = w
  /\ UNCHANGED <<pending, sent>>

ProxyRaw(m) == SendNow(m) \/ Enqueue(m) \/ OpenNew(m)

-----------------------------------------------------------------------------
(* proxyToStrfry: a message goes on at once, unless it is a REQ for        *)
(* profiles only, which first waits for Redis.                             *)
Message ==
  /\ client = "open" /\ next \in Msg
  /\ next' = next + 1
  /\ ProxyRaw(next)
  /\ UNCHANGED <<client, lookups, answered, profile>>

Intercept(m) ==
  /\ lookups' = Append(lookups, m)
  /\ profile' = profile \cup {m}
  /\ UNCHANGED wsVars

ProfileReq ==
  /\ client = "open" /\ next \in Msg
  /\ next' = next + 1
  /\ Intercept(next)
  /\ UNCHANGED <<client, answered>>

(* serveProfilesFromCache goes on: every profile was cached, or the REQ    *)
(* (for what is missing) goes to strfry.  Whether the client is still      *)
(* there is looked at only to answer it.                                   *)
LookupDone ==
  /\ lookups # << >>
  /\ lookups' = Tail(lookups)
  /\ \/ /\ answered' = answered \cup {Head(lookups)}
        /\ UNCHANGED wsVars
     \/ /\ ProxyRaw(Head(lookups))
        /\ UNCHANGED answered
  /\ UNCHANGED <<client, next, profile>>

(* closeUpstream, called as the client disconnects: close() on a socket    *)
(* that is connecting aborts it.                                           *)
ClientCloses ==
  /\ client = "open"
  /\ client' = "closed"
  /\ ws' = [w \in Ws |-> IF w = upstream /\ ws[w] \in {"connecting", "open"}
                         THEN "closing" ELSE ws[w]]
  /\ upstream' = NoWs
  /\ UNCHANGED <<next, lookups, pending, first, sent, answered, profile>>

-----------------------------------------------------------------------------
(* The events of the WebSockets to strfry.                                 *)

(* Mutant: the queue survives its upstream.                                *)
ForgetUpstreamKeepsQueue(w) == upstream' = NoWs /\ UNCHANGED pending

(* The listeners of 'close' and 'error' remove the client's entry and      *)
(* queue, whichever WebSocket they are for by now.                         *)
ForgetUpstream(w) == upstream' = NoWs /\ pending' = << >>

(* Mutant: the queue is sent but not deleted.                              *)
OpenedKeepsQueue(w) ==
  /\ ws[w] = "connecting"
  /\ ws' = [ws EXCEPT ![w] = "open"]
  /\ sent' = [sent EXCEPT ![w] = <<first[w]>> \o pending]
  /\ UNCHANGED <<client, next, lookups, upstream, pending, first, answered, profile>>

(* 'open': the first message, then the queue.                              *)
Opened(w) ==
  /\ ws[w] = "connecting"
  /\ ws' = [ws EXCEPT ![w] = "open"]
  /\ sent' = [sent EXCEPT ![w] = <<first[w]>> \o pending]
  /\ pending' = << >>
  /\ UNCHANGED <<client, next, lookups, upstream, first, answered, profile>>

(* strfry does not take the connection: 'error' and 'close' in one go.     *)
Refused(w) ==
  /\ "refuse" \in Failures /\ ws[w] = "connecting"
  /\ ws' = [ws EXCEPT ![w] = "closed"]
  /\ ForgetUpstream(w)
  /\ UNCHANGED <<client, next, lookups, first, sent, answered, profile>>

(* strfry or the network begins to close an open connection.               *)
Dropped(w) ==
  /\ "drop" \in Failures /\ ws[w] = "open"
  /\ ws' = [ws EXCEPT ![w] = "closing"]
  /\ UNCHANGED <<client, next, lookups, upstream, pending, first, sent, answered,
                 profile>>

(* 'error' of a connection, be it closing already.                         *)
Failed(w) ==
  /\ "error" \in Failures /\ ws[w] \in {"open", "closing"}
  /\ ws' = [ws EXCEPT ![w] = "closing"]
  /\ ForgetUpstream(w)
  /\ UNCHANGED <<client, next, lookups, first, sent, answered, profile>>

Closed(w) ==
  /\ ws[w] = "closing"
  /\ ws' = [ws EXCEPT ![w] = "closed"]
  /\ ForgetUpstream(w)
  /\ UNCHANGED <<client, next, lookups, first, sent, answered, profile>>

Next ==
  \/ Message \/ ProfileReq \/ LookupDone \/ ClientCloses
  \/ \E w \in Ws : Opened(w) \/ Refused(w) \/ Dropped(w) \/ Failed(w) \/ Closed(w)

(* Redis answers a lookup, a connection attempt ends, a closing handshake  *)
(* ends (ws gives it 30 s).                                                *)
Fairness ==
  /\ WF_vars(LookupDone)
  /\ \A w \in Ws : WF_vars(Opened(w) \/ Refused(w)) /\ WF_vars(Closed(w))

Spec == Init /\ [][Next]_vars /\ Fairness

-----------------------------------------------------------------------------
(* Properties.                                                             *)

Live == {w \in Ws : ws[w] \in {"connecting", "open"}}

(* Messages wait in the queue only while the client's entry is connecting, *)
(* or, once the client is gone, until its aborted socket closes: a queue   *)
(* that survives would go to strfry after later messages.                  *)
QueueHasOwner ==
  pending # << >> =>
    \/ State(upstream) = "connecting"
    \/ client = "closed" /\ \E w \in Ws : ws[w] = "closing"

(* A message is sent to strfry once at most, over all the sockets: it is   *)
(* in one place at a time, however often the upstream is replaced.         *)
SentOnce ==
  \A v, w \in Ws : \A i \in DOMAIN sent[v], j \in DOMAIN sent[w] :
    sent[v][i] = sent[w][j] => v = w /\ i = j

(* m was sent to strfry or answered from the profile cache.                *)
Handled(m) == m \in answered \/ \E w \in Ws : \E i \in DOMAIN sent[w] : sent[w][i] = m

UpstreamLost == \E w \in Ws : ws[w] \in {"closing", "closed"}

(* "One strfry connection per Nexus client" (proxy.ts:28).                 *)
OneUpstreamPerClient == Cardinality(Live) <= 1
=============================================================================
