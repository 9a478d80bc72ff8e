------------------------------ MODULE Session ------------------------------
(***************************************************************************)
(* What one client asks of strfry through router.ts: the messages proxied  *)
(* by Upstream, profile REQs with the cache of ProfileCache before them,   *)
(* and REQs for a feed (feed-proxy.ts), each of which asks the Feed Engine *)
(* for ids over HTTP and then strfry, over a WebSocket of its own, for the *)
(* events.  Signaling messages go elsewhere, and the EVENT of an author on *)
(* the blacklist goes nowhere.                                             *)
(***************************************************************************)
EXTENDS Upstream, ProfileCache

CONSTANT MaxFeeds   \* bounds the feed REQs

ASSUME SessionAssumption == MaxFeeds \in Nat

VARIABLES cached,  \* profile REQs whose lookup found every profile
          feed,    \* the stage of each feed REQ
          timer,   \* feed REQs whose ten seconds run
          eose,    \* how often EOSE was sent for each
          excused  \* history: what went wrong with the connection of each

feedVars    == <<feed, timer, eose, excused>>
sessionVars == <<vars, profileVars, cached, feedVars>>

(* "timedout" and "answered" are connections that are being closed, by the *)
(* timer or since strfry answered; their listeners are still there.        *)
Stage == {"none", "ids", "connecting", "open", "timedout", "answered", "over"}

(* What may go wrong: an answer past the timeout, an error after close(),  *)
(* strfry that hangs up, or takes the connection only after ten seconds.   *)
Excuse == {"lateAnswer", "lateError", "hangUp", "slow"}

(* Stages, counters and the types of the parts.                            *)
SessionTypeOK ==
  /\ TypeOK /\ ProfileTypeOK
  /\ cached \subseteq profile
  /\ feed \in [Msg -> Stage] /\ timer \subseteq Msg
  /\ excused \in [Msg -> SUBSET Excuse]
  /\ eose \in [Msg -> Nat]
  /\ \A m \in Msg : eose[m] > 0 => feed[m] \notin {"none", "ids", "connecting"}

SessionInit ==
  /\ Init /\ ProfileInit
  /\ cached = {} /\ feed = [m \in Msg |-> "none"] /\ timer = {}
  /\ eose = [m \in Msg |-> 0] /\ excused = [m \in Msg |-> {}]

-----------------------------------------------------------------------------
(* serveProfilesFromCache: HGETALL reads as it is sent; a profile that is  *)
(* not asked for alone, or a Redis that is down, makes it miss anyway.     *)
LooksUp(m) ==
  \E hit \in {h \in BOOLEAN : h => stored # 0} :
    cached' = IF hit THEN cached \cup {m} ELSE cached

ProfileLookup == ProfileReq /\ LooksUp(next) /\ UNCHANGED <<profileVars, feedVars>>

ProfileServed ==
  /\ LookupDone
  /\ Head(lookups) \in answered' <=> Head(lookups) \in cached
  /\ UNCHANGED <<profileVars, cached, feedVars>>

-----------------------------------------------------------------------------
(* serveFeed.                                                              *)

FeedReq ==
  /\ client = "open" /\ next \in Msg
  /\ Cardinality({m \in Msg : feed[m] # "none"}) < MaxFeeds
  /\ next' = next + 1 /\ feed' = [feed EXCEPT ![next] = "ids"]
  /\ UNCHANGED <<client, lookups, wsVars, answered, profile, profileVars, cached,
                 timer, eose, excused>>

(* sendToClient: nothing is sent to a client that has gone.                *)
Eose(m) == eose' = IF client = "open" THEN [eose EXCEPT ![m] = @ + 1] ELSE eose

(* The Feed Engine answers: with nothing, with ids that strfry is asked    *)
(* for, or not as it should, so that the REQ is proxied like any other,    *)
(* be the client there or not.                                             *)
FeedIds(m) ==
  /\ feed[m] = "ids"
  /\ \/ /\ feed' = [feed EXCEPT ![m] = "over"] /\ Eose(m)
        /\ UNCHANGED <<timer, wsVars, lookups, profile, cached>>
     \/ /\ feed' = [feed EXCEPT ![m] = "connecting"] /\ timer' = timer \cup {m}
        /\ UNCHANGED <<eose, wsVars, lookups, profile, cached>>
     \/ /\ feed' = [feed EXCEPT ![m] = "over"]
        /\ \/ ProxyRaw(m) /\ UNCHANGED <<lookups, profile, cached>>
           \/ Intercept(m) /\ LooksUp(m)
        /\ UNCHANGED <<timer, eose>>
  /\ UNCHANGED <<client, next, answered, profileVars, excused>>

FeedGoes(m, stage) ==
  feed' = [feed EXCEPT ![m] = stage] /\ UNCHANGED <<vars, profileVars, cached>>

(* The connection of m is being closed or is closed: its timer, should it  *)
(* run, finds it no longer open and does nothing.                          *)
FeedEnds(m, stage) == FeedGoes(m, stage) /\ timer' = timer \ {m}

Excused(m, excuse, when) ==
  excused' = [excused EXCEPT ![m] = IF when THEN @ \cup {excuse} ELSE @]

FeedOpens(m) ==
  /\ feed[m] = "connecting"
  /\ FeedGoes(m, "open") /\ UNCHANGED <<timer, eose, excused>>

(* Mutant: no listener for 'error'.                                        *)
FeedFailsSilently(m) ==
  /\ feed[m] \in {"connecting", "open", "timedout", "answered"}
  /\ FeedEnds(m, "over") /\ UNCHANGED <<eose, excused>>

(* 'error', at most once and with 'close' after it: EOSE is sent whatever  *)
(* the state, be the socket closing already.                               *)
FeedFails(m) ==
  /\ feed[m] \in {"connecting", "open", "timedout", "answered"}
  /\ FeedEnds(m, "over") /\ Eose(m)
  /\ Excused(m, "lateError", feed[m] \in {"timedout", "answered"})

(* EOSE of strfry: the events in the order of the ids, EOSE, close().  A   *)
(* socket that is being closed since its time was over still listens.      *)
FeedAnswered(m) ==
  /\ feed[m] \in {"open", "timedout"}
  /\ FeedEnds(m, "answered") /\ Eose(m)
  /\ Excused(m, "lateAnswer", feed[m] = "timedout")

(* Mutant: the timer does not look at the state of the socket.             *)
FeedTimeoutAlways(m) ==
  /\ m \in timer /\ timer' = timer \ {m}
  /\ FeedGoes(m, IF feed[m] = "open" THEN "timedout" ELSE feed[m])
  /\ Eose(m) /\ UNCHANGED excused

(* Ten seconds after the socket was made: it is closed if it is open.      *)
FeedTimeout(m) ==
  /\ m \in timer /\ timer' = timer \ {m}
  /\ \/ feed[m] = "open" /\ FeedGoes(m, "timedout") /\ Eose(m) /\ UNCHANGED excused
     \/ /\ feed[m] = "connecting" /\ FeedGoes(m, "connecting")
        /\ Excused(m, "slow", TRUE) /\ UNCHANGED eose

(* 'close': of a socket that is being closed, or by strfry before its      *)
(* answer.                                                                 *)
FeedClosed(m) ==
  /\ feed[m] \in {"open", "timedout", "answered"}
  /\ FeedEnds(m, "over") /\ UNCHANGED eose
  /\ Excused(m, "hangUp", feed[m] = "open")

Feeding(m) ==
  \/ FeedIds(m) \/ FeedOpens(m) \/ FeedFails(m) \/ FeedAnswered(m)
  \/ FeedTimeout(m) \/ FeedClosed(m)

-----------------------------------------------------------------------------
(* route: whatever is proxied as it is, and the clients and WebSockets.    *)
Proxied(A) == A /\ UNCHANGED <<profileVars, cached, feedVars>>

Proxying ==
  \/ Proxied(Message) \/ Proxied(ClientCloses)
  \/ \E w \in Ws : Proxied(Opened(w) \/ Refused(w) \/ Dropped(w) \/ Failed(w) \/ Closed(w))

(* The listener of 'message': any REQ sent on a connection that is not     *)
(* closed may bring a profile.                                             *)
ProfileEvent ==
  /\ \E w \in Ws : ws[w] \in {"open", "closing"} /\ sent[w] # << >>
  /\ \E v \in Version : CacheProfile(v)
  /\ UNCHANGED <<vars, cached, feedVars>>

Redis == RedisNext /\ UNCHANGED <<vars, cached, feedVars>>

SessionNext ==
  \/ Proxying \/ ProfileEvent \/ Redis \/ ProfileLookup \/ ProfileServed \/ FeedReq
  \/ \E m \in Msg : Feeding(m)

(* Beside what Upstream assumes: the Feed Engine answers, a connection     *)
(* attempt ends, and a timer fires; strfry need not answer.                *)
SessionFairness ==
  /\ WF_sessionVars(ProfileServed)
  /\ \A w \in Ws : /\ WF_sessionVars(Proxied(Opened(w) \/ Refused(w)))
                  /\ WF_sessionVars(Proxied(Closed(w)))
  /\ \A m \in Msg :
       WF_sessionVars(FeedIds(m) \/ FeedOpens(m)) /\ WF_sessionVars(FeedTimeout(m))

SessionSpec == SessionInit /\ [][SessionNext]_sessionVars /\ SessionFairness

-----------------------------------------------------------------------------
(* Properties.                                                             *)

(* While the client is there, one socket keeps the order of its messages,  *)
(* the profile REQs among themselves and the others among themselves: a    *)
(* CLOSE does not overtake its REQ, unless that REQ had to wait for Redis  *)
(* or for the Feed Engine.  (Once it is gone, a REQ that comes back from   *)
(* either may open a new socket that sends what the old one's queue held.) *)
InOrder ==
  client = "open" => \A w \in Ws : \A i, j \in DOMAIN sent[w] :
    /\ i < j /\ feed[sent[w][i]] = "none" /\ feed[sent[w][j]] = "none"
    /\ sent[w][i] \in profile <=> sent[w][j] \in profile
    => sent[w][i] < sent[w][j]

(* EOSE is sent once for a feed REQ, although four listeners send it: only *)
(* an answer or an error that comes after the relay closed the socket      *)
(* sends it again, each once.                                              *)
EoseOnce ==
  \A m \in Msg :
    eose[m] <= 1 + Cardinality(excused[m] \cap {"lateAnswer", "lateError"})

(* Every message of a client that stays is sent to strfry, answered from   *)
(* the profile cache or, if it is a REQ for a feed, ended with an EOSE,    *)
(* though strfry may never answer; unless an upstream of the client was    *)
(* lost, or strfry closed the connection for the feed before its answer or *)
(* took more than ten seconds to open it, when the timer is spent.         *)
EveryMessageHandled ==
  \A m \in Msg : next > m ~>
    (Handled(m) \/ eose[m] > 0 \/ client = "closed" \/ UpstreamLost
                 \/ excused[m] \cap {"hangUp", "slow"} # {})
=============================================================================
