---------------------------- MODULE SessionProofs ----------------------------
(***************************************************************************)
(* Proofs about Session, for any number of messages, WebSockets, lookups   *)
(* and feeds and whatever may fail.  Each part has an invariant of its     *)
(* own: that of the profile cache looks at the order of the lookups, that  *)
(* of the feeds at the stage of each REQ, that of the upstream at the      *)
(* places where a message may be, and that of the order at what comes      *)
(* before it there.                                                        *)
(***************************************************************************)
EXTENDS Session, SequenceTheorems, FiniteSetTheorems, TLAPS

-----------------------------------------------------------------------------
(* The profile cache.                                                      *)

LookupRec == [v : Nat, read : Nat, behind : BOOLEAN]

(* A lookup that is not behind stays ahead of what is stored and of the    *)
(* lookups before it, so that writing it can only renew the profile.       *)
ProfileInv ==
  /\ stored \in Nat
  /\ checks \in Seq(LookupRec)
  /\ \A i \in 1..Len(checks) : ~ checks[i].behind /\ checks[i].read < checks[i].v =>
       /\ stored <= checks[i].v
       /\ \A j \in 1..i - 1 : checks[j].v <= checks[i].v

(* What the other parts do leaves the cache alone.                         *)
LEMMA SessionToProfile == [SessionNext]_sessionVars => [ProfileNext]_profileVars
<1> SUFFICES ASSUME [SessionNext]_sessionVars PROVE [ProfileNext]_profileVars
  OBVIOUS
<1>1. ProfileEvent \/ Redis => ProfileNext
  BY DEF ProfileEvent, Redis, ProfileNext
<1>2. Proxying \/ ProfileLookup \/ ProfileServed \/ FeedReq => UNCHANGED profileVars
  BY DEF Proxying, Proxied, ProfileLookup, ProfileServed, FeedReq
<1>3. ASSUME NEW m \in Msg, Feeding(m) PROVE UNCHANGED profileVars
  BY <1>3 DEF Feeding, FeedIds, FeedOpens, FeedFails, FeedAnswered, FeedTimeout, FeedClosed,
              FeedEnds, FeedGoes
<1>4. UNCHANGED sessionVars => UNCHANGED profileVars
  BY DEF sessionVars
<1> QED
  BY <1>1, <1>2, <1>3, <1>4 DEF SessionNext

(* Every step keeps the invariant of the cache.                            *)
LEMMA ProfileInvStep == ProfileInv /\ [ProfileNext]_profileVars => ProfileInv'
<1> SUFFICES ASSUME ProfileInv, [ProfileNext]_profileVars PROVE ProfileInv'
  OBVIOUS
<1>0. Version \subseteq Nat
  BY ProfileAssumption
<1>1. ASSUME NEW v \in Version, CacheProfile(v) PROVE ProfileInv'
  <2> DEFINE c == [v |-> v, read |-> stored,
                   behind |-> \E i \in DOMAIN checks : checks[i].v > v]
             n == Len(checks)
  <2>1. checks' = Append(checks, c) /\ stored' = stored /\ v \in Nat
    BY <1>0, <1>1 DEF CacheProfile
  <2>2. c \in LookupRec /\ c.v = v /\ c.read = stored
    BY <2>1 DEF ProfileInv, LookupRec
  <2>4. ~ c.behind => \A j \in 1..n : checks[j].v <= v
    <3>1. c.behind <=> \E i \in DOMAIN checks : checks[i].v > v
      OBVIOUS
    <3>2. \A j \in 1..n : j \in DOMAIN checks /\ checks[j] \in LookupRec
      BY DEF ProfileInv
    <3>3. \A j \in 1..n : checks[j].v \in Nat
      BY <3>2 DEF LookupRec
    <3> HIDE DEF c
    <3> QED
      BY <2>1, <3>1, <3>2, <3>3
  <2> HIDE DEF c
  <2>3. /\ checks' \in Seq(LookupRec)
        /\ Len(checks') = n + 1 /\ n \in Nat
        /\ \A i \in 1..n : checks'[i] = checks[i]
        /\ checks'[n + 1] = c
    BY <2>1, <2>2 DEF ProfileInv
  <2>5. ASSUME NEW i \in 1..n + 1, ~ checks'[i].behind, checks'[i].read < checks'[i].v
        PROVE  /\ stored <= checks'[i].v
               /\ \A j \in 1..i - 1 : checks'[j].v <= checks'[i].v
    <3>1. CASE i = n + 1
      <4>1. ~ c.behind /\ stored < v /\ i - 1 = n
        BY <2>2, <2>3, <2>5, <3>1
      <4> QED
        BY <2>1, <2>2, <2>3, <2>4, <3>1, <4>1 DEF ProfileInv
    <3>2. CASE i \in 1..n
      BY <2>3, <2>5, <3>2 DEF ProfileInv
    <3> QED
      BY <2>3, <3>1, <3>2
  <2> QED
    BY <2>1, <2>3, <2>5 DEF ProfileInv
<1>2. CASE CheckAnswered
  <2> DEFINE n == Len(checks)
  <2>1. /\ checks' \in Seq(LookupRec)
        /\ n \in Nat \ {0} /\ Len(checks') = n - 1
        /\ \A i \in 1..n - 1 : checks'[i] = checks[i + 1]
        /\ Head(checks) = checks[1] /\ checks[1] \in LookupRec
    BY <1>2 DEF CheckAnswered, ProfileInv
  <2>2. stored' \in {stored, checks[1].v}
    BY <1>2, <2>1 DEF CheckAnswered
  <2>3. ASSUME NEW i \in 1..n - 1, ~ checks'[i].behind, checks'[i].read < checks'[i].v
        PROVE  /\ stored' <= checks'[i].v
               /\ \A j \in 1..i - 1 : checks'[j].v <= checks'[i].v
    <3>1. i + 1 \in 1..n /\ 1 \in 1..(i + 1) - 1 /\ \A j \in 1..i - 1 : j + 1 \in 1..(i + 1) - 1
      BY <2>1
    <3>2. /\ stored <= checks[i + 1].v
          /\ \A j \in 1..(i + 1) - 1 : checks[j].v <= checks[i + 1].v
      BY <2>1, <2>3, <3>1 DEF ProfileInv
    <3>3. \A j \in 1..i - 1 : checks'[j] = checks[j + 1]
      BY <2>1
    <3>4. checks[1].v <= checks[i + 1].v /\ checks'[i] = checks[i + 1]
      BY <2>1, <3>1, <3>2
    <3>5. \A j \in 1..i - 1 : checks'[j].v <= checks'[i].v
      BY <3>1, <3>2, <3>3, <3>4
    <3> QED
      BY <2>2, <3>2, <3>4, <3>5
  <2>4. stored' \in Nat
    BY <2>1, <2>2 DEF ProfileInv, LookupRec
  <2> QED
    BY <2>1, <2>3, <2>4 DEF ProfileInv
<1>3. CASE RedisFails
  BY <1>3 DEF RedisFails, ProfileInv
<1>4. CASE ProfileExpires
  <2>1. \A i \in 1..Len(checks) : checks[i] \in LookupRec
    BY DEF ProfileInv
  <2>2. \A i \in 1..Len(checks) : 0 <= checks[i].v
    BY <2>1 DEF LookupRec
  <2> QED
    BY <1>4, <2>2 DEF ProfileExpires, ProfileInv
<1>5. CASE UNCHANGED profileVars
  BY <1>5 DEF profileVars, ProfileInv
<1> QED
  BY <1>1, <1>2, <1>3, <1>4, <1>5 DEF ProfileNext, RedisNext

(* A step that puts an older version in place writes one that was behind.  *)
LEMMA OlderIsBehind ==
  ProfileInv /\ [ProfileNext]_profileVars =>
    [stored' \in 1..stored - 1 => checks # << >> /\ Head(checks).behind]_profileVars
<1> SUFFICES ASSUME ProfileInv, ProfileNext, stored' \in 1..stored - 1
             PROVE  checks # << >> /\ Head(checks).behind
  OBVIOUS
<1>1. CheckAnswered
  <2>1. stored' # stored /\ stored' # 0
    BY DEF ProfileInv
  <2> QED
    BY <2>1 DEF ProfileNext, RedisNext, CacheProfile, RedisFails, ProfileExpires
<1>2. checks # << >> /\ ~ UpToDate(Head(checks)) /\ stored' = Head(checks).v
  BY <1>1 DEF CheckAnswered, ProfileInv
<1>3. /\ 1 \in 1..Len(checks) /\ Head(checks) = checks[1]
      /\ checks[1] \in LookupRec
  BY <1>2 DEF ProfileInv
<1>4. checks[1].read < checks[1].v
  BY <1>2, <1>3 DEF UpToDate, LookupRec
<1>5. ~ checks[1].behind => stored <= checks[1].v
  BY <1>3, <1>4 DEF ProfileInv
<1> QED
  BY <1>2, <1>3, <1>5 DEF ProfileInv, LookupRec

(* profile-cache.ts: however many upstreams bring versions of a profile at *)
(* the same time, an older version replaces a newer one only if it was     *)
(* looked up while the newer one still was.  The cache alone.              *)
THEOREM NewerProfileStays == ProfileSpec => NewestWins
<1>1. ProfileInit => ProfileInv
  BY DEF ProfileInit, ProfileInv
<1> QED
  BY <1>1, ProfileInvStep, OlderIsBehind, PTL DEF ProfileSpec, NewestWins

(* The same beside everything else of a session.                           *)
THEOREM NewerProfileStaysInSession == SessionSpec => NewestWins
<1>1. SessionInit => ProfileInv
  BY DEF SessionInit, ProfileInit, ProfileInv
<1> QED
  BY <1>1, SessionToProfile, ProfileInvStep, OlderIsBehind, PTL DEF SessionSpec, NewestWins

-----------------------------------------------------------------------------
(* The feeds.                                                              *)

(* Before its first EOSE a feed REQ is in one of the early stages, and an  *)
(* answer or an error is late only once the stages before it are over.     *)
Bounded(stage, count, faults) ==
  /\ stage \in {"none", "ids", "connecting", "open"} => count = 0
  /\ stage \notin {"answered", "over"} => "lateAnswer" \notin faults
  /\ stage # "over" => "lateError" \notin faults
  /\ "lateAnswer" \notin faults /\ "lateError" \notin faults => count <= 1
  /\ "lateAnswer" \notin faults \/ "lateError" \notin faults => count <= 2
  /\ count <= 3

FeedInv ==
  /\ next \in Nat /\ feed \in [Msg -> Stage] /\ eose \in [Msg -> Nat]
  /\ timer \subseteq Msg /\ excused \in [Msg -> SUBSET Excuse]
  /\ \A m \in Msg : /\ m >= next => feed[m] = "none"
                    /\ Bounded(feed[m], eose[m], excused[m])

(* One feed REQ changes, within the bounds of its new stage.               *)
LEMMA OneFeedChanges ==
  ASSUME FeedInv, NEW m \in Msg, next' = next, feed[m] # "none", timer' \subseteq Msg,
         NEW stage \in Stage, feed' = [feed EXCEPT ![m] = stage],
         NEW count \in Nat, eose' = [eose EXCEPT ![m] = count],
         NEW faults \in SUBSET Excuse, excused' = [excused EXCEPT ![m] = faults],
         Bounded(stage, count, faults)
  PROVE  FeedInv'
<1>1. /\ feed' \in [Msg -> Stage] /\ eose' \in [Msg -> Nat]
      /\ excused' \in [Msg -> SUBSET Excuse]
  BY DEF FeedInv
<1>2. /\ feed'[m] = stage /\ eose'[m] = count /\ excused'[m] = faults
      /\ \A x \in Msg \ {m} : /\ feed'[x] = feed[x] /\ eose'[x] = eose[x]
                              /\ excused'[x] = excused[x]
  BY DEF FeedInv
<1>3. \A x \in Msg : Bounded(feed'[x], eose'[x], excused'[x])
  BY <1>2 DEF FeedInv
<1>4. \A x \in Msg : x >= next => feed'[x] = "none"
  BY <1>2 DEF FeedInv
<1> QED
  BY <1>1, <1>3, <1>4 DEF FeedInv

(* The steps of one feed REQ.                                              *)
LEMMA FeedingKeepsFeeds ==
  ASSUME FeedInv, NEW m \in Msg, Feeding(m) PROVE FeedInv'
<1>1. /\ next' = next
      /\ feed[m] \in Stage /\ eose[m] \in Nat /\ excused[m] \in SUBSET Excuse
      /\ Bounded(feed[m], eose[m], excused[m])
      /\ timer' \subseteq Msg
  BY DEF Feeding, FeedIds, FeedOpens, FeedFails, FeedAnswered, FeedTimeout, FeedClosed,
         FeedEnds, FeedGoes, vars, FeedInv
<1> DEFINE once == IF client = "open" THEN eose[m] + 1 ELSE eose[m]
<1>2. /\ once \in Nat /\ once <= eose[m] + 1
      /\ Eose(m) => eose' = [eose EXCEPT ![m] = once]
      /\ UNCHANGED eose => eose' = [eose EXCEPT ![m] = eose[m]]
      /\ UNCHANGED excused => excused' = [excused EXCEPT ![m] = excused[m]]
      /\ UNCHANGED feed => feed' = [feed EXCEPT ![m] = feed[m]]
  BY <1>1 DEF Eose, FeedInv
<1> HIDE DEF once
<1>3. ASSUME NEW excuse \in Excuse, NEW when \in BOOLEAN, Excused(m, excuse, when)
      PROVE  /\ (IF when THEN excused[m] \cup {excuse} ELSE excused[m]) \in SUBSET Excuse
             /\ excused' = [excused EXCEPT ![m] = IF when THEN excused[m] \cup {excuse}
                                                  ELSE excused[m]]
  BY <1>1, <1>3 DEF Excused
<1>4. /\ {"lateAnswer", "lateError", "hangUp", "slow"} \subseteq Excuse
      /\ {"ids", "connecting", "open", "timedout", "answered", "over"} \subseteq Stage
  BY DEF Excuse, Stage
<1> USE <1>1, <1>2, <1>4
<1>5. CASE FeedIds(m)
  <2>1. feed[m] = "ids" /\ UNCHANGED excused
    BY <1>5 DEF FeedIds
  <2>2. CASE feed' = [feed EXCEPT ![m] = "over"] /\ Eose(m)
    <3>1. Bounded("over", once, excused[m])
      BY <2>1 DEF Bounded
    <3> QED
      BY <2>1, <2>2, <3>1, OneFeedChanges
  <2>3. CASE feed' \in {[feed EXCEPT ![m] = stage] : stage \in {"connecting", "over"}}
             /\ UNCHANGED eose
    <3>1. PICK stage \in {"connecting", "over"} : feed' = [feed EXCEPT ![m] = stage]
      BY <2>3
    <3>2. Bounded(stage, eose[m], excused[m])
      BY <2>1, <3>1 DEF Bounded
    <3> QED
      BY <2>1, <2>3, <3>1, <3>2, OneFeedChanges
  <2> QED
    BY <1>5, <2>2, <2>3 DEF FeedIds
<1>6. CASE FeedOpens(m)
  <2>1. Bounded("open", eose[m], excused[m])
    BY <1>6 DEF FeedOpens, Bounded
  <2> QED
    BY <1>6, <2>1, OneFeedChanges DEF FeedOpens, FeedGoes
<1>7. CASE FeedFails(m)
  <2> DEFINE closing == feed[m] \in {"timedout", "answered"}
             faults == IF closing THEN excused[m] \cup {"lateError"} ELSE excused[m]
  <2>1. faults \in SUBSET Excuse /\ excused' = [excused EXCEPT ![m] = faults]
    <3>1. closing \in BOOLEAN /\ Excused(m, "lateError", closing)
      BY <1>7 DEF FeedFails
    <3> HIDE DEF closing
    <3> QED
      BY <1>3, <3>1
  <2>2. Bounded("over", once, faults)
    BY <1>7 DEF FeedFails, Bounded
  <2> HIDE DEF faults
  <2> QED
    BY <1>7, <2>1, <2>2, OneFeedChanges DEF FeedFails, FeedEnds, FeedGoes
<1>8. CASE FeedAnswered(m)
  <2> DEFINE faults == IF feed[m] = "timedout"
                       THEN excused[m] \cup {"lateAnswer"} ELSE excused[m]
  <2>1. faults \in SUBSET Excuse /\ excused' = [excused EXCEPT ![m] = faults]
    BY <1>3, <1>8 DEF FeedAnswered
  <2>2. Bounded("answered", once, faults)
    BY <1>8 DEF FeedAnswered, Bounded
  <2> HIDE DEF faults
  <2> QED
    BY <1>8, <2>1, <2>2, OneFeedChanges DEF FeedAnswered, FeedEnds, FeedGoes
<1>9. CASE FeedTimeout(m)
  <2>1. CASE feed[m] = "open" /\ FeedGoes(m, "timedout") /\ Eose(m) /\ UNCHANGED excused
    <3>1. Bounded("timedout", once, excused[m])
      BY <2>1 DEF Bounded
    <3> QED
      BY <2>1, <3>1, OneFeedChanges DEF FeedGoes
  <2>2. CASE /\ feed[m] = "connecting" /\ FeedGoes(m, "connecting")
             /\ Excused(m, "slow", TRUE) /\ UNCHANGED eose
    <3> DEFINE faults == excused[m] \cup {"slow"}
    <3>1. faults \in SUBSET Excuse /\ excused' = [excused EXCEPT ![m] = faults]
      BY <2>2, <1>3
    <3>2. Bounded("connecting", eose[m], faults)
      BY <2>2 DEF Bounded
    <3> HIDE DEF faults
    <3> QED
      BY <2>2, <3>1, <3>2, OneFeedChanges DEF FeedGoes
  <2> QED
    BY <1>9, <2>1, <2>2 DEF FeedTimeout
<1>10. CASE FeedClosed(m)
  <2> DEFINE faults == IF feed[m] = "open" THEN excused[m] \cup {"hangUp"} ELSE excused[m]
  <2>1. faults \in SUBSET Excuse /\ excused' = [excused EXCEPT ![m] = faults]
    BY <1>3, <1>10 DEF FeedClosed
  <2>2. Bounded("over", eose[m], faults)
    BY <1>10 DEF FeedClosed, Bounded
  <2> HIDE DEF faults
  <2> QED
    BY <1>10, <2>1, <2>2, OneFeedChanges DEF FeedClosed, FeedEnds, FeedGoes
<1> QED
  BY <1>5, <1>6, <1>7, <1>8, <1>9, <1>10 DEF Feeding

(* Every step keeps the invariant of the feeds.                            *)
LEMMA FeedStep == FeedInv /\ [SessionNext]_sessionVars => FeedInv'
<1> SUFFICES ASSUME FeedInv, [SessionNext]_sessionVars PROVE FeedInv'
  OBVIOUS
<1>1. CASE UNCHANGED feedVars /\ next' \in {next, next + 1}
  <2>1. \A m \in Msg : m >= next' => m >= next
    BY <1>1, UpstreamAssumption DEF FeedInv, Msg
  <2>2. next' \in Nat
    BY <1>1 DEF FeedInv
  <2> QED
    BY <1>1, <2>1, <2>2 DEF FeedInv, feedVars
<1>2. CASE Proxying
  <2>1. UNCHANGED feedVars
    BY <1>2 DEF Proxying, Proxied
  <2>2. Message \/ ClientCloses => next' \in {next, next + 1}
    BY DEF Message, ClientCloses
  <2>3. ASSUME NEW w \in Ws, Opened(w) \/ Refused(w) \/ Dropped(w) \/ Failed(w) \/ Closed(w)
        PROVE  next' = next
    BY <2>3 DEF Opened, Refused, Dropped, Failed, Closed
  <2> QED
    BY <1>1, <1>2, <2>1, <2>2, <2>3 DEF Proxying, Proxied
<1>3. CASE ProfileLookup \/ ProfileServed
  BY <1>1, <1>3 DEF ProfileLookup, ProfileReq, ProfileServed, LookupDone
<1>4. CASE ProfileEvent \/ Redis \/ UNCHANGED sessionVars
  BY <1>1, <1>4 DEF ProfileEvent, Redis, sessionVars, vars
<1>5. CASE FeedReq
  <2>1. /\ next \in Msg /\ next' = next + 1 /\ feed' = [feed EXCEPT ![next] = "ids"]
        /\ UNCHANGED <<timer, eose, excused>>
    BY <1>5 DEF FeedReq
  <2>2. feed' \in [Msg -> Stage] /\ \A x \in Msg : x # next => feed'[x] = feed[x]
    BY <2>1 DEF FeedInv, Stage
  <2>3. feed[next] = "none" /\ feed'[next] = "ids" /\ Bounded("ids", eose[next], excused[next])
    BY <2>1 DEF FeedInv, Bounded
  <2>4. \A x \in Msg : Bounded(feed'[x], eose[x], excused[x])
    BY <2>2, <2>3 DEF FeedInv
  <2>5. \A x \in Msg : x >= next' => x >= next /\ x # next
    BY <2>1, UpstreamAssumption DEF FeedInv, Msg
  <2>6. next' \in Nat /\ \A x \in Msg : x >= next' => feed'[x] = "none"
    BY <2>1, <2>2, <2>5 DEF FeedInv
  <2> QED
    BY <2>1, <2>2, <2>4, <2>6 DEF FeedInv
<1> QED
  BY <1>2, <1>3, <1>4, <1>5, FeedingKeepsFeeds DEF SessionNext

LEMMA FeedInit == SessionInit => FeedInv
BY UpstreamAssumption DEF SessionInit, Init, FeedInv, Bounded, Stage, Excuse

(* feed-proxy.ts: one EOSE for each feed REQ, one more if the answer of    *)
(* strfry comes past the ten seconds, and one more if the socket has an    *)
(* error once the relay closed it (line 135).                              *)
THEOREM OneEose == SessionSpec => []EoseOnce
<1>1. FeedInv => EoseOnce
  <2> SUFFICES ASSUME FeedInv, NEW m \in Msg
               PROVE  eose[m] <= 1 + Cardinality(excused[m] \cap {"lateAnswer", "lateError"})
    BY DEF EoseOnce
  <2> DEFINE A == excused[m] \cap {"lateAnswer"}
             late == excused[m] \cap {"lateAnswer", "lateError"}
  <2>1. IsFiniteSet({}) /\ Cardinality({}) = 0
    BY FS_EmptySet
  <2>2. /\ IsFiniteSet(A)
        /\ Cardinality(A) = IF "lateAnswer" \in excused[m] THEN 1 ELSE 0
    <3>1. A = IF "lateAnswer" \in excused[m] THEN {"lateAnswer"} ELSE {}
      OBVIOUS
    <3>2. IsFiniteSet({"lateAnswer"}) /\ Cardinality({"lateAnswer"}) = 1
      BY FS_Singleton
    <3> HIDE DEF A
    <3> QED
      BY <2>1, <3>1, <3>2
  <2>3. Cardinality(late)
          = Cardinality(A) + IF "lateError" \in excused[m] THEN 1 ELSE 0
    <3>1. CASE "lateError" \in excused[m]
      <4>1. late = A \cup {"lateError"} /\ "lateError" \notin A
        BY <3>1
      <4> HIDE DEF late, A
      <4> QED
        BY <2>2, <3>1, <4>1, FS_AddElement
    <3>2. CASE "lateError" \notin excused[m]
      <4>1. late = A
        BY <3>2
      <4>2. Cardinality(A) \in Nat
        BY <2>2, FS_CardinalityType
      <4> HIDE DEF late, A
      <4> QED
        BY <3>2, <4>1, <4>2
    <3> QED
      BY <3>1, <3>2
  <2>4. Bounded(feed[m], eose[m], excused[m]) /\ eose[m] \in Nat
    BY DEF FeedInv
  <2>5. eose[m] <= 1 + Cardinality(late)
    <3> HIDE DEF late, A
    <3>1. CASE "lateAnswer" \in excused[m] /\ "lateError" \in excused[m]
      <4>1. Cardinality(late) = 2
        BY <2>2, <2>3, <3>1
      <4> QED
        BY <2>4, <4>1 DEF Bounded
    <3>2. CASE ~ ("lateAnswer" \in excused[m] <=> "lateError" \in excused[m])
      <4>1. Cardinality(late) = 1
        BY <2>2, <2>3, <3>2
      <4> QED
        BY <2>4, <3>2, <4>1 DEF Bounded
    <3>3. CASE "lateAnswer" \notin excused[m] /\ "lateError" \notin excused[m]
      <4>1. Cardinality(late) = 0
        BY <2>2, <2>3, <3>3
      <4> QED
        BY <2>4, <3>3, <4>1 DEF Bounded
    <3> QED
      BY <3>1, <3>2, <3>3
  <2> QED
    BY <2>5
<1> QED
  BY <1>1, FeedInit, FeedStep, PTL DEF SessionSpec

-----------------------------------------------------------------------------
(* The upstream.                                                           *)

SocketType ==
  /\ upstream \in Ws \cup {NoWs} /\ pending \in Seq(Msg)
  /\ ws \in [Ws -> WsState] /\ first \in [Ws -> Msg \cup {0}] /\ sent \in [Ws -> Seq(Msg)]
  /\ \A w \in Ws : ws[w] = "connecting" => first[w] \in Msg

InQueue(m) == \E i \in 1..Len(pending) : pending[i] = m
IsFirst(m) == \E w \in Ws : ws[w] = "connecting" /\ first[w] = m
IsSent(m)  == \E w \in Ws : \E i \in 1..Len(sent[w]) : sent[w][i] = m
Placed(m)  == InQueue(m) \/ IsFirst(m) \/ IsSent(m)

(* A message has one place: in the queue, as the first of a connecting     *)
(* WebSocket, or among what was sent.                                      *)
OnePlace ==
  /\ \A i, j \in 1..Len(pending) : pending[i] = pending[j] => i = j
  /\ \A v, w \in Ws : /\ ws[v] = "connecting" /\ ws[w] = "connecting"
                      /\ first[v] = first[w]
                      => v = w
  /\ \A v, w \in Ws : \A i \in 1..Len(sent[v]), j \in 1..Len(sent[w]) :
       sent[v][i] = sent[w][j] => v = w /\ i = j
  /\ \A m \in Msg : /\ InQueue(m) => ~ IsFirst(m) /\ ~ IsSent(m)
                    /\ IsFirst(m) => ~ IsSent(m)

SocketInv == SocketType /\ OnePlace /\ QueueHasOwner

(* What happens to a message that has no place yet: it is sent, queued, or *)
(* the first of a new WebSocket.                                           *)
LEMMA ProxyRawKeepsPlaces ==
  ASSUME SocketInv, NEW m \in Msg, ~ Placed(m), ProxyRaw(m), client' = client
  PROVE  SocketInv' /\ \A x \in Msg : Placed(x)' => Placed(x) \/ x = m
<1> USE DEF SocketInv
<1>1. Ws \subseteq Nat \ {0} /\ NoWs \notin Ws
  BY UpstreamAssumption DEF Ws, NoWs
<1>2. CASE SendNow(m)
  <2>1. /\ upstream \in Ws /\ ws[upstream] = "open"
        /\ UNCHANGED <<upstream, pending, ws, first>>
        /\ sent' = [sent EXCEPT ![upstream] = Append(@, m)]
    BY <1>1, <1>2 DEF SendNow, State, SocketType
  <2> DEFINE u == upstream
             n == Len(sent[u])
  <2>2. /\ sent[u] \in Seq(Msg) /\ n \in Nat
        /\ sent'[u] = Append(sent[u], m)
        /\ \A w \in Ws \ {u} : sent'[w] = sent[w]
    BY <2>1 DEF SocketType
  <2>3. /\ Len(sent'[u]) = n + 1 /\ sent'[u][n + 1] = m
        /\ \A i \in 1..n : sent'[u][i] = sent[u][i]
    BY <2>2
  <2>4. \A w \in Ws : \A i \in 1..Len(sent'[w]) :
          \/ i \in 1..Len(sent[w]) /\ sent'[w][i] = sent[w][i]
          \/ w = u /\ i = n + 1 /\ sent'[w][i] = m
    BY <2>2, <2>3
  <2>5. SocketType'
    BY <2>1 DEF SocketType
  <2>6. \A x \in Msg : /\ InQueue(x)' <=> InQueue(x)
                       /\ IsFirst(x)' <=> IsFirst(x)
                       /\ IsSent(x)' => IsSent(x) \/ x = m
    BY <2>1, <2>4 DEF InQueue, IsFirst, IsSent
  <2>7. \A v, w \in Ws : \A i \in 1..Len(sent'[v]), j \in 1..Len(sent'[w]) :
          sent'[v][i] = sent'[w][j] => v = w /\ i = j
    <3>1. \A w \in Ws : \A i \in 1..Len(sent[w]) : sent[w][i] # m
      BY DEF Placed, IsSent
    <3> TAKE v, w \in Ws
    <3> TAKE i \in 1..Len(sent'[v]), j \in 1..Len(sent'[w])
    <3> HAVE sent'[v][i] = sent'[w][j]
    <3>2. CASE i \in 1..Len(sent[v]) /\ sent'[v][i] = sent[v][i]
      <4>1. j \in 1..Len(sent[w]) /\ sent'[w][j] = sent[w][j]
        BY <2>4, <3>1, <3>2
      <4>2. sent[v][i] = sent[w][j] /\ i \in 1..Len(sent[v])
        BY <3>2, <4>1
      <4>3. \A a \in 1..Len(sent[v]), b \in 1..Len(sent[w]) :
              sent[v][a] = sent[w][b] => v = w /\ a = b
        BY DEF OnePlace
      <4> QED
        BY <4>1, <4>2, <4>3
    <3>3. CASE v = u /\ i = n + 1 /\ sent'[v][i] = m
      <4>1. w = u /\ j = n + 1
        BY <2>4, <3>1, <3>3
      <4> QED
        BY <3>3, <4>1
    <3> QED
      BY <2>4, <3>2, <3>3
  <2>8. OnePlace'
    BY <2>1, <2>6, <2>7 DEF OnePlace, Placed
  <2>9. QueueHasOwner'
    BY <2>1 DEF QueueHasOwner, State
  <2> QED
    BY <2>5, <2>6, <2>8, <2>9 DEF Placed
<1>3. CASE Enqueue(m)
  <2> DEFINE n == Len(pending)
  <2>1. /\ pending' = Append(pending, m) /\ UNCHANGED <<upstream, ws, first, sent>>
        /\ State(upstream) = "connecting" /\ pending \in Seq(Msg) /\ n \in Nat
    BY <1>3 DEF Enqueue, SocketType
  <2>2. /\ Len(pending') = n + 1 /\ pending'[n + 1] = m
        /\ \A i \in 1..n : pending'[i] = pending[i]
    BY <2>1
  <2>3. SocketType'
    BY <2>1 DEF SocketType
  <2>4. \A x \in Msg : /\ InQueue(x)' => InQueue(x) \/ x = m
                       /\ IsFirst(x)' <=> IsFirst(x)
                       /\ IsSent(x)' <=> IsSent(x)
    BY <2>1, <2>2 DEF InQueue, IsFirst, IsSent
  <2>5. \A i, j \in 1..n + 1 : pending'[i] = pending'[j] => i = j
    <3>1. \A i \in 1..n : pending[i] # m
      BY DEF Placed, InQueue
    <3>2. \A i \in 1..n + 1 : i \in 1..n \/ i = n + 1
      BY <2>1
    <3> QED
      BY <2>2, <3>1, <3>2 DEF OnePlace
  <2>6. OnePlace'
    BY <2>1, <2>2, <2>4, <2>5 DEF OnePlace, Placed
  <2>7. QueueHasOwner'
    BY <2>1 DEF QueueHasOwner, State
  <2> QED
    BY <2>3, <2>4, <2>6, <2>7 DEF Placed
<1>4. CASE OpenNew(m)
  <2>1. PICK w \in Ws : /\ ws[w] = "none"
                        /\ ws' = [ws EXCEPT ![w] = "connecting"]
                        /\ first' = [first EXCEPT ![w] = m]
                        /\ upstream' = w
                        /\ UNCHANGED <<pending, sent>>
    BY <1>4 DEF OpenNew
  <2>2. /\ \A v \in Ws : ws'[v] = IF v = w THEN "connecting" ELSE ws[v]
        /\ \A v \in Ws : first'[v] = IF v = w THEN m ELSE first[v]
    BY <2>1 DEF SocketType
  <2>3. SocketType'
    BY <2>1, <2>2 DEF SocketType, WsState
  <2>4. \A x \in Msg : /\ InQueue(x)' <=> InQueue(x)
                       /\ IsFirst(x)' => IsFirst(x) \/ x = m
                       /\ IsSent(x)' <=> IsSent(x)
    BY <2>1, <2>2 DEF InQueue, IsFirst, IsSent
  <2>5. \A v \in Ws : ws[v] = "connecting" => first[v] # m
    BY DEF Placed, IsFirst
  <2>6. OnePlace'
    BY <2>1, <2>2, <2>4, <2>5 DEF OnePlace, Placed
  <2>7. QueueHasOwner'
    BY <1>1, <2>1, <2>2 DEF QueueHasOwner, State
  <2> QED
    BY <2>3, <2>4, <2>6, <2>7 DEF Placed
<1> QED
  BY <1>2, <1>3, <1>4 DEF ProxyRaw

(* A WebSocket opens: its first message and the queue are sent, in places  *)
(* of their own.                                                           *)
LEMMA OpenedKeepsPlaces ==
  ASSUME SocketInv, NEW w \in Ws, Opened(w)
  PROVE  SocketInv' /\ \A x \in Msg : Placed(x)' => Placed(x)
<1> USE DEF SocketInv
<1> DEFINE n == Len(pending)
           f == first[w]
<1>1. /\ ws[w] = "connecting" /\ f \in Msg /\ pending \in Seq(Msg) /\ n \in Nat
      /\ UNCHANGED <<client, upstream, first>> /\ pending' = << >>
      /\ ws' = [ws EXCEPT ![w] = "open"]
      /\ sent' = [sent EXCEPT ![w] = <<f>> \o pending]
  BY DEF Opened, SocketType
<1>2. /\ \A v \in Ws : ws'[v] = IF v = w THEN "open" ELSE ws[v]
      /\ \A v \in Ws \ {w} : sent'[v] = sent[v]
      /\ sent'[w] = <<f>> \o pending
  BY <1>1 DEF SocketType
<1>3. /\ <<f>> \o pending \in Seq(Msg) /\ Len(<<f>> \o pending) = n + 1
      /\ (<<f>> \o pending)[1] = f
      /\ \A i \in 2..n + 1 : (<<f>> \o pending)[i] = pending[i - 1]
  <2>1. <<f>> \in Seq(Msg) /\ Len(<<f>>) = 1 /\ <<f>>[1] = f
    BY <1>1
  <2> QED
    BY <1>1, <2>1
<1>4. SocketType'
  BY <1>1, <1>2, <1>3 DEF SocketType, WsState
<1>5. \A v \in Ws : \A i \in 1..Len(sent'[v]) :
        \/ v # w /\ i \in 1..Len(sent[v]) /\ sent'[v][i] = sent[v][i]
        \/ v = w /\ i = 1 /\ sent'[v][i] = f
        \/ v = w /\ i - 1 \in 1..n /\ sent'[v][i] = pending[i - 1]
  <2> TAKE v \in Ws
  <2> TAKE i \in 1..Len(sent'[v])
  <2>1. CASE v # w
    BY <1>2, <2>1
  <2>2. CASE v = w /\ i = 1
    BY <1>2, <1>3, <2>2
  <2>3. CASE v = w /\ i # 1
    <3>1. i \in 2..n + 1 /\ i - 1 \in 1..n
      BY <1>1, <1>2, <1>3, <2>3
    <3> QED
      BY <1>2, <1>3, <2>3, <3>1
  <2> QED
    BY <2>1, <2>2, <2>3
<1>6. \A x \in Msg : /\ ~ InQueue(x)'
                     /\ IsFirst(x)' => IsFirst(x) /\ x # f
                     /\ IsSent(x)' => IsSent(x) \/ x = f \/ InQueue(x)
  <2> TAKE x \in Msg
  <2>1. ~ InQueue(x)'
    BY <1>1 DEF InQueue
  <2>2. IsFirst(x)' => IsFirst(x) /\ x # f
    BY <1>1, <1>2 DEF IsFirst, OnePlace
  <2>3. IsSent(x)' => IsSent(x) \/ x = f \/ InQueue(x)
    BY <1>5 DEF IsSent, InQueue
  <2> QED
    BY <2>1, <2>2, <2>3
<1>7. IsFirst(f) /\ ~ IsSent(f) /\ ~ InQueue(f)
  BY <1>1 DEF IsFirst, OnePlace
<1>8. \A i \in 1..n : pending[i] \in Msg /\ pending[i] # f /\ ~ IsSent(pending[i])
  <2> TAKE i \in 1..n
  <2>1. pending[i] \in Msg /\ InQueue(pending[i])
    BY <1>1 DEF InQueue
  <2> QED
    BY <1>7, <2>1 DEF OnePlace
<1>9. ASSUME NEW u \in Ws, NEW v \in Ws, NEW i \in 1..Len(sent'[u]), NEW j \in 1..Len(sent'[v]),
             sent'[u][i] = sent'[v][j]
      PROVE  u = v /\ i = j
  <2>1. \A a \in 1..Len(sent[u]) : IsSent(sent[u][a])
    BY DEF IsSent
  <2>2. \A b \in 1..Len(sent[v]) : IsSent(sent[v][b])
    BY DEF IsSent
  <2>3. CASE u # w /\ i \in 1..Len(sent[u]) /\ sent'[u][i] = sent[u][i]
    <3>1. IsSent(sent'[v][j])
      BY <1>9, <2>1, <2>3
    <3>2. v # w /\ j \in 1..Len(sent[v]) /\ sent'[v][j] = sent[v][j]
      BY <1>5, <1>7, <1>8, <3>1
    <3>3. \A a \in 1..Len(sent[u]), b \in 1..Len(sent[v]) :
            sent[u][a] = sent[v][b] => u = v /\ a = b
      BY DEF OnePlace
    <3> QED
      BY <1>9, <2>3, <3>2, <3>3
  <2>4. CASE u = w /\ i = 1 /\ sent'[u][i] = f
    <3>1. ~ IsSent(sent'[v][j])
      BY <1>7, <1>9, <2>4
    <3>2. v = w /\ j = 1
      BY <1>5, <1>8, <1>9, <2>2, <2>4, <3>1
    <3> QED
      BY <2>4, <3>2
  <2>5. CASE u = w /\ i - 1 \in 1..n /\ sent'[u][i] = pending[i - 1]
    <3>1. ~ IsSent(sent'[v][j]) /\ sent'[v][j] # f
      BY <1>8, <1>9, <2>5
    <3>2. v = w /\ j - 1 \in 1..n /\ sent'[v][j] = pending[j - 1]
      BY <1>5, <2>2, <3>1
    <3>3. i - 1 = j - 1
      BY <1>9, <2>5, <3>2 DEF OnePlace
    <3> QED
      BY <2>5, <3>2, <3>3
  <2> QED
    BY <1>5, <2>3, <2>4, <2>5
<1>10. OnePlace'
  <2>1. \A u, v \in Ws : /\ ws'[u] = "connecting" /\ ws'[v] = "connecting"
                         /\ first'[u] = first'[v]
                         => u = v
    BY <1>1, <1>2 DEF OnePlace
  <2>2. \A x \in Msg : /\ InQueue(x)' => ~ IsFirst(x)' /\ ~ IsSent(x)'
                       /\ IsFirst(x)' => ~ IsSent(x)'
    BY <1>6 DEF OnePlace
  <2>3. Len(pending') = 0
    BY <1>1
  <2> QED
    BY <1>9, <2>1, <2>2, <2>3 DEF OnePlace
<1>11. QueueHasOwner'
  BY <1>1 DEF QueueHasOwner
<1> QED
  BY <1>4, <1>6, <1>7, <1>10, <1>11 DEF Placed

(* Whatever only closes WebSockets or drops the queue gives no message a   *)
(* place.                                                                  *)
LEMMA ClosingKeepsPlaces ==
  ASSUME SocketInv, SocketType', QueueHasOwner', UNCHANGED <<first, sent>>,
         pending' \in {pending, << >>},
         \A w \in Ws : ws'[w] = "connecting" => ws[w] = "connecting"
  PROVE  SocketInv' /\ \A x \in Msg : Placed(x)' => Placed(x)
<1> USE DEF SocketInv
<1>1. \A x \in Msg : /\ InQueue(x)' => InQueue(x)
                     /\ IsFirst(x)' => IsFirst(x)
                     /\ IsSent(x)' => IsSent(x)
  <2>1. \A x \in Msg : InQueue(x)' => InQueue(x)
    BY DEF InQueue
  <2>2. \A x \in Msg : (IsFirst(x)' => IsFirst(x)) /\ (IsSent(x)' => IsSent(x))
    BY DEF IsFirst, IsSent
  <2> QED
    BY <2>1, <2>2
<1>2. \A i, j \in 1..Len(pending') : pending'[i] = pending'[j] => i = j
  BY DEF OnePlace
<1>3. OnePlace'
  BY <1>1, <1>2 DEF OnePlace
<1> QED
  BY <1>1, <1>3 DEF Placed

(* The events of the WebSockets and the end of the client.                 *)
LEMMA SocketEvents ==
  ASSUME SocketInv,
         \/ ClientCloses
         \/ \E w \in Ws : Opened(w) \/ Refused(w) \/ Dropped(w) \/ Failed(w) \/ Closed(w)
  PROVE  SocketInv' /\ \A x \in Msg : Placed(x)' => Placed(x)
<1>1. /\ Ws \subseteq Nat \ {0} /\ NoWs \notin Ws /\ << >> \in Seq(Msg)
  BY UpstreamAssumption DEF Ws, NoWs
<1>2. ASSUME NEW w \in Ws, Refused(w) \/ Failed(w) \/ Closed(w)
      PROVE  SocketInv' /\ \A x \in Msg : Placed(x)' => Placed(x)
  <2>1. /\ UNCHANGED <<first, sent>> /\ pending' = << >> /\ upstream' = NoWs
        /\ \E state \in {"closed", "closing"} : ws' = [ws EXCEPT ![w] = state]
    BY <1>2 DEF Refused, Failed, Closed, ForgetUpstream
  <2>2. \A v \in Ws : ws'[v] = "connecting" => ws[v] = "connecting"
    BY <2>1 DEF SocketInv, SocketType
  <2>3. SocketType'
    BY <1>1, <2>1, <2>2 DEF SocketInv, SocketType, WsState
  <2>4. QueueHasOwner'
    BY <2>1 DEF QueueHasOwner
  <2> QED
    BY <2>1, <2>2, <2>3, <2>4, ClosingKeepsPlaces
<1>3. ASSUME NEW w \in Ws, Dropped(w)
      PROVE  SocketInv' /\ \A x \in Msg : Placed(x)' => Placed(x)
  <2>1. /\ UNCHANGED <<client, first, sent, pending, upstream>> /\ ws[w] = "open"
        /\ ws' = [ws EXCEPT ![w] = "closing"]
    BY <1>3 DEF Dropped
  <2>2. \A v \in Ws : ws'[v] = IF v = w THEN "closing" ELSE ws[v]
    BY <2>1 DEF SocketInv, SocketType
  <2>3. SocketType'
    BY <1>1, <2>1, <2>2 DEF SocketInv, SocketType, WsState
  <2>4. QueueHasOwner'
    BY <2>1, <2>2 DEF SocketInv, SocketType, QueueHasOwner, State
  <2> QED
    BY <2>1, <2>2, <2>3, <2>4, ClosingKeepsPlaces
<1>4. CASE ClientCloses
  <2>1. /\ UNCHANGED <<first, sent, pending>> /\ upstream' = NoWs /\ client' = "closed"
        /\ client = "open"
        /\ ws' = [w \in Ws |-> IF w = upstream /\ ws[w] \in {"connecting", "open"}
                               THEN "closing" ELSE ws[w]]
    BY <1>4 DEF ClientCloses
  <2>2. \A v \in Ws : ws'[v] = "connecting" => ws[v] = "connecting"
    BY <2>1 DEF SocketInv, SocketType
  <2>3. SocketType'
    BY <1>1, <2>1, <2>2 DEF SocketInv, SocketType, WsState
  <2>4. QueueHasOwner'
    <3>1. pending # << >> => upstream \in Ws /\ ws[upstream] = "connecting"
      BY <2>1 DEF SocketInv, SocketType, QueueHasOwner, State
    <3> QED
      BY <2>1, <3>1 DEF QueueHasOwner
  <2> QED
    BY <2>1, <2>2, <2>3, <2>4, ClosingKeepsPlaces
<1> QED
  BY <1>2, <1>3, <1>4, OpenedKeepsPlaces

-----------------------------------------------------------------------------
(* The messages on their way to the upstream.                              *)

MessageInv ==
  /\ client \in {"open", "closed"} /\ next \in 1..MaxMsg + 1
  /\ lookups \in Seq(Msg) /\ feed \in [Msg -> Stage]
  /\ answered \subseteq Msg /\ profile \subseteq Msg /\ cached \subseteq profile
  /\ \A i, j \in 1..Len(lookups) : lookups[i] = lookups[j] => i = j
  /\ \A i \in 1..Len(lookups) :
       lookups[i] < next /\ feed[lookups[i]] \in {"none", "over"}
  /\ \A m \in Msg : m >= next => feed[m] = "none"

(* m was not given to _proxyRaw, and may still be.                         *)
Waiting(m) == \/ m >= next \/ feed[m] = "ids"
              \/ \E i \in 1..Len(lookups) : lookups[i] = m

(* A message waits or has one place.                                       *)
UpstreamInv == /\ SocketInv /\ MessageInv
               /\ \A m \in Msg : Waiting(m) => ~ Placed(m)

(* A step that gives messages no place and adds none to those that wait.   *)
LEMMA NothingMoves ==
  ASSUME UpstreamInv, SocketInv', MessageInv',
         \A x \in Msg : Placed(x)' => Placed(x),
         \A x \in Msg : Waiting(x)' => Waiting(x)
  PROVE  UpstreamInv'
BY DEF UpstreamInv

(* A step that gives a waiting message to _proxyRaw.                       *)
LEMMA OneMoves ==
  ASSUME UpstreamInv, NEW m \in Msg, Waiting(m), ProxyRaw(m), client' = client, MessageInv',
         \A x \in Msg : Waiting(x)' => Waiting(x) /\ x # m
  PROVE  UpstreamInv'
BY ProxyRawKeepsPlaces DEF UpstreamInv

(* The WebSockets are not touched.                                         *)
LEMMA SocketsStay ==
  ASSUME SocketInv, UNCHANGED <<client, wsVars>>
  PROVE  SocketInv' /\ \A x \in Msg : Placed(x)' => Placed(x)
BY DEF SocketInv, SocketType, OnePlace, QueueHasOwner, State, wsVars, Placed, InQueue, IsFirst,
       IsSent

(* A message that goes on at once.                                         *)
LEMMA MessageMoves ==
  ASSUME UpstreamInv, Message, UNCHANGED <<cached, feed>> PROVE UpstreamInv'
<1>1. /\ next \in Msg /\ next' = next + 1 /\ ProxyRaw(next)
      /\ UNCHANGED <<client, lookups, answered, profile, cached, feed>>
  BY DEF Message
<1>2. Msg \subseteq Int /\ next + 1 \in 1..MaxMsg + 1
  BY <1>1, UpstreamAssumption DEF Msg
<1>3. MessageInv'
  <2>1. \A i \in 1..Len(lookups) : lookups[i] \in Msg /\ lookups[i] < next
    BY DEF UpstreamInv, MessageInv
  <2>2. \A m \in Msg : m < next => m < next + 1
    BY <1>1, <1>2
  <2>3. \A i \in 1..Len(lookups) : lookups[i] < next + 1
    BY <2>1, <2>2
  <2> QED
    BY <1>1, <1>2, <2>3 DEF UpstreamInv, MessageInv
<1>4. \A x \in Msg : Waiting(x)' => Waiting(x) /\ x # next
  BY <1>1, <1>2 DEF UpstreamInv, MessageInv, Waiting
<1>5. Waiting(next)
  BY <1>1, <1>2 DEF Waiting
<1> QED
  BY <1>1, <1>3, <1>4, <1>5, OneMoves

(* A profile REQ that begins to wait for Redis.                            *)
LEMMA ProfileLookupWaits ==
  ASSUME UpstreamInv, ProfileLookup PROVE UpstreamInv'
<1> DEFINE n == Len(lookups)
<1>1. /\ next \in Msg /\ next' = next + 1 /\ lookups' = Append(lookups, next)
      /\ profile' = profile \cup {next} /\ cached' \in {cached, cached \cup {next}}
      /\ UNCHANGED <<client, wsVars, answered, feed>>
      /\ lookups \in Seq(Msg) /\ n \in Nat
  BY DEF ProfileLookup, ProfileReq, Intercept, LooksUp, feedVars, UpstreamInv, MessageInv
<1>2. Msg \subseteq Int /\ next + 1 \in 1..MaxMsg + 1
  BY <1>1, UpstreamAssumption DEF Msg
<1>3. /\ lookups' \in Seq(Msg) /\ Len(lookups') = n + 1 /\ lookups'[n + 1] = next
      /\ \A i \in 1..n : lookups'[i] = lookups[i]
  BY <1>1
<1>4. \A i \in 1..n : /\ lookups[i] \in Msg /\ lookups[i] < next
                      /\ feed[lookups[i]] \in {"none", "over"}
  BY DEF UpstreamInv, MessageInv
<1>5. \A i \in 1..n + 1 : i \in 1..n \/ i = n + 1
  BY <1>1
<1>6. \A i, j \in 1..n + 1 : lookups'[i] = lookups'[j] => i = j
  BY <1>1, <1>2, <1>3, <1>4, <1>5 DEF UpstreamInv, MessageInv
<1>7. feed[next] = "none"
  BY <1>1, <1>2 DEF UpstreamInv, MessageInv
<1>8. \A i \in 1..n + 1 : lookups'[i] < next + 1 /\ feed[lookups'[i]] \in {"none", "over"}
  <2> TAKE i \in 1..n + 1
  <2>1. CASE i \in 1..n
    <3>1. \A m \in Msg : m < next => m < next + 1
      BY <1>1, <1>2
    <3> QED
      BY <1>3, <1>4, <2>1, <3>1
  <2>2. CASE i = n + 1
    BY <1>1, <1>2, <1>3, <1>7, <2>2
  <2> QED
    BY <1>5, <2>1, <2>2
<1>9. MessageInv'
  BY <1>1, <1>2, <1>3, <1>6, <1>8 DEF UpstreamInv, MessageInv
<1>10. \A x \in Msg : Waiting(x)' => Waiting(x)
  BY <1>1, <1>2, <1>3, <1>5 DEF Waiting
<1> QED
  BY <1>1, <1>9, <1>10, SocketsStay, NothingMoves DEF UpstreamInv

(* A lookup that is answered: the first to wait waits no longer.           *)
LEMMA ProfileServedMoves ==
  ASSUME UpstreamInv, ProfileServed PROVE UpstreamInv'
<1> DEFINE n == Len(lookups)
           m == Head(lookups)
<1>1. /\ lookups \in Seq(Msg) /\ lookups # << >> /\ lookups' = Tail(lookups)
      /\ UNCHANGED <<client, next, profile, cached, feed>>
      /\ \/ answered' = answered \cup {m} /\ UNCHANGED wsVars
         \/ ProxyRaw(m) /\ UNCHANGED answered
  BY DEF ProfileServed, LookupDone, feedVars, UpstreamInv, MessageInv
<1>2. /\ n \in Nat \ {0} /\ m = lookups[1] /\ m \in Msg
      /\ lookups' \in Seq(Msg) /\ Len(lookups') = n - 1
      /\ \A i \in 1..n - 1 : lookups'[i] = lookups[i + 1] /\ i + 1 \in 1..n /\ i + 1 # 1
  BY <1>1
<1>3. MessageInv'
  <2>1. \A i, j \in 1..n - 1 : lookups'[i] = lookups'[j] => i = j
    <3> TAKE i, j \in 1..n - 1
    <3> HAVE lookups'[i] = lookups'[j]
    <3>1. lookups[i + 1] = lookups[j + 1] /\ i + 1 \in 1..n /\ j + 1 \in 1..n
      BY <1>2
    <3>2. i + 1 = j + 1
      BY <3>1 DEF UpstreamInv, MessageInv
    <3> QED
      BY <3>2
  <2>2. \A i \in 1..n - 1 : lookups'[i] < next /\ feed[lookups'[i]] \in {"none", "over"}
    <3>1. \A i \in 1..n : lookups[i] < next /\ feed[lookups[i]] \in {"none", "over"}
      BY DEF UpstreamInv, MessageInv
    <3> QED
      BY <1>2, <3>1
  <2> QED
    BY <1>1, <1>2, <2>1, <2>2 DEF UpstreamInv, MessageInv
<1>4. \A x \in Msg : Waiting(x)' => Waiting(x) /\ x # m
  <2>1. \A i \in 1..n - 1 : lookups[i + 1] # lookups[1]
    BY <1>2 DEF UpstreamInv, MessageInv
  <2>2. /\ 1 \in 1..n /\ m < next /\ feed[m] # "ids" /\ m \in Int /\ next \in Int
    <3>1. \A i \in 1..n : lookups[i] < next /\ feed[lookups[i]] # "ids"
      BY DEF UpstreamInv, MessageInv
    <3>2. m \in Int /\ next \in Int
      BY <1>2, UpstreamAssumption DEF UpstreamInv, MessageInv, Msg
    <3> QED
      BY <1>2, <3>1, <3>2
  <2> TAKE x \in Msg
  <2> HAVE Waiting(x)'
  <2>3. CASE x >= next \/ feed[x] = "ids"
    BY <2>2, <2>3 DEF Waiting
  <2>4. CASE \E i \in 1..n - 1 : lookups'[i] = x
    BY <1>2, <2>1, <2>4 DEF Waiting
  <2> QED
    BY <1>1, <1>2, <2>3, <2>4 DEF Waiting
<1>5. Waiting(m)
  BY <1>2 DEF Waiting
<1>6. CASE UNCHANGED wsVars
  BY <1>1, <1>3, <1>4, <1>6, SocketsStay, NothingMoves DEF UpstreamInv
<1> QED
  BY <1>1, <1>2, <1>3, <1>4, <1>5, <1>6, OneMoves

(* A feed REQ that begins to wait for the Feed Engine.                     *)
LEMMA FeedReqWaits ==
  ASSUME UpstreamInv, FeedReq PROVE UpstreamInv'
<1>1. /\ next \in Msg /\ next' = next + 1 /\ feed' = [feed EXCEPT ![next] = "ids"]
      /\ UNCHANGED <<client, lookups, wsVars, answered, profile, cached>>
  BY DEF FeedReq
<1>2. Msg \subseteq Int /\ next + 1 \in 1..MaxMsg + 1
  BY <1>1, UpstreamAssumption DEF Msg
<1>3. \A x \in Msg : feed'[x] = IF x = next THEN "ids" ELSE feed[x]
  BY <1>1 DEF UpstreamInv, MessageInv
<1>4. \A i \in 1..Len(lookups) :
        lookups[i] < next + 1 /\ feed'[lookups[i]] \in {"none", "over"}
  <2> TAKE i \in 1..Len(lookups)
  <2>1. /\ lookups[i] \in Msg /\ lookups[i] < next
        /\ feed[lookups[i]] \in {"none", "over"}
    BY DEF UpstreamInv, MessageInv
  <2>2. \A m \in Msg : m < next => m # next /\ m < next + 1
    BY <1>1, <1>2
  <2> QED
    BY <1>1, <1>3, <2>1, <2>2
<1>5. MessageInv'
  BY <1>1, <1>2, <1>3, <1>4 DEF UpstreamInv, MessageInv, Stage
<1>6. \A x \in Msg : Waiting(x)' => Waiting(x)
  BY <1>1, <1>2, <1>3 DEF Waiting
<1> QED
  BY <1>1, <1>5, <1>6, SocketsStay, NothingMoves DEF UpstreamInv

(* What a step of a feed REQ may change: it leaves the WebSockets of the   *)
(* client and its lookups alone, or it is given back to proxyToStrfry.     *)
GivenBack(m) ==
  /\ feed[m] = "ids" /\ feed' = [feed EXCEPT ![m] = "over"]
  /\ \/ ProxyRaw(m) /\ UNCHANGED <<lookups, profile, cached>>
     \/ /\ lookups' = Append(lookups, m) /\ profile' = profile \cup {m}
        /\ cached' \in {cached, cached \cup {m}}
        /\ UNCHANGED wsVars

LEMMA FeedingSteps ==
  ASSUME NEW m \in Msg, Feeding(m)
  PROVE  /\ UNCHANGED <<client, next, answered>>
         /\ feed[m] \notin {"none", "over"}
         /\ \E stage \in Stage \ {"none", "ids"} : feed' = [feed EXCEPT ![m] = stage]
         /\ \/ UNCHANGED <<wsVars, lookups, profile, cached>>
            \/ GivenBack(m)
<1>1. CASE FeedIds(m)
  BY <1>1 DEF FeedIds, GivenBack, Intercept, LooksUp, wsVars, Stage
<1>2. CASE FeedOpens(m)
  BY <1>2 DEF FeedOpens, FeedGoes, vars, wsVars, Stage
<1>3. CASE FeedTimeout(m)
  BY <1>3 DEF FeedTimeout, FeedGoes, vars, wsVars, Stage
<1>4. CASE FeedFails(m) \/ FeedAnswered(m) \/ FeedClosed(m)
  BY <1>4 DEF FeedFails, FeedAnswered, FeedClosed, FeedEnds, FeedGoes, vars, wsVars, Stage
<1> QED
  BY <1>1, <1>2, <1>3, <1>4 DEF Feeding

(* The steps of a feed REQ: it may be given back, or is done with.         *)
LEMMA FeedingMoves ==
  ASSUME UpstreamInv, NEW m \in Msg, Feeding(m) PROVE UpstreamInv'
<1> DEFINE n == Len(lookups)
<1>1. /\ UNCHANGED <<client, next, answered>>
      /\ feed[m] \notin {"none", "over"}
      /\ \/ UNCHANGED <<wsVars, lookups, profile, cached>>
         \/ GivenBack(m)
  BY FeedingSteps
<1>2. /\ feed' \in [Msg -> Stage]
      /\ \A x \in Msg \ {m} : feed'[x] = feed[x]
      /\ feed'[m] \notin {"none", "ids"}
  BY FeedingSteps DEF UpstreamInv, MessageInv
<1>3. /\ lookups \in Seq(Msg) /\ n \in Nat
      /\ \A i \in 1..n : /\ lookups[i] \in Msg /\ lookups[i] # m /\ lookups[i] < next
                         /\ feed'[lookups[i]] \in {"none", "over"}
  BY <1>1, <1>2 DEF UpstreamInv, MessageInv
<1>4. /\ \A x \in Msg : x >= next => feed'[x] = "none"
      /\ m < next
  <2>1. m \in Int /\ next \in Int
    BY UpstreamAssumption DEF UpstreamInv, MessageInv, Msg
  <2> QED
    BY <1>1, <1>2, <2>1 DEF UpstreamInv, MessageInv
<1>5. CASE UNCHANGED <<lookups, profile, cached>>
  <2>1. MessageInv'
    BY <1>1, <1>2, <1>3, <1>4, <1>5 DEF UpstreamInv, MessageInv
  <2>2. \A x \in Msg : Waiting(x)' => Waiting(x) /\ x # m
    BY <1>1, <1>2, <1>3, <1>4, <1>5 DEF Waiting
  <2>3. CASE UNCHANGED wsVars
    BY <1>1, <2>1, <2>2, <2>3, SocketsStay, NothingMoves DEF UpstreamInv
  <2>4. CASE feed[m] = "ids" /\ ProxyRaw(m)
    BY <1>1, <2>1, <2>2, <2>4, OneMoves DEF Waiting
  <2> QED
    BY <1>1, <1>5, <2>3, <2>4 DEF GivenBack
<1>6. CASE /\ lookups' = Append(lookups, m) /\ profile' = profile \cup {m}
           /\ cached' \in {cached, cached \cup {m}}
           /\ UNCHANGED wsVars /\ feed[m] = "ids" /\ feed' = [feed EXCEPT ![m] = "over"]
  <2>1. /\ lookups' \in Seq(Msg) /\ Len(lookups') = n + 1 /\ lookups'[n + 1] = m
        /\ \A i \in 1..n : lookups'[i] = lookups[i]
        /\ \A i \in 1..n + 1 : i \in 1..n \/ i = n + 1
    BY <1>3, <1>6
  <2>2. \A i, j \in 1..n + 1 : lookups'[i] = lookups'[j] => i = j
    BY <1>3, <2>1 DEF UpstreamInv, MessageInv
  <2>3. \A i \in 1..n + 1 : lookups'[i] < next /\ feed'[lookups'[i]] \in {"none", "over"}
    <3>1. feed'[m] = "over"
      BY <1>6 DEF UpstreamInv, MessageInv
    <3> QED
      BY <1>3, <1>4, <2>1, <3>1
  <2>4. MessageInv'
    BY <1>1, <1>2, <1>4, <1>6, <2>1, <2>2, <2>3 DEF UpstreamInv, MessageInv
  <2>5. \A x \in Msg : Waiting(x)' => Waiting(x)
    BY <1>1, <1>2, <1>6, <2>1 DEF Waiting
  <2> QED
    BY <1>1, <1>6, <2>4, <2>5, SocketsStay, NothingMoves DEF UpstreamInv
<1> QED
  BY <1>1, <1>5, <1>6 DEF GivenBack

(* Every step keeps the invariant of the upstream.                         *)
LEMMA UpstreamStep == UpstreamInv /\ [SessionNext]_sessionVars => UpstreamInv'
<1> SUFFICES ASSUME UpstreamInv, [SessionNext]_sessionVars PROVE UpstreamInv'
  OBVIOUS
<1>1. CASE Message /\ UNCHANGED <<cached, feedVars>>
  BY <1>1, MessageMoves DEF feedVars
<1>2. CASE /\ UNCHANGED <<cached, feedVars>>
           /\ \/ ClientCloses
              \/ \E w \in Ws : Opened(w) \/ Refused(w) \/ Dropped(w) \/ Failed(w) \/ Closed(w)
  <2>1. /\ UNCHANGED <<next, lookups, answered, profile, cached, feed>>
        /\ client' \in {client, "closed"}
    <3>1. ASSUME NEW w \in Ws, Opened(w) \/ Refused(w) \/ Dropped(w) \/ Failed(w) \/ Closed(w)
          PROVE  UNCHANGED <<client, next, lookups, answered, profile>>
      BY <3>1 DEF Opened, Refused, Dropped, Failed, Closed
    <3>2. ClientCloses => /\ UNCHANGED <<next, lookups, answered, profile>>
                          /\ client' = "closed"
      BY DEF ClientCloses
    <3> QED
      BY <1>2, <3>1, <3>2 DEF feedVars
  <2>2. MessageInv' /\ \A x \in Msg : Waiting(x)' => Waiting(x)
    BY <2>1 DEF UpstreamInv, MessageInv, Waiting
  <2> QED
    BY <1>2, <2>2, SocketEvents, NothingMoves DEF UpstreamInv
<1>3. CASE UNCHANGED <<vars, cached, feedVars>>
  <2>1. UNCHANGED <<client, wsVars>> /\ UNCHANGED <<next, lookups, answered, profile, cached, feed>>
    BY <1>3 DEF vars, feedVars
  <2>2. MessageInv' /\ \A x \in Msg : Waiting(x)' => Waiting(x)
    BY <2>1 DEF UpstreamInv, MessageInv, Waiting
  <2> QED
    BY <2>1, <2>2, SocketsStay, NothingMoves DEF UpstreamInv
<1>4. CASE Proxying
  BY <1>1, <1>2, <1>4 DEF Proxying, Proxied
<1>5. ProfileEvent \/ Redis \/ UNCHANGED sessionVars => UNCHANGED <<vars, cached, feedVars>>
  BY DEF ProfileEvent, Redis, sessionVars
<1> QED
  BY <1>3, <1>4, <1>5, ProfileLookupWaits, ProfileServedMoves, FeedReqWaits, FeedingMoves
  DEF SessionNext

(* The invariant of the upstream holds initially.                          *)
LEMMA UpstreamInit == SessionInit => UpstreamInv
<1> SUFFICES ASSUME SessionInit PROVE UpstreamInv
  OBVIOUS
<1> USE UpstreamAssumption DEF SessionInit, Init
<1>1. << >> \in Seq(Msg) /\ Len(<< >>) = 0 /\ 1 \in 1..MaxMsg + 1
  OBVIOUS
<1>2. MessageInv
  BY <1>1 DEF MessageInv, Stage
<1>3. SocketType /\ QueueHasOwner
  BY <1>1 DEF SocketType, WsState, QueueHasOwner
<1>4. \A m \in Msg : ~ Placed(m)
  BY <1>1 DEF Placed, InQueue, IsFirst, IsSent
<1>5. OnePlace
  BY <1>1, <1>4 DEF OnePlace, Placed
<1> QED
  BY <1>2, <1>3, <1>4, <1>5 DEF UpstreamInv, SocketInv

(* proxy.ts: a queue always belongs to a connecting WebSocket (or to one   *)
(* aborted as the client left), and no message goes to strfry twice,       *)
(* however often upstreams are lost and replaced.                          *)
THEOREM UpstreamSafe == SessionSpec => [](QueueHasOwner /\ SentOnce)
<1>1. UpstreamInv => QueueHasOwner /\ SentOnce
  <2> SUFFICES ASSUME UpstreamInv PROVE QueueHasOwner /\ SentOnce
    OBVIOUS
  <2>1. \A w \in Ws : DOMAIN sent[w] = 1..Len(sent[w])
    BY DEF UpstreamInv, SocketInv, SocketType
  <2>2. \A v, w \in Ws : \A i \in 1..Len(sent[v]), j \in 1..Len(sent[w]) :
          sent[v][i] = sent[w][j] => v = w /\ i = j
    BY DEF UpstreamInv, SocketInv, OnePlace
  <2>3. SentOnce
    BY <2>1, <2>2 DEF SentOnce
  <2> QED
    BY <2>3 DEF UpstreamInv, SocketInv
<1> QED
  BY <1>1, UpstreamInit, UpstreamStep, PTL DEF SessionSpec

-----------------------------------------------------------------------------
(* The order of the messages.                                              *)

(* The pairs of messages whose order counts: both are profile REQs, or     *)
(* neither is, and no one is a REQ for a feed.                             *)
Kin == {p \in Msg \X Msg : /\ feed[p[1]] = "none" /\ feed[p[2]] = "none"
                           /\ p[1] \in profile <=> p[2] \in profile}

(* A message of the sequence s comes before the next of its kin.           *)
Sorted(s) == \A i, j \in 1..Len(s) : i < j /\ <<s[i], s[j]>> \in Kin => s[i] < s[j]

(* What was sent on each WebSocket is in order, and so is the queue after  *)
(* the first message of any that may still open.                           *)
InLine ==
  /\ \A w \in Ws : Sorted(sent[w])
  /\ Sorted(pending)
  /\ \A w \in Ws : \A i \in 1..Len(pending) :
       ws[w] = "connecting" /\ <<first[w], pending[i]>> \in Kin => first[w] < pending[i]

(* The lookups are in order, and after every profile REQ that went on; a   *)
(* REQ that comes back from the Feed Engine is looked up in no order.      *)
LookupsLast ==
  /\ \A m \in profile : m < next
  /\ \A i \in 1..Len(lookups) : lookups[i] \in profile
  /\ \A i, j \in 1..Len(lookups) :
       i < j /\ feed[lookups[i]] = "none" /\ feed[lookups[j]] = "none"
         => lookups[i] < lookups[j]
  /\ \A m \in Msg : Placed(m) /\ m \in profile /\ feed[m] = "none" =>
       \A i \in 1..Len(lookups) : feed[lookups[i]] = "none" => m < lookups[i]

(* As long as the client is there: one that left may leave a queue behind  *)
(* that another WebSocket sends after its first message.                   *)
OrderInv == LookupsLast /\ (client = "open" => InLine)

(* A step makes no kin of messages that have a place, and m comes after    *)
(* all of its kin among them.                                              *)
KinStay   == \A x, y \in Msg : Placed(x) /\ Placed(y) /\ <<x, y>> \in Kin' => <<x, y>> \in Kin
IsLast(m) == \A x \in Msg : Placed(x) /\ <<x, m>> \in Kin' => x < m

(* Of kin that has a place, what was in order still is.                    *)
LEMMA SortedStays ==
  ASSUME KinStay, NEW s \in Seq(Msg), Sorted(s), \A i \in 1..Len(s) : Placed(s[i])
  PROVE  \A i, j \in 1..Len(s) : i < j /\ <<s[i], s[j]>> \in Kin' => s[i] < s[j]
<1> TAKE i, j \in 1..Len(s)
<1> HAVE i < j /\ <<s[i], s[j]>> \in Kin'
<1>1. s[i] \in Msg /\ s[j] \in Msg
  OBVIOUS
<1>2. <<s[i], s[j]>> \in Kin
  BY <1>1 DEF KinStay
<1> QED
  BY <1>2 DEF Sorted

(* A message that is added to a sequence whose kin it comes after.         *)
LEMMA SortedAppend ==
  ASSUME KinStay, NEW s \in Seq(Msg), Sorted(s), \A i \in 1..Len(s) : Placed(s[i]),
         NEW m \in Msg, IsLast(m), NEW t, t = Append(s, m)
  PROVE  \A i, j \in 1..Len(t) : i < j /\ <<t[i], t[j]>> \in Kin' => t[i] < t[j]
<1> DEFINE n == Len(s)
<1>1. /\ n \in Nat /\ Len(t) = n + 1 /\ t[n + 1] = m
      /\ \A i \in 1..n : t[i] = s[i] /\ s[i] \in Msg
  OBVIOUS
<1> TAKE i, j \in 1..Len(t)
<1> HAVE i < j /\ <<t[i], t[j]>> \in Kin'
<1>2. i \in 1..n /\ (j \in 1..n \/ j = n + 1)
  BY <1>1
<1>3. CASE j \in 1..n
  BY <1>1, <1>2, <1>3, SortedStays
<1>4. CASE j = n + 1
  BY <1>1, <1>2, <1>4 DEF IsLast
<1> QED
  BY <1>2, <1>3, <1>4

(* What has a place.                                                       *)
LEMMA PlacedOnes ==
  ASSUME SocketType
  PROVE  /\ \A w \in Ws : sent[w] \in Seq(Msg) /\ \A i \in 1..Len(sent[w]) : Placed(sent[w][i])
         /\ pending \in Seq(Msg) /\ \A i \in 1..Len(pending) : Placed(pending[i])
         /\ \A w \in Ws : ws[w] = "connecting" => first[w] \in Msg /\ Placed(first[w])
BY DEF SocketType, Placed, IsSent, InQueue, IsFirst

(* The first of a connecting WebSocket stays before the queue.             *)
LEMMA FirstStays ==
  ASSUME SocketType, InLine, KinStay
  PROVE  \A w \in Ws : \A i \in 1..Len(pending) :
           ws[w] = "connecting" /\ <<first[w], pending[i]>> \in Kin' => first[w] < pending[i]
BY PlacedOnes DEF InLine, KinStay

(* A message that gets its place after its kin.                            *)
LEMMA ProxyRawKeepsLine ==
  ASSUME SocketInv, InLine, client = "open", NEW m \in Msg, ProxyRaw(m), KinStay, IsLast(m)
  PROVE  InLine'
<1> USE DEF SocketInv
<1>1. Ws \subseteq Nat \ {0} /\ NoWs \notin Ws
  BY UpstreamAssumption DEF Ws, NoWs
<1>2. \A w \in Ws : \A i, j \in 1..Len(sent[w]) :
        i < j /\ <<sent[w][i], sent[w][j]>> \in Kin' => sent[w][i] < sent[w][j]
  BY PlacedOnes, SortedStays DEF InLine
<1>3. \A i, j \in 1..Len(pending) :
        i < j /\ <<pending[i], pending[j]>> \in Kin' => pending[i] < pending[j]
  BY PlacedOnes, SortedStays DEF InLine
<1>4. CASE SendNow(m)
  <2>1. /\ upstream \in Ws /\ UNCHANGED <<pending, ws, first>>
        /\ sent' = [sent EXCEPT ![upstream] = Append(@, m)]
    BY <1>1, <1>4 DEF SendNow, State, SocketType
  <2> DEFINE u == upstream
             t == Append(sent[u], m)
  <2>2. sent'[u] = t /\ \A w \in Ws \ {u} : sent'[w] = sent[w]
    BY <2>1 DEF SocketType
  <2>3. \A i, j \in 1..Len(t) : i < j /\ <<t[i], t[j]>> \in Kin' => t[i] < t[j]
    BY <2>1, PlacedOnes, SortedAppend DEF InLine
  <2> HIDE DEF t
  <2>4. \A w \in Ws : Sorted(sent[w])'
    BY <1>2, <2>1, <2>2, <2>3 DEF Sorted
  <2> QED
    BY <1>3, <2>1, <2>4, FirstStays DEF InLine, Sorted
<1>5. CASE Enqueue(m)
  <2> DEFINE t == Append(pending, m)
             n == Len(pending)
  <2>1. pending' = t /\ UNCHANGED <<ws, first, sent>>
    BY <1>5 DEF Enqueue
  <2>2. \A i, j \in 1..Len(t) : i < j /\ <<t[i], t[j]>> \in Kin' => t[i] < t[j]
    BY PlacedOnes, SortedAppend DEF InLine
  <2>3. /\ n \in Nat /\ Len(t) = n + 1 /\ t[n + 1] = m /\ \A i \in 1..n : t[i] = pending[i]
        /\ \A i \in 1..Len(t) : i \in 1..n \/ i = n + 1
    BY DEF SocketType
  <2> HIDE DEF t, n
  <2>4. ASSUME NEW w \in Ws, NEW i \in 1..Len(t), ws[w] = "connecting",
               <<first[w], t[i]>> \in Kin'
        PROVE  first[w] < t[i]
    <3>1. CASE i = n + 1
      BY <2>3, <2>4, <3>1, PlacedOnes DEF IsLast
    <3>2. CASE i \in 1..n
      BY <2>3, <2>4, <3>2, FirstStays DEF n
    <3> QED
      BY <2>3, <3>1, <3>2
  <2>5. Sorted(pending)' /\ \A w \in Ws : Sorted(sent[w])'
    BY <1>2, <2>1, <2>2 DEF Sorted
  <2> QED
    BY <2>1, <2>4, <2>5 DEF InLine
<1>6. CASE OpenNew(m)
  <2>1. pending = << >> /\ UNCHANGED <<pending, sent>>
    BY <1>6 DEF OpenNew, QueueHasOwner
  <2>2. Len(pending') = 0
    BY <2>1
  <2>3. \A w \in Ws : Sorted(sent[w])'
    BY <1>2, <2>1 DEF Sorted
  <2> QED
    BY <2>2, <2>3 DEF InLine, Sorted
<1> QED
  BY <1>4, <1>5, <1>6 DEF ProxyRaw

(* No message gets a place, and no WebSocket begins to connect.            *)
LEMMA LineStays ==
  ASSUME SocketType, InLine, KinStay, UNCHANGED <<first, sent>>, pending' \in {pending, << >>},
         \A w \in Ws : ws'[w] = "connecting" => ws[w] = "connecting"
  PROVE  InLine'
<1>1. \A w \in Ws : Sorted(sent[w])'
  <2>1. \A w \in Ws : \A i, j \in 1..Len(sent[w]) :
          i < j /\ <<sent[w][i], sent[w][j]>> \in Kin' => sent[w][i] < sent[w][j]
    BY PlacedOnes, SortedStays DEF InLine
  <2> QED
    BY <2>1 DEF Sorted
<1>2. CASE pending' = pending
  <2>1. \A i, j \in 1..Len(pending) :
          i < j /\ <<pending[i], pending[j]>> \in Kin' => pending[i] < pending[j]
    BY PlacedOnes, SortedStays DEF InLine
  <2> QED
    BY <1>1, <1>2, <2>1, FirstStays DEF InLine, Sorted
<1>3. CASE pending' = << >>
  <2>1. Len(pending') = 0
    BY <1>3
  <2> QED
    BY <1>1, <2>1 DEF InLine, Sorted
<1> QED
  BY <1>2, <1>3

(* A WebSocket opens: the first message, then the queue.                   *)
LEMMA OpenedKeepsLine ==
  ASSUME SocketInv, InLine, NEW w \in Ws, Opened(w), Kin' = Kin
  PROVE  InLine'
<1> DEFINE f == first[w]
           n == Len(pending)
           t == <<f>> \o pending
<1>1. /\ ws[w] = "connecting" /\ f \in Msg /\ pending \in Seq(Msg) /\ n \in Nat
      /\ pending' = << >> /\ sent'[w] = t /\ \A v \in Ws \ {w} : sent'[v] = sent[v]
  BY DEF Opened, SocketInv, SocketType
<1>2. /\ Len(t) = n + 1 /\ t[1] = f /\ \A i \in 2..n + 1 : i - 1 \in 1..n /\ t[i] = pending[i - 1]
  <2>1. <<f>> \in Seq(Msg) /\ Len(<<f>>) = 1 /\ <<f>>[1] = f
    BY <1>1
  <2> QED
    BY <1>1, <2>1
<1>3. /\ \A i, j \in 1..n : i < j /\ <<pending[i], pending[j]>> \in Kin => pending[i] < pending[j]
      /\ \A i \in 1..n : <<f, pending[i]>> \in Kin => f < pending[i]
  BY <1>1 DEF InLine, Sorted
<1> HIDE DEF t, f
<1>4. ASSUME NEW i \in 1..Len(t), NEW j \in 1..Len(t), i < j, <<t[i], t[j]>> \in Kin
      PROVE  t[i] < t[j]
  <2>1. j \in 2..n + 1 /\ (i = 1 \/ i \in 2..n + 1)
    BY <1>1, <1>2, <1>4
  <2>2. CASE i = 1
    BY <1>2, <1>3, <1>4, <2>1, <2>2
  <2>3. CASE i \in 2..n + 1
    <3>1. i - 1 < j - 1
      BY <1>1, <1>4, <2>1, <2>3
    <3> QED
      BY <1>2, <1>3, <1>4, <2>1, <2>3, <3>1
  <2> QED
    BY <2>1, <2>2, <2>3
<1>5. Sorted(t)
  BY <1>4 DEF Sorted
<1>6. \A v \in Ws : Sorted(sent[v])'
  BY <1>1, <1>5 DEF InLine, Sorted
<1>7. Len(pending') = 0
  BY <1>1
<1> QED
  BY <1>6, <1>7 DEF InLine, Sorted

(* No lookup begins or ends, and no profile REQ gets a place.              *)
LEMMA LookupsStay ==
  ASSUME MessageInv, LookupsLast, UNCHANGED <<lookups, profile>>, next' \in {next, next + 1},
         \A x \in Msg : feed'[x] = "none" => feed[x] = "none",
         \A x \in Msg : Placed(x)' => Placed(x) \/ x \notin profile \/ feed'[x] # "none"
  PROVE  LookupsLast'
<1>1. \A m \in profile : m \in Nat /\ m < next /\ next \in Nat
  BY UpstreamAssumption DEF MessageInv, LookupsLast, Msg
<1>2. \A m \in profile : m < next'
  BY <1>1
<1>3. \A i \in 1..Len(lookups) :
        lookups[i] \in Msg /\ (feed'[lookups[i]] = "none" => feed[lookups[i]] = "none")
  BY DEF MessageInv
<1> QED
  BY <1>2, <1>3 DEF LookupsLast

(* What has a place was sent by the client before.                         *)
LEMMA PlacedBefore ==
  ASSUME UpstreamInv
  PROVE  \A x \in Msg : Placed(x) => x \in Nat /\ x < next /\ next \in Nat
BY UpstreamAssumption DEF UpstreamInv, MessageInv, Waiting, Msg

(* A message that goes on at once is the last of all.                      *)
LEMMA MessageKeepsOrder ==
  ASSUME UpstreamInv, OrderInv, Message, UNCHANGED <<cached, feed>> PROVE OrderInv'
<1>1. /\ next \in Msg /\ next' = next + 1 /\ ProxyRaw(next) /\ client = "open"
      /\ UNCHANGED <<client, lookups, profile, feed>>
  BY DEF Message
<1>2. Kin' = Kin
  BY <1>1 DEF Kin
<1>3. KinStay /\ IsLast(next)
  BY <1>2, PlacedBefore DEF KinStay, IsLast
<1>4. InLine'
  BY <1>1, <1>3, ProxyRawKeepsLine DEF OrderInv, UpstreamInv
<1>5. next \notin profile
  BY <1>1, UpstreamAssumption DEF OrderInv, LookupsLast, UpstreamInv, MessageInv, Msg
<1>6. \A x \in Msg : Placed(x)' => Placed(x) \/ x = next
  <2>1. ~ Placed(next)
    BY <1>1, PlacedBefore DEF UpstreamInv
  <2> QED
    BY <1>1, <2>1, ProxyRawKeepsPlaces DEF UpstreamInv
<1>7. LookupsLast'
  BY <1>1, <1>5, <1>6, LookupsStay DEF OrderInv, UpstreamInv
<1> QED
  BY <1>4, <1>7 DEF OrderInv

(* A lookup that begins is the last of all.                                *)
LEMMA ProfileLookupKeepsOrder ==
  ASSUME UpstreamInv, OrderInv, ProfileLookup PROVE OrderInv'
<1> DEFINE n == Len(lookups)
<1>1. /\ next \in Msg /\ next' = next + 1 /\ lookups' = Append(lookups, next)
      /\ profile' = profile \cup {next}
      /\ UNCHANGED <<client, wsVars, feed>>
      /\ lookups \in Seq(Msg) /\ n \in Nat
  BY DEF ProfileLookup, ProfileReq, Intercept, LooksUp, feedVars, UpstreamInv, MessageInv
<1>2. next \in Nat /\ profile \subseteq Nat /\ \A i \in 1..n : lookups[i] \in Nat
  BY <1>1, UpstreamAssumption DEF UpstreamInv, MessageInv, Msg
<1>3. /\ Len(lookups') = n + 1 /\ lookups'[n + 1] = next
      /\ \A i \in 1..n : lookups'[i] = lookups[i]
      /\ \A i \in 1..Len(lookups') : i \in 1..n \/ i = n + 1
  BY <1>1
<1>4. KinStay
  BY <1>1, PlacedBefore DEF KinStay, Kin
<1>5. client = "open" => InLine'
  BY <1>1, <1>4, LineStays DEF OrderInv, UpstreamInv, SocketInv, wsVars
<1>6. \A x \in Msg : Placed(x)' => Placed(x)
  BY <1>1, SocketsStay DEF UpstreamInv
<1>7. LookupsLast'
  <2>1. \A m \in profile' : m < next'
    BY <1>1, <1>2 DEF OrderInv, LookupsLast
  <2>2. \A i \in 1..Len(lookups') : lookups'[i] \in profile'
    BY <1>1, <1>3 DEF OrderInv, LookupsLast
  <2>3. \A i \in 1..n : lookups[i] < next
    BY DEF OrderInv, LookupsLast
  <2>4. \A i, j \in 1..Len(lookups') :
          i < j /\ feed'[lookups'[i]] = "none" /\ feed'[lookups'[j]] = "none"
            => lookups'[i] < lookups'[j]
    <3> TAKE i, j \in 1..Len(lookups')
    <3> HAVE i < j /\ feed'[lookups'[i]] = "none" /\ feed'[lookups'[j]] = "none"
    <3>1. i \in 1..n /\ lookups'[i] = lookups[i] /\ feed[lookups[i]] = "none"
      BY <1>1, <1>3
    <3>2. CASE j = n + 1
      BY <1>3, <2>3, <3>1, <3>2
    <3>3. CASE j \in 1..n
      <4>1. lookups'[j] = lookups[j] /\ feed[lookups[j]] = "none"
        BY <1>1, <1>3, <3>3
      <4> QED
        BY <3>1, <3>3, <4>1 DEF OrderInv, LookupsLast
    <3> QED
      BY <1>3, <3>2, <3>3
  <2>5. ASSUME NEW m \in Msg, Placed(m)', m \in profile', feed'[m] = "none",
               NEW i \in 1..Len(lookups'), feed'[lookups'[i]] = "none"
        PROVE  m < lookups'[i]
    <3>1. Placed(m) /\ m < next /\ m # next /\ m \in profile /\ feed[m] = "none"
      BY <1>1, <1>2, <1>6, <2>5, PlacedBefore
    <3>2. \A j \in 1..n : feed[lookups[j]] = "none" => m < lookups[j]
      BY <3>1 DEF OrderInv, LookupsLast
    <3> QED
      BY <1>1, <1>3, <2>5, <3>1, <3>2
  <2> QED
    BY <2>1, <2>2, <2>4, <2>5 DEF LookupsLast
<1> QED
  BY <1>1, <1>5, <1>7 DEF OrderInv

(* The first lookup comes after every profile REQ that went on.            *)
LEMMA ProfileServedKeepsOrder ==
  ASSUME UpstreamInv, OrderInv, ProfileServed PROVE OrderInv'
<1> DEFINE n == Len(lookups)
           m == Head(lookups)
<1>1. /\ lookups \in Seq(Msg) /\ lookups # << >> /\ lookups' = Tail(lookups)
      /\ UNCHANGED <<client, next, profile, feed>>
      /\ UNCHANGED wsVars \/ ProxyRaw(m)
  BY DEF ProfileServed, LookupDone, feedVars, UpstreamInv, MessageInv
<1>2. /\ n \in Nat \ {0} /\ m = lookups[1] /\ m \in Msg /\ 1 \in 1..n
      /\ Len(lookups') = n - 1
      /\ \A i \in 1..n - 1 : lookups'[i] = lookups[i + 1] /\ i + 1 \in 1..n /\ 1 < i + 1
  BY <1>1
<1>3. m \in profile /\ ~ Placed(m)
  BY <1>2 DEF OrderInv, LookupsLast, UpstreamInv, Waiting
<1> HIDE DEF m
<1>4. Kin' = Kin
  BY <1>1 DEF Kin
<1>5. KinStay /\ IsLast(m)
  <2>1. \A x \in Msg : <<x, m>> \in Kin =>
                         x \in profile /\ feed[x] = "none" /\ feed[m] = "none"
    BY <1>3 DEF Kin
  <2> QED
    BY <1>2, <1>4, <2>1 DEF KinStay, IsLast, OrderInv, LookupsLast
<1>6. client = "open" => InLine'
  <2>1. CASE UNCHANGED wsVars
    BY <1>5, <2>1, LineStays DEF OrderInv, UpstreamInv, SocketInv, wsVars
  <2>2. CASE ProxyRaw(m)
    BY <1>2, <1>5, <2>2, ProxyRawKeepsLine DEF OrderInv, UpstreamInv
  <2> QED
    BY <1>1, <2>1, <2>2
<1>7. \A x \in Msg : Placed(x)' => Placed(x) \/ x = m
  <2>1. CASE UNCHANGED wsVars
    BY <1>1, <2>1, SocketsStay DEF UpstreamInv
  <2>2. CASE ProxyRaw(m)
    BY <1>1, <1>2, <1>3, <2>2, ProxyRawKeepsPlaces DEF UpstreamInv
  <2> QED
    BY <1>1, <2>1, <2>2
<1>8. LookupsLast'
  <2>1. \A i \in 1..n - 1 :
          /\ lookups'[i] \in profile'
          /\ feed[m] = "none" /\ feed'[lookups'[i]] = "none" => m < lookups'[i]
    BY <1>1, <1>2 DEF OrderInv, LookupsLast
  <2>2. \A i, j \in 1..n - 1 :
          i < j /\ feed'[lookups'[i]] = "none" /\ feed'[lookups'[j]] = "none"
            => lookups'[i] < lookups'[j]
    <3> TAKE i, j \in 1..n - 1
    <3> HAVE i < j /\ feed'[lookups'[i]] = "none" /\ feed'[lookups'[j]] = "none"
    <3>1. i + 1 < j + 1
      BY <1>2
    <3> QED
      BY <1>1, <1>2, <3>1 DEF OrderInv, LookupsLast
  <2>3. ASSUME NEW x \in Msg, Placed(x)', x \in profile', feed'[x] = "none",
               NEW i \in 1..n - 1, feed'[lookups'[i]] = "none"
        PROVE  x < lookups'[i]
    <3>1. CASE x = m
      BY <1>1, <2>1, <2>3, <3>1
    <3>2. CASE Placed(x)
      BY <1>1, <1>2, <2>3, <3>2 DEF OrderInv, LookupsLast
    <3> QED
      BY <1>7, <2>3, <3>1, <3>2
  <2> QED
    BY <1>1, <1>2, <2>1, <2>2, <2>3 DEF OrderInv, LookupsLast
<1> QED
  BY <1>1, <1>6, <1>8 DEF OrderInv

(* A REQ for a feed is kin of no message, wherever it goes.                *)
LEMMA FeedsKeepOrder ==
  ASSUME UpstreamInv, OrderInv, FeedReq \/ \E m \in Msg : Feeding(m) PROVE OrderInv'
<1>1. PICK m \in Msg :
        /\ client' = client /\ next' \in {next, next + 1}
        /\ feed'[m] # "none" /\ \A x \in Msg \ {m} : feed'[x] = feed[x]
        /\ \/ UNCHANGED <<wsVars, lookups, profile>>
           \/ feed[m] = "ids" /\ next' = next /\ GivenBack(m)
  <2>1. CASE FeedReq
    BY <2>1 DEF FeedReq, wsVars, UpstreamInv, MessageInv
  <2>2. ASSUME NEW m \in Msg, Feeding(m)
        PROVE  /\ UNCHANGED <<client, next>>
               /\ feed'[m] # "none" /\ \A x \in Msg \ {m} : feed'[x] = feed[x]
               /\ \/ UNCHANGED <<wsVars, lookups, profile>>
                  \/ feed[m] = "ids" /\ GivenBack(m)
    BY <2>2, FeedingSteps DEF UpstreamInv, MessageInv, GivenBack
  <2> QED
    BY <2>1, <2>2
<1>2. \A x \in Msg : feed'[x] = "none" => feed[x] = "none" /\ x # m
  BY <1>1
<1>3. KinStay /\ IsLast(m)
  <2>1. profile' \in {profile, profile \cup {m}}
    BY <1>1 DEF GivenBack
  <2> QED
    BY <1>1, <1>2, <2>1 DEF KinStay, IsLast, Kin
<1>4. client = "open" => InLine'
  <2>1. CASE UNCHANGED wsVars
    BY <1>3, <2>1, LineStays DEF OrderInv, UpstreamInv, SocketInv, wsVars
  <2>2. CASE ProxyRaw(m)
    BY <1>3, <2>2, ProxyRawKeepsLine DEF OrderInv, UpstreamInv
  <2> QED
    BY <1>1, <2>1, <2>2 DEF GivenBack
<1>5. \A x \in Msg : Placed(x)' => Placed(x) \/ x = m
  <2>1. CASE UNCHANGED wsVars
    BY <1>1, <2>1, SocketsStay DEF UpstreamInv
  <2>2. CASE feed[m] = "ids" /\ ProxyRaw(m)
    BY <1>1, <2>2, ProxyRawKeepsPlaces DEF UpstreamInv, Waiting
  <2> QED
    BY <1>1, <2>1, <2>2 DEF GivenBack
<1>6. LookupsLast'
  <2>1. CASE UNCHANGED <<lookups, profile>>
    BY <1>1, <1>2, <1>5, <2>1, LookupsStay DEF OrderInv, UpstreamInv
  <2>2. CASE /\ feed[m] = "ids" /\ UNCHANGED <<wsVars, next>>
             /\ lookups' = Append(lookups, m) /\ profile' = profile \cup {m}
    <3> DEFINE n == Len(lookups)
    <3>1. /\ lookups \in Seq(Msg) /\ n \in Nat
          /\ Len(lookups') = n + 1 /\ lookups'[n + 1] = m
          /\ \A i \in 1..n : lookups'[i] = lookups[i] /\ lookups[i] \in Msg
          /\ \A i \in 1..n + 1 : i \in 1..n \/ i = n + 1
      BY <2>2 DEF UpstreamInv, MessageInv
    <3>2. \A i \in 1..n + 1 : feed'[lookups'[i]] = "none" =>
            i \in 1..n /\ lookups'[i] = lookups[i] /\ feed[lookups[i]] = "none"
      BY <1>2, <3>1
    <3>3. \A x \in profile' : x < next'
      <4>1. m < next
        BY <2>2, UpstreamAssumption DEF UpstreamInv, MessageInv, Msg
      <4> QED
        BY <2>2, <4>1 DEF OrderInv, LookupsLast
    <3>4. \A i \in 1..n + 1 : lookups'[i] \in profile'
      BY <2>2, <3>1 DEF OrderInv, LookupsLast
    <3>5. \A i, j \in 1..n + 1 :
            i < j /\ feed'[lookups'[i]] = "none" /\ feed'[lookups'[j]] = "none"
              => lookups'[i] < lookups'[j]
      BY <3>2 DEF OrderInv, LookupsLast
    <3>6. ASSUME NEW x \in Msg, Placed(x)', x \in profile', feed'[x] = "none",
                 NEW i \in 1..n + 1, feed'[lookups'[i]] = "none"
          PROVE  x < lookups'[i]
      <4>1. Placed(x) /\ x \in profile /\ feed[x] = "none"
        BY <1>2, <1>5, <2>2, <3>6
      <4> QED
        BY <3>2, <3>6, <4>1 DEF OrderInv, LookupsLast
    <3> QED
      BY <3>1, <3>3, <3>4, <3>5, <3>6 DEF LookupsLast
  <2> QED
    BY <1>1, <2>1, <2>2 DEF GivenBack
<1> QED
  BY <1>1, <1>4, <1>6 DEF OrderInv

(* The events of the WebSockets and the end of the client.                 *)
LEMMA SocketsKeepOrder ==
  ASSUME UpstreamInv, OrderInv, UNCHANGED feedVars,
         \/ ClientCloses
         \/ \E w \in Ws : Opened(w) \/ Refused(w) \/ Dropped(w) \/ Failed(w) \/ Closed(w)
  PROVE  OrderInv'
<1>1. UNCHANGED <<next, lookups, profile, feed>>
  BY DEF ClientCloses, Opened, Refused, Dropped, Failed, Closed, feedVars
<1>2. Kin' = Kin
  BY <1>1 DEF Kin
<1>3. KinStay
  BY <1>2 DEF KinStay
<1>4. LookupsLast'
  BY <1>1, SocketEvents, LookupsStay DEF OrderInv, UpstreamInv
<1>5. CASE ClientCloses
  BY <1>4, <1>5 DEF OrderInv, ClientCloses
<1>6. ASSUME NEW w \in Ws, Opened(w) PROVE OrderInv'
  BY <1>2, <1>4, <1>6, OpenedKeepsLine DEF OrderInv, UpstreamInv, Opened
<1>7. ASSUME NEW w \in Ws, Refused(w) \/ Dropped(w) \/ Failed(w) \/ Closed(w) PROVE OrderInv'
  <2>1. /\ UNCHANGED <<client, first, sent>> /\ pending' \in {pending, << >>}
        /\ \E state \in {"closing", "closed"} : ws' = [ws EXCEPT ![w] = state]
    BY <1>7 DEF Refused, Dropped, Failed, Closed, ForgetUpstream
  <2>2. \A v \in Ws : ws'[v] = "connecting" => ws[v] = "connecting"
    BY <2>1 DEF UpstreamInv, SocketInv, SocketType
  <2>3. client = "open" => InLine'
    BY <1>3, <2>1, <2>2, LineStays DEF OrderInv, UpstreamInv, SocketInv
  <2> QED
    BY <1>4, <2>1, <2>3 DEF OrderInv
<1> QED
  BY <1>5, <1>6, <1>7

LEMMA OrderStep == UpstreamInv /\ OrderInv /\ [SessionNext]_sessionVars => OrderInv'
<1> SUFFICES ASSUME UpstreamInv, OrderInv, [SessionNext]_sessionVars PROVE OrderInv'
  OBVIOUS
<1>1. CASE UNCHANGED <<vars, cached, feedVars>>
  <2>1. UNCHANGED <<client, wsVars>> /\ UNCHANGED <<next, lookups, profile, feed>>
    BY <1>1 DEF vars, feedVars
  <2>2. Kin' = Kin
    BY <2>1 DEF Kin
  <2>3. KinStay
    BY <2>2 DEF KinStay
  <2>4. client = "open" => InLine'
    BY <2>1, <2>3, LineStays DEF OrderInv, UpstreamInv, SocketInv, wsVars
  <2>5. LookupsLast'
    BY <2>1, SocketsStay, LookupsStay DEF OrderInv, UpstreamInv
  <2> QED
    BY <2>1, <2>4, <2>5 DEF OrderInv
<1>2. CASE Proxying
  BY <1>2, MessageKeepsOrder, SocketsKeepOrder DEF Proxying, Proxied, feedVars
<1>3. ProfileEvent \/ Redis \/ UNCHANGED sessionVars => UNCHANGED <<vars, cached, feedVars>>
  BY DEF ProfileEvent, Redis, sessionVars
<1> QED
  BY <1>1, <1>2, <1>3, ProfileLookupKeepsOrder, ProfileServedKeepsOrder, FeedsKeepOrder
  DEF SessionNext

LEMMA OrderInit == SessionInit => OrderInv
<1> SUFFICES ASSUME SessionInit PROVE OrderInv
  OBVIOUS
<1>1. Len(<< >>) = 0
  OBVIOUS
<1> QED
  BY <1>1 DEF SessionInit, Init, OrderInv, LookupsLast, InLine, Sorted

(* proxy.ts:104 and 154: what one WebSocket to strfry is sent is in the    *)
(* order of the client, the profile REQs among themselves and the others   *)
(* among themselves, whatever upstreams are lost and replaced.             *)
THEOREM MessagesInOrder == SessionSpec => []InOrder
<1>1. UpstreamInv /\ OrderInv => InOrder
  <2> SUFFICES ASSUME UpstreamInv, OrderInv, client = "open", NEW w \in Ws,
                      NEW i \in DOMAIN sent[w], NEW j \in DOMAIN sent[w], i < j,
                      feed[sent[w][i]] = "none", feed[sent[w][j]] = "none",
                      sent[w][i] \in profile <=> sent[w][j] \in profile
               PROVE  sent[w][i] < sent[w][j]
    BY DEF InOrder
  <2>1. /\ i \in 1..Len(sent[w]) /\ j \in 1..Len(sent[w])
        /\ sent[w][i] \in Msg /\ sent[w][j] \in Msg
    BY DEF UpstreamInv, SocketInv, SocketType
  <2>2. <<sent[w][i], sent[w][j]>> \in Kin
    BY <2>1 DEF Kin
  <2> QED
    BY <2>1, <2>2 DEF OrderInv, InLine, Sorted
<1> QED
  BY <1>1, UpstreamInit, UpstreamStep, OrderInit, OrderStep, PTL DEF SessionSpec

-----------------------------------------------------------------------------
(* Types.                                                                  *)

(* The cached profile and the lookups keep their types.                    *)
LEMMA ProfileTypeStep == ProfileTypeOK /\ [ProfileNext]_profileVars => ProfileTypeOK'
<1> SUFFICES ASSUME ProfileTypeOK, [ProfileNext]_profileVars PROVE ProfileTypeOK'
  OBVIOUS
<1>1. ASSUME NEW v \in Version, CacheProfile(v) PROVE ProfileTypeOK'
  <2> DEFINE b == \E i \in DOMAIN checks : checks[i].v > v
             c == [v |-> v, read |-> stored, behind |-> b]
  <2>1. checks' = Append(checks, c) /\ c \in Check
    <3>1. b \in BOOLEAN
      OBVIOUS
    <3>2. checks' = Append(checks, c)
      BY <1>1 DEF CacheProfile
    <3> HIDE DEF b
    <3>3. c \in Check
      BY <3>1 DEF ProfileTypeOK, Check
    <3> QED
      BY <3>2, <3>3
  <2> HIDE DEF c
  <2>2. Len(checks) < MaxLookups /\ stored' = stored
    BY <1>1 DEF CacheProfile
  <2> QED
    BY <2>1, <2>2, ProfileAssumption DEF ProfileTypeOK
<1>2. CASE CheckAnswered
  <2>1. checks \in Seq(Check) /\ checks # << >> /\ checks' = Tail(checks)
    BY <1>2 DEF CheckAnswered, ProfileTypeOK
  <2>2. Head(checks) \in Check /\ checks' \in Seq(Check) /\ Len(checks') = Len(checks) - 1
    BY <2>1
  <2> QED
    BY <1>2, <2>1, <2>2, ProfileAssumption DEF CheckAnswered, ProfileTypeOK, Check
<1>3. CASE RedisFails
  <2>1. << >> \in Seq(Check) /\ Len(<< >>) = 0
    OBVIOUS
  <2> QED
    BY <1>3, <2>1, ProfileAssumption DEF RedisFails, ProfileTypeOK
<1>4. CASE ProfileExpires \/ UNCHANGED profileVars
  BY <1>4 DEF ProfileExpires, profileVars, ProfileTypeOK
<1> QED
  BY <1>1, <1>2, <1>3, <1>4 DEF ProfileNext, RedisNext

(* proxy.ts:154: no message goes to strfry twice.                          *)
THEOREM MessagesSentOnce == SessionSpec => []SentOnce
  BY UpstreamSafe, PTL

(* The state of a session has its type; in particular an EOSE is counted   *)
(* only for a feed REQ that left the stages before its first.              *)
THEOREM SessionTypeCorrect == SessionSpec => []SessionTypeOK
<1>1. SessionInit => ProfileTypeOK
  BY ProfileAssumption DEF SessionInit, ProfileInit, ProfileTypeOK
<1>2. UpstreamInv /\ FeedInv /\ ProfileTypeOK => SessionTypeOK
  <2> SUFFICES ASSUME UpstreamInv, FeedInv, ProfileTypeOK PROVE SessionTypeOK
    OBVIOUS
  <2>1. TypeOK /\ cached \subseteq profile
    BY DEF UpstreamInv, SocketInv, SocketType, MessageInv, TypeOK
  <2>2. \A m \in Msg : eose[m] > 0 => feed[m] \notin {"none", "ids", "connecting"}
    BY DEF FeedInv, Bounded
  <2> QED
    BY <2>1, <2>2 DEF FeedInv, SessionTypeOK
<1> QED
  BY <1>1, <1>2, UpstreamInit, UpstreamStep, FeedInit, FeedStep, SessionToProfile, ProfileTypeStep, PTL
  DEF SessionSpec
=============================================================================
