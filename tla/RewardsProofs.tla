---------------------------- MODULE RewardsProofs ----------------------------
(***************************************************************************)
(* Proofs about Rewards, for any clients and keys and any values of the    *)
(* constants that satisfy RewardsAssumption.  The invariants are those of  *)
(* the reputations (Floor, Shared, Stored) and of the payments (PayInv).   *)
(***************************************************************************)
EXTENDS Rewards, DataLemmas

-----------------------------------------------------------------------------
(* Arithmetic.                                                             *)

(* The smaller and the larger of two numbers.                              *)
LEMMA MinMaxOfTwo ==
  ASSUME NEW a \in Int, NEW b \in Int
  PROVE  /\ Min({a, b}) = IF a <= b THEN a ELSE b
         /\ Max({a, b}) = IF a <= b THEN b ELSE a
<1>1. Min({a, b}) \in {a, b} /\ \A y \in {a, b} : Min({a, b}) <= y
  <2>1. \E x \in {a, b} : \A y \in {a, b} : x <= y
    OBVIOUS
  <2> QED
    BY <2>1 DEF Min
<1>2. Max({a, b}) \in {a, b} /\ \A y \in {a, b} : Max({a, b}) >= y
  <2>1. \E x \in {a, b} : \A y \in {a, b} : x >= y
    OBVIOUS
  <2> QED
    BY <2>1 DEF Max
<1> QED
  BY <1>1, <1>2

(* What is left of m once t is taken out as often as it goes.              *)
LEMMA RemainderFacts ==
  ASSUME NEW m \in Nat, NEW t \in Nat, t > 0
  PROVE  m % t \in Nat /\ m % t <= m /\ (m >= t => t + (m % t) <= m)
<1> DEFINE times == m \div t
           left == m % t
<1>1. times \in Int /\ left \in 0..t - 1 /\ m = t * times + left
  OBVIOUS
<1> HIDE DEF times, left
<1>2. left \in Nat /\ left < t
  BY <1>1
<1>3. CASE times >= 1
  <2>1. t * times >= t /\ t * times \in Int
    <3>1. PICK q \in Nat : times = q + 1
      BY <1>1, <1>3
    <3>2. t * times = t * q + t /\ t * q \in Nat
      BY <3>1
    <3> QED
      BY <3>1, <3>2
  <2> QED
    BY <1>1, <1>2, <2>1 DEF left
<1>4. CASE times = 0
  BY <1>1, <1>2, <1>4 DEF left
<1>5. CASE times <= -1
  <2>1. PICK q \in Nat : times = -1 - q
    <3>1. -1 - times \in Nat /\ times = -1 - (-1 - times)
      BY <1>1, <1>5
    <3> QED
      BY <3>1
  <2>2. t * times = - t - t * q /\ t * q \in Nat
    BY <2>1
  <2>3. m < 0
    BY <1>1, <1>2, <2>1, <2>2
  <2> QED
    BY <2>3
<1> QED
  BY <1>1, <1>3, <1>4, <1>5

(* parseInt takes a reputation down to a whole number, never below the     *)
(* baseline, and does nothing to a whole one.                              *)
LEMMA WholeFacts ==
  ASSUME NEW r \in Reputation
  PROVE  /\ Whole(r) \in Reputation
         /\ Whole(r) = NoRep <=> r = NoRep
         /\ Whole(Whole(r)) = Whole(r)
         /\ r \in Base..Top => Whole(r) \in Base..Top
<1>1. CASE r = NoRep
  BY <1>1, RewardsAssumption DEF Whole, NoRep, Reputation
<1>2. CASE r \in Nat
  <2>1. r % 2 \in 0..1 /\ r - (r % 2) \in Nat /\ (r - (r % 2)) % 2 = 0
    BY <1>2
  <2>2. r >= Base => r - (r % 2) >= Base
    BY <1>2, RewardsAssumption
  <2> QED
    BY <1>2, <2>1, <2>2, RewardsAssumption DEF Whole, NoRep, Reputation
<1> QED
  BY <1>1, <1>2 DEF Reputation

(* An adjustment that does not take away, or takes one from above the      *)
(* baseline, ends between the baseline and the maximum.                    *)
LEMMA AdjustedFacts ==
  ASSUME NEW r \in Reputation, r # NoRep => r \in Base..Top, NEW delta \in Int,
         delta >= 0 \/ (delta = -1 /\ r > Base)
  PROVE  Adjusted(r, delta) \in Base..Top
<1> DEFINE next == (IF r = NoRep THEN Base ELSE r) + delta
<1>1. next \in Int /\ next >= Base
  BY RewardsAssumption DEF NoRep, Reputation
<1> DEFINE low == Min({Top, next})
<1>2. low = IF Top <= next THEN Top ELSE next
  BY <1>1, MinMaxOfTwo, RewardsAssumption
<1>3. low \in Base..Top /\ low \in Int /\ 0 <= low
  BY <1>1, <1>2, RewardsAssumption
<1>4. Adjusted(r, delta) = Max({0, low})
  BY DEF Adjusted
<1> HIDE DEF low
<1>5. Max({0, low}) = low
  <2>1. 0 \in Int
    OBVIOUS
  <2>2. Max({0, low}) = IF 0 <= low THEN low ELSE 0
    BY <1>3, <2>1, MinMaxOfTwo, Zenon
  <2> QED
    BY <1>3, <2>2
<1> QED
  BY <1>3, <1>4, <1>5

-----------------------------------------------------------------------------
(* The reputations.                                                        *)

RepType ==
  /\ session \in [Client -> {"new", "loading", "ready", "lapsed", "gone"}]
  /\ pk \in [Client -> Key \cup {NoKey}] /\ payee \in [Client -> Payable \cup {NoKey}]
  /\ read \in [Client -> Reputation] /\ rep \in [Client -> Reputation]
  /\ stored \in [Key -> Reputation] /\ raced \subseteq Client /\ unsaved \subseteq Client
  /\ served \in [Client -> Nat] /\ due \in [Client -> 0..Threshold - 1]

Floor ==
  /\ \A c \in Client : /\ rep[c] # NoRep => rep[c] \in Base..Top
                       /\ read[c] # NoRep => read[c] \in Base..Top
  /\ \A k \in Key : stored[k] # NoRep => stored[k] \in Base..Top

(* Of two connections with one key both are known to race.                 *)
Shared ==
  \A c, d \in Client : /\ c # d /\ pk[c] = pk[d] /\ pk[c] # NoKey
                       /\ session[c] # "gone" /\ session[d] # "gone"
                       => c \in raced

Stored ==
  \A c \in Client \ raced : pk[c] # NoKey =>
    /\ session[c] = "ready" /\ c \notin unsaved => Whole(stored[pk[c]]) = Whole(rep[c])
    /\ session[c] = "loading" => read[c] = Whole(stored[pk[c]])

RepInv == RepType /\ Floor /\ Shared /\ Stored

(* A report's reward is a reputation.                                      *)
LEMMA RewardedFacts ==
  ASSUME RepInv, NEW c \in Client, NEW n \in 1..MaxVerified
  PROVE  Rewarded(c, n) \in Base..Top
<1> DEFINE bonuses == (served[c] + n) \div ServeEvery - served[c] \div ServeEvery
           boost == Min({2 * n, MaxBoost})
<1>1. served[c] \in Nat /\ n \in Nat /\ ServeEvery \in Nat \ {0}
  BY RewardsAssumption DEF RepInv, RepType
<1>2. bonuses \in Nat
  BY <1>1
<1>3. boost \in Nat
  BY <1>1, MinMaxOfTwo, RewardsAssumption
<1>4. ServeBonus * bonuses \in Nat
  BY <1>2, RewardsAssumption
<1>5. ServeBonus * bonuses + boost \in Int /\ ServeBonus * bonuses + boost >= 0
  BY <1>3, <1>4
<1>6. rep[c] \in Reputation /\ (rep[c] # NoRep => rep[c] \in Base..Top)
  BY DEF RepInv, RepType, Floor
<1> HIDE DEF bonuses, boost
<1>7. Adjusted(rep[c], ServeBonus * bonuses + boost) \in Base..Top
  BY <1>5, <1>6, AdjustedFacts
<1> QED
  BY <1>7 DEF Rewarded, bonuses, boost

(* A SET changes the reputation of the client's key alone; where it fails  *)
(* the client is known to be unsaved.                                      *)
LEMMA SaveFacts ==
  ASSUME RepInv, NEW c \in Client, NEW r \in Reputation, Save(c, r)
  PROVE  /\ stored' \in [Key -> Reputation] /\ unsaved' \subseteq Client
         /\ \A d \in Client \ {c} : d \in unsaved' <=> d \in unsaved
         /\ \A k \in Key : \/ stored'[k] = stored[k]
                           \/ k = pk[c] /\ stored'[k] = r /\ r # NoRep
         /\ pk[c] # NoKey /\ r # NoRep /\ c \notin unsaved' => stored'[pk[c]] = r
<1>1. CASE pk[c] = NoKey \/ r = NoRep
  BY <1>1 DEF Save, saved, RepInv, RepType
<1>2. CASE pk[c] # NoKey /\ r # NoRep
  <2>1. pk[c] \in Key
    BY <1>2 DEF RepInv, RepType
  <2>2. \/ stored' = [stored EXCEPT ![pk[c]] = r] /\ unsaved' = unsaved \ {c}
        \/ stored' = stored /\ unsaved' = unsaved \cup {c}
    BY <1>2 DEF Save
  <2> QED
    BY <1>2, <2>1, <2>2 DEF RepInv, RepType
<1> QED
  BY <1>1, <1>2

(* A reputation that is adjusted is saved: for a client that is ready      *)
(* memory and Redis agree again, and one that is loading races.            *)
LEMMA AdjustKeepsRep ==
  ASSUME RepInv, NEW c \in Client, NEW r \in Base..Top, Registered(c),
         rep' = [rep EXCEPT ![c] = r], Save(c, r), MarkEarly(c),
         served' \in [Client -> Nat], due' \in [Client -> 0..Threshold - 1],
         UNCHANGED <<session, pk, payee, read>>
  PROVE  RepInv'
<1> USE DEF RepInv
<1>1. r \in Reputation /\ r # NoRep
  BY RewardsAssumption DEF Reputation, NoRep
<1>2. /\ stored' \in [Key -> Reputation] /\ unsaved' \subseteq Client
      /\ \A d \in Client \ {c} : d \in unsaved' <=> d \in unsaved
      /\ \A k \in Key : stored'[k] = stored[k] \/ (k = pk[c] /\ stored'[k] = r)
      /\ pk[c] # NoKey /\ c \notin unsaved' => stored'[pk[c]] = r
  BY <1>1, SaveFacts
<1>3. raced \subseteq raced' /\ raced' \subseteq Client /\ (session[c] = "loading" => c \in raced')
  BY DEF MarkEarly, RepType
<1>4. \A d \in Client : rep'[d] = IF d = c THEN r ELSE rep[d]
  BY DEF RepType
<1>5. RepType'
  BY <1>1, <1>2, <1>3 DEF RepType
<1>6. Floor'
  BY <1>2, <1>4 DEF Floor
<1>7. Shared'
  BY <1>3 DEF Shared
<1>8. Stored'
  <2> SUFFICES ASSUME NEW d \in Client \ raced', pk[d] # NoKey
               PROVE  /\ session[d] = "ready" /\ d \notin unsaved'
                           => Whole(stored'[pk[d]]) = Whole(rep'[d])
                      /\ session[d] = "loading" => read[d] = Whole(stored'[pk[d]])
    BY DEF Stored
  <2>1. d \notin raced /\ pk[d] \in Key
    BY <1>3 DEF RepType
  <2>2. CASE d = c
    BY <1>2, <1>3, <1>4, <2>1, <2>2
  <2>3. CASE d # c
    <3>1. session[d] \in {"ready", "loading"} => pk[d] # pk[c]
      BY <2>1, <2>3 DEF Shared, Registered
    <3> QED
      BY <1>2, <1>4, <2>1, <2>3, <3>1 DEF Stored
  <2> QED
    BY <2>2, <2>3
<1> QED
  BY <1>5, <1>6, <1>7, <1>8

(* onRegister.                                                             *)
LEMMA RegisterKeepsRep ==
  ASSUME RepInv, NEW c \in Client, NEW k \in Key \cup {NoKey}, NEW p, Register(c, k, p)
  PROVE  RepInv'
<1> USE DEF RepInv
<1>1. /\ session[c] \in {"new", "lapsed"} /\ payee' \in [Client -> Payable \cup {NoKey}]
      /\ UNCHANGED <<served, due, stored>>
  BY DEF Register, RepType
<1>2. CASE k = NoKey
  <2>1. /\ session' = [session EXCEPT ![c] = "ready"] /\ rep' = [rep EXCEPT ![c] = Base]
        /\ unsaved' = (IF pk[c] = NoKey THEN unsaved ELSE unsaved \cup {c})
        /\ UNCHANGED <<pk, read, raced>>
    BY <1>2 DEF Register
  <2>2. Base \in Base..Top /\ Base \in Reputation
    BY RewardsAssumption DEF Reputation
  <2>3. RepType' /\ Floor'
    BY <1>1, <2>1, <2>2 DEF RepType, Floor
  <2>4. Shared'
    BY <1>1, <2>1 DEF Shared, RepType
  <2>5. Stored'
    BY <1>1, <2>1 DEF Stored, RepType
  <2> QED
    BY <2>3, <2>4, <2>5
<1>3. CASE k # NoKey
  <2>1. /\ session' = [session EXCEPT ![c] = "loading"] /\ pk' = [pk EXCEPT ![c] = k]
        /\ read' = [read EXCEPT ![c] = Whole(stored[k])] /\ k \in Key
        /\ raced' = IF Sharing(k) \ {c} # {} THEN raced \cup Sharing(k) \cup {c} ELSE raced
        /\ UNCHANGED <<rep, unsaved>>
    BY <1>3 DEF Register
  <2>2. stored[k] \in Reputation /\ (stored[k] # NoRep => stored[k] \in Base..Top)
    BY <2>1 DEF RepType, Floor
  <2>3. Whole(stored[k]) \in Reputation /\ (Whole(stored[k]) # NoRep => Whole(stored[k]) \in Base..Top)
    BY <2>2, WholeFacts
  <2>4. raced \subseteq raced' /\ raced' \subseteq Client
    BY <2>1 DEF Sharing, RepType
  <2>5. RepType' /\ Floor'
    BY <1>1, <2>1, <2>3, <2>4 DEF RepType, Floor
  <2>6. Shared'
    <3> SUFFICES ASSUME NEW d \in Client, NEW e \in Client, d # e, pk'[d] = pk'[e],
                        pk'[d] # NoKey, session'[d] # "gone", session'[e] # "gone"
                 PROVE  d \in raced'
      BY DEF Shared
    <3>1. CASE d # c /\ e # c
      BY <1>1, <2>1, <2>4, <3>1 DEF Shared, RepType
    <3>2. CASE d = c
      <4>1. e \in Sharing(k) \ {c}
        BY <1>1, <2>1, <3>2 DEF Sharing, RepType
      <4> QED
        BY <2>1, <3>2, <4>1
    <3>3. CASE e = c
      <4>1. d \in Sharing(k) \ {c}
        BY <1>1, <2>1, <3>3 DEF Sharing, RepType
      <4> QED
        BY <2>1, <4>1
    <3> QED
      BY <3>1, <3>2, <3>3
  <2>7. Stored'
    BY <1>1, <2>1, <2>4 DEF Stored, RepType
  <2> QED
    BY <2>5, <2>6, <2>7
<1> QED
  BY <1>2, <1>3

(* The answer to the GET of initReputation.                                *)
LEMMA LoadedKeepsRep ==
  ASSUME RepInv, NEW c \in Client, ReputationLoaded(c) PROVE RepInv'
<1> USE DEF RepInv
<1>1. /\ session[c] = "loading" /\ session' = [session EXCEPT ![c] = "ready"]
      /\ read' = [read EXCEPT ![c] = NoRep] /\ UNCHANGED <<pk, payee, served, due, raced>>
      /\ NoRep \in Reputation /\ Base \in Base..Top /\ Base \in Nat /\ Base # NoRep
      /\ Base \in Reputation
  BY RewardsAssumption DEF ReputationLoaded, Reputation, NoRep
<1> DEFINE r == IF read[c] = NoRep THEN Base ELSE read[c]
<1>2. rep' = [rep EXCEPT ![c] = r] /\ r \in Base..Top /\ r \in Reputation
  BY <1>1 DEF ReputationLoaded, RepType, Floor
<1>3. /\ stored' \in [Key -> Reputation] /\ unsaved' \subseteq Client
      /\ \A d \in Client \ {c} : d \in unsaved' <=> d \in unsaved
      /\ \A k \in Key : stored'[k] = stored[k] \/ (k = pk[c] /\ stored'[k] = Base)
      /\ read[c] = NoRep /\ pk[c] # NoKey /\ c \notin unsaved' => stored'[pk[c]] = Base
      /\ read[c] # NoRep => stored' = stored
  <2>1. CASE read[c] = NoRep
    <3>1. Save(c, Base)
      BY <2>1 DEF ReputationLoaded
    <3> QED
      BY <1>1, <2>1, <3>1, SaveFacts
  <2>2. CASE read[c] # NoRep
    BY <2>2 DEF ReputationLoaded, RepType
  <2> QED
    BY <2>1, <2>2
<1>4. RepType'
  BY <1>1, <1>2, <1>3 DEF RepType
<1>5. Floor'
  BY <1>1, <1>2, <1>3 DEF RepType, Floor
<1>6. Shared'
  BY <1>1 DEF Shared, RepType
<1>7. Stored'
  <2> SUFFICES ASSUME NEW d \in Client \ raced, pk[d] # NoKey
               PROVE  /\ session'[d] = "ready" /\ d \notin unsaved'
                           => Whole(stored'[pk[d]]) = Whole(rep'[d])
                      /\ session'[d] = "loading" => read'[d] = Whole(stored'[pk[d]])
    BY <1>1 DEF Stored
  <2>1. pk[d] \in Key /\ stored[pk[d]] \in Reputation
    BY DEF RepType
  <2>2. CASE d = c
    <3>1. read[c] = Whole(stored[pk[c]]) /\ session'[c] = "ready" /\ rep'[c] = r
      BY <1>1, <1>2, <2>2 DEF Stored, RepType
    <3>2. CASE read[c] = NoRep
      BY <1>3, <2>1, <2>2, <3>1, <3>2
    <3>3. CASE read[c] # NoRep
      <4>1. stored'[pk[c]] = stored[pk[c]] /\ rep'[c] = Whole(stored[pk[c]])
        BY <1>3, <3>1, <3>3
      <4>2. Whole(rep'[c]) = Whole(stored'[pk[c]])
        BY <2>1, <2>2, <4>1, WholeFacts
      <4> QED
        BY <2>2, <3>1, <4>2
    <3> QED
      BY <3>2, <3>3
  <2>3. CASE d # c
    <3>1. session[d] # "gone" => pk[d] # pk[c]
      BY <1>1, <2>3 DEF Shared
    <3>2. session'[d] = session[d] /\ rep'[d] = rep[d] /\ read'[d] = read[d]
      BY <1>1, <1>2, <2>3 DEF RepType
    <3> QED
      BY <1>3, <2>1, <2>3, <3>1, <3>2 DEF Stored
  <2> QED
    BY <2>2, <2>3
<1> HIDE DEF r
<1> QED
  BY <1>4, <1>5, <1>6, <1>7

(* Its failure.                                                            *)
LEMMA LoadFailureKeepsRep ==
  ASSUME RepInv, NEW c \in Client, ReputationFails(c) PROVE RepInv'
<1> USE DEF RepInv
<1>1. /\ session[c] = "loading" /\ session' = [session EXCEPT ![c] = "ready"]
      /\ read' = [read EXCEPT ![c] = NoRep] /\ unsaved' = unsaved \cup {c}
      /\ UNCHANGED <<pk, payee, rep, served, due, stored, raced>> /\ NoRep \in Reputation
  BY DEF ReputationFails, Reputation
<1>2. RepType' /\ Floor'
  BY <1>1 DEF RepType, Floor
<1>3. Shared'
  BY <1>1 DEF Shared, RepType
<1>4. Stored'
  BY <1>1 DEF Stored, RepType
<1> QED
  BY <1>2, <1>3, <1>4

(* handleDisconnect.                                                       *)
LEMMA LeaveKeepsRep ==
  ASSUME RepInv, NEW c \in Client, Leave(c) PROVE RepInv'
<1> USE DEF RepInv
<1>1. session' = [session EXCEPT ![c] = "gone"] /\ UNCHANGED <<read, raced>>
  BY DEF Leave
<1>2. CASE UNCHANGED <<pk, payee, rep, served, due, saved>>
  BY <1>1, <1>2 DEF saved, RepType, Floor, Shared, Stored
<1>3. CASE session[c] = "ready" /\ CleanupPeerClassifier(c)
  <2>1. /\ Save(c, rep[c]) /\ rep' = [rep EXCEPT ![c] = NoRep]
        /\ served' = [served EXCEPT ![c] = 0] /\ pk' = [pk EXCEPT ![c] = NoKey]
        /\ payee' = [payee EXCEPT ![c] = NoKey] /\ due' = [due EXCEPT ![c] = 0]
        /\ NoRep \in Reputation /\ 0 \in 0..Threshold - 1 /\ rep[c] \in Reputation
    BY <1>3, RewardsAssumption DEF CleanupPeerClassifier, Reputation, RepType
  <2>2. /\ stored' \in [Key -> Reputation] /\ unsaved' \subseteq Client
        /\ \A d \in Client \ {c} : d \in unsaved' <=> d \in unsaved
        /\ \A k \in Key : \/ stored'[k] = stored[k]
                          \/ k = pk[c] /\ stored'[k] = rep[c] /\ rep[c] # NoRep
    BY <2>1, SaveFacts
  <2>3. RepType'
    BY <1>1, <2>1, <2>2 DEF RepType
  <2>4. Floor'
    BY <1>1, <2>1, <2>2 DEF Floor, RepType
  <2>5. Shared'
    BY <1>1, <2>1 DEF Shared, RepType
  <2>6. Stored'
    <3> SUFFICES ASSUME NEW d \in Client \ raced, pk'[d] # NoKey, session'[d] # "gone"
                 PROVE  /\ session'[d] = "ready" /\ d \notin unsaved'
                             => Whole(stored'[pk'[d]]) = Whole(rep'[d])
                        /\ session'[d] = "loading" => read[d] = Whole(stored'[pk'[d]])
      BY <1>1 DEF Stored
    <3>1. d # c /\ pk'[d] = pk[d] /\ rep'[d] = rep[d] /\ session'[d] = session[d] /\ pk[d] \in Key
      BY <1>1, <2>1 DEF RepType
    <3>2. pk[d] # pk[c]
      BY <1>3, <3>1 DEF Shared
    <3> QED
      BY <2>2, <3>1, <3>2 DEF Stored
  <2> QED
    BY <2>3, <2>4, <2>5, <2>6
<1> QED
  BY <1>2, <1>3 DEF Leave

(* Every step keeps the invariant of the reputations.                      *)
LEMMA RepStep == RepInv /\ [Next]_vars => RepInv'
<1> SUFFICES ASSUME RepInv, [Next]_vars PROVE RepInv'
  OBVIOUS
<1>1. ASSUME NEW c \in Client, NEW n \in 1..MaxVerified, Stats(c, n) PROVE RepInv'
  <2>1. Rewarded(c, n) \in Base..Top
    BY RewardedFacts
  <2>2. served' \in [Client -> Nat]
    BY <1>1 DEF Stats, RepInv, RepType
  <2>3. due' \in [Client -> 0..Threshold - 1]
    <3>1. due[c] + n \in Nat
      BY DEF RepInv, RepType
    <3>2. (due[c] + n) % Threshold \in 0..Threshold - 1
      BY <3>1, RewardsAssumption
    <3> QED
      BY <1>1, <3>2 DEF Stats, TrackVerifiedEvent, RepInv, RepType
  <2> QED
    BY <1>1, <2>1, <2>2, <2>3, AdjustKeepsRep DEF Stats
<1>2. ASSUME NEW c \in Client, Decay(c) PROVE RepInv'
  <2>1. Adjusted(rep[c], -1) \in Base..Top
    <3>1. rep[c] \in Reputation /\ (rep[c] # NoRep => rep[c] \in Base..Top) /\ rep[c] > Base
      BY <1>2 DEF Decay, RepInv, RepType, Floor
    <3> QED
      BY <3>1, AdjustedFacts
  <2> QED
    BY <1>2, <2>1, AdjustKeepsRep DEF Decay, RepInv, RepType
<1>3. ASSUME NEW c \in Client, Lapse(c) PROVE RepInv'
  BY <1>3 DEF Lapse, memory, saved, RepInv, RepType, Floor, Shared, Stored
<1>4. CASE UNCHANGED <<session, memory, saved, raced>>
  BY <1>4 DEF memory, saved, RepInv, RepType, Floor, Shared, Stored
<1>5. ASSUME NEW s \in Slot, CallGoesOn(s) \/ CallFails(s) \/ CallPays(s)
      PROVE  UNCHANGED <<session, memory, saved, raced>>
  BY <1>5 DEF CallGoesOn, CallFails, CallPays
<1>6. UNCHANGED vars => UNCHANGED <<session, memory, saved, raced>>
  BY DEF vars
<1> QED
  BY <1>1, <1>2, <1>3, <1>4, <1>5, <1>6, RegisterKeepsRep, LoadedKeepsRep,
     LoadFailureKeepsRep, LeaveKeepsRep DEF Next

(* No reputation is known at first.                                        *)
LEMMA RepInit == Init => RepInv
BY RewardsAssumption DEF Init, RepInv, RepType, Floor, Shared, Stored, Reputation, NoRep

(* classifier.ts: a reputation never falls below the baseline, through     *)
(* bonuses, decay, parseInt and any number of reconnections, and Redis     *)
(* holds what memory does, the race of the first GET apart.                *)
THEOREM ReputationsSafe == Spec => [](ReputationFloor /\ MemoryIsStored)
<1>1. RepInv => ReputationFloor /\ MemoryIsStored
  BY DEF RepInv, Floor, Stored, ReputationFloor, MemoryIsStored
<1> QED
  BY <1>1, RepInit, RepStep, PTL DEF Spec

(* classifier.ts:35: Redis has the reputation of memory.                   *)
THEOREM StoredMatchesMemory == Spec => []MemoryIsStored
  BY ReputationsSafe, PTL

-----------------------------------------------------------------------------
(* The payments.                                                           *)

PayInv ==
  /\ call \in [Slot -> {NoCall} \cup [stage : Stage, key : Payable]]
  /\ pending \subseteq Payable
  /\ OnePaymentAtATime /\ PendingAtWork

(* A call that begins: its key was not pending, so that no other call is   *)
(* for it.                                                                 *)
LEMMA PayPeerKeepsPayments ==
  ASSUME PayInv, NEW k \in Payable, PayPeer(k) PROVE PayInv'
<1>1. CASE k \in pending
  BY <1>1 DEF PayPeer, PayInv, OnePaymentAtATime, PendingAtWork
<1>2. CASE k \notin pending
  <2> DEFINE new == [stage |-> "resolve", key |-> k]
  <2>1. PICK s \in Slot : /\ call[s] = NoCall /\ call' = [call EXCEPT ![s] = new]
                          /\ pending' = pending \cup {k}
    BY <1>2 DEF PayPeer
  <2>2. new \in [stage : Stage, key : Payable] /\ new # NoCall /\ new.key = k
    BY DEF Stage, NoCall
  <2> HIDE DEF new
  <2>3. \A t \in Slot : call'[t] = IF t = s THEN new ELSE call[t]
    BY <2>1 DEF PayInv
  <2>4. \A t \in Slot : call[t] # NoCall => call[t].key # k
    BY <1>2 DEF PayInv, OnePaymentAtATime
  <2>5. OnePaymentAtATime'
    BY <2>1, <2>2, <2>3, <2>4 DEF PayInv, OnePaymentAtATime
  <2>6. PendingAtWork'
    BY <2>1, <2>2, <2>3 DEF PayInv, PendingAtWork
  <2> QED
    BY <2>1, <2>2, <2>5, <2>6 DEF PayInv
<1> QED
  BY <1>1, <1>2

(* A call that ends: no other one is for its key.                          *)
LEMMA EndCallKeepsPayments ==
  ASSUME PayInv, NEW s \in Slot, call[s] # NoCall, EndCall(s) PROVE PayInv'
<1>1. /\ call' = [call EXCEPT ![s] = NoCall] /\ pending' = pending \ {call[s].key}
      /\ \A t \in Slot : call'[t] = IF t = s THEN NoCall ELSE call[t]
  BY DEF EndCall, PayInv
<1>2. \A t \in Slot : call[t] # NoCall /\ t # s => call[t].key # call[s].key
  BY DEF PayInv, OnePaymentAtATime
<1>3. OnePaymentAtATime'
  BY <1>1, <1>2 DEF PayInv, OnePaymentAtATime
<1>4. PendingAtWork'
  BY <1>1 DEF PayInv, PendingAtWork
<1> QED
  BY <1>1, <1>3, <1>4 DEF PayInv

(* Every step keeps the invariant of the payments.                         *)
LEMMA PayStep == RepInv /\ PayInv /\ [Next]_vars => PayInv'
<1> SUFFICES ASSUME RepInv, PayInv, [Next]_vars PROVE PayInv'
  OBVIOUS
<1>1. CASE UNCHANGED <<call, pending>>
  BY <1>1 DEF PayInv, OnePaymentAtATime, PendingAtWork
<1>2. ASSUME NEW c \in Client, NEW n \in 1..MaxVerified, Stats(c, n) PROVE PayInv'
  <2>1. (payee[c] \in Payable /\ PayPeer(payee[c])) \/ UNCHANGED <<call, pending>>
    BY <1>2 DEF Stats, TrackVerifiedEvent, RepInv, RepType
  <2> QED
    BY <1>1, <2>1, PayPeerKeepsPayments
<1>3. ASSUME NEW c \in Client, \/ \E k, p \in Key \cup {NoKey} : Register(c, k, p)
                               \/ ReputationLoaded(c) \/ ReputationFails(c)
                               \/ Decay(c) \/ Lapse(c) \/ Leave(c)
      PROVE  UNCHANGED <<call, pending>>
  BY <1>3 DEF Register, ReputationLoaded, ReputationFails, Decay, Lapse, Leave, money
<1>4. ASSUME NEW s \in Slot, CallGoesOn(s) PROVE PayInv'
  <2>1. /\ call[s].stage \in {"resolve", "invoice"} /\ pending' = pending
        /\ call' = [call EXCEPT ![s].stage = NextStage[@]]
    BY <1>4 DEF CallGoesOn
  <2>2. call[s] \in [stage : Stage, key : Payable]
    BY <2>1 DEF PayInv, NoCall
  <2> DEFINE on == [call[s] EXCEPT !.stage = NextStage[@]]
  <2>3. on \in [stage : Stage, key : Payable] /\ on.key = call[s].key /\ on # NoCall
    BY <2>1, <2>2 DEF NextStage, Stage, NoCall
  <2>4. call' = [call EXCEPT ![s] = on]
    BY <2>1
  <2>5. call[s] # NoCall
    BY <2>1 DEF NoCall
  <2> HIDE DEF on
  <2>6. \A t \in Slot : call'[t] = IF t = s THEN on ELSE call[t]
    BY <2>4 DEF PayInv
  <2>7. OnePaymentAtATime'
    BY <2>1, <2>3, <2>5, <2>6 DEF PayInv, OnePaymentAtATime
  <2>8. PendingAtWork'
    BY <2>1, <2>3, <2>6 DEF PayInv, PendingAtWork
  <2> QED
    BY <2>1, <2>3, <2>4, <2>7, <2>8 DEF PayInv
<1>5. ASSUME NEW s \in Slot, CallFails(s) \/ CallPays(s) PROVE PayInv'
  <2>1. call[s] # NoCall /\ EndCall(s)
    BY <1>5 DEF CallFails, CallPays, NoCall
  <2> QED
    BY <2>1, EndCallKeepsPayments
<1>6. UNCHANGED vars => UNCHANGED <<call, pending>>
  BY DEF vars, money
<1> QED
  BY <1>1, <1>2, <1>3, <1>4, <1>5, <1>6 DEF Next

(* No payment is under way at first.                                      *)
LEMMA PayInit == Init => PayInv
BY DEF Init, PayInv, OnePaymentAtATime, PendingAtWork

(* payments.ts: never two payments at work for one key.                    *)
THEOREM NoDoublePayment == Spec => []OnePaymentAtATime
BY PayInit, RepInit, RepStep, PayStep, PTL DEF Spec, PayInv

(* payments.ts: however a call of payPeer ends, its key does not stay      *)
(* pending without one at work.                                            *)
THEOREM PendingHasCall == Spec => []PendingAtWork
BY PayInit, RepInit, RepStep, PayStep, PTL DEF Spec, PayInv

-----------------------------------------------------------------------------
(* Every payment is earned.  The events credited pay for the payments      *)
(* made, for those that are pending, and for what the connections have     *)
(* counted towards the next ones; and for a key that no connection         *)
(* inherited from another so do those credited to it.                      *)
Counted(p, d, k) == [c \in Client |-> IF p[c] = k THEN d[c] ELSE 0]

Payments(k) == paid[k] + (IF k \in pending THEN 1 ELSE 0)

Owing == [k \in Key |-> Payments(k)]

HistoryInv ==
  verified \in [Key -> Nat] /\ paid \in [Key -> Nat] /\ inherited \subseteq Key

AllEarned == Threshold * SumFunction(Owing) + SumFunction(due) <= SumFunction(verified)

OwnEarned ==
  \A k \in Key \ inherited :
    Threshold * Payments(k) + SumFunction(Counted(payee, due, k)) <= verified[k]

EarnedInv == AllEarned /\ OwnEarned

(* Only the payee and the count of c change.                               *)
ChangesAt(c) ==
  /\ due \in [Client -> Nat] /\ due' \in [Client -> Nat]
  /\ \A d \in Client \ {c} : payee'[d] = payee[d] /\ due'[d] = due[d]

(* What the connections of k have counted, and what all have, as c counts  *)
(* more or less.                                                           *)
LEMMA CountChanges ==
  ASSUME NEW c \in Client, NEW k, ChangesAt(c)
  PROVE  /\ SumFunction(Counted(payee, due, k)) \in Nat
         /\ SumFunction(Counted(payee, due, k))' =
              SumFunction(Counted(payee, due, k)) + (IF payee'[c] = k THEN due'[c] ELSE 0)
                                                  - (IF payee[c] = k THEN due[c] ELSE 0)
         /\ SumFunction(due) \in Nat
         /\ SumFunction(due)' = SumFunction(due) + due'[c] - due[c]
<1> DEFINE old == Counted(payee, due, k)
           new == Counted(payee', due', k)
<1>1. /\ old \in [Client -> Nat] /\ old[c] = IF payee[c] = k THEN due[c] ELSE 0
      /\ new \in [Client -> Nat] /\ new[c] = IF payee'[c] = k THEN due'[c] ELSE 0
      /\ \A d \in Client \ {c} : new[d] = old[d]
  BY DEF Counted, ChangesAt
<1> HIDE DEF old, new
<1>2. DiffersAt(c, new, old, Client)
  BY <1>1, RewardsAssumption DEF DiffersAt
<1>3. SumFunction(new) = SumFunction(old) + new[c] - old[c]
  BY <1>2, SumOfChanged
<1>4. SumFunction(old) \in Nat
  BY <1>1, RewardsAssumption, SumIsNat
<1>5. DiffersAt(c, due', due, Client) /\ due \in [Client -> Nat]
  BY RewardsAssumption DEF DiffersAt, ChangesAt
<1>6. SumFunction(due') = SumFunction(due) + due'[c] - due[c]
  BY <1>5, SumOfChanged
<1>7. SumFunction(due) \in Nat
  BY <1>5, RewardsAssumption, SumIsNat
<1> QED
  BY <1>1, <1>3, <1>4, <1>6, <1>7 DEF old, new

(* The sums are numbers.                                                   *)
LEMMA SumsAreNat ==
  ASSUME RepInv, HistoryInv
  PROVE  /\ \A k : SumFunction(Counted(payee, due, k)) \in Nat
         /\ SumFunction(due) \in Nat /\ SumFunction(verified) \in Nat
         /\ SumFunction(Owing) \in Nat /\ Owing \in [Key -> Nat]
<1>1. ASSUME NEW k PROVE SumFunction(Counted(payee, due, k)) \in Nat
  <2> DEFINE old == Counted(payee, due, k)
  <2>1. old \in [Client -> Nat]
    BY RewardsAssumption DEF Counted, RepInv, RepType
  <2> HIDE DEF old
  <2>2. SumFunction(old) \in Nat
    BY <2>1, RewardsAssumption, SumIsNat
  <2> QED
    BY <2>2 DEF old
<1>2. due \in [Client -> Nat]
  BY RewardsAssumption DEF RepInv, RepType
<1>3. Owing \in [Key -> Nat]
  BY DEF Owing, Payments, HistoryInv
<1>4. verified \in [Key -> Nat]
  BY DEF HistoryInv
<1>5. SumFunction(due) \in Nat
  BY <1>2, RewardsAssumption, SumIsNat
<1>6. SumFunction(Owing) \in Nat /\ SumFunction(verified) \in Nat
  BY <1>3, <1>4, RewardsAssumption, SumIsNat
<1> QED
  BY <1>1, <1>3, <1>5, <1>6

(* What is owed in all, as more or less is owed to one key.                *)
LEMMA OwingChanges ==
  ASSUME HistoryInv, HistoryInv', NEW k \in Key,
         \A j \in Key \ {k} : Payments(j)' = Payments(j)
  PROVE  SumFunction(Owing)' = SumFunction(Owing) + Payments(k)' - Payments(k)
<1> DEFINE old == Owing
           new == Owing'
<1>1. /\ old \in [Key -> Nat] /\ new \in [Key -> Nat]
      /\ \A j \in Key : old[j] = Payments(j) /\ new[j] = Payments(j)'
  BY DEF Owing, Payments, HistoryInv
<1> HIDE DEF old, new
<1>2. DiffersAt(k, new, old, Key)
  BY <1>1, RewardsAssumption DEF DiffersAt
<1>3. SumFunction(new) = SumFunction(old) + new[k] - old[k]
  BY <1>2, SumOfChanged
<1> QED
  BY <1>1, <1>3 DEF old, new

(* A report: the events credited pay for the payment they make due.        *)
LEMMA StatsEarns ==
  ASSUME RepInv, PayInv, HistoryInv, HistoryInv', EarnedInv, NEW c \in Client,
         NEW n \in 1..MaxVerified, Stats(c, n)
  PROVE  EarnedInv'
<1>0. PICK p : p = payee[c]
  OBVIOUS
<1>1. /\ UNCHANGED <<payee, paid, inherited>> /\ due \in [Client -> Nat] /\ n \in Nat
      /\ due[c] \in Nat /\ p \in Payable \cup {NoKey} /\ Threshold \in Nat \ {0}
      /\ Payable \subseteq Key /\ NoKey \notin Key
  BY <1>0, RewardsAssumption DEF Stats, RepInv, RepType
<1>2. \A k \in Key : /\ verified[k] \in Nat /\ paid[k] \in Nat /\ Payments(k) \in Nat
                     /\ verified'[k] = IF k = p THEN verified[k] + n ELSE verified[k]
  BY <1>0 DEF Stats, HistoryInv, Payments
<1>3. CASE p = NoKey
  <2>1. due' = due /\ pending' = pending
    BY <1>0, <1>3 DEF Stats
  <2>2. verified' = verified
    <3>1. \A k \in Key : verified'[k] = verified[k]
      BY <1>1, <1>2, <1>3
    <3>2. verified \in [Key -> Nat] /\ verified' \in [Key -> Nat]
      BY DEF HistoryInv
    <3> QED
      BY <3>1, <3>2
  <2> QED
    BY <1>1, <2>1, <2>2 DEF EarnedInv, AllEarned, OwnEarned, Owing, Payments
<1>4. CASE p \in Payable
  <2> DEFINE left == (due[c] + n) % Threshold
  <2>1. left \in Nat /\ left <= due[c] + n /\ (due[c] + n >= Threshold => Threshold + left <= due[c] + n)
    <3> DEFINE m == due[c] + n
    <3>1. m \in Nat /\ Threshold \in Nat /\ Threshold > 0
      BY <1>1
    <3> HIDE DEF m
    <3>2. m % Threshold \in Nat /\ m % Threshold <= m /\ (m >= Threshold => Threshold + (m % Threshold) <= m)
      BY <3>1, RemainderFacts
    <3>3. left = m % Threshold
      BY DEF m
    <3> HIDE DEF left
    <3> QED
      BY <3>1, <3>2, <3>3 DEF m
  <2>2. /\ due' = [due EXCEPT ![c] = left]
        /\ \/ due[c] + n >= Threshold /\ PayPeer(p)
           \/ pending' = pending
    BY <1>0, <1>1, <1>4 DEF Stats, TrackVerifiedEvent
  <2>3. \/ pending' = pending
        \/ due[c] + n >= Threshold /\ p \notin pending /\ pending' = pending \cup {p}
    BY <2>2 DEF PayPeer
  <2> HIDE DEF left
  <2>4. ChangesAt(c) /\ due'[c] = left
    BY <1>1, <2>1, <2>2 DEF ChangesAt
  <2>5. /\ \A j \in Key \ {p} : Payments(j)' = Payments(j)
        /\ \/ Payments(p)' = Payments(p)
           \/ Payments(p)' = Payments(p) + 1 /\ due[c] + n >= Threshold
    BY <1>1, <1>2, <1>4, <2>3 DEF Payments
  <2>6. AllEarned'
    <3> DEFINE owed == SumFunction(Owing)
               owed1 == SumFunction(Owing)'
               count == SumFunction(due)
               count1 == SumFunction(due)'
               all == SumFunction(verified)
               all1 == SumFunction(verified)'
    <3>1. owed \in Nat /\ count \in Nat /\ all \in Nat
      BY SumsAreNat
    <3>2. owed1 = owed + Payments(p)' - Payments(p)
      BY <1>1, <1>4, <2>5, OwingChanges
    <3>3. count1 = count + left - due[c]
      BY <2>4, CountChanges
    <3>4. all1 = all + n
      <4>1. DiffersAt(p, verified', verified, Key)
        BY <1>1, <1>2, <1>4, RewardsAssumption DEF DiffersAt, HistoryInv
      <4>2. all1 = all + verified'[p] - verified[p]
        BY <4>1, SumOfChanged
      <4> QED
        BY <1>1, <1>2, <1>4, <3>1, <4>2
    <3>5. Threshold * owed + count <= all
      BY DEF EarnedInv, AllEarned
    <3>6. Payments(p) \in Nat
      BY <1>1, <1>2, <1>4
    <3> HIDE DEF owed, owed1, count, count1, all, all1
    <3>7. Threshold * owed \in Nat /\ Threshold * (owed + 1) = Threshold * owed + Threshold
      BY <1>1, <3>1
    <3>8. CASE Payments(p)' = Payments(p)
      <4>1. owed1 = owed
        BY <3>1, <3>2, <3>6, <3>8
      <4>2. Threshold * owed + count1 <= all1
        BY <1>1, <2>1, <3>1, <3>3, <3>4, <3>5, <3>7
      <4> QED
        BY <4>1, <4>2 DEF AllEarned, owed1, count1, all1
    <3>9. CASE Payments(p)' = Payments(p) + 1 /\ due[c] + n >= Threshold
      <4>1. owed1 = owed + 1
        BY <3>1, <3>2, <3>6, <3>9
      <4>2. Threshold * owed + Threshold + count1 <= all1
        BY <1>1, <2>1, <3>1, <3>3, <3>4, <3>5, <3>7, <3>9
      <4>3. Threshold * owed1 + count1 <= all1
        BY <3>7, <4>1, <4>2
      <4> QED
        BY <4>3 DEF AllEarned, owed1, count1, all1
    <3> QED
      BY <2>5, <3>8, <3>9
  <2>7. OwnEarned'
    <3> SUFFICES ASSUME NEW k \in Key \ inherited
                 PROVE  Threshold * Payments(k)' + SumFunction(Counted(payee, due, k))' <= verified'[k]
      BY <1>1 DEF OwnEarned
    <3> DEFINE sum == SumFunction(Counted(payee, due, k))
               sum1 == SumFunction(Counted(payee, due, k))'
    <3>1. /\ sum \in Nat
          /\ sum1 = sum + (IF payee'[c] = k THEN due'[c] ELSE 0) - (IF payee[c] = k THEN due[c] ELSE 0)
      BY <2>4, CountChanges
    <3>2. Threshold * Payments(k) + sum <= verified[k] /\ Payments(k) \in Nat /\ verified[k] \in Nat
      BY <1>2 DEF EarnedInv, OwnEarned
    <3> HIDE DEF sum, sum1
    <3>3. CASE k # p
      <4>1. sum1 = sum /\ Payments(k)' = Payments(k) /\ verified'[k] = verified[k]
        BY <1>0, <1>1, <1>2, <2>5, <3>1, <3>3
      <4> QED
        BY <3>2, <4>1 DEF sum1
    <3>4. CASE k = p
      <4>1. sum1 = sum + left - due[c] /\ verified'[k] = verified[k] + n
        BY <1>0, <1>1, <1>2, <2>4, <3>1, <3>4
      <4>2. /\ Threshold * Payments(k) \in Nat
            /\ Threshold * (Payments(k) + 1) = Threshold * Payments(k) + Threshold
        BY <1>1, <3>2
      <4>3. CASE Payments(k)' = Payments(k)
        <5>1. Threshold * Payments(k) + sum1 <= verified'[k]
          BY <1>1, <2>1, <3>1, <3>2, <4>1, <4>2
        <5> QED
          BY <4>3, <5>1 DEF sum1
      <4>4. CASE Payments(k)' = Payments(k) + 1 /\ due[c] + n >= Threshold
        <5>1. Threshold * Payments(k) + Threshold + sum1 <= verified'[k]
          BY <1>1, <2>1, <3>1, <3>2, <4>1, <4>2, <4>4
        <5> QED
          BY <4>2, <4>4, <5>1 DEF sum1
      <4> QED
        BY <2>5, <3>4, <4>3, <4>4
    <3> QED
      BY <3>3, <3>4
  <2> QED
    BY <2>6, <2>7 DEF EarnedInv
<1> QED
  BY <1>1, <1>3, <1>4

(* A payment made was pending; one that fails is owed no longer.           *)
LEMMA CallEndEarns ==
  ASSUME RepInv, PayInv, HistoryInv, HistoryInv', EarnedInv, NEW s \in Slot,
         CallFails(s) \/ CallPays(s)
  PROVE  EarnedInv'
<1>0. PICK j : j = call[s].key
  OBVIOUS
<1>1. /\ UNCHANGED <<payee, due, verified, inherited>> /\ pending' = pending \ {j}
      /\ call[s] # NoCall
      /\ paid' = paid \/ paid' = [paid EXCEPT ![j] = @ + 1]
  BY <1>0 DEF CallFails, CallPays, EndCall, memory, credit, NoCall
<1>2. j \in pending /\ j \in Key
  BY <1>0, <1>1, RewardsAssumption DEF PayInv, OnePaymentAtATime
<1>3. /\ \A k \in Key \ {j} : Payments(k)' = Payments(k)
      /\ \/ Payments(j)' = Payments(j)
         \/ Payments(j)' = Payments(j) - 1 /\ Payments(j) > 0
      /\ \A k \in Key : Payments(k) \in Nat /\ verified[k] \in Nat
  BY <1>1, <1>2 DEF HistoryInv, Payments
<1>4. Threshold \in Nat
  BY RewardsAssumption
<1>5. AllEarned'
  <2> DEFINE owed == SumFunction(Owing)
             owed1 == SumFunction(Owing)'
             count == SumFunction(due)
             all == SumFunction(verified)
  <2>1. owed \in Nat /\ count \in Nat /\ all \in Nat
    BY SumsAreNat
  <2>2. owed1 = owed + Payments(j)' - Payments(j)
    BY <1>2, <1>3, OwingChanges
  <2>3. Threshold * owed + count <= all
    BY DEF EarnedInv, AllEarned
  <2> HIDE DEF owed, owed1, count, all
  <2>4. owed1 = owed \/ owed1 = owed - 1
    BY <1>2, <1>3, <2>1, <2>2
  <2>5. Threshold * (owed - 1) = Threshold * owed - Threshold /\ Threshold * owed \in Nat
    BY <1>4, <2>1
  <2>6. Threshold * owed1 + count <= all
    BY <1>4, <2>1, <2>3, <2>4, <2>5
  <2> QED
    BY <1>1, <2>6 DEF AllEarned, owed1, count, all
<1>6. OwnEarned'
  <2> SUFFICES ASSUME NEW k \in Key \ inherited
               PROVE  Threshold * Payments(k)' + SumFunction(Counted(payee, due, k)) <= verified[k]
    BY <1>1 DEF OwnEarned
  <2> DEFINE sum == SumFunction(Counted(payee, due, k))
             before == Payments(k)
             after  == Payments(k)'
  <2>1. sum \in Nat
    BY SumsAreNat
  <2>2. before \in Nat /\ verified[k] \in Nat
    BY <1>3
  <2>3. Threshold * before + sum <= verified[k]
    BY DEF EarnedInv, OwnEarned
  <2>4. after = before \/ after = before - 1
    BY <1>3
  <2> HIDE DEF sum, before, after
  <2>5. Threshold * (before - 1) = Threshold * before - Threshold /\ Threshold * before \in Nat
    BY <1>4, <2>2
  <2>6. Threshold * after + sum <= verified[k]
    BY <1>4, <2>1, <2>2, <2>3, <2>4, <2>5
  <2> QED
    BY <2>6 DEF after, sum
<1> QED
  BY <1>5, <1>6 DEF EarnedInv

(* onRegister: a key registered with a count left of another is inherited. *)
LEMMA RegisterEarns ==
  ASSUME RepInv, HistoryInv, EarnedInv, NEW c \in Client, NEW k, NEW p, Register(c, k, p)
  PROVE  EarnedInv'
<1>1. /\ UNCHANGED <<due, verified, paid, pending>> /\ inherited \subseteq inherited'
      /\ p \in Payable \cup {NoKey}
      /\ p # NoKey /\ p # payee[c] /\ due[c] > 0 => p \in inherited'
      /\ payee' = [payee EXCEPT ![c] = p]
  BY DEF Register, money
<1>2. /\ due \in [Client -> Nat] /\ due' = due /\ Threshold \in Nat /\ NoKey \notin Key
      /\ \A d \in Client : payee'[d] = IF d = c THEN p ELSE payee[d]
  BY <1>1, RewardsAssumption DEF RepInv, RepType
<1>3. AllEarned'
  BY <1>1 DEF EarnedInv, AllEarned, Owing, Payments
<1>4. OwnEarned'
  <2> SUFFICES ASSUME NEW j \in Key \ inherited'
               PROVE  Threshold * Payments(j) + SumFunction(Counted(payee, due, j))' <= verified[j]
    BY <1>1 DEF OwnEarned, Payments
  <2> DEFINE sum == SumFunction(Counted(payee, due, j))
             sum1 == SumFunction(Counted(payee, due, j))'
  <2>1. ChangesAt(c)
    BY <1>2 DEF ChangesAt
  <2>2. /\ sum \in Nat
        /\ sum1 = sum + (IF payee'[c] = j THEN due'[c] ELSE 0) - (IF payee[c] = j THEN due[c] ELSE 0)
    BY <2>1, CountChanges
  <2>3. Threshold * Payments(j) + sum <= verified[j] /\ Threshold * Payments(j) \in Nat
        /\ verified[j] \in Nat
    BY <1>1, <1>2 DEF EarnedInv, OwnEarned, HistoryInv, Payments
  <2> HIDE DEF sum, sum1
  <2>4. payee'[c] = j => payee[c] = j \/ due[c] = 0
    BY <1>1, <1>2
  <2>5. sum1 \in Int /\ sum1 <= sum
    BY <1>2, <2>2, <2>4
  <2>6. Threshold * Payments(j) + sum1 <= verified[j]
    BY <2>2, <2>3, <2>5
  <2> QED
    BY <2>6 DEF sum1
<1> QED
  BY <1>3, <1>4 DEF EarnedInv

(* handleDisconnect: what was counted is forgotten.                        *)
LEMMA LeaveEarns ==
  ASSUME RepInv, HistoryInv, EarnedInv, NEW c \in Client, CleanupPeerClassifier(c),
         UNCHANGED <<verified, inherited, paid, pending>>
  PROVE  EarnedInv'
<1>1. /\ due' = [due EXCEPT ![c] = 0] /\ payee' = [payee EXCEPT ![c] = NoKey]
      /\ NoKey \notin Key /\ Threshold \in Nat
  BY RewardsAssumption DEF CleanupPeerClassifier
<1>2. ChangesAt(c) /\ due'[c] = 0 /\ due[c] \in Nat /\ payee'[c] = NoKey
  BY <1>1, RewardsAssumption DEF ChangesAt, RepInv, RepType
<1>3. AllEarned'
  <2> DEFINE owed == SumFunction(Owing)
             count == SumFunction(due)
             count1 == SumFunction(due)'
             all == SumFunction(verified)
  <2>1. owed \in Nat /\ count \in Nat /\ all \in Nat
    BY SumsAreNat
  <2>2. count1 = count + 0 - due[c]
    BY <1>2, CountChanges
  <2>3. Threshold * owed + count <= all
    BY DEF EarnedInv, AllEarned
  <2>4. Owing' = Owing
    BY DEF Owing, Payments
  <2>5. Threshold * owed \in Nat
    BY <1>1, <2>1
  <2> HIDE DEF owed, count, count1, all
  <2>6. Threshold * owed + count1 <= all
    BY <1>2, <2>1, <2>2, <2>3, <2>5
  <2> QED
    BY <2>4, <2>6 DEF AllEarned, owed, count1, all
<1>4. OwnEarned'
  <2> SUFFICES ASSUME NEW k \in Key \ inherited
               PROVE  Threshold * Payments(k) + SumFunction(Counted(payee, due, k))' <= verified[k]
    BY DEF OwnEarned, Payments
  <2> DEFINE sum == SumFunction(Counted(payee, due, k))
             sum1 == SumFunction(Counted(payee, due, k))'
  <2>1. /\ sum \in Nat
        /\ sum1 = sum + (IF payee'[c] = k THEN due'[c] ELSE 0) - (IF payee[c] = k THEN due[c] ELSE 0)
    BY <1>2, CountChanges
  <2>2. Threshold * Payments(k) + sum <= verified[k] /\ Threshold * Payments(k) \in Nat
        /\ verified[k] \in Nat
    BY <1>1 DEF EarnedInv, OwnEarned, Payments, HistoryInv
  <2> HIDE DEF sum, sum1
  <2>3. sum1 \in Int /\ sum1 <= sum
    BY <1>1, <1>2, <2>1
  <2>4. Threshold * Payments(k) + sum1 <= verified[k]
    BY <2>1, <2>2, <2>3
  <2> QED
    BY <2>4 DEF sum1
<1> QED
  BY <1>3, <1>4 DEF EarnedInv

(* Every step keeps the histories natural numbers.                         *)
LEMMA HistoryStep == PayInv /\ HistoryInv /\ [Next]_vars => HistoryInv'
<1> SUFFICES ASSUME PayInv, HistoryInv, [Next]_vars PROVE HistoryInv'
  OBVIOUS
<1> USE DEF HistoryInv
<1>1. ASSUME NEW c \in Client, NEW n \in 1..MaxVerified, Stats(c, n) PROVE HistoryInv'
  BY <1>1 DEF Stats
<1>2. ASSUME NEW s \in Slot, CallPays(s) PROVE HistoryInv'
  <2> DEFINE k == call[s].key
  <2>1. paid' = [paid EXCEPT ![k] = @ + 1] /\ UNCHANGED <<verified, inherited>>
    BY <1>2 DEF CallPays, credit
  <2> HIDE DEF k
  <2>2. /\ paid' = [x \in Key |-> paid'[x]]
        /\ \A x \in Key : paid'[x] = IF x = k THEN paid[x] + 1 ELSE paid[x]
    BY <2>1
  <2>3. \A x \in Key : paid'[x] \in Nat
    BY <2>2
  <2> QED
    BY <2>1, <2>2, <2>3
<1>3. ASSUME NEW c \in Client, NEW k, NEW p, Register(c, k, p) PROVE HistoryInv'
  BY <1>3, RewardsAssumption DEF Register, money
<1>4. ASSUME NEW c \in Client, \/ ReputationLoaded(c) \/ ReputationFails(c)
                               \/ Decay(c) \/ Lapse(c) \/ Leave(c)
      PROVE  UNCHANGED <<verified, inherited, paid>>
  BY <1>4 DEF ReputationLoaded, ReputationFails, Decay, Lapse, Leave, money, credit
<1>5. ASSUME NEW s \in Slot, CallGoesOn(s) \/ CallFails(s)
      PROVE  UNCHANGED <<verified, inherited, paid>>
  BY <1>5 DEF CallGoesOn, CallFails, credit
<1>6. UNCHANGED vars => UNCHANGED <<verified, inherited, paid>>
  BY DEF vars, money, credit
<1> QED
  BY <1>1, <1>2, <1>3, <1>4, <1>5, <1>6 DEF Next

(* Every step keeps every payment earned.                                  *)
LEMMA EarnedStep ==
  RepInv /\ PayInv /\ HistoryInv /\ EarnedInv /\ [Next]_vars => EarnedInv'
<1> SUFFICES ASSUME RepInv, PayInv, HistoryInv, EarnedInv, [Next]_vars PROVE EarnedInv'
  OBVIOUS
<1> HistoryInv'
  BY HistoryStep
<1>1. CASE UNCHANGED <<payee, due, credit, paid, pending>>
  BY <1>1 DEF EarnedInv, AllEarned, OwnEarned, Owing, Payments, credit
<1>2. ASSUME NEW c \in Client, NEW k, NEW p, Register(c, k, p) PROVE EarnedInv'
  BY <1>2, RegisterEarns
<1>3. ASSUME NEW c \in Client, NEW n \in 1..MaxVerified, Stats(c, n) PROVE EarnedInv'
  BY <1>3, StatsEarns
<1>4. ASSUME NEW c \in Client, ReputationLoaded(c) \/ ReputationFails(c) \/ Decay(c) \/ Lapse(c)
      PROVE  UNCHANGED <<payee, due, credit, paid, pending>>
  BY <1>4 DEF ReputationLoaded, ReputationFails, Decay, Lapse, memory, money, credit
<1>5. ASSUME NEW c \in Client, Leave(c) PROVE EarnedInv'
  <2>1. UNCHANGED <<credit, verified, inherited, paid, pending>>
    BY <1>5 DEF Leave, money, credit
  <2> QED
    BY <1>1, <1>5, <2>1, LeaveEarns DEF Leave
<1>6. ASSUME NEW s \in Slot, CallFails(s) \/ CallPays(s) PROVE EarnedInv'
  BY <1>6, CallEndEarns
<1>7. ASSUME NEW s \in Slot, CallGoesOn(s) PROVE UNCHANGED <<payee, due, credit, paid, pending>>
  BY <1>7 DEF CallGoesOn, memory
<1>8. UNCHANGED vars => UNCHANGED <<payee, due, credit, paid, pending>>
  BY DEF vars, memory, money
<1> QED
  BY <1>1, <1>2, <1>3, <1>4, <1>5, <1>6, <1>7, <1>8 DEF Next

-----------------------------------------------------------------------------
(* Types.                                                                  *)

(* The maps of classifier.ts and payments.ts have their types; the count   *)
(* towards the next payment stays below PAYMENT_THRESHOLD.                 *)
THEOREM RewardsTypeCorrect == Spec => []TypeOK
<1>1. Init => PayInv /\ HistoryInv
  BY DEF Init, PayInv, OnePaymentAtATime, PendingAtWork, HistoryInv
<1>2. RepInv /\ PayInv /\ HistoryInv => TypeOK
  BY DEF RepInv, RepType, PayInv, HistoryInv, TypeOK
<1> QED
  BY <1>1, <1>2, RepInit, RepStep, PayStep, HistoryStep, PTL DEF Spec

(* payments.ts: all payments together have PAYMENT_THRESHOLD credited      *)
(* events each, through changes of key, reconnections and calls that fail; *)
(* and so has every key that was not registered by a connection with a     *)
(* count left of another key, by events credited to itself.                *)
THEOREM PaymentsAreEarned == Spec => []PaidForServed
<1>1. Init => PayInv /\ HistoryInv /\ EarnedInv
  <2> SUFFICES ASSUME Init PROVE PayInv /\ HistoryInv /\ EarnedInv
    OBVIOUS
  <2>1. PayInv /\ HistoryInv
    BY DEF Init, PayInv, OnePaymentAtATime, PendingAtWork, HistoryInv
  <2>2. \A k \in Key : Payments(k) = 0 /\ verified[k] = 0
    BY DEF Init, Payments
  <2>3. \A k \in Key : SumFunction(Counted(payee, due, k)) = 0
    <3> TAKE k \in Key
    <3> DEFINE old == Counted(payee, due, k)
    <3>1. old \in [Client -> {0}]
      BY DEF Init, Counted
    <3> HIDE DEF old
    <3>2. SumFunction(old) = 0
      BY <3>1, RewardsAssumption, SumOfZeros
    <3> QED
      BY <3>2 DEF old
  <2>4. Owing \in [Key -> {0}] /\ verified \in [Key -> {0}] /\ due \in [Client -> {0}]
    BY <2>2 DEF Init, Owing
  <2>5. SumFunction(Owing) = 0 /\ SumFunction(verified) = 0 /\ SumFunction(due) = 0
    BY <2>4, RewardsAssumption, SumOfZeros
  <2>6. AllEarned
    BY <2>5, RewardsAssumption DEF AllEarned
  <2>7. OwnEarned
    BY <2>2, <2>3, RewardsAssumption DEF OwnEarned
  <2> QED
    BY <2>1, <2>6, <2>7 DEF EarnedInv
<1>2. RepInv /\ HistoryInv /\ EarnedInv => PaidForServed
  <2> SUFFICES ASSUME RepInv, HistoryInv, EarnedInv PROVE PaidForServed
    OBVIOUS
  <2>1. Threshold \in Nat
    BY RewardsAssumption
  <2>2. Threshold * SumFunction(paid) <= SumFunction(verified)
    <3> DEFINE owed == SumFunction(Owing)
               made == SumFunction(paid)
               count == SumFunction(due)
               all == SumFunction(verified)
    <3>1. owed \in Nat /\ count \in Nat /\ all \in Nat
      BY SumsAreNat
    <3>2. Owing \in [Key -> Nat] /\ paid \in [Key -> Nat] /\ \A k \in Key : paid[k] <= Owing[k]
      BY DEF HistoryInv, Owing, Payments
    <3>3. made <= owed /\ made \in Nat
      BY <3>2, RewardsAssumption, SumIsMonotonic, SumIsNat
    <3>4. Threshold * owed + count <= all
      BY DEF EarnedInv, AllEarned
    <3> HIDE DEF owed, made, count, all
    <3>5. PICK more \in Nat : owed = made + more
      <4>1. owed - made \in Nat /\ owed = made + (owed - made)
        BY <3>1, <3>3
      <4> QED
        BY <4>1
    <3>6. Threshold * owed = Threshold * made + Threshold * more
      BY <2>1, <3>3, <3>5
    <3>7. Threshold * made \in Nat /\ Threshold * more \in Nat
      BY <2>1, <3>3, <3>5
    <3>8. Threshold * made <= all
      BY <3>1, <3>4, <3>6, <3>7
    <3> QED
      BY <3>8 DEF made, all
  <2>3. ASSUME NEW k \in Key \ inherited PROVE Threshold * paid[k] <= verified[k]
    <3> DEFINE sum == SumFunction(Counted(payee, due, k))
    <3>1. sum \in Nat
      BY SumsAreNat
    <3>2. /\ Threshold * Payments(k) + sum <= verified[k]
          /\ paid[k] \in Nat /\ verified[k] \in Nat
          /\ Payments(k) = paid[k] \/ Payments(k) = paid[k] + 1
      BY DEF EarnedInv, OwnEarned, HistoryInv, Payments
    <3> HIDE DEF sum
    <3>3. /\ Threshold * (paid[k] + 1) = Threshold * paid[k] + Threshold
          /\ Threshold * paid[k] \in Nat
      BY <2>1, <3>2
    <3> QED
      BY <2>1, <3>1, <3>2, <3>3
  <2> QED
    BY <2>2, <2>3 DEF PaidForServed
<1> QED
  BY <1>1, <1>2, RepInit, RepStep, PayStep, HistoryStep, EarnedStep, PTL DEF Spec
=============================================================================
