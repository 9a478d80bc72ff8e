------------------------------ MODULE Rewards ------------------------------
(***************************************************************************)
(* What a peer earns by serving events: onStats and onHeartbeat of         *)
(* signaling/handler.ts, the reputations of peers/classifier.ts and the    *)
(* Lightning payments of payments.ts.                                      *)
(*                                                                         *)
(* A reputation counts half points, since the decay is half a point and    *)
(* everything else is whole.  Redis executes the commands of the relay in  *)
(* the order they are sent, so stored is the reputation a key has once all *)
(* SETs sent so far are executed: a GET reads it as it is sent, although   *)
(* its answer, kept in read, comes later.                                  *)
(* PeerRegistry has the registrations of one client that overlap; here     *)
(* they follow each other.                                                 *)
(*                                                                         *)
(* The constants scale those of the code, which stand in brackets.         *)
(* Payments are enabled (without LNBits nothing is ever pending).          *)
(***************************************************************************)
EXTENDS Integers, FiniteSets, FiniteSetsExt, Functions

CONSTANTS Client,       \* the connection ids
          Failing,      \* those whose Redis commands may fail
          Key, NoKey,   \* the public keys of registered peers, none
          Payable,      \* the keys that may come with a Lightning address
          Base, Top,    \* half points: baseline (70), maximum (100)
          MaxBoost,     \* half points a report adds at most (5)
          ServeBonus,   \* half points for every ServeEvery events (2)
          ServeEvery,   \* (5)
          MaxVerified,  \* events a report is credited with at most
                        \* (100 if verified by id, 19 if not)
          Threshold,    \* PAYMENT_THRESHOLD (100)
          Slot,         \* bounds the calls of payPeer running at a time
          MaxServed     \* bounds the events credited to a connection

NoRep == -1

ASSUME RewardsAssumption ==
  /\ IsFiniteSet(Client) /\ IsFiniteSet(Key)
  /\ NoKey \notin Key /\ Payable \subseteq Key
  /\ Base \in Nat /\ Top \in Nat /\ Base % 2 = 0 /\ Base < Top
  /\ MaxBoost \in Nat /\ ServeBonus \in Nat /\ ServeEvery \in Nat \ {0}
  /\ MaxVerified \in Nat /\ Threshold \in Nat \ {0} /\ MaxServed \in Nat

VARIABLES session,   \* what the relay knows of the connection
          pk,        \* peerPublicKeys
          payee,     \* peerIdentity: the key, if it came with an address
          read,      \* the reputation a GET in flight has read
          rep,       \* peerReputation
          served,    \* peerEventsServed
          due,       \* eventCountSinceLastPayment
          stored,    \* nexus:reputation:<key> in Redis
          call,      \* the calls of payPeer that run
          pending,   \* pendingPayments
          verified,  \* history: the events credited to each payee
          paid,      \* history: the payments LNBits made to each key
          inherited, \* history: keys registered by a connection that had
                     \* a count left of another
          raced,     \* history: clients whose key another connection used,
                     \* or whose reputation changed while it was loaded
          unsaved    \* history: clients whose last SET or GET failed, or
                     \* that registered again without their key

memory == <<pk, payee, read, rep, served, due>>
saved  == <<stored, unsaved>>
money  == <<call, pending, paid>>
credit == <<verified, inherited>>
vars   == <<session, memory, saved, money, credit, raced>>

Reputation == {NoRep} \cup Nat
NoCall     == [stage |-> "none", key |-> NoKey]
Stage      == {"resolve", "invoice", "pay"}

(* Every map has its type; a call of payPeer is for a key.                 *)
TypeOK ==
  /\ session \in [Client -> {"new", "loading", "ready", "lapsed", "gone"}]
  /\ pk \in [Client -> Key \cup {NoKey}] /\ payee \in [Client -> Payable \cup {NoKey}]
  /\ read \in [Client -> Reputation] /\ rep \in [Client -> Reputation]
  /\ served \in [Client -> Nat] /\ due \in [Client -> 0..Threshold - 1]
  /\ stored \in [Key -> Reputation]
  /\ call \in [Slot -> {NoCall} \cup [stage : Stage, key : Payable]]
  /\ pending \subseteq Payable
  /\ verified \in [Key -> Nat] /\ paid \in [Key -> Nat]
  /\ inherited \subseteq Key /\ raced \subseteq Client /\ unsaved \subseteq Client

Init ==
  /\ session = [c \in Client |-> "new"]
  /\ pk = [c \in Client |-> NoKey] /\ payee = [c \in Client |-> NoKey]
  /\ read = [c \in Client |-> NoRep] /\ rep = [c \in Client |-> NoRep]
  /\ served = [c \in Client |-> 0] /\ due = [c \in Client |-> 0]
  /\ stored = [k \in Key |-> NoRep]
  /\ call = [s \in Slot |-> NoCall] /\ pending = {}
  /\ verified = [k \in Key |-> 0] /\ paid = [k \in Key |-> 0]
  /\ inherited = {} /\ raced = {} /\ unsaved = {}

-----------------------------------------------------------------------------
(* classifier.ts.                                                          *)

(* Mutant: a reputation is kept in memory only.                            *)
SaveNothing(c, r) == UNCHANGED saved

(* saveReputationToRedis, for a peer that gave a key.  A SET that fails is *)
(* forgotten.                                                              *)
Save(c, r) ==
  IF pk[c] = NoKey \/ r = NoRep THEN UNCHANGED saved
  ELSE \/ stored' = [stored EXCEPT ![pk[c]] = r] /\ unsaved' = unsaved \ {c}
       \/ c \in Failing /\ UNCHANGED stored /\ unsaved' = unsaved \cup {c}

(* adjustReputation: a peer without one starts from the baseline.          *)
Adjusted(r, delta) ==
  LET next == (IF r = NoRep THEN Base ELSE r) + delta
  IN  Max({0, Min({Top, next})})

(* recordEventServed, n times in a row, then the adjustment of onStats.    *)
(* Bonuses and the boost are all positive, so that one bound at the end is *)
(* the bound after each.                                                   *)
Rewarded(c, n) ==
  LET bonuses == (served[c] + n) \div ServeEvery - served[c] \div ServeEvery
  IN  Adjusted(rep[c], ServeBonus * bonuses + Min({2 * n, MaxBoost}))

Whole(r) == IF r = NoRep THEN NoRep ELSE r - (r % 2)      \* parseInt

-----------------------------------------------------------------------------
(* payments.ts.                                                            *)

(* Mutant: the set of pending keys is not looked at.                       *)
PayPeerAlways(k) ==
  \E s \in Slot : /\ call[s] = NoCall
                  /\ call' = [call EXCEPT ![s] = [stage |-> "resolve", key |-> k]]
                  /\ pending' = pending \cup {k}

(* payPeer up to its first request: one call at a time for a key, and a    *)
(* call that finds another pending is forgotten.                           *)
PayPeer(k) ==
  IF k \in pending THEN UNCHANGED <<call, pending>>
  ELSE \E s \in Slot : /\ call[s] = NoCall
                       /\ call' = [call EXCEPT ![s] = [stage |-> "resolve", key |-> k]]
                       /\ pending' = pending \cup {k}

(* Mutant: the count goes on after the payment it was due for.             *)
TrackVerifiedEventKeepsCount(c, n) ==
  /\ due' = [due EXCEPT ![c] = @ + n]
  /\ IF due[c] + n >= Threshold THEN PayPeer(payee[c]) ELSE UNCHANGED <<call, pending>>

(* trackVerifiedEvent: of several payments due at once the first makes the *)
(* others find it pending.                                                 *)
TrackVerifiedEvent(c, n) ==
  /\ due' = [due EXCEPT ![c] = (@ + n) % Threshold]
  /\ IF due[c] + n >= Threshold THEN PayPeer(payee[c]) ELSE UNCHANGED <<call, pending>>

(* Mutant: a call that ends leaves its key pending.                        *)
EndCallKeepsPending(s) == /\ call' = [call EXCEPT ![s] = NoCall]
                          /\ UNCHANGED pending

(* finally: however the call ends.                                         *)
EndCall(s) == /\ call' = [call EXCEPT ![s] = NoCall]
              /\ pending' = pending \ {call[s].key}

(* The Lightning address resolves to a callback, the callback gives an     *)
(* invoice.                                                                *)
NextStage == [resolve |-> "invoice", invoice |-> "pay"]

CallGoesOn(s) ==
  /\ call[s].stage \in {"resolve", "invoice"}
  /\ call' = [call EXCEPT ![s].stage = NextStage[@]]
  /\ UNCHANGED <<session, memory, saved, pending, paid, credit, raced>>

(* A request is refused, times out or answers with an error.               *)
CallFails(s) ==
  /\ call[s] # NoCall
  /\ EndCall(s)
  /\ UNCHANGED <<session, memory, saved, paid, credit, raced>>

(* Mutant: a payment whose answer does not come in time is tried again.    *)
CallPaysRetries(s) ==
  /\ call[s].stage = "pay"
  /\ paid' = [paid EXCEPT ![call[s].key] = @ + 1]
  /\ EndCall(s) \/ UNCHANGED <<call, pending>>
  /\ UNCHANGED <<session, memory, saved, credit, raced>>

(* LNBits pays; the call ends whether or not its answer comes in time.     *)
CallPays(s) ==
  /\ call[s].stage = "pay"
  /\ paid' = [paid EXCEPT ![call[s].key] = @ + 1]
  /\ EndCall(s)
  /\ UNCHANGED <<session, memory, saved, credit, raced>>

-----------------------------------------------------------------------------
(* The handlers of a client's messages.                                    *)

Registered(c) == session[c] \in {"loading", "ready"}

Sharing(k) == {c \in Client : pk[c] = k /\ session[c] # "gone"}

(* onRegister with the key k, up to the GET of initReputation, which a     *)
(* peer without a key does not need; p is k if an address came with it.    *)
(* Who registers again after a lapse may give another key, or none: then   *)
(* the key of peerPublicKeys stays.  The count towards a payment stays.    *)
Register(c, k, p) ==
  /\ session[c] \in {"new", "lapsed"} /\ p \in {NoKey} \cup ({k} \cap Payable)
  /\ payee' = [payee EXCEPT ![c] = p]
  /\ inherited' = IF p # NoKey /\ p # payee[c] /\ due[c] > 0
                  THEN inherited \cup {p} ELSE inherited
  /\ IF k = NoKey
     THEN /\ session' = [session EXCEPT ![c] = "ready"]
          /\ rep' = [rep EXCEPT ![c] = Base]
          /\ unsaved' = IF pk[c] = NoKey THEN unsaved ELSE unsaved \cup {c}
          /\ UNCHANGED <<pk, read, raced>>
     ELSE /\ session' = [session EXCEPT ![c] = "loading"]
          /\ pk' = [pk EXCEPT ![c] = k]
          /\ read' = [read EXCEPT ![c] = Whole(stored[k])]
          /\ raced' = IF Sharing(k) \ {c} # {} THEN raced \cup Sharing(k) \cup {c} ELSE raced
          /\ UNCHANGED <<rep, unsaved>>
  /\ UNCHANGED <<served, due, stored, money, verified>>

(* The answer overwrites what reports meanwhile made of the reputation; a  *)
(* key met for the first time is saved with the baseline.                  *)
ReputationLoaded(c) ==
  /\ session[c] = "loading"
  /\ session' = [session EXCEPT ![c] = "ready"]
  /\ read' = [read EXCEPT ![c] = NoRep]
  /\ IF read[c] = NoRep
     THEN rep' = [rep EXCEPT ![c] = Base] /\ Save(c, Base)
     ELSE /\ rep' = [rep EXCEPT ![c] = read[c]]
          /\ unsaved' = unsaved \ {c} /\ UNCHANGED stored
  /\ UNCHANGED <<pk, payee, served, due, money, credit, raced>>

(* The GET fails: the client stays registered, with the reputation it had  *)
(* in memory or with none, from which its next report starts.              *)
ReputationFails(c) ==
  /\ c \in Failing /\ session[c] = "loading"
  /\ session' = [session EXCEPT ![c] = "ready"]
  /\ read' = [read EXCEPT ![c] = NoRep]
  /\ unsaved' = unsaved \cup {c}
  /\ UNCHANGED <<pk, payee, rep, served, due, stored, money, credit, raced>>

MarkEarly(c) == raced' = IF session[c] = "loading" THEN raced \cup {c} ELSE raced

(* onStats: n events of the report were verified.                          *)
Stats(c, n) ==
  /\ Registered(c) /\ served[c] + n <= MaxServed
  /\ served' = [served EXCEPT ![c] = @ + n]
  /\ rep' = [rep EXCEPT ![c] = Rewarded(c, n)]
  /\ Save(c, Rewarded(c, n))
  /\ IF payee[c] # NoKey THEN TrackVerifiedEvent(c, n) ELSE UNCHANGED <<due, call, pending>>
  /\ verified' = [k \in Key |-> IF k = payee[c] THEN verified[k] + n ELSE verified[k]]
  /\ MarkEarly(c)
  /\ UNCHANGED <<session, pk, payee, read, paid, inherited>>

(* Mutant: the decay has no lower end.                                     *)
DecayAlways(c) ==
  /\ Registered(c) /\ rep[c] # NoRep /\ served[c] = 0
  /\ rep' = [rep EXCEPT ![c] = Adjusted(@, -1)]
  /\ Save(c, Adjusted(rep[c], -1))
  /\ MarkEarly(c)
  /\ UNCHANGED <<session, pk, payee, read, served, due, money, credit>>

(* checkClassification: who is above the baseline and serves nothing loses *)
(* half a point at each heartbeat.                                         *)
Decay(c) ==
  /\ Registered(c) /\ rep[c] > Base /\ served[c] = 0
  /\ rep' = [rep EXCEPT ![c] = Adjusted(@, -1)]
  /\ Save(c, Adjusted(rep[c], -1))
  /\ MarkEarly(c)
  /\ UNCHANGED <<session, pk, payee, read, served, due, money, credit>>

(* A heartbeat that comes after the hash expired.                          *)
Lapse(c) ==
  /\ session[c] = "ready"
  /\ session' = [session EXCEPT ![c] = "lapsed"]
  /\ UNCHANGED <<memory, saved, money, credit, raced>>

(* Also cleanupPeerStats.                                                  *)
CleanupPeerClassifier(c) ==
  /\ Save(c, rep[c])
  /\ rep' = [rep EXCEPT ![c] = NoRep]
  /\ served' = [served EXCEPT ![c] = 0]
  /\ pk' = [pk EXCEPT ![c] = NoKey]
  /\ payee' = [payee EXCEPT ![c] = NoKey]
  /\ due' = [due EXCEPT ![c] = 0]

(* handleDisconnect: only a registered client is cleaned up, and that not  *)
(* if a command before fails.  The answer to the GET comes before those to *)
(* the commands of the disconnect.                                         *)
Leave(c) ==
  /\ session[c] \in {"new", "ready", "lapsed"}
  /\ session' = [session EXCEPT ![c] = "gone"]
  /\ \/ session[c] = "ready" /\ CleanupPeerClassifier(c)
     \/ /\ session[c] # "ready" \/ c \in Failing
        /\ UNCHANGED <<pk, payee, rep, served, due, saved>>
  /\ UNCHANGED <<read, money, credit, raced>>

Next ==
  \/ \E c \in Client :
       \/ \E k, p \in Key \cup {NoKey} : Register(c, k, p)
       \/ \E n \in 1..MaxVerified : Stats(c, n)
       \/ ReputationLoaded(c) \/ ReputationFails(c)
       \/ Decay(c) \/ Lapse(c) \/ Leave(c)
  \/ \E s \in Slot : CallGoesOn(s) \/ CallFails(s) \/ CallPays(s)

Spec == Init /\ [][Next]_vars

-----------------------------------------------------------------------------
(* Properties.                                                             *)

(* A known reputation is never below the baseline, through bonuses, decay, *)
(* rounding by parseInt and any number of reconnections: classifyPeer      *)
(* never finds one too low to promote or low enough to demote.             *)
ReputationFloor ==
  /\ \A c \in Client : rep[c] # NoRep => rep[c] \in Base..Top
  /\ \A k \in Key : stored[k] # NoRep => stored[k] \in Base..Top

(* A peer that comes back finds the reputation it left with: Redis has the *)
(* value of memory, unless another connection of the same key wrote it, a  *)
(* report or heartbeat changed the reputation while it was being loaded,   *)
(* or the last command for it failed: the next one that succeeds makes the *)
(* two agree again.                                                        *)
MemoryIsStored ==
  \A c \in Client \ (raced \cup unsaved) :
    session[c] = "ready" /\ pk[c] # NoKey => Whole(stored[pk[c]]) = Whole(rep[c])

(* "avoids double payment by race condition" (payments.ts:25): at most one *)
(* call of payPeer for a key is at work, and its key is pending.           *)
OnePaymentAtATime ==
  \A s, t \in Slot : call[s] # NoCall =>
    /\ call[s].key \in pending
    /\ call[t] # NoCall /\ call[t].key = call[s].key => s = t

(* Every payment made has PAYMENT_THRESHOLD credited events of its own,    *)
(* over all connections, changes of key, failed calls and lost answers:    *)
(* events of its own key, unless a connection with a count left of another *)
(* registered that key.                                                    *)
PaidForServed ==
  /\ Threshold * SumFunction(paid) <= SumFunction(verified)
  /\ \A k \in Key \ inherited : Threshold * paid[k] <= verified[k]

(* A key is pending no longer than a call of payPeer for it is at work,    *)
(* however that ends: otherwise no payment due to it would be made again.  *)
PendingAtWork == \A k \in pending : \E s \in Slot : call[s] # NoCall /\ call[s].key = k
=============================================================================
