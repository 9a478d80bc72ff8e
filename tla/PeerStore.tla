----------------------------- MODULE PeerStore -----------------------------
(***************************************************************************)
(* The Redis keys the relay keeps about its peers, and the commands of     *)
(* redis/client.ts that write them: one hash per peer (nexus:peer:<id>)    *)
(* and the three index sets peers:all, peers:casual and peers:super.       *)
(*                                                                         *)
(* A hash is abstracted to what the code's decisions depend on: its        *)
(* "status" field, whether it is full (written by setPeer with             *)
(* connectedAt, bandwidth and storage) or was created by a lone            *)
(* HSET status, and whether a time to live is set on the key.              *)
(***************************************************************************)
EXTENDS Clients

VARIABLES hash, sets

storeVars == <<hash, sets>>

Status  == {"casual", "super"}
SetName == {"all", "casual", "super"}
NoHash  == [status |-> "none", full |-> FALSE, ttl |-> FALSE]

(* The hashes have one of the two statuses or are missing.                 *)
StoreTypeOK ==
  /\ hash \in [Client -> [status : Status \cup {"none"},
                          full : BOOLEAN, ttl : BOOLEAN]]
  /\ sets \in [SetName -> SUBSET Client]

StoreInit ==
  /\ hash = [c \in Client |-> NoHash]
  /\ sets = [s \in SetName |-> {}]

Exists(c) == hash[c].status # "none"

(* setPeer, first half: HSET of every field. It keeps the TTL of a key     *)
(* that exists and gives none to a key it creates.                         *)
HSetPeer(c) ==
  /\ hash' = [hash EXCEPT ![c] = [status |-> "casual", full |-> TRUE, ttl |-> @.ttl]]
  /\ UNCHANGED sets

(* Mutant: an EXPIRE that only renews a TTL the key already has (XX).      *)
ExpireKeyXX(c) ==
  /\ hash' = [hash EXCEPT ![c].ttl = Exists(c) /\ hash[c].ttl]
  /\ UNCHANGED sets

(* EXPIRE, in setPeer and in refreshPeerTtl: no effect on a missing key.   *)
ExpireKey(c) ==
  /\ hash' = [hash EXCEPT ![c].ttl = Exists(c)]
  /\ UNCHANGED sets

(* Mutant: the name of the set is written in place of the status.          *)
HSetStatusWrongName(c, s) ==
  /\ hash' = [hash EXCEPT ![c].status = "all"]
  /\ UNCHANGED sets

(* setPeerStatus: HSET of one field, which creates a key that is missing.  *)
HSetStatus(c, s) ==
  /\ hash' = [hash EXCEPT ![c].status = s]
  /\ UNCHANGED sets

Del(c) ==
  /\ hash' = [hash EXCEPT ![c] = NoHash]
  /\ UNCHANGED sets

SAdd(s, c) ==
  /\ sets' = [sets EXCEPT ![s] = @ \cup {c}]
  /\ UNCHANGED hash

SRem(s, c) ==
  /\ sets' = [sets EXCEPT ![s] = @ \ {c}]
  /\ UNCHANGED hash

(* Redis removes a key whose TTL has run out.                              *)
KeyExpires(c) ==
  /\ hash[c].ttl
  /\ Del(c)

(* cleanupStaleSets, run before the server starts to listen: a member of a *)
(* set whose hash is gone leaves the set.                                  *)
CleanupStaleSets ==
  /\ sets' = [s \in SetName |-> {c \in sets[s] : Exists(c)}]
  /\ UNCHANGED hash
=============================================================================
