---------------------------- MODULE ProfileCache ----------------------------
(***************************************************************************)
(* redis/profile-cache.ts: the profile of one author as Redis caches it.   *)
(* The upstreams of all clients bring versions of it, in any order, and    *)
(* each is looked up, compared and written in commands of its own.  Redis  *)
(* executes the commands of the relay and answers them in the order they   *)
(* are sent; a command therefore takes effect as it is sent, and what is   *)
(* kept is the lookups still to be answered.  The EXPIRE that follows an   *)
(* HSET is taken with it.                                                  *)
(***************************************************************************)
EXTENDS Naturals, Sequences

CONSTANTS Version,     \* created_at of the versions, none is 0
          MaxLookups   \* bounds the calls of cacheProfile under way

ASSUME ProfileAssumption == Version \subseteq Nat \ {0} /\ MaxLookups \in Nat

VARIABLES stored,   \* created_at of the cached version, 0 if there is none
          checks    \* the HGETs to be answered, in their order

profileVars == <<stored, checks>>

(* The HGET of the call for version v and what it read; behind, a history, *)
(* says that a newer version was being looked up as it was sent.           *)
Check == [v : Version, read : Version \cup {0}, behind : BOOLEAN]

ProfileTypeOK ==
  stored \in Version \cup {0} /\ checks \in Seq(Check) /\ Len(checks) <= MaxLookups

ProfileInit == stored = 0 /\ checks = << >>

(* An upstream brings an EVENT of kind 0: cacheProfile.                    *)
CacheProfile(v) ==
  /\ Len(checks) < MaxLookups
  /\ checks' = Append(checks, [v |-> v, read |-> stored,
                               behind |-> \E i \in DOMAIN checks : checks[i].v > v])
  /\ stored' = stored

(* Mutant: only the very version is left alone.                            *)
UpToDateIfSame(c) == c.read = c.v

UpToDate(c) == c.read >= c.v

(* Redis answers: the version is written unless one as new was read, or    *)
(* its content does not parse.                                             *)
CheckAnswered ==
  /\ checks # << >>
  /\ checks' = Tail(checks)
  /\ stored' \in {stored} \cup {v \in {Head(checks).v} : ~ UpToDate(Head(checks))}

(* The connection to Redis breaks: the calls under way end.                *)
RedisFails ==
  /\ checks # << >>
  /\ checks' = << >> /\ stored' = stored

ProfileExpires == stored # 0 /\ stored' = 0 /\ checks' = checks

RedisNext ==
  \/ CheckAnswered \/ RedisFails \/ ProfileExpires

(* The cache alone: any version may arrive at any time.                    *)
ProfileNext == RedisNext \/ \E v \in Version : CacheProfile(v)

ProfileSpec == ProfileInit /\ [][ProfileNext]_profileVars

-----------------------------------------------------------------------------
(* Properties.                                                             *)

(* "Só atualiza se o evento é mais recente que o cacheado" (line 34): what *)
(* is cached never gives way to an older version.                          *)
OnlyMoreRecent == [][~ (stored' \in 1..stored - 1)]_profileVars

(* A cached profile gives way to an older version only if that was looked  *)
(* up while the newer one still was: nothing else that happens between the *)
(* commands of a call lets it write what is out of date.                   *)
NewestWins ==
  [][stored' \in 1..stored - 1 => checks # << >> /\ Head(checks).behind]_profileVars
=============================================================================
