----------------------------- MODULE MCSession -----------------------------
(* A small instance of Session for TLC.  Beside the sessions of a client,  *)
(* one profile being looked up is as good as several: what becomes of the  *)
(* cache then, with all versions and lookups, is the matter of behaviours  *)
(* of their own.                                                           *)
EXTENDS Session

VARIABLE part   \* whose steps are taken

MCInit == SessionInit /\ part \in {"session", "profiles"}

OneLookup == checks' \in {<< >>} \cup {<<c>> : c \in [v : {1}, read : {0, 1}, behind : {FALSE}]}

MCNext ==
  /\ part' = part
  /\ \/ part = "session" /\ SessionNext /\ OneLookup
     \/ part = "profiles" /\ ProfileNext /\ UNCHANGED <<vars, cached, feedVars>>

MCSpec == MCInit /\ [][MCNext]_<<sessionVars, part>> /\ SessionFairness
=============================================================================
