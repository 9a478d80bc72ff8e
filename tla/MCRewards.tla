----------------------------- MODULE MCRewards -----------------------------
(* A small instance of Rewards for TLC.  The reputations and the payments  *)
(* follow the same reports and do not read each other: in the behaviours   *)
(* of the reputations no address is given, in those of the payments states *)
(* that differ in nothing the payments read count as one.                  *)
EXTENDS Rewards, TLC

CONSTANT MaxPaid   \* bounds the events credited where payments are made

VARIABLE part   \* whose behaviour it is

MCInit == Init /\ part \in {"reputations", "payments"}

MCNext ==
  /\ part' = part
  /\ Next
  /\ part = "reputations" => payee' = [c \in Client |-> NoKey]
  /\ part = "payments" => \A c \in Client : served'[c] <= MaxPaid

MCSpec == MCInit /\ [][MCNext]_<<vars, part>>

View == IF part = "reputations" THEN <<part, vars>>
        ELSE <<part, session, payee, served, due, money, credit>>

Symmetry == Permutations(Client) \cup Permutations(Key) \cup Permutations(Slot)
=============================================================================
