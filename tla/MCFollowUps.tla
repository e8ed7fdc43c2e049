---------------------------- MODULE MCFollowUps -----------------------------
(***************************************************************************)
(* A small instance of FollowUps: two workers and the follow-ups of one    *)
(* conversation.                                                           *)
(***************************************************************************)
EXTENDS FollowUps, TLC

CONSTANTS c1

OneConversation == [t \in Tasks |-> c1]
Symmetry == Permutations(Workers) \cup Permutations(Tasks)
=============================================================================
