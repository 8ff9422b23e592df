------------------------------- MODULE MCChat -------------------------------
(***************************************************************************)
(* TLC instances of Chat.  Requests, sessions and questions are            *)
(* interchangeable.                                                        *)
(***************************************************************************)
EXTENDS Chat, TLC

Symmetry ==
  Permutations(Chats) \cup Permutations(Sessions) \cup Permutations(Questions)
=============================================================================
