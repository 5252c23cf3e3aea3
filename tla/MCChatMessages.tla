---------------------------- MODULE MCChatMessages ----------------------------
(* Instances of ChatMessages for TLC. *)
EXTENDS ChatMessages, TLC

Symmetry == Permutations(Processes) \cup Permutations(Users)
=============================================================================
