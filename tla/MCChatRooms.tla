------------------------------ MODULE MCChatRooms ------------------------------
(* Instances of ChatRooms for TLC. *)
EXTENDS ChatRooms, TLC

Symmetry == Permutations(Users) \cup Permutations(Sockets) \cup Permutations(Calls)
=============================================================================
