--------------------------- MODULE MCFeedThreads ---------------------------
(* Symmetry of FeedThreads for TLC. *)
EXTENDS FeedThreads, TLC

Symmetry == Permutations(Users) \cup Permutations(Posts) \cup Permutations(Comments)
=============================================================================
