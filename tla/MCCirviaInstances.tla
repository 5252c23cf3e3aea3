-------------------------- MODULE MCCirviaInstances --------------------------
(* Instances of CirviaInstances for TLC. *)
EXTENDS CirviaInstances, TLC

MCOneUse == {1}
MCFewUses == {1, NoLimit}
MCRoomForTwo == {2, NoLimit}
MCNoLimit == {NoLimit}
Symmetry == Permutations(Users)
FullSymmetry == Permutations(Users) \cup Permutations(Instances)
=============================================================================
