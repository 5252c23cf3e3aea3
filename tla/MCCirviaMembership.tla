-------------------------- MODULE MCCirviaMembership --------------------------
(* Instances of CirviaMembership for TLC. *)
EXTENDS CirviaMembership, TLC

CONSTANTS u1, u2, u3

MCUsers == {u1, u2, u3}
MCLimits == {1, 2, NoLimit}
Symmetry == Permutations(Users)
=============================================================================
