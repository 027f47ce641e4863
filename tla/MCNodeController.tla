-------------------------- MODULE MCNodeController --------------------------
(* NodeController for TLC.                                                 *)
EXTENDS NodeControllerInv, TLC

CONSTANTS n1, n2, i1, i2

\* Different names have different IDs, or the IDs collide.
MCDistinct == n1 :> i1 @@ n2 :> i2
MCSingle == n1 :> i1
MCCollision == n1 :> i1 @@ n2 :> i1

\* The second volume group is smaller, the first is not a multiple of the unit.
MCVGSize == <<5, 2>>

Symmetry == Permutations(Workers)
=============================================================================
