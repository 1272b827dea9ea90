-------------------------------- MODULE Grid --------------------------------
(***************************************************************************)
(* The grid of slice sizes (grid.py).  A grid is a set of positive sizes,  *)
(* each dividing every larger one; the slice of size S that holds code     *)
(* point o starts at the multiple of S at or below o.                      *)
(*                                                                         *)
(* The validated tuple GridSpec.sizes is strictly ascending, so it carries *)
(* the same information as the set of its members.                         *)
(***************************************************************************)
EXTENDS Integers, FiniteSets

CONSTANT Sizes      \* the members of GridSpec.sizes

(* What GridSpec.__post_init__ accepts.  The code compares neighbours; the *)
(* chain of neighbours makes every size divide every larger one.           *)
ASSUME GridAssumption ==
    /\ Sizes \subseteq Nat \ {0}
    /\ IsFiniteSet(Sizes)
    /\ Sizes # {}
    /\ \A s, l \in Sizes : s < l => l % s = 0

-----------------------------------------------------------------------------
ParentOffset(o, size) == (o \div size) * size

LevelsAbove(size) == {s \in Sizes : s > size}

LevelsBelow(size) == {s \in Sizes : s < size}

(* What build asks of every hit's offset.                                  *)
OnGrid(off, size) == off % size = 0
=============================================================================
