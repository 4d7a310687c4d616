------------------------------ MODULE MCBitSet ------------------------------
(* BitSet for TLC: indices at both ends of a byte, in adjacent bytes, and  *)
(* one behind a gap.                                                       *)
EXTENDS BitSet, FiniteSets

CONSTANTS a, b

Boundaries == {0, 7, 8, 15, 24}
=============================================================================
