---------------------------- MODULE MCTwoBuffers ----------------------------
(* TwoBuffers on a small buffer; blocks are interchangeable.             *)
EXTENDS TwoBuffers, TLC

CONSTANTS b1, b2, b3

Symmetry == Permutations(Blocks)
=============================================================================
