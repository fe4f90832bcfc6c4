---------------------------- MODULE MCProjection ----------------------------
(* Model checking of Projection: three rows in pages of one, two workers. *)
EXTENDS Projection, TLC

Symmetry == Permutations(Workers)
=============================================================================
