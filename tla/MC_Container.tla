---------------------------- MODULE MC_Container ----------------------------
(* Small instances of Container. *)
EXTENDS Container, TLC

CONSTANTS b1, m1, m2

\* An image of one layer, and an index over that image.
ImageAndIndex == (m1 :> {b1} @@ m2 :> {m1})

Symmetry == Permutations(Procs)
=============================================================================
