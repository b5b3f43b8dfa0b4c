-------------------------- MODULE MCArrayAssembly --------------------------
(* An instance of ArrayAssembly for TLC. *)
EXTENDS ArrayAssembly, TLC

CONSTANTS d1, d2, d3

\* A disk without room for a chunk, and two of different sizes.
ThreeDisks == {d1, d2, d3}
Sizes == (d1 :> 4) @@ (d2 :> 6) @@ (d3 :> 0)
=============================================================================
