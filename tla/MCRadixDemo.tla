---------------------------- MODULE MCRadixDemo ----------------------------
(* An instance of RadixDemo for TLC. *)
EXTENDS RadixDemo, TLC
=============================================================================
