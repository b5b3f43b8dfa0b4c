----------------------------- MODULE MCKThread -----------------------------
(* An instance of KThread for TLC: each of the three threads. *)
EXTENDS KThread

AllKinds == {"jmd", "mem", "pdp"}
=============================================================================
