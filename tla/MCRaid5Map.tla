----------------------------- MODULE MCRaid5Map -----------------------------
(* An instance of Raid5Map for TLC. *)
EXTENDS Raid5Map
=============================================================================
