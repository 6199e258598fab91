------------------------------- MODULE MCEnet -------------------------------
(* Enet on rings of a few descriptors. *)
EXTENDS Enet
=============================================================================
