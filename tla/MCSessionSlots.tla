--------------------------- MODULE MCSessionSlots ---------------------------
(* Instances of SessionSlots for TLC. *)
EXTENDS SessionSlots
=============================================================================
