----------------------------- MODULE MCKeepalive -----------------------------
(* Instances of Keepalive for TLC. *)
EXTENDS Keepalive, TLC
=============================================================================
