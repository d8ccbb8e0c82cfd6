----------------------------- MODULE MCNfsClient -----------------------------
(* Instances of NfsClient for TLC. *)
EXTENDS NfsClient
=============================================================================
