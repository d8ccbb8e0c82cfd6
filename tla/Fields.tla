------------------------------- MODULE Fields -------------------------------
(* A struct as its fields, one after another. *)

x & y == <<x, y>>
=============================================================================
