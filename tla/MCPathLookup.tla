---------------------------- MODULE MCPathLookup ----------------------------
(* Instances of PathLookup for TLC. *)
EXTENDS PathLookup

\* Two names of different length over one letter.
MCNames == {<<"a">>, <<"a", "a">>}
=============================================================================
