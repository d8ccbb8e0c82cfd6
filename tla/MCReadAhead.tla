---------------------------- MODULE MCReadAhead ----------------------------
(* Instances of ReadAhead, and of the WriteBuffer below it, for TLC. *)
EXTENDS ReadAhead

\* A file of zeros keeps the initial states few.
ZeroFile == ReadInit /\ file = [i \in Offsets |-> 0]
ZeroSpec == ZeroFile /\ [][ReadNext]_ioVars
MCOffsets == 0 .. 4
MCWrites == {<<>>, <<1>>, <<2, 1, 2>>}
=============================================================================
