--------------------------- MODULE MCRecordReader ---------------------------
(* Instances of RecordReader for TLC. *)
EXTENDS RecordReader
=============================================================================
