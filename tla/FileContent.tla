---------------------------- MODULE FileContent ----------------------------
(***************************************************************************)
(* What an application sees of one open file: each write changes the bytes *)
(* it covers, at once, and nothing else changes.  WriteBuffer implements   *)
(* this with a coalescing buffer in front of the server.                   *)
(*                                                                         *)
(* The last write is visible, so that an implementation answers for the    *)
(* write that was made and not for some write that explains the bytes.     *)
(***************************************************************************)
EXTENDS Integers, Sequences

CONSTANTS
  Offsets,   \* byte offsets of the file
  Bytes,     \* byte values
  Writes     \* the byte strings an application writes

VARIABLES
  content,   \* the file's bytes
  count,     \* writes made
  last       \* the last of them: its offset and its bytes

fileVars == <<content, count, last>>

\* f with the bytes of d in it from offset o on.
Put(f, o, d) ==
  [i \in Offsets |-> IF o <= i /\ i < o + Len(d) THEN d[i - o + 1] ELSE f[i]]

FileInit ==
  /\ content \in [Offsets -> Bytes]
  /\ count = 0
  /\ last = <<>>

FileWrite(o, d) ==
  /\ content' = Put(content, o, d)
  /\ count' = count + 1
  /\ last' = <<o, d>>

FileNext == \E o \in Offsets, d \in Writes : FileWrite(o, d)

FileSpec == FileInit /\ [][FileNext]_fileVars
=============================================================================
