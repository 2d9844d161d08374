------------------------------ MODULE ByteQueue ------------------------------
(***************************************************************************)
(* What the buffers of a TCP client promise to the code around them: a     *)
(* bounded queue of bytes that is written at its end, read as a whole and  *)
(* shortened from its front.  CircularBuffer implements it.                *)
(***************************************************************************)
EXTENDS Integers, Sequences

CONSTANTS Bytes, Capacity

VARIABLE bytes

\* Bytes are put behind the others.
Write ==
  /\ bytes' \in Seq(Bytes)
  /\ Len(bytes') \in Len(bytes) .. Capacity
  /\ SubSeq(bytes', 1, Len(bytes)) = bytes

\* A part, or with n the length all of it, is dropped.
Shift == \E n \in 0 .. Len(bytes) : bytes' = SubSeq(bytes, n + 1, Len(bytes))

ByteQueueSpec == bytes = << >> /\ [][Write \/ Shift]_bytes
=============================================================================
