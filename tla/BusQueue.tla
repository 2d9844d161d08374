------------------------------- MODULE BusQueue -------------------------------
(***************************************************************************)
(* What the ring buffer of the cross-thread bus promises: a bounded queue  *)
(* between one publishing and one reading thread, in which a whole input   *)
(* is put at once and the oldest elements are taken.  RingBuffer           *)
(* implements it.                                                          *)
(***************************************************************************)
EXTENDS Integers, Sequences

CONSTANTS Data, Capacity

VARIABLES
  input,  \* what the publisher is putting, << >> between two calls
  queue,  \* elements put and not taken, oldest first
  taken   \* elements that the last call of the reader took

queueVars == <<input, queue, taken>>

QueueInit == input = << >> /\ queue = << >> /\ taken = << >>

\* The publisher begins to put one or more elements, for which there is room ...
Call ==
  /\ input = << >>
  /\ input' \in Seq(Data) /\ input' # << >>
  /\ Len(queue) + Len(input') <= Capacity
  /\ UNCHANGED <<queue, taken>>

\* ... and all of them join the queue at once, behind the others.
Put ==
  /\ input # << >>
  /\ queue' = queue \o input
  /\ input' = << >>
  /\ UNCHANGED taken

\* The reader has the k oldest elements.
Take ==
  \E k \in 1 .. Len(queue) :
    /\ taken' = SubSeq(queue, 1, k)
    /\ queue' = SubSeq(queue, k + 1, Len(queue))
    /\ UNCHANGED input

QueueNext == Call \/ Put \/ Take

QueueSpec == QueueInit /\ [][QueueNext]_queueVars
=============================================================================
