------------------------------ MODULE RingBuffer ------------------------------
(***************************************************************************)
(* xthreadbus::ringbuffer (include/trz/pattern/bus/ringbuffer.hpp): a ring *)
(* of MaxSize + 1 slots with which one thread hands elements to another.   *)
(* The publishing thread alone stores write_index, the reading thread      *)
(* alone stores read_index; each loads the index of the other, uses slots  *)
(* on the strength of what it saw, and then stores its own.                *)
(*                                                                         *)
(* A call is a step that loads the indices and decides, one step per slot  *)
(* copied, and a step that stores the index.  Between any two of these the *)
(* other thread may do anything.  The stores release what the loads        *)
(* acquire, so the slots are as the other thread left them.                *)
(***************************************************************************)
EXTENDS Integers, Sequences

CONSTANTS
  Data,     \* what may be enqueued
  MaxSize,  \* _MaxSize: how many elements the ring is meant to hold
  MaxInput  \* bound: longest input of one call of enqueue

ASSUME SizeAssumption == MaxSize \in Nat \ {0} /\ MaxInput \in Nat

max_size == MaxSize + 1
Slots    == 0 .. MaxSize
Inputs   == UNION {[1 .. k -> Data] : k \in 1 .. MaxInput}

VARIABLES
  write_index, read_index,
  array_,   \* the slots; a slot never written holds anything
  items,    \* input of the enqueue under way, << >> between two calls
  written,  \* how many of items are in their slots
  wanted,   \* how many elements the dequeue under way returns, 0 between calls
  output,   \* those already in the output buffer
  result    \* what the last dequeue returned

indices  == <<write_index, read_index>>
producer == <<items, written>>
consumer == <<wanted, output, result>>
ringVars == <<indices, array_, producer, consumer>>

RingInit ==
  /\ write_index = 0 /\ read_index = 0
  /\ array_ \in [Slots -> Data]
  /\ items = << >> /\ written = 0
  /\ wanted = 0 /\ output = << >> /\ result = << >>

-----------------------------------------------------------------------------

next_index(arg) == IF arg + 1 >= max_size THEN arg + 1 - max_size ELSE arg + 1

\* Mutant of read_available: an empty ring is taken for a full one.
read_available_full(w, r) == IF w > r THEN w - r ELSE w + max_size - r

read_available(w, r) == IF w >= r THEN w - r ELSE w + max_size - r

\* The unsigned difference r - w - 1 may pass below zero; adding max_size takes
\* it back, modulo 2^64.
write_available(w, r) == IF w >= r THEN r - w - 1 + max_size ELSE r - w - 1

\* Mutant of Wrapped: an index may be left one past the end.
WrappedLate(index, i) == IF index + i > max_size THEN index + i - max_size ELSE index + i

\* Slot number i of a copy that begins at index, in one or in two sections, and
\* the new index when i slots are done.
Wrapped(index, i) == IF index + i >= max_size THEN index + i - max_size ELSE index + i

-----------------------------------------------------------------------------
(* The publishing thread.                                                  *)

StartEnqueue(s) ==
  /\ items' = s
  /\ UNCHANGED <<indices, array_, written, consumer>>

\* enqueue(T const &)
EnqueueOne(t) ==
  /\ items = << >>
  /\ next_index(write_index) # read_index
  /\ StartEnqueue(<<t>>)

\* enqueue<true>: all of s or nothing
EnqueueAll(s) ==
  /\ items = << >>
  /\ s # << >>
  /\ write_available(write_index, read_index) >= Len(s)
  /\ StartEnqueue(s)

\* enqueue<false>: as much of s as there is room for
EnqueueSome(s) ==
  /\ items = << >>
  /\ \E k \in 1 .. Len(s) :
       /\ k <= write_available(write_index, read_index)
       /\ k = Len(s) \/ k = write_available(write_index, read_index)
       /\ StartEnqueue(SubSeq(s, 1, k))

\* the copy-construction, or one element of memcpy
EnqueueCopy ==
  /\ written < Len(items)
  /\ array_' = [array_ EXCEPT ![Wrapped(write_index, written)] = items[written + 1]]
  /\ written' = written + 1
  /\ UNCHANGED <<indices, items, consumer>>

\* Mutant of EnqueueEnd: the index is stored while the last slot is to be written.
EnqueueEndEarly ==
  /\ items # << >> /\ written + 1 >= Len(items)
  /\ write_index' = Wrapped(write_index, Len(items))
  /\ items' = << >> /\ written' = 0
  /\ UNCHANGED <<read_index, array_, consumer>>

\* write_index_.store
EnqueueEnd ==
  /\ items # << >> /\ written = Len(items)
  /\ write_index' = Wrapped(write_index, Len(items))
  /\ items' = << >> /\ written' = 0
  /\ UNCHANGED <<read_index, array_, consumer>>

-----------------------------------------------------------------------------
(* The reading thread.                                                     *)

\* Mutant of Dequeue: the last element is taken for an empty ring.
DequeueButLast(count) ==
  LET avail == read_available(write_index, read_index) IN
  /\ wanted = 0
  /\ avail > 1 /\ count > 0
  /\ wanted' = IF count < avail THEN count ELSE avail
  /\ UNCHANGED <<indices, array_, producer, output, result>>

\* dequeue(T *, count): at most count elements
Dequeue(count) ==
  LET avail == read_available(write_index, read_index) IN
  /\ wanted = 0
  /\ avail > 0 /\ count > 0
  /\ wanted' = IF count < avail THEN count ELSE avail
  /\ UNCHANGED <<indices, array_, producer, output, result>>

DequeueCopy ==
  /\ Len(output) < wanted
  /\ output' = Append(output, array_[Wrapped(read_index, Len(output))])
  /\ UNCHANGED <<indices, array_, producer, wanted, result>>

\* read_index_.store
DequeueEnd ==
  /\ wanted > 0 /\ Len(output) = wanted
  /\ read_index' = Wrapped(read_index, wanted)
  /\ wanted' = 0 /\ output' = << >> /\ result' = output
  /\ UNCHANGED <<write_index, array_, producer>>

-----------------------------------------------------------------------------

RingNext ==
  \/ \E t \in Data : EnqueueOne(t)
  \/ \E s \in Inputs : EnqueueAll(s)
  \/ \E s \in Inputs : EnqueueSome(s)
  \/ EnqueueCopy
  \/ EnqueueEnd
  \/ \E count \in 1 .. MaxSize : Dequeue(count)
  \/ DequeueCopy
  \/ DequeueEnd

RingSpec == RingInit /\ [][RingNext]_ringVars

-----------------------------------------------------------------------------
(* Properties.                                                             *)

RingTypeOK ==
  /\ write_index \in Slots /\ read_index \in Slots
  /\ array_ \in [Slots -> Data]
  /\ items \in Seq(Data) /\ written \in 0 .. Len(items)
  /\ wanted \in 0 .. MaxSize /\ output \in Seq(Data) /\ Len(output) <= wanted
  /\ result \in Seq(Data)

Size == read_available(write_index, read_index)

\* No data race: the slots an enqueue under way may write and the slots a dequeue
\* under way may read are different ones, whatever became of the indices since
\* each of the two calls loaded them.
NoRace ==
  \A i \in 0 .. Len(items) - 1 : \A j \in 0 .. wanted - 1 :
    Wrapped(write_index, i) # Wrapped(read_index, j)

\* What the threads know of one another is out of date but safe: an enqueue under
\* way has its room and a dequeue under way its elements, and both have copied
\* what they should.
RingInv ==
  /\ RingTypeOK
  /\ Len(items) <= write_available(write_index, read_index)
  /\ wanted <= Size
  /\ \A i \in 0 .. written - 1 : array_[Wrapped(write_index, i)] = items[i + 1]
  /\ \A i \in 0 .. Len(output) - 1 : output[i + 1] = array_[Wrapped(read_index, i)]

\* The elements in the ring, oldest first.
Content == [i \in 1 .. Size |-> array_[Wrapped(read_index, i - 1)]]

Queue == INSTANCE BusQueue WITH
  Capacity <- MaxSize, input <- items, queue <- Content, taken <- result

\* The ring buffer implements the queue.
ImplementsQueue == Queue!QueueSpec
=============================================================================
