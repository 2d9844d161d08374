--------------------------- MODULE TransportProofs ----------------------------
(***************************************************************************)
(* Proofs about what carries data into a core and out of it, for every     *)
(* capacity and every set of data: the ring buffer and the bus channel on  *)
(* it, the receiver that cuts the stream of a connection into messages and *)
(* the HTTP server's search for requests in one.                           *)
(***************************************************************************)
EXTENDS BusChannel, Receiver, Http, ChainProofs


-----------------------------------------------------------------------------
(* Arithmetic of the indices.                                              *)

\* A wrapped index is an index, and no two slots of a copy are the same.
LEMMA WrappedSlot ==
  ASSUME NEW index \in Slots, NEW i \in 0 .. max_size
  PROVE  /\ Wrapped(index, i) \in Slots
         /\ \A j \in 0 .. MaxSize :
              i <= MaxSize /\ Wrapped(index, i) = Wrapped(index, j) => i = j
BY SizeAssumption DEF Wrapped, Slots, max_size

\* What can be read and what can be written share the ring but for one slot.
LEMMA Available ==
  ASSUME NEW w \in Slots, NEW r \in Slots
  PROVE  /\ read_available(w, r) \in 0 .. MaxSize
         /\ write_available(w, r) = MaxSize - read_available(w, r)
         /\ (next_index(w) # r) <=> (write_available(w, r) >= 1)
BY SizeAssumption DEF read_available, write_available, next_index, Slots, max_size

\* The free slots are not among the ones to be read.
LEMMA Disjoint ==
  ASSUME NEW w \in Slots, NEW r \in Slots, NEW i \in Nat, NEW j \in Nat,
         i < write_available(w, r), j < read_available(w, r)
  PROVE  Wrapped(w, i) # Wrapped(r, j)
BY SizeAssumption DEF read_available, write_available, Wrapped, Slots, max_size

\* Storing write_index makes room for k more to read ...
LEMMA Produced ==
  ASSUME NEW w \in Slots, NEW r \in Slots, NEW k \in Nat, k <= write_available(w, r)
  PROVE  /\ read_available(Wrapped(w, k), r) = read_available(w, r) + k
         /\ \A i \in 0 .. k - 1 : Wrapped(w, i) = Wrapped(r, read_available(w, r) + i)
BY SizeAssumption DEF read_available, write_available, Wrapped, Slots, max_size

\* ... and storing read_index makes k fewer.
LEMMA Consumed ==
  ASSUME NEW w \in Slots, NEW r \in Slots, NEW k \in Nat, k <= read_available(w, r)
  PROVE  /\ read_available(w, Wrapped(r, k)) = read_available(w, r) - k
         /\ \A i \in Nat : i + k < read_available(w, r)
              => Wrapped(Wrapped(r, k), i) = Wrapped(r, i + k)
BY SizeAssumption DEF read_available, Wrapped, Slots, max_size

-----------------------------------------------------------------------------
(* The invariant.                                                          *)

LEMMA InvInit == RingInit => RingInv
BY SizeAssumption, EmptySeq DEF RingInit, RingInv, RingTypeOK, Slots, Size,
   read_available, write_available, max_size

\* The room of an enqueue and the elements of a dequeue never meet.
LEMMA InvNoRace == RingInv => NoRace
<1> SUFFICES ASSUME RingInv, NEW i \in 0 .. Len(items) - 1, NEW j \in 0 .. wanted - 1
             PROVE  Wrapped(write_index, i) # Wrapped(read_index, j)
  BY DEF NoRace
<1>1. /\ i \in Nat /\ i < write_available(write_index, read_index)
      /\ j \in Nat /\ j < read_available(write_index, read_index)
      /\ write_index \in Slots /\ read_index \in Slots
  BY Available, SizeAssumption, LenProperties DEF RingInv, RingTypeOK, Size
<1> QED BY <1>1, Disjoint

\* A call of enqueue has room for what it is going to write.
LEMMA InvEnqueue ==
  ASSUME RingInv, items = << >>, NEW s \in Seq(Data), StartEnqueue(s),
         Len(s) <= write_available(write_index, read_index)
  PROVE  RingInv'
<1>1. written = 0 BY LenProperties, EmptySeq DEF RingInv, RingTypeOK
<1>2. /\ items' = s /\ write_index' = write_index /\ read_index' = read_index /\ array_' = array_
      /\ written' = written /\ wanted' = wanted /\ output' = output /\ result' = result
  BY DEF StartEnqueue, indices, consumer
<1>3. Len(s) \in Nat BY LenProperties
<1>4. RingTypeOK' BY <1>1, <1>2, <1>3 DEF RingInv, RingTypeOK
<1>5. \A i \in 0 .. written' - 1 : array_'[Wrapped(write_index', i)] = items'[i + 1]
  BY <1>1, <1>2
<1> QED BY <1>2, <1>4, <1>5 DEF RingInv, Size

LEMMA InvEnqueueCalls ==
  ASSUME RingInv,
         \/ \E t \in Data : EnqueueOne(t)
         \/ \E s \in Inputs : EnqueueAll(s) \/ EnqueueSome(s)
  PROVE  RingInv'
<1>1. write_index \in Slots /\ read_index \in Slots BY DEF RingInv, RingTypeOK
<1>2. ASSUME NEW t \in Data, EnqueueOne(t) PROVE RingInv'
  <2>1. <<t>> \in Seq(Data) /\ Len(<<t>>) = 1 OBVIOUS
  <2> QED BY <1>1, <1>2, <2>1, Available, InvEnqueue DEF EnqueueOne
<1>3. ASSUME NEW s \in Inputs PROVE s \in Seq(Data)
  BY <1>3, SizeAssumption, SeqDef DEF Inputs
<1>4. ASSUME NEW s \in Inputs, EnqueueAll(s) PROVE RingInv'
  <2>1. write_available(write_index, read_index) \in Int
    BY <1>1, Available, SizeAssumption
  <2> QED BY <1>3, <1>4, <2>1, InvEnqueue, LenProperties DEF EnqueueAll
<1>5. ASSUME NEW s \in Inputs, EnqueueSome(s) PROVE RingInv'
  <2>1. PICK k \in 1 .. Len(s) : /\ k <= write_available(write_index, read_index)
                                 /\ StartEnqueue(SubSeq(s, 1, k))
    BY <1>5 DEF EnqueueSome
  <2>2. SubSeq(s, 1, k) \in Seq(Data) /\ Len(SubSeq(s, 1, k)) = k
    BY <1>3, LenProperties, SubSeqProperties
  <2> QED BY <1>5, <2>1, <2>2, InvEnqueue DEF EnqueueSome
<1> QED BY <1>2, <1>4, <1>5

\* The copy writes no slot that was written or read before in the same calls.
LEMMA InvEnqueueCopy == ASSUME RingInv, EnqueueCopy PROVE RingInv'
<1> USE DEF RingInv, RingTypeOK, EnqueueCopy, indices, consumer, Size
<1>1. /\ written \in Nat /\ Len(items) \in Nat /\ written < Len(items)
      /\ Len(output) \in Nat /\ wanted \in Nat
  BY LenProperties, SizeAssumption
<1>2. Len(items) <= MaxSize BY <1>1, Available, SizeAssumption
<1>3. Wrapped(write_index, written) \in Slots
  BY <1>1, <1>2, WrappedSlot, SizeAssumption DEF max_size
<1>4. items[written + 1] \in Data BY <1>1, ElementOfSeq
<1>5. RingTypeOK' BY <1>1, <1>3, <1>4
<1>6. ASSUME NEW i \in 0 .. written' - 1
      PROVE  array_'[Wrapped(write_index, i)] = items[i + 1]
  <2>1. i \in 0 .. MaxSize /\ i <= written BY <1>1, <1>2, <1>6, SizeAssumption
  <2>2. Wrapped(write_index, i) \in Slots
    BY <2>1, WrappedSlot, SizeAssumption DEF max_size
  <2>3. CASE i = written BY <1>3, <2>3
  <2>4. CASE i < written
    <3>1. Wrapped(write_index, written) # Wrapped(write_index, i)
      BY <1>1, <1>2, <2>1, <2>4, WrappedSlot, SizeAssumption DEF max_size
    <3>2. array_[Wrapped(write_index, i)] = items[i + 1] BY <1>1, <2>1, <2>4
    <3> QED BY <1>3, <2>2, <3>1, <3>2
  <2> QED BY <1>1, <2>1, <2>3, <2>4
<1>7. ASSUME NEW i \in 0 .. Len(output) - 1
      PROVE  output[i + 1] = array_'[Wrapped(read_index, i)]
  <2>1. i \in 0 .. wanted - 1 /\ written \in 0 .. Len(items) - 1 BY <1>1, <1>7
  <2>2. Wrapped(write_index, written) # Wrapped(read_index, i)
    BY <2>1, InvNoRace DEF NoRace
  <2>3. Wrapped(read_index, i) \in Slots
    BY <1>1, <2>1, WrappedSlot, SizeAssumption DEF max_size
  <2> QED BY <2>2, <2>3
<1> QED BY <1>5, <1>6, <1>7

LEMMA InvEnqueueEnd == ASSUME RingInv, EnqueueEnd PROVE RingInv'
<1> USE DEF RingInv, RingTypeOK, EnqueueEnd, consumer
<1>1. Len(items) \in Nat /\ Len(items) <= MaxSize
  BY LenProperties, Available, SizeAssumption
<1>2. write_index' \in Slots BY <1>1, WrappedSlot, SizeAssumption DEF max_size
<1>3. Size' = Size + Len(items) /\ Size \in Nat
  BY <1>1, Produced, Available, SizeAssumption DEF Size
<1>4. 0 <= write_available(write_index', read_index')
  <2>1. write_index' \in Slots /\ read_index' \in Slots BY <1>2
  <2> QED BY ONLY <2>1, Available, SizeAssumption
<1>5. items' \in Seq(Data) /\ Len(items') = 0 BY EmptySeq
<1> QED BY <1>1, <1>2, <1>3, <1>4, <1>5, SizeAssumption

LEMMA InvDequeue ==
  ASSUME RingInv, NEW count \in 1 .. MaxSize, Dequeue(count)
  PROVE  RingInv'
<1> USE DEF RingInv, RingTypeOK, Dequeue, indices, producer
<1>1. Size \in 0 .. MaxSize BY Available DEF Size
<1>2. Len(output) = 0 BY LenProperties
<1>3. wanted' \in 1 .. MaxSize /\ wanted' <= Size BY <1>1, SizeAssumption DEF Size
<1> QED BY <1>1, <1>2, <1>3, SizeAssumption DEF Size

LEMMA InvDequeueCopy == ASSUME RingInv, DequeueCopy PROVE RingInv'
<1> USE DEF RingInv, RingTypeOK, DequeueCopy, indices, producer, Size
<1>1. Len(output) \in Nat /\ wanted \in 0 .. MaxSize BY LenProperties
<1>2. Wrapped(read_index, Len(output)) \in Slots
  BY <1>1, WrappedSlot, SizeAssumption DEF max_size
<1>3. /\ output' \in Seq(Data) /\ Len(output') = Len(output) + 1
      /\ \A i \in 1 .. Len(output) : output'[i] = output[i]
      /\ output'[Len(output) + 1] = array_[Wrapped(read_index, Len(output))]
  BY <1>2, AppendProperties
<1>4. \A i \in 0 .. Len(output') - 1 : output'[i + 1] = array_[Wrapped(read_index, i)]
  BY <1>1, <1>3
<1> QED BY <1>1, <1>3, <1>4

LEMMA InvDequeueEnd == ASSUME RingInv, DequeueEnd PROVE RingInv'
<1> USE DEF RingInv, RingTypeOK, DequeueEnd, producer
<1>1. wanted \in 1 .. MaxSize /\ Size \in 0 .. MaxSize
  BY Available, SizeAssumption DEF Size
<1>2. read_index' \in Slots BY <1>1, WrappedSlot, SizeAssumption DEF max_size
<1>3. Size' = Size - wanted BY <1>1, Consumed, SizeAssumption DEF Size
<1>4. write_available(write_index, read_index)'
        = write_available(write_index, read_index) + wanted
  BY <1>1, <1>2, <1>3, Available, SizeAssumption DEF Size
<1>5. output' \in Seq(Data) /\ Len(output') = 0 BY EmptySeq
<1>6. /\ Len(items) <= write_available(write_index, read_index)'
      /\ wanted' <= Size'
  BY <1>1, <1>3, <1>4, LenProperties, Available, SizeAssumption
<1> QED BY <1>1, <1>2, <1>5, <1>6, SizeAssumption

LEMMA InvNext == RingInv /\ [RingNext]_ringVars => RingInv'
<1> SUFFICES ASSUME RingInv, [RingNext]_ringVars PROVE RingInv'
  OBVIOUS
<1>1. CASE UNCHANGED ringVars
  BY <1>1 DEF ringVars, indices, producer, consumer, RingInv, RingTypeOK, Size
<1> QED BY <1>1, InvEnqueueCalls, InvEnqueueCopy, InvEnqueueEnd, InvDequeue,
           InvDequeueCopy, InvDequeueEnd DEF RingNext

\* The indices, the slots and the calls under way agree, for every capacity.
THEOREM RingInvariant == RingSpec => []RingInv
BY InvInit, InvNext, PTL DEF RingSpec

\* The two threads never use one slot at the same time.
THEOREM RingNoRace == RingSpec => []NoRace
BY RingInvariant, InvNoRace, PTL

-----------------------------------------------------------------------------
(* The ring buffer implements the queue.                                   *)

LEMMA ContentSeq ==
  RingInv => Size \in 0 .. MaxSize /\ Content \in Seq(Data) /\ Len(Content) = Size
<1> SUFFICES ASSUME RingInv
             PROVE  Size \in 0 .. MaxSize /\ Content \in Seq(Data) /\ Len(Content) = Size
  OBVIOUS
<1>1. Size \in 0 .. MaxSize BY Available DEF RingInv, RingTypeOK, Size
<1>2. \A i \in 1 .. Size : array_[Wrapped(read_index, i - 1)] \in Data
  BY <1>1, WrappedSlot, SizeAssumption DEF RingInv, RingTypeOK, max_size
<1> QED BY <1>1, <1>2, SeqDef, LenProperties DEF Content

LEMMA ContentAt ==
  ASSUME NEW k \in 1 .. Size PROVE Content[k] = array_[Wrapped(read_index, k - 1)]
BY DEF Content

LEMMA SameContent ==
  ASSUME RingInv, UNCHANGED indices,
         \A i \in 0 .. Size - 1 :
           array_'[Wrapped(read_index, i)] = array_[Wrapped(read_index, i)]
  PROVE  Content' = Content
<1>1. Size' = Size /\ read_index' = read_index BY DEF Size, indices
<1>2. Size \in Int BY ContentSeq
<1>3. \A i \in 1 .. Size :
        array_'[Wrapped(read_index, i - 1)] = array_[Wrapped(read_index, i - 1)]
  BY <1>2
<1> QED BY <1>1, <1>3 DEF Content

\* Beginning a call of enqueue
LEMMA QueueCall ==
  ASSUME RingInv, items = << >>, NEW s \in Seq(Data), s # << >>, StartEnqueue(s),
         Len(s) <= write_available(write_index, read_index)
  PROVE  Queue!Call
<1>1. Content' = Content BY SameContent DEF StartEnqueue
<1>2. Len(Content) + Len(s) <= MaxSize
  BY ContentSeq, Available, LenProperties, SizeAssumption DEF RingInv, RingTypeOK, Size
<1> QED BY <1>1, <1>2 DEF Queue!Call, StartEnqueue, consumer

\* Copying into free slots changes nothing in the queue.
LEMMA QueueCopy ==
  ASSUME RingInv, EnqueueCopy
  PROVE  UNCHANGED <<items, Content, result>>
<1>1. ASSUME NEW i \in 0 .. Size - 1
      PROVE  array_'[Wrapped(read_index, i)] = array_[Wrapped(read_index, i)]
  <2>1. /\ i \in Nat /\ i < read_available(write_index, read_index) /\ i <= MaxSize
        /\ written \in Nat /\ written < write_available(write_index, read_index)
    BY <1>1, ContentSeq, LenProperties, Available, SizeAssumption
    DEF RingInv, RingTypeOK, EnqueueCopy, Size
  <2>2. Wrapped(write_index, written) # Wrapped(read_index, i)
    BY <2>1, Disjoint DEF RingInv, RingTypeOK
  <2>3. Wrapped(read_index, i) \in Slots
    BY <2>1, WrappedSlot, SizeAssumption DEF RingInv, RingTypeOK, max_size
  <2> QED BY <2>2, <2>3 DEF EnqueueCopy, RingInv, RingTypeOK
<1>2. Content' = Content BY <1>1, SameContent DEF EnqueueCopy
<1> QED BY <1>2 DEF EnqueueCopy, consumer

\* Storing write_index puts the whole input at once.
LEMMA QueuePut == ASSUME RingInv, EnqueueEnd PROVE Queue!Put
<1>1. RingInv' BY InvEnqueueEnd
<1>2. /\ Len(items) \in Nat /\ items \in Seq(Data) /\ written = Len(items)
      /\ array_' = array_ /\ read_index' = read_index
      /\ Len(items) <= write_available(write_index, read_index)
  BY LenProperties DEF RingInv, RingTypeOK, EnqueueEnd
<1>3. Size' = Size + Len(items)
  BY <1>2, Produced DEF EnqueueEnd, RingInv, RingTypeOK, Size
<1>4. /\ Content \o items \in Seq(Data)
      /\ Len(Content \o items) = Size + Len(items)
      /\ \A i \in 1 .. Size : (Content \o items)[i] = Content[i]
      /\ \A i \in 1 .. Len(items) : (Content \o items)[Size + i] = items[i]
  <2>1. /\ Content \in Seq(Data) /\ Len(Content) = Size /\ Size \in Nat
        /\ items \in Seq(Data) /\ Len(items) \in Nat
    BY <1>2, ContentSeq, SizeAssumption
  <2> HIDE DEF Content, Size
  <2>2. /\ Content \o items \in Seq(Data)
        /\ Len(Content \o items) = Len(Content) + Len(items)
        /\ \A i \in 1 .. Len(Content) + Len(items) :
             (Content \o items)[i] = IF i <= Len(Content) THEN Content[i]
                                     ELSE items[i - Len(Content)]
    BY ONLY <2>1, ConcatProperties
  <2>3. ASSUME NEW i \in 1 .. Size PROVE (Content \o items)[i] = Content[i]
    BY ONLY <2>1, <2>2, <2>3
  <2>4. ASSUME NEW i \in 1 .. Len(items) PROVE (Content \o items)[Size + i] = items[i]
    <3>1. /\ Size + i \in 1 .. Len(Content) + Len(items) /\ ~(Size + i <= Len(Content))
          /\ Size + i - Len(Content) = i
      BY ONLY <2>1, <2>4
    <3>2. PICK k \in 1 .. Len(Content) + Len(items) : k = Size + i
      BY <3>1
    <3>3. ~(k <= Len(Content)) /\ k - Len(Content) = i BY ONLY <2>1, <2>4, <3>2
    <3>4. (Content \o items)[k] = items[i] BY ONLY <2>2, <3>2, <3>3
    <3> QED BY ONLY <3>2, <3>4
  <2> QED BY <2>1, <2>2, <2>3, <2>4
<1>a. RingInv' => (Size \in 0 .. MaxSize /\ Content \in Seq(Data) /\ Len(Content) = Size)'
  BY ContentSeq, PTL
<1>5. Content' \in Seq(Data) /\ Len(Content') = Size + Len(items)
  BY <1>1, <1>3, <1>a
<1>6. ASSUME NEW i \in 1 .. Size + Len(items)
      PROVE  Content'[i] = (Content \o items)[i]
  <2>1. Content'[i] = array_[Wrapped(read_index, i - 1)]
    BY <1>2, <1>3 DEF Content
  <2>2. CASE i <= Size
    BY <1>4, <2>1, <2>2, ContentSeq DEF Content
  <2>3. CASE i > Size
    <3>1. /\ i - Size \in 1 .. Len(items) /\ i - Size - 1 \in 0 .. Len(items) - 1
          /\ i - 1 = Size + (i - Size - 1) /\ i = Size + (i - Size)
      <4>1. Size \in Nat BY ContentSeq, SizeAssumption
      <4> QED BY ONLY <1>2, <2>3, <4>1, i \in 1 .. Size + Len(items)
    <3>2. Wrapped(read_index, i - 1) = Wrapped(write_index, i - Size - 1)
      BY <1>2, <3>1, Produced DEF Size, RingInv, RingTypeOK
    <3>3. array_[Wrapped(write_index, i - Size - 1)] = items[i - Size]
      BY <1>2, <3>1 DEF RingInv
    <3> QED BY <1>4, <2>1, <3>1, <3>2, <3>3
  <2> QED BY <2>2, <2>3, ContentSeq
<1>7. Content' = Content \o items
  BY <1>2, <1>4, <1>5, <1>6, SeqEqual
<1> QED BY <1>7 DEF Queue!Put, EnqueueEnd, consumer

\* Storing read_index takes the elements that were copied.
LEMMA QueueTake == ASSUME RingInv, DequeueEnd PROVE Queue!Take
<1>1. RingInv' BY InvDequeueEnd
<1>2. /\ wanted \in 1 .. MaxSize /\ wanted <= Size /\ Len(output) = wanted
      /\ output \in Seq(Data) /\ array_' = array_ /\ result' = output
  BY SizeAssumption DEF RingInv, RingTypeOK, DequeueEnd
<1>3. Size \in 0 .. MaxSize /\ Content \in Seq(Data) /\ Len(Content) = Size
  BY ContentSeq
<1>4. wanted \in 1 .. Len(Content) BY <1>2, <1>3, SizeAssumption
<1>5. result' = SubSeq(Content, 1, wanted)
  <2>1. /\ SubSeq(Content, 1, wanted) \in Seq(Data)
        /\ Len(SubSeq(Content, 1, wanted)) = wanted
        /\ \A i \in 1 .. wanted : SubSeq(Content, 1, wanted)[i] = Content[i]
    BY <1>2, <1>3, SubSeqProperties, SizeAssumption
  <2>2. ASSUME NEW i \in 1 .. wanted PROVE output[i] = Content[i]
    <3>1. i - 1 \in 0 .. Len(output) - 1 /\ i \in 1 .. Size /\ (i - 1) + 1 = i
      BY <1>2, <1>3, SizeAssumption
    <3>2. output[i] = array_[Wrapped(read_index, i - 1)] BY <3>1 DEF RingInv
    <3> QED BY <3>1, <3>2 DEF Content
  <2> QED BY <1>2, <2>1, <2>2, SeqEqual
<1>6. Content' = SubSeq(Content, wanted + 1, Len(Content))
  <2>1. Size' = Size - wanted /\ read_index' = Wrapped(read_index, wanted)
    BY <1>2, Consumed, SizeAssumption DEF DequeueEnd, RingInv, RingTypeOK, Size
  <2>a. RingInv' => (Size \in 0 .. MaxSize /\ Content \in Seq(Data) /\ Len(Content) = Size)'
    BY ContentSeq, PTL
  <2>2. Content' \in Seq(Data) /\ Len(Content') = Size - wanted
    BY <1>1, <2>1, <2>a
  <2>3. /\ SubSeq(Content, wanted + 1, Len(Content)) \in Seq(Data)
        /\ Len(SubSeq(Content, wanted + 1, Len(Content))) = Size - wanted
        /\ \A i \in 1 .. Size - wanted :
             SubSeq(Content, wanted + 1, Len(Content))[i] = Content[wanted + i]
    BY <1>2, <1>3, SubSeqProperties, SizeAssumption
  <2>4. ASSUME NEW i \in 1 .. Size - wanted PROVE Content'[i] = Content[wanted + i]
    <3>1. Content'[i] = array_[Wrapped(Wrapped(read_index, wanted), i - 1)]
      BY <1>2, <2>1 DEF Content
    <3>2. /\ i - 1 \in Nat /\ (i - 1) + wanted < Size
          /\ wanted + i \in 1 .. Size /\ (i - 1) + wanted = wanted + i - 1
      BY <1>2, <1>3, SizeAssumption
    <3>3. PICK k \in 1 .. Size : k = wanted + i BY <3>2
    <3>4. k - 1 = (i - 1) + wanted BY ONLY <1>2, <3>2, <3>3, i \in 1 .. Size - wanted
    <3>5. Wrapped(Wrapped(read_index, wanted), i - 1) = Wrapped(read_index, (i - 1) + wanted)
      BY <1>2, <3>2, Consumed, SizeAssumption DEF RingInv, RingTypeOK, Size
    <3>6. Content[k] = array_[Wrapped(read_index, k - 1)] BY ContentAt
    <3> QED BY ONLY <3>1, <3>3, <3>4, <3>5, <3>6
  <2> QED BY <1>2, <1>3, <2>2, <2>3, <2>4, SeqEqual
<1> QED BY <1>4, <1>5, <1>6 DEF Queue!Take, DequeueEnd, producer

LEMMA QueueInit_ == RingInit => Queue!QueueInit
<1> SUFFICES ASSUME RingInit PROVE Queue!QueueInit
  OBVIOUS
<1>1. Size = 0 BY DEF RingInit, Size, read_available
<1>2. Content \in Seq(Data) /\ Len(Content) = 0 BY <1>1, InvInit, ContentSeq
<1> QED BY <1>2, EmptySeq DEF RingInit, Queue!QueueInit

LEMMA QueueStep == RingInv /\ [RingNext]_ringVars => [Queue!QueueNext]_(Queue!queueVars)
<1> SUFFICES ASSUME RingInv, [RingNext]_ringVars
             PROVE  [Queue!QueueNext]_(Queue!queueVars)
  OBVIOUS
<1> USE DEF Queue!QueueNext, Queue!queueVars
<1>1. write_index \in Slots /\ read_index \in Slots BY DEF RingInv, RingTypeOK
<1>2. ASSUME NEW t \in Data, EnqueueOne(t) PROVE Queue!Call
  <2>1. <<t>> \in Seq(Data) /\ Len(<<t>>) = 1 /\ <<t>> # << >> OBVIOUS
  <2> QED BY <1>1, <1>2, <2>1, Available, QueueCall DEF EnqueueOne
<1>3. ASSUME NEW s \in Inputs PROVE s \in Seq(Data)
  BY <1>3, SizeAssumption, SeqDef DEF Inputs
<1>4. ASSUME NEW s \in Inputs, EnqueueAll(s) PROVE Queue!Call
  <2>1. write_available(write_index, read_index) \in Int
    BY <1>1, Available, SizeAssumption
  <2> QED BY <1>3, <1>4, <2>1, QueueCall, LenProperties DEF EnqueueAll
<1>5. ASSUME NEW s \in Inputs, EnqueueSome(s) PROVE Queue!Call
  <2>1. PICK k \in 1 .. Len(s) : /\ k <= write_available(write_index, read_index)
                                 /\ StartEnqueue(SubSeq(s, 1, k))
    BY <1>5 DEF EnqueueSome
  <2>2. SubSeq(s, 1, k) \in Seq(Data) /\ Len(SubSeq(s, 1, k)) = k
    BY <1>3, LenProperties, SubSeqProperties
  <2>3. SubSeq(s, 1, k) # << >> BY <2>2, EmptySeq
  <2> QED BY <1>5, <2>1, <2>2, <2>3, QueueCall DEF EnqueueSome
<1>6. ASSUME NEW count \in 1 .. MaxSize, Dequeue(count)
      PROVE  UNCHANGED <<items, Content, result>>
  BY <1>6, SameContent DEF Dequeue, producer
<1>7. ASSUME DequeueCopy PROVE UNCHANGED <<items, Content, result>>
  BY <1>7, SameContent DEF DequeueCopy, producer
<1>8. CASE UNCHANGED ringVars
  BY <1>8, SameContent DEF ringVars, producer, consumer
<1> QED BY <1>2, <1>4, <1>5, <1>6, <1>7, <1>8, QueueCopy, QueuePut, QueueTake DEF RingNext

\* The ring buffer is a bounded queue: an input joins it at once and in order, and
\* the reader takes exactly the oldest elements.
THEOREM RingImplementsQueue == RingSpec => ImplementsQueue
<1>1. RingInv /\ [RingNext]_ringVars => [Queue!QueueNext]_(Queue!queueVars)
  BY QueueStep
<1> QED BY <1>1, QueueInit_, RingInvariant, PTL
        DEF RingSpec, ImplementsQueue, Queue!QueueSpec

-----------------------------------------------------------------------------
(* The channel: every datum is in one place.                               *)

\* The datum of publishOne, until the ring has it.
Publishing == IF publishing = "publishOne" THEN items ELSE << >>

\* Four chains have no item twice, and none in common with another.
Apart(a, b, c, d) ==
  /\ IsInjective(a) /\ IsInjective(b) /\ IsInjective(c) /\ IsInjective(d)
  /\ \A x : /\ InChain(a, x) => ~InChain(b, x) /\ ~InChain(c, x) /\ ~InChain(d, x)
            /\ InChain(b, x) => ~InChain(c, x) /\ ~InChain(d, x)
            /\ InChain(c, x) => ~InChain(d, x)

\* What the publisher sends is what is under way in enqueue(), and what the subscriber
\* dequeues it can put away; then the places of the channel share no datum, and have
\* those that are alive.
BusInv ==
  /\ RingInv /\ BusTypeOK
  /\ items # << >> <=> publishing \in {"publishOne", "publishAll"}
  /\ publishing = "publishAll" => items = m_sendBuffer
  /\ wanted > 0 => m_readBuffer = << >>
  /\ Apart(m_sendBuffer, Publishing, Content, m_readBuffer)
  /\ \A x : x \in live <=> \/ InChain(m_sendBuffer, x) \/ InChain(Publishing, x)
                           \/ InChain(Content, x) \/ InChain(m_readBuffer, x)

\* The four chains, one after the other, have each datum once.
LEMMA OnceInAll ==
  ASSUME NEW S, NEW a \in Seq(S), NEW b \in Seq(S), NEW c \in Seq(S), NEW d \in Seq(S),
         Apart(a, b, c, d)
  PROVE  /\ IsInjective(a \o b \o c \o d)
         /\ \A x : InChain(a \o b \o c \o d, x) <=>
                     InChain(a, x) \/ InChain(b, x) \/ InChain(c, x) \/ InChain(d, x)
<1>1. /\ a \o b \in Seq(S) /\ IsInjective(a \o b)
      /\ \A x : InChain(a \o b, x) <=> InChain(a, x) \/ InChain(b, x)
  BY ConcatChain DEF Apart
<1>2. /\ (a \o b) \o c \in Seq(S) /\ IsInjective((a \o b) \o c)
      /\ \A x : InChain((a \o b) \o c, x) <=> InChain(a \o b, x) \/ InChain(c, x)
  BY <1>1, ConcatChain DEF Apart
<1>3. /\ IsInjective(((a \o b) \o c) \o d)
      /\ \A x : InChain(((a \o b) \o c) \o d, x) <=> InChain((a \o b) \o c, x) \/ InChain(d, x)
  <2>1. PICK e \in Seq(S) : e = (a \o b) \o c
    BY <1>2
  <2>2. IsInjective(e) /\ IsInjective(d) /\ \A x : ~(InChain(e, x) /\ InChain(d, x))
    BY <1>1, <1>2, <2>1 DEF Apart
  <2>3. IsInjective(e \o d) /\ \A x : InChain(e \o d, x) <=> InChain(e, x) \/ InChain(d, x)
    BY ONLY <2>2, ConcatChain, d \in Seq(S), e \in Seq(S)
  <2> QED BY <2>1, <2>3
<1> QED BY <1>1, <1>2, <1>3

\* What is taken from the front of a chain and what stays
LEMMA SplitChain ==
  ASSUME NEW S, NEW s \in Seq(S), IsInjective(s), NEW k \in 1 .. Len(s)
  PROVE  LET front == SubSeq(s, 1, k)
             back  == SubSeq(s, k + 1, Len(s))
         IN /\ front \in Seq(S) /\ back \in Seq(S) /\ IsInjective(front) /\ IsInjective(back)
            /\ \A x : InChain(s, x) <=> InChain(front, x) \/ InChain(back, x)
            /\ \A x : ~(InChain(front, x) /\ InChain(back, x))
<1> DEFINE front == SubSeq(s, 1, k)
           back  == SubSeq(s, k + 1, Len(s))
<1>1. Len(s) \in Nat /\ DOMAIN s = 1 .. Len(s) /\ k <= Len(s) /\ k \in Nat
  BY LenProperties
<1>2. /\ front \in Seq(S) /\ Len(front) = k /\ \A i \in 1 .. k : front[i] = s[i]
  BY <1>1, SubSeqProperties
<1>3. /\ back \in Seq(S) /\ Len(back) = Len(s) - k
      /\ \A i \in 1 .. Len(s) - k : back[i] = s[k + i]
  <2>1. k + 1 \in 1 .. Len(s) + 1 /\ Len(s) \in 1 .. Len(s) /\ k + 1 \in Int
    BY <1>1
  <2>2. /\ back \in Seq(S)
        /\ Len(back) = IF k + 1 <= Len(s) THEN Len(s) - (k + 1) + 1 ELSE 0
        /\ \A i \in 1 .. Len(s) - (k + 1) + 1 : back[i] = s[(k + 1) + i - 1]
    BY <1>1, <2>1, SubSeqProperties
  <2>3. \A i \in 1 .. Len(s) - k : back[i] = s[k + i]
    <3> SUFFICES ASSUME NEW i \in 1 .. Len(s) - k PROVE back[i] = s[k + i]
      OBVIOUS
    <3>1. i \in 1 .. Len(s) - (k + 1) + 1 /\ (k + 1) + i - 1 = k + i
      BY <1>1
    <3> HIDE DEF back
    <3> QED BY <2>2, <3>1
  <2>4. Len(back) = Len(s) - k
    <3>1. PICK n \in Nat : n = Len(s) /\ k <= n /\ k \in Nat
      BY <1>1
    <3>2. n - k = IF k + 1 <= n THEN n - (k + 1) + 1 ELSE 0
      BY ONLY <3>1, n \in Nat
    <3> HIDE DEF back
    <3> QED BY <2>2, <3>1, <3>2
  <2> QED BY <2>2, <2>3, <2>4
<1> HIDE DEF front, back
<1>4. DOMAIN front = 1 .. k /\ DOMAIN back = 1 .. Len(s) - k
  BY <1>2, <1>3, LenProperties
<1>5. \A x : InChain(front, x) <=> \E i \in 1 .. k : s[i] = x
  BY <1>2, <1>4 DEF InChain
<1>6. \A x : InChain(back, x) <=> \E i \in k + 1 .. Len(s) : s[i] = x
  <2> SUFFICES ASSUME NEW x PROVE InChain(back, x) <=> \E i \in k + 1 .. Len(s) : s[i] = x
    OBVIOUS
  <2>1. ASSUME InChain(back, x) PROVE \E i \in k + 1 .. Len(s) : s[i] = x
    <3>1. PICK i \in 1 .. Len(s) - k : back[i] = x
      BY <1>4, <2>1 DEF InChain
    <3>2. k + i \in k + 1 .. Len(s) /\ s[k + i] = x
      BY <1>1, <1>3, <3>1
    <3> QED BY <3>2
  <2>2. ASSUME NEW i \in k + 1 .. Len(s), s[i] = x PROVE InChain(back, x)
    <3>1. PICK j \in 1 .. Len(s) - k : k + j = i
      <4>1. i - k \in 1 .. Len(s) - k /\ k + (i - k) = i
        BY <1>1
      <4> QED BY <4>1
    <3> QED BY <1>3, <1>4, <2>2, <3>1 DEF InChain
  <2> QED BY <2>1, <2>2
<1>7. IsInjective(front)
  BY <1>1, <1>2, <1>4 DEF IsInjective
<1>8. IsInjective(back)
  <2> SUFFICES ASSUME NEW i \in 1 .. Len(s) - k, NEW j \in 1 .. Len(s) - k, back[i] = back[j]
               PROVE  i = j
    BY <1>4 DEF IsInjective
  <2>1. k + i \in DOMAIN s /\ k + j \in DOMAIN s /\ s[k + i] = s[k + j]
    BY <1>1, <1>3
  <2>2. k + i = k + j
    BY <2>1 DEF IsInjective
  <2> QED BY <1>1, <2>2
<1>9. \A x : InChain(s, x) <=> InChain(front, x) \/ InChain(back, x)
  <2> SUFFICES ASSUME NEW x PROVE InChain(s, x) <=> InChain(front, x) \/ InChain(back, x)
    OBVIOUS
  <2>1. InChain(s, x) <=> \E i \in 1 .. Len(s) : s[i] = x BY <1>1 DEF InChain
  <2>2. \A i : i \in 1 .. Len(s) <=> i \in 1 .. k \/ i \in k + 1 .. Len(s) BY <1>1
  <2> QED BY <1>5, <1>6, <2>1, <2>2
<1>10. \A x : ~(InChain(front, x) /\ InChain(back, x))
  BY <1>1, <1>5, <1>6 DEF IsInjective
<1> QED BY <1>2, <1>3, <1>7, <1>8, <1>9, <1>10 DEF front, back

\* A channel begins empty.
LEMMA BusInvInit == BusInit => BusInv
<1> SUFFICES ASSUME BusInit PROVE BusInv
  OBVIOUS
<1>1. RingInv /\ Queue!QueueInit
  BY InvInit, QueueInit_ DEF BusInit
<1>2. Content = << >> /\ Publishing = << >>
  BY <1>1 DEF Queue!QueueInit, BusInit, Publishing
<1>3. << >> \in Seq(Data)
  BY EmptySeq
<1>4. BusTypeOK
  BY <1>1, <1>3 DEF BusInit, BusTypeOK, RingInv
<1> QED BY <1>1, <1>2, <1>4, EmptyChain DEF BusInit, BusInv, Apart, RingInit

\* The two threads leave alone what is the other's.
LEMMA PublishingSame == ASSUME UNCHANGED <<publishing, items>> PROVE Publishing' = Publishing
BY DEF Publishing

\* A datum that the channel has not waits for a later send.
LEMMA StoreKeeps ==
  ASSUME BusInv, NEW d \in Data, prepare(d) \/ publishOneStored(d)
  PROVE  BusInv'
<1>1. /\ publishing = "none" /\ d \notin live /\ m_sendBuffer' = Append(m_sendBuffer, d)
      /\ live' = live \cup {d} /\ UNCHANGED <<ringVars, publishing, m_readBuffer>>
  BY DEF prepare, publishOneStored
<1>2. m_sendBuffer \in Seq(Data) /\ ~InChain(m_sendBuffer, d)
  BY <1>1 DEF BusInv, BusTypeOK
<1>3. /\ m_sendBuffer' \in Seq(Data)
      /\ \A x : InChain(m_sendBuffer', x) <=> InChain(m_sendBuffer, x) \/ x = d
      /\ IsInjective(m_sendBuffer')
  BY <1>1, <1>2, AppendChain DEF BusInv, Apart
<1>4. RingInv' /\ RingTypeOK' /\ Content' = Content /\ UNCHANGED <<items, wanted>>
  BY <1>1, InvNext, SameContent DEF BusInv, ringVars, RingInv, producer, consumer
<1>5. Publishing' = Publishing
  BY <1>1, <1>4, PublishingSame
<1>6. BusTypeOK'
  BY <1>1, <1>3, <1>4 DEF BusInv, BusTypeOK
<1>7. Apart(m_sendBuffer, Publishing, Content, m_readBuffer)'
  BY <1>1, <1>3, <1>4, <1>5 DEF BusInv, Apart
<1>8. \A x : x \in live' <=> \/ InChain(m_sendBuffer', x) \/ InChain(Publishing', x)
                             \/ InChain(Content', x) \/ InChain(m_readBuffer', x)
  BY <1>1, <1>3, <1>4, <1>5 DEF BusInv
<1> QED BY <1>1, <1>4, <1>6, <1>7, <1>8 DEF BusInv

\* enqueue() begins: with a datum of its own, or with all that is stored.
LEMMA PublishKeeps ==
  ASSUME BusInv, publishAll \/ \E d \in Data : publishOne(d)
  PROVE  BusInv'
<1>0. write_index \in Slots /\ read_index \in Slots /\ write_available(write_index, read_index) \in Int
  BY Available, SizeAssumption DEF BusInv, RingInv, RingTypeOK
<1>1. CASE publishAll
  <2>1. /\ publishing = "none" /\ items = << >> /\ m_sendBuffer # << >> /\ StartEnqueue(m_sendBuffer)
        /\ publishing' = "publishAll" /\ UNCHANGED <<m_sendBuffer, m_readBuffer, live>>
        /\ Len(m_sendBuffer) <= write_available(write_index, read_index)
    BY <1>0, <1>1, LenProperties DEF publishAll, EnqueueAll, BusInv, BusTypeOK
  <2>2. RingInv' /\ RingTypeOK'
    BY <2>1, InvEnqueue DEF BusInv, BusTypeOK, RingInv
  <2>3. Content' = Content /\ items' = m_sendBuffer /\ UNCHANGED wanted
    BY <2>1, SameContent DEF BusInv, StartEnqueue, consumer
  <2>4. Publishing = << >> /\ Publishing' = << >>
    BY <2>1 DEF Publishing
  <2> QED BY <2>1, <2>2, <2>3, <2>4 DEF BusInv, BusTypeOK, Apart
<1>2. ASSUME NEW d \in Data, publishOne(d) PROVE BusInv'
  <2>0. <<d>> \in Seq(Data) /\ Len(<<d>>) = 1 /\ <<d>> # << >>
    OBVIOUS
  <2>1. /\ publishing = "none" /\ d \notin live /\ items = << >> /\ StartEnqueue(<<d>>)
        /\ publishing' = "publishOne" /\ live' = live \cup {d} /\ UNCHANGED <<m_sendBuffer, m_readBuffer>>
        /\ Len(<<d>>) <= write_available(write_index, read_index)
    BY <1>0, <1>2, <2>0, Available DEF publishOne, EnqueueOne
  <2>2. RingInv' /\ RingTypeOK'
    BY <2>0, <2>1, InvEnqueue DEF BusInv, RingInv
  <2>3. Content' = Content /\ items' = <<d>> /\ UNCHANGED wanted
    BY <2>1, SameContent DEF BusInv, StartEnqueue, consumer
  <2>4. Publishing = << >> /\ Publishing' = <<d>>
    BY <2>1, <2>3 DEF Publishing
  <2>5. IsInjective(<<d>>) /\ \A x : InChain(<<d>>, x) <=> x = d
    BY DEF IsInjective, InChain
  <2>6. BusTypeOK'
    BY <2>1, <2>2 DEF BusInv, BusTypeOK
  <2>7. Apart(m_sendBuffer, Publishing, Content, m_readBuffer)'
    BY <2>1, <2>3, <2>4, <2>5 DEF BusInv, Apart
  <2>8. \A x : x \in live' <=> \/ InChain(m_sendBuffer', x) \/ InChain(Publishing', x)
                               \/ InChain(Content', x) \/ InChain(m_readBuffer', x)
    BY <2>1, <2>3, <2>4, <2>5, EmptyChain DEF BusInv
  <2> QED BY <2>0, <2>1, <2>2, <2>3, <2>6, <2>7, <2>8 DEF BusInv
<1> QED BY <1>1, <1>2

\* enqueue() returns, and the ring has what was sent.
LEMMA PublishEndKeeps == ASSUME BusInv, publishEnd PROVE BusInv'
<1>1. RingInv' /\ RingTypeOK' /\ Queue!Put /\ items' = << >> /\ UNCHANGED wanted
  BY InvEnqueueEnd, QueuePut DEF BusInv, publishEnd, EnqueueEnd, consumer, RingInv
<1>2. /\ publishing \in {"publishOne", "publishAll"} /\ publishing' = "none" /\ Publishing' = << >>
      /\ UNCHANGED <<m_readBuffer, live>>
  BY DEF publishEnd, EnqueueEnd, BusInv, Publishing
<1>3. /\ Content' = Content \o items
      /\ items \in Seq(Data) /\ Content \in Seq(Data)
  BY <1>1, ContentSeq DEF Queue!Put, BusInv, BusTypeOK, RingTypeOK
<1>4. items = IF publishing = "publishAll" THEN m_sendBuffer ELSE Publishing
  BY <1>2 DEF Publishing, BusInv
<1>5. /\ m_sendBuffer' = IF publishing = "publishAll" THEN << >> ELSE m_sendBuffer
      /\ publishing = "publishAll" => Publishing = << >>
  BY DEF publishEnd, Publishing
<1>6. IsInjective(items) /\ \A x : ~(InChain(Content, x) /\ InChain(items, x))
  BY <1>4 DEF BusInv, Apart
<1>7. /\ \A x : InChain(Content', x) <=> InChain(Content, x) \/ InChain(items, x)
      /\ IsInjective(Content')
  BY <1>3, <1>6, ConcatChain DEF BusInv, Apart
<1>8. BusTypeOK'
  BY <1>1, <1>2, <1>5, EmptySeq DEF BusInv, BusTypeOK
<1>9. Apart(m_sendBuffer, Publishing, Content, m_readBuffer)'
  BY <1>2, <1>4, <1>5, <1>7, EmptyChain DEF BusInv, Apart
<1>10. \A x : x \in live' <=> \/ InChain(m_sendBuffer', x) \/ InChain(Publishing', x)
                              \/ InChain(Content', x) \/ InChain(m_readBuffer', x)
  BY <1>2, <1>4, <1>5, <1>7, EmptyChain DEF BusInv
<1> QED BY <1>1, <1>2, <1>8, <1>9, <1>10 DEF BusInv

\* dequeue() returns, and the subscriber has what was taken from the ring.
LEMMA ReadEndKeeps == ASSUME BusInv, readEnd PROVE BusInv'
<1>1. RingInv' /\ RingTypeOK' /\ Queue!Take /\ UNCHANGED items /\ wanted > 0 /\ wanted' = 0
  BY InvDequeueEnd, QueueTake DEF BusInv, readEnd, DequeueEnd, producer, RingInv
<1>2. m_readBuffer = << >> /\ UNCHANGED <<m_sendBuffer, publishing, live>> /\ Publishing' = Publishing
  BY <1>1, PublishingSame DEF readEnd, BusInv
<1>3. PICK k \in 1 .. Len(Content) : /\ m_readBuffer' = SubSeq(Content, 1, k)
                                     /\ Content' = SubSeq(Content, k + 1, Len(Content))
  BY <1>1 DEF Queue!Take, readEnd, DequeueEnd
<1>4. Content \in Seq(Data) /\ IsInjective(Content)
  BY ContentSeq DEF BusInv, Apart
<1>5. /\ m_readBuffer' \in Seq(Data) /\ IsInjective(m_readBuffer') /\ IsInjective(Content')
      /\ \A x : InChain(Content, x) <=> InChain(m_readBuffer', x) \/ InChain(Content', x)
      /\ \A x : ~(InChain(m_readBuffer', x) /\ InChain(Content', x))
  <2> HIDE DEF Content
  <2>1. LET front == SubSeq(Content, 1, k)
            back  == SubSeq(Content, k + 1, Len(Content))
        IN /\ front \in Seq(Data) /\ back \in Seq(Data) /\ IsInjective(front) /\ IsInjective(back)
           /\ \A x : InChain(Content, x) <=> InChain(front, x) \/ InChain(back, x)
           /\ \A x : ~(InChain(front, x) /\ InChain(back, x))
    BY ONLY <1>4, SplitChain, k \in 1 .. Len(Content)
  <2> QED BY ONLY <1>3, <2>1
<1>6. BusTypeOK'
  BY <1>1, <1>2, <1>5 DEF BusInv, BusTypeOK
<1>7. Apart(m_sendBuffer, Publishing, Content, m_readBuffer)'
  BY <1>2, <1>5 DEF BusInv, Apart
<1>8. \A x : x \in live' <=> \/ InChain(m_sendBuffer', x) \/ InChain(Publishing', x)
                             \/ InChain(Content', x) \/ InChain(m_readBuffer', x)
  BY <1>2, <1>5, EmptyChain DEF BusInv
<1> QED BY <1>1, <1>2, <1>6, <1>7, <1>8 DEF BusInv

\* A datum that is dispatched is deleted.
LEMMA DispatchKeeps == ASSUME BusInv, dispatch PROVE BusInv'
<1>1. /\ m_readBuffer # << >> /\ m_readBuffer' = Tail(m_readBuffer) /\ live' = live \ {Head(m_readBuffer)}
      /\ UNCHANGED <<ringVars, m_sendBuffer, publishing>>
  BY DEF dispatch
<1>2. /\ m_readBuffer' \in Seq(Data) /\ IsInjective(m_readBuffer')
      /\ \A x : InChain(m_readBuffer, x) <=> InChain(m_readBuffer', x) \/ x = Head(m_readBuffer)
      /\ ~InChain(m_readBuffer', Head(m_readBuffer))
  <2>1. m_readBuffer \in Seq(Data) /\ IsInjective(m_readBuffer)
    BY DEF BusInv, BusTypeOK, Apart
  <2> QED BY <1>1, <2>1, HeadChain
<1>3. RingInv' /\ RingTypeOK' /\ Content' = Content /\ UNCHANGED <<items, wanted>>
  BY <1>1, InvNext, SameContent DEF BusInv, ringVars, RingInv, producer, consumer
<1>4. Publishing' = Publishing
  BY <1>1, <1>3, PublishingSame
<1>5. BusTypeOK'
  BY <1>1, <1>2, <1>3 DEF BusInv, BusTypeOK
<1>6. Apart(m_sendBuffer, Publishing, Content, m_readBuffer)'
  BY <1>1, <1>2, <1>3, <1>4 DEF BusInv, Apart
<1>7. \A x : x \in live' <=> \/ InChain(m_sendBuffer', x) \/ InChain(Publishing', x)
                             \/ InChain(Content', x) \/ InChain(m_readBuffer', x)
  BY <1>1, <1>2, <1>3, <1>4 DEF BusInv, Apart
<1>8. ~(wanted' > 0)
  BY <1>1, <1>3 DEF BusInv
<1> QED BY <1>1, <1>3, <1>5, <1>6, <1>7, <1>8 DEF BusInv

\* What only copies, begins to read, or finds the ring full leaves all in its place.
LEMMA RestKeeps ==
  ASSUME BusInv,
         \/ publishCopy \/ readCopy \/ (\E count \in 1 .. MaxSize : read(count))
         \/ publishAllFull \/ publishAllReturn \/ UNCHANGED busVars
  PROVE  BusInv'
<1>1. /\ UNCHANGED <<m_sendBuffer, m_readBuffer, live, items>>
      /\ publishing' \in {"none", "publishOne", "publishAll", "left"}
      /\ publishing' = publishing \/ {publishing, publishing'} \subseteq {"none", "left"}
      /\ wanted' # wanted => m_readBuffer = << >>
  BY DEF publishCopy, readCopy, read, publishAllFull, publishAllReturn, busVars, ringVars, EnqueueCopy,
         DequeueCopy, Dequeue, producer, consumer, BusInv, BusTypeOK
<1>2. RingInv' /\ Content' = Content
  <2>1. RingInv
    BY DEF BusInv
  <2>2. CASE publishCopy
    BY <2>1, <2>2, InvEnqueueCopy, QueueCopy DEF publishCopy
  <2>3. CASE readCopy
    BY <2>1, <2>3, InvDequeueCopy, SameContent DEF readCopy, DequeueCopy
  <2>4. ASSUME NEW count \in 1 .. MaxSize, read(count) PROVE RingInv' /\ Content' = Content
    BY <2>1, <2>4, InvDequeue, SameContent DEF read, Dequeue
  <2>5. CASE UNCHANGED ringVars
    BY <2>1, <2>5, InvNext, SameContent DEF ringVars
  <2> QED BY <2>2, <2>3, <2>4, <2>5 DEF publishAllFull, publishAllReturn, busVars
<1>3. Publishing' = Publishing
  BY <1>1 DEF Publishing
<1>4. BusTypeOK'
  BY <1>1, <1>2 DEF BusInv, BusTypeOK, RingInv
<1>5. wanted' > 0 => m_readBuffer' = << >>
  BY <1>1 DEF BusInv
<1> QED BY <1>1, <1>2, <1>3, <1>4, <1>5 DEF BusInv, Apart

\* Where the data of a channel are, at every step of its two threads.
THEOREM BusInvariant == BusSpec => []BusInv
<1>1. BusInv /\ [BusNext]_busVars => BusInv'
  <2>1. 1 \in 1 .. MaxSize /\ MaxSize \in 1 .. MaxSize
    BY SizeAssumption
  <2>2. Subscriber => \/ readCopy \/ (\E count \in 1 .. MaxSize : read(count)) \/ readEnd \/ dispatch
    BY <2>1 DEF Subscriber
  <2> QED BY <2>2, StoreKeeps, PublishKeeps, PublishEndKeeps, ReadEndKeeps, DispatchKeeps, RestKeeps
          DEF BusNext
<1> QED BY <1>1, BusInvInit, PTL DEF BusSpec

\* No datum of the channel is lost, sent twice or deleted twice, for every capacity and
\* whatever the two threads see of each other (channel.hpp).
THEOREM BusEachOnce == BusSpec => []EachOnce
<1>1. BusInv => EachOnce
  <2> SUFFICES ASSUME BusInv PROVE EachOnce
    OBVIOUS
  <2>1. /\ m_sendBuffer \in Seq(Data) /\ Publishing \in Seq(Data) /\ Content \in Seq(Data)
        /\ m_readBuffer \in Seq(Data)
    BY ContentSeq, EmptySeq DEF BusInv, BusTypeOK, RingTypeOK, Publishing
  <2>2. Held = m_sendBuffer \o Publishing \o Content \o m_readBuffer
    BY DEF Held, Publishing
  <2>3. IsInjective(Held) /\ \A x : InChain(Held, x) <=> x \in live
    BY <2>1, <2>2, OnceInAll DEF BusInv
  <2> QED BY <2>3 DEF EachOnce, IsInjective, InChain
<1> QED BY <1>1, BusInvariant, PTL

-----------------------------------------------------------------------------
(* Sequences of sequences.                                                 *)

\* f has the first n sequences of ss joined, for each n.
FlattenedBy(f, ss) ==
  /\ FlattenSeq(ss) = f[Len(ss)]
  /\ f[0] = << >> /\ \A n \in 1 .. Len(ss) : f[n] = f[n - 1] \o ss[n]

LEMMA FlattenSteps ==
  ASSUME NEW S, NEW ss \in Seq(Seq(S))
  PROVE  \E f \in [0 .. Len(ss) -> Seq(S)] : FlattenedBy(f, ss)
<1> DEFINE N == Len(ss)
           Value(f, i) == IF i = 1 THEN ss[i] ELSE f[i - 1] \o ss[i]
           step == [i \in 1 .. N |-> [s \in Seq(S) |-> s \o ss[i]]]
<1>1. N \in Nat /\ \A i \in 1 .. N : ss[i] \in Seq(S)
  BY LenProperties, ElementOfSeq
<1>2. << >> \in Seq(S) BY EmptySeq
<1> HIDE DEF N
<1>3. \A i \in 1 .. N, s \in Seq(S) : step[i][s] = s \o ss[i]
  OBVIOUS
<1>4. step \in [1 .. N -> [Seq(S) -> Seq(S)]]
  <2>1. \A i \in 1 .. N, s \in Seq(S) : s \o ss[i] \in Seq(S) BY <1>1, ConcatProperties
  <2> QED BY <2>1
<1> HIDE DEF step
<1>5. PICK f \in [0 .. N -> Seq(S)] : Recurs(f, N, << >>, step)
  BY <1>1, <1>2, <1>4, Recursion
<1>6. \A i \in 1 .. N : f[i] = f[i - 1] \o ss[i]
  <2> SUFFICES ASSUME NEW i \in 1 .. N PROVE f[i] = f[i - 1] \o ss[i]
    OBVIOUS
  <2>1. f[i - 1] \in Seq(S) BY <1>1, <1>5
  <2> QED BY <2>1, <1>3, <1>5 DEF Recurs
<1>7. CASE N = 0
  <2>1. FlattenSeq(ss) = ss BY <1>7 DEF FlattenSeq, N
  <2>2. ss = << >> BY <1>7, EmptySeq DEF N
  <2> QED BY <2>1, <2>2, <1>5, <1>6, <1>7 DEF FlattenedBy, N, Recurs
<1>8. CASE N # 0
  <2> DEFINE flatten == CHOOSE g : g = [i \in 1 .. N |-> Value(g, i)]
  <2>1. FlattenSeq(ss) = flatten[N] BY <1>8 DEF FlattenSeq, N
  <2> DEFINE h == [i \in 1 .. N |-> f[i]]
  <2>2. \A i \in 1 .. N : h[i] = Value(h, i)
    <3> SUFFICES ASSUME NEW i \in 1 .. N PROVE h[i] = Value(h, i)
      OBVIOUS
    <3>1. CASE i = 1
      <4>0. 1 \in 1 .. N /\ 1 - 1 = 0 BY <1>1, <1>8
      <4>1. f[1] = f[0] \o ss[1] /\ ss[1] \in Seq(S) BY <1>1, <1>6, <4>0
      <4>2. f[1] = ss[1] BY <4>1, <1>5, ConcatEmptySeq DEF Recurs
      <4> QED BY <3>1, <4>2
    <3>2. CASE i # 1
      <4>1. i - 1 \in 1 .. N BY <3>2, <1>1
      <4> QED BY <4>1, <3>2, <1>6
    <3> QED BY <3>1, <3>2
  <2>3. h = [i \in 1 .. N |-> Value(h, i)]
    <3> HIDE DEF Value
    <3> QED BY <2>2
  <2> HIDE DEF h
  <2>4. flatten = [i \in 1 .. N |-> Value(flatten, i)]
    <3> HIDE DEF Value
    <3> QED BY <2>3
  <2> HIDE DEF flatten
  <2> DEFINE U == {n \in Nat : n + 1 <= N => flatten[n + 1] = f[n + 1]}
  <2>5. 0 \in U
    <3>0. 1 \in 1 .. N /\ 1 - 1 = 0 BY <1>1, <1>8
    <3>1. f[1] = f[0] \o ss[1] /\ ss[1] \in Seq(S) BY <1>1, <1>6, <3>0
    <3>2. f[1] = ss[1] BY <3>1, <1>5, ConcatEmptySeq DEF Recurs
    <3>3. 1 \in 1 .. N BY <1>1, <1>8
    <3>4. flatten[1] = Value(flatten, 1)
      <4> HIDE DEF Value
      <4> QED BY <2>4, <3>3
    <3> QED BY <3>2, <3>4
  <2>6. \A n \in Nat : n \in U => n + 1 \in U
    <3> SUFFICES ASSUME NEW n \in Nat, n \in U, n + 2 <= N PROVE flatten[n + 2] = f[n + 2]
      OBVIOUS
    <3>1. n + 2 \in 1 .. N /\ (n + 2) - 1 = n + 1 /\ n + 2 # 1 BY <1>1
    <3>2. flatten[n + 2] = Value(flatten, n + 2)
      <4> HIDE DEF Value
      <4> QED BY <2>4, <3>1
    <3>3. flatten[n + 2] = flatten[n + 1] \o ss[n + 2] BY <3>1, <3>2
    <3>4. flatten[n + 1] = f[n + 1] BY <3>1, <1>1
    <3> QED BY <3>1, <3>3, <3>4, <1>6
  <2>7. \A n \in Nat : n \in U
    <3> HIDE DEF U
    <3> QED BY <2>5, <2>6, SetInduction
  <2>8. flatten[N] = f[N]
    <3>1. N - 1 \in Nat /\ (N - 1) + 1 = N BY <1>1, <1>8
    <3>2. N - 1 \in U BY <2>7, <3>1
    <3> QED BY <3>1, <3>2
  <2>9. FlattenedBy(f, ss) BY <2>1, <2>8, <1>5, <1>6 DEF FlattenedBy, N, Recurs
  <2> QED BY <2>9, <1>5 DEF N
<1> QED BY <1>7, <1>8

LEMMA FlattenType ==
  ASSUME NEW S, NEW ss \in Seq(Seq(S))
  PROVE  FlattenSeq(ss) \in Seq(S)
<1>1. PICK f \in [0 .. Len(ss) -> Seq(S)] : FlattenedBy(f, ss) BY FlattenSteps
<1>2. Len(ss) \in 0 .. Len(ss) BY LenProperties
<1> QED BY <1>1, <1>2 DEF FlattenedBy

\* One more sequence comes behind the others.
LEMMA FlattenAppend ==
  ASSUME NEW S, NEW ss \in Seq(Seq(S)), NEW s \in Seq(S)
  PROVE  FlattenSeq(Append(ss, s)) = FlattenSeq(ss) \o s
<1> DEFINE tt == Append(ss, s)
           N  == Len(ss)
<1>1. /\ tt \in Seq(Seq(S)) /\ Len(tt) = N + 1
      /\ \A i \in 1 .. N : tt[i] = ss[i]
      /\ tt[N + 1] = s
  BY AppendProperties
<1>2. N \in Nat BY LenProperties
<1> HIDE DEF tt
<1>3. PICK f \in [0 .. N -> Seq(S)] : FlattenedBy(f, ss) BY FlattenSteps
<1>4. PICK g \in [0 .. Len(tt) -> Seq(S)] : FlattenedBy(g, tt) BY <1>1, FlattenSteps
<1>5. /\ FlattenSeq(ss) = f[N] /\ f[0] = << >> /\ \A n \in 1 .. N : f[n] = f[n - 1] \o ss[n]
  BY <1>3 DEF FlattenedBy
<1>6. /\ FlattenSeq(tt) = g[N + 1] /\ g[0] = << >> /\ \A n \in 1 .. N + 1 : g[n] = g[n - 1] \o tt[n]
  BY <1>1, <1>4 DEF FlattenedBy
<1> HIDE DEF N
<1> DEFINE U == {n \in Nat : n <= N => f[n] = g[n]}
<1>7. 0 \in U BY <1>5, <1>6
<1>8. \A n \in Nat : n \in U => n + 1 \in U
  <2> SUFFICES ASSUME NEW n \in Nat, n \in U, n + 1 <= N PROVE f[n + 1] = g[n + 1]
    OBVIOUS
  <2>1. n + 1 \in 1 .. N /\ n + 1 \in 1 .. N + 1 /\ (n + 1) - 1 = n BY <1>2
  <2>2. f[n + 1] = f[n] \o ss[n + 1] BY <1>5, <2>1
  <2>3. g[n + 1] = g[n] \o ss[n + 1] BY <1>1, <1>6, <2>1
  <2>4. f[n] = g[n] BY <2>1, <1>2
  <2> QED BY <2>2, <2>3, <2>4
<1>9. \A n \in Nat : n \in U
  <2> HIDE DEF U
  <2> QED BY <1>7, <1>8, SetInduction
<1>10. f[N] = g[N] BY <1>2, <1>9
<1>11. g[N + 1] = g[N] \o s
  <2>1. N + 1 \in 1 .. N + 1 /\ (N + 1) - 1 = N BY <1>2
  <2> QED BY <1>1, <1>6, <2>1
<1> QED BY <1>5, <1>6, <1>10, <1>11 DEF tt

LEMMA Regroup ==
  ASSUME NEW S, NEW a \in Seq(S), NEW b \in Seq(S), NEW r \in Seq(S)
  PROVE  b \o r \in Seq(S) /\ (a \o b) \o r = a \o (b \o r)
<1>1. (a \o b) \o r = a \o (b \o r) BY ConcatAssociative
<1>2. b \o r \in Seq(S) BY ConcatProperties
<1> QED BY <1>1, <1>2

LEMMA LastOfSeq ==
  ASSUME NEW S, NEW s \in Seq(S), NEW n \in Nat, n + 1 <= Len(s)
  PROVE  /\ SubSeq(s, 1, n) \in Seq(S) /\ Len(SubSeq(s, 1, n)) = n
         /\ s[n + 1] \in S
         /\ SubSeq(s, 1, n + 1) = Append(SubSeq(s, 1, n), s[n + 1])
<1>1. Len(s) \in Nat /\ \A i \in 1 .. Len(s) : s[i] \in S BY LenProperties, ElementOfSeq
<1>2. \A i \in 1 .. n : s[i] \in S BY <1>1
<1>3. /\ SubSeq(s, 1, n) \in Seq(S)
      /\ Len(SubSeq(s, 1, n)) = IF 1 <= n THEN n - 1 + 1 ELSE 0
  BY <1>2, SubSeqProperties
<1>4. n + 1 \in 1 .. Len(s) /\ 1 \in 1 .. Len(s) /\ n + 1 \in 1 .. Len(s) BY <1>1
<1>5. SubSeq(s, 1, n + 1) = SubSeq(s, 1, (n + 1) - 1) \o << s[n + 1] >>
  BY <1>4, SubSeqRecursiveSecond
<1>6. s[n + 1] \in S BY <1>1, <1>4
<1>7. SubSeq(s, 1, n) \o << s[n + 1] >> = Append(SubSeq(s, 1, n), s[n + 1])
  BY <1>3, <1>6, AppendIsConcat
<1>8. (n + 1) - 1 = n OBVIOUS
<1> QED BY <1>3, <1>5, <1>6, <1>7, <1>8

\* The first sequences make the first part of all.
LEMMA FlattenPrefix ==
  ASSUME NEW S, NEW ss \in Seq(Seq(S)), NEW k \in 0 .. Len(ss)
  PROVE  \E r \in Seq(S) : FlattenSeq(ss) = FlattenSeq(SubSeq(ss, 1, k)) \o r
<1> DEFINE N == Len(ss)
           Good(n) == \E r \in Seq(S) : FlattenSeq(ss) = FlattenSeq(SubSeq(ss, 1, n)) \o r
           U == {j \in Nat : j <= N => Good(N - j)}
<1>1. N \in Nat BY LenProperties
<1>2. 0 \in U
  <2>1. SubSeq(ss, 1, N) = ss BY SubSeqFull
  <2>2. FlattenSeq(ss) \in Seq(S) BY FlattenType
  <2>3. FlattenSeq(ss) = FlattenSeq(ss) \o << >> BY <2>2, ConcatEmptySeq
  <2>4. << >> \in Seq(S) BY EmptySeq
  <2>5. Good(N) BY <2>1, <2>3, <2>4
  <2>6. N - 0 = N BY <1>1
  <2> HIDE DEF N, Good
  <2> QED BY <2>5, <2>6
<1>3. \A j \in Nat : j \in U => j + 1 \in U
  <2> SUFFICES ASSUME NEW j \in Nat, j \in U, j + 1 <= N PROVE Good(N - (j + 1))
    <3> HIDE DEF Good, N
    <3> QED OBVIOUS
  <2> DEFINE n == N - (j + 1)
  <2>1. n \in Nat /\ n + 1 <= Len(ss) /\ N - j = n + 1 BY <1>1
  <2>2. Good(n + 1)
    <3>1. Good(N - j)
      <4>1. j <= N BY <1>1
      <4> HIDE DEF Good, N
      <4> QED BY <4>1
    <3> HIDE DEF Good, n, N
    <3> QED BY <2>1, <3>1
  <2> HIDE DEF n
  <2>3. PICK r \in Seq(S) : FlattenSeq(ss) = FlattenSeq(SubSeq(ss, 1, n + 1)) \o r BY <2>2
  <2> DEFINE part == SubSeq(ss, 1, n)
             T    == Seq(S)
  <2>4. part \in Seq(T) /\ ss[n + 1] \in T /\ SubSeq(ss, 1, n + 1) = Append(part, ss[n + 1])
    <3>1. ss \in Seq(T) OBVIOUS
    <3> HIDE DEF T
    <3> QED BY <2>1, <3>1, LastOfSeq
  <2>5. part \in Seq(Seq(S)) /\ ss[n + 1] \in Seq(S) BY <2>4
  <2> HIDE DEF part
  <2>6. FlattenSeq(Append(part, ss[n + 1])) = FlattenSeq(part) \o ss[n + 1] BY <2>5, FlattenAppend
  <2>7. FlattenSeq(part) \in Seq(S) BY <2>5, FlattenType
  <2>8. /\ r \in Seq(S)
        /\ FlattenSeq(ss) = FlattenSeq(Append(part, ss[n + 1])) \o r
    BY <2>3, <2>4
  <2>9. ss[n + 1] \o r \in Seq(S) /\ FlattenSeq(ss) = FlattenSeq(part) \o (ss[n + 1] \o r)
    <3>1. PICK a, b : a = FlattenSeq(part) /\ b = ss[n + 1] OBVIOUS
    <3>2. a \in Seq(S) /\ b \in Seq(S) BY <2>5, <2>7, <3>1
    <3>3. FlattenSeq(ss) = (a \o b) \o r BY <2>6, <2>8, <3>1
    <3>4. r \in Seq(S) OBVIOUS
    <3> HIDE DEF T, Good, N, U
    <3>5. b \o r \in Seq(S) /\ (a \o b) \o r = a \o (b \o r)
      BY <3>2, <3>4, Regroup
    <3> QED BY <3>1, <3>3, <3>5
  <2> QED BY <2>9 DEF n, part
<1>4. \A j \in Nat : j \in U
  <2> HIDE DEF U
  <2> QED BY <1>2, <1>3, SetInduction
<1>5. N - k \in U /\ N - k <= N /\ N - (N - k) = k
  <2>1. N - k \in Nat /\ N - k <= N /\ N - (N - k) = k BY <1>1
  <2> QED BY <1>4, <2>1
<1>6. Good(k)
  <2> HIDE DEF Good
  <2> QED BY <1>5
<1> QED BY <1>6

\* What follows the first k of the sequences is the next, and then something more.
NextPart(ss, k, S) ==
  /\ SubSeq(ss, 1, k) \in Seq(Seq(S)) /\ ss[k + 1] \in Seq(S)
  /\ FlattenSeq(SubSeq(ss, 1, k)) \in Seq(S)
  /\ FlattenSeq(SubSeq(ss, 1, k + 1)) = FlattenSeq(SubSeq(ss, 1, k)) \o ss[k + 1]
  /\ \E r \in Seq(S) : /\ FlattenSeq(ss) = FlattenSeq(SubSeq(ss, 1, k)) \o (ss[k + 1] \o r)
                     /\ FlattenSeq(ss) = FlattenSeq(SubSeq(ss, 1, k + 1)) \o r

LEMMA FlattenNext ==
  ASSUME NEW S, NEW ss \in Seq(Seq(S)), NEW k \in Nat, k + 1 <= Len(ss)
  PROVE  NextPart(ss, k, S)
<1> DEFINE part == SubSeq(ss, 1, k)
           T    == Seq(S)
<1>1. part \in Seq(T) /\ ss[k + 1] \in T /\ SubSeq(ss, 1, k + 1) = Append(part, ss[k + 1])
  <2>1. ss \in Seq(T) OBVIOUS
  <2> HIDE DEF T
  <2> QED BY <2>1, LastOfSeq
<1>2. part \in Seq(Seq(S)) /\ ss[k + 1] \in Seq(S) BY <1>1
<1>3. k + 1 \in 0 .. Len(ss) BY LenProperties
<1>4. PICK r \in Seq(S) : FlattenSeq(ss) = FlattenSeq(SubSeq(ss, 1, k + 1)) \o r
  BY <1>3, FlattenPrefix
<1>5. SubSeq(ss, 1, k + 1) = Append(part, ss[k + 1]) BY <1>1
<1> HIDE DEF part
<1>6. FlattenSeq(Append(part, ss[k + 1])) = FlattenSeq(part) \o ss[k + 1] BY <1>2, FlattenAppend
<1>7. FlattenSeq(part) \in Seq(S) BY <1>2, FlattenType
<1>8. /\ r \in Seq(S)
      /\ FlattenSeq(ss) = FlattenSeq(Append(part, ss[k + 1])) \o r
  BY <1>4, <1>5
<1>9. ss[k + 1] \o r \in Seq(S) /\ FlattenSeq(ss) = FlattenSeq(part) \o (ss[k + 1] \o r)
  <2>1. PICK a, b : a = FlattenSeq(part) /\ b = ss[k + 1] OBVIOUS
  <2>2. a \in Seq(S) /\ b \in Seq(S) BY <1>2, <1>7, <2>1
  <2>3. FlattenSeq(ss) = (a \o b) \o r BY <1>6, <1>8, <2>1
  <2>4. r \in Seq(S) OBVIOUS
  <2>5. b \o r \in Seq(S) /\ (a \o b) \o r = a \o (b \o r)
    BY <2>2, <2>4, Regroup
  <2> QED BY <2>1, <2>3, <2>5
<1> QED BY <1>2, <1>5, <1>6, <1>7, <1>8, <1>9 DEF part, NextPart

-----------------------------------------------------------------------------
(* A sequence cut in two.                                                  *)

LEMMA CutType ==
  ASSUME NEW S, NEW s \in Seq(S), NEW n \in Nat
  PROVE  /\ Behind(s, n) \in Seq(S)
         /\ Len(Behind(s, n)) = IF n <= Len(s) THEN Len(s) - n ELSE 0
         /\ \A i \in 1 .. Len(s) - n : Behind(s, n)[i] = s[n + i]
         /\ n <= Len(s) => /\ First(s, n) \in Seq(S) /\ Len(First(s, n)) = n
                           /\ \A i \in 1 .. n : First(s, n)[i] = s[i]
<1>1. Len(s) \in Nat /\ \A i \in 1 .. Len(s) : s[i] \in S BY LenProperties, ElementOfSeq
<1>2. \A i \in n + 1 .. Len(s) : s[i] \in S BY <1>1
<1>3. /\ Behind(s, n) \in Seq(S)
      /\ Len(Behind(s, n)) = IF n + 1 <= Len(s) THEN Len(s) - (n + 1) + 1 ELSE 0
      /\ \A i \in 1 .. Len(s) - (n + 1) + 1 : Behind(s, n)[i] = s[(n + 1) + i - 1]
  <2>1. n + 1 \in Int /\ Len(s) \in Int BY <1>1
  <2> QED BY <1>2, <2>1, SubSeqProperties DEF Behind
<1>4. ASSUME NEW i \in 1 .. Len(s) - n PROVE Behind(s, n)[i] = s[n + i]
  <2>1. i \in 1 .. Len(s) - (n + 1) + 1 /\ (n + 1) + i - 1 = n + i BY <1>1
  <2> QED BY <1>3, <2>1
<1>5. ASSUME n <= Len(s)
      PROVE  /\ First(s, n) \in Seq(S) /\ Len(First(s, n)) = n
             /\ \A i \in 1 .. n : First(s, n)[i] = s[i]
  <2>1. \A i \in 1 .. n : s[i] \in S BY <1>1, <1>5
  <2>2. /\ First(s, n) \in Seq(S)
        /\ Len(First(s, n)) = IF 1 <= n THEN n - 1 + 1 ELSE 0
        /\ \A i \in 1 .. n - 1 + 1 : First(s, n)[i] = s[1 + i - 1]
    BY <2>1, SubSeqProperties DEF First
  <2>3. ASSUME NEW i \in 1 .. n PROVE First(s, n)[i] = s[i]
    <3>1. i \in 1 .. n - 1 + 1 /\ 1 + i - 1 = i OBVIOUS
    <3> QED BY <2>2, <3>1
  <2> QED BY <2>2, <2>3
<1> QED BY <1>1, <1>3, <1>4, <1>5

LEMMA CutJoins ==
  ASSUME NEW S, NEW s \in Seq(S), NEW n \in 0 .. Len(s)
  PROVE  First(s, n) \o Behind(s, n) = s
<1>1. Len(s) \in Nat /\ n \in Nat BY LenProperties
<1>2. /\ Behind(s, n) \in Seq(S) /\ Len(Behind(s, n)) = Len(s) - n
      /\ \A i \in 1 .. Len(s) - n : Behind(s, n)[i] = s[n + i]
      /\ First(s, n) \in Seq(S) /\ Len(First(s, n)) = n
      /\ \A i \in 1 .. n : First(s, n)[i] = s[i]
  <2>1. n \in Nat /\ n <= Len(s) BY <1>1
  <2> HIDE DEF First, Behind
  <2> QED BY <2>1, CutType
<1> DEFINE a == First(s, n)
           b == Behind(s, n)
<1> HIDE DEF a, b
<1>3. /\ a \o b \in Seq(S) /\ Len(a \o b) = n + (Len(s) - n)
      /\ \A i \in 1 .. n + (Len(s) - n) : (a \o b)[i] = IF i <= n THEN a[i] ELSE b[i - n]
  <2>1. a \in Seq(S) /\ b \in Seq(S) /\ Len(a) = n /\ Len(b) = Len(s) - n BY <1>2 DEF a, b
  <2> QED BY <2>1, ConcatProperties
<1>4. ASSUME NEW i \in 1 .. Len(s) PROVE (a \o b)[i] = s[i]
  <2>1. CASE i <= n
    <3>1. i \in 1 .. n BY <1>1, <2>1
    <3> QED BY <1>1, <1>2, <1>3, <2>1, <3>1 DEF a
  <2>2. CASE ~(i <= n)
    <3>1. i - n \in 1 .. Len(s) - n /\ n + (i - n) = i BY <1>1, <2>2
    <3> QED BY <1>1, <1>2, <1>3, <2>2, <3>1 DEF b
  <2> QED BY <2>1, <2>2
<1>5. Len(a \o b) = Len(s) BY <1>1, <1>3
<1>6. a \o b = s BY <1>3, <1>4, <1>5, SeqEqual
<1> QED BY <1>6 DEF a, b

\* Where two ways to cut the same sequence agree
LEMMA SameStart ==
  ASSUME NEW S, NEW a \in Seq(S), NEW b \in Seq(S), NEW m \in Seq(S), NEW r \in Seq(S),
         a \o b = m \o r
  PROVE  /\ Len(a) + Len(b) = Len(m) + Len(r)
         /\ \A i \in 1 .. Len(a) : i <= Len(m) => a[i] = m[i]
<1>1. Len(a) \in Nat /\ Len(b) \in Nat /\ Len(m) \in Nat /\ Len(r) \in Nat BY LenProperties
<1>2. /\ Len(a \o b) = Len(a) + Len(b)
      /\ \A i \in 1 .. Len(a) + Len(b) : (a \o b)[i] = IF i <= Len(a) THEN a[i] ELSE b[i - Len(a)]
  BY ConcatProperties
<1>3. /\ Len(m \o r) = Len(m) + Len(r)
      /\ \A i \in 1 .. Len(m) + Len(r) : (m \o r)[i] = IF i <= Len(m) THEN m[i] ELSE r[i - Len(m)]
  BY ConcatProperties
<1>4. Len(a) + Len(b) = Len(m) + Len(r) BY <1>2, <1>3
<1>5. ASSUME NEW i \in 1 .. Len(a), i <= Len(m) PROVE a[i] = m[i]
  <2>1. i \in 1 .. Len(a) + Len(b) /\ i \in 1 .. Len(m) + Len(r) /\ i <= Len(a) BY <1>1, <1>5
  <2> QED BY <1>2, <1>3, <1>5, <2>1
<1> QED BY <1>4, <1>5

LEMMA SplitAt ==
  ASSUME NEW S, NEW a \in Seq(S), NEW b \in Seq(S), NEW m \in Seq(S), NEW r \in Seq(S),
         a \o b = m \o r, Len(m) <= Len(a)
  PROVE  First(a, Len(m)) = m /\ Behind(a, Len(m)) \o b = r
<1> DEFINE n == Len(m)
           f == First(a, n)
           g == Behind(a, n)
<1>1. n \in Nat /\ Len(a) \in Nat BY LenProperties
<1>2. f \in Seq(S) /\ Len(f) = n /\ g \in Seq(S) /\ \A i \in 1 .. n : f[i] = a[i]
  BY <1>1, CutType
<1>3. \A i \in 1 .. Len(a) : i <= n => a[i] = m[i] BY SameStart
<1>4. f \o g = a
  <2>1. n \in 0 .. Len(a) BY <1>1
  <2> HIDE DEF n
  <2> QED BY <2>1, CutJoins
<1> HIDE DEF f, g
<1>5. \A i \in 1 .. Len(f) : f[i] = m[i] BY <1>1, <1>2, <1>3
<1>6. f = m BY <1>2, <1>5, SeqEqual
<1>7. (f \o g) \o b = f \o (g \o b)
  <2>1. f \in Seq(S) /\ g \in Seq(S) BY <1>2
  <2> QED BY <2>1, ConcatAssociative
<1>8. m \o (g \o b) = m \o r BY <1>4, <1>6, <1>7
<1>9. g \o b \in Seq(S) BY <1>2, ConcatProperties
<1>10. g \o b = r BY <1>8, <1>9, ConcatSimplifications
<1> QED BY <1>6, <1>10 DEF f, g, n

-----------------------------------------------------------------------------
(* The invariant.                                                          *)

Pending == (IF stage = "idle" THEN fragment ELSE data) \o arriving

ReceiverTypeOK ==
  /\ m_messageHeaderMinimumSize \in HeaderSizes /\ sent \in Streams
  /\ arriving \in Seq(Octets) /\ fragment \in Seq(Octets)
  /\ data \in Seq(Octets) /\ rest \in Seq(Octets)
  /\ m_overflowSize \in Nat /\ m_otherCompleteMessageFlag \in BOOLEAN
  /\ stage \in {"idle", "BUFFER", "NEWMESSAGE", "lost"} /\ entered \in BOOLEAN
  /\ after \in {"return", "shift", "clear"}
  /\ delivered \in Seq(Seq(Octets))

\* What is kept fits, and the header has a minimum while data are processed.
BufferInv ==
  /\ Len(fragment) <= ReceiveCapacity
  /\ stage # "idle" => m_messageHeaderMinimumSize # 0
  /\ stage = "idle" => after = "return"
  /\ after = "shift" => Len(data) <= Len(rest)

\* Of messages with a header of one byte: what is delivered and what is not yet make
\* the stream; data under way are all that the buffer has behind the messages that
\* were taken from it, or there is nothing in it.
FramingInv ==
  /\ IsPrefix(delivered, sent) /\ FlattenSeq(delivered) \o Pending = FlattenSeq(sent)
  /\ m_overflowSize = 0
  /\ \/ /\ stage = "idle" /\ ~m_otherCompleteMessageFlag
        /\ Len(delivered) < Len(sent) => Len(fragment) < Len(sent[Len(delivered) + 1])
     \/ /\ stage = "NEWMESSAGE" /\ fragment = << >> /\ after = "return"
        /\ m_otherCompleteMessageFlag => setOtherCompleteMessageFlag(data)
     \/ /\ stage = "BUFFER" /\ after = "shift" /\ fragment = rest
        /\ data = Behind(rest, Len(rest) - Len(data))
        /\ m_otherCompleteMessageFlag => setOtherCompleteMessageFlag(data)

ReceiverInv == ReceiverTypeOK /\ BufferInv /\ (Sized => FramingInv)

\* What the callbacks say of bytes that begin with a header.
LEMMA Sizes ==
  ASSUME m_messageHeaderMinimumSize \in HeaderSizes, m_messageHeaderMinimumSize # 0,
         NEW s \in Seq(Octets), Len(s) >= m_messageHeaderMinimumSize
  PROVE  /\ HeaderSize(s) \in 0 .. ReceiveCapacity
         /\ Len(s) >= HeaderSize(s) =>
              DataSize(s) \in Nat /\ MessageSize(s) = HeaderSize(s) + DataSize(s) /\ MessageSize(s) \in Nat
<1> DEFINE least  == First(s, m_messageHeaderMinimumSize)
           n      == Larger(m_messageHeaderMinimumSize, HeaderSize(s))
           header == First(s, n)
<1>1. Len(s) \in Nat /\ m_messageHeaderMinimumSize \in Nat /\ m_messageHeaderMinimumSize \in HeaderSizes \ {0}
  BY LenProperties, ReceiverAssumption
<1>2. least \in [1 .. m_messageHeaderMinimumSize -> Octets]
  <2>1. least \in Seq(Octets) /\ Len(least) = m_messageHeaderMinimumSize BY <1>1, CutType
  <2> HIDE DEF least
  <2> QED BY <2>1, LenProperties
<1>3. HeaderSize(s) \in 0 .. ReceiveCapacity
  <2>1. getHeaderSize(least) \in 0 .. ReceiveCapacity
    <3> HIDE DEF least
    <3> QED BY <1>1, <1>2, ReceiverAssumption
  <2> QED BY <2>1 DEF HeaderSize
<1>4. ASSUME Len(s) >= HeaderSize(s) PROVE DataSize(s) \in Nat
  <2>1. n \in Nat /\ n <= Len(s) BY <1>1, <1>3, <1>4, ReceiverAssumption DEF Larger
  <2>2. header \in [1 .. n -> Octets]
    <3> HIDE DEF n
    <3>1. header \in Seq(Octets) /\ Len(header) = n BY <2>1, CutType
    <3> HIDE DEF header
    <3> QED BY <3>1, LenProperties
  <2>3. getDataSize(header, getHeaderSize(least)) \in Nat
    <3>1. header \in [1 .. Larger(m_messageHeaderMinimumSize, getHeaderSize(least)) -> Octets]
      BY <2>2 DEF HeaderSize
    <3> HIDE DEF least, header
    <3> QED BY <1>1, <1>2, <3>1, ReceiverAssumption
  <2> QED BY <2>3 DEF DataSize, HeaderSize
<1> QED BY <1>3, <1>4, ReceiverAssumption DEF MessageSize

\* The sizes depend on how the bytes begin.
LEMMA SizesAgree ==
  ASSUME NEW s, NEW t, m_messageHeaderMinimumSize \in Nat, HeaderSize(t) \in Nat,
         NEW n \in Nat, n >= m_messageHeaderMinimumSize, n >= HeaderSize(t),
         \A i \in 1 .. n : s[i] = t[i]
  PROVE  HeaderSize(s) = HeaderSize(t) /\ DataSize(s) = DataSize(t) /\ MessageSize(s) = MessageSize(t)
<1>1. ASSUME NEW k \in Nat, k <= n PROVE First(s, k) = First(t, k)
  <2>1. First(s, k) = [i \in 1 .. k |-> s[i]] /\ First(t, k) = [i \in 1 .. k |-> t[i]]
    BY DEF First
  <2> QED BY <1>1, <2>1
<1>2. HeaderSize(s) = HeaderSize(t) BY <1>1 DEF HeaderSize
<1>3. Larger(m_messageHeaderMinimumSize, HeaderSize(t)) \in Nat
      /\ Larger(m_messageHeaderMinimumSize, HeaderSize(t)) <= n BY DEF Larger
<1>4. DataSize(s) = DataSize(t) BY <1>1, <1>2, <1>3 DEF DataSize
<1> QED BY <1>2, <1>4 DEF MessageSize

-----------------------------------------------------------------------------
(* Types and the limits of the buffer.                                     *)

LEMMA WrittenFits ==
  ASSUME fragment \in Seq(Octets), Len(fragment) <= ReceiveCapacity, NEW s \in Seq(Octets)
  PROVE  Written(s) \in Seq(Octets) /\ Len(Written(s)) <= ReceiveCapacity
BY ConcatProperties DEF Written

LEMMA BehindFits ==
  ASSUME NEW s \in Seq(Octets), Len(s) <= ReceiveCapacity, NEW n \in Nat
  PROVE  Behind(s, n) \in Seq(Octets) /\ Len(Behind(s, n)) <= ReceiveCapacity
<1>1. Behind(s, n) \in Seq(Octets) /\ Len(Behind(s, n)) = IF n <= Len(s) THEN Len(s) - n ELSE 0
  BY CutType
<1>2. Len(s) \in Nat BY LenProperties
<1> QED BY <1>1, <1>2, ReceiverAssumption

\* When processData() returns, the buffer is one that fits.
LEMMA ReturnFits ==
  ASSUME ReceiverTypeOK, BufferInv, stage \in {"BUFFER", "NEWMESSAGE"},
         NEW buffer \in Seq(Octets), Len(buffer) <= ReceiveCapacity,
         NEW left \in Seq(Octets), Len(left) <= Len(data), Return(buffer, left)
  PROVE  /\ fragment' \in Seq(Octets) /\ Len(fragment') <= ReceiveCapacity
         /\ data' \in Seq(Octets) /\ rest' \in Seq(Octets)
         /\ stage' \in {"idle", "NEWMESSAGE"} /\ entered' \in BOOLEAN
         /\ after' = "return"
<1>1. << >> \in Seq(Octets) /\ Len(<< >>) = 0 BY EmptySeq
<1>2. Len(left) \in Nat /\ Len(rest) \in Nat /\ Len(data) \in Nat /\ Len(buffer) \in Nat
  BY LenProperties DEF ReceiverTypeOK
<1>3. CASE after = "clear"
  <2>1. /\ fragment' = << >> /\ stage' = "NEWMESSAGE" /\ data' = rest /\ entered' = FALSE
        /\ after' = "return" /\ rest' = << >>
    BY <1>3 DEF Return
  <2>2. rest \in Seq(Octets) BY DEF ReceiverTypeOK
  <2>3. Len(<< >>) <= ReceiveCapacity BY <1>1, ReceiverAssumption
  <2> QED BY <1>1, <2>1, <2>2, <2>3
<1>4. CASE after # "clear"
  <2> DEFINE n == Len(rest) - Len(left)
  <2>1. after = "shift" => n \in Nat BY <1>2 DEF BufferInv
  <2>2. after = "shift" => Behind(buffer, n) \in Seq(Octets) /\ Len(Behind(buffer, n)) <= ReceiveCapacity
    <3> SUFFICES ASSUME after = "shift" PROVE Behind(buffer, n) \in Seq(Octets) /\ Len(Behind(buffer, n)) <= ReceiveCapacity
      OBVIOUS
    <3>1. n \in Nat BY <2>1
    <3> QED BY <1>2, <3>1, BehindFits
  <2> QED BY <1>1, <1>4, <2>2 DEF Return
<1> QED BY <1>3, <1>4

\* What one read takes from the socket
LEMMA ReadBytes ==
  ASSUME ReceiverTypeOK, NEW n \in 1 .. Fewer(Len(arriving), MaxDataPerRead)
  PROVE  /\ n \in Nat \ {0} /\ n <= Len(arriving) /\ n <= MaxDataPerRead
         /\ First(arriving, n) \in Seq(Octets) /\ Len(First(arriving, n)) = n
         /\ Behind(arriving, n) \in Seq(Octets)
<1>1. arriving \in Seq(Octets) BY DEF ReceiverTypeOK
<1>2. Len(arriving) \in Nat BY <1>1, LenProperties
<1>3. n \in Nat /\ n # 0 /\ n <= Len(arriving) /\ n <= MaxDataPerRead
  BY <1>2, ReceiverAssumption DEF Fewer
<1>4. /\ First(arriving, n) \in Seq(Octets) /\ Len(First(arriving, n)) = n
      /\ Behind(arriving, n) \in Seq(Octets)
  <2>1. n \in Nat BY <1>3
  <2> QED BY <1>1, <1>3, <2>1, CutType
<1> QED BY <1>3, <1>4

\* The first k bytes of joined have the header, and fit the buffer.
KeptFits(joined, n, k) ==
  /\ joined \in Seq(Octets) /\ Len(joined) = Len(fragment) + n
  /\ HeaderSize(joined) \in 0 .. ReceiveCapacity
  /\ k \in Nat /\ k <= Len(joined) /\ k <= ReceiveCapacity /\ Len(fragment) <= k
  /\ First(joined, k) \in Seq(Octets) /\ Len(First(joined, k)) = k
  /\ Behind(joined, k) \in Seq(Octets) /\ Len(Behind(joined, k)) = Len(joined) - k
  /\ MessageSize(First(joined, k)) \in Nat
  /\ HeaderSize(First(joined, k)) = HeaderSize(joined)

\* The bytes of a read behind the fragment: what doCompleteMsg() makes of them once
\* the header is complete.
LEMMA JoinedBytes ==
  ASSUME ReceiverTypeOK, BufferInv, m_messageHeaderMinimumSize # 0,
         NEW n \in 1 .. Fewer(Len(arriving), MaxDataPerRead),
         NEW joined, joined = fragment \o First(arriving, n),
         ~(Len(fragment) < m_messageHeaderMinimumSize /\ Len(joined) <= m_messageHeaderMinimumSize),
         ~(Len(fragment) < HeaderSize(joined) /\ Len(joined) <= HeaderSize(joined)),
         NEW k, k = Larger(Len(fragment), Larger(m_messageHeaderMinimumSize, HeaderSize(joined)))
  PROVE  KeptFits(joined, n, k)
<1> DEFINE least == m_messageHeaderMinimumSize
           kept == First(joined, k)
<1>1. fragment \in Seq(Octets) /\ least \in HeaderSizes BY DEF ReceiverTypeOK
<1>2. Len(fragment) \in Nat /\ least \in 0 .. ReceiveCapacity /\ n \in Nat /\ ReceiveCapacity \in Nat
  BY <1>1, LenProperties, ReadBytes, ReceiverAssumption
<1>3. joined \in Seq(Octets) /\ Len(joined) = Len(fragment) + n
  <2>1. First(arriving, n) \in Seq(Octets) /\ Len(First(arriving, n)) = n BY ReadBytes
  <2> QED BY <1>1, <2>1, ConcatProperties
<1>4. Len(joined) >= least BY <1>2, <1>3
<1>5. HeaderSize(joined) \in 0 .. ReceiveCapacity BY <1>1, <1>3, <1>4, Sizes
<1>6. /\ k \in Nat /\ k <= Len(joined) /\ k <= ReceiveCapacity /\ Len(fragment) <= k
      /\ least <= k /\ HeaderSize(joined) <= k
  <2>1. Len(fragment) <= ReceiveCapacity BY DEF BufferInv
  <2> QED BY <1>2, <1>3, <1>4, <1>5, <2>1 DEF Larger
<1>7. kept \in Seq(Octets) /\ Len(kept) = k /\ \A i \in 1 .. k : kept[i] = joined[i]
  BY <1>3, <1>6, CutType
<1>8. Behind(joined, k) \in Seq(Octets) /\ Len(Behind(joined, k)) = Len(joined) - k
  BY <1>3, <1>6, CutType
<1> HIDE DEF kept
<1>9. HeaderSize(kept) = HeaderSize(joined)
  <2>1. least \in Nat /\ HeaderSize(joined) \in Nat /\ k >= least /\ k >= HeaderSize(joined)
    BY <1>2, <1>5, <1>6
  <2>2. k \in Nat /\ \A i \in 1 .. k : kept[i] = joined[i] BY <1>6, <1>7
  <2> QED BY <2>1, <2>2, SizesAgree
<1>10. MessageSize(kept) \in Nat
  <2>1. Len(kept) >= least /\ Len(kept) >= HeaderSize(kept) BY <1>6, <1>7, <1>9
  <2> QED BY <1>1, <1>7, <2>1, Sizes
<1> QED BY <1>3, <1>5, <1>6, <1>7, <1>8, <1>9, <1>10 DEF kept, KeptFits

TypesAndLimits == ReceiverTypeOK /\ BufferInv

\* The bytes that a read brings are kept.
LEMMA KeepLimits ==
  ASSUME TypesAndLimits, stage = "idle", NEW n \in 1 .. Fewer(Len(arriving), MaxDataPerRead),
         arriving' = Behind(arriving, n), UNCHANGED <<m_messageHeaderMinimumSize, sent>>,
         Keep(n), m_otherCompleteMessageFlag' \in BOOLEAN
  PROVE  TypesAndLimits'
<1>1. ReceiverTypeOK /\ BufferInv BY DEF TypesAndLimits
<1>2. First(arriving, n) \in Seq(Octets) /\ Behind(arriving, n) \in Seq(Octets) BY <1>1, ReadBytes
<1>3. Written(First(arriving, n)) \in Seq(Octets) /\ Len(Written(First(arriving, n))) <= ReceiveCapacity
  <2>1. fragment \in Seq(Octets) /\ Len(fragment) <= ReceiveCapacity BY <1>1 DEF ReceiverTypeOK, BufferInv
  <2> QED BY <1>2, <2>1, WrittenFits
<1>4. fragment' \in Seq(Octets) /\ Len(fragment') <= ReceiveCapacity BY <1>3 DEF Keep
<1>5. UNCHANGED <<m_overflowSize, stage, data, entered, after, rest, delivered, dropped>> BY DEF Keep, history
<1>6. ReceiverTypeOK'
  <2>1. arriving' \in Seq(Octets) BY <1>2
  <2> QED BY <1>1, <1>4, <1>5, <2>1 DEF ReceiverTypeOK
<1>7. BufferInv' BY <1>1, <1>4, <1>5 DEF BufferInv
<1> QED BY <1>6, <1>7 DEF TypesAndLimits

\* processData() is called.
LEMMA ProcessLimits ==
  ASSUME TypesAndLimits, NEW n \in 1 .. Fewer(Len(arriving), MaxDataPerRead),
         m_messageHeaderMinimumSize # 0,
         arriving' = Behind(arriving, n), UNCHANGED <<m_messageHeaderMinimumSize, sent>>,
         NEW s \in Seq(Octets), NEW origin \in {"BUFFER", "NEWMESSAGE", "lost"},
         NEW then \in {"return", "shift", "clear"}, NEW next \in Seq(Octets),
         then = "shift" => s = next,
         Process(s, origin, then, next),
         fragment' \in Seq(Octets), Len(fragment') <= ReceiveCapacity, m_overflowSize' \in Nat,
         m_otherCompleteMessageFlag' \in BOOLEAN
  PROVE  TypesAndLimits'
<1>1. ReceiverTypeOK /\ BufferInv BY DEF TypesAndLimits
<1>2. arriving' \in Seq(Octets) BY <1>1, ReadBytes
<1>3. /\ stage' = origin /\ data' = s /\ entered' = FALSE /\ after' = then /\ rest' = next
      /\ delivered' = delivered
  BY DEF Process, history
<1>4. ReceiverTypeOK' BY <1>1, <1>2, <1>3 DEF ReceiverTypeOK
<1>5. BufferInv'
  <2>1. Len(s) \in Nat BY LenProperties
  <2> QED BY <1>1, <1>3, <2>1 DEF BufferInv
<1> QED BY <1>4, <1>5 DEF TypesAndLimits

LEMMA DoCompleteMsgLimits ==
  ASSUME TypesAndLimits, stage = "idle", NEW n \in 1 .. Fewer(Len(arriving), MaxDataPerRead),
         arriving' = Behind(arriving, n), UNCHANGED <<m_messageHeaderMinimumSize, sent>>,
         doCompleteMsg(n)
  PROVE  TypesAndLimits'
<1> DEFINE joined  == fragment \o First(arriving, n)
           header  == HeaderSize(joined)
           k       == Larger(Len(fragment), Larger(m_messageHeaderMinimumSize, header))
           kept    == First(joined, k)
           more    == Behind(joined, Len(kept))
           msgSize == MessageSize(kept)
           missing == msgSize - header - Len(kept)
           flag    == IF stage' = "BUFFER" /\ after' = "clear" THEN setOtherCompleteMessageFlag(rest')
                      ELSE m_otherCompleteMessageFlag
           short   == \/ Len(fragment) < m_messageHeaderMinimumSize /\ Len(joined) <= m_messageHeaderMinimumSize
                      \/ Len(fragment) < header /\ Len(joined) <= header
<1>1. ReceiverTypeOK /\ BufferInv BY DEF TypesAndLimits
<1>2. m_messageHeaderMinimumSize # 0 /\ m_otherCompleteMessageFlag' = flag BY DEF doCompleteMsg
<1>3. flag \in BOOLEAN
  <2>1. m_otherCompleteMessageFlag \in BOOLEAN BY <1>1 DEF ReceiverTypeOK
  <2> QED BY <2>1 DEF setOtherCompleteMessageFlag
<1>4. IF short THEN Keep(n)
      ELSE IF msgSize > ReceiveCapacity
      THEN m_overflowSize' = msgSize - Len(kept) /\ fragment' = << >> /\ Process(more, "BUFFER", "return", << >>)
      ELSE IF msgSize > Len(joined) THEN Keep(n)
      ELSE IF ReceiveCapacity - Len(kept) > Len(more)
      THEN fragment' = joined /\ Process(joined, "BUFFER", "shift", joined) /\ UNCHANGED m_overflowSize
      ELSE /\ UNCHANGED m_overflowSize
           /\ IF missing < 0
              THEN Process(more, "lost", "return", << >>) /\ UNCHANGED fragment
              ELSE /\ fragment' = kept \o First(more, missing)
                   /\ Process(fragment', "BUFFER", "clear", Behind(more, missing))
  BY DEF doCompleteMsg
<1>5. m_otherCompleteMessageFlag' \in BOOLEAN BY <1>2, <1>3
<1> HIDE DEF flag
<1>6. CASE Keep(n) BY <1>5, <1>6, KeepLimits
<1>7. CASE ~Keep(n)
  <2>1. ~short BY <1>4, <1>7
  <2>2. PICK j : j = joined OBVIOUS
  <2>3. PICK l : l = k OBVIOUS
  <2>4. /\ j \in Seq(Octets) /\ Len(j) = Len(fragment) + n
        /\ HeaderSize(j) \in 0 .. ReceiveCapacity
        /\ l \in Nat /\ l <= Len(j) /\ l <= ReceiveCapacity /\ Len(fragment) <= l
        /\ First(j, l) \in Seq(Octets) /\ Len(First(j, l)) = l
        /\ Behind(j, l) \in Seq(Octets) /\ Len(Behind(j, l)) = Len(j) - l
        /\ MessageSize(First(j, l)) \in Nat
        /\ HeaderSize(First(j, l)) = HeaderSize(j)
    <3>1. /\ j = fragment \o First(arriving, n)
          /\ l = Larger(Len(fragment), Larger(m_messageHeaderMinimumSize, HeaderSize(j)))
      BY <2>2, <2>3
    <3>2. ~(Len(fragment) < m_messageHeaderMinimumSize /\ Len(j) <= m_messageHeaderMinimumSize)
      BY <2>1, <2>2
    <3>3. ~(Len(fragment) < HeaderSize(j) /\ Len(j) <= HeaderSize(j))
      BY <2>1, <2>2
    <3>4. m_messageHeaderMinimumSize # 0 BY <1>2
    <3>5. ReceiverTypeOK BY <1>1
    <3>6. BufferInv BY <1>1
    <3>7. j = fragment \o First(arriving, n) BY <3>1
    <3>8. l = Larger(Len(fragment), Larger(m_messageHeaderMinimumSize, HeaderSize(j))) BY <3>1
    <3> HIDE DEF joined, header, k, kept, more, msgSize, missing, short
    <3>9. KeptFits(j, n, l) BY <3>2, <3>3, <3>4, <3>5, <3>6, <3>7, <3>8, JoinedBytes
    <3> QED BY <3>9 DEF KeptFits
  <2> DEFINE a == First(j, l)
             b == Behind(j, l)
             m == MessageSize(a)
             d == m - HeaderSize(j) - l
  <2>5. \/ /\ m > ReceiveCapacity
           /\ m_overflowSize' = m - l /\ fragment' = << >> /\ Process(b, "BUFFER", "return", << >>)
        \/ /\ m <= Len(j) /\ m <= ReceiveCapacity
           /\ ReceiveCapacity - l > Len(b) /\ UNCHANGED m_overflowSize
           /\ fragment' = j /\ Process(j, "BUFFER", "shift", j)
        \/ Process(b, "lost", "return", << >>) /\ UNCHANGED <<fragment, m_overflowSize>>
        \/ /\ m <= Len(j) /\ m <= ReceiveCapacity /\ d >= 0 /\ UNCHANGED m_overflowSize
           /\ fragment' = a \o First(b, d) /\ Process(fragment', "BUFFER", "clear", Behind(b, d))
    <3>1. Len(kept) = l /\ kept = a /\ more = b /\ msgSize = m /\ missing = d /\ joined = j
      BY <2>2, <2>3, <2>4
    <3>2. m \in Nat /\ Len(j) \in Nat /\ l \in Nat /\ HeaderSize(j) \in Nat /\ ReceiveCapacity \in Nat
      BY <2>4, LenProperties, ReceiverAssumption
    <3> HIDE DEF joined, header, k, kept, more, msgSize, missing, short, a, b, m, d
    <3>3. CASE msgSize > ReceiveCapacity BY <1>4, <2>1, <3>1, <3>3
    <3>4. CASE ~(msgSize > ReceiveCapacity) /\ msgSize > Len(joined) BY <1>4, <1>7, <2>1, <3>4
    <3>5. CASE /\ ~(msgSize > ReceiveCapacity) /\ ~(msgSize > Len(joined))
               /\ ReceiveCapacity - Len(kept) > Len(more)
      <4>1. fragment' = joined /\ Process(joined, "BUFFER", "shift", joined) /\ UNCHANGED m_overflowSize
        BY <1>4, <2>1, <3>5
      <4>2. m <= Len(j) /\ m <= ReceiveCapacity /\ ReceiveCapacity - l > Len(b) BY <3>1, <3>2, <3>5
      <4> QED BY <3>1, <4>1, <4>2
    <3>6. CASE /\ ~(msgSize > ReceiveCapacity) /\ ~(msgSize > Len(joined))
               /\ ~(ReceiveCapacity - Len(kept) > Len(more))
      <4>1. UNCHANGED m_overflowSize BY <1>4, <2>1, <3>6
      <4>2. CASE missing < 0
        <5>1. Process(more, "lost", "return", << >>) /\ UNCHANGED fragment BY <1>4, <2>1, <3>6, <4>2
        <5> QED BY <3>1, <4>1, <5>1
      <4>3. CASE ~(missing < 0)
        <5>1. /\ fragment' = kept \o First(more, missing)
              /\ Process(fragment', "BUFFER", "clear", Behind(more, missing))
          BY <1>4, <2>1, <3>6, <4>3
        <5>2. m <= Len(j) /\ m <= ReceiveCapacity /\ d >= 0
          <6>1. d \in Int BY <3>2 DEF d
          <6> QED BY <3>1, <3>2, <3>6, <4>3, <6>1
        <5> QED BY <3>1, <4>1, <5>1, <5>2
      <4> QED BY <4>2, <4>3
    <3> QED BY <3>3, <3>4, <3>5, <3>6
  <2>6. << >> \in Seq(Octets) /\ Len(<< >>) = 0 BY EmptySeq
  <2>7. /\ a \in Seq(Octets) /\ b \in Seq(Octets) /\ Len(a) = l /\ Len(b) = Len(j) - l /\ m \in Nat
        /\ Len(j) \in Nat /\ Len(fragment) \in Nat /\ ReceiveCapacity \in Nat /\ HeaderSize(j) \in Nat
    <3>1. fragment \in Seq(Octets) BY <1>1 DEF ReceiverTypeOK
    <3> QED BY <2>4, <3>1, LenProperties, ReceiverAssumption
  <2>8. m_overflowSize \in Nat /\ fragment \in Seq(Octets) /\ Len(fragment) <= ReceiveCapacity
    BY <1>1 DEF ReceiverTypeOK, BufferInv
  <2> HIDE DEF joined, header, k, kept, more, msgSize, missing, short, a, b, m
  <2>9. CASE /\ m > ReceiveCapacity
             /\ m_overflowSize' = m - l /\ fragment' = << >> /\ Process(b, "BUFFER", "return", << >>)
    <3>1. fragment' \in Seq(Octets) /\ Len(fragment') <= ReceiveCapacity /\ m_overflowSize' \in Nat
      BY <2>4, <2>6, <2>7, <2>9
    <3>2. Process(b, "BUFFER", "return", << >>) /\ "BUFFER" \in {"BUFFER", "NEWMESSAGE", "lost"}
          /\ "return" \in {"return", "shift", "clear"} /\ "return" # "shift"
      BY <2>9
    <3> QED BY <1>2, <1>5, <2>6, <2>7, <3>1, <3>2, ProcessLimits
  <2>10. CASE /\ m <= Len(j) /\ m <= ReceiveCapacity
              /\ ReceiveCapacity - l > Len(b) /\ UNCHANGED m_overflowSize
              /\ fragment' = j /\ Process(j, "BUFFER", "shift", j)
    <3>1. fragment' \in Seq(Octets) /\ Len(fragment') <= ReceiveCapacity /\ m_overflowSize' \in Nat
      BY <2>4, <2>7, <2>8, <2>10
    <3>2. Process(j, "BUFFER", "shift", j) /\ "BUFFER" \in {"BUFFER", "NEWMESSAGE", "lost"}
          /\ "shift" \in {"return", "shift", "clear"} /\ j \in Seq(Octets)
      BY <2>4, <2>10
    <3> QED BY <1>2, <1>5, <3>1, <3>2, ProcessLimits
  <2>11. CASE Process(b, "lost", "return", << >>) /\ UNCHANGED <<fragment, m_overflowSize>>
    <3>1. fragment' \in Seq(Octets) /\ Len(fragment') <= ReceiveCapacity /\ m_overflowSize' \in Nat
      BY <2>8, <2>11
    <3>2. Process(b, "lost", "return", << >>) /\ "lost" \in {"BUFFER", "NEWMESSAGE", "lost"}
          /\ "return" \in {"return", "shift", "clear"} /\ "return" # "shift"
      BY <2>11
    <3> QED BY <1>2, <1>5, <2>6, <2>7, <3>1, <3>2, ProcessLimits
  <2>12. CASE /\ m <= Len(j) /\ m <= ReceiveCapacity /\ d >= 0 /\ UNCHANGED m_overflowSize
              /\ fragment' = a \o First(b, d) /\ Process(fragment', "BUFFER", "clear", Behind(b, d))
    <3>1. d \in Nat /\ d <= Len(b) /\ l + d <= ReceiveCapacity BY <2>4, <2>7, <2>12
    <3> HIDE DEF d
    <3>2. First(b, d) \in Seq(Octets) /\ Len(First(b, d)) = d /\ Behind(b, d) \in Seq(Octets)
      BY <2>7, <3>1, CutType
    <3>3. fragment' \in Seq(Octets) /\ Len(fragment') = l + d
      <4>1. PICK f : f = First(b, d) OBVIOUS
      <4>2. f \in Seq(Octets) /\ a \in Seq(Octets) /\ Len(a) = l /\ Len(f) = d BY <2>7, <3>2, <4>1
      <4>3. a \o f \in Seq(Octets) /\ Len(a \o f) = Len(a) + Len(f) BY <4>2, ConcatProperties
      <4> QED BY <2>12, <4>1, <4>2, <4>3
    <3>4. Len(fragment') <= ReceiveCapacity /\ m_overflowSize' \in Nat BY <2>8, <2>12, <3>1, <3>3
    <3>5. Process(fragment', "BUFFER", "clear", Behind(b, d)) /\ "BUFFER" \in {"BUFFER", "NEWMESSAGE", "lost"}
          /\ "clear" \in {"return", "shift", "clear"} /\ "clear" # "shift"
      BY <2>12
    <3>6. PICK f : f = fragment' OBVIOUS
    <3>7. f \in Seq(Octets) /\ Process(f, "BUFFER", "clear", Behind(b, d)) BY <3>3, <3>5, <3>6
    <3> QED BY <1>2, <1>5, <3>2, <3>3, <3>4, <3>5, <3>7, ProcessLimits
  <2> QED BY <2>5, <2>9, <2>10, <2>11, <2>12
<1> QED BY <1>6, <1>7

LEMMA ReadLimits ==
  ASSUME TypesAndLimits, NEW n \in 1 .. Fewer(Len(arriving), MaxDataPerRead), onDataReceived(n)
  PROVE  TypesAndLimits'
<1>1. ReceiverTypeOK /\ BufferInv BY DEF TypesAndLimits
<1>2. /\ stage = "idle" /\ arriving' = Behind(arriving, n)
      /\ UNCHANGED <<m_messageHeaderMinimumSize, sent>>
  BY DEF onDataReceived
<1>3. First(arriving, n) \in Seq(Octets) /\ Behind(arriving, n) \in Seq(Octets) BY <1>1, ReadBytes
<1>4. CASE PassOn(n)
  <2>1. /\ delivered' = Append(delivered, First(arriving, n)) /\ m_otherCompleteMessageFlag' = FALSE
        /\ UNCHANGED <<fragment, m_overflowSize, stage, data, entered, after, rest>>
    BY <1>4 DEF PassOn
  <2>2. delivered' \in Seq(Seq(Octets))
    <3> DEFINE T == Seq(Octets)
    <3>1. delivered \in Seq(T) /\ First(arriving, n) \in T BY <1>1, <1>3 DEF ReceiverTypeOK
    <3> HIDE DEF T
    <3>2. delivered' \in Seq(T) BY <2>1, <3>1, AppendProperties
    <3> QED BY <3>2 DEF T
  <2>3. ReceiverTypeOK' BY <1>1, <1>2, <1>3, <2>1, <2>2 DEF ReceiverTypeOK
  <2>4. BufferInv' BY <1>1, <1>2, <2>1 DEF BufferInv
  <2> QED BY <2>3, <2>4 DEF TypesAndLimits
<1>5. CASE NewMessage(n)
  <2>1. /\ m_messageHeaderMinimumSize # 0 /\ Process(First(arriving, n), "NEWMESSAGE", "return", << >>)
        /\ UNCHANGED <<fragment, m_overflowSize, m_otherCompleteMessageFlag>>
    BY <1>5 DEF NewMessage
  <2>2. /\ fragment' \in Seq(Octets) /\ Len(fragment') <= ReceiveCapacity /\ m_overflowSize' \in Nat
        /\ m_otherCompleteMessageFlag' \in BOOLEAN
    BY <1>1, <2>1 DEF ReceiverTypeOK, BufferInv
  <2>3. /\ << >> \in Seq(Octets) /\ "NEWMESSAGE" \in {"BUFFER", "NEWMESSAGE", "lost"}
        /\ "return" \in {"return", "shift", "clear"} /\ "return" # "shift"
    BY EmptySeq
  <2> QED BY <1>2, <1>3, <2>1, <2>2, <2>3, ProcessLimits
<1>6. CASE doCompleteMsg(n) BY <1>2, <1>6, DoCompleteMsgLimits
<1> QED BY <1>4, <1>5, <1>6 DEF onDataReceived

\* processData() returns.
LEMMA ReturnLimits ==
  ASSUME TypesAndLimits, stage \in {"BUFFER", "NEWMESSAGE"}, UNCHANGED wire,
         NEW buffer \in Seq(Octets), Len(buffer) <= ReceiveCapacity,
         NEW left \in Seq(Octets), Len(left) <= Len(data), Return(buffer, left),
         m_overflowSize' \in Nat, m_otherCompleteMessageFlag' \in BOOLEAN,
         delivered' \in Seq(Seq(Octets))
  PROVE  TypesAndLimits'
<1>1. ReceiverTypeOK /\ BufferInv BY DEF TypesAndLimits
<1>2. /\ fragment' \in Seq(Octets) /\ Len(fragment') <= ReceiveCapacity
      /\ data' \in Seq(Octets) /\ rest' \in Seq(Octets)
      /\ stage' \in {"idle", "NEWMESSAGE"} /\ entered' \in BOOLEAN
      /\ after' = "return"
  BY <1>1, ReturnFits
<1>3. ReceiverTypeOK' BY <1>1, <1>2 DEF ReceiverTypeOK, wire
<1>4. BufferInv' BY <1>1, <1>2 DEF BufferInv, wire
<1> QED BY <1>3, <1>4 DEF TypesAndLimits

\* processData() goes on, with some of its data behind it.
LEMMA RoundLimits ==
  ASSUME TypesAndLimits, stage \in {"BUFFER", "NEWMESSAGE"}, UNCHANGED wire,
         UNCHANGED <<fragment, after, rest>>, stage' \in {stage, "lost"}, entered' \in BOOLEAN,
         data' \in Seq(Octets), Len(data') <= Len(data),
         m_overflowSize' \in Nat, m_otherCompleteMessageFlag' \in BOOLEAN,
         delivered' \in Seq(Seq(Octets))
  PROVE  TypesAndLimits'
<1>1. ReceiverTypeOK /\ BufferInv BY DEF TypesAndLimits
<1>2. ReceiverTypeOK' BY <1>1 DEF ReceiverTypeOK, wire
<1>3. Len(data) \in Nat /\ Len(data') \in Nat /\ Len(rest) \in Nat BY <1>1, LenProperties DEF ReceiverTypeOK
<1>4. BufferInv' BY <1>1, <1>3 DEF BufferInv, wire
<1> QED BY <1>2, <1>4 DEF TypesAndLimits

LEMMA RoundOfProcessData ==
  ASSUME TypesAndLimits, processData
  PROVE  TypesAndLimits'
<1>1. ReceiverTypeOK /\ BufferInv BY DEF TypesAndLimits
<1>2. stage \in {"BUFFER", "NEWMESSAGE"} /\ UNCHANGED wire BY DEF processData
<1>3. /\ fragment \in Seq(Octets) /\ data \in Seq(Octets) /\ Len(data) <= Len(data)
      /\ m_overflowSize \in Nat /\ m_otherCompleteMessageFlag \in BOOLEAN
      /\ delivered \in Seq(Seq(Octets)) /\ Len(fragment) <= ReceiveCapacity /\ Len(data) \in Nat
  <2>1. data \in Seq(Octets) BY <1>1 DEF ReceiverTypeOK
  <2> QED BY <1>1, <2>1, LenProperties DEF ReceiverTypeOK, BufferInv
<1>4. /\ m_messageHeaderMinimumSize # 0 /\ m_messageHeaderMinimumSize \in HeaderSizes
      /\ m_messageHeaderMinimumSize \in Nat
  BY <1>1, <1>2, ReceiverAssumption DEF BufferInv, ReceiverTypeOK
<1>5. Written(data) \in Seq(Octets) /\ Len(Written(data)) <= ReceiveCapacity
  <2>1. fragment \in Seq(Octets) /\ Len(fragment) <= ReceiveCapacity BY <1>3
  <2> QED BY <1>3, <2>1, WrittenFits
<1>6. ASSUME Len(data) >= m_messageHeaderMinimumSize, Len(data) >= HeaderSize(data)
      PROVE  MessageSize(data) \in Nat
  BY <1>3, <1>4, <1>6, Sizes
<1>7. ASSUME dropData PROVE TypesAndLimits'
  <2> DEFINE n == Fewer(Len(data), m_overflowSize)
  <2>1. n \in Nat /\ n <= Len(data) /\ m_overflowSize - n \in Nat BY <1>3 DEF Fewer
  <2>2. PICK k \in Nat : k = n BY <2>1
  <2>3. Behind(data, k) \in Seq(Octets) /\ Len(Behind(data, k)) <= Len(data)
    <3>1. Behind(data, k) \in Seq(Octets) /\ Len(Behind(data, k)) = IF k <= Len(data) THEN Len(data) - k ELSE 0
      BY <1>3, CutType
    <3> QED BY <1>3, <3>1
  <2>4. /\ m_overflowSize' \in Nat /\ m_otherCompleteMessageFlag' \in BOOLEAN
        /\ delivered' \in Seq(Seq(Octets))
    BY <1>3, <1>7, <2>1 DEF dropData
  <2>5. CASE k < m_overflowSize
    <3>1. Return(fragment, Behind(data, k)) BY <1>7, <2>2, <2>5 DEF dropData
    <3> QED BY <1>2, <1>3, <2>3, <2>4, <3>1, ReturnLimits
  <2>6. CASE ~(k < m_overflowSize)
    <3>1. data' = Behind(data, k) /\ UNCHANGED <<fragment, stage, entered, after, rest>>
      BY <1>7, <2>2, <2>6 DEF dropData
    <3>2. entered' \in BOOLEAN /\ stage' \in {stage, "lost"} /\ UNCHANGED <<fragment, after, rest>>
          /\ data' \in Seq(Octets) /\ Len(data') <= Len(data)
      BY <1>1, <2>3, <3>1 DEF ReceiverTypeOK
    <3> QED BY <1>2, <2>4, <3>2, RoundLimits
  <2> QED BY <2>5, <2>6
<1>8. ASSUME NoHeader PROVE TypesAndLimits'
  <2>1. PICK b : b = IF entered THEN fragment ELSE Written(data) OBVIOUS
  <2>2. b \in Seq(Octets) /\ Len(b) <= ReceiveCapacity BY <1>3, <1>5, <2>1
  <2>3. Return(b, data) BY <1>8, <2>1 DEF NoHeader
  <2>4. /\ m_overflowSize' \in Nat /\ m_otherCompleteMessageFlag' \in BOOLEAN
        /\ delivered' \in Seq(Seq(Octets))
    BY <1>3, <1>8 DEF NoHeader, history
  <2> QED BY <1>2, <1>3, <2>2, <2>3, <2>4, ReturnLimits
<1>9. ASSUME NoSize PROVE TypesAndLimits'
  <2>1. Return(fragment, data) /\ delivered' = Append(delivered, data) BY <1>9 DEF NoSize
  <2>2. delivered' \in Seq(Seq(Octets))
    <3> DEFINE T == Seq(Octets)
    <3>1. delivered \in Seq(T) /\ data \in T BY <1>3
    <3> HIDE DEF T
    <3>2. delivered' \in Seq(T) BY <2>1, <3>1, AppendProperties
    <3> QED BY <3>2 DEF T
  <2>3. m_overflowSize' \in Nat /\ m_otherCompleteMessageFlag' \in BOOLEAN BY <1>3, <1>9 DEF NoSize
  <2> QED BY <1>2, <1>3, <2>1, <2>2, <2>3, ReturnLimits
<1>10. ASSUME Incomplete PROVE TypesAndLimits'
  <2>1. PICK b \in {fragment, Written(data)} : Return(b, data) BY <1>10 DEF Incomplete
  <2>2. b \in Seq(Octets) /\ Len(b) <= ReceiveCapacity BY <1>3, <1>5
  <2>3. /\ m_overflowSize' \in Nat /\ m_otherCompleteMessageFlag' \in BOOLEAN
        /\ delivered' \in Seq(Seq(Octets))
    BY <1>3, <1>10 DEF Incomplete, history
  <2>4. Return(b, data) BY <2>1
  <2> QED BY <1>2, <1>3, <2>2, <2>3, <2>4, ReturnLimits
<1>11. ASSUME Overflow PROVE TypesAndLimits'
  <2>1. Len(data) >= m_messageHeaderMinimumSize /\ Len(data) >= HeaderSize(data) BY <1>11 DEF Overflow
  <2>2. MessageSize(data) \in Nat BY <1>6, <2>1
  <2>3. m_overflowSize' \in Nat
    <3>1. m_overflowSize' = MessageSize(data) - Fewer(Len(data), MessageSize(data)) BY <1>11 DEF Overflow
    <3> QED BY <1>3, <2>2, <3>1 DEF Fewer
  <2>4. /\ stage' \in {stage, "lost"} /\ entered' \in BOOLEAN
        /\ UNCHANGED <<fragment, after, rest>> /\ data' \in Seq(Octets) /\ Len(data') <= Len(data)
        /\ m_otherCompleteMessageFlag' \in BOOLEAN /\ delivered' \in Seq(Seq(Octets))
    BY <1>3, <1>11 DEF Overflow, history
  <2> QED BY <1>2, <2>3, <2>4, RoundLimits
<1>12. ASSUME Complete PROVE TypesAndLimits'
  <2>1. Len(data) >= m_messageHeaderMinimumSize /\ Len(data) >= HeaderSize(data)
        /\ MessageSize(data) <= Len(data)
    BY <1>12 DEF Complete
  <2>2. PICK k \in Nat : k = MessageSize(data) BY <1>6, <2>1
  <2>3. /\ data' = Behind(data, k) /\ delivered' = Append(delivered, First(data, k)) /\ entered' = TRUE
        /\ m_otherCompleteMessageFlag' = setOtherCompleteMessageFlag(Behind(data, k))
        /\ UNCHANGED <<fragment, m_overflowSize, stage, after, rest>>
    BY <1>12, <2>2 DEF Complete
  <2>4. /\ Behind(data, k) \in Seq(Octets)
        /\ Len(Behind(data, k)) = IF k <= Len(data) THEN Len(data) - k ELSE 0
        /\ First(data, k) \in Seq(Octets)
    BY <1>3, <2>1, <2>2, CutType
  <2>5. delivered' \in Seq(Seq(Octets))
    <3> DEFINE T == Seq(Octets)
    <3>1. delivered \in Seq(T) /\ First(data, k) \in T BY <1>3, <2>4
    <3> HIDE DEF T
    <3>2. delivered' \in Seq(T) BY <2>3, <3>1, AppendProperties
    <3> QED BY <3>2 DEF T
  <2>6. m_otherCompleteMessageFlag' \in BOOLEAN BY <2>3 DEF setOtherCompleteMessageFlag
  <2>7. /\ stage' \in {stage, "lost"} /\ entered' \in BOOLEAN /\ UNCHANGED <<fragment, after, rest>>
        /\ data' \in Seq(Octets) /\ Len(data') <= Len(data) /\ m_overflowSize' \in Nat
    BY <1>3, <2>3, <2>4
  <2> QED BY <1>2, <2>5, <2>6, <2>7, RoundLimits
<1> QED BY <1>7, <1>8, <1>9, <1>10, <1>11, <1>12 DEF processData

\* Whatever comes, everything has its type, and what is kept fits the buffer.
LEMMA LimitsKept ==
  ASSUME TypesAndLimits, [ReceiverNext]_receiverVars
  PROVE  TypesAndLimits'
<1>1. ASSUME NEW n \in 1 .. Fewer(Len(arriving), MaxDataPerRead), onDataReceived(n)
      PROVE  TypesAndLimits'
  BY <1>1, ReadLimits
<1>2. CASE processData BY <1>2, RoundOfProcessData
<1>3. CASE UNCHANGED receiverVars
  BY <1>3 DEF receiverVars, wire, history, TypesAndLimits, ReceiverTypeOK, BufferInv
<1> QED BY <1>1, <1>2, <1>3 DEF ReceiverNext

LEMMA LimitsInitially ==
  ASSUME ReceiverInit
  PROVE  TypesAndLimits
<1>1. sent \in Seq(Seq(Octets)) BY ReceiverAssumption DEF ReceiverInit
<1>2. arriving \in Seq(Octets) BY <1>1, FlattenType DEF ReceiverInit
<1>3. << >> \in Seq(Octets) /\ << >> \in Seq(Seq(Octets)) /\ Len(<< >>) = 0 BY EmptySeq
<1>4. ReceiverTypeOK BY <1>2, <1>3 DEF ReceiverInit, ReceiverTypeOK
<1>5. BufferInv BY <1>3, ReceiverAssumption DEF ReceiverInit, BufferInv
<1> QED BY <1>4, <1>5 DEF TypesAndLimits

-----------------------------------------------------------------------------
(* Messages with a header of one byte.                                     *)

\* What comes next is m, and then r.
NextIs(p, m, r) ==
  /\ Len(delivered) < Len(sent) /\ m = sent[Len(delivered) + 1]
  /\ m \in Seq(Octets) /\ r \in Seq(Octets) /\ p = m \o r
  /\ HeaderSize(m) = 1 /\ MessageSize(m) = Len(m)
  /\ Len(m) > 1 /\ Len(m) + MaxDataPerRead <= ReceiveCapacity
  /\ IsPrefix(Append(delivered, m), sent)
  /\ FlattenSeq(Append(delivered, m)) \o r = FlattenSeq(sent)

\* What is not delivered yet begins with the next message.
LEMMA NextMessage ==
  ASSUME TypesAndLimits, Sized, IsPrefix(delivered, sent),
         NEW p \in Seq(Octets), FlattenSeq(delivered) \o p = FlattenSeq(sent), p # << >>
  PROVE  \E m, r : NextIs(p, m, r)
<1> DEFINE k == Len(delivered)
           m == sent[k + 1]
           T == Seq(Octets)
<1>1. delivered \in Seq(Seq(Octets)) /\ sent \in Seq(Seq(Octets))
  BY ReceiverAssumption DEF TypesAndLimits, ReceiverTypeOK
<1>2. k \in Nat /\ Len(sent) \in Nat /\ k <= Len(sent) /\ delivered = SubSeq(sent, 1, k)
  <2>1. Len(delivered) \in Nat /\ Len(sent) \in Nat BY <1>1, LenProperties
  <2>2. Len(delivered) <= Len(sent) /\ SubSeq(delivered, 1, k) = SubSeq(sent, 1, k)
    BY DEF IsPrefix
  <2>3. SubSeq(delivered, 1, k) = delivered
    <3>1. delivered \in Seq(T) BY <1>1
    <3> HIDE DEF T
    <3> QED BY <3>1, SubSeqFull
  <2> QED BY <2>1, <2>2, <2>3
<1>3. FlattenSeq(delivered) \in Seq(Octets) BY <1>1, FlattenType
<1>4. k # Len(sent)
  <2> SUFFICES ASSUME k = Len(sent) PROVE FALSE
    OBVIOUS
  <2>1. SubSeq(sent, 1, Len(sent)) = sent
    <3>1. sent \in Seq(T) BY <1>1
    <3> HIDE DEF T
    <3> QED BY <3>1, SubSeqFull
  <2>2. delivered = sent BY <1>2, <2>1
  <2>3. FlattenSeq(delivered) \o p = FlattenSeq(delivered) BY <2>2
  <2>4. p = << >> BY <1>3, <2>3, ConcatSimplifications
  <2> QED BY <2>4
<1>5. k + 1 <= Len(sent) /\ k + 1 \in 1 .. Len(sent) BY <1>2, <1>4
<1>6. PICK j \in Nat : j = k BY <1>2
<1>7. /\ sent[j + 1] \in Seq(Octets)
      /\ FlattenSeq(SubSeq(sent, 1, j + 1)) = FlattenSeq(SubSeq(sent, 1, j)) \o sent[j + 1]
      /\ \E r \in Seq(Octets) :
           /\ FlattenSeq(sent) = FlattenSeq(SubSeq(sent, 1, j)) \o (sent[j + 1] \o r)
           /\ FlattenSeq(sent) = FlattenSeq(SubSeq(sent, 1, j + 1)) \o r
  <2>1. j + 1 <= Len(sent) BY <1>5, <1>6
  <2>2. sent \in Seq(Seq(Octets)) BY <1>1
  <2>3. NextPart(sent, j, Octets)
    <3> HIDE DEF k
    <3> QED BY <2>1, <2>2, FlattenNext
  <2> QED BY <2>3 DEF NextPart
<1>8. m \in Seq(Octets) /\ FlattenSeq(SubSeq(sent, 1, k + 1)) = FlattenSeq(delivered) \o m
  BY <1>2, <1>6, <1>7
<1>9. PICK r \in Seq(Octets) : /\ FlattenSeq(sent) = FlattenSeq(delivered) \o (m \o r)
                               /\ FlattenSeq(sent) = FlattenSeq(SubSeq(sent, 1, k + 1)) \o r
  BY <1>2, <1>6, <1>7
<1>10. p = m \o r
  <2>1. PICK a, b : a = FlattenSeq(delivered) /\ b = m \o r OBVIOUS
  <2>2. b \in Seq(Octets) BY <1>8, <2>1, ConcatProperties
  <2>3. a \in Seq(Octets) /\ a \o p = a \o b BY <1>3, <1>9, <2>1
  <2>4. p = b BY <2>2, <2>3, ConcatSimplifications
  <2> QED BY <2>1, <2>4
<1>11. SubSeq(sent, 1, k + 1) = Append(delivered, m)
  <2>1. sent \in Seq(T) BY <1>1
  <2> HIDE DEF T
  <2>2. SubSeq(sent, 1, j + 1) = Append(SubSeq(sent, 1, j), sent[j + 1])
    <3>1. j + 1 <= Len(sent) BY <1>5, <1>6
    <3> HIDE DEF k
    <3> QED BY <2>1, <3>1, LastOfSeq
  <2> QED BY <1>2, <1>6, <2>2
<1>12. IsPrefix(Append(delivered, m), sent)
  <2> DEFINE e == Append(delivered, m)
  <2>1. delivered \in Seq(T) /\ m \in T BY <1>1, <1>8
  <2> HIDE DEF T
  <2>2. e \in Seq(T) /\ Len(e) = k + 1
    <3>1. PICK d \in Seq(T), x \in T : d = delivered /\ x = m BY <2>1
    <3>2. Append(d, x) \in Seq(T) /\ Len(Append(d, x)) = Len(d) + 1 BY AppendProperties
    <3> QED BY <3>1, <3>2
  <2> HIDE DEF e
  <2>3. SubSeq(e, 1, Len(e)) = e BY <2>2, SubSeqFull
  <2>4. e = SubSeq(sent, 1, k + 1) BY <1>11 DEF e
  <2>5. IsPrefix(e, sent) BY <1>5, <2>2, <2>3, <2>4 DEF IsPrefix
  <2> QED BY <2>5 DEF e
<1>13. FlattenSeq(Append(delivered, m)) \o r = FlattenSeq(sent) BY <1>9, <1>11
<1>14. HeaderSize(m) = 1 /\ MessageSize(m) = Len(m) /\ Len(m) > 1 /\ Len(m) + MaxDataPerRead <= ReceiveCapacity
  <2>1. m \in Range(sent)
    <3>1. Range(sent) = {sent[i] : i \in DOMAIN sent} BY DEF Range
    <3>2. DOMAIN sent = 1 .. Len(sent) BY <1>1, LenProperties
    <3> QED BY <1>5, <3>1, <3>2
  <2> HIDE DEF m
  <2> QED BY <2>1 DEF Sized
<1>15. NextIs(p, m, r) BY <1>2, <1>5, <1>8, <1>10, <1>12, <1>13, <1>14 DEF NextIs
<1> QED BY <1>15

\* s begins with the header of the next message, m; t comes behind s.
Begins(s, t, m) ==
  /\ Len(delivered) < Len(sent) /\ m = sent[Len(delivered) + 1]
  /\ m \in Seq(Octets)
  /\ HeaderSize(s) = 1 /\ DataSize(s) # 0 /\ MessageSize(s) = Len(m)
  /\ Len(m) > 1 /\ Len(m) + MaxDataPerRead <= ReceiveCapacity
  /\ Len(m) <= Len(s) =>
       /\ First(s, Len(m)) = m
       /\ IsPrefix(Append(delivered, m), sent)
       /\ FlattenSeq(Append(delivered, m)) \o (Behind(s, Len(m)) \o t) = FlattenSeq(sent)

LEMMA HeaderAhead ==
  ASSUME TypesAndLimits, Sized, IsPrefix(delivered, sent),
         NEW s \in Seq(Octets), NEW t \in Seq(Octets), s # << >>,
         FlattenSeq(delivered) \o (s \o t) = FlattenSeq(sent)
  PROVE  \E m : Begins(s, t, m)
<1>1. s \o t \in Seq(Octets) /\ Len(s \o t) = Len(s) + Len(t) BY ConcatProperties
<1>2. Len(s) \in Nat /\ Len(s) # 0 /\ Len(t) \in Nat BY LenProperties, EmptySeq
<1>3. s \o t # << >> BY <1>1, <1>2
<1>4. PICK m, r : NextIs(s \o t, m, r) BY <1>1, <1>3, NextMessage
<1>5. m \in Seq(Octets) /\ r \in Seq(Octets) /\ s \o t = m \o r BY <1>4 DEF NextIs
<1>6. Len(m) \in Nat BY <1>5, LenProperties
<1>7. HeaderSize(m) = 1 /\ MessageSize(m) = Len(m) /\ Len(m) > 1 BY <1>4 DEF NextIs
<1>8. m_messageHeaderMinimumSize = 1 /\ m_messageHeaderMinimumSize \in HeaderSizes
  BY DEF Sized, TypesAndLimits, ReceiverTypeOK
<1>9. s[1] = m[1]
  <2>1. \A i \in 1 .. Len(s) : i <= Len(m) => s[i] = m[i] BY <1>5, SameStart
  <2> QED BY <1>2, <1>6, <1>7, <2>1
<1>10. HeaderSize(s) = HeaderSize(m) /\ DataSize(s) = DataSize(m) /\ MessageSize(s) = MessageSize(m)
  <2>1. m_messageHeaderMinimumSize \in Nat /\ HeaderSize(m) \in Nat /\ 1 >= m_messageHeaderMinimumSize
        /\ 1 >= HeaderSize(m) /\ 1 \in Nat
    BY <1>7, <1>8
  <2>2. \A i \in 1 .. 1 : s[i] = m[i] BY <1>9
  <2> QED BY <2>1, <2>2, SizesAgree
<1>11. DataSize(m) \in Nat /\ MessageSize(m) = HeaderSize(m) + DataSize(m)
  <2>1. Len(m) >= m_messageHeaderMinimumSize /\ Len(m) >= HeaderSize(m) BY <1>6, <1>7, <1>8
  <2>2. m_messageHeaderMinimumSize # 0 BY <1>8
  <2> QED BY <1>5, <1>8, <2>1, <2>2, Sizes
<1>12. DataSize(s) # 0 BY <1>7, <1>10, <1>11
<1>13. ASSUME Len(m) <= Len(s)
       PROVE  /\ First(s, Len(m)) = m
              /\ FlattenSeq(Append(delivered, m)) \o (Behind(s, Len(m)) \o t) = FlattenSeq(sent)
  <2>1. First(s, Len(m)) = m /\ Behind(s, Len(m)) \o t = r BY <1>5, <1>13, SplitAt
  <2> QED BY <1>4, <2>1 DEF NextIs
<1>14. Begins(s, t, m) BY <1>4, <1>7, <1>10, <1>12, <1>13 DEF NextIs, Begins
<1> QED BY <1>14

LEMMA BehindBehind ==
  ASSUME NEW S, NEW s \in Seq(S), NEW x \in Nat, NEW y \in Nat, x + y <= Len(s)
  PROVE  Behind(Behind(s, x), y) = Behind(s, x + y)
<1>1. Len(s) \in Nat /\ x + y \in Nat /\ x <= Len(s) BY LenProperties
<1> DEFINE a == Behind(s, x)
           b == Behind(a, y)
           c == Behind(s, x + y)
<1>2. a \in Seq(S) /\ Len(a) = Len(s) - x /\ \A i \in 1 .. Len(s) - x : a[i] = s[x + i]
  BY <1>1, CutType
<1> HIDE DEF a
<1>3. b \in Seq(S) /\ Len(b) = Len(a) - y /\ \A i \in 1 .. Len(a) - y : b[i] = a[y + i]
  <2>1. y <= Len(a) BY <1>1, <1>2
  <2> QED BY <1>2, <2>1, CutType
<1>4. c \in Seq(S) /\ Len(c) = Len(s) - (x + y) /\ \A i \in 1 .. Len(s) - (x + y) : c[i] = s[x + y + i]
  <2>1. PICK z \in Nat : z = x + y BY <1>1
  <2>2. /\ Behind(s, z) \in Seq(S) /\ Len(Behind(s, z)) = IF z <= Len(s) THEN Len(s) - z ELSE 0
        /\ \A i \in 1 .. Len(s) - z : Behind(s, z)[i] = s[z + i]
    BY CutType
  <2> QED BY <2>1, <2>2
<1> HIDE DEF b, c
<1>5. Len(b) = Len(c) BY <1>1, <1>2, <1>3, <1>4
<1>6. ASSUME NEW i \in 1 .. Len(b) PROVE b[i] = c[i]
  <2>1. i \in 1 .. Len(a) - y /\ y + i \in 1 .. Len(s) - x /\ i \in 1 .. Len(s) - (x + y)
        /\ x + (y + i) = x + y + i
    BY <1>1, <1>2, <1>3
  <2> QED BY <1>2, <1>3, <1>4, <2>1
<1>7. b = c BY <1>3, <1>4, <1>5, <1>6, SeqEqual
<1> QED BY <1>7 DEF a, b, c

LEMMA BehindNothing ==
  ASSUME NEW S, NEW s \in Seq(S)
  PROVE  Behind(s, 0) = s
<1>1. /\ Behind(s, 0) \in Seq(S) /\ Len(Behind(s, 0)) = Len(s)
      /\ \A i \in 1 .. Len(s) : Behind(s, 0)[i] = s[i]
  <2>1. Len(s) \in Nat BY LenProperties
  <2>2. PICK z \in Nat : z = 0 OBVIOUS
  <2>3. /\ Behind(s, z) \in Seq(S) /\ Len(Behind(s, z)) = IF z <= Len(s) THEN Len(s) - z ELSE 0
        /\ \A i \in 1 .. Len(s) - z : Behind(s, z)[i] = s[z + i]
    BY CutType
  <2> QED BY <2>1, <2>2, <2>3
<1> QED BY <1>1, SeqEqual

\* Which messages are sized does not change.
LEMMA SizedKept ==
  ASSUME UNCHANGED <<m_messageHeaderMinimumSize, sent>>
  PROVE  /\ Sized' <=> Sized
         /\ \A s : setOtherCompleteMessageFlag(s)' <=> setOtherCompleteMessageFlag(s)
BY DEF Sized, setOtherCompleteMessageFlag, HeaderSize, DataSize, MessageSize

\* The bytes that are not delivered yet, before and after a read
LEMMA FramedBytes ==
  ASSUME TypesAndLimits, Sized, FramingInv
  PROVE  /\ m_messageHeaderMinimumSize = 1 /\ m_messageHeaderMinimumSize # 0
         /\ IsPrefix(delivered, sent) /\ m_overflowSize = 0
         /\ arriving \in Seq(Octets) /\ fragment \in Seq(Octets) /\ data \in Seq(Octets) /\ rest \in Seq(Octets)
         /\ stage = "idle" => FlattenSeq(delivered) \o (fragment \o arriving) = FlattenSeq(sent)
         /\ stage # "idle" => FlattenSeq(delivered) \o (data \o arriving) = FlattenSeq(sent)
<1>1. m_messageHeaderMinimumSize = 1 BY DEF Sized
<1>2. /\ IsPrefix(delivered, sent) /\ m_overflowSize = 0
      /\ FlattenSeq(delivered) \o Pending = FlattenSeq(sent)
  BY DEF FramingInv
<1>3. Pending = (IF stage = "idle" THEN fragment ELSE data) \o arriving BY DEF Pending
<1>4. /\ arriving \in Seq(Octets) /\ fragment \in Seq(Octets)
      /\ data \in Seq(Octets) /\ rest \in Seq(Octets)
  BY DEF TypesAndLimits, ReceiverTypeOK
<1>5. CASE stage = "idle"
  <2>1. Pending = fragment \o arriving BY <1>3, <1>5
  <2> QED BY <1>1, <1>2, <1>4, <1>5, <2>1
<1>6. CASE stage # "idle"
  <2>1. Pending = data \o arriving BY <1>3, <1>6
  <2> QED BY <1>1, <1>2, <1>4, <1>6, <2>1
<1> QED BY <1>5, <1>6

LEMMA NewMessageFraming ==
  ASSUME TypesAndLimits, Sized, FramingInv, NEW n \in 1 .. Fewer(Len(arriving), MaxDataPerRead),
         stage = "idle", arriving' = Behind(arriving, n), UNCHANGED <<m_messageHeaderMinimumSize, sent>>,
         NewMessage(n)
  PROVE  FramingInv'
<1>1. /\ fragment = << >> /\ UNCHANGED <<fragment, m_overflowSize, m_otherCompleteMessageFlag, delivered>>
      /\ stage' = "NEWMESSAGE" /\ data' = First(arriving, n) /\ after' = "return"
  BY DEF NewMessage, Process, history
<1>2. /\ IsPrefix(delivered, sent) /\ m_overflowSize = 0 /\ arriving \in Seq(Octets)
      /\ FlattenSeq(delivered) \o (fragment \o arriving) = FlattenSeq(sent)
  BY FramedBytes
<1>3. ~m_otherCompleteMessageFlag BY DEF FramingInv
<1>4. First(arriving, n) \o Behind(arriving, n) = arriving
  <2>1. n \in 0 .. Len(arriving) BY <1>2, ReadBytes, LenProperties DEF TypesAndLimits
  <2> QED BY <1>2, <2>1, CutJoins
<1>5. fragment \o arriving = arriving BY <1>1, <1>2, ConcatEmptySeq
<1>6. Pending' = arriving BY <1>1, <1>4 DEF Pending
<1> QED BY <1>1, <1>2, <1>3, <1>5, <1>6 DEF FramingInv

\* The bytes of a read behind a fragment: kept, if they do not complete the message;
\* else all of them fit, and are processed together.
LEMMA DoCompleteMsgFraming ==
  ASSUME TypesAndLimits, Sized, FramingInv, NEW n \in 1 .. Fewer(Len(arriving), MaxDataPerRead),
         stage = "idle", arriving' = Behind(arriving, n), UNCHANGED <<m_messageHeaderMinimumSize, sent>>,
         doCompleteMsg(n)
  PROVE  FramingInv'
<1>1. fragment # << >> BY DEF doCompleteMsg
<1>2. /\ m_messageHeaderMinimumSize = 1 /\ IsPrefix(delivered, sent) /\ m_overflowSize = 0
      /\ arriving \in Seq(Octets) /\ fragment \in Seq(Octets)
      /\ FlattenSeq(delivered) \o (fragment \o arriving) = FlattenSeq(sent)
  BY FramedBytes
<1>3. /\ ~m_otherCompleteMessageFlag
      /\ Len(delivered) < Len(sent) => Len(fragment) < Len(sent[Len(delivered) + 1])
  BY DEF FramingInv
<1>4. PICK a, b : a = First(arriving, n) /\ b = Behind(arriving, n) OBVIOUS
<1>5. /\ a \in Seq(Octets) /\ Len(a) = n /\ b \in Seq(Octets) /\ a \o b = arriving
      /\ n \in Nat \ {0} /\ n <= MaxDataPerRead
  <2>1. n \in 0 .. Len(arriving) BY <1>2, ReadBytes, LenProperties DEF TypesAndLimits
  <2>2. First(arriving, n) \o Behind(arriving, n) = arriving BY <1>2, <2>1, CutJoins
  <2> QED BY <1>4, <2>2, ReadBytes DEF TypesAndLimits
<1> DEFINE joined == fragment \o a
<1>6. joined \in Seq(Octets) /\ Len(joined) = Len(fragment) + n
  BY <1>2, <1>5, ConcatProperties
<1>7. joined \o b = fragment \o arriving
  <2>1. PICK f : f = fragment OBVIOUS
  <2>2. f \in Seq(Octets) BY <1>2, <2>1
  <2>3. a \in Seq(Octets) BY <1>5
  <2>4. b \in Seq(Octets) BY <1>5
  <2>5. (f \o a) \o b = f \o (a \o b) BY ONLY <2>2, <2>3, <2>4, Regroup
  <2> QED BY <1>5, <2>1, <2>5
<1>8. PICK m : Begins(fragment, arriving, m) BY <1>1, <1>2, HeaderAhead
<1>9. PICK m1 : Begins(joined, b, m1)
  <2>1. FlattenSeq(delivered) \o (joined \o b) = FlattenSeq(sent) BY <1>2, <1>7
  <2>2. joined # << >>
    <3>1. Len(fragment) \in Nat BY <1>2, LenProperties
    <3>2. Len(joined) # 0 BY <1>5, <1>6, <3>1
    <3> QED BY <1>6, <3>2, EmptySeq
  <2>3. IsPrefix(delivered, sent) /\ b \in Seq(Octets) /\ joined \in Seq(Octets) BY <1>2, <1>5, <1>6
  <2> HIDE DEF joined
  <2> QED BY <2>1, <2>2, <2>3, HeaderAhead
<1>10. /\ Len(delivered) < Len(sent) /\ m = sent[Len(delivered) + 1]
       /\ Len(m) \in Nat /\ Len(m) > 1 /\ Len(m) + MaxDataPerRead <= ReceiveCapacity
       /\ HeaderSize(fragment) = 1 /\ MessageSize(fragment) = Len(m)
       /\ HeaderSize(joined) = 1
  <2>1. m \in Seq(Octets) BY <1>8 DEF Begins
  <2> QED BY <1>8, <1>9, <2>1, LenProperties DEF Begins
<1>11. Len(fragment) \in Nat /\ Len(fragment) # 0 /\ Len(fragment) < Len(m)
       /\ ReceiveCapacity \in Nat /\ MaxDataPerRead \in Nat
  <2>1. Len(fragment) \in Nat /\ Len(fragment) # 0 BY <1>1, <1>2, LenProperties, EmptySeq
  <2> QED BY <1>3, <1>10, <2>1, ReceiverAssumption
<1>12. Larger(Len(fragment), Larger(m_messageHeaderMinimumSize, HeaderSize(joined))) = Len(fragment)
  BY <1>2, <1>10, <1>11 DEF Larger
<1>13. First(joined, Len(fragment)) = fragment /\ Behind(joined, Len(fragment)) = a
  <2>1. PICK f : f = joined OBVIOUS
  <2>2. f \in Seq(Octets) /\ f \o << >> = fragment \o a BY <1>6, <2>1, ConcatEmptySeq
  <2>3. << >> \in Seq(Octets) /\ Len(fragment) <= Len(f) BY <1>5, <1>6, <1>11, <2>1, EmptySeq
  <2>4. a \in Seq(Octets) /\ fragment \in Seq(Octets) BY <1>2, <1>5
  <2>5. First(f, Len(fragment)) = fragment /\ Behind(f, Len(fragment)) \o << >> = a
    <3> HIDE DEF joined
    <3> QED BY <2>2, <2>3, <2>4, SplitAt
  <2>6. Behind(f, Len(fragment)) \in Seq(Octets) BY <1>11, <2>2, CutType
  <2>7. Behind(f, Len(fragment)) \o << >> = Behind(f, Len(fragment)) BY <2>6, ConcatEmptySeq
  <2> QED BY <2>1, <2>5, <2>7
<1> DEFINE header  == HeaderSize(joined)
           kept    == First(joined, Larger(Len(fragment), Larger(m_messageHeaderMinimumSize, header)))
           more    == Behind(joined, Len(kept))
           msgSize == MessageSize(kept)
<1>14. kept = fragment /\ more = a /\ msgSize = Len(m)
  <2>1. kept = fragment BY <1>12, <1>13
  <2> HIDE DEF kept
  <2> QED BY <1>10, <1>13, <2>1
<1>15. ~(\/ Len(fragment) < m_messageHeaderMinimumSize /\ Len(joined) <= m_messageHeaderMinimumSize
         \/ Len(fragment) < header /\ Len(joined) <= header)
  BY <1>2, <1>10, <1>11
<1>16. CASE msgSize > Len(joined)
  <2>1. ~(msgSize > ReceiveCapacity) BY <1>10, <1>11, <1>14
  <2>2. Keep(n) BY <1>4, <1>15, <1>16, <2>1 DEF doCompleteMsg
  <2>3. fragment' = joined
    <3>1. Len(fragment) + Len(a) <= ReceiveCapacity BY <1>5, <1>6, <1>10, <1>11, <1>14, <1>16
    <3> QED BY <1>4, <2>2, <3>1 DEF Keep, Written
  <2>4. UNCHANGED <<m_overflowSize, stage, delivered>> BY <2>2 DEF Keep, history
  <2>5. m_otherCompleteMessageFlag' = m_otherCompleteMessageFlag
    <3>1. stage' # "BUFFER" BY <2>4
    <3> QED BY <3>1 DEF doCompleteMsg
  <2>6. Pending' = joined \o b BY <1>4, <2>3, <2>4 DEF Pending
  <2>7. Len(fragment') < Len(sent'[Len(delivered') + 1]) BY <1>6, <1>10, <1>11, <1>14, <1>16, <2>3, <2>4
  <2> QED BY <1>2, <1>3, <1>7, <2>4, <2>5, <2>6, <2>7 DEF FramingInv
<1>17. CASE ~(msgSize > Len(joined))
  <2>1. ~(msgSize > ReceiveCapacity) BY <1>10, <1>11, <1>14
  <2>2. ReceiveCapacity - Len(kept) > Len(more) BY <1>5, <1>10, <1>11, <1>14
  <2>3. fragment' = joined /\ Process(joined, "BUFFER", "shift", joined) /\ UNCHANGED m_overflowSize
    BY <1>4, <1>15, <1>17, <2>1, <2>2 DEF doCompleteMsg
  <2>4. /\ stage' = "BUFFER" /\ data' = joined /\ after' = "shift" /\ rest' = joined
        /\ UNCHANGED delivered
    BY <2>3 DEF Process, history
  <2>5. m_otherCompleteMessageFlag' = m_otherCompleteMessageFlag
    <3>1. after' # "clear" BY <2>4
    <3> QED BY <3>1 DEF doCompleteMsg
  <2>6. Pending' = joined \o b BY <1>4, <2>4 DEF Pending
  <2>7. data' = Behind(rest', Len(rest') - Len(data'))
    <3>1. Behind(joined, 0) = joined
      <4>1. PICK f : f = joined OBVIOUS
      <4>2. Behind(f, 0) = f BY <1>6, <4>1, BehindNothing
      <4> QED BY <4>1, <4>2
    <3>2. Len(joined) - Len(joined) = 0 BY <1>5, <1>6, <1>11
    <3> QED BY <2>4, <3>1, <3>2
  <2> QED BY <1>2, <1>3, <1>7, <2>3, <2>4, <2>5, <2>6, <2>7 DEF FramingInv
<1> QED BY <1>16, <1>17

\* processData() returns with data that are not a complete message: they are what
\* the buffer has.
LEMMA ReturnFraming ==
  ASSUME TypesAndLimits, Sized, FramingInv, stage \in {"BUFFER", "NEWMESSAGE"}, UNCHANGED wire,
         NEW buffer, stage = "BUFFER" => buffer = fragment, stage = "NEWMESSAGE" => buffer = data,
         Return(buffer, data),
         UNCHANGED <<m_overflowSize, m_otherCompleteMessageFlag, delivered>>,
         ~setOtherCompleteMessageFlag(data),
         Len(delivered) < Len(sent) => Len(data) < Len(sent[Len(delivered) + 1])
  PROVE  FramingInv'
<1>1. fragment' = data /\ stage' = "idle"
  <2>1. CASE stage = "NEWMESSAGE"
    <3>1. after = "return" BY <2>1 DEF FramingInv
    <3> QED BY <2>1, <3>1 DEF Return
  <2>2. CASE stage = "BUFFER"
    <3>1. after = "shift" /\ fragment = rest /\ data = Behind(rest, Len(rest) - Len(data))
      BY <2>2 DEF FramingInv
    <3> QED BY <2>2, <3>1 DEF Return
  <2> QED BY <2>1, <2>2
<1>2. ~m_otherCompleteMessageFlag
  <2>1. m_otherCompleteMessageFlag => setOtherCompleteMessageFlag(data) BY DEF FramingInv
  <2> QED BY <2>1
<1>3. Pending' = Pending BY <1>1 DEF Pending, wire
<1>4. /\ IsPrefix(delivered, sent) /\ m_overflowSize = 0
      /\ FlattenSeq(delivered) \o Pending = FlattenSeq(sent)
  BY DEF FramingInv
<1> QED BY <1>1, <1>2, <1>3, <1>4 DEF FramingInv, wire

LEMMA ProcessDataFraming ==
  ASSUME TypesAndLimits, Sized, FramingInv, processData
  PROVE  FramingInv'
<1>1. stage \in {"BUFFER", "NEWMESSAGE"} /\ stage # "idle" /\ UNCHANGED wire BY DEF processData
<1>2. /\ m_messageHeaderMinimumSize = 1 /\ IsPrefix(delivered, sent) /\ m_overflowSize = 0
      /\ arriving \in Seq(Octets) /\ fragment \in Seq(Octets) /\ data \in Seq(Octets) /\ rest \in Seq(Octets)
      /\ FlattenSeq(delivered) \o (data \o arriving) = FlattenSeq(sent)
  BY <1>1, FramedBytes
<1>3. Len(data) \in Nat /\ ReceiveCapacity \in Nat /\ MaxDataPerRead \in Nat /\ Len(rest) \in Nat
  BY <1>2, LenProperties, ReceiverAssumption
<1>4. stage = "NEWMESSAGE" => fragment = << >> BY DEF FramingInv
<1>5. Len(data) <= ReceiveCapacity /\ fragment = << >> => Written(data) = data
  <2>1. Len(<< >>) = 0 /\ << >> \o data = data BY <1>2, EmptySeq, ConcatEmptySeq
  <2> QED BY <1>3, <2>1 DEF Written
<1>6. ASSUME data # << >> PROVE \E m : Begins(data, arriving, m)
  BY <1>2, <1>6, HeaderAhead
<1>7. Len(data) >= 1 => data # << >> BY EmptySeq
<1>8. ~dropData BY <1>2 DEF dropData
<1>9. CASE NoHeader
  <2>1. Len(data) = 0 /\ data = << >>
    <3>1. Len(data) = 0 BY <1>2, <1>3, <1>9 DEF NoHeader
    <3> QED BY <1>2, <3>1, EmptySeq
  <2>2. PICK b : b = IF entered THEN fragment ELSE Written(data) OBVIOUS
  <2>3. Written(data) = fragment
    <3>1. fragment \o data = fragment BY <1>2, <2>1, ConcatEmptySeq
    <3> QED BY <3>1 DEF Written
  <2>4. b = fragment BY <2>2, <2>3
  <2>5. Return(b, data) /\ UNCHANGED <<m_overflowSize, m_otherCompleteMessageFlag, delivered>>
    BY <1>9, <2>2 DEF NoHeader, history
  <2>6. ~setOtherCompleteMessageFlag(data) BY <1>2, <2>1 DEF setOtherCompleteMessageFlag
  <2>7. Len(delivered) < Len(sent) => Len(data) < Len(sent[Len(delivered) + 1])
    <3> SUFFICES ASSUME Len(delivered) < Len(sent) PROVE 0 < Len(sent[Len(delivered) + 1])
      BY <2>1
    <3>1. PICK k : k = Len(delivered) + 1 OBVIOUS
    <3>2. k \in 1 .. Len(sent) /\ sent \in Seq(Seq(Octets))
      <4>1. sent \in Seq(Seq(Octets)) /\ delivered \in Seq(Seq(Octets))
        BY ReceiverAssumption DEF TypesAndLimits, ReceiverTypeOK
      <4>2. Len(delivered) \in Nat /\ Len(sent) \in Nat BY <4>1, LenProperties
      <4> QED BY <3>1, <4>1, <4>2
    <3>3. sent[k] \in Range(sent)
      <4>1. DOMAIN sent = 1 .. Len(sent) BY <3>2, LenProperties
      <4> QED BY <3>2, <4>1 DEF Range
    <3>4. Len(sent[k]) > 1 BY <3>3 DEF Sized
    <3>5. sent[k] \in Seq(Octets)
      <4> DEFINE T == Seq(Octets)
      <4>1. sent \in Seq(T) BY <3>2
      <4> HIDE DEF T
      <4>2. sent[k] \in T BY <3>2, <4>1, ElementOfSeq
      <4> QED BY <4>2 DEF T
    <3>6. Len(sent[k]) \in Nat BY <3>5, LenProperties
    <3> QED BY <3>1, <3>4, <3>6
  <2>8. (stage = "BUFFER" => b = fragment) /\ (stage = "NEWMESSAGE" => b = data) BY <1>4, <2>1, <2>4
  <2> QED BY <1>1, <2>5, <2>6, <2>7, <2>8, ReturnFraming
<1>10. ASSUME ~NoHeader, NoSize \/ Incomplete \/ Overflow \/ Complete
       PROVE  Len(data) >= 1 /\ data # << >>
  <2>1. Len(data) >= m_messageHeaderMinimumSize BY <1>10 DEF NoSize, Incomplete, Overflow, Complete
  <2> QED BY <1>2, <1>7, <2>1
<1>11. ASSUME NEW m, Begins(data, arriving, m), NoSize PROVE FALSE
  BY <1>11 DEF NoSize, Begins
<1>12. ASSUME NEW m, Begins(data, arriving, m)
       PROVE  /\ Len(m) \in Nat /\ HeaderSize(data) = 1 /\ DataSize(data) # 0 /\ MessageSize(data) = Len(m)
              /\ Len(m) > 1 /\ Len(m) < ReceiveCapacity
              /\ Len(delivered) < Len(sent) /\ m = sent[Len(delivered) + 1]
  <2>1. m \in Seq(Octets) BY <1>12 DEF Begins
  <2>2. Len(m) \in Nat BY <2>1, LenProperties
  <2> QED BY <1>3, <1>12, <2>2, ReceiverAssumption DEF Begins
<1>13. ASSUME NEW m, Begins(data, arriving, m), Overflow PROVE FALSE
  BY <1>3, <1>12, <1>13 DEF Overflow
<1>14. ASSUME NEW m, Begins(data, arriving, m), Incomplete PROVE FramingInv'
  <2>1. Len(data) < Len(m)
    <3>1. Len(data) >= 1 BY <1>2, <1>14 DEF Incomplete
    <3> QED BY <1>3, <1>12, <1>14, <3>1 DEF Incomplete
  <2>2. PICK b : b = IF stage = "NEWMESSAGE" THEN Written(data) ELSE fragment OBVIOUS
  <2>3. Return(b, data)
    <3>1. ~(Len(data) < HeaderSize(data)) BY <1>2, <1>3, <1>12, <1>14 DEF Incomplete
    <3> QED BY <1>14, <2>2, <3>1 DEF Incomplete
  <2>4. (stage = "BUFFER" => b = fragment) /\ (stage = "NEWMESSAGE" => b = data)
    <3>1. Len(data) <= ReceiveCapacity BY <1>3, <1>12, <1>14, <2>1
    <3> QED BY <1>4, <1>5, <2>2, <3>1
  <2>5. UNCHANGED <<m_overflowSize, m_otherCompleteMessageFlag, delivered>> BY <1>14 DEF Incomplete, history
  <2>6. ~setOtherCompleteMessageFlag(data) BY <1>3, <1>12, <1>14, <2>1 DEF setOtherCompleteMessageFlag
  <2>7. Len(delivered) < Len(sent) => Len(data) < Len(sent[Len(delivered) + 1]) BY <1>12, <1>14, <2>1
  <2> QED BY <1>1, <2>3, <2>4, <2>5, <2>6, <2>7, ReturnFraming
<1>15. ASSUME NEW m, Begins(data, arriving, m), Complete PROVE FramingInv'
  <2> DEFINE L == Len(m)
             d == Behind(data, L)
  <2>1. L \in Nat /\ MessageSize(data) = L /\ L <= Len(data) /\ L > 1
    BY <1>12, <1>15 DEF Complete
  <2>2. /\ First(data, L) = m /\ IsPrefix(Append(delivered, m), sent)
        /\ FlattenSeq(Append(delivered, m)) \o (d \o arriving) = FlattenSeq(sent)
    BY <1>15, <2>1 DEF Begins
  <2>3. /\ data' = d /\ delivered' = Append(delivered, m)
        /\ m_otherCompleteMessageFlag' = setOtherCompleteMessageFlag(d)
        /\ UNCHANGED <<fragment, m_overflowSize, stage, after, rest>>
    BY <1>15, <2>1, <2>2 DEF Complete
  <2>4. Len(d) = Len(data) - L BY <1>2, <2>1, CutType
  <2> HIDE DEF L, d
  <2>5. setOtherCompleteMessageFlag(data)' <=> setOtherCompleteMessageFlag(d)
    BY <1>1, <2>3 DEF setOtherCompleteMessageFlag, HeaderSize, DataSize, MessageSize, wire
  <2>6. m_otherCompleteMessageFlag' => setOtherCompleteMessageFlag(data)' BY <2>3, <2>5
  <2>7. Pending' = d \o arriving BY <1>1, <2>3 DEF Pending, wire
  <2>8. IsPrefix(delivered', sent') /\ FlattenSeq(delivered') \o Pending' = FlattenSeq(sent')
        /\ m_overflowSize' = 0
    BY <1>1, <1>2, <2>2, <2>3, <2>7 DEF wire
  <2>9. CASE stage = "NEWMESSAGE"
    <3>1. fragment = << >> /\ after = "return" BY <2>9 DEF FramingInv
    <3> QED BY <2>3, <2>6, <2>8, <2>9, <3>1 DEF FramingInv
  <2>10. CASE stage = "BUFFER"
    <3>1. after = "shift" /\ fragment = rest /\ data = Behind(rest, Len(rest) - Len(data))
      BY <2>10 DEF FramingInv
    <3>2. Len(data) <= Len(rest) BY <3>1 DEF TypesAndLimits, BufferInv
    <3>3. d = Behind(rest, Len(rest) - Len(d))
      <4>0. Len(rest) - Len(data) \in Nat BY <1>3, <3>2
      <4>1. PICK x \in Nat : x = Len(rest) - Len(data) BY <4>0
      <4>2. PICK y \in Nat : y = L BY <2>1
      <4>3. PICK z \in Nat : z = x + y OBVIOUS
      <4>4. x + y <= Len(rest) BY <1>3, <2>1, <4>1, <4>2
      <4>5. Behind(Behind(rest, x), y) = Behind(rest, x + y) BY <1>2, <4>4, BehindBehind
      <4>6. Len(rest) - Len(d) = x + y BY <1>3, <2>1, <2>4, <4>1, <4>2
      <4>7. data = Behind(rest, x) BY <3>1, <4>1
      <4>8. d = Behind(data, y) BY <4>2 DEF d
      <4> QED BY <4>5, <4>6, <4>7, <4>8
    <3>4. data' = Behind(rest', Len(rest') - Len(data')) BY <2>3, <3>3
    <3> QED BY <2>3, <2>6, <2>8, <2>10, <3>1, <3>4 DEF FramingInv
  <2> QED BY <1>1, <2>9, <2>10
<1> QED
  <2>1. CASE ~NoHeader
    <3>1. NoSize \/ Incomplete \/ Overflow \/ Complete BY <1>8, <2>1 DEF processData
    <3>2. PICK m : Begins(data, arriving, m) BY <1>6, <1>10, <2>1, <3>1
    <3> QED BY <1>11, <1>13, <1>14, <1>15, <3>1, <3>2
  <2> QED BY <1>9, <2>1

LEMMA FramingKept ==
  ASSUME TypesAndLimits, Sized, FramingInv, [ReceiverNext]_receiverVars
  PROVE  FramingInv'
<1>1. ASSUME NEW n \in 1 .. Fewer(Len(arriving), MaxDataPerRead), onDataReceived(n)
      PROVE  FramingInv'
  <2>1. /\ stage = "idle" /\ arriving' = Behind(arriving, n)
        /\ UNCHANGED <<m_messageHeaderMinimumSize, sent>>
    BY <1>1 DEF onDataReceived
  <2>2. ~PassOn(n) BY DEF PassOn, Sized
  <2>3. CASE NewMessage(n) BY <2>1, <2>3, NewMessageFraming
  <2>4. CASE doCompleteMsg(n) BY <2>1, <2>4, DoCompleteMsgFraming
  <2> QED BY <1>1, <2>2, <2>3, <2>4 DEF onDataReceived
<1>2. CASE processData BY <1>2, ProcessDataFraming
<1>3. CASE UNCHANGED receiverVars
  BY <1>3 DEF receiverVars, wire, history, FramingInv, Pending, setOtherCompleteMessageFlag,
     HeaderSize, DataSize, MessageSize
<1> QED BY <1>1, <1>2, <1>3 DEF ReceiverNext

\* The invariant of the receiver: types, the limits of the buffer, and, of messages
\* with a header of one byte, where each byte that was sent and not delivered is.
THEOREM ReceiverInvariant == ReceiverSpec => []ReceiverInv
<1>1. ReceiverInit => ReceiverInv
  <2> SUFFICES ASSUME ReceiverInit PROVE ReceiverInv
    OBVIOUS
  <2>1. TypesAndLimits BY LimitsInitially
  <2>2. ASSUME Sized PROVE FramingInv
    <3>1. sent \in Seq(Seq(Octets)) /\ arriving \in Seq(Octets) /\ arriving = FlattenSeq(sent)
      BY <2>1, ReceiverAssumption DEF TypesAndLimits, ReceiverTypeOK, ReceiverInit
    <3>2. fragment = << >> /\ stage = "idle" /\ delivered = << >> /\ m_overflowSize = 0
          /\ m_otherCompleteMessageFlag = FALSE
      BY DEF ReceiverInit
    <3>3. FlattenSeq(<< >>) = << >> /\ Len(<< >>) = 0 BY DEF FlattenSeq
    <3>4. << >> \o arriving = arriving BY <3>1, ConcatEmptySeq
    <3>5. Len(sent) \in Nat /\ IsPrefix(delivered, sent)
      <4>1. Len(sent) \in Nat BY <3>1, LenProperties
      <4>2. SubSeq(<< >>, 1, 0) = SubSeq(sent, 1, 0) OBVIOUS
      <4> QED BY <3>2, <3>3, <4>1, <4>2 DEF IsPrefix
    <3>6. Len(delivered) < Len(sent) => Len(fragment) < Len(sent[Len(delivered) + 1])
      <4> SUFFICES ASSUME 0 < Len(sent) PROVE 0 < Len(sent[1])
        BY <3>2, <3>3
      <4>1. sent[1] \in Range(sent)
        <5>1. DOMAIN sent = 1 .. Len(sent) /\ 1 \in 1 .. Len(sent) BY <3>1, <3>5, LenProperties
        <5> QED BY <5>1 DEF Range
      <4>2. Len(sent[1]) > 1 BY <2>2, <4>1 DEF Sized
      <4>3. sent[1] \in Seq(Octets)
        <5> DEFINE T == Seq(Octets)
        <5>1. sent \in Seq(T) /\ 1 \in 1 .. Len(sent) BY <3>1, <3>5
        <5> HIDE DEF T
        <5>2. sent[1] \in T BY <5>1, ElementOfSeq
        <5> QED BY <5>2 DEF T
      <4>4. Len(sent[1]) \in Nat BY <4>3, LenProperties
      <4> QED BY <4>2, <4>4
    <3> QED BY <3>1, <3>2, <3>3, <3>4, <3>5, <3>6 DEF FramingInv, Pending
  <2> QED BY <2>1, <2>2 DEF ReceiverInv, TypesAndLimits
<1>2. ReceiverInv /\ [ReceiverNext]_receiverVars => ReceiverInv'
  <2> SUFFICES ASSUME ReceiverInv, [ReceiverNext]_receiverVars PROVE ReceiverInv'
    OBVIOUS
  <2>1. TypesAndLimits BY DEF ReceiverInv, TypesAndLimits
  <2>2. TypesAndLimits' BY <2>1, LimitsKept
  <2>3. UNCHANGED <<m_messageHeaderMinimumSize, sent>>
    BY DEF ReceiverNext, onDataReceived, processData, receiverVars, wire
  <2>4. Sized' <=> Sized BY <2>3, SizedKept
  <2>5. Sized => FramingInv' BY <2>1, FramingKept DEF ReceiverInv
  <2> QED BY <2>2, <2>4, <2>5 DEF ReceiverInv, TypesAndLimits
<1> QED BY <1>1, <1>2, PTL DEF ReceiverSpec

\* However a stream of messages with a header of one byte is cut into reads, the
\* client is given these messages, whole, once and in order, and nothing is kept back
\* (onDataReceived(), doCompleteMsg() and processData() of receiver.hpp); whatever is
\* sent, what is kept fits the buffer.
THEOREM MessagesFramed == ReceiverSpec => []FramesRight
<1>1. ReceiverInv => FramesRight
  <2> SUFFICES ASSUME ReceiverInv PROVE FramesRight
    OBVIOUS
  <2>1. TypesAndLimits BY DEF ReceiverInv, TypesAndLimits
  <2>2. ASSUME Sized PROVE Framed
    <3>1. FramingInv BY <2>2 DEF ReceiverInv
    <3>2. /\ IsPrefix(delivered, sent) /\ arriving \in Seq(Octets) /\ fragment \in Seq(Octets)
          /\ stage = "idle" => FlattenSeq(delivered) \o (fragment \o arriving) = FlattenSeq(sent)
      BY <2>1, <2>2, <3>1, FramedBytes
    <3>3. FlattenSeq(delivered) \in Seq(Octets)
      <4>1. delivered \in Seq(Seq(Octets)) BY <2>1 DEF TypesAndLimits, ReceiverTypeOK
      <4> QED BY <4>1, FlattenType
    <3>4. (FlattenSeq(delivered) \o fragment) \o arriving = FlattenSeq(delivered) \o (fragment \o arriving)
      <4>1. PICK a, b, c : a = FlattenSeq(delivered) /\ b = fragment /\ c = arriving OBVIOUS
      <4>2. a \in Seq(Octets) BY <3>3, <4>1
      <4>3. b \in Seq(Octets) BY <3>2, <4>1
      <4>4. c \in Seq(Octets) BY <3>2, <4>1
      <4>5. (a \o b) \o c = a \o (b \o c) BY ONLY <4>2, <4>3, <4>4, Regroup
      <4> QED BY <4>1, <4>5
    <3>5. stage = "idle" =>
            /\ ~m_otherCompleteMessageFlag
            /\ Len(delivered) < Len(sent) => Len(fragment) < Len(sent[Len(delivered) + 1])
      BY <3>1 DEF FramingInv
    <3>6. CASE stage = "idle"
      <4>1. FlattenSeq(delivered) \o fragment \o arriving = FlattenSeq(sent) BY <3>2, <3>4, <3>6
      <4>2. IsPrefix(delivered, sent) BY <3>2
      <4>3. Len(delivered) < Len(sent) => Len(fragment) < Len(sent[Len(delivered) + 1]) BY <3>5, <3>6
      <4>4. ~m_otherCompleteMessageFlag BY <3>5, <3>6
      <4> QED BY <4>1, <4>2, <4>3, <4>4 DEF Framed
    <3>7. CASE stage # "idle" BY <3>2, <3>7 DEF Framed
    <3> QED BY <3>6, <3>7
  <2> QED BY <2>1, <2>2 DEF FramesRight, TypesAndLimits, ReceiverTypeOK, BufferInv
<1> QED BY <1>1, ReceiverInvariant, PTL

-----------------------------------------------------------------------------
(* The search for the end of a header.                                     *)

Found(f, state, piece) ==
  /\ f \in [0 .. Len(piece) -> 0 .. 4] /\ f[0] = state
  /\ \A i \in 1 .. Len(piece) :
       f[i] = IF f[i - 1] = 4 THEN 4
              ELSE IF piece[i] = EndOfHeader[f[i - 1] + 1] THEN f[i - 1] + 1
              ELSE 0

LEMMA ScanFinds ==
  ASSUME NEW state \in 0 .. 4, NEW piece \in Seq(Symbols)
  PROVE  Found(Scan(state, piece), state, piece)
<1> DEFINE N == Len(piece)
           Step(i, s) == IF s = 4 THEN 4 ELSE IF piece[i] = EndOfHeader[s + 1] THEN s + 1 ELSE 0
           step == [i \in 1 .. N |-> [s \in 0 .. 4 |-> Step(i, s)]]
           Value(f, i) == IF i = 0 THEN state ELSE Step(i, f[i - 1])
<1>1. N \in Nat BY LenProperties
<1> HIDE DEF N
<1>2. step \in [1 .. N -> [0 .. 4 -> 0 .. 4]]
  <2>1. \A i \in 1 .. N, s \in 0 .. 4 : Step(i, s) \in 0 .. 4 OBVIOUS
  <2> HIDE DEF Step
  <2> QED BY <2>1
<1>3. \A i \in 1 .. N, s \in 0 .. 4 : step[i][s] = Step(i, s)
  <2> HIDE DEF Step
  <2> QED OBVIOUS
<1> HIDE DEF step
<1>4. PICK f \in [0 .. N -> 0 .. 4] : Recurs(f, N, state, step)
  BY <1>1, <1>2, Recursion
<1>5. f[0] = state /\ \A i \in 1 .. N : f[i - 1] \in 0 .. 4 /\ f[i] = Step(i, f[i - 1])
  <2>1. f[0] = state /\ \A i \in 1 .. N : f[i] = step[i][f[i - 1]] BY <1>4 DEF Recurs
  <2>2. \A i \in 1 .. N : f[i - 1] \in 0 .. 4 BY <1>1
  <2> HIDE DEF Step
  <2> QED BY <1>3, <2>1, <2>2
<1> DEFINE reached == CHOOSE g : g = [i \in 0 .. N |-> Value(g, i)]
<1>6. Scan(state, piece) = reached BY DEF Scan, N
<1>7. f = [i \in 0 .. N |-> Value(f, i)]
  <2>1. \A i \in 0 .. N : f[i] = Value(f, i)
    <3> SUFFICES ASSUME NEW i \in 0 .. N PROVE f[i] = Value(f, i)
      OBVIOUS
    <3>1. i = 0 \/ i \in 1 .. N BY <1>1
    <3> HIDE DEF Step
    <3> QED BY <1>5, <3>1
  <2> HIDE DEF Value
  <2> QED BY <2>1
<1>8. reached = [i \in 0 .. N |-> Value(reached, i)]
  <2> HIDE DEF Value
  <2> QED BY <1>7
<1> HIDE DEF reached
<1> DEFINE T == {n \in Nat : n <= N => reached[n] = f[n]}
<1>9. \A i \in 0 .. N : reached[i] = Value(reached, i)
  <2> HIDE DEF Value
  <2> QED BY <1>8
<1>10. 0 \in T
  <2>1. 0 \in 0 .. N BY <1>1
  <2>2. reached[0] = Value(reached, 0) BY <1>9, <2>1
  <2> QED BY <1>5, <2>2
<1>11. \A n \in Nat : n \in T => n + 1 \in T
  <2> SUFFICES ASSUME NEW n \in Nat, n \in T, n + 1 <= N PROVE reached[n + 1] = f[n + 1]
    OBVIOUS
  <2>1. n + 1 \in 1 .. N /\ n + 1 \in 0 .. N /\ (n + 1) - 1 = n /\ n + 1 # 0 /\ n <= N BY <1>1
  <2>2. reached[n + 1] = Value(reached, n + 1) BY <1>9, <2>1
  <2>3. reached[n] = f[n] BY <2>1
  <2>4. f[n + 1] = Step(n + 1, f[n])
    <3> HIDE DEF Step
    <3> QED BY <1>5, <2>1
  <2> HIDE DEF Step
  <2> QED BY <2>1, <2>2, <2>3, <2>4
<1>12. \A n \in Nat : n \in T
  <2> HIDE DEF T
  <2> QED BY <1>10, <1>11, SetInduction
<1>13. reached = f
  <2>1. \A i \in 0 .. N : reached[i] = f[i] BY <1>1, <1>12
  <2> HIDE DEF Value
  <2> QED BY <1>8, <2>1
<1> QED BY <1>4, <1>5, <1>6, <1>13 DEF Found, N

\* n bytes of a, behind the first m, are the first ones of b ...
SameBytes(a, b, m, n) ==
  /\ a \in Seq(Symbols) /\ b \in Seq(Symbols) /\ m \in Nat /\ n \in Nat
  /\ m + n <= Len(a) /\ n <= Len(b) /\ \A i \in 1 .. n : a[m + i] = b[i]

\* ... so two searches of them go the same way from the same state on.
SameWay(s, a, b, m, n) == \A i \in 0 .. n : Scan(s, a)[m + i] = Scan(Scan(s, a)[m], b)[i]

LEMMA SameScan ==
  ASSUME NEW s \in 0 .. 4, NEW a, NEW b, NEW m, NEW n, SameBytes(a, b, m, n)
  PROVE  SameWay(s, a, b, m, n)
<1> DEFINE f == Scan(s, a)
           g == Scan(f[m], b)
           T == {i \in Nat : i <= n => f[m + i] = g[i]}
<1>0. /\ a \in Seq(Symbols) /\ b \in Seq(Symbols) /\ m \in Nat /\ n \in Nat
      /\ m + n <= Len(a) /\ n <= Len(b) /\ \A i \in 1 .. n : a[m + i] = b[i]
      /\ Len(a) \in Nat /\ Len(b) \in Nat
  BY LenProperties DEF SameBytes
<1>1. Found(f, s, a) BY <1>0, ScanFinds
<1> HIDE DEF f
<1>2. f[m] \in 0 .. 4
  <2>1. m \in 0 .. Len(a) BY <1>0
  <2>2. f \in [0 .. Len(a) -> 0 .. 4] BY <1>1 DEF Found
  <2> QED BY <2>1, <2>2
<1>3. Found(g, f[m], b) BY <1>0, <1>2, ScanFinds
<1> HIDE DEF g
<1>4. 0 \in T BY <1>0, <1>3 DEF Found
<1>5. \A i \in Nat : i \in T => i + 1 \in T
  <2> SUFFICES ASSUME NEW i \in Nat, i \in T, i + 1 <= n PROVE f[m + (i + 1)] = g[i + 1]
    OBVIOUS
  <2>1. /\ i + 1 \in 1 .. Len(b) /\ (i + 1) - 1 = i /\ i + 1 \in 1 .. n
        /\ m + (i + 1) \in 1 .. Len(a) /\ (m + (i + 1)) - 1 = m + i
    BY <1>0
  <2>2. f[m + i] = g[i] BY <1>0, <2>1
  <2>3. a[m + (i + 1)] = b[i + 1] BY <1>0, <2>1
  <2>4. PICK x : x = m + (i + 1) OBVIOUS
  <2>5. f[x] = IF f[x - 1] = 4 THEN 4 ELSE IF a[x] = EndOfHeader[f[x - 1] + 1] THEN f[x - 1] + 1 ELSE 0
    BY <1>1, <2>1, <2>4 DEF Found
  <2>6. PICK y : y = i + 1 OBVIOUS
  <2>7. g[y] = IF g[y - 1] = 4 THEN 4 ELSE IF b[y] = EndOfHeader[g[y - 1] + 1] THEN g[y - 1] + 1 ELSE 0
    BY <1>3, <2>1, <2>6 DEF Found
  <2>8. f[x - 1] = g[y - 1] /\ a[x] = b[y] BY <2>1, <2>2, <2>3, <2>4, <2>6
  <2> QED BY <2>4, <2>5, <2>6, <2>7, <2>8
<1>6. \A i \in Nat : i \in T
  <2> HIDE DEF T
  <2> QED BY <1>4, <1>5, SetInduction
<1>7. \A i \in 0 .. n : f[m + i] = g[i] BY <1>6
<1> QED BY <1>7 DEF f, g, SameWay

\* A search that has found the end stays there.
LEMMA ScanStays ==
  ASSUME NEW s \in 0 .. 4, NEW a \in Seq(Symbols), NEW m \in 0 .. Len(a), Scan(s, a)[m] = 4
  PROVE  \A i \in m .. Len(a) : Scan(s, a)[i] = 4
<1> DEFINE f == Scan(s, a)
           T == {i \in Nat : m + i <= Len(a) => f[m + i] = 4}
<1>0. Len(a) \in Nat BY LenProperties
<1>1. Found(f, s, a) BY ScanFinds
<1>2. f[m] = 4 OBVIOUS
<1> HIDE DEF f
<1>4. 0 \in T BY <1>2
<1>5. \A i \in Nat : i \in T => i + 1 \in T
  <2> SUFFICES ASSUME NEW i \in Nat, i \in T, m + (i + 1) <= Len(a) PROVE f[m + (i + 1)] = 4
    OBVIOUS
  <2>1. m + (i + 1) \in 1 .. Len(a) /\ (m + (i + 1)) - 1 = m + i BY <1>0
  <2> QED BY <1>1, <2>1 DEF Found
<1>6. \A i \in Nat : i \in T
  <2> HIDE DEF T
  <2> QED BY <1>4, <1>5, SetInduction
<1>7. ASSUME NEW i \in m .. Len(a) PROVE f[i] = 4
  <2>1. i - m \in Nat /\ m + (i - m) = i /\ i <= Len(a) BY <1>0
  <2>2. i - m \in T BY <1>6, <2>1
  <2> QED BY <2>1, <2>2
<1> QED BY <1>7 DEF f
-----------------------------------------------------------------------------
(* A request on its way.                                                   *)

LEMMA LeastIs ==
  ASSUME NEW T, T \subseteq Nat, NEW n \in T, \A k \in T : n <= k
  PROVE  Min(T) = n
<1>1. \A x \in T : (\A y \in T : x <= y) => x = n
  OBVIOUS
<1>2. \E x \in T : \A y \in T : x <= y OBVIOUS
<1> QED BY <1>1, <1>2 DEF Min

LEMMA EmptyOrLeast ==
  ASSUME NEW T, T \subseteq Nat, T # {}
  PROVE  Min(T) \in T /\ \A k \in T : Min(T) <= k
<1>1. PICK n \in T : \A k \in T : n <= k BY LeastNat
<1>2. Min(T) = n BY <1>1, LeastIs
<1> QED BY <1>1, <1>2

\* Where the numbers are among the symbols
Fields(header) == {i \in DOMAIN header : header[i] \in Nat}

LEMMA FieldsOf ==
  ASSUME NEW header \in Seq(Symbols)
  PROVE  /\ Fields(header) \subseteq Nat
         /\ Fields(header) = {} => contentLength(header) = << >>
         /\ Fields(header) # {} =>
              /\ contentLength(header) = <<header[Min(Fields(header))]>>
              /\ contentLength(header) # << >> /\ contentLength(header)[1] \in Nat
<1>1. DOMAIN header = 1 .. Len(header) /\ Len(header) \in Nat BY LenProperties
<1>2. Fields(header) \subseteq Nat BY <1>1 DEF Fields
<1>3. Fields(header) = {} => contentLength(header) = << >> BY DEF Fields, contentLength
<1>4. ASSUME Fields(header) # {}
      PROVE  /\ contentLength(header) = <<header[Min(Fields(header))]>>
             /\ contentLength(header) # << >> /\ contentLength(header)[1] \in Nat
  <2>1. contentLength(header) = <<header[Min(Fields(header))]>> BY <1>4 DEF Fields, contentLength
  <2>2. Min(Fields(header)) \in Fields(header) BY <1>2, <1>4, EmptyOrLeast
  <2>3. header[Min(Fields(header))] \in Nat BY <2>2 DEF Fields
  <2>4. PICK n \in Nat : n = header[Min(Fields(header))] BY <2>3
  <2>5. <<n>> # << >> /\ <<n>>[1] = n OBVIOUS
  <2> QED BY <2>1, <2>4, <2>5
<1> QED BY <1>2, <1>3, <1>4

\* How many bytes follow the end of the header
BodySize(request) == IF contentLength(request) = << >> THEN 0 ELSE contentLength(request)[1]
BodyOf(request)   == IF contentLength(request) = << >> THEN << >>
                     ELSE [i \in 1 .. contentLength(request)[1] |-> Other]

LEMMA BodyType ==
  ASSUME NEW r \in Requests
  PROVE  /\ r \in Seq(Symbols) /\ BodySize(r) \in Nat
         /\ BodyOf(r) \in Seq(Symbols) /\ Len(BodyOf(r)) = BodySize(r)
         /\ \A i \in 1 .. BodySize(r) : BodyOf(r)[i] = Other
         /\ Sent(r) = (r \o EndOfHeader) \o BodyOf(r)
<1>1. r \in Seq(Symbols) BY HttpAssumption
<1>2. BodySize(r) \in Nat /\ (contentLength(r) # << >> => contentLength(r)[1] \in Nat)
  BY <1>1, FieldsOf DEF BodySize
<1>3. Sent(r) = (r \o EndOfHeader) \o BodyOf(r) BY DEF Sent, BodyOf
<1>4. /\ BodyOf(r) \in Seq(Symbols) /\ Len(BodyOf(r)) = BodySize(r)
      /\ \A i \in 1 .. BodySize(r) : BodyOf(r)[i] = Other
  <2>1. CASE contentLength(r) = << >>
    <3>1. BodyOf(r) = << >> /\ BodySize(r) = 0 BY <2>1 DEF BodyOf, BodySize
    <3>2. << >> \in Seq(Symbols) /\ Len(<< >>) = 0 BY EmptySeq
    <3> QED BY <3>1, <3>2
  <2>2. CASE contentLength(r) # << >>
    <3>1. PICK n \in Nat : n = contentLength(r)[1] BY <1>2, <2>2
    <3>2. BodyOf(r) = [i \in 1 .. n |-> Other] /\ BodySize(r) = n BY <2>2, <3>1 DEF BodyOf, BodySize
    <3>3. Other \in Symbols BY DEF Symbols
    <3>4. [i \in 1 .. n |-> Other] \in Seq(Symbols) /\ Len([i \in 1 .. n |-> Other]) = n
      BY <3>3
    <3> QED BY <3>2, <3>4
  <2> QED BY <2>1, <2>2
<1> QED BY <1>1, <1>2, <1>3, <1>4

\* What may be left of the request before: the last byte of its body, for which the
\* byte that ends the header was counted.
Leftovers  == {<< >>, <<Other>>}
EndsHeader == <<CR, LF, CR>>

LEMMA LeftoverType ==
  ASSUME NEW g \in Leftovers
  PROVE  /\ g \in Seq(Symbols) /\ Len(g) \in {0, 1} /\ \A i \in 1 .. Len(g) : g[i] = Other
         /\ EndsHeader \in Seq(Symbols) /\ Len(EndsHeader) = 3
         /\ EndsHeader[1] = CR /\ EndsHeader[2] = LF /\ EndsHeader[3] = CR
         /\ EndOfHeader \in Seq(Symbols) /\ Len(EndOfHeader) = 4
         /\ EndOfHeader[1] = CR /\ EndOfHeader[2] = LF /\ EndOfHeader[3] = CR /\ EndOfHeader[4] = LF
<1>1. {CR, LF, Other} \subseteq Symbols BY DEF Symbols
<1>2. << >> \in Seq(Symbols) /\ Len(<< >>) = 0 BY EmptySeq
<1>3. <<Other>> \in Seq(Symbols) /\ Len(<<Other>>) = 1 /\ <<Other>>[1] = Other BY <1>1
<1>4. /\ g \in Seq(Symbols) /\ Len(g) \in {0, 1} /\ \A i \in 1 .. Len(g) : g[i] = Other
  <2>1. CASE g = << >> BY <1>2, <2>1
  <2>2. CASE g = <<Other>> BY <1>3, <2>2
  <2> QED BY <2>1, <2>2 DEF Leftovers
<1>5. EndsHeader \in Seq(Symbols) /\ Len(EndsHeader) = 3 BY <1>1 DEF EndsHeader
<1>6. EndsHeader[1] = CR /\ EndsHeader[2] = LF /\ EndsHeader[3] = CR BY DEF EndsHeader
<1>7. EndOfHeader \in Seq(Symbols) /\ Len(EndOfHeader) = 4 BY <1>1 DEF EndOfHeader
<1>8. EndOfHeader[1] = CR /\ EndOfHeader[2] = LF /\ EndOfHeader[3] = CR /\ EndOfHeader[4] = LF
  BY DEF EndOfHeader
<1> QED BY <1>4, <1>5, <1>6, <1>7, <1>8

\* Where the header of a request ends among what is left of the one before and itself.
EndAt(g, r) == Len(g) + Len(r) + 4

\* The bytes from the first one that was not handed over: w is all of the request.
Arriving(w, g, r) ==
  /\ w \in Seq(Symbols) /\ Len(w) = EndAt(g, r) + BodySize(r)
  /\ \A i \in 1 .. Len(g) : w[i] = Other
  /\ \A i \in 1 .. Len(r) : w[Len(g) + i] = r[i]
  /\ \A i \in 1 .. 4 : w[Len(g) + Len(r) + i] = EndOfHeader[i]
  /\ \A i \in 1 .. BodySize(r) : w[EndAt(g, r) + i] = Other

Joins(s, t, m, n) ==
  /\ s \o t \in Seq(Symbols) /\ Len(s \o t) = m + n
  /\ \A i \in 1 .. m : (s \o t)[i] = s[i]
  /\ \A i \in 1 .. n : (s \o t)[m + i] = t[i]

LEMMA Joining ==
  ASSUME NEW s \in Seq(Symbols), NEW t \in Seq(Symbols), NEW m, NEW n, Len(s) = m, Len(t) = n
  PROVE  Joins(s, t, m, n)
<1>1. m \in Nat /\ n \in Nat BY LenProperties
<1>2. /\ s \o t \in Seq(Symbols) /\ Len(s \o t) = Len(s) + Len(t)
      /\ \A i \in 1 .. Len(s) + Len(t) : (s \o t)[i] = IF i <= Len(s) THEN s[i] ELSE t[i - Len(s)]
  BY ConcatProperties
<1>3. \A i \in 1 .. m : (s \o t)[i] = s[i] BY <1>1, <1>2
<1>4. ASSUME NEW i \in 1 .. n PROVE (s \o t)[m + i] = t[i]
  <2>1. PICK j : j = m + i OBVIOUS
  <2>2. j \in 1 .. m + n /\ ~(j <= m) /\ j - m = i BY <1>1, <2>1
  <2> QED BY <1>2, <2>1, <2>2
<1> QED BY <1>2, <1>3, <1>4 DEF Joins

LEMMA ArrivingBytes ==
  ASSUME NEW g \in Leftovers, NEW r \in Requests
  PROVE  Arriving(g \o Sent(r), g, r)
<1> DEFINE e == EndOfHeader
           b == BodyOf(r)
<1>1. /\ g \in Seq(Symbols) /\ Len(g) \in Nat /\ \A i \in 1 .. Len(g) : g[i] = Other
      /\ e \in Seq(Symbols) /\ Len(e) = 4
  BY LeftoverType
<1>2. /\ r \in Seq(Symbols) /\ b \in Seq(Symbols) /\ Len(b) = BodySize(r) /\ BodySize(r) \in Nat
      /\ \A i \in 1 .. BodySize(r) : b[i] = Other /\ Sent(r) = (r \o e) \o b
  BY BodyType
<1>3. Len(r) \in Nat BY <1>2, LenProperties
<1>4. Sent(r) = (r \o e) \o b BY BodyType
<1> HIDE DEF e, b
<1>5. PICK x : x = r \o e OBVIOUS
<1>6. Joins(r, e, Len(r), 4) BY <1>1, <1>2, Joining
<1>7. x \in Seq(Symbols) /\ Len(x) = Len(r) + 4 BY <1>5, <1>6 DEF Joins
<1>8. PICK y : y = x \o b OBVIOUS
<1>9. Joins(x, b, Len(r) + 4, BodySize(r)) BY <1>2, <1>7, Joining
<1>10. y \in Seq(Symbols) /\ Len(y) = (Len(r) + 4) + BodySize(r) BY <1>8, <1>9 DEF Joins
<1>11. PICK w : w = g \o y OBVIOUS
<1>12. Joins(g, y, Len(g), (Len(r) + 4) + BodySize(r)) BY <1>1, <1>10, Joining
<1>13. w = g \o Sent(r) BY <1>4, <1>5, <1>8, <1>11
<1>14. \A i \in 1 .. Len(g) : w[i] = Other BY <1>1, <1>11, <1>12 DEF Joins
<1>15. \A i \in 1 .. (Len(r) + 4) + BodySize(r) : w[Len(g) + i] = y[i] BY <1>11, <1>12 DEF Joins
<1>16. ASSUME NEW i \in 1 .. Len(r) PROVE w[Len(g) + i] = r[i]
  <2>1. i \in 1 .. (Len(r) + 4) + BodySize(r) /\ i \in 1 .. Len(r) + 4 BY <1>2, <1>3
  <2>2. y[i] = x[i] BY <1>8, <1>9, <2>1 DEF Joins
  <2>3. x[i] = r[i] BY <1>5, <1>6 DEF Joins
  <2> QED BY <1>15, <2>1, <2>2, <2>3
<1>17. ASSUME NEW i \in 1 .. 4 PROVE w[Len(g) + Len(r) + i] = e[i]
  <2>1. PICK j : j = Len(r) + i OBVIOUS
  <2>2. j \in 1 .. (Len(r) + 4) + BodySize(r) /\ j \in 1 .. Len(r) + 4 /\ Len(g) + Len(r) + i = Len(g) + j
    BY <1>1, <1>2, <1>3, <2>1
  <2>3. w[Len(g) + j] = y[j] BY <1>15, <2>2
  <2>4. y[j] = x[j] BY <1>8, <1>9, <2>2 DEF Joins
  <2>5. x[j] = e[i] BY <1>5, <1>6, <2>1 DEF Joins
  <2> QED BY <2>2, <2>3, <2>4, <2>5
<1>18. ASSUME NEW i \in 1 .. BodySize(r) PROVE w[EndAt(g, r) + i] = Other
  <2>1. PICK j : j = (Len(r) + 4) + i OBVIOUS
  <2>2. j \in 1 .. (Len(r) + 4) + BodySize(r) /\ EndAt(g, r) + i = Len(g) + j
    BY <1>1, <1>2, <1>3, <2>1 DEF EndAt
  <2>3. w[Len(g) + j] = y[j] BY <1>15, <2>2
  <2>4. y[j] = b[i] BY <1>8, <1>9, <2>1 DEF Joins
  <2>5. b[i] = Other BY <1>2
  <2> QED BY <2>2, <2>3, <2>4, <2>5
<1>19. w \in Seq(Symbols) /\ Len(w) = EndAt(g, r) + BodySize(r)
  <2>1. w \in Seq(Symbols) /\ Len(w) = Len(g) + ((Len(r) + 4) + BodySize(r)) BY <1>11, <1>12 DEF Joins
  <2>2. Len(g) + ((Len(r) + 4) + BodySize(r)) = EndAt(g, r) + BodySize(r) BY <1>1, <1>2, <1>3 DEF EndAt
  <2> QED BY <2>1, <2>2
<1>20. Arriving(w, g, r) BY <1>14, <1>16, <1>17, <1>18, <1>19 DEF Arriving, e
<1> QED BY <1>13, <1>20

\* The search finds the end of a request where it is, whatever is left of the one before.
LEMMA ArrivingScan ==
  ASSUME NEW g \in Leftovers, NEW r \in Requests, NEW w, Arriving(w, g, r)
  PROVE  /\ \A i \in 0 .. EndAt(g, r) - 1 : Scan(0, w)[i] \in 0 .. 3
         /\ \A i \in EndAt(g, r) .. Len(w) : Scan(0, w)[i] = 4
         /\ EndAt(g, r) \in 4 .. Len(w) /\ Len(w) \in Nat
<1> DEFINE F == Scan(0, w)
           p == Len(g) + Len(r)
<1>1. r \in Seq(Symbols) /\ BodySize(r) \in Nat BY BodyType
<1>2. Len(r) \in Nat BY <1>1, LenProperties
<1>3. /\ Len(g) \in {0, 1} /\ EndOfHeader[1] = CR /\ EndOfHeader[2] = LF /\ EndOfHeader[3] = CR
      /\ EndOfHeader[4] = LF
  BY LeftoverType
<1>4. w \in Seq(Symbols) /\ Len(w) = p + 4 + BodySize(r) BY <1>2, <1>3 DEF Arriving, EndAt
<1>5. Found(F, 0, w) BY <1>4, ScanFinds
<1>6. /\ F[0] = 0 /\ F \in [0 .. Len(w) -> 0 .. 4]
      /\ \A i \in 1 .. Len(w) :
       F[i] = IF F[i - 1] = 4 THEN 4
              ELSE IF w[i] = EndOfHeader[F[i - 1] + 1] THEN F[i - 1] + 1
              ELSE 0
  BY <1>5 DEF Found
<1>7. F[Len(g)] = 0
  <2>1. CASE Len(g) = 0 BY <1>6, <2>1
  <2>2. CASE Len(g) = 1
    <3>1. 1 \in 1 .. Len(w) /\ 1 - 1 = 0 /\ 0 + 1 = 1 /\ 1 \in 1 .. Len(g) BY <1>1, <1>2, <1>4, <2>2
    <3>2. w[1] = Other BY <3>1 DEF Arriving
    <3>3. F[1] = IF w[1] = EndOfHeader[1] THEN 1 ELSE 0
      <4>1. F[1] = IF F[1 - 1] = 4 THEN 4
                   ELSE IF w[1] = EndOfHeader[F[1 - 1] + 1] THEN F[1 - 1] + 1
                   ELSE 0
        BY <1>6, <3>1
      <4> QED BY <4>1, <1>6, <3>1
    <3>4. Other # CR BY HttpAssumption
    <3> QED BY <1>3, <2>2, <3>2, <3>3, <3>4
  <2> QED BY <1>3, <2>1, <2>2
<1>8. \A i \in 0 .. Len(r) : F[Len(g) + i] = Scan(0, r)[i]
  <2>1. \A i \in 1 .. Len(r) : w[Len(g) + i] = r[i] BY DEF Arriving
  <2>2. PICK m, n : m = Len(g) /\ n = Len(r) OBVIOUS
  <2>3. m \in Nat /\ n \in Nat /\ m + n <= Len(w) /\ n <= Len(r) /\ 0 \in 0 .. 4 BY <1>1, <1>2, <1>3, <1>4, <2>2
  <2>4. \A i \in 1 .. n : w[m + i] = r[i] BY <2>1, <2>2
  <2>5. SameBytes(w, r, m, n) BY <1>1, <1>4, <2>3, <2>4 DEF SameBytes
  <2>6. SameWay(0, w, r, m, n) BY <2>3, <2>5, SameScan
  <2> QED BY <1>7, <2>2, <2>6 DEF SameWay
<1>9. Scan(0, r)[Len(r)] = 0 BY HttpAssumption
<1>10. \A i \in 0 .. Len(r) : Scan(0, r)[i] \in 0 .. 3
  <2> SUFFICES ASSUME NEW i \in 0 .. Len(r) PROVE Scan(0, r)[i] \in 0 .. 3
    OBVIOUS
  <2>1. Found(Scan(0, r), 0, r) BY <1>1, ScanFinds
  <2>2. Scan(0, r)[i] \in 0 .. 4 BY <2>1 DEF Found
  <2>3. CASE Scan(0, r)[i] = 4
    <3>1. \A j \in i .. Len(r) : Scan(0, r)[j] = 4 BY <1>1, <2>3, ScanStays
    <3>2. Len(r) \in i .. Len(r) BY <1>2
    <3> QED BY <1>9, <3>1, <3>2
  <2> QED BY <2>2, <2>3
<1> HIDE DEF F
<1>11. p \in Nat /\ F[p] = 0 BY <1>2, <1>3, <1>8, <1>9
<1>12. \A i \in 1 .. 4 : w[p + i] = EndOfHeader[i] BY DEF Arriving
<1>13. \A i \in 1 .. 4 : /\ F[p + i] = IF F[p + i - 1] = 4 THEN 4
                                       ELSE IF w[p + i] = EndOfHeader[F[p + i - 1] + 1] THEN F[p + i - 1] + 1
                                       ELSE 0
  <2> SUFFICES ASSUME NEW i \in 1 .. 4
               PROVE  F[p + i] = IF F[p + i - 1] = 4 THEN 4
                                 ELSE IF w[p + i] = EndOfHeader[F[p + i - 1] + 1] THEN F[p + i - 1] + 1
                                 ELSE 0
    OBVIOUS
  <2>1. PICK x : x = p + i OBVIOUS
  <2>2. x \in 1 .. Len(w) BY <1>1, <1>4, <1>11, <2>1
  <2>3. F[x] = IF F[x - 1] = 4 THEN 4 ELSE IF w[x] = EndOfHeader[F[x - 1] + 1] THEN F[x - 1] + 1 ELSE 0
    BY <1>6, <2>2
  <2> QED BY <2>1, <2>3
<1> HIDE DEF p
<1>14. F[p + 1] = 1
  <2>1. 1 \in 1 .. 4 /\ p + 1 - 1 = p /\ 0 + 1 = 1 BY <1>11
  <2>2. w[p + 1] = EndOfHeader[1] BY <1>12, <2>1
  <2>3. F[p + 1] = IF F[p + 1 - 1] = 4 THEN 4
                   ELSE IF w[p + 1] = EndOfHeader[F[p + 1 - 1] + 1] THEN F[p + 1 - 1] + 1
                   ELSE 0
    BY <1>13, <2>1
  <2> QED BY <2>1, <2>2, <2>3, <1>11
<1>15. F[p + 2] = 2
  <2>1. 2 \in 1 .. 4 /\ p + 2 - 1 = p + 1 /\ 1 + 1 = 2 BY <1>11
  <2>2. w[p + 2] = EndOfHeader[2] BY <1>12, <2>1
  <2>3. F[p + 2] = IF F[p + 2 - 1] = 4 THEN 4
                   ELSE IF w[p + 2] = EndOfHeader[F[p + 2 - 1] + 1] THEN F[p + 2 - 1] + 1
                   ELSE 0
    BY <1>13, <2>1
  <2> QED BY <2>1, <2>2, <2>3, <1>14
<1>16. F[p + 3] = 3
  <2>1. 3 \in 1 .. 4 /\ p + 3 - 1 = p + 2 /\ 2 + 1 = 3 BY <1>11
  <2>2. w[p + 3] = EndOfHeader[3] BY <1>12, <2>1
  <2>3. F[p + 3] = IF F[p + 3 - 1] = 4 THEN 4
                   ELSE IF w[p + 3] = EndOfHeader[F[p + 3 - 1] + 1] THEN F[p + 3 - 1] + 1
                   ELSE 0
    BY <1>13, <2>1
  <2> QED BY <2>1, <2>2, <2>3, <1>15
<1>17. F[p + 4] = 4
  <2>1. 4 \in 1 .. 4 /\ p + 4 - 1 = p + 3 /\ 3 + 1 = 4 BY <1>11
  <2>2. w[p + 4] = EndOfHeader[4] BY <1>12, <2>1
  <2>3. F[p + 4] = IF F[p + 4 - 1] = 4 THEN 4
                   ELSE IF w[p + 4] = EndOfHeader[F[p + 4 - 1] + 1] THEN F[p + 4 - 1] + 1
                   ELSE 0
    BY <1>13, <2>1
  <2> QED BY <2>1, <2>2, <2>3, <1>16
<1>18. EndAt(g, r) = p + 4 /\ p = Len(g) + Len(r) BY DEF EndAt, p
<1>19. \A i \in p + 4 .. Len(w) : F[i] = 4
  <2>1. PICK m : m = p + 4 OBVIOUS
  <2>2. m \in 0 .. Len(w) /\ Scan(0, w)[m] = 4 /\ 0 \in 0 .. 4 BY <1>1, <1>4, <1>11, <1>17, <2>1 DEF F
  <2>3. \A i \in m .. Len(w) : Scan(0, w)[i] = 4 BY <1>4, <2>2, ScanStays
  <2> QED BY <2>1, <2>3 DEF F
<1>20. ASSUME NEW i \in 0 .. (p + 4) - 1 PROVE F[i] \in 0 .. 3
  <2>1. CASE i <= Len(g)
    <3>0. i \in Nat /\ i <= Len(g) BY <1>11, <2>1
    <3>1. i = 0 \/ i = Len(g)
      <4>1. PICK a : a = Len(g) OBVIOUS
      <4>2. a \in {0, 1} /\ i <= a BY <1>3, <3>0, <4>1
      <4>3. i = 0 \/ i = a BY <3>0, <4>2
      <4> QED BY <4>1, <4>3
    <3> QED BY <1>6, <1>7, <3>1 DEF F
  <2>2. CASE i > Len(g) /\ i <= p
    <3>1. PICK j : j = i - Len(g) OBVIOUS
    <3>2. j \in 0 .. Len(r) /\ i = Len(g) + j BY <1>2, <1>3, <1>18, <2>2, <3>1
    <3> QED BY <1>8, <1>10, <3>2
  <2>3. CASE i > p
    <3>1. i = p + 1 \/ i = p + 2 \/ i = p + 3 BY <1>11, <2>3
    <3> QED BY <1>14, <1>15, <1>16, <3>1
  <2> QED BY <1>3, <1>11, <2>1, <2>2, <2>3
<1>21. p + 4 \in 4 .. Len(w) /\ Len(w) \in Nat BY <1>1, <1>4, <1>11
<1> QED BY <1>18, <1>19, <1>20, <1>21 DEF F

LEMMA LeftoverScan ==
  ASSUME NEW w \in Leftovers
  PROVE  \A i \in 0 .. Len(w) : Scan(0, w)[i] = 0
<1>1. w \in Seq(Symbols) /\ Len(w) \in {0, 1} /\ \A i \in 1 .. Len(w) : w[i] = Other BY LeftoverType
<1>2. Found(Scan(0, w), 0, w) BY <1>1, ScanFinds
<1>3. Scan(0, w)[0] = 0 BY <1>2 DEF Found
<1>4. ASSUME Len(w) = 1 PROVE Scan(0, w)[1] = 0
  <2>1. 1 \in 1 .. Len(w) /\ 1 - 1 = 0 /\ 0 + 1 = 1 BY <1>4
  <2>2. Scan(0, w)[1] = IF Scan(0, w)[1 - 1] = 4 THEN 4
                        ELSE IF w[1] = EndOfHeader[Scan(0, w)[1 - 1] + 1] THEN Scan(0, w)[1 - 1] + 1
                        ELSE 0
    BY <1>2, <2>1 DEF Found
  <2>3. w[1] = Other /\ EndOfHeader[1] = CR /\ Other # CR BY <1>1, <2>1, LeftoverType, HttpAssumption
  <2> QED BY <2>1, <2>2, <2>3, <1>3
<1> QED BY <1>1, <1>3, <1>4

\* What comes before the byte that ends the header
WholeHeader(g, r) == g \o (r \o EndsHeader)

LEMMA HeaderIs ==
  ASSUME NEW g \in Leftovers, NEW r \in Requests
  PROVE  /\ WholeHeader(g, r) \in Seq(Symbols) /\ Len(WholeHeader(g, r)) = EndAt(g, r) - 1
         /\ \A w : Arriving(w, g, r) =>
              \A i \in 1 .. EndAt(g, r) - 1 : w[i] = WholeHeader(g, r)[i]
<1>1. /\ r \in Seq(Symbols) /\ g \in Seq(Symbols) /\ EndsHeader \in Seq(Symbols) /\ Len(EndsHeader) = 3
      /\ Len(g) \in {0, 1} /\ \A i \in 1 .. 3 : EndsHeader[i] = EndOfHeader[i]
      /\ \A i \in 1 .. Len(g) : g[i] = Other
  <2>1. r \in Seq(Symbols) BY BodyType
  <2>2. /\ g \in Seq(Symbols) /\ EndsHeader \in Seq(Symbols) /\ Len(EndsHeader) = 3
        /\ Len(g) \in {0, 1} /\ \A i \in 1 .. Len(g) : g[i] = Other
    BY LeftoverType
  <2>3. /\ EndsHeader[1] = EndOfHeader[1] /\ EndsHeader[2] = EndOfHeader[2]
        /\ EndsHeader[3] = EndOfHeader[3]
    BY LeftoverType
  <2>4. \A i \in 1 .. 3 : i = 1 \/ i = 2 \/ i = 3 OBVIOUS
  <2> QED BY <2>1, <2>2, <2>3, <2>4
<1>2. Len(r) \in Nat BY <1>1, LenProperties
<1>3. PICK x : x = r \o EndsHeader OBVIOUS
<1>4. Joins(r, EndsHeader, Len(r), 3) BY <1>1, Joining
<1>5. x \in Seq(Symbols) /\ Len(x) = Len(r) + 3 BY <1>3, <1>4 DEF Joins
<1>6. Joins(g, x, Len(g), Len(r) + 3) BY <1>1, <1>5, Joining
<1>7. PICK y : y = g \o x OBVIOUS
<1>8. WholeHeader(g, r) = y BY <1>3, <1>7 DEF WholeHeader
<1>9. y \in Seq(Symbols) /\ Len(y) = Len(g) + (Len(r) + 3) BY <1>6, <1>7 DEF Joins
<1>10. Len(g) + (Len(r) + 3) = EndAt(g, r) - 1 BY <1>1, <1>2 DEF EndAt
<1>11. ASSUME NEW w, Arriving(w, g, r), NEW i \in 1 .. EndAt(g, r) - 1 PROVE w[i] = y[i]
  <2>1. i \in 1 .. Len(g) + (Len(r) + 3) BY <1>10
  <2>2. CASE i <= Len(g)
    <3>1. i \in 1 .. Len(g) BY <1>1, <2>1, <2>2
    <3>2. w[i] = Other BY <1>11, <3>1 DEF Arriving
    <3>3. y[i] = g[i] BY <1>6, <1>7, <3>1 DEF Joins
    <3> QED BY <1>1, <3>1, <3>2, <3>3
  <2>3. CASE i > Len(g) /\ i <= Len(g) + Len(r)
    <3>1. PICK j : j = i - Len(g) OBVIOUS
    <3>2. j \in 1 .. Len(r) /\ j \in 1 .. Len(r) + 3 /\ i = Len(g) + j BY <1>1, <1>2, <2>1, <2>3, <3>1
    <3>3. w[Len(g) + j] = r[j] BY <1>11, <3>2 DEF Arriving
    <3>4. y[Len(g) + j] = x[j] BY <1>6, <1>7, <3>2 DEF Joins
    <3>5. x[j] = r[j] BY <1>3, <1>4, <3>2 DEF Joins
    <3> QED BY <3>2, <3>3, <3>4, <3>5
  <2>4. CASE i > Len(g) + Len(r)
    <3>1. PICK j : j = i - (Len(g) + Len(r)) OBVIOUS
    <3>2. j \in 1 .. 3 /\ j \in 1 .. 4 /\ i = Len(g) + Len(r) + j
      BY <1>1, <1>2, <2>1, <2>4, <3>1
    <3>3. PICK k : k = Len(r) + j OBVIOUS
    <3>4. k \in 1 .. Len(r) + 3 /\ i = Len(g) + k BY <1>1, <1>2, <3>2, <3>3
    <3>5. w[Len(g) + Len(r) + j] = EndOfHeader[j] BY <1>11, <3>2 DEF Arriving
    <3>6. y[Len(g) + k] = x[k] BY <1>6, <1>7, <3>4 DEF Joins
    <3>7. x[Len(r) + j] = EndsHeader[j] BY <1>3, <1>4, <3>2 DEF Joins
    <3> QED BY <1>1, <3>2, <3>3, <3>4, <3>5, <3>6, <3>7
  <2> QED BY <1>1, <1>2, <2>1, <2>2, <2>3, <2>4
<1> QED BY <1>8, <1>9, <1>10, <1>11

\* A byte that is left of the request before does not change what the header says.
LEMMA LengthOf ==
  ASSUME NEW g \in Leftovers, NEW r \in Requests
  PROVE  contentLength(WholeHeader(g, r)) = contentLength(r)
<1>1. /\ r \in Seq(Symbols) /\ g \in Seq(Symbols) /\ EndsHeader \in Seq(Symbols) /\ Len(EndsHeader) = 3
      /\ Len(g) \in {0, 1} /\ \A i \in 1 .. Len(g) : g[i] = Other
  BY BodyType, LeftoverType
<1>2. Len(r) \in Nat BY <1>1, LenProperties
<1>3. PICK x : x = r \o EndsHeader OBVIOUS
<1>4. Joins(r, EndsHeader, Len(r), 3) BY <1>1, Joining
<1>5. x \in Seq(Symbols) /\ Len(x) = Len(r) + 3 BY <1>3, <1>4 DEF Joins
<1>6. Joins(g, x, Len(g), Len(r) + 3) BY <1>1, <1>5, Joining
<1>7. PICK y : y = g \o x OBVIOUS
<1>8. y \in Seq(Symbols) /\ Len(y) = Len(g) + (Len(r) + 3) BY <1>6, <1>7 DEF Joins
<1>9. DOMAIN y = 1 .. Len(g) + (Len(r) + 3) /\ DOMAIN r = 1 .. Len(r) BY <1>1, <1>8, LenProperties
<1>10. \A i \in 1 .. Len(r) : y[Len(g) + i] = r[i]
  <2> SUFFICES ASSUME NEW i \in 1 .. Len(r) PROVE y[Len(g) + i] = r[i]
    OBVIOUS
  <2>1. i \in 1 .. Len(r) + 3 BY <1>2
  <2>2. y[Len(g) + i] = x[i] BY <1>6, <1>7, <2>1 DEF Joins
  <2>3. x[i] = r[i] BY <1>3, <1>4 DEF Joins
  <2> QED BY <2>2, <2>3
<1>11. Other \notin Nat /\ CR \notin Nat /\ LF \notin Nat BY HttpAssumption
<1>12. ASSUME NEW i \in Fields(y) PROVE i - Len(g) \in Fields(r) /\ i \in Nat
  <2>1. i \in 1 .. Len(g) + (Len(r) + 3) /\ y[i] \in Nat BY <1>9 DEF Fields
  <2>2. CASE i <= Len(g)
    <3>1. i \in 1 .. Len(g) BY <1>1, <2>1, <2>2
    <3>2. y[i] = Other BY <1>1, <1>6, <1>7, <3>1 DEF Joins
    <3> QED BY <1>11, <2>1, <3>2
  <2>3. CASE i > Len(g) + Len(r)
    <3>1. PICK j : j = i - (Len(g) + Len(r)) OBVIOUS
    <3>2. j \in 1 .. 3
      <4>1. PICK a, b : a = Len(g) /\ b = Len(r) OBVIOUS
      <4>2. a \in Nat /\ b \in Nat /\ i \in 1 .. a + (b + 3) /\ i > a + b /\ j = i - (a + b)
        BY <1>1, <1>2, <2>1, <2>3, <3>1, <4>1
      <4> QED BY <4>2
    <3>3. PICK k : k = Len(r) + j OBVIOUS
    <3>4. k \in 1 .. Len(r) + 3 /\ i = Len(g) + k BY <1>1, <1>2, <2>1, <3>1, <3>2, <3>3
    <3>5. y[Len(g) + k] = x[k] BY <1>6, <1>7, <3>4 DEF Joins
    <3>6. x[Len(r) + j] = EndsHeader[j] BY <1>3, <1>4, <3>2 DEF Joins
    <3>7. EndsHeader[j] \in {CR, LF}
      <4>1. j = 1 \/ j = 2 \/ j = 3 BY <3>2
      <4>2. EndsHeader[1] = CR /\ EndsHeader[2] = LF /\ EndsHeader[3] = CR BY LeftoverType
      <4> QED BY <4>1, <4>2
    <3> QED BY <1>11, <2>1, <3>3, <3>4, <3>5, <3>6, <3>7
  <2>4. CASE i > Len(g) /\ i <= Len(g) + Len(r)
    <3>1. PICK j : j = i - Len(g) OBVIOUS
    <3>2. j \in 1 .. Len(r) /\ i = Len(g) + j /\ i \in Nat BY <1>1, <1>2, <2>1, <2>4, <3>1
    <3>3. y[Len(g) + j] = r[j] BY <1>10, <3>2
    <3> QED BY <1>9, <2>1, <3>1, <3>2, <3>3 DEF Fields
  <2> QED BY <1>1, <1>2, <2>1, <2>2, <2>3, <2>4
<1>13. ASSUME NEW j \in Fields(r) PROVE Len(g) + j \in Fields(y)
  <2>1. j \in 1 .. Len(r) /\ r[j] \in Nat BY <1>9 DEF Fields
  <2>2. Len(g) + j \in 1 .. Len(g) + (Len(r) + 3) BY <1>1, <1>2, <2>1
  <2> QED BY <1>9, <1>10, <2>1, <2>2 DEF Fields
<1>14. CASE Fields(r) = {}
  <2>1. Fields(y) = {} BY <1>12, <1>14
  <2> QED BY <1>1, <1>3, <1>7, <1>8, <1>14, <2>1, FieldsOf DEF WholeHeader
<1>15. CASE Fields(r) # {}
  <2>1. Fields(r) \subseteq Nat /\ Fields(y) \subseteq Nat BY <1>1, <1>8, FieldsOf
  <2>2. PICK n : n = Min(Fields(r)) OBVIOUS
  <2>3. n \in Fields(r) /\ \A k \in Fields(r) : n <= k BY <1>15, <2>1, <2>2, EmptyOrLeast
  <2>4. Len(g) + n \in Fields(y) BY <1>13, <2>3
  <2>5. \A k \in Fields(y) : Len(g) + n <= k
    <3> SUFFICES ASSUME NEW k \in Fields(y) PROVE Len(g) + n <= k
      OBVIOUS
    <3>1. k - Len(g) \in Fields(r) /\ k \in Nat BY <1>12
    <3>2. n <= k - Len(g) /\ n \in Nat BY <2>1, <2>3, <3>1
    <3> QED BY <1>1, <3>1, <3>2
  <2>6. PICK m : m = Len(g) + n OBVIOUS
  <2>7. Min(Fields(y)) = m
    <3>1. m \in Fields(y) /\ \A k \in Fields(y) : m <= k BY <2>4, <2>5, <2>6
    <3> QED BY <2>1, <3>1, LeastIs
  <2>8. contentLength(y) = <<y[m]>> BY <1>8, <2>4, <2>7, FieldsOf
  <2>9. contentLength(r) = <<r[n]>> BY <1>1, <1>15, <2>2, FieldsOf
  <2>10. y[m] = r[n]
    <3>1. n \in 1 .. Len(r) BY <1>9, <2>3 DEF Fields
    <3> QED BY <1>10, <2>6, <3>1
  <2> QED BY <1>3, <1>7, <2>8, <2>9, <2>10 DEF WholeHeader
<1> QED BY <1>14, <1>15

LEMMA SuffixOfJoin ==
  ASSUME NEW S, NEW s \in Seq(S), NEW t \in Seq(S)
  PROVE  IsSuffix(t, s \o t)
<1> DEFINE u == s \o t
           a == Reverse(t)
           b == Reverse(u)
<1>1. Len(s) \in Nat /\ Len(t) \in Nat /\ \A i \in 1 .. Len(t) : t[i] \in S BY LenProperties, ElementOfSeq
<1>2. /\ u \in Seq(S) /\ Len(u) = Len(s) + Len(t)
      /\ \A i \in 1 .. Len(s) + Len(t) : u[i] = IF i <= Len(s) THEN s[i] ELSE t[i - Len(s)]
  BY ConcatProperties
<1> HIDE DEF u
<1>3. \A i \in 1 .. Len(u) : u[i] \in S BY <1>2, ElementOfSeq
<1>4. a \in Seq(S) /\ Len(a) = Len(t) /\ \A i \in 1 .. Len(t) : a[i] = t[(Len(t) - i) + 1]
  <2>1. a = [i \in 1 .. Len(t) |-> t[(Len(t) - i) + 1]] BY DEF Reverse
  <2>2. \A i \in 1 .. Len(t) : t[(Len(t) - i) + 1] \in S BY <1>1
  <2>3. \A n \in Nat : \A f \in [1 .. n -> S] : f \in Seq(S) /\ Len(f) = n OBVIOUS
  <2> HIDE DEF a
  <2>4. a \in [1 .. Len(t) -> S] BY <2>1, <2>2
  <2> QED BY <1>1, <2>1, <2>3, <2>4
<1>5. b \in Seq(S) /\ Len(b) = Len(u) /\ \A i \in 1 .. Len(u) : b[i] = u[(Len(u) - i) + 1]
  <2>1. b = [i \in 1 .. Len(u) |-> u[(Len(u) - i) + 1]] BY DEF Reverse
  <2>2. \A i \in 1 .. Len(u) : u[(Len(u) - i) + 1] \in S BY <1>1, <1>2, <1>3
  <2>3. \A n \in Nat : \A f \in [1 .. n -> S] : f \in Seq(S) /\ Len(f) = n OBVIOUS
  <2> HIDE DEF b
  <2>4. b \in [1 .. Len(u) -> S] BY <2>1, <2>2
  <2> QED BY <1>1, <1>2, <2>1, <2>3, <2>4
<1> HIDE DEF a, b
<1>6. PICK n \in Nat : n = Len(t) BY <1>1
<1>7. n <= Len(a) /\ n <= Len(b) BY <1>1, <1>2, <1>4, <1>5, <1>6
<1>8. /\ First(a, n) \in Seq(S) /\ Len(First(a, n)) = n /\ \A i \in 1 .. n : First(a, n)[i] = a[i]
  BY <1>4, <1>7, CutType
<1>9. /\ First(b, n) \in Seq(S) /\ Len(First(b, n)) = n /\ \A i \in 1 .. n : First(b, n)[i] = b[i]
  BY <1>5, <1>7, CutType
<1>10. ASSUME NEW i \in 1 .. n PROVE First(a, n)[i] = First(b, n)[i]
  <2>1. PICK j : j = (Len(u) - i) + 1 OBVIOUS
  <2>2. /\ i \in 1 .. Len(u) /\ i \in 1 .. Len(t) /\ j \in 1 .. Len(s) + Len(t) /\ ~(j <= Len(s))
        /\ j - Len(s) = (Len(t) - i) + 1
    BY <1>1, <1>2, <1>6, <2>1
  <2>3. b[i] = u[j] BY <1>5, <2>1, <2>2
  <2>4. u[j] = t[(Len(t) - i) + 1] BY <1>2, <2>2
  <2>5. a[i] = t[(Len(t) - i) + 1] BY <1>4, <2>2
  <2> QED BY <1>8, <1>9, <2>3, <2>4, <2>5
<1>11. First(a, n) = First(b, n)
  <2>1. PICK x, y : x = First(a, n) /\ y = First(b, n) OBVIOUS
  <2>2. x \in Seq(S) /\ y \in Seq(S) /\ Len(x) = Len(y) /\ \A i \in 1 .. Len(x) : x[i] = y[i]
    BY <1>8, <1>9, <1>10, <2>1
  <2>3. x = y BY <2>2, SeqEqual
  <2> QED BY <2>1, <2>3
<1>12. IsPrefix(a, b) BY <1>4, <1>6, <1>7, <1>11 DEF IsPrefix, First
<1> QED BY <1>12 DEF IsSuffix, a, b, u

-----------------------------------------------------------------------------
(* The invariant.                                                          *)

ParserTypeOK ==
  /\ m_state \in 0 .. 4 /\ m_httpHeader \in Seq(Symbols) /\ m_httpBody \in Seq(Symbols)
  /\ m_bodyLengthToGet \in Int
  /\ complete \in Seq([header : Seq(Symbols), body : Seq(Symbols)])
  /\ process \in {"up", "dying", "gone"}

HttpTypeOK == sentRequests \in Seq(Requests) /\ unread \in Seq(Symbols) /\ ParserTypeOK

Newest    == sentRequests[Len(sentRequests)]
Awaited   == Len(complete) = Len(sentRequests) - 1
Unhandled == m_httpHeader \o unread

\* The end of the header is still to be found.
ReadsHeader ==
  /\ m_httpBody = << >> /\ m_state = Scan(0, m_httpHeader)[Len(m_httpHeader)]
  /\ m_bodyLengthToGet <= 0
  /\ \/ Awaited /\ \E g \in Leftovers : Unhandled = g \o Sent(Newest)
     \/ Len(complete) = Len(sentRequests) /\ Unhandled \in Leftovers

\* The body is counted from the byte that ended the header on.
ReadsBody ==
  /\ Awaited /\ contentLength(Newest) # << >>
  /\ m_bodyLengthToGet > 0 /\ Len(unread) = m_bodyLengthToGet + 1
  /\ \A i \in 1 .. Len(unread) : unread[i] = Other
  /\ \E g \in Leftovers : m_httpHeader = WholeHeader(g, Newest)

Right(request, answer) ==
  /\ IsSuffix(request \o <<CR, LF, CR>>, answer.header)
  /\ contentLength(request) = << >> => answer.body = <<LF>>

HttpInv ==
  /\ HttpTypeOK
  /\ process = "up" =>
       /\ \A i \in DOMAIN complete : Right(sentRequests[i], complete[i])
       /\ m_state < 4 => ReadsHeader
       /\ m_state = 4 => ReadsBody

LEMMA HttpInvInit == HttpInit => HttpInv
<1> SUFFICES ASSUME HttpInit PROVE HttpInv
  OBVIOUS
<1>1. /\ sentRequests = << >> /\ unread = << >> /\ m_state = 0 /\ m_httpHeader = << >>
      /\ m_httpBody = << >> /\ m_bodyLengthToGet = -1 /\ complete = << >> /\ process = "up"
  BY DEF HttpInit
<1>2. \A S : << >> \in Seq(S) BY EmptySeq
<1>3. HttpTypeOK BY <1>1, <1>2 DEF HttpTypeOK, ParserTypeOK
<1>4. << >> \o << >> = << >> BY <1>2, ConcatEmptySeq
<1>5. << >> \in Leftovers /\ Len(<< >>) = 0 /\ DOMAIN << >> = {} BY DEF Leftovers
<1>6. Scan(0, << >>)[0] = 0 BY <1>5, LeftoverScan
<1>7. ReadsHeader BY <1>1, <1>4, <1>5, <1>6 DEF ReadsHeader, Unhandled
<1> QED BY <1>1, <1>3, <1>5, <1>7 DEF HttpInv

\* What a piece of the stream is of all that is to be handled
PieceSeen(w, h, d, n, a) ==
  /\ w \in Seq(Symbols) /\ h \in Nat /\ n \in Nat /\ n >= 1 /\ h + n <= Len(w) /\ Len(w) \in Nat
  /\ Len(m_httpHeader) = h /\ \A i \in 1 .. h : w[i] = m_httpHeader[i]
  /\ d \in Seq(Symbols) /\ Len(d) = n /\ \A i \in 1 .. n : d[i] = w[h + i]
  /\ a \in Seq(Symbols) /\ Len(a) = Len(w) - (h + n)
  /\ \A i \in 1 .. Len(a) : a[i] = w[h + n + i]
  /\ w = (m_httpHeader \o d) \o a

LEMMA PieceOf ==
  ASSUME HttpTypeOK, NEW n \in 1 .. Len(unread)
  PROVE  PieceSeen(Unhandled, Len(m_httpHeader), First(unread, n), n, Behind(unread, n))
<1>1. m_httpHeader \in Seq(Symbols) /\ unread \in Seq(Symbols) BY DEF HttpTypeOK, ParserTypeOK
<1>2. PICK w, h, d, a : /\ w = Unhandled /\ h = Len(m_httpHeader) /\ d = First(unread, n)
                        /\ a = Behind(unread, n)
  OBVIOUS
<1>3. h \in Nat /\ Len(unread) \in Nat /\ n \in Nat /\ n >= 1 /\ n <= Len(unread)
  BY <1>1, <1>2, LenProperties
<1>4. Joins(m_httpHeader, unread, h, Len(unread)) BY <1>1, <1>2, Joining
<1>5. /\ w \in Seq(Symbols) /\ Len(w) = h + Len(unread) /\ \A i \in 1 .. h : w[i] = m_httpHeader[i]
      /\ \A i \in 1 .. Len(unread) : w[h + i] = unread[i]
  BY <1>2, <1>4 DEF Joins, Unhandled
<1>6. /\ d \in Seq(Symbols) /\ Len(d) = n /\ \A i \in 1 .. n : d[i] = unread[i]
      /\ a \in Seq(Symbols) /\ Len(a) = Len(unread) - n
      /\ \A i \in 1 .. Len(unread) - n : a[i] = unread[n + i]
  <2> HIDE DEF First, Behind
  <2> QED BY <1>1, <1>2, <1>3, CutType
<1>7. d \o a = unread
  <2>1. n \in 0 .. Len(unread) BY <1>3
  <2> QED BY <1>1, <1>2, <2>1, CutJoins
<1>8. w = (m_httpHeader \o d) \o a
  <2>1. (m_httpHeader \o d) \o a = m_httpHeader \o (d \o a)
    <3>1. PICK s : s = m_httpHeader OBVIOUS
    <3>2. s \in Seq(Symbols) /\ d \in Seq(Symbols) /\ a \in Seq(Symbols) BY <1>1, <1>6, <3>1
    <3>3. (s \o d) \o a = s \o (d \o a) BY <3>2, ConcatAssociative
    <3> QED BY <3>1, <3>3
  <2> QED BY <1>2, <1>7, <2>1 DEF Unhandled
<1>9. ASSUME NEW i \in 1 .. Len(a) PROVE a[i] = w[h + n + i]
  <2>1. PICK j : j = n + i OBVIOUS
  <2>2. j \in 1 .. Len(unread) /\ h + n + i = h + j BY <1>3, <1>6, <2>1
  <2> QED BY <1>5, <1>6, <2>1, <2>2
<1>10. \A i \in 1 .. n : d[i] = w[h + i] BY <1>3, <1>5, <1>6
<1>11. h + n <= Len(w) /\ Len(w) \in Nat /\ Len(a) = Len(w) - (h + n) BY <1>3, <1>5, <1>6
<1>12. PieceSeen(w, h, d, n, a)
  BY <1>2, <1>3, <1>5, <1>6, <1>8, <1>9, <1>10, <1>11 DEF PieceSeen
<1> QED BY <1>2, <1>12

\* The search in the piece is a part of the search in all that is to be handled.
LEMMA PieceScan ==
  ASSUME HttpTypeOK, ReadsHeader, NEW w, NEW h, NEW d, NEW n, NEW a, PieceSeen(w, h, d, n, a)
  PROVE  /\ m_state = Scan(0, w)[h]
         /\ \A k \in 0 .. n : matched(d)[k] = Scan(0, w)[h + k]
         /\ Scan(0, m_httpHeader \o d)[h + n] = Scan(0, w)[h + n]
         /\ m_httpHeader \o d \in Seq(Symbols) /\ Len(m_httpHeader \o d) = h + n
<1>1. /\ w \in Seq(Symbols) /\ h \in Nat /\ n \in Nat /\ n >= 1 /\ h + n <= Len(w) /\ Len(w) \in Nat
      /\ Len(m_httpHeader) = h /\ \A i \in 1 .. h : w[i] = m_httpHeader[i]
      /\ d \in Seq(Symbols) /\ Len(d) = n /\ \A i \in 1 .. n : w[h + i] = d[i]
      /\ m_httpHeader \in Seq(Symbols)
  BY DEF PieceSeen, HttpTypeOK, ParserTypeOK
<1>2. Scan(0, w)[0] = 0
  <2>1. Found(Scan(0, w), 0, w) BY <1>1, ScanFinds
  <2> QED BY <2>1 DEF Found
<1>3. m_state = Scan(0, w)[h]
  <2>1. 0 \in Nat /\ 0 + h <= Len(w) /\ h <= Len(m_httpHeader) /\ 0 \in 0 .. 4 BY <1>1
  <2>2. \A i \in 1 .. h : w[0 + i] = m_httpHeader[i] BY <1>1
  <2>3. SameBytes(w, m_httpHeader, 0, h) BY <1>1, <2>1, <2>2 DEF SameBytes
  <2>6. SameWay(0, w, m_httpHeader, 0, h) BY <2>1, <2>3, SameScan
  <2>4. Scan(0, w)[0 + h] = Scan(0, m_httpHeader)[h] /\ 0 + h = h BY <1>1, <1>2, <2>6 DEF SameWay
  <2>5. m_state = Scan(0, m_httpHeader)[h] BY <1>1 DEF ReadsHeader
  <2> QED BY <2>4, <2>5
<1>4. \A k \in 0 .. n : Scan(0, w)[h + k] = Scan(Scan(0, w)[h], d)[k]
  <2>1. n <= Len(d) /\ 0 \in 0 .. 4 BY <1>1
  <2>2. SameBytes(w, d, h, n) BY <1>1, <2>1 DEF SameBytes
  <2>3. SameWay(0, w, d, h, n) BY <2>1, <2>2, SameScan
  <2> QED BY <2>3 DEF SameWay
<1>5. \A k \in 0 .. n : matched(d)[k] = Scan(0, w)[h + k] BY <1>3, <1>4 DEF matched
<1>6. PICK x : x = m_httpHeader \o d OBVIOUS
<1>7. Joins(m_httpHeader, d, h, n) BY <1>1, Joining
<1>8. /\ x \in Seq(Symbols) /\ Len(x) = h + n /\ \A i \in 1 .. h : x[i] = m_httpHeader[i]
      /\ \A i \in 1 .. n : x[h + i] = d[i]
  BY <1>6, <1>7 DEF Joins
<1>9. \A i \in 1 .. h + n : w[i] = x[i]
  <2> SUFFICES ASSUME NEW i \in 1 .. h + n PROVE w[i] = x[i]
    OBVIOUS
  <2>1. CASE i <= h
    <3>1. i \in 1 .. h BY <1>1, <2>1
    <3> QED BY <1>1, <1>8, <3>1
  <2>2. CASE i > h
    <3>1. PICK j : j = i - h OBVIOUS
    <3>2. j \in 1 .. n /\ i = h + j BY <1>1, <2>2, <3>1
    <3> QED BY <1>1, <1>8, <3>2
  <2> QED BY <1>1, <2>1, <2>2
<1>10. Scan(0, x)[h + n] = Scan(0, w)[h + n]
  <2>1. PICK m : m = h + n OBVIOUS
  <2>2. m \in Nat /\ 0 \in Nat /\ 0 + m <= Len(w) /\ m <= Len(x) /\ 0 \in 0 .. 4 BY <1>1, <1>8, <2>1
  <2>3. \A i \in 1 .. m : w[0 + i] = x[i] BY <1>9, <2>1, <2>2
  <2>4. SameBytes(w, x, 0, m) BY <1>1, <1>8, <2>2, <2>3 DEF SameBytes
  <2>6. SameWay(0, w, x, 0, m) BY <2>2, <2>4, SameScan
  <2>5. Scan(0, w)[0 + m] = Scan(0, x)[m] /\ 0 + m = m BY <1>2, <2>2, <2>6 DEF SameWay
  <2> QED BY <2>1, <2>5
<1> QED BY <1>3, <1>5, <1>6, <1>8, <1>10

LEMMA PiecesType ==
  ASSUME HttpTypeOK, NEW n \in 1 .. Len(unread)
  PROVE  /\ First(unread, n) \in Seq(Symbols) /\ Len(First(unread, n)) = n /\ n \in Nat
         /\ Behind(unread, n) \in Seq(Symbols)
BY PieceOf DEF PieceSeen

LEMMA PartType ==
  ASSUME NEW s \in Seq(Symbols), NEW i \in Int, NEW j \in Int, i >= 1, j <= Len(s)
  PROVE  SubSeq(s, i, j) \in Seq(Symbols)
<1>1. Len(s) \in Nat /\ \A k \in 1 .. Len(s) : s[k] \in Symbols BY LenProperties, ElementOfSeq
<1>2. \A k \in i .. j : s[k] \in Symbols BY <1>1
<1> QED BY <1>2, SubSeqProperties

LEMMA HandOverType ==
  ASSUME HttpTypeOK, NEW header \in Seq(Symbols), NEW body \in Seq(Symbols), NEW left \in Int,
         HandOver(header, body, left)
  PROVE  ParserTypeOK'
<1>1. /\ complete' = Append(complete, [header |-> header, body |-> body])
      /\ m_state' = 0 /\ m_httpHeader' = << >> /\ m_httpBody' = << >> /\ m_bodyLengthToGet' = left
      /\ process' = process
  BY DEF HandOver
<1>2. << >> \in Seq(Symbols) BY EmptySeq
<1>3. complete' \in Seq([header : Seq(Symbols), body : Seq(Symbols)])
  <2> DEFINE R == [header : Seq(Symbols), body : Seq(Symbols)]
  <2>1. [header |-> header, body |-> body] \in R OBVIOUS
  <2>2. complete \in Seq(R) BY DEF HttpTypeOK, ParserTypeOK
  <2> HIDE DEF R
  <2>3. complete' \in Seq(R) BY <1>1, <2>1, <2>2, AppendProperties
  <2> QED BY <2>3 DEF R
<1> QED BY <1>1, <1>2, <1>3 DEF HttpTypeOK, ParserTypeOK

LEMMA HeaderEndsType ==
  ASSUME HttpTypeOK, NEW d \in Seq(Symbols), Len(d) >= 1, HeaderEnds(d)
  PROVE  ParserTypeOK'
<1> DEFINE I == {k \in DOMAIN d : matched(d)[k] = 4}
           i == Min(I)
           header == m_httpHeader \o SubSeq(d, 1, i - 1)
           body   == m_httpBody \o SubSeq(d, i, Len(d))
           length == contentLength(header)
           left   == IF length = << >> THEN m_bodyLengthToGet ELSE length[1] - (Len(d) - i + 1)
<1>1. Len(d) \in Nat /\ DOMAIN d = 1 .. Len(d) BY LenProperties
<1>2. matched(d)[Len(d)] = 4 BY DEF HeaderEnds
<1>3. I \subseteq Nat /\ Len(d) \in I BY <1>1, <1>2
<1>4. i \in I
  <2> HIDE DEF I
  <2> QED BY <1>3, EmptyOrLeast
<1>5. i \in 1 .. Len(d) BY <1>1, <1>4
<1>6. /\ IF left > 0
         THEN /\ m_state' = 4 /\ m_httpHeader' = header /\ m_httpBody' = body /\ m_bodyLengthToGet' = left
              /\ UNCHANGED <<complete, process>>
         ELSE HandOver(header, body, left)
  BY DEF HeaderEnds
<1> HIDE DEF i
<1>7. SubSeq(d, 1, i - 1) \in Seq(Symbols)
  <2>1. 1 \in Int /\ i - 1 \in Int /\ 1 >= 1 /\ i - 1 <= Len(d) BY <1>1, <1>5
  <2> QED BY <2>1, PartType
<1>8. SubSeq(d, i, Len(d)) \in Seq(Symbols)
  <2>1. i \in Int /\ Len(d) \in Int /\ i >= 1 /\ Len(d) <= Len(d) BY <1>1, <1>5
  <2> QED BY <2>1, PartType
<1>9. header \in Seq(Symbols)
  <2>1. m_httpHeader \in Seq(Symbols) BY DEF HttpTypeOK, ParserTypeOK
  <2>2. PICK s : s = SubSeq(d, 1, i - 1) OBVIOUS
  <2>3. m_httpHeader \o s \in Seq(Symbols) BY <1>7, <2>1, <2>2, ConcatProperties
  <2> QED BY <2>2, <2>3
<1>10. body \in Seq(Symbols)
  <2>1. m_httpBody \in Seq(Symbols) BY DEF HttpTypeOK, ParserTypeOK
  <2>2. PICK s : s = SubSeq(d, i, Len(d)) OBVIOUS
  <2>3. m_httpBody \o s \in Seq(Symbols) BY <1>8, <2>1, <2>2, ConcatProperties
  <2> QED BY <2>2, <2>3
<1> HIDE DEF header, body
<1>11. left \in Int
  <2>1. length # << >> => length[1] \in Nat
    <3>1. Fields(header) = {} \/ Fields(header) # {} OBVIOUS
    <3> QED BY <1>9, <3>1, FieldsOf
  <2>2. m_bodyLengthToGet \in Int BY DEF HttpTypeOK, ParserTypeOK
  <2> HIDE DEF length
  <2> QED BY <1>1, <1>5, <2>1, <2>2
<1> HIDE DEF left, length
<1>12. CASE left > 0
  BY <1>6, <1>9, <1>10, <1>11, <1>12 DEF HttpTypeOK, ParserTypeOK
<1>13. CASE ~(left > 0)
  <2>1. HandOver(header, body, left) BY <1>6, <1>13
  <2> QED BY <1>9, <1>10, <1>11, <2>1, HandOverType
<1> QED BY <1>12, <1>13

LEMMA HeaderContinuesType ==
  ASSUME HttpTypeOK, NEW d \in Seq(Symbols), HeaderContinues(d)
  PROVE  ParserTypeOK'
<1>1. Len(d) \in Nat BY LenProperties
<1>2. matched(d)[Len(d)] \in 0 .. 4
  <2>1. m_state \in 0 .. 4 BY DEF HttpTypeOK, ParserTypeOK
  <2>2. Found(Scan(m_state, d), m_state, d) BY <2>1, ScanFinds
  <2>3. Len(d) \in 0 .. Len(d) BY <1>1
  <2> QED BY <2>2, <2>3 DEF Found, matched
<1>3. m_httpHeader \o d \in Seq(Symbols)
  <2>1. m_httpHeader \in Seq(Symbols) BY DEF HttpTypeOK, ParserTypeOK
  <2> QED BY <2>1, ConcatProperties
<1>4. << >> \in Seq(Symbols) BY EmptySeq
<1>5. complete' = complete /\ m_bodyLengthToGet' = m_bodyLengthToGet BY DEF HeaderContinues
<1>6. \/ process' = "dying" /\ m_state' = 0 /\ m_httpHeader' = << >> /\ m_httpBody' = << >>
      \/ /\ m_state' = matched(d)[Len(d)] /\ m_httpHeader' = m_httpHeader \o d
         /\ m_httpBody' = m_httpBody /\ process' = process
  BY DEF HeaderContinues
<1>7. CASE process' = "dying" /\ m_state' = 0 /\ m_httpHeader' = << >> /\ m_httpBody' = << >>
  BY <1>4, <1>5, <1>7 DEF HttpTypeOK, ParserTypeOK
<1>8. CASE /\ m_state' = matched(d)[Len(d)] /\ m_httpHeader' = m_httpHeader \o d
           /\ m_httpBody' = m_httpBody /\ process' = process
  BY <1>2, <1>3, <1>5, <1>8 DEF HttpTypeOK, ParserTypeOK
<1> QED BY <1>6, <1>7, <1>8

LEMMA BodyContinuesType ==
  ASSUME HttpTypeOK, NEW d \in Seq(Symbols), BodyContinues(d)
  PROVE  ParserTypeOK'
<1> DEFINE m    == Min({Len(d), m_bodyLengthToGet})
           body == m_httpBody \o SubSeq(d, 1, m)
           left == m_bodyLengthToGet - Len(d)
<1>1. Len(d) \in Nat /\ m_bodyLengthToGet \in Int BY LenProperties DEF HttpTypeOK, ParserTypeOK
<1>2. m \in Int /\ m <= Len(d)
  <2> DEFINE a == Len(d)
             b == m_bodyLengthToGet
  <2>1. a \in Int /\ b \in Int BY <1>1
  <2> HIDE DEF a, b
  <2>2. \E x \in {a, b} : \A y \in {a, b} : x <= y BY <2>1
  <2>3. Min({a, b}) \in {a, b} /\ \A y \in {a, b} : Min({a, b}) <= y BY <2>2 DEF Min
  <2> QED BY <2>1, <2>3 DEF a, b
<1> HIDE DEF m
<1>3. SubSeq(d, 1, m) \in Seq(Symbols)
  <2>1. 1 \in Int /\ 1 >= 1 OBVIOUS
  <2> QED BY <1>2, <2>1, PartType
<1>4. body \in Seq(Symbols)
  <2>1. m_httpBody \in Seq(Symbols) BY DEF HttpTypeOK, ParserTypeOK
  <2>2. PICK s : s = SubSeq(d, 1, m) OBVIOUS
  <2>3. m_httpBody \o s \in Seq(Symbols) BY <1>3, <2>1, <2>2, ConcatProperties
  <2> QED BY <2>2, <2>3
<1>5. left \in Int BY <1>1
<1>6. IF left > 0
      THEN /\ m_httpBody' = body /\ m_bodyLengthToGet' = left
           /\ UNCHANGED <<m_state, m_httpHeader, complete, process>>
      ELSE HandOver(m_httpHeader, body, left)
  BY DEF BodyContinues, m
<1> HIDE DEF body, left
<1>7. CASE left > 0 BY <1>4, <1>5, <1>6, <1>7 DEF HttpTypeOK, ParserTypeOK
<1>8. CASE ~(left > 0)
  <2>1. HandOver(m_httpHeader, body, left) BY <1>6, <1>8
  <2>2. m_httpHeader \in Seq(Symbols) BY DEF HttpTypeOK, ParserTypeOK
  <2> QED BY <1>4, <1>5, <2>1, <2>2, HandOverType
<1> QED BY <1>7, <1>8

LEMMA HttpTypeKept == HttpTypeOK /\ [HttpNext]_httpVars => HttpTypeOK'
<1> SUFFICES ASSUME HttpTypeOK, [HttpNext]_httpVars PROVE HttpTypeOK'
  OBVIOUS
<1>1. CASE clientSends
  <2>1. PICK r \in Requests : sentRequests' = Append(sentRequests, r) /\ unread' = unread \o Sent(r)
    BY <1>1 DEF clientSends
  <2>2. sentRequests' \in Seq(Requests) BY <2>1, AppendProperties DEF HttpTypeOK, ParserTypeOK
  <2>3. Sent(r) \in Seq(Symbols)
    <3>1. /\ r \in Seq(Symbols) /\ BodyOf(r) \in Seq(Symbols) /\ Sent(r) = (r \o EndOfHeader) \o BodyOf(r)
      BY BodyType
    <3>2. << >> \in Leftovers BY DEF Leftovers
    <3>3. EndOfHeader \in Seq(Symbols) BY <3>2, LeftoverType
    <3>4. PICK x, y : x = r \o EndOfHeader /\ y = BodyOf(r) OBVIOUS
    <3>5. x \in Seq(Symbols) BY <3>1, <3>3, <3>4, ConcatProperties
    <3>6. x \o y \in Seq(Symbols) BY <3>1, <3>4, <3>5, ConcatProperties
    <3> QED BY <3>1, <3>4, <3>6
  <2>4. unread' \in Seq(Symbols) BY <2>1, <2>3, ConcatProperties DEF HttpTypeOK, ParserTypeOK
  <2>5. UNCHANGED <<parserVars, complete, process>> BY <1>1 DEF clientSends
  <2> QED BY <2>2, <2>4, <2>5 DEF HttpTypeOK, ParserTypeOK, parserVars
<1>2. CASE onHttpReceived
  <2>1. PICK n \in 1 .. Len(unread) :
          /\ unread' = Behind(unread, n)
          /\ IF m_state = 4 THEN BodyContinues(First(unread, n))
             ELSE HeaderEnds(First(unread, n)) \/ HeaderContinues(First(unread, n))
    BY <1>2 DEF onHttpReceived, First, Behind
  <2>2. PICK d : d = First(unread, n) OBVIOUS
  <2>3. d \in Seq(Symbols) /\ Len(d) >= 1 /\ unread' \in Seq(Symbols) BY <2>1, <2>2, PiecesType
  <2>4. BodyContinues(d) \/ HeaderEnds(d) \/ HeaderContinues(d) BY <2>1, <2>2
  <2>5. ParserTypeOK'
    BY <2>3, <2>4, BodyContinuesType, HeaderEndsType, HeaderContinuesType
  <2>6. sentRequests' \in Seq(Requests) BY <1>2 DEF onHttpReceived, HttpTypeOK, ParserTypeOK
  <2> QED BY <2>3, <2>5, <2>6 DEF HttpTypeOK, ParserTypeOK
<1>3. CASE giveUpConnection
  <2>1. << >> \in Seq(Symbols) BY EmptySeq
  <2> QED BY <1>3, <2>1 DEF giveUpConnection, HttpTypeOK, ParserTypeOK
<1>4. CASE onTimeout BY <1>4 DEF onTimeout, HttpTypeOK, ParserTypeOK, parserVars
<1>5. CASE selfDestruct BY <1>5 DEF selfDestruct, HttpTypeOK, ParserTypeOK, parserVars
<1>6. CASE UNCHANGED httpVars BY <1>6 DEF httpVars, HttpTypeOK, ParserTypeOK, parserVars
<1> QED BY <1>1, <1>2, <1>3, <1>4, <1>5, <1>6 DEF HttpNext

-----------------------------------------------------------------------------
(* A request is handed over.                                               *)

LEMMA LeftoverIs ==
  ASSUME NEW s \in Seq(Symbols), Len(s) <= 1, \A i \in 1 .. Len(s) : s[i] = Other
  PROVE  s \in Leftovers
<1>1. Len(s) \in Nat BY LenProperties
<1>2. CASE Len(s) = 0
  <2>1. s = << >> BY <1>2, EmptySeq
  <2> QED BY <2>1 DEF Leftovers
<1>3. CASE Len(s) = 1
  <2>1. s[1] = Other BY <1>3
  <2>2. Other \in Symbols BY DEF Symbols
  <2>3. <<Other>> \in Seq(Symbols) /\ Len(<<Other>>) = 1 /\ <<Other>>[1] = Other BY <2>2
  <2>4. \A i \in 1 .. Len(s) : s[i] = <<Other>>[i] BY <1>3, <2>1, <2>3
  <2>5. s = <<Other>> BY <1>3, <2>3, <2>4, SeqEqual
  <2> QED BY <2>5 DEF Leftovers
<1>4. Len(s) = 0 \/ Len(s) = 1
  <2>1. PICK n : n = Len(s) OBVIOUS
  <2>2. n \in Nat /\ n <= 1 BY <1>1, <2>1
  <2> QED BY <2>1, <2>2
<1> QED BY <1>2, <1>3, <1>4

\* The header of the awaited request is what is right for it.
LEMMA HeaderRight ==
  ASSUME NEW g \in Leftovers, NEW r \in Requests
  PROVE  IsSuffix(r \o <<CR, LF, CR>>, WholeHeader(g, r))
<1>1. r \in Seq(Symbols) BY BodyType
<1>2. g \in Seq(Symbols) /\ EndsHeader \in Seq(Symbols) BY LeftoverType
<1>3. PICK t : t = r \o EndsHeader OBVIOUS
<1>4. t \in Seq(Symbols) BY <1>1, <1>2, <1>3, ConcatProperties
<1>5. IsSuffix(t, g \o t) BY <1>2, <1>4, SuffixOfJoin
<1> QED BY <1>3, <1>5 DEF WholeHeader, EndsHeader

LEMMA AwaitedIs ==
  ASSUME HttpTypeOK, Awaited
  PROVE  Newest \in Requests /\ Len(complete) \in Nat /\ Len(sentRequests) = Len(complete) + 1
<1>1. sentRequests \in Seq(Requests) /\ Len(complete) \in Nat /\ Len(sentRequests) \in Nat
  BY LenProperties DEF HttpTypeOK, ParserTypeOK
<1>2. Len(sentRequests) \in 1 .. Len(sentRequests) BY <1>1 DEF Awaited
<1>3. Newest \in Requests BY <1>1, <1>2, ElementOfSeq DEF Newest
<1> QED BY <1>1, <1>3 DEF Awaited

AllRight == \A i \in DOMAIN complete : Right(sentRequests[i], complete[i])

LEMMA HandOverKeeps ==
  ASSUME HttpTypeOK, AllRight, Awaited, NEW g \in Leftovers, NEW body, NEW left \in Int, ~(left > 0),
         HandOver(WholeHeader(g, Newest), body, left),
         contentLength(Newest) = << >> => body = <<LF>>,
         sentRequests' = sentRequests, unread' \in Leftovers
  PROVE  AllRight' /\ m_state' = 0 /\ ReadsHeader'
<1> DEFINE answer == [header |-> WholeHeader(g, Newest), body |-> body]
           N      == Len(complete)
<1>1. /\ complete' = Append(complete, answer)
      /\ m_state' = 0 /\ m_httpHeader' = << >> /\ m_httpBody' = << >> /\ m_bodyLengthToGet' = left
  BY DEF HandOver
<1>2. Newest \in Requests /\ N \in Nat /\ Len(sentRequests) = N + 1 BY AwaitedIs
<1>3. Right(Newest, answer)
  <2>1. IsSuffix(Newest \o <<CR, LF, CR>>, WholeHeader(g, Newest)) BY <1>2, HeaderRight
  <2>2. answer.header = WholeHeader(g, Newest) /\ answer.body = body OBVIOUS
  <2> QED BY <2>1, <2>2 DEF Right
<1> HIDE DEF answer
<1>4. PICK R : complete \in Seq(R) /\ answer \in R
  <2>1. complete \in Seq([header : Seq(Symbols), body : Seq(Symbols)]) BY DEF HttpTypeOK, ParserTypeOK
  <2>2. DOMAIN complete = 1 .. Len(complete) BY <2>1, LenProperties
  <2> DEFINE Q == [header : Seq(Symbols), body : Seq(Symbols)]
             P == Q \cup {answer}
  <2>3. complete \in Seq(P)
    <3>1. Q \subseteq P OBVIOUS
    <3> HIDE DEF P, Q
    <3>2. complete \in Seq(Q) BY <2>1 DEF Q
    <3> QED BY <3>1, <3>2, SeqMonotonic
  <2> QED BY <2>3
<1>5. /\ Len(complete') = N + 1 /\ DOMAIN complete' = 1 .. N + 1
      /\ \A i \in 1 .. N : complete'[i] = complete[i]
      /\ complete'[N + 1] = answer
  <2>1. /\ Append(complete, answer) \in Seq(R) /\ Len(Append(complete, answer)) = Len(complete) + 1
        /\ \A i \in 1 .. Len(complete) : Append(complete, answer)[i] = complete[i]
        /\ Append(complete, answer)[Len(complete) + 1] = answer
    BY <1>4, AppendProperties
  <2>2. DOMAIN Append(complete, answer) = 1 .. N + 1 BY <2>1, LenProperties
  <2> QED BY <1>1, <2>1, <2>2
<1>6. DOMAIN complete = 1 .. N BY <1>4, LenProperties
<1>7. AllRight'
  <2> SUFFICES ASSUME NEW i \in 1 .. N + 1 PROVE Right(sentRequests[i], complete'[i])
    BY <1>5 DEF AllRight, Right
  <2>1. CASE i \in 1 .. N BY <1>5, <1>6, <2>1 DEF AllRight
  <2>2. CASE i = N + 1 BY <1>2, <1>3, <1>5, <2>2 DEF Newest
  <2> QED BY <1>2, <2>1, <2>2
<1>8. Unhandled' \in Leftovers
  <2>1. unread' \in Seq(Symbols) BY LeftoverType
  <2>2. << >> \o unread' = unread' BY <2>1, ConcatEmptySeq
  <2> QED BY <1>1, <2>2 DEF Unhandled
<1>9. m_state' = Scan(0, m_httpHeader')[Len(m_httpHeader')]
  <2>1. << >> \in Leftovers /\ Len(<< >>) = 0 BY DEF Leftovers
  <2>2. Scan(0, << >>)[0] = 0 BY <2>1, LeftoverScan
  <2> QED BY <1>1, <2>1, <2>2
<1>10. ReadsHeader' BY <1>1, <1>2, <1>5, <1>8, <1>9 DEF ReadsHeader
<1> QED BY <1>1, <1>7, <1>10

LEMMA HeaderEndsKeeps ==
  ASSUME HttpTypeOK, AllRight, ReadsHeader, m_state < 4, NEW n \in 1 .. Len(unread),
         HeaderEnds(First(unread, n)), unread' = Behind(unread, n), sentRequests' = sentRequests
  PROVE  AllRight' /\ (m_state' < 4 => ReadsHeader') /\ (m_state' = 4 => ReadsBody')
<1>1. PICK w, h, d, a : /\ w = Unhandled /\ h = Len(m_httpHeader) /\ d = First(unread, n)
                        /\ a = Behind(unread, n)
  OBVIOUS
<1>2. PieceSeen(w, h, d, n, a) BY <1>1, PieceOf
<1>3. /\ w \in Seq(Symbols) /\ h \in Nat /\ n \in Nat /\ n >= 1 /\ h + n <= Len(w) /\ Len(w) \in Nat
      /\ Len(m_httpHeader) = h /\ \A i \in 1 .. h : w[i] = m_httpHeader[i]
      /\ d \in Seq(Symbols) /\ Len(d) = n /\ \A i \in 1 .. n : d[i] = w[h + i]
      /\ a \in Seq(Symbols) /\ Len(a) = Len(w) - (h + n)
      /\ \A i \in 1 .. Len(a) : a[i] = w[h + n + i]
  BY <1>2 DEF PieceSeen
<1>4. m_state = Scan(0, w)[h] /\ \A k \in 0 .. n : matched(d)[k] = Scan(0, w)[h + k]
  BY <1>2, PieceScan
<1>5. HeaderEnds(d) BY <1>1
<1>6. Scan(0, w)[h + n] = 4
  <2>1. matched(d)[n] = 4 BY <1>3, <1>5 DEF HeaderEnds
  <2> QED BY <1>3, <1>4, <2>1
<1>7. Awaited /\ \E g \in Leftovers : w = g \o Sent(Newest)
  <2>1. w \notin Leftovers
    <3> SUFFICES ASSUME w \in Leftovers PROVE FALSE
      OBVIOUS
    <3>1. h + n \in 0 .. Len(w) BY <1>3
    <3> QED BY <1>6, <3>1, LeftoverScan
  <2> QED BY <1>1, <2>1 DEF ReadsHeader
<1>8. PICK g \in Leftovers : w = g \o Sent(Newest) BY <1>7
<1>9. Newest \in Requests BY <1>7, AwaitedIs
<1>10. PICK r : r = Newest OBVIOUS
<1>11. r \in Requests /\ BodySize(r) \in Nat BY <1>9, <1>10, BodyType
<1>12. Arriving(w, g, r) BY <1>8, <1>10, <1>11, ArrivingBytes
<1>13. PICK e : e = EndAt(g, r) OBVIOUS
<1>14. /\ \A i \in 0 .. e - 1 : Scan(0, w)[i] \in 0 .. 3
       /\ \A i \in e .. Len(w) : Scan(0, w)[i] = 4
       /\ e \in 4 .. Len(w)
  BY <1>11, <1>12, <1>13, ArrivingScan
\* The byte that ends the header is in this piece.
<1>15. h < e /\ e <= h + n
  <2>1. h < e
    <3> SUFFICES ASSUME h >= e PROVE FALSE
      BY <1>3, <1>14
    <3>1. h \in e .. Len(w) BY <1>3, <1>14
    <3> QED BY <1>4, <1>14, <3>1
  <2>2. e <= h + n
    <3> SUFFICES ASSUME h + n < e PROVE FALSE
      BY <1>3, <1>14
    <3>1. PICK x : x = h + n OBVIOUS
    <3>2. x \in 0 .. e - 1 BY <1>3, <1>14, <3>1
    <3>3. Scan(0, w)[x] \in 0 .. 3 BY <1>14, <3>2
    <3> QED BY <1>6, <3>1, <3>3
  <2> QED BY <2>1, <2>2
<1> DEFINE I == {k \in DOMAIN d : matched(d)[k] = 4}
<1>16. PICK i : i = e - h OBVIOUS
<1>17. i \in 1 .. n /\ h + i = e /\ e \in Nat BY <1>3, <1>14, <1>15, <1>16
<1>18. Min(I) = i
  <2>1. DOMAIN d = 1 .. n BY <1>3, LenProperties
  <2>2. \A k \in 1 .. n : matched(d)[k] = 4 <=> i <= k
    <3> SUFFICES ASSUME NEW k \in 1 .. n PROVE matched(d)[k] = 4 <=> i <= k
      OBVIOUS
    <3>1. PICK x : x = h + k OBVIOUS
    <3>2. matched(d)[k] = Scan(0, w)[x] BY <1>4, <3>1
    <3>3. CASE i <= k
      <4>1. x \in e .. Len(w) BY <1>3, <1>17, <3>1, <3>3
      <4> QED BY <1>14, <3>2, <3>3, <4>1
    <3>4. CASE ~(i <= k)
      <4>1. x \in 0 .. e - 1 BY <1>3, <1>17, <3>1, <3>4
      <4>2. Scan(0, w)[x] \in 0 .. 3 BY <1>14, <4>1
      <4> QED BY <3>2, <3>4, <4>2
    <3> QED BY <3>3, <3>4
  <2>3. I \subseteq Nat /\ i \in I /\ \A k \in I : i <= k
    <3>1. I \subseteq Nat BY <2>1
    <3>2. i \in I BY <1>17, <2>1, <2>2
    <3>3. \A k \in I : i <= k BY <2>1, <2>2
    <3> QED BY <3>1, <3>2, <3>3
  <2> HIDE DEF I
  <2> QED BY <2>3, LeastIs
<1> DEFINE header == m_httpHeader \o SubSeq(d, 1, i - 1)
           body   == m_httpBody \o SubSeq(d, i, Len(d))
           length == contentLength(header)
           left   == IF length = << >> THEN m_bodyLengthToGet ELSE length[1] - (Len(d) - i + 1)
<1>19. IF left > 0
       THEN /\ m_state' = 4 /\ m_httpHeader' = header /\ m_httpBody' = body /\ m_bodyLengthToGet' = left
            /\ UNCHANGED <<complete, process>>
       ELSE HandOver(header, body, left)
  BY <1>5, <1>18 DEF HeaderEnds
<1> HIDE DEF I
<1>20. header = WholeHeader(g, r)
  <2>1. PICK s, m : s = SubSeq(d, 1, i - 1) /\ m = i - 1 OBVIOUS
  <2>2. m \in Nat /\ m <= Len(d) /\ s = First(d, m) BY <1>3, <1>17, <2>1 DEF First
  <2>3. s \in Seq(Symbols) /\ Len(s) = m /\ \A j \in 1 .. m : s[j] = d[j]
    <3>1. /\ First(d, m) \in Seq(Symbols) /\ Len(First(d, m)) = m
          /\ \A j \in 1 .. m : First(d, m)[j] = d[j]
      BY <1>3, <2>2, CutType
    <3> QED BY <2>2, <3>1
  <2>4. m_httpHeader \in Seq(Symbols) BY DEF HttpTypeOK, ParserTypeOK
  <2>5. Joins(m_httpHeader, s, h, m) BY <1>3, <2>3, <2>4, Joining
  <2>6. PICK x : x = m_httpHeader \o s OBVIOUS
  <2>7. /\ x \in Seq(Symbols) /\ Len(x) = h + m /\ \A j \in 1 .. h : x[j] = m_httpHeader[j]
        /\ \A j \in 1 .. m : x[h + j] = s[j]
    BY <2>5, <2>6 DEF Joins
  <2>8. \A j \in 1 .. e - 1 : x[j] = w[j]
    <3> SUFFICES ASSUME NEW j \in 1 .. e - 1 PROVE x[j] = w[j]
      OBVIOUS
    <3>1. CASE j <= h
      <4>1. j \in 1 .. h BY <1>3, <3>1
      <4> QED BY <1>3, <2>7, <4>1
    <3>2. CASE ~(j <= h)
      <4>1. PICK k : k = j - h OBVIOUS
      <4>2. k \in 1 .. m /\ k \in 1 .. n /\ j = h + k BY <1>3, <1>17, <2>1, <3>2, <4>1
      <4> QED BY <1>3, <2>3, <2>7, <4>2
    <3> QED BY <3>1, <3>2
  <2>9. PICK y : y = WholeHeader(g, r) OBVIOUS
  <2>10. /\ y \in Seq(Symbols) /\ Len(y) = e - 1
         /\ \A j \in 1 .. e - 1 : w[j] = y[j]
    BY <1>11, <1>12, <1>13, <2>9, HeaderIs
  <2>11. Len(x) = Len(y) /\ \A j \in 1 .. Len(x) : x[j] = y[j]
    <3>1. h + m = e - 1 BY <1>3, <1>17, <2>1
    <3> QED BY <2>7, <2>8, <2>10, <3>1
  <2>12. x = y BY <2>7, <2>10, <2>11, SeqEqual
  <2> QED BY <2>1, <2>6, <2>9, <2>12
<1>21. length = contentLength(r) BY <1>11, <1>20, LengthOf
<1>22. body = SubSeq(d, i, Len(d))
  <2>1. PICK s : s = SubSeq(d, i, Len(d)) OBVIOUS
  <2>2. s \in Seq(Symbols)
    <3>1. i \in Int /\ Len(d) \in Int /\ i >= 1 /\ Len(d) <= Len(d) BY <1>3, <1>17
    <3> QED BY <1>3, <2>1, <3>1, PartType
  <2>3. m_httpBody = << >> BY DEF ReadsHeader
  <2>4. << >> \o s = s BY <2>2, ConcatEmptySeq
  <2> QED BY <2>1, <2>3, <2>4
<1> HIDE DEF header, length, body
\* What is left of the request is the rest of its body.
<1>23. Len(w) = e + BodySize(r) /\ \A k \in 1 .. BodySize(r) : w[e + k] = Other
  BY <1>12, <1>13 DEF Arriving
<1>24. \A k \in 1 .. Len(a) : a[k] = Other
  <2> SUFFICES ASSUME NEW k \in 1 .. Len(a) PROVE a[k] = Other
    OBVIOUS
  <2>1. PICK x : x = (h + n + k) - e OBVIOUS
  <2>2. x \in 1 .. BodySize(r) /\ e + x = h + n + k BY <1>3, <1>11, <1>15, <1>17, <1>23, <2>1
  <2>3. w[e + x] = Other BY <1>23, <2>2
  <2>4. a[k] = w[h + n + k] BY <1>3
  <2> QED BY <2>2, <2>3, <2>4
<1>25. unread' = a BY <1>1
<1>26. CASE contentLength(r) = << >>
  <2>1. BodySize(r) = 0 BY <1>26 DEF BodySize
  <2>2. n = i /\ Len(a) = 0 BY <1>3, <1>15, <1>17, <1>23, <2>1
  <2>3. body = <<LF>>
    <3>1. SubSeq(d, i, i) = <<d[i]>>
      <4>1. i \in Int /\ d[i] \in Symbols BY <1>3, <1>17, ElementOfSeq
      <4>2. \A k \in i .. i : d[k] \in Symbols BY <4>1
      <4>3. /\ SubSeq(d, i, i) \in Seq(Symbols)
            /\ Len(SubSeq(d, i, i)) = IF i <= i THEN i - i + 1 ELSE 0
            /\ \A k \in 1 .. i - i + 1 : SubSeq(d, i, i)[k] = d[i + k - 1]
        BY <4>1, <4>2, SubSeqProperties
      <4>4. i <= i /\ i - i + 1 = 1 /\ 1 \in 1 .. i - i + 1 /\ i + 1 - 1 = i BY <4>1
      <4>5. Len(SubSeq(d, i, i)) = 1 BY <4>3, <4>4
      <4>6. SubSeq(d, i, i)[1] = d[i] BY <4>3, <4>4
      <4>7. PICK s, x : s = SubSeq(d, i, i) /\ x = d[i] OBVIOUS
      <4>8. s \in Seq(Symbols) /\ Len(s) = 1 /\ s[1] = x /\ x \in Symbols BY <4>1, <4>3, <4>5, <4>6, <4>7
      <4>9. s = <<x>>
        <5>1. <<x>> \in Seq(Symbols) /\ Len(<<x>>) = 1 /\ <<x>>[1] = x BY <4>8
        <5>2. \A k \in 1 .. Len(s) : s[k] = <<x>>[k] BY <4>8, <5>1
        <5> QED BY <4>8, <5>1, <5>2, SeqEqual
      <4> QED BY <4>7, <4>9
    <3>2. d[i] = LF
      <4>1. d[i] = w[e] BY <1>3, <1>17
      <4>2. w[Len(g) + Len(r) + 4] = EndOfHeader[4] BY <1>12 DEF Arriving
      <4>3. EndOfHeader[4] = LF BY LeftoverType
      <4> QED BY <1>13, <4>1, <4>2, <4>3 DEF EndAt
    <3> QED BY <1>3, <1>22, <2>2, <3>1, <3>2
  <2>7. left \in Int /\ ~(left > 0)
    <3>1. left = m_bodyLengthToGet BY <1>21, <1>26
    <3>2. m_bodyLengthToGet \in Int BY DEF HttpTypeOK, ParserTypeOK
    <3> HIDE DEF left
    <3> QED BY <3>1, <3>2 DEF ReadsHeader
  <2>4. HandOver(WholeHeader(g, Newest), body, left)
    <3>1. HandOver(header, body, left) BY <1>19, <2>7
    <3> QED BY <1>10, <1>20, <3>1
  <2>5. unread' \in Leftovers
    <3>1. a \in Seq(Symbols) /\ Len(a) <= 1 BY <1>3, <2>2
    <3> QED BY <1>24, <1>25, <3>1, LeftoverIs
  <2> HIDE DEF left
  <2>6. AllRight' /\ m_state' = 0 /\ ReadsHeader' BY <1>7, <2>3, <2>4, <2>5, <2>7, HandOverKeeps
  <2> QED BY <2>6
<1>27. CASE contentLength(r) # << >>
  <2>1. PICK L \in Nat : L = contentLength(r)[1] /\ BodySize(r) = L
    BY <1>11, <1>27 DEF BodySize
  <2>2. left = L - (n - i + 1) BY <1>3, <1>21, <1>27, <2>1
  <2> HIDE DEF left
  <2>3. Len(a) = left + 1
    <3>1. PICK A, W : A = Len(a) /\ W = Len(w) OBVIOUS
    <3>2. A = W - (h + n) /\ W = e + L /\ h + i = e /\ h \in Nat /\ n \in Nat /\ i \in Nat
      <4>1. A = W - (h + n) /\ h \in Nat BY <1>3, <3>1
      <4>2. W = e + L BY <1>23, <2>1, <3>1
      <4>3. h + i = e /\ n \in Nat /\ i \in Nat BY <1>3, <1>17
      <4> QED BY <4>1, <4>2, <4>3
    <3>3. A = (L - (n - i + 1)) + 1 BY <2>1, <3>2
    <3> QED BY <2>2, <3>1, <3>3
  <2>4. left \in Int BY <1>3, <1>17, <2>2
  <2>5. CASE left > 0
    <3>1. /\ m_state' = 4 /\ m_httpHeader' = header /\ m_bodyLengthToGet' = left
          /\ UNCHANGED complete
      BY <1>19, <1>21, <1>27, <2>5
    <3>2. AllRight' BY <3>1 DEF AllRight, Right
    <3>3. Newest' = Newest /\ Awaited' BY <1>7, <3>1 DEF Newest, Awaited
    <3>4. ReadsBody'
      BY <1>10, <1>20, <1>24, <1>25, <1>27, <2>3, <2>5, <3>1, <3>3 DEF ReadsBody
    <3> QED BY <3>1, <3>2, <3>4
  <2>6. CASE ~(left > 0)
    <3>1. HandOver(WholeHeader(g, Newest), body, left)
      <4>1. HandOver(header, body, left) BY <1>19, <2>6
      <4> QED BY <1>10, <1>20, <4>1
    <3>2. Len(a) <= 1 BY <2>3, <2>4, <2>6
    <3>3. unread' \in Leftovers
      <4>1. a \in Seq(Symbols) BY <1>3
      <4> QED BY <1>24, <1>25, <3>2, <4>1, LeftoverIs
    <3>4. contentLength(Newest) # << >> BY <1>10, <1>27
    <3>5. AllRight' /\ m_state' = 0 /\ ReadsHeader' BY <1>7, <2>4, <2>6, <3>1, <3>3, <3>4, HandOverKeeps
    <3> QED BY <3>5
  <2> QED BY <2>5, <2>6
<1> QED BY <1>26, <1>27

LEMMA HeaderContinuesKeeps ==
  ASSUME HttpTypeOK, AllRight, ReadsHeader, NEW n \in 1 .. Len(unread),
         HeaderContinues(First(unread, n)), unread' = Behind(unread, n), sentRequests' = sentRequests,
         process' # "dying"
  PROVE  AllRight' /\ m_state' < 4 /\ ReadsHeader'
<1>1. PICK w, h, d, a : /\ w = Unhandled /\ h = Len(m_httpHeader) /\ d = First(unread, n)
                        /\ a = Behind(unread, n)
  OBVIOUS
<1>2. PieceSeen(w, h, d, n, a) BY <1>1, PieceOf
<1>3. h \in Nat /\ n \in Nat /\ Len(d) = n /\ w = (m_httpHeader \o d) \o a BY <1>2 DEF PieceSeen
<1>4. /\ \A k \in 0 .. n : matched(d)[k] = Scan(0, w)[h + k]
      /\ Scan(0, m_httpHeader \o d)[h + n] = Scan(0, w)[h + n]
      /\ Len(m_httpHeader \o d) = h + n
  BY <1>2, PieceScan
<1>5. HeaderContinues(d) BY <1>1
<1>6. /\ matched(d)[n] < 4 /\ m_state' = matched(d)[n] /\ m_httpHeader' = m_httpHeader \o d
      /\ m_httpBody' = m_httpBody /\ complete' = complete /\ m_bodyLengthToGet' = m_bodyLengthToGet
  BY <1>3, <1>5 DEF HeaderContinues
<1>7. m_state' = Scan(0, m_httpHeader')[Len(m_httpHeader')]
  <2>1. matched(d)[n] = Scan(0, w)[h + n] BY <1>3, <1>4
  <2> QED BY <1>4, <1>6, <2>1
<1>8. Unhandled' = Unhandled BY <1>1, <1>3, <1>6 DEF Unhandled
<1>9. Newest' = Newest /\ (Awaited' <=> Awaited) BY <1>6 DEF Newest, Awaited
<1>10. m_httpBody' = << >> /\ m_bodyLengthToGet' <= 0 BY <1>6 DEF ReadsHeader
<1>11. ReadsHeader' BY <1>6, <1>7, <1>8, <1>9, <1>10 DEF ReadsHeader
<1>12. AllRight' BY <1>6 DEF AllRight, Right
<1> QED BY <1>6, <1>11, <1>12

LEMMA BodyContinuesKeeps ==
  ASSUME HttpTypeOK, AllRight, ReadsBody, m_state = 4, NEW n \in 1 .. Len(unread),
         BodyContinues(First(unread, n)), unread' = Behind(unread, n), sentRequests' = sentRequests
  PROVE  AllRight' /\ (m_state' < 4 => ReadsHeader') /\ (m_state' = 4 => ReadsBody')
<1>1. PICK d, a : d = First(unread, n) /\ a = Behind(unread, n) OBVIOUS
<1>2. /\ unread \in Seq(Symbols) /\ Len(unread) \in Nat /\ n \in Nat /\ n <= Len(unread)
      /\ m_bodyLengthToGet \in Int
  BY LenProperties DEF HttpTypeOK, ParserTypeOK
<1>3. /\ Len(d) = n /\ a \in Seq(Symbols) /\ Len(a) = Len(unread) - n
      /\ \A i \in 1 .. Len(unread) - n : a[i] = unread[n + i]
  <2>1. /\ Len(First(unread, n)) = n /\ Behind(unread, n) \in Seq(Symbols)
        /\ Len(Behind(unread, n)) = Len(unread) - n
        /\ \A i \in 1 .. Len(unread) - n : Behind(unread, n)[i] = unread[n + i]
    BY <1>2, CutType
  <2> QED BY <1>1, <2>1
<1>4. /\ Awaited /\ Len(unread) = m_bodyLengthToGet + 1 /\ \A i \in 1 .. Len(unread) : unread[i] = Other
  BY DEF ReadsBody
<1>5. PICK g \in Leftovers : m_httpHeader = WholeHeader(g, Newest) BY DEF ReadsBody
<1>6. \A i \in 1 .. Len(a) : a[i] = Other
  <2> SUFFICES ASSUME NEW i \in 1 .. Len(a) PROVE a[i] = Other
    OBVIOUS
  <2>1. PICK j : j = n + i OBVIOUS
  <2>2. i \in 1 .. Len(unread) - n /\ j \in 1 .. Len(unread) BY <1>2, <1>3, <2>1
  <2> QED BY <1>3, <1>4, <2>1, <2>2
<1> DEFINE body == m_httpBody \o SubSeq(d, 1, Min({Len(d), m_bodyLengthToGet}))
           left == m_bodyLengthToGet - Len(d)
<1>7. IF left > 0
      THEN /\ m_httpBody' = body /\ m_bodyLengthToGet' = left
           /\ UNCHANGED <<m_state, m_httpHeader, complete, process>>
      ELSE HandOver(m_httpHeader, body, left)
  BY <1>1 DEF BodyContinues
<1>8. left \in Int /\ Len(a) = left + 1 BY <1>2, <1>3, <1>4
<1> HIDE DEF body, left
<1>9. CASE left > 0
  <2>1. /\ m_bodyLengthToGet' = left /\ m_state' = m_state /\ m_httpHeader' = m_httpHeader
        /\ complete' = complete
    BY <1>7, <1>9
  <2>2. AllRight' BY <2>1 DEF AllRight, Right
  <2>3. Newest' = Newest /\ Awaited' BY <1>4, <2>1 DEF Newest, Awaited
  <2>4. unread' = a BY <1>1
  <2>5. ReadsBody' BY <1>5, <1>6, <1>8, <1>9, <2>1, <2>3, <2>4 DEF ReadsBody
  <2> QED BY <2>1, <2>2, <2>5
<1>10. CASE ~(left > 0)
  <2>1. HandOver(WholeHeader(g, Newest), body, left) BY <1>5, <1>7, <1>10
  <2>2. Len(a) <= 1 BY <1>8, <1>10
  <2>3. unread' \in Leftovers BY <1>1, <1>3, <1>6, <2>2, LeftoverIs
  <2>4. contentLength(Newest) # << >> BY DEF ReadsBody
  <2>5. AllRight' /\ m_state' = 0 /\ ReadsHeader' BY <1>4, <1>8, <1>10, <2>1, <2>3, <2>4, HandOverKeeps
  <2> QED BY <2>5
<1> QED BY <1>9, <1>10

LEMMA ClientSendsKeeps ==
  ASSUME HttpTypeOK, HttpTypeOK', AllRight, m_state < 4 => ReadsHeader, m_state = 4 => ReadsBody,
         clientSends
  PROVE  AllRight' /\ m_state' < 4 /\ ReadsHeader'
<1>1. PICK r \in Requests : sentRequests' = Append(sentRequests, r) /\ unread' = unread \o Sent(r)
  BY DEF clientSends
<1>2. /\ m_state' = m_state /\ m_httpHeader' = m_httpHeader /\ m_httpBody' = m_httpBody
      /\ complete' = complete /\ m_bodyLengthToGet' = m_bodyLengthToGet
  BY DEF clientSends, parserVars
<1>3. /\ Len(complete) \in Nat /\ Len(sentRequests) \in Nat /\ Len(complete) >= Len(sentRequests)
      /\ DOMAIN complete = 1 .. Len(complete) /\ m_state \in 0 .. 4
  BY LenProperties DEF clientSends, HttpTypeOK, ParserTypeOK
<1>4. ~Awaited BY <1>3 DEF Awaited
<1>5. m_state < 4 /\ ReadsHeader
  <2>1. m_state # 4 BY <1>4 DEF ReadsBody
  <2>2. m_state < 4 BY <1>3, <2>1
  <2> QED BY <2>2
<1>6. Len(complete) = Len(sentRequests) /\ Unhandled \in Leftovers BY <1>4, <1>5 DEF ReadsHeader
<1>7. /\ Len(sentRequests') = Len(sentRequests) + 1
      /\ \A i \in 1 .. Len(sentRequests) : sentRequests'[i] = sentRequests[i]
      /\ sentRequests'[Len(sentRequests) + 1] = r
  <2>1. sentRequests \in Seq(Requests) BY DEF HttpTypeOK
  <2> QED BY <1>1, <2>1, AppendProperties
<1>8. Awaited' /\ Newest' = r BY <1>2, <1>3, <1>6, <1>7 DEF Awaited, Newest
<1>9. Unhandled' = Unhandled \o Sent(r)
  <2>1. PICK s, x, y : s = m_httpHeader /\ x = unread /\ y = Sent(r) OBVIOUS
  <2>2. s \in Seq(Symbols) /\ x \in Seq(Symbols) BY <2>1 DEF HttpTypeOK, ParserTypeOK
  <2>3. y \in Seq(Symbols)
    <3>1. /\ r \in Seq(Symbols) /\ BodyOf(r) \in Seq(Symbols) /\ Sent(r) = (r \o EndOfHeader) \o BodyOf(r)
      BY BodyType
    <3>2. EndOfHeader \in Seq(Symbols) BY <1>6, LeftoverType
    <3>3. PICK p, q : p = r \o EndOfHeader /\ q = BodyOf(r) OBVIOUS
    <3>4. p \in Seq(Symbols) BY <3>1, <3>2, <3>3, ConcatProperties
    <3>5. p \o q \in Seq(Symbols) BY <3>1, <3>3, <3>4, ConcatProperties
    <3> QED BY <2>1, <3>1, <3>3, <3>5
  <2>4. (s \o x) \o y = s \o (x \o y) BY <2>2, <2>3, ConcatAssociative
  <2> QED BY <1>1, <1>2, <2>1, <2>4 DEF Unhandled
<1>10. /\ m_httpBody' = << >> /\ m_state' = Scan(0, m_httpHeader')[Len(m_httpHeader')]
       /\ m_bodyLengthToGet' <= 0
  BY <1>2, <1>5 DEF ReadsHeader
<1>11. ReadsHeader' BY <1>6, <1>8, <1>9, <1>10 DEF ReadsHeader
<1>12. AllRight'
  <2> SUFFICES ASSUME NEW i \in 1 .. Len(complete) PROVE Right(sentRequests'[i], complete[i])
    BY <1>2, <1>3 DEF AllRight, Right
  <2>1. sentRequests'[i] = sentRequests[i] BY <1>6, <1>7
  <2> QED BY <1>3, <2>1 DEF AllRight
<1> QED BY <1>2, <1>5, <1>11, <1>12

\* Type, and where the request under way is between the socket, the header that is
\* collected and the body: whatever is left of the one before is not taken for its
\* beginning, and the end of its header is found wherever the pieces are cut.
THEOREM HttpInvariant == HttpSpec => []HttpInv
<1>1. HttpInv /\ [HttpNext]_httpVars => HttpInv'
  <2> SUFFICES ASSUME HttpInv, [HttpNext]_httpVars PROVE HttpInv'
    OBVIOUS
  <2>1. HttpTypeOK /\ HttpTypeOK' BY HttpTypeKept DEF HttpInv
  <2> SUFFICES ASSUME process' = "up"
               PROVE  AllRight' /\ (m_state' < 4 => ReadsHeader') /\ (m_state' = 4 => ReadsBody')
    BY <2>1 DEF HttpInv, AllRight, Right
  <2>2. process = "up" => /\ AllRight /\ (m_state < 4 => ReadsHeader) /\ (m_state = 4 => ReadsBody)
                          /\ m_state \in 0 .. 4
    BY DEF HttpInv, AllRight, HttpTypeOK, ParserTypeOK
  <2>3. CASE clientSends
    <3>1. process = "up" BY <2>3 DEF clientSends
    <3>2. AllRight' /\ m_state' < 4 /\ ReadsHeader' BY <2>1, <2>2, <2>3, <3>1, ClientSendsKeeps
    <3> QED BY <3>2
  <2>4. CASE onHttpReceived
    <3>1. PICK n \in 1 .. Len(unread) :
            /\ unread' = Behind(unread, n)
            /\ IF m_state = 4 THEN BodyContinues(First(unread, n))
               ELSE HeaderEnds(First(unread, n)) \/ HeaderContinues(First(unread, n))
      BY <2>4 DEF onHttpReceived, First, Behind
    <3>2. sentRequests' = sentRequests BY <2>4 DEF onHttpReceived
    <3>3. process = "up" \/ process' = "dying"
      <4>1. process' = process \/ process' = "dying"
        BY <3>1 DEF BodyContinues, HeaderEnds, HeaderContinues, HandOver
      <4> QED BY <4>1
    <3>4. CASE m_state = 4
      <4>1. BodyContinues(First(unread, n)) /\ ReadsBody /\ AllRight BY <2>2, <3>1, <3>3, <3>4
      <4> QED BY <2>1, <3>1, <3>2, <3>4, <4>1, BodyContinuesKeeps
    <3>5. CASE m_state # 4
      <4>1. m_state < 4 /\ ReadsHeader /\ AllRight BY <2>2, <3>3, <3>5
      <4>2. CASE HeaderEnds(First(unread, n))
        BY <2>1, <3>1, <3>2, <4>1, <4>2, HeaderEndsKeeps
      <4>3. CASE HeaderContinues(First(unread, n))
        <5>1. process' # "dying" OBVIOUS
        <5>2. AllRight' /\ m_state' < 4 /\ ReadsHeader'
          BY <2>1, <3>1, <3>2, <4>1, <4>3, <5>1, HeaderContinuesKeeps
        <5> QED BY <5>2
      <4> QED BY <3>1, <3>5, <4>2, <4>3
    <3> QED BY <3>4, <3>5
  <2>5. CASE giveUpConnection BY <2>5 DEF giveUpConnection
  <2>6. CASE onTimeout BY <2>6 DEF onTimeout
  <2>7. CASE selfDestruct BY <2>7 DEF selfDestruct
  <2>8. CASE UNCHANGED httpVars
    <3>1. /\ process = "up" /\ m_state' = m_state /\ m_httpHeader' = m_httpHeader /\ m_httpBody' = m_httpBody
          /\ m_bodyLengthToGet' = m_bodyLengthToGet /\ complete' = complete
          /\ sentRequests' = sentRequests /\ unread' = unread
      BY <2>8 DEF httpVars, parserVars
    <3>2. AllRight' BY <2>2, <3>1 DEF AllRight, Right
    <3>3. Newest' = Newest /\ Unhandled' = Unhandled /\ (Awaited' <=> Awaited)
      BY <3>1 DEF Newest, Unhandled, Awaited
    <3>4. ReadsHeader' <=> ReadsHeader BY <3>1, <3>3 DEF ReadsHeader
    <3>5. ReadsBody' <=> ReadsBody BY <3>1, <3>3 DEF ReadsBody
    <3> QED BY <2>2, <3>1, <3>2, <3>4, <3>5
  <2> QED BY <2>3, <2>4, <2>5, <2>6, <2>7, <2>8 DEF HttpNext
<1> QED BY <1>1, HttpInvInit, PTL DEF HttpSpec

\* A request that has arrived has been handed over, once and in its turn, in whatever
\* pieces the stream comes and whatever is left of the one before.
THEOREM RequestsAlwaysAnswered == HttpSpec => []RequestsAnswered
<1>1. HttpInv => RequestsAnswered
  <2> SUFFICES ASSUME HttpInv, process = "up"
               PROVE  /\ unread = << >> => Len(complete) = Len(sentRequests)
                      /\ Len(complete) \in {Len(sentRequests) - 1, Len(sentRequests)}
                      /\ AllRight
    BY DEF RequestsAnswered, AllRight, Right
  <2>1. /\ HttpTypeOK /\ AllRight /\ (m_state < 4 => ReadsHeader) /\ (m_state = 4 => ReadsBody)
        /\ m_state \in 0 .. 4
    BY DEF HttpInv, AllRight, HttpTypeOK, ParserTypeOK
  <2>2. ReadsHeader \/ ReadsBody BY <2>1
  <2>3. Len(complete) \in {Len(sentRequests) - 1, Len(sentRequests)}
    BY <2>2 DEF ReadsHeader, ReadsBody, Awaited
  <2>4. ASSUME unread = << >> PROVE Len(complete) = Len(sentRequests)
    <3> SUFFICES ASSUME Len(complete) # Len(sentRequests) PROVE FALSE
      OBVIOUS
    <3>1. ~ReadsBody
      <4>1. Len(unread) = 0 BY <2>4
      <4>2. m_bodyLengthToGet \in Int BY <2>1 DEF HttpTypeOK, ParserTypeOK
      <4> QED BY <4>1, <4>2 DEF ReadsBody
    <3>2. m_state < 4 /\ ReadsHeader BY <2>1, <3>1
    <3>3. PICK g \in Leftovers : Unhandled = g \o Sent(Newest) BY <3>2 DEF ReadsHeader
    <3>4. Awaited BY <3>2 DEF ReadsHeader
    <3>5. Newest \in Requests BY <2>1, <3>4, AwaitedIs
    <3>6. Unhandled = m_httpHeader
      <4>1. m_httpHeader \in Seq(Symbols) BY <2>1 DEF HttpTypeOK, ParserTypeOK
      <4>2. m_httpHeader \o << >> = m_httpHeader BY <4>1, ConcatEmptySeq
      <4> QED BY <2>4, <4>2 DEF Unhandled
    <3>7. PICK w, r : w = m_httpHeader /\ r = Newest OBVIOUS
    <3>8. w = g \o Sent(r) /\ r \in Requests BY <3>3, <3>5, <3>6, <3>7
    <3>9. Arriving(w, g, r) BY <3>8, ArrivingBytes
    <3>10. Scan(0, w)[Len(w)] = 4
      <4>1. /\ \A i \in EndAt(g, r) .. Len(w) : Scan(0, w)[i] = 4
            /\ EndAt(g, r) \in 4 .. Len(w) /\ Len(w) \in Nat
        BY <3>8, <3>9, ArrivingScan
      <4>2. Len(w) \in EndAt(g, r) .. Len(w) BY <4>1
      <4> QED BY <4>1, <4>2
    <3>11. m_state = Scan(0, w)[Len(w)] BY <3>2, <3>7 DEF ReadsHeader
    <3> QED BY <3>2, <3>10, <3>11
  <2> QED BY <2>1, <2>3, <2>4
<1> QED BY <1>1, HttpInvariant, PTL
=============================================================================
