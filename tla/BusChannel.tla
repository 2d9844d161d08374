------------------------------ MODULE BusChannel ------------------------------
(***************************************************************************)
(* xthreadbus::Channel (include/trz/pattern/bus/channel.hpp): the          *)
(* Publisher and the Subscriber that a publishing and a reading thread use *)
(* on top of one ring buffer.  A datum is a pointer: it belongs to the     *)
(* caller until it is handed to the publisher and is deleted by the        *)
(* subscriber, after which the allocator may give out the pointer again.   *)
(*                                                                         *)
(* Which handler of the subscriber has a datum, or whether one has it at   *)
(* all, depends on its type and is left out.                               *)
(***************************************************************************)
EXTENDS RingBuffer

VARIABLES
  m_sendBuffer,  \* Publisher: data stored for a later send
  publishing,    \* Publisher: the call that is in enqueue(), or "none"
  m_readBuffer,  \* Subscriber: data dequeued and still to be dispatched
  live           \* the data the channel has been given and not deleted

busVars == <<ringVars, m_sendBuffer, publishing, m_readBuffer, live>>

BusInit ==
  /\ RingInit
  /\ m_sendBuffer = << >> /\ publishing = "none"
  /\ m_readBuffer = << >> /\ live = {}

-----------------------------------------------------------------------------
(* Publisher                                                               *)

prepare(d) ==
  /\ publishing = "none"
  /\ d \notin live
  /\ m_sendBuffer' = Append(m_sendBuffer, d)
  /\ live' = live \cup {d}
  /\ UNCHANGED <<ringVars, publishing, m_readBuffer>>

\* publishOne: the datum goes straight to the ring ...
publishOne(d) ==
  /\ publishing = "none"
  /\ d \notin live
  /\ EnqueueOne(d)
  /\ publishing' = "publishOne"
  /\ live' = live \cup {d}
  /\ UNCHANGED <<m_sendBuffer, m_readBuffer>>

\* ... or, when that is full and storeOnFail is set, waits behind what is stored;
\* without storeOnFail it stays with the caller and nothing changes.
publishOneStored(d) ==
  /\ publishing = "none"
  /\ d \notin live
  /\ next_index(write_index) = read_index
  /\ m_sendBuffer' = Append(m_sendBuffer, d)
  /\ live' = live \cup {d}
  /\ UNCHANGED <<ringVars, publishing, m_readBuffer>>

\* publishAll: enqueue() takes everything that is stored ...
publishAll ==
  /\ publishing = "none"
  /\ EnqueueAll(m_sendBuffer)
  /\ publishing' = "publishAll"
  /\ UNCHANGED <<m_sendBuffer, m_readBuffer, live>>

\* ... or has too little room for it, takes nothing, and all of it is left to send.
publishAllFull ==
  /\ publishing = "none"
  /\ m_sendBuffer # << >>
  /\ write_available(write_index, read_index) < Len(m_sendBuffer)
  /\ publishing' = "left"
  /\ UNCHANGED <<ringVars, m_sendBuffer, m_readBuffer, live>>

publishAllReturn ==
  /\ publishing = "left" /\ publishing' = "none"
  /\ UNCHANGED <<ringVars, m_sendBuffer, m_readBuffer, live>>

publishCopy == EnqueueCopy /\ UNCHANGED <<m_sendBuffer, publishing, m_readBuffer, live>>

\* Mutant of publishEnd: what was sent stays in the send buffer.
publishEndKeeping ==
  /\ EnqueueEnd
  /\ publishing' = "none"
  /\ UNCHANGED <<m_sendBuffer, m_readBuffer, live>>

\* enqueue() has sent everything; publishAll erases the send buffer.
publishEnd ==
  /\ EnqueueEnd
  /\ m_sendBuffer' = IF publishing = "publishAll" THEN << >> ELSE m_sendBuffer
  /\ publishing' = "none"
  /\ UNCHANGED <<m_readBuffer, live>>

-----------------------------------------------------------------------------
(* Subscriber                                                              *)

\* readOne and readAll
read(count) ==
  /\ m_readBuffer = << >>
  /\ Dequeue(count)
  /\ UNCHANGED <<m_sendBuffer, publishing, m_readBuffer, live>>

readCopy == DequeueCopy /\ UNCHANGED <<m_sendBuffer, publishing, m_readBuffer, live>>

\* dequeue() returns
readEnd ==
  /\ DequeueEnd
  /\ m_readBuffer' = output
  /\ UNCHANGED <<m_sendBuffer, publishing, live>>

\* The next datum is dispatched to its handler and deleted.
dispatch ==
  /\ m_readBuffer # << >>
  /\ m_readBuffer' = Tail(m_readBuffer)
  /\ live' = live \ {Head(m_readBuffer)}
  /\ UNCHANGED <<ringVars, m_sendBuffer, publishing>>

-----------------------------------------------------------------------------

Subscriber == read(1) \/ read(MaxSize) \/ readCopy \/ readEnd \/ dispatch

BusNext ==
  \/ \E d \in Data : prepare(d) \/ publishOne(d) \/ publishOneStored(d)
  \/ publishAll \/ publishAllFull \/ publishAllReturn
  \/ publishCopy \/ publishEnd
  \/ Subscriber

BusSpec == BusInit /\ [][BusNext]_busVars

\* The reading thread polls the channel with readAll or readOne.
BusFairSpec == BusSpec /\ WF_busVars(Subscriber)

-----------------------------------------------------------------------------
(* Properties.                                                             *)

\* Every variable of the channel has a value of its type: the indices of the ring
\* too, which wrap in time.
BusTypeOK ==
  /\ RingTypeOK
  /\ m_sendBuffer \in Seq(Data) /\ m_readBuffer \in Seq(Data)
  /\ publishing \in {"none", "publishOne", "publishAll", "left"}
  /\ live \subseteq Data

\* Everything the channel holds; while publishAll copies, its data are counted in
\* the send buffer.
Held ==
  m_sendBuffer \o (IF publishing = "publishOne" THEN items ELSE << >>)
    \o Content \o m_readBuffer

\* No datum is lost, sent twice or deleted twice: what the channel was given and
\* has not deleted is in one place, once.
EachOnce ==
  /\ {Held[i] : i \in DOMAIN Held} = live
  /\ \A i, j \in DOMAIN Held : Held[i] = Held[j] => i = j

\* A datum that is in the ring is deleted by the reading thread some day.
RingDrains ==
  \A d \in Data : (\E i \in DOMAIN Content : Content[i] = d) ~> d \notin live

\* channel.hpp says of publishAll "send all/maximum (until transfer buffer is
\* full)": it leaves data unsent only when the ring is full.
SendsUntilFull ==
  [][publishing = "none" /\ publishing' = "left"
       => next_index(write_index) = read_index]_busVars
=============================================================================
