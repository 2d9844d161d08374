----------------------------- MODULE EventPages -----------------------------
(***************************************************************************)
(* The memory of the events that one node writes to one node: WriteCache   *)
(* (engine/internal/node.h), with the pages in which events lie, and the   *)
(* batch number by which a Batch and a BufferedPipe (engine/actor.h) know  *)
(* whether an event is still theirs.  Modules NodeSync and EventChannel    *)
(* have the protocol between the nodes; here it is one flag, and an event  *)
(* is the bytes that it occupies.  local tells the cache of a node to      *)
(* itself, which hands its pages to itself in synchronizeLocalEvents().    *)
(*                                                                         *)
(* A user amends the event that it pushed last, as long as its Batch       *)
(* permits, and has one BufferedPipe.                                      *)
(***************************************************************************)
EXTENDS Integers, Sequences, FiniteSets, SequencesExt

CONSTANTS
  eventAllocatorPageSize,
  EventSizes,      \* what events and their data take
  MaxPageIndex,    \* the largest uint32_t
  MaxBatchId,      \* the largest uint64_t
  MaxEvents,       \* bound: events that are not written yet
  HoldsAtFailure   \* whether a Batch or a pipe may be in use when the reader is given up

ASSUME PagesAssumption ==
  /\ eventAllocatorPageSize \in Nat /\ EventSizes \subseteq Nat \ {0}
  /\ MaxPageIndex \in Nat /\ MaxPageIndex > 2 /\ MaxBatchId \in Nat \ {0} /\ MaxEvents \in Nat
  /\ HoldsAtFailure \in BOOLEAN

VARIABLES
  local,
  free, used, usedByReader,  \* chains of pages; the last is locked, or usedlocal...Chain
  frontOffset, nextPageIndex,
  batchId, batchIdIncrement,
  writeSignal, isWriteLocked,  \* of the signals, only those of these events
  toBeDelivered, handed,     \* events to be written, and those that were written
  mine, mineBatch,           \* the event of the user, as a set, and its Batch
  buffered, bufferedBatch    \* BufferedPipe: eventChain, batch

chainVars  == <<free, used, usedByReader, frontOffset, nextPageIndex>>
batchVars  == <<batchId, batchIdIncrement>>
syncVars   == <<writeSignal, isWriteLocked>>
eventVars  == <<toBeDelivered, handed>>
mineVars   == <<mine, mineBatch>>
bufferedVars == <<buffered, bufferedBatch>>
pagesVars  == <<local, chainVars, batchVars, syncVars, eventVars, mineVars, bufferedVars>>

\* An event is in a page, from an offset on.
Block(page, at, sz) == [page |-> page, at |-> at, sz |-> sz]

PagesInit ==
  /\ local \in BOOLEAN
  /\ free = <<0>> /\ used = <<1>> /\ usedByReader = << >> /\ frontOffset = 0 /\ nextPageIndex = 2
  /\ batchId = 0 /\ batchIdIncrement = 0
  /\ writeSignal = FALSE /\ isWriteLocked = FALSE
  /\ toBeDelivered = {} /\ handed = {}
  /\ mine = {} /\ mineBatch = 0 /\ buffered = {} /\ bufferedBatch = 0

-----------------------------------------------------------------------------
(* WriteCache.                                                             *)

MustTakePage(sz) == used = << >> \/ eventAllocatorPageSize - frontOffset < sz

\* allocateEvent() throws bad_alloc.
CannotAllocate(sz) ==
  /\ MustTakePage(sz)
  /\ \/ sz > eventAllocatorPageSize
     \/ free = << >> /\ nextPageIndex = MaxPageIndex

\* allocateEvent() and newEventPage()
Allocated(sz) ==
  IF ~MustTakePage(sz) THEN Block(Head(used), frontOffset, sz)
  ELSE Block(IF free = << >> THEN nextPageIndex ELSE Head(free), 0, sz)

allocateEvent(sz) ==
  /\ ~CannotAllocate(sz) /\ Cardinality(toBeDelivered \cup buffered) < MaxEvents
  /\ frontOffset' = Allocated(sz).at + sz
  /\ IF ~MustTakePage(sz) THEN UNCHANGED <<free, used, nextPageIndex>>
     ELSE /\ used' = <<Allocated(sz).page>> \o used
          /\ free' = IF free = << >> THEN free ELSE Tail(free)
          /\ nextPageIndex' = nextPageIndex + (IF free = << >> THEN 1 ELSE 0)
  /\ UNCHANGED usedByReader

\* Mutant of nextBatch: the batch goes on.
nextBatchNever == batchIdIncrement' = 0 /\ UNCHANGED batchId

nextBatch ==
  IF batchId = MaxBatchId THEN UNCHANGED batchVars
  ELSE batchId' = batchId + batchIdIncrement /\ batchIdIncrement' = 0

\* WriterSharedHandle::write(), once the node has seen the signal: the pages that the
\* reader had are free, and it gets those of the events to be written.
write ==
  /\ ~local /\ writeSignal /\ ~isWriteLocked
  /\ writeSignal' = FALSE
  /\ isWriteLocked' = (toBeDelivered # {})
  /\ handed' = toBeDelivered /\ toBeDelivered' = {}
  /\ LET pages == free \o usedByReader IN
     IF toBeDelivered = {}
     THEN free' = pages /\ usedByReader' = << >> /\ UNCHANGED <<used, frontOffset, batchVars>>
     ELSE /\ usedByReader' = used /\ frontOffset' = 0 /\ nextBatch
          /\ used' = SubSeq(pages, 1, IF pages = << >> THEN 0 ELSE 1)
          /\ free' = IF pages = << >> THEN pages ELSE Tail(pages)
  /\ UNCHANGED <<local, nextPageIndex, mineVars, bufferedVars>>

\* The reader has read; which events it could not deliver is not told apart, they
\* stay where they are until the next write.
read ==
  /\ isWriteLocked
  /\ isWriteLocked' = FALSE
  /\ UNCHANGED <<local, chainVars, batchVars, writeSignal, eventVars, mineVars, bufferedVars>>

\* AsyncNode::synchronizeLocalEvents(): the chains are exchanged before the first
\* handler is called, and handlers push.
synchronizeLocalEvents ==
  /\ local /\ toBeDelivered # {}
  /\ handed' = toBeDelivered /\ toBeDelivered' = {}
  /\ free' = free \o usedByReader /\ usedByReader' = used /\ used' = << >> /\ frontOffset' = 0
  /\ nextBatch
  /\ UNCHANGED <<local, nextPageIndex, syncVars, mineVars, bufferedVars>>

\* WriterSharedHandle::writeFailed(): the reader is gone, and all pages are free
\* again.  The batch is the same as before: a Batch of it still permits, and a pipe
\* still hands over, what is in those pages (HoldsAtFailure).
writeFailed ==
  /\ ~local /\ (writeSignal \/ isWriteLocked)
  /\ HoldsAtFailure \/ {mineBatch, bufferedBatch} \cap {batchId} = {}
  /\ writeSignal' = FALSE /\ isWriteLocked' = FALSE
  /\ handed' = {} /\ toBeDelivered' = {}
  /\ LET pages == free \o usedByReader \o used IN used' = <<Head(pages)>> /\ free' = Tail(pages)
  /\ usedByReader' = << >> /\ frontOffset' = 0
  /\ UNCHANGED <<local, nextPageIndex, batchVars, mineVars, bufferedVars>>

-----------------------------------------------------------------------------
(* Batch: getCurrentBatchId() asks for a new batch at the next write.      *)

checkHasChanged(id) == id # batchId \/ batchId = MaxBatchId

getCurrentBatchId == batchIdIncrement' = 1

\* Pipe::newInProcessEvent()
setWriteSignal == writeSignal' = (writeSignal \/ ~local) /\ UNCHANGED isWriteLocked

\* Pipe::push(), by a user that will amend the event or by one that will not
push(sz, amended) ==
  /\ toBeDelivered' = toBeDelivered \cup {Allocated(sz)}
  /\ allocateEvent(sz) /\ setWriteSignal
  /\ IF amended THEN mine' = {Allocated(sz)} /\ mineBatch' = batchId /\ getCurrentBatchId
     ELSE UNCHANGED <<mineVars, batchIdIncrement>>
  /\ UNCHANGED <<local, batchId, handed, bufferedVars>>

\* A push() that throws bad_alloc, the signal being set
pushNoMemory(sz) ==
  /\ CannotAllocate(sz) /\ setWriteSignal
  /\ UNCHANGED <<local, chainVars, batchVars, eventVars, mineVars, bufferedVars>>

\* AllocatorBase::allocate(), for the event of the user
amend(sz) ==
  /\ ~checkHasChanged(mineBatch) /\ mine # {}
  /\ allocateEvent(sz)
  /\ mine' = mine \cup {Allocated(sz)}
  /\ toBeDelivered' = toBeDelivered \cup {Allocated(sz)}
  /\ getCurrentBatchId
  /\ UNCHANGED <<local, batchId, syncVars, handed, mineBatch, bufferedVars>>

\* forceChange() of a Batch with IS_PUSH_COMMITTED_TRUE: one before zero is the largest.
forceChange ==
  /\ mineBatch' = (batchId - 1) % (MaxBatchId + 1) /\ mine' = {}
  /\ getCurrentBatchId
  /\ UNCHANGED <<local, chainVars, batchId, syncVars, eventVars, bufferedVars>>

-----------------------------------------------------------------------------
(* BufferedPipe                                                            *)

Mixed == checkHasChanged(bufferedBatch) /\ buffered # {}

\* Batch::isPushCommitted() of the pipe's batch
isPushCommitted == bufferedBatch' = batchId /\ getCurrentBatchId /\ UNCHANGED batchId

\* Its push(), if it does not throw
pushBuffered(sz) ==
  /\ ~Mixed /\ isPushCommitted
  /\ allocateEvent(sz) /\ setWriteSignal
  /\ buffered' = buffered \cup {Allocated(sz)}
  /\ UNCHANGED <<local, eventVars, mineVars>>

\* Its push() or flush() throws MixedBatchBufferedEventsException.
pushFails ==
  /\ Mixed /\ isPushCommitted
  /\ buffered' = {}
  /\ UNCHANGED <<local, chainVars, syncVars, eventVars, mineVars>>

\* Its push() throws bad_alloc, the signal being set.
pushBufferedNoMemory(sz) ==
  /\ ~Mixed /\ isPushCommitted
  /\ CannotAllocate(sz) /\ setWriteSignal
  /\ UNCHANGED <<local, chainVars, eventVars, mineVars, buffered>>

flush ==
  /\ buffered # {} /\ ~Mixed /\ isPushCommitted
  /\ toBeDelivered' = toBeDelivered \cup buffered
  /\ buffered' = {}
  /\ UNCHANGED <<local, chainVars, syncVars, handed, mineVars>>

\* setDestinationActorId(), to an actor of the same node; clear() does less.
setDestinationActorId ==
  /\ isPushCommitted
  /\ buffered' = {}
  /\ UNCHANGED <<local, chainVars, syncVars, eventVars, mineVars>>

clearBuffered ==
  /\ buffered # {}
  /\ buffered' = {}
  /\ UNCHANGED <<local, chainVars, batchVars, syncVars, eventVars, mineVars, bufferedBatch>>

PagesNext ==
  \/ write \/ read \/ synchronizeLocalEvents \/ writeFailed
  \/ forceChange \/ pushFails \/ flush \/ setDestinationActorId \/ clearBuffered
  \/ \E sz \in EventSizes :
       \/ \E amended \in BOOLEAN : push(sz, amended)
       \/ pushNoMemory(sz) \/ amend(sz) \/ pushBuffered(sz) \/ pushBufferedNoMemory(sz)

PagesSpec == PagesInit /\ [][PagesNext]_pagesVars

-----------------------------------------------------------------------------
(* Properties.                                                             *)

\* The events that somebody of this node may still write to, or will hand over.
Own == toBeDelivered \cup (IF checkHasChanged(mineBatch) THEN {} ELSE mine)
                     \cup (IF Mixed THEN {} ELSE buffered)

Overlap(a, b) == a # b /\ a.page = b.page /\ a.at < b.at + b.sz /\ b.at < a.at + a.sz

\* No event is written over while somebody needs it: events that were written and not
\* yet given up lie in the pages of the reader, those of this node, and those that a
\* Batch or a BufferedPipe takes for its own, in pages that are not the reader's and
\* below what will be allocated next; no two share a byte, no page is in two chains.
\* An event that its Batch says may be amended has not been written.
EventsKeepTheirMemory ==
  /\ \A e \in handed : \E i \in DOMAIN usedByReader : usedByReader[i] = e.page
  /\ \A e \in Own : /\ \E i \in DOMAIN used : used[i] = e.page
                    /\ e.page = Head(used) => e.at + e.sz <= frontOffset
  /\ \A e, d \in handed \cup Own : ~Overlap(e, d)
  /\ LET pages == free \o used \o usedByReader IN Len(pages) = nextPageIndex /\ Cardinality(ToSet(pages)) = Len(pages)
  /\ ~checkHasChanged(mineBatch) => mine \subseteq toBeDelivered
=============================================================================
