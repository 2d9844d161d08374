------------------------------- MODULE NodeSync -------------------------------
(***************************************************************************)
(* The inter-core event exchange of Simplx: Parallel<>::Node               *)
(* (include/trz/engine/internal/parallel.h) over AsyncNodesHandle          *)
(* (include/trz/engine/internal/node.h, src/engine/node.cpp).              *)
(*                                                                         *)
(* Every ordered pair of nodes <<w, r>> owns one Shared block: a private   *)
(* writeCache of the writer w and a readWriteLocked part which w and the   *)
(* reader r use in turn, without a mutex.  Whose turn it is follows from   *)
(* four words of plain shared memory: isWriteLocked, isReaderActive,       *)
(* isWriterActive and readerCAS.  Nodes are constructed, run their event   *)
(* loop, are destroyed and may be constructed again, at any time and       *)
(* independently of one another.                                           *)
(*                                                                         *)
(* A step of the model makes at most one access to a word another node     *)
(* may write; what the code does to data it owns at that moment is part of *)
(* the same step.  Memory is sequentially consistent.                      *)
(***************************************************************************)
EXTENDS Integers, Sequences

CONSTANTS
  Size,       \* number of nodes (nodesHandle.size)
  MaxStarts,  \* bound, per node: how often it may be constructed
  MaxEvents   \* bound, per pair: how many events may be pushed

ASSUME SizeAssumption == Size \in Nat \ {0}

Nodes == 0 .. (Size - 1)
Peers(n) == Nodes \ {n}
Pairs == {p \in Nodes \X Nodes : p[1] # p[2]}

ASSUME BoundsAssumption ==
  MaxStarts \in [Nodes -> Nat] /\ MaxEvents \in [Pairs -> Nat]

VARIABLES
  \* the four synchronisation words, per pair <<writer, reader>>
  isWriterActive, isReaderActive, isWriteLocked, readerCAS,
  \* the Shared block, per pair
  writeCache,       \* [check, chain]: touched by the writer only
  readWriteLocked,  \* [delivered, check, chain, undelivered]
  \* per node: activeNodeHandles[] and the members of Parallel<>::Node
  activeNodeHandles, writeSignal, writeActivity,
  readNodes,        \* readOperator.nodes: read, to be unlocked
  cursor,           \* the iterator of read(): index in the chain being read
  checkWriteFailed, \* readOperator.checkWriteFailed
  writeNodes,       \* writeOperator.nodes: written, to be locked
  \* per node: where its thread is
  pc,               \* the next statement
  todo,             \* peers the current foreach loop has still to visit
  leaving,          \* inside ~Node
  \* history, not in the code
  starts,           \* per node: number of constructions so far
  born,             \* per pair and event: the value of starts when pushed
  fate              \* per pair and event: what became of it

vars == <<isWriterActive, isReaderActive, isWriteLocked, readerCAS, writeCache,
          readWriteLocked, activeNodeHandles, writeSignal, writeActivity,
          readNodes, cursor, checkWriteFailed, writeNodes, pc, todo, leaving,
          starts, born, fate>>

words   == <<isWriterActive, isReaderActive, isWriteLocked, readerCAS>>
shared  == <<writeCache, readWriteLocked, born, fate>>
own     == <<writeSignal, writeActivity, readNodes, cursor, checkWriteFailed,
             writeNodes>>
life    == <<activeNodeHandles, leaving, starts>>

Labels == {"down", "ctorWrite", "ctorRead", "ctorCAS", "run",
           "read", "reading", "readCheck", "write", "writing",
           "unlock", "lock",
           "failActive", "failLocked", "failCAS", "failing", "failRelease",
           "dtorCAS", "dtorRead", "dtorLoop", "dtorWrite", "dtorLocked",
           "dtorTake", "dtorUnlock", "dtorRelease", "deactivate"}

Fates == {"pending", "delivered", "returned", "discarded"}

\* Shared::WriteCache and Shared::ReadWriteLocked
WriteCache == [check : BOOLEAN, chain : Seq(Nat)]
ReadWriteLocked == [delivered : BOOLEAN, check : BOOLEAN,
                    chain : Seq(Nat), undelivered : Seq(Nat)]

Init ==
  /\ isWriterActive  = [p \in Pairs |-> FALSE]
  /\ isReaderActive  = [p \in Pairs |-> FALSE]
  /\ isWriteLocked   = [p \in Pairs |-> FALSE]
  /\ readerCAS       = [p \in Pairs |-> "IDLE"]
  /\ writeCache      = [p \in Pairs |-> [check |-> FALSE, chain |-> << >>]]
  /\ readWriteLocked = [p \in Pairs |-> [delivered |-> FALSE, check |-> FALSE,
                                         chain |-> << >>, undelivered |-> << >>]]
  /\ activeNodeHandles = [n \in Nodes |-> FALSE]
  /\ writeSignal       = [n \in Nodes |-> {}]
  /\ writeActivity     = [n \in Nodes |-> {}]
  /\ readNodes         = [n \in Nodes |-> {}]
  /\ cursor            = [n \in Nodes |-> 1]
  /\ checkWriteFailed  = [n \in Nodes |-> FALSE]
  /\ writeNodes        = [n \in Nodes |-> {}]
  /\ pc                = [n \in Nodes |-> "down"]
  /\ todo              = [n \in Nodes |-> {}]
  /\ leaving           = [n \in Nodes |-> FALSE]
  /\ starts            = [n \in Nodes |-> 0]
  /\ born              = [p \in Pairs |-> << >>]
  /\ fate              = [p \in Pairs |-> << >>]

-----------------------------------------------------------------------------
(* Control: the foreach loops visit the peers in ascending order           *)
(* (foreachRead, foreachWrite, SynchronizeWriteOperator::reset); the loops *)
(* of synchronizePostBarrier run from the last node recorded down.         *)

IsFirst(x, S) == x \in S /\ \A y \in S : x <= y
IsLast(x, S)  == x \in S /\ \A y \in S : x >= y

At(n, label) == pc[n] = label

Goto(n, label) == pc' = [pc EXCEPT ![n] = label] /\ UNCHANGED todo

\* A new foreach loop over the peers, starting at label.
Foreach(n, label) ==
  /\ pc'   = [pc EXCEPT ![n] = label]
  /\ todo' = [todo EXCEPT ![n] = Peers(n)]

\* This iteration is over: the next one starts at label.
Continue(n, peer, label) ==
  /\ pc'   = [pc EXCEPT ![n] = label]
  /\ todo' = [todo EXCEPT ![n] = @ \ {peer}]

\* The loop whose head is label has visited every peer.
Done(n, label) == At(n, label) /\ todo[n] = {}

\* Thread n is at label and its loop has reached peer.
Visit(n, peer, label) == At(n, label) /\ IsFirst(peer, todo[n])

-----------------------------------------------------------------------------
(* Events.  An event of a pair is its number in the order of the pushes.   *)

Pending(events) == {events[i] : i \in DOMAIN events}

Erase(events, i) ==
  SubSeq(events, 1, i - 1) \o SubSeq(events, i + 1, Len(events))

\* fate[p] once the events of back have been dispatched to their source actors
\* (onUndeliveredEventToSourceActor), which are gone if the writer was destroyed
\* since or is being destroyed, and those of drop have been thrown away.
Dispatched(p, back, drop) ==
  [e \in DOMAIN fate[p] |->
     IF e \in back /\ born[p][e] = starts[p[1]] /\ ~leaving[p[1]] THEN "returned"
     ELSE IF e \in back \cup drop THEN "discarded"
     ELSE fate[p][e]]

\* Mutant of Push: the event is put before the ones that wait.
PushFront(n, d) ==
  LET p == <<n, d>> IN
  /\ pc[n] \in {"run", "reading"}
  /\ ~leaving[n]
  /\ d \in Peers(n)
  /\ Len(fate[p]) < MaxEvents[p]
  /\ born' = [born EXCEPT ![p] = Append(@, starts[n])]
  /\ fate' = [fate EXCEPT ![p] = Append(@, "pending")]
  /\ writeCache' = [writeCache EXCEPT ![p].chain = <<Len(fate[p]) + 1>> \o @]
  /\ writeSignal' = [writeSignal EXCEPT ![n] = @ \cup {d}]
  /\ UNCHANGED <<words, readWriteLocked, writeActivity, readNodes, cursor,
                 checkWriteFailed, writeNodes, pc, todo, life>>

\* Event::Pipe::push: the event joins the writer's chain for d.
Push(n, d) ==
  LET p == <<n, d>> IN
  /\ pc[n] \in {"run", "reading"}
  /\ ~leaving[n]
  /\ d \in Peers(n)
  /\ Len(fate[p]) < MaxEvents[p]
  /\ born' = [born EXCEPT ![p] = Append(@, starts[n])]
  /\ fate' = [fate EXCEPT ![p] = Append(@, "pending")]
  /\ writeCache' = [writeCache EXCEPT ![p].chain = Append(@, Len(fate[p]) + 1)]
  /\ writeSignal' = [writeSignal EXCEPT ![n] = @ \cup {d}]
  /\ UNCHANGED <<words, readWriteLocked, writeActivity, readNodes, cursor,
                 checkWriteFailed, writeNodes, pc, todo, life>>

\* Dispatching the events of back runs handlers of node n; one of them may push
\* a new event to d.  With d = n none does.
MayPush(n, d, back) ==
  d # n => back # {} /\ ~leaving[n] /\ Len(fate[<<n, d>>]) < MaxEvents[<<n, d>>]

PushedBorn(n, d) ==
  IF d = n THEN born ELSE [born EXCEPT ![<<n, d>>] = Append(@, starts[n])]

PushedFate(n, d, f, first) ==
  IF d = n THEN f ELSE [f EXCEPT ![<<n, d>>] = Append(@, first)]

PushedCache(n, d) ==
  IF d = n THEN writeCache
           ELSE [writeCache EXCEPT ![<<n, d>>].chain =
                   Append(@, Len(fate[<<n, d>>]) + 1)]

-----------------------------------------------------------------------------
(* Node::Node                                                              *)

\* activateNode, which throws NodeInUseException unless the node is free.
Start(n) ==
  /\ At(n, "down")
  /\ ~activeNodeHandles[n]
  /\ starts[n] < MaxStarts[n]
  /\ activeNodeHandles' = [activeNodeHandles EXCEPT ![n] = TRUE]
  /\ starts' = [starts EXCEPT ![n] = @ + 1]
  /\ Foreach(n, "ctorWrite")
  /\ writeSignal'      = [writeSignal EXCEPT ![n] = {}]
  /\ writeActivity'    = [writeActivity EXCEPT ![n] = {}]
  /\ readNodes'        = [readNodes EXCEPT ![n] = {}]
  /\ writeNodes'       = [writeNodes EXCEPT ![n] = {}]
  /\ checkWriteFailed' = [checkWriteFailed EXCEPT ![n] = FALSE]
  /\ UNCHANGED <<words, shared, cursor, leaving>>

\* ForEachConstructorWriteOperator
ConstructorWrite(n) ==
  \/ /\ \E r \in todo[n] :
          /\ Visit(n, r, "ctorWrite")
          /\ isWriterActive' = [isWriterActive EXCEPT ![<<n, r>>] = TRUE]
          /\ Continue(n, r, "ctorWrite")
     /\ UNCHANGED <<isReaderActive, isWriteLocked, readerCAS, shared, own, life>>
  \/ /\ Done(n, "ctorWrite")
     /\ Foreach(n, "ctorRead")
     /\ UNCHANGED <<words, shared, own, life>>

\* Mutant of ConstructorRead: readerCAS is set without waiting for IDLE.
ConstructorReadNoSpin(n) ==
  \/ /\ \E w \in todo[n] :
          /\ Visit(n, w, "ctorRead")
          /\ isReaderActive' = [isReaderActive EXCEPT ![<<w, n>>] = TRUE]
          /\ readerCAS' = [readerCAS EXCEPT ![<<w, n>>] = "ON"]
          /\ Continue(n, w, "ctorRead")
     /\ UNCHANGED <<isWriterActive, isWriteLocked, shared, own, life>>
  \/ /\ Done(n, "ctorRead")
     /\ Goto(n, "run")
     /\ UNCHANGED <<words, shared, own, life>>

\* ForEachConstructorReadOperator: setIsReaderActive(true), then a spin until
\* the compare-and-swap of readerCAS from IDLE to ON succeeds.
ConstructorRead(n) ==
  \/ /\ \E w \in todo[n] :
          /\ Visit(n, w, "ctorRead")
          /\ isReaderActive' = [isReaderActive EXCEPT ![<<w, n>>] = TRUE]
          /\ Goto(n, "ctorCAS")
     /\ UNCHANGED <<isWriterActive, isWriteLocked, readerCAS, shared, own, life>>
  \/ /\ \E w \in todo[n] :
          /\ Visit(n, w, "ctorCAS")
          /\ readerCAS[<<w, n>>] = "IDLE"
          /\ readerCAS' = [readerCAS EXCEPT ![<<w, n>>] = "ON"]
          /\ Continue(n, w, "ctorRead")
     /\ UNCHANGED <<isWriterActive, isReaderActive, isWriteLocked, shared, own, life>>
  \/ /\ Done(n, "ctorRead")
     /\ Goto(n, "run")
     /\ UNCHANGED <<words, shared, own, life>>

-----------------------------------------------------------------------------
(* Node::synchronizePreBarrier                                             *)

\* readOperator.reset(), and the first loop begins.
BeginSynchronize(n) ==
  /\ At(n, "run")
  /\ readNodes'        = [readNodes EXCEPT ![n] = {}]
  /\ checkWriteFailed' = [checkWriteFailed EXCEPT ![n] = FALSE]
  /\ Foreach(n, "read")
  /\ UNCHANGED <<words, shared, writeSignal, writeActivity, writeNodes, cursor, life>>

\* ForEachSynchronizeReadOperator, the test of isWriteLocked.  With the lock set
\* ReaderSharedHandle::read begins; when the writer asks for it, the node signals
\* itself to write back and so to collect the events the writer turned down.
SynchronizeReadTest(n) ==
  \/ /\ \E w \in todo[n] :
          LET p == <<w, n>> IN
          /\ Visit(n, w, "read")
          /\ isWriteLocked[p]
          /\ readWriteLocked' = [readWriteLocked EXCEPT ![p].delivered = TRUE]
          /\ writeSignal' = [writeSignal EXCEPT
               ![n] = IF readWriteLocked[p].check THEN @ \cup {w} ELSE @]
     /\ Goto(n, "reading")
     /\ UNCHANGED <<words, writeCache, born, fate, writeActivity, readNodes,
                    cursor, checkWriteFailed, writeNodes, life>>
  \/ /\ \E w \in todo[n] : Visit(n, w, "read") /\ ~isWriteLocked[<<w, n>>]
     /\ Goto(n, "readCheck")
     /\ UNCHANGED <<words, shared, own, life>>

\* ReaderSharedHandle::read, one event: a handler of its destination has it ...
ReadEvent(n) ==
  /\ \E w \in todo[n] :
       LET p == <<w, n>> IN
       /\ Visit(n, w, "reading")
       /\ cursor[n] <= Len(readWriteLocked[p].chain)
       /\ fate' = [fate EXCEPT ![p][readWriteLocked[p].chain[cursor[n]]] = "delivered"]
  /\ cursor' = [cursor EXCEPT ![n] = @ + 1]
  /\ UNCHANGED <<words, writeCache, readWriteLocked, born, writeSignal,
                 writeActivity, readNodes, checkWriteFailed, writeNodes, pc, todo, life>>

\* Mutant of TurnDown: the sender is not signalled.
TurnDownUnsignalled(n, w, i) ==
  LET p == <<w, n>> IN
  /\ readWriteLocked' = [readWriteLocked EXCEPT
       ![p].chain = Erase(@, i),
       ![p].undelivered = Append(@, readWriteLocked[p].chain[i])]
  /\ writeCache' = [writeCache EXCEPT ![<<n, w>>].check = TRUE]
  /\ UNCHANGED writeSignal

\* Mutant of TurnDown: events turned down are chained in front.
TurnDownFront(n, w, i) ==
  LET p == <<w, n>> IN
  /\ readWriteLocked' = [readWriteLocked EXCEPT
       ![p].chain = Erase(@, i),
       ![p].undelivered = <<readWriteLocked[p].chain[i]>> \o @]
  /\ writeCache' = [writeCache EXCEPT ![<<n, w>>].check = TRUE]
  /\ writeSignal' = [writeSignal EXCEPT ![n] = @ \cup {w}]

\* ReadWriteLocked::undeliveredEvent: the i-th event of the chain moves to the
\* chain of events turned down and the node signals itself to tell the sender.
TurnDown(n, w, i) ==
  LET p == <<w, n>> IN
  /\ readWriteLocked' = [readWriteLocked EXCEPT
       ![p].chain = Erase(@, i),
       ![p].undelivered = Append(@, readWriteLocked[p].chain[i])]
  /\ writeCache' = [writeCache EXCEPT ![<<n, w>>].check = TRUE]
  /\ writeSignal' = [writeSignal EXCEPT ![n] = @ \cup {w}]

\* ... or its destination actor is gone, has no handler for it or throws
\* ReturnToSenderException.
UndeliveredEvent(n) ==
  /\ \E w \in todo[n] :
       /\ Visit(n, w, "reading")
       /\ cursor[n] <= Len(readWriteLocked[<<w, n>>].chain)
       /\ TurnDown(n, w, cursor[n])
  /\ UNCHANGED <<words, born, fate, writeActivity, readNodes, cursor,
                 checkWriteFailed, writeNodes, pc, todo, life>>

\* ReaderSharedHandle::read returns and the writer is remembered.
ReadEnd(n) ==
  /\ \E w \in todo[n] :
       /\ Visit(n, w, "reading")
       /\ cursor[n] > Len(readWriteLocked[<<w, n>>].chain)
       /\ readNodes' = [readNodes EXCEPT ![n] = @ \cup {w}]
  /\ cursor' = [cursor EXCEPT ![n] = 1]
  /\ Goto(n, "readCheck")
  /\ UNCHANGED <<words, shared, writeSignal, writeActivity, checkWriteFailed,
                 writeNodes, life>>

\* Mutant of SynchronizeReadCheck: a reader that went away is not noticed.
SynchronizeReadCheckNever(n) ==
  \/ /\ \E w \in todo[n] : Visit(n, w, "readCheck") /\ Continue(n, w, "read")
     /\ UNCHANGED <<words, shared, own, life>>
  \/ /\ Done(n, "read")
     /\ Foreach(n, "write")
     /\ writeNodes' = [writeNodes EXCEPT ![n] = {}]
     /\ UNCHANGED <<words, shared, writeSignal, writeActivity, readNodes,
                    checkWriteFailed, cursor, life>>

\* ForEachSynchronizeReadOperator, the update of checkWriteFailed; after the
\* last writer, SynchronizeWriteOperator::reset begins.
SynchronizeReadCheck(n) ==
  \/ /\ \E w \in todo[n] :
          /\ Visit(n, w, "readCheck")
          /\ checkWriteFailed' = [checkWriteFailed EXCEPT
               ![n] = @ \/ (w \in writeActivity[n] /\ ~isWriterActive[<<w, n>>])]
          /\ Continue(n, w, "read")
     /\ UNCHANGED <<words, shared, writeSignal, writeActivity, readNodes,
                    writeNodes, cursor, life>>
  \/ /\ Done(n, "read")
     /\ Foreach(n, "write")
     /\ writeNodes' = [writeNodes EXCEPT ![n] = {}]
     /\ UNCHANGED <<words, shared, writeSignal, writeActivity, readNodes,
                    checkWriteFailed, cursor, life>>

\* Mutant of SynchronizeWriteTest: the lock is not looked at.
SynchronizeWriteTestUnlocked(n) ==
  /\ \E r \in todo[n] :
       /\ Visit(n, r, "write")
       /\ \/ /\ r \in writeSignal[n]
             /\ writeSignal' = [writeSignal EXCEPT ![n] = @ \ {r}]
             /\ Goto(n, "writing")
          \/ /\ r \notin writeSignal[n]
             /\ Continue(n, r, "write")
             /\ UNCHANGED writeSignal
  /\ UNCHANGED <<words, shared, writeActivity, readNodes, checkWriteFailed,
                 writeNodes, cursor, life>>

\* SynchronizeWriteOperator::reset, the test of writeSignal and isWriteLocked
SynchronizeWriteTest(n) ==
  /\ \E r \in todo[n] :
       /\ Visit(n, r, "write")
       /\ \/ /\ r \in writeSignal[n] /\ ~isWriteLocked[<<n, r>>]
             /\ writeSignal' = [writeSignal EXCEPT ![n] = @ \ {r}]
             /\ Goto(n, "writing")
          \/ /\ r \notin writeSignal[n] \/ isWriteLocked[<<n, r>>]
             /\ Continue(n, r, "write")
             /\ UNCHANGED writeSignal
  /\ UNCHANGED <<words, shared, writeActivity, readNodes, checkWriteFailed,
                 writeNodes, cursor, life>>

\* WriterSharedHandle::write and, when it is worth it, the bookkeeping of
\* SynchronizeWriteOperator::reset
Write(n, r) ==
  LET p    == <<n, r>>
      rw   == readWriteLocked[p]
      back == Pending(rw.undelivered)
      drop == IF rw.delivered THEN {} ELSE Pending(rw.chain)
  IN
  \E d \in Nodes :
    LET cache == PushedCache(n, d)
        told  == {x \in {r} : cache[p].check \/ cache[p].chain # << >>}
    IN
    /\ MayPush(n, d, back)
    /\ born' = PushedBorn(n, d)
    /\ fate' = PushedFate(n, d, [fate EXCEPT ![p] = Dispatched(p, back, drop)],
                          "pending")
    /\ readWriteLocked' = [readWriteLocked EXCEPT ![p] =
         [delivered |-> FALSE, check |-> cache[p].check,
          chain |-> cache[p].chain, undelivered |-> << >>]]
    /\ writeCache' = [cache EXCEPT ![p] = [check |-> FALSE, chain |-> << >>]]
    /\ writeSignal' = [writeSignal EXCEPT ![n] = @ \cup ({d} \ {n})]
    /\ writeNodes' = [writeNodes EXCEPT ![n] = @ \cup told]
    /\ writeActivity' = [writeActivity EXCEPT ![n] = @ \cup told]

\* Mutant of WriteFailed: deliveredEventsFlag is not looked at.
WriteFailedUnflagged(n, r) ==
  LET p    == <<n, r>>
      back == Pending(readWriteLocked[p].chain) \cup Pending(writeCache[p].chain)
  IN
  /\ fate' = [fate EXCEPT ![p] = Dispatched(p, back, {})]
  /\ readWriteLocked' = [readWriteLocked EXCEPT ![p] =
       [delivered |-> FALSE, check |-> FALSE, chain |-> << >>, undelivered |-> << >>]]
  /\ writeCache' = [writeCache EXCEPT ![p] = [check |-> FALSE, chain |-> << >>]]
  /\ UNCHANGED <<born, writeSignal>>

\* WriterSharedHandle::writeFailed.  An event pushed to r itself by one of the
\* handlers joins the chain that is being dispatched and comes back as well.
WriteFailed(n, r) ==
  LET p    == <<n, r>>
      rw   == readWriteLocked[p]
      back == Pending(IF rw.delivered THEN rw.undelivered ELSE rw.chain)
                \cup Pending(writeCache[p].chain)
  IN
  \E d \in Nodes :
    /\ MayPush(n, d, back)
    /\ born' = PushedBorn(n, d)
    /\ fate' = PushedFate(n, d, [fate EXCEPT ![p] = Dispatched(p, back, {})],
                          IF d = r THEN "returned" ELSE "pending")
    /\ readWriteLocked' = [readWriteLocked EXCEPT ![p] =
         [delivered |-> FALSE, check |-> FALSE, chain |-> << >>,
          undelivered |-> IF rw.delivered THEN << >> ELSE rw.undelivered]]
    /\ writeCache' = [PushedCache(n, d) EXCEPT
         ![p] = [check |-> FALSE, chain |-> << >>]]
    /\ writeSignal' = [writeSignal EXCEPT ![n] = @ \cup ({d} \ {n})]

\* SynchronizeWriteOperator::reset, the rest of the iteration; after the last
\* reader, synchronizePostBarrier or the lock loop of ~Node begins.
SynchronizeWrite(n) ==
  \/ /\ \E r \in todo[n] :
          /\ Visit(n, r, "writing")
          /\ Continue(n, r, "write")
          /\ \/ isReaderActive[<<n, r>>] /\ Write(n, r)
             \/ /\ ~isReaderActive[<<n, r>>]
                /\ WriteFailed(n, r)
                /\ UNCHANGED <<writeNodes, writeActivity>>
     /\ UNCHANGED <<words, readNodes, checkWriteFailed, cursor, life>>
  \/ /\ Done(n, "write")
     /\ Goto(n, IF leaving[n] THEN "lock" ELSE "unlock")
     /\ UNCHANGED <<words, shared, own, life>>

\* EngineEventLoop::returnToSender: between the two barriers the event loop sends
\* back an event that a handler has had and set aside.
ReturnToSender(n) ==
  /\ Done(n, "write") /\ ~leaving[n]
  /\ \E w \in Peers(n) : \E i \in DOMAIN readWriteLocked[<<w, n>>].chain :
       /\ w \in readNodes[n]
       /\ TurnDown(n, w, i)
       /\ fate' = [fate EXCEPT ![<<w, n>>][readWriteLocked[<<w, n>>].chain[i]] =
                     "pending"]
  /\ UNCHANGED <<words, born, writeActivity, readNodes, cursor,
                 checkWriteFailed, writeNodes, pc, todo, life>>

-----------------------------------------------------------------------------
(* Node::synchronizePostBarrier                                            *)

\* Mutant of Unlock: the lock is not given back.
UnlockForgetting(n) ==
  \/ /\ At(n, "unlock")
     /\ \E w \in readNodes[n] : readNodes' = [readNodes EXCEPT ![n] = @ \ {w}]
     /\ UNCHANGED <<words, shared, writeSignal, writeActivity, checkWriteFailed,
                    writeNodes, pc, todo, cursor, life>>
  \/ /\ At(n, "unlock") /\ readNodes[n] = {}
     /\ Goto(n, "lock")
     /\ UNCHANGED <<words, shared, own, life>>

\* setIsWriteLocked(false) for every writer whose events were read
Unlock(n) ==
  \/ /\ At(n, "unlock")
     /\ \E w \in readNodes[n] :
          /\ IsLast(w, readNodes[n])
          /\ isWriteLocked' = [isWriteLocked EXCEPT ![<<w, n>>] = FALSE]
          /\ readNodes' = [readNodes EXCEPT ![n] = @ \ {w}]
     /\ UNCHANGED <<isWriterActive, isReaderActive, readerCAS, shared, writeSignal,
                    writeActivity, checkWriteFailed, writeNodes, pc, todo, cursor, life>>
  \/ /\ At(n, "unlock") /\ readNodes[n] = {}
     /\ Goto(n, "lock")
     /\ UNCHANGED <<words, shared, own, life>>

\* setIsWriteLocked(true) for every reader that was written to; then, when
\* checkWriteFailed or in ~Node, ForEachSynchronizeWriteFailedOperator begins.
Lock(n) ==
  \/ /\ At(n, "lock")
     /\ \E r \in writeNodes[n] :
          /\ IsLast(r, writeNodes[n])
          /\ isWriteLocked' = [isWriteLocked EXCEPT ![<<n, r>>] = TRUE]
          /\ writeNodes' = [writeNodes EXCEPT ![n] = @ \ {r}]
     /\ UNCHANGED <<isWriterActive, isReaderActive, readerCAS, shared, writeSignal,
                    writeActivity, readNodes, checkWriteFailed, pc, todo, cursor, life>>
  \/ /\ At(n, "lock") /\ writeNodes[n] = {}
     /\ IF checkWriteFailed[n] \/ leaving[n] THEN Foreach(n, "failActive")
                                             ELSE Goto(n, "run")
     /\ UNCHANGED <<words, shared, own, life>>

\* ForEachSynchronizeWriteFailedOperator: only an inactive reader ...
FailedActive(n) ==
  \/ /\ \E r \in todo[n] :
          /\ Visit(n, r, "failActive")
          /\ IF isReaderActive[<<n, r>>] THEN Continue(n, r, "failActive")
                                         ELSE Goto(n, "failLocked")
     /\ UNCHANGED <<words, shared, own, life>>
  \/ /\ Done(n, "failActive")
     /\ Goto(n, IF leaving[n] THEN "dtorLoop" ELSE "run")
     /\ UNCHANGED <<words, shared, own, life>>

\* ... that left events locked ...
FailedLocked(n) ==
  /\ \E r \in todo[n] :
       /\ Visit(n, r, "failLocked")
       /\ \/ /\ isWriteLocked[<<n, r>>]
             /\ Goto(n, "failCAS")
             /\ UNCHANGED writeActivity
          \/ /\ ~isWriteLocked[<<n, r>>]
             /\ writeActivity' = [writeActivity EXCEPT ![n] = @ \ {r}]
             /\ Continue(n, r, "failActive")
  /\ UNCHANGED <<words, shared, writeSignal, readNodes, checkWriteFailed,
                 writeNodes, cursor, life>>

\* Mutant of FailedCAS: a plain store instead of a compare-and-swap.
FailedStore(n) ==
  /\ \E r \in todo[n] :
       /\ Visit(n, r, "failCAS")
       /\ readerCAS' = [readerCAS EXCEPT ![<<n, r>>] = "OFF"]
  /\ Goto(n, "failing")
  /\ UNCHANGED <<isWriterActive, isReaderActive, isWriteLocked, shared, own, life>>

\* ... and whose readerCAS the writer takes from IDLE to OFF ...
FailedCAS(n) ==
  /\ \E r \in todo[n] :
       /\ Visit(n, r, "failCAS")
       /\ \/ /\ readerCAS[<<n, r>>] = "IDLE"
             /\ readerCAS' = [readerCAS EXCEPT ![<<n, r>>] = "OFF"]
             /\ Goto(n, "failing")
          \/ /\ readerCAS[<<n, r>>] # "IDLE"
             /\ Continue(n, r, "failActive")
             /\ UNCHANGED readerCAS
  /\ UNCHANGED <<isWriterActive, isReaderActive, isWriteLocked, shared, own, life>>

\* ... has the events dispatched back and its lock removed ...
Failed(n) ==
  /\ \E r \in todo[n] :
       /\ Visit(n, r, "failing")
       /\ WriteFailed(n, r)
       /\ isWriteLocked' = [isWriteLocked EXCEPT ![<<n, r>>] = FALSE]
       /\ writeActivity' = [writeActivity EXCEPT ![n] = @ \ {r}]
  /\ Goto(n, "failRelease")
  /\ UNCHANGED <<isWriterActive, isReaderActive, readerCAS, readNodes,
                 checkWriteFailed, writeNodes, cursor, life>>

\* ... before readerCAS goes back to IDLE.
FailedRelease(n) ==
  /\ \E r \in todo[n] :
       /\ Visit(n, r, "failRelease")
       /\ readerCAS' = [readerCAS EXCEPT ![<<n, r>>] = "IDLE"]
       /\ Continue(n, r, "failActive")
  /\ UNCHANGED <<isWriterActive, isReaderActive, isWriteLocked, shared, own, life>>

-----------------------------------------------------------------------------
(* Node::~Node.  The event loop has ended: no actor is left on the node.   *)

Stop(n) ==
  /\ At(n, "run")
  /\ leaving' = [leaving EXCEPT ![n] = TRUE]
  /\ Foreach(n, "dtorCAS")
  /\ UNCHANGED <<words, shared, own, activeNodeHandles, starts>>

\* ForEachDestructorReadOperator: readerCAS from ON to IDLE, then inactive.
DestructorRead(n) ==
  \/ /\ \E w \in todo[n] :
          /\ Visit(n, w, "dtorCAS")
          /\ readerCAS' = [readerCAS EXCEPT
               ![<<w, n>>] = IF @ = "ON" THEN "IDLE" ELSE @]
          /\ Goto(n, "dtorRead")
     /\ UNCHANGED <<isWriterActive, isReaderActive, isWriteLocked, shared, own, life>>
  \/ /\ \E w \in todo[n] :
          /\ Visit(n, w, "dtorRead")
          /\ isReaderActive' = [isReaderActive EXCEPT ![<<w, n>>] = FALSE]
          /\ Continue(n, w, "dtorCAS")
     /\ UNCHANGED <<isWriterActive, isWriteLocked, readerCAS, shared, own, life>>
  \/ /\ Done(n, "dtorCAS")
     /\ Goto(n, "dtorLoop")
     /\ UNCHANGED <<words, shared, own, life>>

\* Mutant of DestructorLoop: nothing is flushed.
DestructorNoLoop(n) ==
  /\ At(n, "dtorLoop")
  /\ Foreach(n, "dtorWrite")
  /\ UNCHANGED <<words, shared, own, life>>

\* The loop of ~Node: while writeSignal.any(), flush as the event loop does.
DestructorLoop(n) ==
  /\ At(n, "dtorLoop")
  /\ IF writeSignal[n] # {} THEN Foreach(n, "write") ELSE Foreach(n, "dtorWrite")
  /\ writeNodes' = [writeNodes EXCEPT ![n] = {}]
  /\ UNCHANGED <<words, shared, writeSignal, writeActivity, readNodes,
                 checkWriteFailed, cursor, life>>

\* ForEachDestructorWriteOperator: no longer a writer, and wait for the reader
\* to give the lock back, or take it from a reader that is gone.
DestructorWrite(n) ==
  \/ /\ \E r \in todo[n] :
          /\ Visit(n, r, "dtorWrite")
          /\ isWriterActive' = [isWriterActive EXCEPT ![<<n, r>>] = FALSE]
          /\ Goto(n, "dtorLocked")
     /\ UNCHANGED <<isReaderActive, isWriteLocked, readerCAS, shared, own, life>>
  \/ /\ \E r \in todo[n] :
          /\ Visit(n, r, "dtorLocked")
          /\ IF isWriteLocked[<<n, r>>] THEN Goto(n, "dtorTake")
                                        ELSE Continue(n, r, "dtorWrite")
     /\ UNCHANGED <<words, shared, own, life>>
  \/ /\ \E r \in todo[n] :
          /\ Visit(n, r, "dtorTake")
          /\ \/ /\ readerCAS[<<n, r>>] = "IDLE"
                /\ readerCAS' = [readerCAS EXCEPT ![<<n, r>>] = "OFF"]
                /\ Goto(n, "dtorUnlock")
             \/ /\ readerCAS[<<n, r>>] # "IDLE"
                /\ Goto(n, "dtorLocked")
                /\ UNCHANGED readerCAS
     /\ UNCHANGED <<isWriterActive, isReaderActive, isWriteLocked, shared, own, life>>
  \/ /\ \E r \in todo[n] :
          /\ Visit(n, r, "dtorUnlock")
          /\ isWriteLocked' = [isWriteLocked EXCEPT ![<<n, r>>] = FALSE]
          /\ Goto(n, "dtorRelease")
     /\ UNCHANGED <<isWriterActive, isReaderActive, readerCAS, shared, own, life>>
  \/ /\ \E r \in todo[n] :
          /\ Visit(n, r, "dtorRelease")
          /\ readerCAS' = [readerCAS EXCEPT ![<<n, r>>] = "IDLE"]
          /\ Goto(n, "dtorLocked")
     /\ UNCHANGED <<isWriterActive, isReaderActive, isWriteLocked, shared, own, life>>
  \/ /\ Done(n, "dtorWrite")
     /\ Goto(n, "deactivate")
     /\ UNCHANGED <<words, shared, own, life>>

\* deactivateNode
Deactivate(n) ==
  /\ At(n, "deactivate")
  /\ activeNodeHandles' = [activeNodeHandles EXCEPT ![n] = FALSE]
  /\ leaving' = [leaving EXCEPT ![n] = FALSE]
  /\ Goto(n, "down")
  /\ UNCHANGED <<words, shared, own, starts>>

-----------------------------------------------------------------------------

\* What the thread of node n does by itself, once the node is constructed.
NodeStep(n) ==
  \/ ConstructorWrite(n) \/ ConstructorRead(n)
  \/ BeginSynchronize(n)
  \/ SynchronizeReadTest(n) \/ ReadEvent(n) \/ UndeliveredEvent(n)
  \/ ReadEnd(n) \/ SynchronizeReadCheck(n)
  \/ SynchronizeWriteTest(n) \/ SynchronizeWrite(n)
  \/ Unlock(n) \/ Lock(n)
  \/ FailedActive(n) \/ FailedLocked(n) \/ FailedCAS(n) \/ Failed(n)
  \/ FailedRelease(n)
  \/ DestructorRead(n) \/ DestructorLoop(n) \/ DestructorWrite(n)
  \/ Deactivate(n)

\* ... and what the program that uses the engine makes it do.
Step(n) ==
  \/ NodeStep(n)
  \/ Start(n)
  \/ Stop(n)
  \/ ReturnToSender(n)
  \/ \E d \in Nodes : Push(n, d)

Next == \E n \in Nodes : Step(n)

Spec == Init /\ [][Next]_vars

\* The operating system runs every thread; nobody has to start or stop a node,
\* to push an event or to send one back.
FairSpec == Spec /\ \A n \in Nodes : WF_vars(NodeStep(n))

-----------------------------------------------------------------------------
(* Properties                                                              *)

WordsType ==
  /\ isWriterActive \in [Pairs -> BOOLEAN]
  /\ isReaderActive \in [Pairs -> BOOLEAN]
  /\ isWriteLocked \in [Pairs -> BOOLEAN]
  /\ readerCAS \in [Pairs -> {"IDLE", "ON", "OFF"}]

SharedType ==
  /\ writeCache \in [Pairs -> WriteCache]
  /\ readWriteLocked \in [Pairs -> ReadWriteLocked]
  /\ born \in [Pairs -> Seq(Nat)]
  /\ fate \in [Pairs -> Seq(Fates)]

OwnType ==
  /\ writeSignal \in [Nodes -> SUBSET Nodes]
  /\ writeActivity \in [Nodes -> SUBSET Nodes]
  /\ readNodes \in [Nodes -> SUBSET Nodes]
  /\ cursor \in [Nodes -> Nat \ {0}]
  /\ checkWriteFailed \in [Nodes -> BOOLEAN]
  /\ writeNodes \in [Nodes -> SUBSET Nodes]

LifeType ==
  /\ activeNodeHandles \in [Nodes -> BOOLEAN]
  /\ leaving \in [Nodes -> BOOLEAN]
  /\ starts \in [Nodes -> Nat]

ControlType ==
  /\ pc \in [Nodes -> Labels]
  /\ todo \in [Nodes -> SUBSET Nodes]
  /\ \A n \in Nodes : n \notin todo[n]

TypeOK == WordsType /\ SharedType /\ OwnType /\ LifeType /\ ControlType

\* The reader r is using readWriteLocked of <<w, r>>: from the moment it saw the
\* lock until it removes it.
ReaderHolds(w, r) ==
  w \in readNodes[r] \/ Visit(r, w, "reading")

\* The writer w is using it: from the moment it saw no lock until it sets it, or
\* while it has readerCAS OFF and the lock still stands.
Writing(w, r) == r \in writeNodes[w] \/ Visit(w, r, "writing")

WriterHolds(w, r) ==
  Writing(w, r) \/ Visit(w, r, "failing") \/ Visit(w, r, "dtorUnlock")

\* The reader and the writer never use the readWriteLocked part of a Shared
\* block at the same time, whatever they do and however often either of them is
\* destroyed and constructed again (SynchronizeRead/WriteOperator, writeFailed).
ExclusiveAccess ==
  \A w \in Nodes : \A r \in Peers(w) : ~(ReaderHolds(w, r) /\ WriterHolds(w, r))

\* Every assert of parallel.h, read() and writeFailed() about a word or a chain
\* that another node can change holds where it stands.
PairAsserts(w, r) ==
  LET p == <<w, r>> IN
  /\ Visit(w, r, "ctorWrite") => ~isWriteLocked[p]
  /\ Visit(r, w, "ctorRead") => ~isReaderActive[p]
  /\ Visit(r, w, "read") \/ Visit(r, w, "dtorCAS")
       => isReaderActive[p] /\ readerCAS[p] = "ON"
  /\ Visit(r, w, "read") /\ isWriteLocked[p] => ~readWriteLocked[p].delivered
  /\ At(r, "unlock") /\ w \in readNodes[r] => isWriteLocked[p]
  /\ At(w, "lock") /\ r \in writeNodes[w] => ~isWriteLocked[p]
  /\ Visit(w, r, "writing") \/ Visit(w, r, "failing")
       => readWriteLocked[p].delivered \/ readWriteLocked[p].undelivered = << >>

Asserts == \A w \in Nodes : \A r \in Peers(w) : PairAsserts(w, r)

(* Who has readerCAS, and why the asserts hold: the inductive invariant.   *)

ConstructLabels == {"down", "ctorWrite", "ctorRead", "ctorCAS"}
ReadLabels      == {"run", "read", "reading", "readCheck", "unlock"}
FlushLabels     == {"write", "writing", "lock", "failActive", "failLocked",
                    "failCAS", "failing", "failRelease"}

\* Node r is running its event loop, not the flush loop of ~Node.
InLoop(r) == ~leaving[r] /\ pc[r] \in ReadLabels \cup FlushLabels

\* Node r has set readerCAS of its writer w to ON and not back yet.
IsOn(w, r) ==
  \/ InLoop(r)
  \/ pc[r] \in {"ctorRead", "ctorCAS"} /\ w \notin todo[r]
  \/ pc[r] = "dtorCAS" /\ w \in todo[r]
  \/ pc[r] = "dtorRead" /\ w \in todo[r] /\ ~IsFirst(w, todo[r])

\* Node r has declared itself a reader of w.
IsActive(w, r) ==
  IsOn(w, r) \/ Visit(r, w, "ctorCAS") \/ Visit(r, w, "dtorRead")

\* Node w has set readerCAS of its reader r to OFF and not back yet.
IsOff(w, r) ==
  \/ Visit(w, r, "failing") \/ Visit(w, r, "failRelease")
  \/ Visit(w, r, "dtorUnlock") \/ Visit(w, r, "dtorRelease")

\* The last loop of ~Node has given up the lock of w on r.
Unlocking == {"dtorWrite", "dtorLocked", "dtorTake", "dtorUnlock", "dtorRelease"}
GaveUp(w, r) ==
  \/ pc[w] \in {"deactivate", "down", "ctorWrite"}
  \/ pc[w] \in Unlocking /\ r \notin todo[w]

\* What the position of a thread says about its own members.
Phase(n) ==
  /\ leaving[n] => pc[n] \notin ConstructLabels \cup ReadLabels
  /\ ~leaving[n] => pc[n] \in ConstructLabels \cup ReadLabels \cup FlushLabels
  /\ readNodes[n] # {} => /\ ~leaving[n]
                          /\ pc[n] \in {"read", "reading", "readCheck", "write",
                                        "writing", "unlock"}
  /\ pc[n] \in {"read", "reading"} => readNodes[n] \cap todo[n] = {}
  /\ pc[n] = "readCheck" => \A w \in readNodes[n] \cap todo[n] : IsFirst(w, todo[n])
  /\ writeNodes[n] # {} => pc[n] \in {"write", "writing", "unlock", "lock"}
  /\ pc[n] \in {"write", "writing"} => writeNodes[n] \cap todo[n] = {}

PhaseInv == \A n \in Nodes : Phase(n)

\* Which thread has which word of <<w, r>> in which state.
PairLock(w, r) ==
  LET p == <<w, r>> IN
  /\ readerCAS[p] = "ON" <=> IsOn(w, r)
  /\ readerCAS[p] = "OFF" <=> IsOff(w, r)
  /\ isReaderActive[p] <=> IsActive(w, r)
  /\ ReaderHolds(w, r) => isWriteLocked[p]
  /\ Writing(w, r) \/ GaveUp(w, r) => ~isWriteLocked[p]

LockInv == \A w \in Nodes : \A r \in Peers(w) : PairLock(w, r)

\* The flags in the locked part tell who has used it last.
PairDelivered(w, r) ==
  LET rw == readWriteLocked[<<w, r>>] IN
  /\ ReaderHolds(w, r) => rw.delivered
  /\ isWriteLocked[<<w, r>>] /\ ~ReaderHolds(w, r) => ~rw.delivered
  /\ r \in writeNodes[w] => ~rw.delivered
  /\ rw.undelivered # << >> => rw.delivered

DeliveredInv == \A w \in Nodes : \A r \in Peers(w) : PairDelivered(w, r)

Inv == TypeOK /\ PhaseInv /\ LockInv /\ DeliveredInv

\* Events the writer has handed over and the reader has not taken yet.
InFlight(p) ==
  LET events == readWriteLocked[p].chain IN
  IF ~readWriteLocked[p].delivered THEN events
  ELSE IF Visit(p[2], p[1], "reading")
    THEN SubSeq(events, cursor[p[2]], Len(events))
  ELSE << >>

IsPending(p, e) == fate[p][e] = "pending"

\* Events of a pair reach the reader in the order they were pushed: one that is
\* delivered has overtaken none but those the reader turned down.
NoOvertaking ==
  \A p \in Pairs : \A f \in DOMAIN fate[p] : \A e \in 1 .. f - 1 :
    fate[p][f] = "delivered" /\ IsPending(p, e)
      => e \in Pending(readWriteLocked[p].undelivered)

SourceGone(p, e) ==
  LET w == p[1] IN
  born[p][e] # starts[w] \/ leaving[w] \/ pc[w] = "down"

\* No event is lost or duplicated: an event is pending exactly as long as one
\* chain of its pair holds it, and no other place does; one that disappears
\* without its destination or its source hearing of it was pushed by a node that
\* has been destroyed.
EventsAccounted ==
  \A p \in Pairs :
    LET held == readWriteLocked[p].undelivered \o InFlight(p) \o writeCache[p].chain
    IN /\ Pending(held) = {e \in DOMAIN fate[p] : IsPending(p, e)}
       /\ \A i, j \in DOMAIN held : held[i] = held[j] => i = j
       /\ \A e \in DOMAIN fate[p] : fate[p][e] = "discarded" => SourceGone(p, e)

\* A signal is never lost: while writeCache holds an event or a request to
\* look for undelivered events, writeSignal is set, or write() is about to run.
SignalKept ==
  \A p \in Pairs :
    writeCache[p].chain # << >> \/ writeCache[p].check
      => p[2] \in writeSignal[p[1]] \/ Visit(p[1], p[2], "writing")

\* What ~Node leaves behind lets the peers go on and the node come back: nothing
\* cached, no lock, no role as a reader or a writer.
CleanWhenDown ==
  \A p \in Pairs :
    /\ At(p[1], "down") => /\ ~isWriteLocked[p] /\ ~isWriterActive[p]
                           /\ writeCache[p].chain = << >> /\ ~writeCache[p].check
    /\ At(p[2], "down") => ~isReaderActive[p] /\ readerCAS[p] # "ON"

\* Event e is under way and an actor waits to hear of it.
Owed(p, e) == e \in DOMAIN fate[p] /\ IsPending(p, e) /\ ~SourceGone(p, e)

\* Every event is eventually delivered, returned to its source or outlived by
\* the node that pushed it.
EventsSettle ==
  \A p \in Pairs : \A e \in 1 .. MaxEvents[p] : Owed(p, e) ~> ~Owed(p, e)

\* No constructor spins forever on readerCAS, even when its peers are being
\* constructed or destroyed at the same time, and the destructor comes to its end:
\* a writer that waits for the lock gets it back from the reader, or takes it from
\* one that is gone (ForEachDestructorWriteOperator).
NodesComeAndGo ==
  \A n \in Nodes :
    /\ pc[n] \in {"ctorWrite", "ctorRead", "ctorCAS"} ~> pc[n] = "run"
    /\ leaving[n] ~> pc[n] = "down"

-----------------------------------------------------------------------------
(* The abstract channel of a pair.                                         *)

Channel(p) == INSTANCE EventChannel WITH
  queue    <- InFlight(p) \o writeCache[p].chain,
  rejected <- readWriteLocked[p].undelivered,
  fate     <- fate[p],
  orphans  <- {e \in DOMAIN fate[p] : SourceGone(p, e)}

\* For every pair of nodes the lock-free exchange implements the channel.
ImplementsChannel ==
  /\ \A p \in Pairs : Channel(p)!ChanInit
  /\ [][\A p \in Pairs : [Channel(p)!ChanNext]_(Channel(p)!chanVars)]_vars
=============================================================================
