# Simplx: a verification project

Simplx is a C++ framework for actors. Each CPU core runs one event loop (a
*node*), actors live on one node for all of their life, and two actors talk by
events only. Within a node an event is a local chain element; between nodes it
travels through a block of memory that one thread writes and another reads,
without any mutex. Everything else in the framework (services, timers, TCP,
HTTP) is built from actors and events.

The project has TLA+ modules of the parts that hold the framework's logic, TLC
runs that check them on small instances, and TLAPS proofs: about the lock-free
exchange on which the rest stands and the events it carries, the life of actors, the stop of
the engine, the parts of a node, the bus and the buffer of the connectors.

## Inventory

| Component | State | Operations | Talks to | Hard behaviour | Module |
|---|---|---|---|---|---|
| Node exchange (`internal/parallel.h`, `internal/node.h`, `node.cpp`) | per ordered pair of nodes: `isWriterActive`, `isReaderActive`, `isWriteLocked`, the CAS word, the write cache, the locked block; per node: signals, lists of nodes | construct, `synchronize` (read, write, unlock, lock, write-failed), push, `returnToSender`, destroy | the actors' handlers, the event loop | threads interleave on four words per pair, nodes start and stop in any order, events handed over to a reader that dies | `NodeSync` |
| Event pages, batches, pipes (`WriteCache` in `node.h`, `Event::Batch` and `Event::BufferedPipe` in `actor.h`) | pages in use, free, with the reader; `batchId`; buffered events | allocate, push, hand over, recycle, amend | the node exchange recycles pages | an event amended or handed over after its page went | `EventPages` |
| Actor life cycle (`actor.cpp`, `actor.h`) | reference counts, chains of actors, event tables, ids | new actor, reference, unreference, destroy request, destruction pass | event loop, services | requests made from inside the destruction they cause | `ActorLifecycle` |
| Handlers (`EventTable`) | sparse arrays of handlers, the chain of actors to tell of unreachable nodes | register, unregister, find | event loop | arrays that grow, with holes | `HandlerTable` |
| Callbacks (`Actor::Callback`) | two chains per node, the chain of a round | register, unregister, call | event loop | callbacks that change the chain that is being called | `Callbacks` |
| Memory of a node (`AsyncNodeAllocator`) | chains of free blocks, pages | allocate, deallocate | actors, event tables | a page cut into blocks of several sizes | `NodeAllocator` |
| Engine (`engine.cpp`, `engine.h`) | core actors, service list, `shutdownFlag`, `interruptFlag`, count of cores | start sequence, `newCore`, `isRunning`, shutdown, service destruction in reverse | every node | stop racing start, services used while being destroyed | `EngineShutdown` |
| Thread handshake (`AsyncNode::Thread`) | `inThreadFlag`, `runFlag`, `inThreadNode` | construct, run, join | engine | spins on both sides, exceptions on both sides | `ThreadStart` |
| Timer (`pattern/timer`) | one request per client core, chains of proxies | set, unset, time out | event loop callbacks | a late answer meets a new request; memory runs out | `Timer` |
| Cross-thread bus (`pattern/bus`) | ring buffer indices, send buffer, read buffer | publish, read | a thread outside the engine | wrap-around, full and empty, ownership | `RingBuffer`, `BusChannel` |
| TCP connector (`connector/tcp`) | client and server members, five queues and tables of the network service, the kernel's sockets | connect, listen, accept, send, read, disconnect, destroy | kernel, event loop callbacks | partial sends, edges of epoll, a descriptor that is given out again | `TcpNetwork` |
| Buffers and framing of the TCP connector | circular buffer, fragment of a message | write, read, shift; cut a stream into messages | sockets | data that wrap, full and empty alike, reads cut anywhere | `CircularBuffer`, `Receiver` |
| HTTP server connector (`connector/http`) | parser state, header, body | receive, complete, refuse | TCP server | requests in pieces | `Http` |
| Chains (`mforwardchain.h`, `mdoublechain.h`) | links in the items, heads, tails | push, pop, insert, remove, splice, swap | everything | stale links and tails | `ForwardChain`, `DoubleChain` |
| Registry, keyboard actor, wait condition (`pattern`) | a map, a list, one condition variable | | | | not modelled |
| Serial buffers, property trees, platform layer, cluster stub | | | | plumbing | not modelled |

What makes each correct: the exchange loses, duplicates and reorders nothing and
never lets two threads into one block; a page is not reused while somebody may
still look at an event in it; an actor that is referenced is not destroyed, and one
whose destruction was accepted is destroyed once; a handler that is registered is
found, a callback is called in the next round and not after it was
unregistered; the engine stops when every actor is gone and only then; a
timer is never forgotten; the bus is a queue; the TCP buffer is a queue of bytes;
whatever waits in the network has a callback that comes for it; a stream of
bytes comes out as the messages that went in.

How they meet: a node's loop (`EngineShutdown` has its outline) calls
`synchronize` of `NodeSync`, which delivers events to the handlers that
`HandlerTable` finds, then makes the calls of `Callbacks`, then the destruction
pass of `ActorLifecycle`. The events of `NodeSync` lie in the pages of `EventPages`,
linked by `ForwardChain`; actors, references and callbacks are linked by
`DoubleChain`. `Timer` and `TcpNetwork` are services driven by callbacks;
`Receiver` and `Http` stand on what `TcpNetwork` reads, and `CircularBuffer` under
what it sends. `BusChannel` stands on `RingBuffer`.

## Modules, properties and runs

### NodeSync and EventChannel: the exchange between nodes

`NodeSync` models `Parallel<>` and its `Node` (parallel.h) together with what
`AsyncNodesHandle` (node.h, node.cpp) puts into its hooks. Every ordered pair
`<<w, r>>` of different nodes has one shared block, written by `w` and read by
`r`.

| Model | Code |
|---|---|
| `isWriterActive`, `isReaderActive`, `isWriteLocked` | the flags of `ReaderSharedHandle`, `WriterSharedHandle` and `Shared`, each on its own cache line |
| `readerCAS` | `concurrent_cl.readerCAS`: ON, OFF, IDLE |
| `writeCache[p]` | `Shared::WriteCache`: the chain of pushed events and `checkUndeliveredEventsFlag` |
| `readWriteLocked[p]` | `Shared::ReadWriteLocked`: `deliveredEventsFlag`, `checkUndeliveredEventsFlag`, `toBeDeliveredEventChain`, `undeliveredEventChain` |
| `writeSignal`, `writeActivity`, `readNodes`, `writeNodes`, `checkWriteFailed` | the members of `Node` of these names |
| `pc`, `todo`, `cursor` | where the thread is: function, remaining peers of the loop, position in the chain being read |
| `born`, `fate`, `starts` | history: which incarnation pushed an event, and what became of it |

One step is one access to a word that another thread uses, with the private work
around it. The order of accesses is the code's; the loops over peers run in the
code's order (`foreachRead` and `foreachWrite` upwards, the lists of
`synchronizePostBarrier` from the last). Reading a chain is one step per event,
because a handler runs for each and may push. A handler of an event returned to
its source may push as well (`MayPush`), even to the node that failed.

Memory is sequentially consistent in the model. The code separates the accesses
with `memoryBarrier()`, a full fence, between `synchronizePreBarrier` and
`synchronizePostBarrier`, and the CAS is a full fence too; within a phase the
threads touch different cache lines. A relaxed-memory model of the words is not
attempted.

A node starts, runs and is destroyed, and may be constructed again, at most
`MaxStarts[n]` times; at most `MaxEvents[p]` events are pushed on a pair. The two
bounds are only there for TLC: the theorems hold for all values.

`EventChannel` is the promise made to actors: a queue from which the receiver
takes the oldest event, keeps it or rejects it, and a way back to the sender.
`ImplementsChannel` maps the queue to what is in flight in the locked block
followed by the write cache.

* `Inv` - the inductive invariant: types, which phase a node is in and which of
  its words are set there (`PhaseInv`), who holds a locked block (`LockInv`), and
  what the delivered flag says about it (`DeliveredInv`).
* `ExclusiveAccess` - no thread uses the locked part of a block while the other
  does.
* `Asserts` - the asserts of parallel.h, `read()` and `writeFailed()` hold.
* `EventsAccounted` - an event is pending exactly as long as one chain holds it,
  and one that vanishes unheard of was pushed by a node that is gone.
* `NoOvertaking` - first in, first out, but for events that were turned down.
* `SignalKept` - what waits in a cache has a signal.
* `CleanWhenDown` - a destroyed node leaves nothing that blocks its peers or its
  next incarnation.
* `ImplementsChannel` - refinement of `EventChannel`.
* `EventsSettle`, `NodesComeAndGo` - liveness: events are settled, no constructor
  and no destructor spins forever.

Run `nodesync`: two nodes, one of them destroyed and constructed again, with two
events from it to its peer. A block has one writer and one reader, so two nodes
have every conflict on a block; one restart reaches a block with words left behind
by the earlier incarnation; two events are needed for order. What a thread does
between the blocks of two peers is covered by the proofs of `Inv`, which hold for any
number of nodes. Deadlock checking is off: all nodes may have been destroyed
for good.

Fairness (`FairSpec`): weak fairness of `NodeStep`, per thread. An event loop calls
`synchronize` forever (`EngineEventLoop::run`), spins are busy waits and the
handlers are assumed to return, so a thread that can go on does. Nothing is
assumed about pushes, starts, stops and `returnToSender`.

### ActorLifecycle: actors of one node

One thread, and user code that calls back: a step is one call of an `Actor` or
`ActorReference` function, or one stage of `synchronizeDestroyAsyncActors()`.
`chain` is the pointer of each actor and `asyncActorChain`,
`destroyedActorChain`, `tmp` are the chains, so that the two can disagree;
`refs` has for every `ActorReference` object the actor that holds it, the actor
whose chain it is in, the one it refers to and `m_ShouldDestroyFlag`; `ctors` is the
stack of constructors under way; `eventTable` and `freeEventTable` are the tables
that ids point into. `m_ActorCount` is the number of actors that are alive and is not
kept. `Habits` says which of the riskier things user code does: keep references
outside of actors, copy them to other actors, defer its destruction, take references
in `onDestroyRequest()`, throw from a constructor. Destructors that create or
reference actors are left out.

* `NoDangling` - a reference refers to an actor that is alive.
* `ChainsAgree` - an actor is in one chain, the one its pointer names (the
  temporary chain of the pass included).
* `RequestKept` - a destroy request is still to be served, or was.
* `NoCircularReference` - references taken by `newReferencedActor`,
  `referenceLocalActor` and singletons form no circle.
* `DestructorAsserts` - the asserts of `~Actor()`.
* `IdsLeadHome` - an id leads to its own actor or to none, never to another.
* `NodeStops` - a node that was told to stop does.

| Run | Instance | Shows |
|---|---|---|
| `lifecycle` | 2 actors, 3 references, every habit but throwing | the safety of references and chains |
| `lifecycle_live` | 3 actors, 1 reference, no habits | ids that lead home with tables used again, and `NodeStops` |
| `lifecycle_throw` | 2 actors | violated: an assert of `~Actor()` fails after a constructor that requested its destruction throws |

Two actors and three references have every pair of holder and referred actor, and
a reference too many; the third actor adds tables that are used again. Fairness:
the loop goes on, `onDestroyRequest()` accepts in the end, constructors return, and an
actor that is being deleted destroys its members. Deadlock checking is off, since a
node that ended takes no more steps.

Observed while modelling, and not kept as runs:

* An actor made by `newReferencedActor()` asks for its destruction when the
  creator's reference goes and is the last one (actor.h:227). If a reference of
  `referenceLocalActor()` goes later, nothing asks, and the actor stays until the
  node is stopped.
* An actor that accepts in `onDestroyRequest()` while somebody took a reference
  to it inside that very call goes back to the chain of live actors
  (node.h:1082), and its acceptance is forgotten.
* The check for circles is made when a reference is taken from an actor; a copy
  of a reference (actor.h:149) given to another actor escapes it.

### EngineShutdown: cores and services

The thread of the `Engine` and one thread per core. An actor is in the set
`alive` and, when its destruction was requested, in `requested`; what
ActorLifecycle has in detail is one step here: the node asks, the actor accepts
and is deleted, the listener of the `CoreActor` looks at what is left, and the
last actor stops the node. `DestroyEvent(s)`, `Core(c)` and `Singleton(c)` are
the actors the engine adds; `pending` holds the `ServiceDestroyEvent`s under way
(their delivery is what NodeSync is about). Each access of a thread to a flag or
counter of another is a step of its own: the two loops of
`AsyncNodeManager::shutdown()`, the two halves of `isRunning()`, the counting in
and out of cores, the waits of `~Parallel()`.

Left out: exceptions other than those of constructors of the start sequence,
custom event loops and core actors, the service index, red zones.

* `ServicesLast` - unless the start failed, a service is destroyed when no regular
  actor is left on any core.
* `ReverseOrder` - services are destroyed in reverse order of declaration.
* `EngineAsserts` - the asserts of engine.cpp and engine.h, and no actor or event
  outlives its node.
* `CountRight` - `regularActorsCoreCount` counts what it should.
* `EngineStops` - `~Engine()` returns, unless the start failed.
* `FailedStartThrows` - what the documentation of the constructor says; it does
  not hold.

| Run | Instance | Shows |
|---|---|---|
| `engine_stop` | 2 cores with a service each, a third to spare, one regular actor created anywhere or by `newCore()` at any time, starters that may throw | order, count and asserts over every interleaving of start and shutdown |
| `engine_live` | 2 cores, 2 services on one, a regular actor on the other, one new actor, starters that may throw | `EngineStops` |
| `engine_failed_start` | 2 cores, a service on each side of a regular actor whose constructor may throw | violated: the constructor of `Engine` hangs |

Two cores and two services have a count that another thread brings down, an event
between cores, and an event on the core itself; the third core is the one that
`newCore()` starts. Fairness: each round of a loop
asks all whose destruction was requested, makes the callbacks and delivers the
events, and user code returns; since a round passes through `isRunning()` and user code may
call `newCore()` in it, this is strong fairness. Deadlock checking is off: an
engine that ended takes no more steps.

Observed while modelling, and not kept as runs:

* After a start that failed, the last service may be destroyed while regular
  actors live: the cores have no `CoreActor` yet, so nothing makes the service
  wait. `ServicesLast` therefore excludes a failed start.
* `newCore()` called during the shutdown (engine.cpp:616-626) can start a node
  whose index `~Parallel()` has already passed (parallel.h:227), so that its
  thread outlives the node manager. Neither code nor documentation says that
  `newCore()` may not be called then.

### The parts of a node: run `node_parts`

Six modules model what a node consists of besides its actors. They have no
variable in common, so that a product of them would only multiply states:
`MCNodeParts` lets a behaviour be one of the part that `focus` names, while the others
rest in one of their initial states. Every part is explored in full, with its own
constants. No fairness is assumed. Deadlock checking is off: a thread that
ended, a full set of timers or an exhausted bound may leave nothing to do.

**EventPages** has the memory of the events from one node to one node, or, with
`local`, from a node to itself: three chains of pages, the offset in the first,
`batchId` with its increment, and what users hold on to: the event they pushed last
with its `Batch`, and the chain of a `BufferedPipe`. An event is a range of bytes.
Allocation, pushes that fail before or after a page was taken, `commit`,
hand-over, recycling after delivery and after `writeFailed()`, amendment through a
batch, pushes to and flushes of a buffered pipe, and the clearing of its chain when
the batch moved on are actions. `EventsKeepTheirMemory`: no event is written over
while the reader, the cache, a `Batch` or a `BufferedPipe` needs it, and an event that its batch
says may be amended has not been handed over. Bounds: pages of two units, two events
not handed over, a batch number and a page index that wrap or end (their bounds stand for
2^64 and 2^32).

`writeFailed()` frees the pages without a new batch number (node.cpp:332). A `Batch` taken
before goes on to say that nothing was committed, and a `BufferedPipe` hands over a chain that
lies in pages which are free, although actor.h:2702 says that under batch control access to an event
is safe. `HoldsAtFailure` says whether a batch or a pipe may be in use at that moment. It is
`FALSE` in the run; with `TRUE` `EventsKeepTheirMemory` fails.

Seen while modelling: handlers of returned events may push into the cache that is being recycled
(node.cpp:342) and take its pages. `BufferedPipe::flush()` sets no write signal (actor.h:3037):
its events have that of their allocation, and when a `write()` with nothing to deliver has taken
that, they wait for the next event to the same node.
The assertion at actor.h:2976 does not expect a pipe whose
`setDestinationActorId()` was called with events buffered.

**HandlerTable** has the event table of an actor: the array for high frequency,
the growing arrays for the rest and for undelivered events, in which an
unregistered handler leaves a hole, and the chain of actors that hear of unreachable
nodes. `HandlersFound`: after any sequence of registrations an event reaches the
handler registered last, and none that was unregistered. `UnreachableTold`: an actor with
pipes out of the process and handlers of undelivered events is in the chain, one
without such handlers is not. `Careful` excludes unregistering what is not registered;
debug builds assert it. In release builds unregistering a handler of
undelivered events twice counts it out twice (actor.cpp:587), after which the actor is no
longer told although it has handlers left. Three events, one place of high frequency and
arrays that grow by two have every transition between the arrays.

**Callbacks** has the two chains of registered callbacks, and the temporary one of the
round under way, from which user code may unregister others, to which it may not add,
and in which a callback of a destroyed actor is skipped. `CallbacksInOnePlace`: a
callback is in the chain it knows of and in no other; what is registered during a round
is called in the next.

**NodeAllocator** has the free blocks by the power of two and the pages they were cut from.
`MemoryDisjoint`: free and allocated blocks fill the pages exactly, without overlap, and
what is allocated is as long as was asked for. The sizes include powers of two, others, and
one that takes more than a page of the system.

**ThreadStart** has the constructor of `AsyncNode::Thread`, `run()`, the destructor and the
thread, step by step on their flags, with affinity and priority calls that may throw in
the thread and nodes that the creator fails to build. `NobodyLeftBehind`: the thread never
uses an object that is gone, neither side waits for a flag nobody will set, and a node
that was given is run. The flags are plain `bool` with memory barriers around the
writes, modelled as seen in order. A failing `threadSetRealTime()` after the start
ends the process (`exit(-2)`) and is not a step.

**Timer** has `TimerProxy` objects, the singleton handler of each core
and `TimerActor`. A `GetEvent` asks for the time now or after a duration, a `TimeOutEvent`
answers, and either push may meet a lack of memory on one of the cores, upon which a
callback tries again. `onTimeout()` is user code that sets and unsets proxies in the middle of
the handler. `TimersCovered`: a timer that is set is never forgotten; the last request made
for its core, or an answer under way, comes no later than the timer is due, and the
service has a callback as long as a request waits. Two timers on one core, or one on a core
without memory; a clock of three ticks and one event in flight per direction.

Seen while modelling: the service stores requests by the index of the core of the
source (timeractor.cpp:32), while timerevent.h speaks of one request per source actor id,
so that an actor other than the proxies' handler that sends its own `GetEvent`
replaces their request. A `TimeOutEvent` under way when `set()` is called may
make a timer start early by as long as the event took. The clock is taken never to go back.
Undelivered `GetEvent`s and routed events are not modelled.

### What carries data: run `transports`

`MCTransports` has the containers and the connectors in the same manner: parts without
common state, of which a behaviour exercises one. Of the threads, only the reader of the bus is
taken to be fair, as it polls (`WF` of its steps); nothing is asked of the publisher. Deadlock checking is off: a
stream that has been received leaves nothing to do.

**RingBuffer, BusQueue, BusChannel.** `RingBuffer` is `xthreadbus::ringbuffer`: a
publishing thread stores `write_index`, a reading thread stores `read_index`. A call
is a step that loads the two indices and decides, one step per slot copied, and a step
that stores the caller's index; `items`, `written`, `wanted` and `output` are the
locals of the call under way. `BusQueue` is what it promises: a bounded queue that
inputs join at once and in order. `BusChannel` puts `Channel::Publisher` and
`Channel::Subscriber` on top: `m_sendBuffer` holds what did not fit, `m_readBuffer`
what was dequeued and is still to be dispatched and deleted, and `live` is
history, the pointers that the channel owns. The stores of the indices release
what the loads acquire, and no other word is shared, so steps in sequence are what
the C++ memory model gives for them.

* `NoRace` - the threads never use one slot at the same time.
* `ImplementsQueue` - refinement of `BusQueue`.
* `EachOnce` - a pointer the channel owns is in exactly one place, so it is neither
  deleted twice nor lost.
* `RingDrains` - what is in the ring is read.
* `SendsUntilFull` - what the comment on `publishAll()` says; the run
  `bus_publish_all` shows that it does not hold.

A ring of two elements has three slots: every position of the two indices, inputs
that wrap, that fit exactly and that are too long. Three pointers are one more
than the ring holds.

**CircularBuffer, ByteQueue.** The buffer under `Sender` and `Receiver`, index by
index: writes that go around the end, reads that copy and reads that find their copy
fresh, shifts that go around, clearing. `ImplementsByteQueue`: it is a queue of
bytes, full and empty are told apart, and what `readData()` handed out is the content.
Capacity four with three values has every position of both indices.

**Receiver.** `onDataReceived()` and `processData()`, one message per step: what is incomplete
stays in the buffer, what does not fit is dropped as overflow, and a message may be left for
a later call. `FramesRight`: where headers have one byte and the buffer has room for a
message and one read, the client is given the messages that were sent, whole, once and in
order, however the reads cut the stream. The run `tcp_split_header` shows that headers of two
bytes do not have this property. What is assumed of a connection (`ReceiverAssumption`): the least header fits the buffer, and the
callbacks `getHeaderSize()` and `getDataSize()`, which look at the bytes of a header only, answer with a size that fits it and with a natural
number. The streams of the runs (`MCReceiver`) have up to four
messages, and malformed ones: no header, no data, too long by one or by more.

**TcpNetwork.** The five callbacks of the `Network` service (connect, pending connections, send,
epoll and read, listen) with their queues and tables, the `TcpClient` and `TcpServer`
actors that call it, the processes a server creates, and the kernel (external). A
callback takes one step per element, event or read, with user code in between, which
may call anything; the kernel gives the lowest free descriptor. `Faults` lists what may fail and
what users may do: in the run, failing `socket`, `connect`, `accept` and `epoll_ctl`, a
connection made at once and partial sends.

* `SocketsAgree` - network, actors and kernel agree on who has which socket.
* `Served` - whatever waits has a callback that comes for it; data that has come for a
  client that reads by itself is seen by epoll or is queued to be read; bytes to be sent
  are queued.

Two clients together, or one server with one process, on two descriptors: a
descriptor is given out again while others are in queues.

Three habits of users are in the module and not in the run, as the code does not stand them:

* `giveUp` - a client that disconnects or is destroyed while its connection is pending
  leaves its socket in the tables; `SocketsAgree` fails.
* `again` - a client whose bytes were not all sent and that connects anew has bytes
  that are in no queue; `Served` fails.
* `listenTwice` - a server that stops listening while it is in the queue and listens again is
  queued twice.

Seen while modelling: `Callback::unregister()` at network.hpp:947 does not reset `m_isRegisteredFlag`,
so that a callback that is unregistered and wanted again is not registered
(`NothingForgotten`, which does not hold; `Served` leaves those callbacks out). When the send
callback reaches `_MaxSendPerLoop` it leaves sockets in the queue and is not registered again,
although it is to send "any remaining data at next loop iteration" (network.hpp:909): `MaxSendPerLoop`
is larger in the run than what can be queued, and with a smaller one `Served` fails. A peer's orderly close is not acted on when a read returns nothing (network.hpp:330). A
read that would block puts the socket back into the read queue (network.hpp:350). `send()` returning
-1 reaches `shiftBuffer()` as the largest size, which clears the buffer. `clearSenderBuffer()` leaves the
client in the queue. A failing `setSocketBlocking()` and `directSend()` with its
blocking form, which sends a part again (network.hpp:253), are not modelled.

**Http.** `HttpServerProcess::onDataReceived()` and what ends a process. A byte is one of the line's end, a
whole Content-Length field, or another. `RequestsAnswered`: a request that has arrived is handed over
once and in turn, whatever pieces it came in and whatever came before; its header is complete. The run `http_body`
shows that a body is handed over one byte early (`RequestsWhole`). `Scan` is the loop over `m_state`; a byte that
does not continue the end of the header sends it back to the beginning and is not looked at again. `HttpAssumption`
therefore asks of a request that it contains no empty line and does not hide the one that ends it, as a request that ends in a single CR
does: those are never found. A request is sent when the
one before was handed over; pipelined requests are lost. Seen while modelling: a CR alone in front
of the empty line keeps it from being recognised, and the limit of the header is only checked while
the header is not complete in the piece. The choice of a handler by method and path, and the sending of
documents, are not modelled.

**ForwardChain, DoubleChain, ChainPair.** The intrusive chains, link by link, in a
debug build: an item in no chain links to itself. `ChainPair` is what they promise, a pair of
sequences that share no item. `ImplementsSequences`, `ImplementsSequencesBothWays`: links and tails
left over from before never show, iteration meets the sequence from both ends, and an item outside can
always be put in. Items are finitely many, as memory is, so that a loop over a chain ends. Three items and two chains: spliced,
emptied and filled again.

| Run | Expect | Shows |
|---|---|---|
| `node_parts` | pass | the six parts of a node |
| `transports` | pass | the bus, the connectors and the chains |
| `bus_publish_all` | violation | publishAll() sends nothing where there is room for a part |
| `tcp_split_header` | violation | a header of two bytes cut by a read loses its first |
| `http_body` | violation | a body is complete one byte early |

## Proofs

A module of proofs extends the module it is about, and `ChainProofs`. Each theorem holds for every
value of the constants under the assumption that the module states of them, and none takes fairness.

| Module | Proves | Under |
|---|---|---|
| `NodeSyncProofs` | `TypeOK`, `Inv`, `ExclusiveAccess`, `Asserts`, `SignalKept`, `CleanWhenDown`, `ImplementsChannel`, `EventsAccounted`, `NoOvertaking` | `NodeSync`'s: `Size` natural, `MaxStarts` and `MaxEvents` functions to naturals |
| `ActorLifecycleProofs` | `TypeOK`, `NoDangling`, `ChainsAgree`, `RequestKept`, `IdsLeadHome`, `NoCircularReference`, `DestructorAsserts`, `EndedEmpty` | `NoThrow` |
| `EngineShutdownProofs` | `EngineAsserts`, `CountRight`, `ServicesLast`, `ReverseOrder` | `EngineAssumption` |
| `NodePartsProofs` | `NobodyLeftBehind`, `CallbacksInOnePlace`, `HandlersFound`, `TimersCovered`, `UnreachableTold`, `EventsKeepTheirMemory` | the last two: `Careful`, `~HoldsAtFailure` |
| | `MemoryDisjoint` | `AllocatorAssumption`: of the sizes asked for one is the largest |
| `TransportProofs` | `NoRace`, `ImplementsQueue`, `EachOnce` | `SizeAssumption`: room for at least one |
| | `FramesRight` | `ReceiverAssumption`; framing where headers have one byte, as the property says |
| | `RequestsAnswered` | `HttpAssumption` |
| `ConnectorProofs` | `CircularInv`, `ImplementsByteQueue` | `CapacityAssumption` |
| | `SocketsAgree`, `Served` | `TcpAssumption`, `Careful`; `Served` also `MaxSendPerLoop > MaxFd * Units` |
| `LinkedChainProofs` | `ImplementsSequences`, `ImplementsSequencesBothWays` | `ForwardAssumption`, `DoubleAssumption`: items are finitely many |

**The exchange, its words** (`NodeSyncProofs`). `ExclusiveAccess` is not inductive by itself. The words of a pair are written by
two threads, and whether a state of the words is safe depends on where both are:
`PhaseInv` says which words of its own a node has set in each phase, `LockInv`
gives every locked block a thread that holds it and excludes the other one,
including the windows in which a reader is neither on nor off (its CAS word is
IDLE and `isReaderActive` still set) and those in which a writer takes the block
back from a reader that is gone; `DeliveredInv` says that the delivered flag is
only set between the hand-over and the next write. The proof has one lemma per
action and, below it, one step per kind of pair: pairs the node writes, pairs it
reads, and pairs it has nothing to do with.

**Signals** (`NodeSyncProofs`). `SignalKept` alone is not inductive, since the constructor of a node resets its
signals: `SignalInv` adds that from the last loop of `~Node` to the end of the next
construction there are none, which holds because the flush loop before it ends with
`writeSignal.any()` false, and which readers a node has resigned from.

**Events** (`NodeSyncProofs`). Here the abstract specification carries the proof. `Accounted` is what a
channel keeps true of its queue, its way back and the fates of its events, whatever implements it: each
event is in one place and only if it is pending, what is in the queue is in order. `ChannelStep` proves
that once, on sequences. What is left is that each step of
the exchange is a step of the channel or none, and that is where the code's own reasons are needed:
`ReadInv`, that what a reader has behind it was delivered or turned down; `LeftInv`, that a block that nobody has locked
and nobody has read was left by a node that is gone, so that taking it back loses events of the dead
only; `BornInv`, that no event is older than its node; `CursorInv`, where in the chain the reader is.
A step is looked at from a pair: its writer's, its reader's, or that of a third node, which leaves the
pair alone (`ElsewhereEvents`). `EventsAccounted` and `NoOvertaking` then follow from `Accounted`.

**Actors** (`ActorLifecycleProofs`). `LifecycleInv` has a part for each thing that the calls keep in step:
`PlaceInv` (where the loop is, and that the actor it deletes has accepted and is referred to by nobody),
`ChainInv` (an actor is in one chain, once, and the chain pointer says in which, but for those of the
local chain that have not been asked yet), `CtorInv` (an actor under construction is nobody's: never
asked, no singleton, its reference reserved), `NoDangling`, and `KeptInv` (a request
is known by the chain pointer, and one that is made while the actor decides outlives the decision).
`IdInv` adds that ids were never given twice and that free tables have none. `NoCircularReference` and
`EndedEmpty` are inductive given the rest. The counts of references are cardinalities,
and the steps that add or take one away cite the theorems on finite sets.
`NoThrow` excludes the habit of throwing from a constructor that asked for the destruction of its
actor: with it `NoDangling` is false, as run `lifecycle_throw` shows.

**The engine** (`EngineShutdownProofs`). `ReverseOrder` follows from `OrderInv`: a service that has been told,
is about to be told by an event under way, or has gone, has nobody after it that is alive or still
to be constructed. The rest needs `EngineInv`, of which TLC looked at each part before it was proved: `LoopInv` (a
thread is where its flags say, and a node that has ended is deserted), `NewCoreInv` (a core that
`newCore()` is starting is built, has one creator, and has a `CoreActor` that nobody can count
out yet), `StartInv` (what the start has and has not done), `PlaceInv` (a `DestroyEventActor` outlives
its service and a `ServiceSingletonActor` its services and its `CoreActor`), `ToldInv` (a
service is told once), `CoreInv` (a callback means a `CoreActor`
that was counted out, still has services and is not yet in its service time), `FlagInv` and
`RegularInv`. The last is why services go last: a regular actor keeps its core among those counted, so that a count of
zero means that there is none; it stays so as every `shutdownFlag` is set by then and
`newActor()` looks at it. `CountRight` is a cardinality: a core joins the counted when its
`CoreActor` is counted in, and no core that is asked is one that `newCore()` has still to count.

**Parts of a node** (`NodePartsProofs`). The handshake: which flag is up
where each side is; the thread has `inThreadFlag` set exactly while it spins or leaves, and
leaves only after `runFlag`. Callbacks: a callback is in one chain, once, and knows in which. Handlers: every id in use has a slot inside
the array (`RoomOf`), each event has one slot (`OneEach`), and each slot a handler that holds it (`Holding`), which
growing the array keeps (`ArrayGrows`). `UnreachableTold` needs the count of handlers of
undelivered events (`CountInv`), and `Careful`: user code unregisters only handlers that are
registered. The code does not look, and counts down all the same.

**Pages of events** (`NodePartsProofs`). `PageInv` says that every page there is is in one chain, once, so that the page
that the writer takes when its chains run out is new; `MemoryInv` places the events that were handed
over in the reader's pages and those of the node in the pages it uses, in the first of them below the offset of the next
allocation. Why a `Batch` or a pipe cannot outlive its pages is `BatchInv`: whoever keeps a batch number has asked for the batch to end, so that the
next write changes the number, and no number comes back before the largest, which no batch has. `writeFailed()`
recycles pages without that, hence `~HoldsAtFailure`.

**Memory of a node** (`NodePartsProofs`). `AllocatorInv` says that the free and the given out blocks are different
blocks which fill the pages: each is inside a page, no two have a byte in common, and together they have
all but the first unit (`FillPages`). To give a block out or take it back moves it from the chain of its
index to the allocations or the other way, so that the blocks are the same before and after. A new page is the hard
step: the loop that cuts it keeps what it has cut contiguous (`Tiled`), takes at least a unit
in each round, so that it ends with the page used up (`CutFills`), and its pieces never have a higher
index than the one asked for, so that each has a chain to go to. The powers of two are a recursive
function, and `Recursion` gives their values; what is needed of them is that they grow and that
`highestBit` finds the last that is not too large.

**Timers** (`NodePartsProofs`). `TimersCovered` speaks of a core whose handler rests, so the proof has to say what
holds in the middle of it: the timers that `onTimeout()` has set stand in front of the others, which is why the third
loop may stop at the first one that is started (`ProxyOf`), and `minRemainToTimeOut` is right for the started ones
(`RemainOf`). `NowOf` is the reason why `getTime()` may leave out a request for the time as of now: while the flag is
up, one is the last or has been answered. `LastAsked` follows a request from the callback that pushes it
again through the event to the service.

**The bus** (`TransportProofs`). `RingInv` is inductive because each thread's knowledge is one-sided: the
other thread can only add to the room a writer saw, and only add to the elements
a reader saw. The refinement maps the queue to the slots from `read_index` to
`write_index`; the lemmas about positions modulo the size of the ring carry it. `EachOnce` is about both
sides of the channel: `BusInv` says that send buffer, data being published, ring and read buffer
have no datum in common and no datum twice (`Apart`), that `publishAll` publishes its send
buffer and nothing else, and that a reader that wants more has an empty buffer.

**The buffer** (`ConnectorProofs`). `CircularInv` says that the write index follows from the read index and the size, and that a
copy which is fresh has the content. The rest is about the content as a sequence: a write
that goes around the end appends its data in two pieces, a shift that goes around takes off the
front (lemmas `Pieces` and `Rest`).

**The network** (`ConnectorProofs`). `SocketsAgree` is part of `NetInv`, which adds what keeps it: a socket is
the socket of one client (the tables are injective), a pending one is in the table, so that a descriptor
that the kernel gives out is in no table; a client that is connecting is in the queue or has
its socket in the table, and nobody who is leaving has one. Whatever the code does to end a socket, `disconnect()`,
a timeout, a loss, is one case of `Closing`: the sockets of some clients and servers go together with all that
tables and members say of them, and the rest stays. `Careful` excludes the three habits of users
that are not in the run either: a client that is given up while its connection is pending leaves an
entry in `m_connectionPending` that the next owner of the descriptor inherits.
`Served` needs `WaitInv`: what waits has its callback among those registered or is being served by the one under way
(`CallInv`), what is registered is in the chain unless it is `send` or `epoll`, the two that the
network takes out behind its own back (`RegInv`), and the send callback has more rounds left than there are things to send
(`SendsInv`: bytes when `send()` may take a part, otherwise sockets), for which the limit of one loop has to be large enough.

**The receiver** (`TransportProofs`). `FramesRight` speaks of the moments when no call of `processData()` is under way. `FramingInv`
says for the others where each byte is that was sent and not delivered: in the buffer, in the data that the loop
has still to look at, or in the socket; and that the data under way are exactly what the buffer has
behind the messages taken from it, or that the buffer is empty and all is in the piece just read. That makes the deferred shift of the buffer
safe, and `m_otherCompleteMessageFlag` right at the end. `BufferInv` are the limits, for any headers and any bytes. A header of one byte is
needed in one place: what is kept is never a part of a header.

**HTTP** (`TransportProofs`). A request is handed over when the count of its body is down, and the count begins with the final LF of the header:
the last byte of a body stays behind and becomes the first of the next header. `HttpInv` carries it along. While
the header is searched (`ReadsHeader`), what was collected and what is unread are such a leftover and the request as it was sent, and `m_state` is
what the loop gives for what was collected, in whatever pieces; while a body is counted (`ReadsBody`), the bytes to get are one less than the
bytes to come. That the loop meets the end of the header where it is, and not before, is `Scan` over the pieces put together.

**Linked chains** (`LinkedChainProofs`). `DoubleInv` and `ForwardInv` say that there are sequences, without doubles and with nothing in
common, that links, heads and tails stand for (`Holds`, `Lists`). In a double chain every link is determined by them; in a forward
chain neither the link of the last item is nor the tail of an empty chain, and what is in no chain links to itself. Each operation is one on sequences: an item is put at a place (`InsertAt`), or
taken from it, two sequences become one, or are swapped. The other direction is what the refinement needs, that the loop of an iterator meets exactly these sequences: its
path is exhibited and cannot differ from what the recursive definition gives (`Recursion`). `erase()` and
`insert()` take a position that an iterator has reached, which is a place of the sequence.

**Chains** (`ChainProofs`). What the operators on sequences do to the items of a chain and to each being in it
once; `Kept`, a recursive function, by induction. The library's theorems of induction take an operator, which the provers cannot
instantiate; `SetInduction`, for a set, follows from the least element of a set of naturals. `Recursion` is the same for definitions: a function that
is defined by recursion over the natural numbers, from a first value and a function for each step, has the values it asks for.

Every invariant, action property and refinement that a passing run checks is a theorem. What is only
model-checked is liveness (`NodesComeAndGo`, `EventsSettle`, `EngineStops`, `NodeStops`, `RingDrains`): the prover has
neither `ENABLED` nor fairness.

The runs that expect a violation have nothing to be proved.

## Not modelled

* `Registry` (`pattern/registry.h`), keyboard actor, wait condition: each operation is a call of a
  container or a condition variable. Seen on reading: a `RegisterEvent` for a key that nobody
  subscribed to throws `out_of_range` from `m_Subscribers.at()`; a second registration under a
  key keeps the first id; unsubscribing is empty; the keyboard actor never registers a handler of
  `KeyboardUnsubscribeEvent`; `wait_for()` of the wait condition has no predicate.
* `Parallel` beyond sequential consistency, see NodeSync.
* The cluster layer (`e2e_stub.cpp`, `route.h`, routed events, serial buffers): this edition has stubs.
* Property trees, streams, names of events, performance counters, traces: data without control.
* The platform layer: wrappers over system calls.
* Dispatch of bus data by type, the pair of channels in `xthreadbus.hpp`.
