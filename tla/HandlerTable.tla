---------------------------- MODULE HandlerTable ----------------------------
(***************************************************************************)
(* The handlers of an actor (EventTable in engine/internal/node.h, and the *)
(* operations of engine/actor.cpp on it): a few of high frequency in an    *)
(* array of fixed size, the rest and those of undelivered events in arrays *)
(* that grow, in which an unregistered handler leaves its entry.  An actor *)
(* with pipes to other processes and with handlers of undelivered events   *)
(* is in the chain of those to tell about unreachable nodes.               *)
(*                                                                         *)
(* The build is one without assertions.  An operation that runs out of     *)
(* memory does so before it has changed anything.                          *)
(***************************************************************************)
EXTENDS Integers, Sequences, FiniteSets, SequencesExt, FiniteSetsExt

CONSTANTS
  EventIds, Handlers,
  HighFrequency,  \* HIGH_FREQUENCY_CALLBACK_ARRAY_SIZE
  Alignment,      \* LOW_FREQUENCY_ARRAY_ALIGNEMENT
  MaxPipes,       \* bound: pipes to actors of other processes
  Careful         \* are only handlers unregistered that are registered?

NoEventId == "MAX_EVENT_ID_COUNT"
NoHandler == "0"

ASSUME HandlerAssumption ==
  /\ NoEventId \notin EventIds /\ NoHandler \notin Handlers
  /\ HighFrequency \in Nat /\ Alignment \in Nat /\ Alignment > 1 /\ MaxPipes \in Nat /\ Careful \in BOOLEAN

VARIABLES
  hfEvent, lfEvent, undeliveredEvent,  \* sequences of entries, without the one that ends them
  room,                                \* the entries allocated for the last two, 0 for no array
  undeliveredEventCount,
  processOutPipeCount, onUnreachableChain,
  asked                                \* the handlers that the actor has registered

tableVars   == <<hfEvent, lfEvent, undeliveredEvent, room, undeliveredEventCount>>
handlerVars == <<tableVars, processOutPipeCount, onUnreachableChain, asked>>

Entry(id, handler) == [eventId |-> id, eventHandler |-> handler]
Nobody == [e \in EventIds |-> NoHandler]

HandlerInit ==
  /\ hfEvent = [i \in 1 .. HighFrequency |-> Entry(NoEventId, NoHandler)]
  /\ lfEvent = << >> /\ undeliveredEvent = << >>
  /\ room = [lfEvent |-> 0, undeliveredEvent |-> 0] /\ undeliveredEventCount = 0
  /\ processOutPipeCount = 0 /\ onUnreachableChain = FALSE
  /\ asked = [lfEvent |-> Nobody, undeliveredEvent |-> Nobody]

-----------------------------------------------------------------------------

\* The places of an event in an array; the code takes the first.
Places(array, e) == {i \in DOMAIN array : array[i].eventId = e}

lfRegisteredEventArraySize(array) == Alignment * ((Len(array) + Alignment) \div Alignment)

isRegisteredLowPriorityEventHandler(array, e) == \E i \in Places(array, e) : array[i].eventHandler # NoHandler

isRegisteredEventHandler(e) ==
  Places(hfEvent, e) # {} \/ isRegisteredLowPriorityEventHandler(lfEvent, e)

\* The array with a handler, in the place that the event has or behind all others
WithHandler(array, e, h) ==
  IF Places(array, e) = {} THEN Append(array, Entry(e, h))
  ELSE [array EXCEPT ![Min(Places(array, e))] = Entry(e, h)]

\* Mutant of RoomFor: the entry that ends the array is forgotten.
RoomForOneLess(array, allocated, e) ==
  IF Places(array, e) # {} THEN allocated
  ELSE IF allocated = 0 THEN Alignment
  ELSE IF Len(array) + 1 > allocated THEN allocated + Alignment
  ELSE allocated

\* What is allocated for it: a full array grows, one entry being for the end.
RoomFor(array, allocated, e) ==
  IF Places(array, e) # {} THEN allocated
  ELSE IF allocated = 0 THEN Alignment
  ELSE IF Len(array) + 1 = lfRegisteredEventArraySize(array) THEN allocated + Alignment
  ELSE allocated

\* unregisterLowPriorityEventHandler(), and whether it returns 1
WithoutHandler(array, e) ==
  [i \in DOMAIN array |-> IF i \in Places(array, e) THEN Entry(e, NoHandler) ELSE array[i]]

\* unregisterLowPriorityEventHandlers()
WithoutHandlers(array) == [i \in DOMAIN array |-> Entry(array[i].eventId, NoHandler)]

\* registerHighPriorityEventHandler(), unless registerEventHandler() throws
registerEventHandler(e, h) ==
  LET open == Places(hfEvent, NoEventId) IN
  /\ ~isRegisteredEventHandler(e)
  /\ asked' = [asked EXCEPT !.lfEvent[e] = h]
  /\ IF open # {}
     THEN hfEvent' = [hfEvent EXCEPT ![Min(open)] = Entry(e, h)] /\ UNCHANGED <<lfEvent, room>>
     ELSE /\ lfEvent' = WithHandler(lfEvent, e, h)
          /\ room' = [room EXCEPT !.lfEvent = RoomFor(lfEvent, @, e)]
          /\ UNCHANGED hfEvent
  /\ UNCHANGED <<undeliveredEvent, undeliveredEventCount, processOutPipeCount, onUnreachableChain>>

registerUndeliveredEventHandler(e, h) ==
  /\ ~isRegisteredLowPriorityEventHandler(undeliveredEvent, e)
  /\ asked' = [asked EXCEPT !.undeliveredEvent[e] = h]
  /\ undeliveredEvent' = WithHandler(undeliveredEvent, e, h)
  /\ room' = [room EXCEPT !.undeliveredEvent = RoomFor(undeliveredEvent, @, e)]
  /\ undeliveredEventCount' = undeliveredEventCount + 1
  /\ onUnreachableChain' = (onUnreachableChain \/ processOutPipeCount # 0)
  /\ UNCHANGED <<hfEvent, lfEvent, processOutPipeCount>>

\* It looks in both arrays: an event may have an entry in each.
unregisterEventHandler(e) ==
  /\ Careful => isRegisteredEventHandler(e)
  /\ asked' = [asked EXCEPT !.lfEvent[e] = NoHandler]
  /\ hfEvent' = [i \in DOMAIN hfEvent |->
                   IF Places(hfEvent, e) # {} /\ i = Min(Places(hfEvent, e))
                   THEN [hfEvent[i] EXCEPT !.eventId = NoEventId] ELSE hfEvent[i]]
  /\ lfEvent' = WithoutHandler(lfEvent, e)
  /\ UNCHANGED <<undeliveredEvent, room, undeliveredEventCount, processOutPipeCount, onUnreachableChain>>

\* An entry counts, with a handler or without.
unregisterUndeliveredEventHandler(e) ==
  /\ Careful => isRegisteredLowPriorityEventHandler(undeliveredEvent, e)
  /\ asked' = [asked EXCEPT !.undeliveredEvent[e] = NoHandler]
  /\ undeliveredEvent' = WithoutHandler(undeliveredEvent, e)
  /\ undeliveredEventCount' = undeliveredEventCount - Cardinality(Places(undeliveredEvent, e))
  /\ onUnreachableChain' = (onUnreachableChain /\ undeliveredEventCount' # 0)
  /\ UNCHANGED <<hfEvent, lfEvent, room, processOutPipeCount>>

unregisterAllEventHandlers ==
  /\ asked' = [asked EXCEPT !.lfEvent = Nobody, !.undeliveredEvent = Nobody]
  /\ hfEvent' = [i \in DOMAIN hfEvent |-> [hfEvent[i] EXCEPT !.eventId = NoEventId]]
  /\ lfEvent' = WithoutHandlers(lfEvent) /\ undeliveredEvent' = WithoutHandlers(undeliveredEvent)
  /\ undeliveredEventCount' = 0 /\ onUnreachableChain' = FALSE
  /\ UNCHANGED <<room, processOutPipeCount>>

\* Mutant of registerProcessOutPipe: an actor with handlers does not enter the chain.
registerProcessOutPipeOnly ==
  /\ processOutPipeCount < MaxPipes
  /\ processOutPipeCount' = processOutPipeCount + 1
  /\ UNCHANGED <<tableVars, onUnreachableChain, asked>>

registerProcessOutPipe ==
  /\ processOutPipeCount < MaxPipes
  /\ processOutPipeCount' = processOutPipeCount + 1
  /\ onUnreachableChain' = (onUnreachableChain \/ undeliveredEventCount # 0)
  /\ UNCHANGED <<tableVars, asked>>

\* The copy of a pipe only counts.
copyPipe ==
  /\ processOutPipeCount \in 1 .. MaxPipes - 1
  /\ processOutPipeCount' = processOutPipeCount + 1
  /\ UNCHANGED <<tableVars, onUnreachableChain, asked>>

\* The actor stays in the chain.
unregisterProcessOutPipe ==
  /\ processOutPipeCount > 0
  /\ processOutPipeCount' = processOutPipeCount - 1
  /\ UNCHANGED <<tableVars, onUnreachableChain, asked>>

\* The actor is deleted and the next one gets its table: releaseEventTable() gives
\* the arrays back by the size that it computes, retainEventTable() clears hfEvent.
releaseEventTable ==
  /\ processOutPipeCount = 0
  /\ hfEvent' = [i \in DOMAIN hfEvent |-> [hfEvent[i] EXCEPT !.eventId = NoEventId]]
  /\ lfEvent' = << >> /\ undeliveredEvent' = << >>
  /\ room' = [lfEvent |-> 0, undeliveredEvent |-> 0]
  /\ undeliveredEventCount' = 0 /\ onUnreachableChain' = FALSE
  /\ asked' = [lfEvent |-> Nobody, undeliveredEvent |-> Nobody]
  /\ UNCHANGED processOutPipeCount

HandlerNext ==
  \/ \E e \in EventIds :
       \/ \E h \in Handlers : registerEventHandler(e, h) \/ registerUndeliveredEventHandler(e, h)
       \/ unregisterEventHandler(e) \/ unregisterUndeliveredEventHandler(e)
  \/ unregisterAllEventHandlers \/ releaseEventTable
  \/ registerProcessOutPipe \/ copyPipe \/ unregisterProcessOutPipe

\* The handlers alone.
HandlerSpec == HandlerInit /\ [][HandlerNext]_handlerVars

-----------------------------------------------------------------------------
(* Properties.                                                             *)

\* EventTable::onLowFrequencyEvent(), onUndeliveredEvent(): the handler that is called
HandlerIn(array, e) ==
  IF Places(array, e) = {} THEN NoHandler ELSE array[Min(Places(array, e))].eventHandler

\* EventTable::onEvent()
onEvent(e) == IF Places(hfEvent, e) # {} THEN HandlerIn(hfEvent, e) ELSE HandlerIn(lfEvent, e)

\* Wherever handlers have come to lie after any sequence of calls, an event reaches
\* the one that was registered last and none that was unregistered; what is given back
\* is what was allocated, and the end of an array is in it.
HandlersFound ==
  /\ \A e \in EventIds : onEvent(e) = asked.lfEvent[e] /\ HandlerIn(undeliveredEvent, e) = asked.undeliveredEvent[e]
  /\ \A e \in EventIds : isRegisteredEventHandler(e) <=> asked.lfEvent[e] # NoHandler
  /\ room.lfEvent # 0 => room.lfEvent = lfRegisteredEventArraySize(lfEvent)
  /\ room.undeliveredEvent # 0 => room.undeliveredEvent = lfRegisteredEventArraySize(undeliveredEvent)

\* An actor that has a pipe out of the process and handlers for what cannot be delivered
\* is told about unreachable nodes; one without such handlers is not.
UnreachableTold ==
  LET handles == \E e \in EventIds : asked.undeliveredEvent[e] # NoHandler IN
  /\ processOutPipeCount > 0 /\ handles => onUnreachableChain
  /\ onUnreachableChain => handles
=============================================================================
