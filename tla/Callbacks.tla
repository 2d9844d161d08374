------------------------------ MODULE Callbacks ------------------------------
(***************************************************************************)
(* The callbacks of a node (Actor::Callback in engine/actor.h and          *)
(* AsyncNode::synchronizeAsyncActorCallbacks in engine/internal/node.h):   *)
(* in every iteration of the event loop those that are registered are      *)
(* called, first the performance neutral ones.  What a callback registers  *)
(* is for the next iteration, and what it unregisters is not called.       *)
(*                                                                         *)
(* The loop calls the callbacks one by one, with user code in between.  A  *)
(* callback outlives the actor that registered it, or not.                 *)
(***************************************************************************)
EXTENDS Integers, Sequences, FiniteSets, SequencesExt, Functions, Chain

CONSTANTS
  CallbackObjects,
  EventTables,
  MaxNodeActorId   \* bound: actors that get an event table, one after the other

Kinds == {"neutral", "regular"}

ASSUME CallbackAssumption == MaxNodeActorId \in Nat

VARIABLES
  callbackChain,             \* the two chains of the node
  tmp, phase,                \* that of synchronizeAsyncActorCallbacks(), and where it is
  chain,                     \* of a callback: the chain that it is in, or "0"
  nodeActorId, actorEventTable,  \* of a callback
  tableId, nextActorId,      \* nodeActorId of an event table, 0 without an actor
  recent                     \* callbacks registered since their chain was taken last

callbackVars == <<callbackChain, tmp, phase, chain, nodeActorId, actorEventTable, tableId, nextActorId, recent>>

CallbackInit ==
  /\ callbackChain = [k \in Kinds |-> << >>] /\ tmp = << >> /\ phase = "idle"
  /\ chain = [b \in CallbackObjects |-> "0"]
  /\ nodeActorId = [b \in CallbackObjects |-> 0]
  /\ actorEventTable \in [CallbackObjects -> EventTables]
  /\ tableId = [t \in EventTables |-> 0] /\ nextActorId = 1
  /\ recent = {}

-----------------------------------------------------------------------------

\* The chains without a callback, which it removes from the one that it knows of
Unchained(b) ==
  [k \in Kinds |-> IF chain[b] = k THEN Without(callbackChain[k], b) ELSE callbackChain[k]]

\* registerCallback(), registerPerformanceNeutralCallback(), by the actor of a table
registerCallback(b, t, k) ==
  /\ tableId[t] # 0
  /\ tmp' = IF chain[b] = "tmp" THEN Without(tmp, b) ELSE tmp
  /\ callbackChain' = [Unchained(b) EXCEPT ![k] = Append(@, b)]
  /\ chain' = [chain EXCEPT ![b] = k]
  /\ actorEventTable' = [actorEventTable EXCEPT ![b] = t]
  /\ nodeActorId' = [nodeActorId EXCEPT ![b] = tableId[t]]
  /\ recent' = recent \cup {b}
  /\ UNCHANGED <<phase, tableId, nextActorId>>

\* unregister(), which the destructor calls too
unregister(b) ==
  /\ chain[b] # "0"
  /\ tmp' = IF chain[b] = "tmp" THEN Without(tmp, b) ELSE tmp
  /\ callbackChain' = Unchained(b)
  /\ chain' = [chain EXCEPT ![b] = "0"]
  /\ UNCHANGED <<phase, nodeActorId, actorEventTable, tableId, nextActorId, recent>>

\* Mutant of Take: the callbacks do not learn where they are.
TakeSilently(k) ==
  /\ tmp' = callbackChain[k]
  /\ callbackChain' = [callbackChain EXCEPT ![k] = << >>]
  /\ recent' = recent \ ToSet(callbackChain[k])
  /\ UNCHANGED <<chain, nodeActorId, actorEventTable, tableId, nextActorId>>

\* The whole chain, up to the first call
Take(k) ==
  /\ tmp' = callbackChain[k]
  /\ callbackChain' = [callbackChain EXCEPT ![k] = << >>]
  /\ chain' = [b \in CallbackObjects |-> IF b \in ToSet(callbackChain[k]) THEN "tmp" ELSE chain[b]]
  /\ recent' = recent \ ToSet(callbackChain[k])
  /\ UNCHANGED <<nodeActorId, actorEventTable, tableId, nextActorId>>

BeginIteration == phase = "idle" /\ phase' = "neutral" /\ Take("neutral")

TakeRegular == phase = "neutral" /\ tmp = << >> /\ phase' = "regular" /\ Take("regular")

EndIteration ==
  /\ phase = "regular" /\ tmp = << >>
  /\ phase' = "idle"
  /\ UNCHANGED <<callbackChain, tmp, chain, nodeActorId, actorEventTable, tableId, nextActorId, recent>>

\* One callback, up to the call of onCallback(), which is not made when the actor that
\* registered it is gone
callNext ==
  /\ tmp # << >>
  /\ tmp' = Tail(tmp)
  /\ chain' = [chain EXCEPT ![Head(tmp)] = "0"]
  /\ UNCHANGED <<callbackChain, phase, nodeActorId, actorEventTable, tableId, nextActorId, recent>>

\* retainEventTable() and releaseEventTable(); actors are deleted between iterations.
newActor(t) ==
  /\ tableId[t] = 0 /\ nextActorId <= MaxNodeActorId
  /\ tableId' = [tableId EXCEPT ![t] = nextActorId]
  /\ nextActorId' = nextActorId + 1
  /\ UNCHANGED <<callbackChain, tmp, phase, chain, nodeActorId, actorEventTable, recent>>

deleteActor(t) ==
  /\ phase = "idle" /\ tableId[t] # 0
  /\ tableId' = [tableId EXCEPT ![t] = 0]
  /\ UNCHANGED <<callbackChain, tmp, phase, chain, nodeActorId, actorEventTable, nextActorId, recent>>

CallbackNext ==
  \/ \E b \in CallbackObjects :
       unregister(b) \/ \E t \in EventTables, k \in Kinds : registerCallback(b, t, k)
  \/ \E t \in EventTables : newActor(t) \/ deleteActor(t)
  \/ BeginIteration \/ TakeRegular \/ callNext \/ EndIteration

\* The callbacks alone.
CallbackSpec == CallbackInit /\ [][CallbackNext]_callbackVars

-----------------------------------------------------------------------------
(* Properties.                                                             *)

\* A callback is in the chain that it knows of and in no other, once, even while the
\* loop has taken the chain from under it: unregister() reaches it, and it is not called
\* afterwards.  None waits for longer than an iteration: a chain holds what was
\* registered since it was taken last, and what the loop calls was registered before.
CallbacksInOnePlace ==
  /\ \A b \in CallbackObjects :
       /\ \A k \in Kinds : chain[b] = k <=> b \in ToSet(callbackChain[k])
       /\ chain[b] = "tmp" <=> b \in ToSet(tmp)
       /\ chain[b] \in Kinds => b \in recent
       /\ chain[b] = "tmp" => b \notin recent
  /\ \A k \in Kinds : IsInjective(callbackChain[k])
  /\ IsInjective(tmp)
  /\ phase = "idle" => tmp = << >>
=============================================================================
