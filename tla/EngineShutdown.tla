--------------------------- MODULE EngineShutdown ---------------------------
(***************************************************************************)
(* How an Engine starts its cores and how it comes to its end (engine.cpp, *)
(* engine.h, node.cpp).  Regular actors are destroyed first, on every      *)
(* core; then the services, last declared first, each telling the one      *)
(* before it with an event.  The threads of the cores share a counter, the *)
(* flags of the shutdown and those events, and nothing else.               *)
(*                                                                         *)
(* Module ActorLifecycle has the references and the chains of a node in    *)
(* detail.  Here a node has a set of actors that are alive and a set of    *)
(* those whose destruction was requested, which it asks in any order.  An  *)
(* actor that defers is an actor not yet asked.  Actors that only services *)
(* or the core actor reference count as part of them.                      *)
(***************************************************************************)
EXTENDS Integers, Sequences, FiniteSets

CONSTANTS
  NumCores,   \* the cores of the CoreSet
  Starters,   \* the start sequence: [core, isServiceFlag] in order of declaration
  MaxNew,     \* bound: how many actors are created after the start
  MayFail     \* may the constructors of the start sequence throw?

Cores    == 1 .. NumCores
Declared == 1 .. Len(Starters)
Actors   == 1 .. Len(Starters) + MaxNew
Services == {i \in Declared : Starters[i].isServiceFlag}

ASSUME EngineAssumption ==
  /\ NumCores \in Nat \ {0} /\ MaxNew \in Nat /\ MayFail \in BOOLEAN
  /\ Starters \in Seq([core : Cores, isServiceFlag : BOOLEAN])

\* A node has user actors, of which some are services, a DestroyEventActor for
\* each service, a CoreActor and a ServiceSingletonActor.
Actor(i)        == <<"actor", i>>
DestroyEvent(s) == <<"destroyEvent", s>>
Core(c)         == <<"core", c>>
Singleton(c)    == <<"singleton", c>>

VARIABLES
  engine,                  \* where the thread of the Engine is
  starting,                \* the starter or core it is at
  failed,                  \* has a constructor thrown?
  node,                    \* "none", "built", "running", "ended"
  home,                    \* the core of an actor, 0 before it is constructed
  alive, requested,        \* actors of all kinds
  lastServiceFlag, isServiceDestroyTimeFlag,
  pending,                 \* services a ServiceDestroyEvent is on its way to
  regularActorsCoreCount,
  regularActorsCoreCountFlag,
  callback,                \* loopForRegularActorsCoreCountZeroCallback registered
  shutdownFlag, stopFlag, interruptFlag, isBeingDestroyedFlag,
  pc,                      \* where the thread of the core is
  target                   \* the core that newCore(), called on this one, starts

actors   == <<home, alive, requested>>
services == <<lastServiceFlag, isServiceDestroyTimeFlag, pending>>
counting == <<regularActorsCoreCount, regularActorsCoreCountFlag, callback>>
nodeFlags == <<stopFlag, interruptFlag>>
main     == <<engine, starting, failed>>
thread   == <<isBeingDestroyedFlag, pc, target>>
vars     == <<main, node, actors, services, counting, shutdownFlag, nodeFlags, thread>>

All(v) == [c \in Cores |-> v]

Init ==
  /\ engine = "start" /\ starting = 1 /\ failed = FALSE
  /\ node = All("none")
  /\ home = [i \in Actors |-> 0] /\ alive = {} /\ requested = {}
  /\ lastServiceFlag = [s \in Services |-> FALSE]
  /\ isServiceDestroyTimeFlag = All(TRUE) /\ pending = {}
  /\ regularActorsCoreCount = 1 /\ regularActorsCoreCountFlag = All(FALSE)
  /\ callback = All(FALSE)
  /\ shutdownFlag = All(FALSE) /\ stopFlag = All(FALSE) /\ interruptFlag = All(TRUE)
  /\ isBeingDestroyedFlag = All(FALSE) /\ pc = All("isRunning") /\ target = All(0)

-----------------------------------------------------------------------------

Regular == {i \in Actors : Actor(i) \in alive /\ i \notin Services}

\* The services of a core that are in the list of its ServiceSingletonActor
serviceActorList(c, live) == {s \in Services : home[s] = c /\ Actor(s) \in live}

\* The actors of core c among live
At(c, live) ==
  live \cap ({Core(c), Singleton(c)} \cup {Actor(i) : i \in {j \in Actors : home[j] = c}}
                                   \cup {DestroyEvent(s) : s \in {t \in Services : home[t] = c}})

\* Is every actor of the core the CoreActor, a service, or referenced by these?
onlyCoreAndServiceReferencedActorsLeft(c, live) ==
  /\ \A i \in Actors \ Services : Actor(i) \notin At(c, live)
  /\ \A s \in Services : DestroyEvent(s) \in At(c, live) => Actor(s) \in live

\* Does the CoreActor request its destruction, live being left?
onNodeActorsDestroyed(c, live) ==
  /\ Core(c) \in live
  /\ onlyCoreAndServiceReferencedActorsLeft(c, live)
  /\ \/ serviceActorList(c, live) = {}
     \/ shutdownFlag[c] /\ ~isServiceDestroyTimeFlag[c]

\* AsyncNode::stop(), or what is left of it when the node has other actors
StopIf(c, condition) ==
  /\ stopFlag' = [stopFlag EXCEPT ![c] = @ \/ condition]
  /\ interruptFlag' = [interruptFlag EXCEPT ![c] = @ \/ condition]

\* Actor e of core c is deleted, which requests the destruction of released; the
\* CoreActor looks at what is left, and the last actor stops the node.
Delete(c, e, released) ==
  LET left == alive \ {e} IN
  /\ alive' = left
  /\ requested' = (requested \ {e}) \cup released
                    \cup (IF onNodeActorsDestroyed(c, left) THEN {Core(c)} ELSE {})
  /\ StopIf(c, At(c, left) = {})
  /\ UNCHANGED home

\* The ServiceSingletonActor is released by the last that references it.
ReleasedSingleton(c, left) ==
  IF Core(c) \notin left /\ serviceActorList(c, left) = {} THEN {Singleton(c)} ELSE {}

-----------------------------------------------------------------------------
(* Engine::start(), in the thread of the Engine                            *)

\* A node for every core that the sequence names
StartNodes ==
  /\ engine = "start"
  /\ engine' = "starters"
  /\ node' = [c \in Cores |-> IF \E i \in Declared : Starters[i].core = c THEN "built" ELSE "none"]
  /\ UNCHANGED <<starting, failed, actors, services, counting, shutdownFlag, nodeFlags, thread>>

\* Starter::onStart(): an actor, or a service with its DestroyEventActor
OnStart ==
  LET c == Starters[starting].core IN
  /\ engine = "starters" /\ starting <= Len(Starters)
  /\ home' = [home EXCEPT ![starting] = c]
  /\ IF starting \in Services
     THEN /\ alive' = alive \cup {Actor(starting), DestroyEvent(starting), Singleton(c)}
          /\ lastServiceFlag' = [lastServiceFlag EXCEPT
                                   ![starting] = \A s \in Services : s <= starting]
     ELSE alive' = alive \cup {Actor(starting)} /\ UNCHANGED lastServiceFlag
  /\ starting' = starting + 1
  /\ UNCHANGED <<engine, failed, node, requested, isServiceDestroyTimeFlag, pending, counting,
                 shutdownFlag, nodeFlags, thread>>

\* The constructor throws: the nodes are left to their threads, and finish().
OnStartThrows ==
  LET c == Starters[starting].core IN
  /\ MayFail
  /\ engine = "starters" /\ starting <= Len(Starters)
  /\ StopIf(c, At(c, alive) = {})
  /\ failed' = TRUE
  /\ engine' = "run" /\ starting' = 1
  /\ UNCHANGED <<node, actors, services, counting, shutdownFlag, thread>>

\* CoreActor(), with the ServiceSingletonActor, but for the counting
NewCore(c) ==
  /\ alive' = alive \cup {Core(c), Singleton(c)}
  /\ isServiceDestroyTimeFlag' = [isServiceDestroyTimeFlag EXCEPT ![c] = FALSE]
  /\ regularActorsCoreCountFlag' = [regularActorsCoreCountFlag EXCEPT ![c] = FALSE]
  /\ callback' = [callback EXCEPT ![c] = FALSE]

NewCoreActor(c) ==
  /\ engine = "starters" /\ starting > Len(Starters)
  /\ node[c] = "built" /\ Core(c) \notin alive
  /\ NewCore(c)
  /\ regularActorsCoreCount' = regularActorsCoreCount + 1
  /\ UNCHANGED <<main, node, home, requested, lastServiceFlag, pending, shutdownFlag, nodeFlags, thread>>

StartDone ==
  /\ engine = "starters" /\ starting > Len(Starters)
  /\ \A c \in Cores : node[c] = "built" => Core(c) \in alive
  /\ engine' = "run" /\ starting' = 1
  /\ UNCHANGED <<failed, node, actors, services, counting, shutdownFlag, nodeFlags, thread>>

\* ~Engine_start_NodeThread: one thread after the other is let go.
Run ==
  /\ engine = "run"
  /\ IF starting <= NumCores
     THEN /\ node' = [node EXCEPT ![starting] =
                         IF \E i \in Declared : Starters[i].core = starting THEN "running" ELSE @]
          /\ starting' = starting + 1 /\ UNCHANGED engine
     ELSE /\ engine' = IF failed THEN "shutdown" ELSE "running"
          /\ starting' = 1 /\ UNCHANGED node
  /\ UNCHANGED <<failed, actors, services, counting, shutdownFlag, nodeFlags, thread>>

-----------------------------------------------------------------------------
(* Engine::finish(), in the thread of the Engine                           *)

\* ~Engine()
Finish ==
  /\ engine = "running" /\ engine' = "shutdown"
  /\ UNCHANGED <<starting, failed, node, actors, services, counting, shutdownFlag, nodeFlags, thread>>

\* Mutant of ShutdownFlags: the threads are interrupted before they can see why.
ShutdownFlagsLate ==
  /\ engine = "shutdown"
  /\ IF starting <= NumCores
     THEN /\ interruptFlag' = [interruptFlag EXCEPT ![starting] = TRUE]
          /\ starting' = starting + 1 /\ UNCHANGED <<engine, shutdownFlag>>
     ELSE /\ shutdownFlag' = All(TRUE)
          /\ engine' = "count" /\ starting' = 1 /\ UNCHANGED interruptFlag
  /\ UNCHANGED <<failed, node, actors, services, counting, stopFlag, thread>>

\* AsyncNodeManager::shutdown(): the flag of every node, and only then ...
ShutdownFlags ==
  /\ engine = "shutdown"
  /\ IF starting <= NumCores
     THEN /\ shutdownFlag' = [shutdownFlag EXCEPT ![starting] = TRUE]
          /\ starting' = starting + 1 /\ UNCHANGED engine
     ELSE engine' = "interrupt" /\ starting' = 1 /\ UNCHANGED shutdownFlag
  /\ UNCHANGED <<failed, node, actors, services, counting, nodeFlags, thread>>

\* ... the interrupt that makes its thread look at it.
ShutdownInterrupts ==
  /\ engine = "interrupt"
  /\ IF starting <= NumCores
     THEN /\ interruptFlag' = [interruptFlag EXCEPT ![starting] = TRUE]
          /\ starting' = starting + 1 /\ UNCHANGED engine
     ELSE engine' = "count" /\ starting' = 1 /\ UNCHANGED interruptFlag
  /\ UNCHANGED <<failed, node, actors, services, counting, shutdownFlag, stopFlag, thread>>

FinishCount ==
  /\ engine = "count" /\ engine' = "wait"
  /\ regularActorsCoreCount' = regularActorsCoreCount - 1
  /\ UNCHANGED <<starting, failed, node, actors, services, regularActorsCoreCountFlag, callback,
                 shutdownFlag, nodeFlags, thread>>

\* ~Parallel() waits for one node after the other.
FinishWait ==
  /\ engine = "wait"
  /\ IF starting <= NumCores
     THEN /\ node[starting] \in {"none", "ended"}
          /\ starting' = starting + 1 /\ UNCHANGED engine
     ELSE engine' = "ended" /\ UNCHANGED starting
  /\ UNCHANGED <<failed, node, actors, services, counting, shutdownFlag, nodeFlags, thread>>

-----------------------------------------------------------------------------
(* The threads of the cores: the event loop                                *)

\* synchronize() found the interrupt; isRunning() takes it back ...
Interrupted(c) ==
  /\ node[c] = "running" /\ pc[c] = "synchronize"
  /\ interruptFlag[c]
  /\ pc' = [pc EXCEPT ![c] = "isRunning"]
  /\ UNCHANGED <<main, node, actors, services, counting, shutdownFlag, nodeFlags,
                 isBeingDestroyedFlag, target>>

IsRunningClear(c) ==
  /\ node[c] = "running" /\ pc[c] = "isRunning"
  /\ interruptFlag' = [interruptFlag EXCEPT ![c] = FALSE]
  /\ pc' = [pc EXCEPT ![c] = "isRunningTest"]
  /\ UNCHANGED <<main, node, actors, services, counting, shutdownFlag, stopFlag,
                 isBeingDestroyedFlag, target>>

\* Mutant of IsRunningTest: the actors that wait to be destroyed are forgotten.
IsRunningTestOneChain(c) ==
  /\ node[c] = "running" /\ pc[c] = "isRunningTest"
  /\ isBeingDestroyedFlag' = [isBeingDestroyedFlag EXCEPT ![c] = @ \/ stopFlag[c] \/ shutdownFlag[c]]
  /\ interruptFlag' = [interruptFlag EXCEPT ![c] = @ \/ isBeingDestroyedFlag'[c]]
  /\ pc' = [pc EXCEPT ![c] = IF isBeingDestroyedFlag[c] /\ At(c, alive) \subseteq requested
                             THEN "ended" ELSE "synchronize"]
  /\ requested' = IF isBeingDestroyedFlag'[c] /\ ~isBeingDestroyedFlag[c]
                  THEN requested \cup {e \in At(c, alive) : e[1] \in {"actor", "core"}}
                  ELSE requested
  /\ UNCHANGED <<main, node, home, alive, services, counting, shutdownFlag, stopFlag, target>>

\* ... and then looks at the flags: the first time it finds one set it requests
\* the destruction of every actor, after that it waits for the last to go.
IsRunningTest(c) ==
  /\ node[c] = "running" /\ pc[c] = "isRunningTest"
  /\ isBeingDestroyedFlag' = [isBeingDestroyedFlag EXCEPT ![c] = @ \/ stopFlag[c] \/ shutdownFlag[c]]
  /\ interruptFlag' = [interruptFlag EXCEPT ![c] = @ \/ isBeingDestroyedFlag'[c]]
  /\ pc' = [pc EXCEPT ![c] = IF isBeingDestroyedFlag[c] /\ At(c, alive) = {} THEN "ended" ELSE "synchronize"]
  /\ requested' = IF isBeingDestroyedFlag'[c] /\ ~isBeingDestroyedFlag[c]
                  THEN requested \cup {e \in At(c, alive) : e[1] \in {"actor", "core"}}
                  ELSE requested
  /\ UNCHANGED <<main, node, home, alive, services, counting, shutdownFlag, stopFlag, target>>

\* The loop ends; the thread deletes the node.
DeleteNode(c) ==
  /\ node[c] = "running" /\ pc[c] = "ended"
  /\ node' = [node EXCEPT ![c] = "ended"]
  /\ isBeingDestroyedFlag' = [isBeingDestroyedFlag EXCEPT ![c] = FALSE]
  /\ pc' = [pc EXCEPT ![c] = "isRunning"]
  /\ UNCHANGED <<main, actors, services, counting, shutdownFlag, nodeFlags, target>>

-----------------------------------------------------------------------------
(* The threads of the cores: destruction                                   *)

Asked(c, e) ==
  /\ node[c] = "running" /\ pc[c] = "synchronize"
  /\ e \in requested /\ e \in At(c, alive)

\* A regular actor accepts.
AskActor(c, i) ==
  /\ Asked(c, Actor(i)) /\ i \notin Services
  /\ Delete(c, Actor(i), {})
  /\ UNCHANGED <<main, node, services, counting, shutdownFlag, thread>>

\* Mutant of AskService: a service goes when the regular actors are gone.
AskServiceAnyOrder(c, s) ==
  /\ Asked(c, Actor(s))
  /\ isServiceDestroyTimeFlag[c]
  /\ Delete(c, Actor(s), {DestroyEvent(s)} \cup ReleasedSingleton(c, alive \ {Actor(s)}))
  /\ UNCHANGED <<main, node, services, counting, shutdownFlag, thread>>

\* ServiceActorWrapper::onDestroyRequest(): a service accepts when it is its turn ...
AskService(c, s) ==
  /\ Asked(c, Actor(s))
  /\ isServiceDestroyTimeFlag[c] /\ lastServiceFlag[s]
  /\ Delete(c, Actor(s), {DestroyEvent(s)} \cup ReleasedSingleton(c, alive \ {Actor(s)}))
  /\ UNCHANGED <<main, node, services, counting, shutdownFlag, thread>>

\* ... and before that it forgets the request.
AskServiceRefused(c, s) ==
  /\ Asked(c, Actor(s))
  /\ ~(isServiceDestroyTimeFlag[c] /\ lastServiceFlag[s])
  /\ requested' = requested \ {Actor(s)}
  /\ UNCHANGED <<main, node, home, alive, services, counting, shutdownFlag, nodeFlags, thread>>

\* The service declared before s, if there is one
Previous(s) == {t \in Services : t < s /\ \A u \in Services : u < s => u <= t}

\* Its DestroyEventActor tells the service before it.
AskDestroyEvent(c, s) ==
  /\ Asked(c, DestroyEvent(s))
  /\ pending' = pending \cup Previous(s)
  /\ Delete(c, DestroyEvent(s), {})
  /\ UNCHANGED <<main, node, lastServiceFlag, isServiceDestroyTimeFlag, counting, shutdownFlag, thread>>

AskSingleton(c) ==
  /\ Asked(c, Singleton(c))
  /\ Delete(c, Singleton(c), {})
  /\ UNCHANGED <<main, node, services, counting, shutdownFlag, thread>>

\* Mutant of CountDown: the core is counted out again when its CoreActor goes.
CountDownAgain(c) ==
  /\ regularActorsCoreCountFlag' = [regularActorsCoreCountFlag EXCEPT ![c] = TRUE]
  /\ regularActorsCoreCount' = regularActorsCoreCount - 1

\* regularActorsCoreCount goes down once for each core.
CountDown(c) ==
  /\ regularActorsCoreCountFlag' = [regularActorsCoreCountFlag EXCEPT ![c] = TRUE]
  /\ regularActorsCoreCount' = IF regularActorsCoreCountFlag[c]
                               THEN regularActorsCoreCount ELSE regularActorsCoreCount - 1

\* CoreActor::onDestroyRequest(): the core has nothing left ...
AskCoreLast(c) ==
  /\ Asked(c, Core(c))
  /\ onlyCoreAndServiceReferencedActorsLeft(c, alive) /\ serviceActorList(c, alive) = {}
  /\ CountDown(c)
  /\ alive' = alive \ {Core(c)}
  /\ requested' = (requested \ {Core(c)}) \cup ReleasedSingleton(c, alive \ {Core(c)})
  /\ stopFlag' = [stopFlag EXCEPT ![c] = TRUE]
  /\ UNCHANGED <<main, node, home, services, callback, shutdownFlag, interruptFlag, thread>>

\* ... or services only: in a shutdown it is counted and waits for the others ...
AskCoreServices(c) ==
  /\ Asked(c, Core(c))
  /\ onlyCoreAndServiceReferencedActorsLeft(c, alive) /\ serviceActorList(c, alive) # {}
  /\ requested' = requested \ {Core(c)}
  /\ IF shutdownFlag[c] /\ ~regularActorsCoreCountFlag[c]
     THEN CountDown(c) /\ callback' = [callback EXCEPT ![c] = TRUE]
     ELSE UNCHANGED counting
  /\ UNCHANGED <<main, node, home, alive, services, shutdownFlag, nodeFlags, thread>>

\* ... or still has regular actors.
AskCoreRefused(c) ==
  /\ Asked(c, Core(c))
  /\ ~onlyCoreAndServiceReferencedActorsLeft(c, alive)
  /\ requested' = requested \ {Core(c)}
  /\ UNCHANGED <<main, node, home, alive, services, counting, shutdownFlag, nodeFlags, thread>>

\* loopForRegularActorsCoreCountZeroCallback, when the count is down:
\* destroyServiceActors()
RegularActorsGone(c) ==
  /\ node[c] = "running" /\ pc[c] = "synchronize"
  /\ callback[c] /\ callback' = [callback EXCEPT ![c] = FALSE]
  /\ regularActorsCoreCount = 0
  /\ isServiceDestroyTimeFlag' = [isServiceDestroyTimeFlag EXCEPT ![c] = TRUE]
  /\ requested' = requested \cup {Actor(s) : s \in serviceActorList(c, alive)}
  /\ UNCHANGED <<main, node, home, alive, lastServiceFlag, pending, regularActorsCoreCount,
                 regularActorsCoreCountFlag, shutdownFlag, nodeFlags, thread>>

\* DestroyEventActor::onEvent(): it is the turn of service s.
OnServiceDestroyEvent(s) ==
  LET c == home[s] IN
  /\ s \in pending
  /\ node[c] = "running" /\ pc[c] = "synchronize"
  /\ pending' = pending \ {s}
  /\ lastServiceFlag' = [lastServiceFlag EXCEPT ![s] = TRUE]
  /\ requested' = requested \cup {Actor(s)}
  /\ UNCHANGED <<main, node, home, alive, isServiceDestroyTimeFlag, counting, shutdownFlag, nodeFlags, thread>>

-----------------------------------------------------------------------------
(* The threads of the cores: user code                                     *)

UserCode(c) ==
  /\ node[c] = "running" /\ pc[c] = "synchronize"
  /\ \E i \in Actors : Actor(i) \in At(c, alive)

RequestDestroy(c, i) ==
  /\ UserCode(c)
  /\ Actor(i) \in At(c, alive)
  /\ requested' = requested \cup {Actor(i)}
  /\ UNCHANGED <<main, node, home, alive, services, counting, shutdownFlag, nodeFlags, thread>>

\* Bound: the actors still to be created, less the ones newCore() will create
Spare == Cardinality({i \in Actors \ Declared : home[i] = 0})
           > Cardinality({e \in Cores : pc[e] \in {"newCore", "newCoreStarter"}})

\* Mutant of NewActor: the flags are not looked at.
NewActorAnyTime(c, i) ==
  /\ UserCode(c) /\ Spare
  /\ i \notin Declared /\ home[i] = 0
  /\ home' = [home EXCEPT ![i] = c]
  /\ alive' = alive \cup {Actor(i)}
  /\ UNCHANGED <<main, node, requested, services, counting, shutdownFlag, nodeFlags, thread>>

\* A new actor, unless the node is on its way out
NewActor(c, i) ==
  /\ UserCode(c) /\ Spare
  /\ i \notin Declared /\ home[i] = 0
  /\ ~shutdownFlag[c] /\ ~stopFlag[c]
  /\ home' = [home EXCEPT ![i] = c]
  /\ alive' = alive \cup {Actor(i)}
  /\ UNCHANGED <<main, node, requested, services, counting, shutdownFlag, nodeFlags, thread>>

\* newCore(d), called on c: the node, unless it is in use, and its CoreActor,
\* unless there is a shutdown.  The CoreActor is counted when it is complete ...
NewCoreNode(c, d) ==
  /\ UserCode(c) /\ Spare
  /\ node[d] \in {"none", "ended"}
  /\ node' = [node EXCEPT ![d] = "built"]
  /\ stopFlag' = [stopFlag EXCEPT ![d] = FALSE]
  /\ IF shutdownFlag[d]
     THEN UNCHANGED <<alive, isServiceDestroyTimeFlag, regularActorsCoreCountFlag, callback>>
     ELSE NewCore(d)
  /\ pc' = [pc EXCEPT ![c] = IF shutdownFlag[d] THEN "newCoreStarter" ELSE "newCore"]
  /\ target' = [target EXCEPT ![c] = d]
  /\ UNCHANGED <<main, home, requested, lastServiceFlag, pending, regularActorsCoreCount,
                 shutdownFlag, interruptFlag, isBeingDestroyedFlag>>

NewCoreCounted(c) ==
  /\ node[c] = "running" /\ pc[c] = "newCore"
  /\ regularActorsCoreCount' = regularActorsCoreCount + 1
  /\ pc' = [pc EXCEPT ![c] = "newCoreStarter"]
  /\ UNCHANGED <<main, node, actors, services, regularActorsCoreCountFlag, callback, shutdownFlag,
                 nodeFlags, isBeingDestroyedFlag, target>>

\* ... then comes the actor, or the exception that stops the node; it runs anyway.
NewCoreRun(c) ==
  LET d == target[c] IN
  /\ node[c] = "running" /\ pc[c] = "newCoreStarter"
  /\ IF shutdownFlag[d] \/ stopFlag[d]
     THEN StopIf(d, TRUE) /\ UNCHANGED <<home, alive>>
     ELSE \E i \in {j \in Actors \ Declared : home[j] = 0} :
            /\ home' = [home EXCEPT ![i] = d]
            /\ alive' = alive \cup {Actor(i)}
            /\ UNCHANGED nodeFlags
  /\ node' = [node EXCEPT ![d] = "running"]
  /\ pc' = [pc EXCEPT ![c] = "synchronize"] /\ target' = [target EXCEPT ![c] = 0]
  /\ UNCHANGED <<main, requested, services, counting, shutdownFlag, isBeingDestroyedFlag>>

-----------------------------------------------------------------------------

MainStep ==
  \/ StartNodes \/ OnStart \/ (\E c \in Cores : NewCoreActor(c)) \/ StartDone \/ Run
  \/ ShutdownFlags \/ ShutdownInterrupts \/ FinishCount \/ FinishWait

LoopStep(c) == Interrupted(c) \/ IsRunningClear(c) \/ IsRunningTest(c) \/ DeleteNode(c)

\* What a round of the loop does for the shutdown; none of it is ever undone.
Progress(c) ==
  \/ \E i \in Actors : AskActor(c, i)
  \/ \E s \in Services : AskService(c, s) \/ AskDestroyEvent(c, s)
  \/ AskSingleton(c) \/ AskCoreLast(c) \/ AskCoreServices(c) \/ AskCoreRefused(c)
  \/ RegularActorsGone(c)
  \/ \E s \in Services : home[s] = c /\ OnServiceDestroyEvent(s)

UserStep(c) ==
  \/ \E i \in Actors : RequestDestroy(c, i) \/ NewActor(c, i)
  \/ \E d \in Cores : NewCoreNode(c, d)

Next ==
  \/ MainStep \/ OnStartThrows \/ Finish
  \/ \E c \in Cores :
       \/ LoopStep(c) \/ Progress(c) \/ UserStep(c) \/ NewCoreCounted(c) \/ NewCoreRun(c)
       \/ \E s \in Services : AskServiceRefused(c, s)

Spec == Init /\ [][Next]_vars

\* A thread goes on, and each round of its loop asks whoever was requested, makes
\* the callbacks and delivers the events.  What users do in between cannot keep a
\* round from its end, hence strong fairness; as a step of Progress is never
\* undone, no such step can be put off for ever by the others.
FairSpec ==
  /\ Spec
  /\ WF_vars(MainStep)
  /\ \A c \in Cores :
       /\ SF_vars(LoopStep(c)) /\ SF_vars(Progress(c))
       /\ WF_vars(NewCoreCounted(c) \/ NewCoreRun(c))

-----------------------------------------------------------------------------
(* Properties                                                              *)

Entities == {Actor(i) : i \in Actors} \cup {DestroyEvent(s) : s \in Services}
              \cup {Core(c) : c \in Cores} \cup {Singleton(c) : c \in Cores}

\* Every variable has a value of its type; only actors that are alive are in a
\* chain to be destroyed, and the counter never wraps (unsigned in engine.h).
TypeOK ==
  /\ engine \in {"start", "starters", "run", "running", "shutdown", "interrupt", "count", "wait", "ended"}
  /\ starting \in 1 .. Len(Starters) + NumCores + 1 /\ failed \in BOOLEAN
  /\ node \in [Cores -> {"none", "built", "running", "ended"}]
  /\ home \in [Actors -> {0} \cup Cores]
  /\ alive \subseteq Entities /\ requested \subseteq alive
  /\ lastServiceFlag \in [Services -> BOOLEAN]
  /\ isServiceDestroyTimeFlag \in [Cores -> BOOLEAN] /\ pending \subseteq Services
  /\ regularActorsCoreCount \in 0 .. NumCores + 1
  /\ regularActorsCoreCountFlag \in [Cores -> BOOLEAN] /\ callback \in [Cores -> BOOLEAN]
  /\ shutdownFlag \in [Cores -> BOOLEAN] /\ stopFlag \in [Cores -> BOOLEAN]
  /\ interruptFlag \in [Cores -> BOOLEAN] /\ isBeingDestroyedFlag \in [Cores -> BOOLEAN]
  /\ pc \in [Cores -> {"isRunning", "isRunningTest", "synchronize", "newCore", "newCoreStarter", "ended"}]
  /\ target \in [Cores -> {0} \cup Cores]

\* Unless the start failed, services are destroyed when every regular actor, on
\* every core, is gone: the promise of StartSequence, kept by a counter, flags and
\* callbacks of all threads.
ServicesLast ==
  [][\A s \in Services : (~failed /\ Actor(s) \in alive /\ Actor(s) \notin alive') => Regular = {}]_vars

\* Services are destroyed in the reverse order of their declaration, on whatever
\* cores they are: a service goes when those declared after it are gone.
ReverseOrder ==
  [][\A s \in Services : (Actor(s) \in alive /\ Actor(s) \notin alive')
       => \A t \in Services : t > s => Actor(t) \notin alive]_vars

\* The assertions of engine.cpp and engine.h: a ServiceDestroyEvent finds its
\* service, which was not told before; the service time comes once for a core;
\* a ServiceSingletonActor survives its services; isRunning() is called with
\* interruptFlag set, and an event loop comes to its end for a reason; no actor
\* outlives its node, and no event of the shutdown is on its way to one that is gone
\* (DeleteNode()).
EngineAsserts ==
  /\ \A s \in pending : {Actor(s), DestroyEvent(s)} \subseteq alive /\ ~lastServiceFlag[s]
  /\ \A c \in Cores :
       /\ callback[c] => (Core(c) \in alive /\ ~isServiceDestroyTimeFlag[c])
       /\ serviceActorList(c, alive) # {} => Singleton(c) \in alive
       /\ (node[c] = "running" /\ pc[c] = "isRunning") => interruptFlag[c]
       /\ isBeingDestroyedFlag[c] => (stopFlag[c] \/ shutdownFlag[c])
       /\ node[c] = "ended" => (At(c, alive) = {} /\ \A s \in pending : home[s] # c)

\* regularActorsCoreCount is one for the Engine, until its finish(), and one for
\* each CoreActor that was counted in and not yet counted out.
CountRight ==
  regularActorsCoreCount =
    (IF engine \in {"wait", "ended"} THEN 0 ELSE 1)
      + Cardinality({c \in Cores : /\ Core(c) \in alive /\ ~regularActorsCoreCountFlag[c]
                                   /\ \A e \in Cores : ~(pc[e] = "newCore" /\ target[e] = c)})

\* ~Engine() returns if the start succeeded: everyone waiting for the count, for an event or for a node
\* to end is woken in the end.
EngineStops == (engine = "shutdown" /\ ~failed) ~> (engine = "ended")

\* The constructor of Engine throws what the constructor of an actor threw.
FailedStartThrows == failed ~> (engine = "ended")
=============================================================================
