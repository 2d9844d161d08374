------------------------- MODULE EngineShutdownProofs -------------------------
(***************************************************************************)
(* ReverseOrder, ServicesLast, CountRight and EngineAsserts of             *)
(* EngineShutdown, for any number of cores and any start sequence, with    *)
(* newCore() and starters that throw.                                      *)
(*                                                                         *)
(* A service goes when it has been told that it is its turn.  Being told   *)
(* takes a ServiceDestroyEvent from the service after it; the order holds  *)
(* because the chain of these events has one end: the service that comes   *)
(* last in the start sequence, constructed or not.                         *)
(*                                                                         *)
(* Services go after all regular actors because their core waits for the   *)
(* count, and the count is right: a core is counted in before anybody is   *)
(* on it and out once, when only its CoreActor and services are left.      *)
(***************************************************************************)
EXTENDS EngineShutdown, SequenceTheorems, FiniteSetTheorems, TLAPS

\* A service that was constructed and deleted
Gone(s) == home[s] # 0 /\ Actor(s) \notin alive

After(s) == {t \in Services : t > s}

OrderType ==
  /\ home \in [Actors -> {0} \cup Cores] /\ target \in [Cores -> {0} \cup Cores]
  /\ lastServiceFlag \in [Services -> BOOLEAN] /\ pending \subseteq Services
  /\ starting \in Nat \ {0}

\* The constructors that are still to run
StartInOrder ==
  /\ engine = "start" => starting = 1
  /\ engine \in {"start", "starters"} => \A s \in Services : s >= starting => home[s] = 0

\* Whoever has been told, is about to be told or has gone has nobody after it; the event
\* that tells the one before is not released earlier.
TurnInv ==
  /\ \A s \in Services : s \in pending \/ lastServiceFlag[s] \/ Gone(s) => \A t \in After(s) : Gone(t)
  /\ \A s \in Services : DestroyEvent(s) \in requested => Gone(s)

OrderInv == OrderType /\ StartInOrder /\ TurnInv

-----------------------------------------------------------------------------

\* Services are actors, in the order of their declaration.
LEMMA ServicesAreActors ==
  /\ Len(Starters) \in Nat /\ Actors \subseteq Nat /\ Declared \subseteq Actors
  /\ Services \subseteq Declared /\ Services \subseteq Actors /\ Services \subseteq Nat
  /\ 0 \notin Cores
  /\ \A i \in Declared : Starters[i].core \in Cores
<1>1. Len(Starters) \in Nat /\ MaxNew \in Nat
  BY EngineAssumption, LenProperties
<1>2. \A i \in Declared : Starters[i] \in [core : Cores, isServiceFlag : BOOLEAN]
  BY EngineAssumption, ElementOfSeq DEF Declared
<1> QED BY <1>1, <1>2 DEF Actors, Declared, Services, Cores

\* A step of this kind has nothing to do with the order of the services.
Indifferent ==
  /\ \A s \in Services : (Actor(s) \in alive' <=> Actor(s) \in alive) /\ home'[s] = home[s]
  /\ \A s \in Services : DestroyEvent(s) \in requested' => DestroyEvent(s) \in requested
  /\ UNCHANGED <<lastServiceFlag, pending>>

LEMMA IndifferentKeeps == TurnInv /\ Indifferent => TurnInv'
BY DEF TurnInv, Indifferent, Gone, After

\* The actors of a core and what the engine adds are told apart.
LEMMA Kinds ==
  ASSUME NEW i, NEW j
  PROVE  /\ Actor(i) = Actor(j) <=> i = j
         /\ DestroyEvent(i) = DestroyEvent(j) <=> i = j
         /\ Actor(i) # DestroyEvent(j) /\ Actor(i) # Core(j) /\ Actor(i) # Singleton(j)
         /\ DestroyEvent(i) # Core(j) /\ DestroyEvent(i) # Singleton(j)
         /\ Core(i) # Singleton(j)
BY DEF Actor, DestroyEvent, Core, Singleton

\* The steps of the thread of the Engine but OnStart
LEMMA MainIndifferent ==
  ASSUME \/ StartNodes \/ OnStartThrows \/ (\E c \in Cores : NewCoreActor(c)) \/ StartDone \/ Run
         \/ Finish \/ ShutdownFlags \/ ShutdownInterrupts \/ FinishCount \/ FinishWait
  PROVE  Indifferent
<1>1. CASE \E c \in Cores : NewCoreActor(c)
  BY <1>1, Kinds DEF NewCoreActor, NewCore, Indifferent, main
<1>2. CASE ~\E c \in Cores : NewCoreActor(c)
  BY <1>2 DEF StartNodes, OnStartThrows, StartDone, Run, Finish, ShutdownFlags,
     ShutdownInterrupts, FinishCount, FinishWait, Indifferent, actors, services
<1> QED BY <1>1, <1>2

\* The steps of the loop of a core
LEMMA LoopIndifferent ==
  ASSUME NEW c \in Cores, LoopStep(c)
  PROVE  Indifferent
<1>1. CASE Interrupted(c) \/ IsRunningClear(c) \/ DeleteNode(c)
  BY <1>1 DEF Interrupted, IsRunningClear, DeleteNode, Indifferent, actors, services
<1>2. CASE IsRunningTest(c)
  <2>1. \A s : DestroyEvent(s)[1] = "destroyEvent"
    BY DEF DestroyEvent
  <2> QED BY <1>2, <2>1 DEF IsRunningTest, Indifferent, services
<1> QED BY <1>1, <1>2 DEF LoopStep

\* User code creates no services and deletes nobody at once.
LEMMA UserIndifferent ==
  ASSUME OrderType, NEW c \in Cores, UserStep(c) \/ NewCoreCounted(c) \/ NewCoreRun(c)
  PROVE  Indifferent
<1>1. CASE \E i \in Actors : RequestDestroy(c, i)
  BY <1>1, Kinds DEF RequestDestroy, Indifferent, services
<1>2. CASE \E i \in Actors : NewActor(c, i)
  BY <1>2, Kinds, ServicesAreActors DEF NewActor, Indifferent, OrderType, services
<1>3. CASE \E d \in Cores : NewCoreNode(c, d)
  <2>1. /\ UNCHANGED <<home, requested, lastServiceFlag, pending>>
        /\ UNCHANGED alive \/ \E d \in Cores : alive' = alive \cup {Core(d), Singleton(d)}
    BY <1>3 DEF NewCoreNode, NewCore
  <2> QED BY <2>1, Kinds DEF Indifferent
<1>4. CASE NewCoreCounted(c)
  BY <1>4 DEF NewCoreCounted, Indifferent, actors, services
<1>5. CASE NewCoreRun(c)
  <2>1. /\ UNCHANGED <<requested, lastServiceFlag, pending>>
        /\ \/ UNCHANGED <<home, alive>>
           \/ \E i \in Actors \ Declared :
                home' = [home EXCEPT ![i] = target[c]] /\ alive' = alive \cup {Actor(i)}
    BY <1>5 DEF NewCoreRun, services
  <2> QED BY <2>1, Kinds, ServicesAreActors DEF Indifferent, OrderType
<1> QED BY <1>1, <1>2, <1>3, <1>4, <1>5 DEF UserStep

\* Nor does it matter to the services who else is asked.
LEMMA OthersIndifferent ==
  ASSUME NEW c \in Cores,
         \/ \E i \in Actors : AskActor(c, i)
         \/ \E s \in Services : AskServiceRefused(c, s)
         \/ AskSingleton(c) \/ AskCoreLast(c) \/ AskCoreServices(c) \/ AskCoreRefused(c)
         \/ RegularActorsGone(c)
  PROVE  Indifferent
<1>1. CASE \E i \in Actors : AskActor(c, i)
  BY <1>1, Kinds DEF AskActor, Delete, Indifferent, services
<1>2. CASE \E s \in Services : AskServiceRefused(c, s)
  BY <1>2 DEF AskServiceRefused, Indifferent, services
<1>3. CASE AskSingleton(c)
  BY <1>3, Kinds DEF AskSingleton, Delete, Indifferent, services
<1>4. CASE AskCoreLast(c)
  BY <1>4, Kinds DEF AskCoreLast, ReleasedSingleton, Indifferent, services
<1>5. CASE AskCoreServices(c) \/ AskCoreRefused(c)
  BY <1>5 DEF AskCoreServices, AskCoreRefused, Indifferent, services
<1>6. CASE RegularActorsGone(c)
  BY <1>6, Kinds DEF RegularActorsGone, Indifferent
<1> QED BY <1>1, <1>2, <1>3, <1>4, <1>5, <1>6

\* Starter::onStart() runs in the order of declaration.
LEMMA OnStartKeeps ==
  ASSUME OrderInv, OnStart
  PROVE  TurnInv'
<1> USE DEF OrderInv, StartInOrder, OrderType
<1> DEFINE c == Starters[starting].core
<1>1. /\ engine = "starters" /\ starting \in Declared /\ c \in Cores /\ c # 0
      /\ UNCHANGED <<requested, pending>>
      /\ home' = [home EXCEPT ![starting] = c]
  BY ServicesAreActors DEF OnStart, Declared
<1>2. \A s \in Services : s >= starting => home[s] = 0
  BY <1>1
<1>3. \A s \in Services : s # starting => home'[s] = home[s]
  BY <1>1, ServicesAreActors
<1>4. \A s \in Services : s # starting => (Actor(s) \in alive' <=> Actor(s) \in alive)
  <2>1. \/ alive' = alive \cup {Actor(starting)}
        \/ alive' = alive \cup {Actor(starting), DestroyEvent(starting), Singleton(c)}
    BY DEF OnStart
  <2> QED BY <2>1, Kinds
<1>5. Actor(starting) \in alive'
  BY DEF OnStart
<1>6. \A s \in Services : Gone(s) => s # starting
  BY <1>2, <1>1 DEF Gone
<1>7. \A s \in Services : Gone(s)' <=> Gone(s)
  BY <1>3, <1>4, <1>5, <1>6 DEF Gone
<1>8. \A s \in Services : lastServiceFlag'[s] => lastServiceFlag[s] \/ After(s) = {}
  <2>1. CASE starting \notin Services
    BY <2>1 DEF OnStart
  <2>2. CASE starting \in Services
    <3>1. lastServiceFlag' = [lastServiceFlag EXCEPT ![starting] = \A s \in Services : s <= starting]
      BY <2>2 DEF OnStart
    <3>2. \A s \in Services : s # starting => lastServiceFlag'[s] = lastServiceFlag[s]
      BY <3>1
    <3>3. lastServiceFlag'[starting] => \A s \in Services : s <= starting
      BY <3>1, <2>2
    <3>4. lastServiceFlag'[starting] => After(starting) = {}
      <4> SUFFICES ASSUME lastServiceFlag'[starting], NEW t \in After(starting) PROVE FALSE
        OBVIOUS
      <4>1. t \in Nat /\ starting \in Nat /\ t > starting /\ t <= starting
        BY <3>3, <1>1, ServicesAreActors DEF After
      <4> QED BY <4>1
    <3> QED BY <3>2, <3>4
  <2> QED BY <2>1, <2>2
<1> QED BY <1>1, <1>7, <1>8 DEF TurnInv, After

\* A service that accepts has nobody after it, and releases its DestroyEventActor.
LEMMA AskServiceKeeps ==
  ASSUME OrderInv, NEW c \in Cores, NEW s \in Services, AskService(c, s)
  PROVE  TurnInv'
<1>1. /\ lastServiceFlag[s] /\ UNCHANGED <<home, lastServiceFlag, pending>>
      /\ alive' = alive \ {Actor(s)} /\ Actor(s) \in At(c, alive)
      /\ \A t \in Services : DestroyEvent(t) \in requested' => DestroyEvent(t) \in requested \/ t = s
  <2>1. \A t \in Services : DestroyEvent(t) \notin ReleasedSingleton(c, alive \ {Actor(s)})
    BY Kinds DEF ReleasedSingleton
  <2>2. lastServiceFlag[s] /\ Actor(s) \in At(c, alive) /\ alive' = alive \ {Actor(s)}
    BY DEF AskService, Asked, Delete
  <2>3. UNCHANGED <<home, lastServiceFlag, pending>>
    BY DEF AskService, Delete, services
  <2>4. \/ requested' = (requested \ {Actor(s)}) \cup ({DestroyEvent(s)} \cup ReleasedSingleton(c, alive \ {Actor(s)}))
        \/ requested' = (requested \ {Actor(s)}) \cup ({DestroyEvent(s)} \cup ReleasedSingleton(c, alive \ {Actor(s)}))
                           \cup {Core(c)}
    BY DEF AskService, Delete
  <2>5. \A t \in Services : DestroyEvent(t) \in requested' => DestroyEvent(t) \in requested \/ t = s
    BY ONLY <2>1, <2>4, Kinds
  <2> QED BY <2>2, <2>3, <2>5
<1>2. home[s] = c
  <2>1. Actor(s) \in {Actor(i) : i \in {j \in Actors : home[j] = c}}
    BY <1>1, Kinds DEF At
  <2> QED BY <2>1, Kinds
<1>3. Gone(s)'
  BY <1>1, <1>2, ServicesAreActors DEF Gone
<1>4. \A t \in Services : t # s => (Gone(t)' <=> Gone(t))
  BY <1>1, Kinds DEF Gone
<1>5. \A t \in After(s) : Gone(t)
  BY <1>1 DEF OrderInv, TurnInv
<1>6. \A t \in Services : Gone(t) => Gone(t)'
  BY <1>3, <1>4
<1> QED BY <1>1, <1>3, <1>4, <1>5, <1>6 DEF OrderInv, TurnInv, After

\* The event that its DestroyEventActor sends is for the one before.
LEMMA AskDestroyEventKeeps ==
  ASSUME OrderInv, NEW c \in Cores, NEW s \in Services, AskDestroyEvent(c, s)
  PROVE  TurnInv'
<1>1. /\ DestroyEvent(s) \in requested /\ UNCHANGED <<home, lastServiceFlag>>
      /\ pending' = pending \cup Previous(s)
      /\ alive' = alive \ {DestroyEvent(s)}
      /\ \A t \in Services : DestroyEvent(t) \in requested' => DestroyEvent(t) \in requested
  BY Kinds DEF AskDestroyEvent, Asked, Delete
<1>2. \A t \in Services : Gone(t)' <=> Gone(t)
  BY <1>1, Kinds DEF Gone
<1>3. Gone(s) /\ \A u \in After(s) : Gone(u)
  BY <1>1 DEF OrderInv, TurnInv
<1>4. \A t \in Previous(s) : \A u \in After(t) : u = s \/ u \in After(s)
  BY ServicesAreActors DEF Previous, After
<1> QED BY <1>1, <1>2, <1>3, <1>4 DEF OrderInv, TurnInv, After

\* Whoever gets the event has its turn.
LEMMA OnServiceDestroyEventKeeps ==
  ASSUME OrderInv, NEW s \in Services, OnServiceDestroyEvent(s)
  PROVE  TurnInv'
<1>1. /\ s \in pending /\ pending' = pending \ {s} /\ UNCHANGED <<home, alive>>
      /\ \A t \in Services : lastServiceFlag'[t] => lastServiceFlag[t] \/ t = s
      /\ \A t \in Services : DestroyEvent(t) \in requested' => DestroyEvent(t) \in requested
  BY Kinds DEF OnServiceDestroyEvent, OrderInv, OrderType
<1> QED BY <1>1 DEF OrderInv, TurnInv, Gone, After

LEMMA TurnStep ==
  ASSUME OrderInv, Next
  PROVE  TurnInv'
<1>1. OrderType /\ TurnInv
  BY DEF OrderInv
<1>2. CASE MainStep \/ OnStartThrows \/ Finish
  BY <1>1, <1>2, OnStartKeeps, MainIndifferent, IndifferentKeeps DEF MainStep
<1>3. ASSUME NEW c \in Cores, LoopStep(c) \/ UserStep(c) \/ NewCoreCounted(c) \/ NewCoreRun(c)
      PROVE  TurnInv'
  BY <1>1, <1>3, LoopIndifferent, UserIndifferent, IndifferentKeeps
<1>4. ASSUME NEW c \in Cores, Progress(c) \/ \E s \in Services : AskServiceRefused(c, s)
      PROVE  TurnInv'
  BY <1>1, <1>4, OthersIndifferent, IndifferentKeeps, AskServiceKeeps, AskDestroyEventKeeps,
     OnServiceDestroyEventKeeps DEF Progress
<1> QED BY <1>2, <1>3, <1>4 DEF Next

-----------------------------------------------------------------------------
(* Types and the order of the start.                                       *)

\* Steps that have nothing to do with either
LEMMA StartStep ==
  ASSUME OrderInv, Next
  PROVE  StartInOrder'
<1> USE DEF OrderInv, OrderType, StartInOrder
<1>1. CASE StartNodes
  BY <1>1 DEF StartNodes, actors
<1>2. CASE OnStart
  BY <1>2, ServicesAreActors DEF OnStart
<1>3. CASE \E c \in Cores : NewCoreActor(c)
  BY <1>3 DEF NewCoreActor, main
<1>4. CASE StartDone \/ Run \/ OnStartThrows \/ Finish \/ ShutdownFlags \/ ShutdownInterrupts
           \/ FinishCount \/ FinishWait
  <2>1. engine' \notin {"start", "starters"}
    BY <1>4 DEF StartDone, Run, OnStartThrows, Finish, ShutdownFlags, ShutdownInterrupts,
       FinishCount, FinishWait
  <2> QED BY <2>1
<1>5. ASSUME NEW c \in Cores,
             LoopStep(c) \/ Progress(c) \/ UserStep(c) \/ NewCoreCounted(c) \/ NewCoreRun(c)
               \/ \E s \in Services : AskServiceRefused(c, s)
      PROVE  StartInOrder'
  <2>1. UNCHANGED <<engine, starting>>
    BY <1>5 DEF LoopStep, Interrupted, IsRunningClear, IsRunningTest, DeleteNode, Progress,
       AskActor, AskService, AskDestroyEvent, AskSingleton, AskCoreLast, AskCoreServices,
       AskCoreRefused, RegularActorsGone, OnServiceDestroyEvent, UserStep, RequestDestroy,
       NewActor, NewCoreNode, NewCoreCounted, NewCoreRun, AskServiceRefused, main
  <2>2. \A s \in Services : home'[s] = home[s]
    <3>1. CASE LoopStep(c)
      BY <3>1, LoopIndifferent DEF Indifferent
    <3>2. CASE UserStep(c) \/ NewCoreCounted(c) \/ NewCoreRun(c)
      BY <3>2, UserIndifferent DEF Indifferent
    <3>3. CASE Progress(c) \/ \E s \in Services : AskServiceRefused(c, s)
      BY <3>3 DEF Progress, AskActor, AskService, AskDestroyEvent, AskSingleton, AskCoreLast,
         AskCoreServices, AskCoreRefused, RegularActorsGone, OnServiceDestroyEvent,
         AskServiceRefused, Delete
    <3> QED BY <1>5, <3>1, <3>2, <3>3
  <2> QED BY <2>1, <2>2
<1> QED BY <1>1, <1>2, <1>3, <1>4, <1>5 DEF Next, MainStep

LEMMA OrderTypeStep ==
  ASSUME OrderType, Next
  PROVE  OrderType'
<1> USE DEF OrderType
<1>1. CASE OnStart
  <2>1. starting \in Declared /\ starting' = starting + 1 /\ UNCHANGED <<pending, target>>
    BY <1>1, ServicesAreActors DEF OnStart, Declared, thread
  <2>2. home' \in [Actors -> {0} \cup Cores]
    BY <1>1, <2>1, ServicesAreActors DEF OnStart
  <2>3. lastServiceFlag' \in [Services -> BOOLEAN]
    <3>1. (\A s \in Services : s <= starting) \in BOOLEAN
      OBVIOUS
    <3> QED BY <1>1, <3>1 DEF OnStart
  <2> QED BY <2>1, <2>2, <2>3
<1>2. CASE \/ StartNodes \/ OnStartThrows \/ (\E c \in Cores : NewCoreActor(c)) \/ StartDone \/ Run
           \/ Finish \/ ShutdownFlags \/ ShutdownInterrupts \/ FinishCount \/ FinishWait
  <2>1. UNCHANGED <<home, target, lastServiceFlag, pending>>
    BY <1>2 DEF StartNodes, OnStartThrows, NewCoreActor, StartDone, Run, Finish, ShutdownFlags,
       ShutdownInterrupts, FinishCount, FinishWait, actors, services, thread
  <2>2. starting' \in {starting, starting + 1, 1}
    BY <1>2 DEF StartNodes, OnStartThrows, NewCoreActor, StartDone, Run, Finish, ShutdownFlags,
       ShutdownInterrupts, FinishCount, FinishWait, main
  <2> QED BY <2>1, <2>2
<1>3. ASSUME NEW c \in Cores, LoopStep(c) \/ NewCoreCounted(c) \/ \E s \in Services : AskServiceRefused(c, s)
      PROVE  OrderType'
  BY <1>3 DEF LoopStep, Interrupted, IsRunningClear, IsRunningTest, DeleteNode, NewCoreCounted,
     AskServiceRefused, main, actors, services, thread
<1>4. ASSUME NEW c \in Cores, UserStep(c) \/ NewCoreRun(c)
      PROVE  OrderType'
  <2>1. UNCHANGED <<starting, lastServiceFlag, pending>>
    BY <1>4 DEF UserStep, RequestDestroy, NewActor, NewCoreNode, NewCoreRun, main, services
  <2>2. home' \in [Actors -> {0} \cup Cores]
    <3>1. UNCHANGED home \/ \E i \in Actors, d \in {0} \cup Cores : home' = [home EXCEPT ![i] = d]
      <4>1. CASE UserStep(c)
        BY <4>1 DEF UserStep, RequestDestroy, NewActor, NewCoreNode
      <4>2. CASE NewCoreRun(c)
        BY <4>2 DEF NewCoreRun
      <4> QED BY <1>4, <4>1, <4>2
    <3> QED BY <3>1
  <2>3. target' \in [Cores -> {0} \cup Cores]
    BY <1>4 DEF UserStep, RequestDestroy, NewActor, NewCoreNode, NewCoreRun, thread
  <2> QED BY <2>1, <2>2, <2>3
<1>5. ASSUME NEW c \in Cores, Progress(c)
      PROVE  OrderType'
  <2>1. UNCHANGED <<home, target, starting>>
    BY <1>5 DEF Progress, AskActor, AskService, AskDestroyEvent, AskSingleton, AskCoreLast,
       AskCoreServices, AskCoreRefused, RegularActorsGone, OnServiceDestroyEvent, Delete, main,
       thread
  <2>2. lastServiceFlag' \in [Services -> BOOLEAN] /\ pending' \subseteq Services
    BY <1>5 DEF Progress, AskActor, AskService, AskDestroyEvent, AskSingleton, AskCoreLast,
       AskCoreServices, AskCoreRefused, RegularActorsGone, OnServiceDestroyEvent, Previous,
       services
  <2> QED BY <2>1, <2>2
<1> QED BY <1>1, <1>2, <1>3, <1>4, <1>5 DEF Next, MainStep

\* Nobody has had a turn before the start.
LEMMA OrderInit == Init => OrderInv
<1> SUFFICES ASSUME Init PROVE OrderInv
  OBVIOUS
<1>1. OrderType
  BY DEF Init, OrderType, All
<1>2. StartInOrder
  BY ServicesAreActors DEF Init, StartInOrder
<1>3. TurnInv
  <2>1. \A s \in Services : home[s] = 0 /\ s \notin pending /\ ~lastServiceFlag[s]
    BY ServicesAreActors DEF Init
  <2> QED BY <2>1 DEF Init, TurnInv, Gone
<1> QED BY <1>1, <1>2, <1>3 DEF OrderInv

\* The invariant behind the order of destruction
THEOREM OrderInvariant == Spec => []OrderInv
<1>1. OrderInv /\ UNCHANGED vars => OrderInv'
  BY DEF OrderInv, OrderType, StartInOrder, TurnInv, Gone, vars, main, actors, services, thread
<1>2. OrderInv /\ [Next]_vars => OrderInv'
  BY <1>1, TurnStep, StartStep, OrderTypeStep DEF OrderInv
<1> QED BY OrderInit, <1>2, PTL DEF Spec

\* A service is deleted in AskService() only.
LEMMA ServiceDeleted ==
  ASSUME OrderInv, Next, NEW s \in Services, Actor(s) \in alive, Actor(s) \notin alive'
  PROVE  lastServiceFlag[s]
<1>1. ~Indifferent
  BY DEF Indifferent
<1>2. ~OnStart
  BY DEF OnStart
<1>3. PICK c \in Cores : \E t \in Services : AskService(c, t) \/ AskDestroyEvent(c, t) \/ OnServiceDestroyEvent(t)
  BY <1>1, <1>2, MainIndifferent, LoopIndifferent, UserIndifferent, OthersIndifferent
     DEF Next, MainStep, Progress, OrderInv
<1> QED BY <1>3, Kinds DEF AskService, AskDestroyEvent, OnServiceDestroyEvent, Delete

\* Services are destroyed in the reverse order of their declaration, whatever cores they
\* are on and however many, and whatever users do meanwhile (ServiceActor, StartSequence).
THEOREM ServicesInReverse == Spec => ReverseOrder
<1>1. OrderInv /\ [Next]_vars =>
        [\A s \in Services : (Actor(s) \in alive /\ Actor(s) \notin alive')
            => \A t \in Services : t > s => Actor(t) \notin alive]_vars
  <2> SUFFICES ASSUME OrderInv, Next, NEW s \in Services, Actor(s) \in alive, Actor(s) \notin alive',
                      NEW t \in Services, t > s
               PROVE  Actor(t) \notin alive
    OBVIOUS
  <2>1. lastServiceFlag[s]
    BY ServiceDeleted
  <2> QED BY <2>1 DEF OrderInv, TurnInv, After, Gone
<1> QED BY OrderInvariant, <1>1, PTL DEF Spec, ReverseOrder

-----------------------------------------------------------------------------
\* The assertions, the count and the order of regular actors and services

Named(c) == \E i \in Declared : Starters[i].core = c
Starting == engine \in {"start", "starters"}
InNewCore(e) == pc[e] \in {"newCore", "newCoreStarter"}
Counted == {c \in Cores : /\ Core(c) \in alive /\ ~regularActorsCoreCountFlag[c]
                          /\ \A e \in Cores : ~(pc[e] = "newCore" /\ target[e] = c)}

\* The ServiceSingletonActor of c has services.
HasServices(c) == \E s \in Services : home[s] = c /\ Actor(s) \in alive
\* Nobody is on core c.
Deserted(c) ==
  /\ Core(c) \notin alive /\ Singleton(c) \notin alive
  /\ \A i \in Actors : home[i] = c => Actor(i) \notin alive
  /\ \A s \in Services : home[s] = c => DestroyEvent(s) \notin alive

EngineType ==
  /\ failed \in BOOLEAN
  /\ node \in [Cores -> {"none", "built", "running", "ended"}]
  /\ isServiceDestroyTimeFlag \in [Cores -> BOOLEAN]
  /\ regularActorsCoreCountFlag \in [Cores -> BOOLEAN] /\ callback \in [Cores -> BOOLEAN]
  /\ shutdownFlag \in [Cores -> BOOLEAN] /\ stopFlag \in [Cores -> BOOLEAN]
  /\ interruptFlag \in [Cores -> BOOLEAN] /\ isBeingDestroyedFlag \in [Cores -> BOOLEAN]
  /\ pc \in [Cores -> {"isRunning", "isRunningTest", "synchronize", "newCore", "newCoreStarter", "ended"}]
LoopInv ==
  \A c \in Cores :
    /\ pc[c] \in {"isRunning", "ended"} => interruptFlag[c]
    /\ node[c] # "running" => pc[c] = "isRunning" /\ ~isBeingDestroyedFlag[c]
    /\ isBeingDestroyedFlag[c] => stopFlag[c] \/ shutdownFlag[c]
    /\ pc[c] = "ended" \/ node[c] \in {"none", "ended"} => Deserted(c)
NewCoreInv ==
  \A c \in Cores : InNewCore(c) =>
    /\ target[c] \in Cores /\ node[target[c]] = "built"
    /\ \A e \in Cores : InNewCore(e) /\ target[e] = target[c] => e = c
    /\ \/ Core(target[c]) \in alive /\ ~regularActorsCoreCountFlag[target[c]]
       \/ pc[c] = "newCoreStarter" /\ shutdownFlag[target[c]]
StartInv ==
  /\ Starting => /\ ~failed /\ requested = {}
                 /\ \A i \in Declared : home[i] # 0 <=> i < starting
                 /\ \A i \in Actors : home[i] # 0 => Named(home[i])
                 /\ \A c \in Cores : /\ pc[c] = "isRunning" /\ node[c] \in {"none", "built"}
                                     /\ Named(c) /\ engine = "starters" => node[c] = "built"
                                     /\ ~regularActorsCoreCountFlag[c]
                                     /\ Core(c) \in alive => ~isServiceDestroyTimeFlag[c]
  /\ engine = "start" => alive = {}
  /\ engine = "run" => \A c \in Cores : Named(c) /\ c >= starting =>
       /\ node[c] = "built" /\ (~failed => Core(c) \in alive)
       /\ \A e \in Cores : InNewCore(e) => target[e] # c
PlaceInv ==
  /\ requested \subseteq alive
  /\ \A i \in Actors : Actor(i) \in alive => home[i] # 0
  /\ \A s \in Services : /\ DestroyEvent(s) \in alive => home[s] # 0
                         /\ Actor(s) \in alive => DestroyEvent(s) \in alive
                         /\ Gone(s) => lastServiceFlag[s]
  /\ \A s, t \in Services : s < t /\ home[t] # 0 => home[s] # 0
  /\ \A c \in Cores : /\ Core(c) \in alive \/ HasServices(c) => Singleton(c) \in alive
                      /\ Singleton(c) \in requested => Core(c) \notin alive /\ ~HasServices(c)
ToldInv ==
  /\ \A s \in pending : Actor(s) \in alive /\ ~lastServiceFlag[s]
  /\ \A t \in Services : home[t] = 0 \/ DestroyEvent(t) \in alive =>
       \A s \in Previous(t) : s \notin pending /\ ~lastServiceFlag[s]
CoreInv ==
  \A c \in Cores :
    /\ callback[c] => /\ Core(c) \in alive /\ ~isServiceDestroyTimeFlag[c]
                      /\ regularActorsCoreCountFlag[c] /\ HasServices(c)
    /\ Core(c) \in alive /\ isServiceDestroyTimeFlag[c] => regularActorsCoreCountFlag[c]
    /\ Core(c) \in alive /\ regularActorsCoreCountFlag[c] => shutdownFlag[c]
FlagInv ==
  /\ engine = "running" => starting = 1
  /\ engine = "shutdown" => \A c \in Cores : c < starting => shutdownFlag[c]
  /\ engine \in {"interrupt", "count", "wait", "ended"} => \A c \in Cores : shutdownFlag[c]
RegularInv ==
  ~failed /\ ~Starting =>
    /\ \A i \in Actors \ Services : Actor(i) \in alive => home[i] \in Counted
    /\ \A c \in Cores : node[c] = "running" => Core(c) \in alive \/ stopFlag[c] \/ shutdownFlag[c]
    /\ \A c \in Cores : isServiceDestroyTimeFlag[c] /\ HasServices(c) =>
         engine \in {"wait", "ended"} /\ Regular = {}

EngineInv ==
  /\ OrderInv /\ EngineType
  /\ LoopInv /\ NewCoreInv /\ StartInv /\ PlaceInv /\ ToldInv /\ CoreInv /\ FlagInv /\ RegularInv
  /\ CountRight

\* Whom the destruction walk of a core finds, and which services its singleton lists
LEMMA AtDeserted ==
  /\ \A c, live : At(c, live) = {} <=>
       /\ Core(c) \notin live /\ Singleton(c) \notin live
       /\ \A i \in Actors : home[i] = c => Actor(i) \notin live
       /\ \A s \in Services : home[s] = c => DestroyEvent(s) \notin live
  /\ \A c, live, e : e \in At(c, live) => e \in live
  /\ \A c, live, i \in Actors : Actor(i) \in At(c, live) <=> Actor(i) \in live /\ home[i] = c
  /\ \A c, live, s \in Services : DestroyEvent(s) \in At(c, live) <=> DestroyEvent(s) \in live /\ home[s] = c
  /\ \A c, live : serviceActorList(c, live) = {} <=> \A s \in Services : home[s] = c => Actor(s) \notin live
<1>1. \A c, live : At(c, live) = {} <=>
       /\ Core(c) \notin live /\ Singleton(c) \notin live
       /\ \A i \in Actors : home[i] = c => Actor(i) \notin live
       /\ \A s \in Services : home[s] = c => DestroyEvent(s) \notin live
  BY DEF At
<1>2. \A c, live, e : e \in At(c, live) => e \in live
  BY DEF At
<1>3. \A c, live, i \in Actors : Actor(i) \in At(c, live) <=> Actor(i) \in live /\ home[i] = c
  BY Kinds DEF At
<1>4. \A c, live, s \in Services : DestroyEvent(s) \in At(c, live) <=> DestroyEvent(s) \in live /\ home[s] = c
  BY Kinds DEF At
<1>5. \A c, live : serviceActorList(c, live) = {} <=> \A s \in Services : home[s] = c => Actor(s) \notin live
  BY DEF serviceActorList
<1> QED BY <1>1, <1>2, <1>3, <1>4, <1>5

\* What kind of actor it is, and whose
LEMMA Tags ==
  /\ \A i : Actor(i)[1] = "actor" /\ Actor(i)[2] = i
  /\ \A s : DestroyEvent(s)[1] = "destroyEvent" /\ DestroyEvent(s)[2] = s
  /\ \A c : Core(c)[1] = "core" /\ Core(c)[2] = c
  /\ \A c : Singleton(c)[1] = "singleton" /\ Singleton(c)[2] = c
BY DEF Actor, DestroyEvent, Core, Singleton

\* Setting the flag of one core leaves a flag for every core.
LEMMA FlagSet ==
  ASSUME NEW f \in [Cores -> BOOLEAN], NEW c, NEW v \in BOOLEAN
  PROVE  [f EXCEPT ![c] = v] \in [Cores -> BOOLEAN]
OBVIOUS

\* StopIf() only sets flags.
LEMMA StopIfType ==
  ASSUME EngineType, NEW c, NEW p \in BOOLEAN, StopIf(c, p)
  PROVE  stopFlag' \in [Cores -> BOOLEAN] /\ interruptFlag' \in [Cores -> BOOLEAN]
BY FlagSet DEF EngineType, StopIf

\* The flags stay flags, the states of nodes and threads among those of the code.
LEMMA EngineTypeStep ==
  ASSUME EngineType, OrderType, Next
  PROVE  EngineType'
<1> USE DEF EngineType, OrderType
<1>1. CASE OnStartThrows \/ ShutdownFlags \/ ShutdownInterrupts
  <2>1. CASE OnStartThrows
    BY <2>1, StopIfType, ServicesAreActors DEF OnStartThrows, actors, services, counting, thread
  <2>2. CASE ShutdownFlags
    <3>1. shutdownFlag' \in [Cores -> BOOLEAN]
      BY <2>2, FlagSet DEF ShutdownFlags
    <3> QED BY <2>2, <3>1 DEF ShutdownFlags, actors, services, counting, nodeFlags, thread
  <2>3. CASE ShutdownInterrupts
    <3>1. interruptFlag' \in [Cores -> BOOLEAN]
      BY <2>3, FlagSet DEF ShutdownInterrupts
    <3> QED BY <2>3, <3>1 DEF ShutdownInterrupts, actors, services, counting, nodeFlags, thread
  <2> QED BY <1>1, <2>1, <2>2, <2>3
<1>2. CASE \/ StartNodes \/ OnStart \/ (\E c \in Cores : NewCoreActor(c)) \/ StartDone \/ Run \/ Finish
           \/ FinishCount \/ FinishWait
  <2>1. CASE StartNodes \/ OnStart
    BY <2>1 DEF StartNodes, OnStart, actors, services, counting, nodeFlags, thread
  <2>3. ASSUME NEW c \in Cores, NewCoreActor(c) PROVE EngineType'
    BY <2>3, FlagSet DEF NewCoreActor, NewCore, main, nodeFlags, thread
  <2>2. CASE StartDone \/ Run \/ Finish \/ FinishCount \/ FinishWait
    BY <2>2 DEF StartDone, Run, Finish, FinishCount, FinishWait, main, actors, services, counting,
       nodeFlags, thread
  <2> QED BY <1>2, <2>1, <2>2, <2>3
<1>3. ASSUME NEW c \in Cores, LoopStep(c) \/ NewCoreCounted(c) \/ \E s \in Services : AskServiceRefused(c, s)
      PROVE  EngineType'
  <2>1. CASE IsRunningTest(c)
    BY <2>1 DEF IsRunningTest, main, services, counting
  <2>2. CASE Interrupted(c)
    BY <2>2 DEF Interrupted, main, services, counting, nodeFlags
  <2>3. CASE IsRunningClear(c)
    BY <2>3, FlagSet DEF IsRunningClear, main, services, counting
  <2>4. CASE DeleteNode(c)
    BY <2>4, FlagSet DEF DeleteNode, main, services, counting, nodeFlags
  <2>5. CASE NewCoreCounted(c)
    BY <2>5 DEF NewCoreCounted, main, services, nodeFlags
  <2>6. CASE \E s \in Services : AskServiceRefused(c, s)
    BY <2>6 DEF AskServiceRefused, main, services, counting, nodeFlags, thread
  <2> QED BY <1>3, <2>1, <2>2, <2>3, <2>4, <2>5, <2>6 DEF LoopStep
<1>4. ASSUME NEW c \in Cores, NewCoreRun(c) PROVE EngineType'
  <2>1. stopFlag' \in [Cores -> BOOLEAN] /\ interruptFlag' \in [Cores -> BOOLEAN]
    BY <1>4, StopIfType DEF NewCoreRun, nodeFlags
  <2>2. UNCHANGED <<failed, isServiceDestroyTimeFlag, regularActorsCoreCountFlag, callback,
                    shutdownFlag, isBeingDestroyedFlag>>
        /\ node' = [node EXCEPT ![target[c]] = "running"]
        /\ pc' = [pc EXCEPT ![c] = "synchronize"]
    BY <1>4 DEF NewCoreRun, main, services, counting
  <2> QED BY <2>1, <2>2
<1>5. ASSUME NEW c \in Cores, UserStep(c) PROVE EngineType'
  <2>1. CASE \E d \in Cores : NewCoreNode(c, d)
    <3> PICK d \in Cores : NewCoreNode(c, d)
      BY <2>1
    <3>1. /\ node' = [node EXCEPT ![d] = "built"] /\ stopFlag' = [stopFlag EXCEPT ![d] = FALSE]
          /\ pc' \in [Cores -> {"isRunning", "isRunningTest", "synchronize", "newCore", "newCoreStarter", "ended"}]
          /\ UNCHANGED <<failed, shutdownFlag, interruptFlag, isBeingDestroyedFlag>>
      BY DEF NewCoreNode, main
    <3>2. /\ isServiceDestroyTimeFlag' \in [Cores -> BOOLEAN]
          /\ regularActorsCoreCountFlag' \in [Cores -> BOOLEAN] /\ callback' \in [Cores -> BOOLEAN]
      BY DEF NewCoreNode, NewCore
    <3> QED BY <3>1, <3>2
  <2>2. CASE ~\E d \in Cores : NewCoreNode(c, d)
    BY <1>5, <2>2 DEF UserStep, RequestDestroy, NewActor, main, services, counting, nodeFlags, thread
  <2> QED BY <2>1, <2>2
<1>6. ASSUME NEW c \in Cores, Progress(c) PROVE EngineType'
  <2>1. UNCHANGED <<failed, node, shutdownFlag, isBeingDestroyedFlag, pc>>
    BY <1>6 DEF Progress, AskActor, AskService, AskDestroyEvent, AskSingleton, AskCoreLast,
       AskCoreServices, AskCoreRefused, RegularActorsGone, OnServiceDestroyEvent, main, thread
  <2>2. stopFlag' \in [Cores -> BOOLEAN] /\ interruptFlag' \in [Cores -> BOOLEAN]
    <3>1. ASSUME NEW e, NEW r, Delete(c, e, r) PROVE <2>2!:
      BY <3>1, StopIfType DEF Delete
    <3>2. CASE \/ \E i \in Actors : AskActor(c, i)
               \/ \E s \in Services : AskService(c, s) \/ AskDestroyEvent(c, s)
               \/ AskSingleton(c)
      BY <3>1, <3>2 DEF AskActor, AskService, AskDestroyEvent, AskSingleton
    <3>3. CASE AskCoreLast(c)
      BY <3>3, FlagSet DEF AskCoreLast
    <3>4. CASE \/ AskCoreServices(c) \/ AskCoreRefused(c) \/ RegularActorsGone(c)
               \/ \E s \in Services : OnServiceDestroyEvent(s)
      BY <3>4 DEF AskCoreServices, AskCoreRefused, RegularActorsGone, OnServiceDestroyEvent, nodeFlags
    <3> QED BY <1>6, <3>2, <3>3, <3>4 DEF Progress
  <2>3. /\ isServiceDestroyTimeFlag' \in [Cores -> BOOLEAN]
        /\ regularActorsCoreCountFlag' \in [Cores -> BOOLEAN] /\ callback' \in [Cores -> BOOLEAN]
    <3>1. CASE AskCoreServices(c)
      <4>1. isServiceDestroyTimeFlag' = isServiceDestroyTimeFlag
        BY <3>1 DEF AskCoreServices, services
      <4>2. \/ UNCHANGED counting
            \/ CountDown(c) /\ callback' = [callback EXCEPT ![c] = TRUE]
        BY <3>1 DEF AskCoreServices
      <4> QED BY <4>1, <4>2, FlagSet DEF CountDown, counting
    <3>2. CASE ~AskCoreServices(c)
      BY <1>6, <3>2 DEF Progress, AskActor, AskService, AskDestroyEvent, AskSingleton, AskCoreLast,
         CountDown, AskCoreRefused, RegularActorsGone, OnServiceDestroyEvent, services, counting
    <3> QED BY <3>1, <3>2
  <2> QED BY <2>1, <2>2, <2>3
<1> QED BY <1>1, <1>2, <1>3, <1>4, <1>5, <1>6 DEF Next, MainStep

\* What a starter does, element by element
LEMMA OnStartEffect ==
  ASSUME OrderType, OnStart
  PROVE  LET c == Starters[starting].core IN
         /\ engine = "starters" /\ starting \in Declared /\ c \in Cores /\ Named(c)
         /\ starting' = starting + 1
         /\ home'[starting] = c /\ \A i \in Actors : i # starting => home'[i] = home[i]
         /\ \A e : e \in alive' <=> \/ e \in alive \/ e = Actor(starting)
                                    \/ starting \in Services /\ e \in {DestroyEvent(starting), Singleton(c)}
         /\ \A s \in Services : s # starting => lastServiceFlag'[s] = lastServiceFlag[s]
         /\ starting \in Services /\ lastServiceFlag'[starting] => \A s \in Services : s <= starting
         /\ UNCHANGED <<engine, failed, node, requested, isServiceDestroyTimeFlag, pending, counting,
                        shutdownFlag, nodeFlags, thread>>
<1> DEFINE c == Starters[starting].core
<1>1. engine = "starters" /\ starting \in Declared /\ c \in Cores /\ Named(c) /\ starting' = starting + 1
  BY ServicesAreActors DEF OnStart, Declared, OrderType, Named
<1>2. home'[starting] = c /\ \A i \in Actors : i # starting => home'[i] = home[i]
  BY <1>1, ServicesAreActors DEF OnStart, OrderType
<1>3. \A e : e \in alive' <=> \/ e \in alive \/ e = Actor(starting)
                              \/ starting \in Services /\ e \in {DestroyEvent(starting), Singleton(c)}
  BY DEF OnStart
<1>4. \A s \in Services : s # starting => lastServiceFlag'[s] = lastServiceFlag[s]
  BY DEF OnStart, OrderType
<1>6. starting \in Services /\ lastServiceFlag'[starting] => \A s \in Services : s <= starting
  BY DEF OnStart, OrderType
<1>5. UNCHANGED <<engine, failed, node, requested, isServiceDestroyTimeFlag, pending, counting,
                  shutdownFlag, nodeFlags, thread>>
  BY DEF OnStart
<1> QED BY <1>1, <1>2, <1>3, <1>4, <1>5, <1>6

\* A starter puts its actor on a core that newCore() has built and that no thread runs yet.
LEMMA OnStartLoop ==
  ASSUME OrderType, StartInv, LoopInv, OnStart
  PROVE  LoopInv'
<1> DEFINE c == Starters[starting].core
<1>1. engine = "starters" /\ c \in Cores /\ Named(c) /\ UNCHANGED <<node, pc, interruptFlag, isBeingDestroyedFlag, stopFlag, shutdownFlag>>
  BY OnStartEffect DEF nodeFlags, thread
<1>2. node[c] = "built" /\ \A d \in Cores : pc[d] = "isRunning"
  BY <1>1 DEF StartInv, Starting
<1>3. \A d \in Cores : d # c /\ Deserted(d) => Deserted(d)'
  BY OnStartEffect, Tags, ServicesAreActors DEF Deserted
<1> QED BY <1>1, <1>2, <1>3 DEF LoopInv

\* A starter touches no CoreActor.
LEMMA OnStartCore ==
  ASSUME OrderType, StartInv, CoreInv, OnStart
  PROVE  CoreInv'
<1> DEFINE c == Starters[starting].core
<1>1. UNCHANGED <<callback, isServiceDestroyTimeFlag, regularActorsCoreCountFlag, shutdownFlag>>
  BY OnStartEffect DEF counting
<1>2. \A d \in Cores : Core(d) \in alive' <=> Core(d) \in alive
  BY OnStartEffect, Tags
<1>3. \A d \in Cores : HasServices(d) => HasServices(d)'
  BY OnStartEffect, Tags, ServicesAreActors DEF HasServices, StartInv, Starting
<1> QED BY <1>1, <1>2, <1>3 DEF CoreInv

\* A starter that adds a service adds its DestroyEvent actor, and the singleton if there is none.
LEMMA OnStartPlace ==
  ASSUME OrderType, StartInv, PlaceInv, StartInOrder, OnStart
  PROVE  PlaceInv'
<1> DEFINE c == Starters[starting].core
<1>1. requested' = {} /\ starting \in Nat /\ engine = "starters"
  BY OnStartEffect DEF StartInv, Starting, OrderType
<1>2. \A i \in Actors : Actor(i) \in alive' => home'[i] # 0
  BY OnStartEffect, Tags, ServicesAreActors DEF PlaceInv
<1>3. \A s \in Services : /\ DestroyEvent(s) \in alive' => home'[s] # 0
                          /\ Actor(s) \in alive' => DestroyEvent(s) \in alive'
                          /\ Gone(s)' => lastServiceFlag'[s]
  BY OnStartEffect, Tags, ServicesAreActors DEF PlaceInv, Gone
<1>4. \A s, t \in Services : s < t /\ home'[t] # 0 => home'[s] # 0
  BY <1>1, OnStartEffect, ServicesAreActors DEF StartInv, Starting
<1>5. \A d \in Cores : Core(d) \in alive' \/ HasServices(d)' => Singleton(d) \in alive'
  <2> SUFFICES ASSUME NEW d \in Cores, Core(d) \in alive' \/ HasServices(d)', d # c \/ starting \notin Services
               PROVE  Singleton(d) \in alive'
    BY OnStartEffect
  <2>1. Core(d) \in alive \/ HasServices(d)
    BY OnStartEffect, Tags, ServicesAreActors DEF HasServices
  <2> QED BY <2>1, OnStartEffect DEF PlaceInv
<1> QED BY <1>1, <1>2, <1>3, <1>4, <1>5 DEF PlaceInv

\* The actors of the starters that have run, and only those, have a core.
LEMMA OnStartStart ==
  ASSUME OrderType, StartInv, LoopInv, OnStart
  PROVE  StartInv'
<1> DEFINE c == Starters[starting].core
<1>1. /\ starting \in Nat /\ engine = "starters" /\ c \in Cores /\ Named(c) /\ starting' = starting + 1
      /\ UNCHANGED <<engine, failed, node, pc, target, requested, isServiceDestroyTimeFlag, regularActorsCoreCountFlag>>
  BY OnStartEffect DEF OrderType, counting, thread
<1>2. \A d \in Cores : Core(d) \in alive' <=> Core(d) \in alive
  BY OnStartEffect, Tags
<1>3. \A i \in Declared : home'[i] # 0 <=> i < starting + 1
  <2>1. \A i \in Declared : i # starting => home'[i] = home[i]
    BY OnStartEffect, ServicesAreActors
  <2>2. \A i \in Declared : i # starting => (i < starting + 1 <=> i < starting)
    BY <1>1 DEF Declared
  <2>3. home'[starting] # 0
    BY OnStartEffect, ServicesAreActors
  <2> QED BY <1>1, <2>1, <2>2, <2>3 DEF StartInv, Starting
<1>4. \A i \in Actors : home'[i] # 0 => Named(home'[i])
  BY <1>1, OnStartEffect DEF StartInv, Starting
<1>5. \A d \in Cores : Named(d)' <=> Named(d)
  BY DEF Named
<1> QED BY <1>1, <1>2, <1>3, <1>4, <1>5 DEF StartInv, Starting, Named

\* The service that starts last is told its turn by its constructor: nobody comes after it.
LEMMA OnStartTold ==
  ASSUME OrderType, StartInv, PlaceInv, ToldInv, StartInOrder, OnStart
  PROVE  ToldInv'
<1>1. starting \in Nat /\ engine = "starters" /\ UNCHANGED pending
  BY OnStartEffect DEF OrderType
<1>2. starting \in Services => home[starting] = 0 /\ starting \notin pending
  BY <1>1, ServicesAreActors DEF StartInOrder, ToldInv, PlaceInv
<1>3. \A s \in pending : Actor(s) \in alive' /\ ~lastServiceFlag'[s]
  <2> SUFFICES ASSUME NEW s \in pending PROVE Actor(s) \in alive' /\ ~lastServiceFlag'[s]
    OBVIOUS
  <2>1. s \in Services /\ s # starting
    BY <1>2 DEF OrderType
  <2> QED BY <2>1, OnStartEffect DEF ToldInv
<1>4. ASSUME NEW t \in Services, home'[t] = 0 \/ DestroyEvent(t) \in alive', NEW s \in Previous(t)
      PROVE  s \notin pending /\ ~lastServiceFlag'[s]
  <2>1. s \in Services /\ t \in Services /\ s < t
    BY <1>4 DEF Previous
  <2>2. home[t] = 0 \/ DestroyEvent(t) \in alive
    BY <1>2, <1>4, OnStartEffect, Tags, ServicesAreActors
  <2>3. s \notin pending /\ ~lastServiceFlag[s]
    BY <2>2, <1>4 DEF ToldInv
  <2>4. CASE s # starting
    BY <2>1, <2>3, <2>4, OnStartEffect
  <2>5. CASE s = starting
    BY <2>1, <2>3, <2>5, OnStartEffect, ServicesAreActors, <1>1
  <2> QED BY <2>4, <2>5
<1> QED BY <1>1, <1>3, <1>4 DEF ToldInv, Previous

\* The CoreActor of a core of the start is built before its thread is.
LEMMA NewCoreActorLoop ==
  ASSUME OrderType, LoopInv, StartInv, NEW c \in Cores, NewCoreActor(c)
  PROVE  LoopInv'
<1>1. /\ UNCHANGED <<node, pc, interruptFlag, isBeingDestroyedFlag, stopFlag, shutdownFlag, home>>
      /\ node[c] = "built" /\ engine = "starters" /\ alive' = alive \cup {Core(c), Singleton(c)}
  BY DEF NewCoreActor, NewCore, nodeFlags, thread
<1>2. \A d \in Cores : pc[d] = "isRunning"
  BY <1>1 DEF StartInv, Starting
<1>3. \A d \in Cores : d # c /\ Deserted(d) => Deserted(d)'
  BY <1>1, Tags DEF Deserted
<1> QED BY <1>1, <1>2, <1>3 DEF LoopInv

\* What newCore() does first, element by element
LEMMA NewCoreNodeEffect ==
  ASSUME EngineType, LoopInv, NEW c \in Cores, NEW d \in Cores, NewCoreNode(c, d)
  PROVE  /\ node[c] = "running" /\ pc[c] = "synchronize" /\ c # d /\ Deserted(d)
         /\ node[d] \in {"none", "ended"} /\ pc[d] = "isRunning" /\ ~isBeingDestroyedFlag[d]
         /\ node'[d] = "built" /\ \A e \in Cores : e # d => node'[e] = node[e]
         /\ ~stopFlag'[d] /\ \A e \in Cores : e # d => stopFlag'[e] = stopFlag[e]
         /\ pc'[c] = (IF shutdownFlag[d] THEN "newCoreStarter" ELSE "newCore")
         /\ \A e \in Cores : e # c => pc'[e] = pc[e]
         /\ UNCHANGED <<main, home, requested, lastServiceFlag, pending, regularActorsCoreCount,
                        shutdownFlag, interruptFlag, isBeingDestroyedFlag>>
         /\ \A e \in Cores : e # d =>
              /\ isServiceDestroyTimeFlag'[e] = isServiceDestroyTimeFlag[e]
              /\ regularActorsCoreCountFlag'[e] = regularActorsCoreCountFlag[e]
              /\ callback'[e] = callback[e]
         /\ shutdownFlag[d] => UNCHANGED <<alive, isServiceDestroyTimeFlag, regularActorsCoreCountFlag, callback>>
         /\ ~shutdownFlag[d] => /\ alive' = alive \cup {Core(d), Singleton(d)} /\ ~isServiceDestroyTimeFlag'[d]
                                /\ ~regularActorsCoreCountFlag'[d] /\ ~callback'[d]
<1>1. node[c] = "running" /\ pc[c] = "synchronize" /\ c # d /\ node[d] \in {"none", "ended"}
  BY DEF NewCoreNode, UserCode
<1>2. Deserted(d) /\ pc[d] = "isRunning" /\ ~isBeingDestroyedFlag[d]
  BY <1>1 DEF LoopInv
<1>3. node'[d] = "built" /\ \A e \in Cores : e # d => node'[e] = node[e]
  BY DEF NewCoreNode, EngineType
<1>4. ~stopFlag'[d] /\ \A e \in Cores : e # d => stopFlag'[e] = stopFlag[e]
  BY DEF NewCoreNode, EngineType
<1>5. /\ pc'[c] = (IF shutdownFlag[d] THEN "newCoreStarter" ELSE "newCore")
      /\ \A e \in Cores : e # c => pc'[e] = pc[e]
  BY DEF NewCoreNode, EngineType
<1>6. /\ UNCHANGED <<main, home, requested, lastServiceFlag, pending, regularActorsCoreCount,
                     shutdownFlag, interruptFlag, isBeingDestroyedFlag>>
      /\ shutdownFlag[d] => UNCHANGED <<alive, isServiceDestroyTimeFlag, regularActorsCoreCountFlag, callback>>
      /\ ~shutdownFlag[d] => NewCore(d)
  BY DEF NewCoreNode
<1>7. NewCore(d) => /\ alive' = alive \cup {Core(d), Singleton(d)} /\ ~isServiceDestroyTimeFlag'[d]
                    /\ ~regularActorsCoreCountFlag'[d] /\ ~callback'[d]
                    /\ \A e \in Cores : e # d =>
                         /\ isServiceDestroyTimeFlag'[e] = isServiceDestroyTimeFlag[e]
                         /\ regularActorsCoreCountFlag'[e] = regularActorsCoreCountFlag[e]
                         /\ callback'[e] = callback[e]
  BY DEF NewCore, EngineType
<1> QED BY <1>1, <1>2, <1>3, <1>4, <1>5, <1>6, <1>7

\* newCore() on a running engine takes a core that is not in use, and deserted.
LEMMA NewCoreNodeLoop ==
  ASSUME EngineType, LoopInv, NEW c \in Cores, NEW d \in Cores, NewCoreNode(c, d)
  PROVE  LoopInv'
<1>1. \A e \in Cores : e # d /\ Deserted(e) => Deserted(e)'
  BY NewCoreNodeEffect, Tags DEF Deserted
<1> QED BY <1>1, NewCoreNodeEffect DEF LoopInv

\* Who is asked, and where
LEMMA AskedWhere ==
  ASSUME NEW c \in Cores
  PROVE  /\ \A e : Asked(c, e) => node[c] = "running" /\ pc[c] = "synchronize" /\ e \in requested /\ e \in alive
         /\ \A i \in Actors : Asked(c, Actor(i)) => home[i] = c
         /\ \A s \in Services : Asked(c, DestroyEvent(s)) => home[s] = c
<1>1. \A e : Asked(c, e) => node[c] = "running" /\ pc[c] = "synchronize" /\ e \in requested /\ e \in alive
  BY DEF Asked, At
<1>2. \A i \in Actors : Asked(c, Actor(i)) => home[i] = c
  BY Tags DEF Asked, At
<1>3. \A s \in Services : Asked(c, DestroyEvent(s)) => home[s] = c
  BY Tags DEF Asked, At
<1> QED BY <1>1, <1>2, <1>3

\* A DestroyEvent actor that goes leaves every CoreActor where it is.
LEMMA AskDestroyEventNewCore ==
  ASSUME EngineType, NewCoreInv, NEW c \in Cores, NEW s \in Services, AskDestroyEvent(c, s)
  PROVE  NewCoreInv'
<1>1. /\ UNCHANGED <<node, pc, target, regularActorsCoreCountFlag, shutdownFlag>>
      /\ alive' = alive \ {DestroyEvent(s)}
  BY DEF AskDestroyEvent, Delete, counting, thread
<1>2. \A d \in Cores : Core(d) \in alive' <=> Core(d) \in alive
  BY <1>1, Tags
<1> QED BY <1>1, <1>2 DEF NewCoreInv, InNewCore

\* A service only goes when the CoreActor of its core no longer waits for it.
LEMMA AskServiceCore ==
  ASSUME EngineType, CoreInv, NEW c \in Cores, NEW s \in Services, AskService(c, s)
  PROVE  CoreInv'
<1>1. /\ UNCHANGED <<callback, isServiceDestroyTimeFlag, regularActorsCoreCountFlag, shutdownFlag>>
      /\ alive' = alive \ {Actor(s)} /\ UNCHANGED home
      /\ isServiceDestroyTimeFlag[c] /\ home[s] = c
  BY AskedWhere, ServicesAreActors DEF AskService, Delete, counting, services
<1>2. \A d \in Cores : Core(d) \in alive' <=> Core(d) \in alive
  BY <1>1, Tags
<1>3. \A d \in Cores : d # c /\ HasServices(d) => HasServices(d)'
  BY <1>1, Tags DEF HasServices
<1> QED BY <1>1, <1>2, <1>3 DEF CoreInv

\* The CoreActor goes last, when its core has no service.
LEMMA AskCoreLastCore ==
  ASSUME EngineType, CoreInv, NEW c \in Cores, AskCoreLast(c)
  PROVE  CoreInv'
<1>1. /\ UNCHANGED <<callback, isServiceDestroyTimeFlag, shutdownFlag, home>> /\ alive' = alive \ {Core(c)}
      /\ ~HasServices(c)
  BY AtDeserted DEF AskCoreLast, services, HasServices
<1>2. \A d \in Cores : d # c => (Core(d) \in alive' <=> Core(d) \in alive)
  BY <1>1, Tags
<1>3. \A d \in Cores : HasServices(d) => HasServices(d)'
  BY <1>1, Tags DEF HasServices
<1>4. \A d \in Cores : d # c => regularActorsCoreCountFlag'[d] = regularActorsCoreCountFlag[d]
  BY DEF AskCoreLast, CountDown, EngineType
<1>5. ~callback[c] /\ Core(c) \notin alive'
  BY <1>1 DEF CoreInv
<1> QED BY <1>1, <1>2, <1>3, <1>4, <1>5 DEF CoreInv

\* There are no threads before the start is done.
LEMMA NotStarting ==
  ASSUME StartInv, NEW c \in Cores, pc[c] # "isRunning"
  PROVE  ~Starting
BY DEF StartInv

\* The threads start one core after the other, and those whose turn has not come keep their
\* CoreActor.
LEMMA RunStart ==
  ASSUME EngineType, OrderType, StartInv, NewCoreInv, Run
  PROVE  StartInv'
<1>1. engine = "run" /\ starting \in Nat /\ UNCHANGED <<failed, pc, target, alive>>
  BY DEF Run, OrderType, actors, thread
<1>2. engine' # "start" /\ ~Starting'
  BY DEF Run, Starting
<1>3. ASSUME engine' = "run", NEW c \in Cores, Named(c), c >= starting'
      PROVE  /\ node'[c] = "built" /\ (~failed => Core(c) \in alive)
             /\ \A e \in Cores : InNewCore(e) => target[e] # c
  <2>1. starting \in 1 .. NumCores /\ starting' = starting + 1 /\ c # starting /\ c >= starting
    BY <1>1, <1>3, EngineAssumption DEF Run, OrderType, Cores
  <2>2. node'[c] = node[c]
    BY <2>1 DEF Run, EngineType
  <2> QED BY <1>1, <1>3, <2>1, <2>2 DEF StartInv
<1> QED BY <1>1, <1>2, <1>3 DEF StartInv, Named, InNewCore

\* Nobody runs before the start is done, and no core is let go before it has its CoreActor.
LEMMA AfterStart ==
  ASSUME StartInv, NEW c \in Cores, pc[c] # "isRunning",
         UNCHANGED <<main, node, pc, target>>, \A d \in Cores : Core(d) \in alive => Core(d) \in alive' \/ failed \/ node[d] = "running"
  PROVE  StartInv'
<1>1. ~Starting /\ engine # "start" /\ UNCHANGED <<engine, failed, starting>>
  BY DEF StartInv, Starting, main
<1> QED BY <1>1 DEF StartInv, Starting, InNewCore, Named

\* The callback of the CoreActor asks the services of its core, which are alive, to go.
LEMMA RegularActorsGonePlace ==
  ASSUME PlaceInv, NEW c \in Cores, RegularActorsGone(c)
  PROVE  PlaceInv'
<1>1. UNCHANGED <<home, alive, lastServiceFlag>> /\ requested' = requested \cup {Actor(s) : s \in serviceActorList(c, alive)}
  BY DEF RegularActorsGone
<1>2. \A d \in Cores : Singleton(d) \in requested' => Singleton(d) \in requested
  BY <1>1, Tags
<1>3. requested' \subseteq alive
  BY <1>1 DEF serviceActorList, PlaceInv
<1> QED BY <1>1, <1>2, <1>3 DEF PlaceInv, Gone, HasServices

\* A service that goes has been told, and leaves its DestroyEvent actor and, unless it was the
\* last, the singleton.
LEMMA AskServicePlace ==
  ASSUME EngineType, PlaceInv, NEW c \in Cores, NEW s \in Services, AskService(c, s)
  PROVE  PlaceInv'
<1>1. /\ alive' = alive \ {Actor(s)} /\ UNCHANGED <<home, lastServiceFlag>> /\ lastServiceFlag[s] /\ home[s] = c
      /\ Actor(s) \in alive
  BY AskedWhere, ServicesAreActors DEF AskService, Delete, services
<1>2. \A e \in requested' : \/ (e \in requested /\ e # Actor(s)) \/ e = DestroyEvent(s)
                            \/ e \in ReleasedSingleton(c, alive') \/ (e = Core(c) /\ Core(c) \in alive')
  <2> DEFINE some == (requested \ {Actor(s)}) \cup ({DestroyEvent(s)} \cup ReleasedSingleton(c, alive'))
  <2>1. \/ requested' = some
        \/ requested' = some \cup {Core(c)} /\ onNodeActorsDestroyed(c, alive')
    BY <1>1 DEF AskService, Delete
  <2>2. onNodeActorsDestroyed(c, alive') => Core(c) \in alive'
    BY DEF onNodeActorsDestroyed
  <2> QED BY <2>1, <2>2
<1>3. Singleton(c) \in alive
  BY <1>1 DEF PlaceInv, HasServices
<1>4. \A e \in ReleasedSingleton(c, alive') : e = Singleton(c) /\ Core(c) \notin alive' /\ ~HasServices(c)'
  BY <1>1 DEF ReleasedSingleton, serviceActorList, HasServices
<1>5. \A d \in Cores : HasServices(d)' => HasServices(d)
  BY <1>1 DEF HasServices
<1>6. ASSUME NEW e \in requested' PROVE e \in alive'
  <2>1. CASE e \in requested /\ e # Actor(s)
    BY <1>1, <2>1 DEF PlaceInv
  <2>2. CASE e = DestroyEvent(s)
    BY <1>1, <2>2, Tags DEF PlaceInv
  <2>3. CASE e \in ReleasedSingleton(c, alive')
    BY <1>1, <1>3, <1>4, <2>3, Tags
  <2> QED BY <1>2, <2>1, <2>2, <2>3
<1>7. ASSUME NEW d \in Cores, Singleton(d) \in requested' PROVE Core(d) \notin alive' /\ ~HasServices(d)'
  <2>1. CASE Singleton(d) \in requested
    BY <1>1, <1>5, <2>1 DEF PlaceInv
  <2>2. CASE Singleton(d) \in ReleasedSingleton(c, alive')
    BY <1>4, <2>2, Tags
  <2> QED BY <1>2, <1>7, <2>1, <2>2, Tags
<1>8. \A d \in Cores : Core(d) \in alive' \/ HasServices(d)' => Singleton(d) \in alive'
  BY <1>1, <1>5, Tags DEF PlaceInv
<1>9. /\ \A t \in Services : Gone(t)' => lastServiceFlag[t]
      /\ \A t \in Services : DestroyEvent(t) \in alive' <=> DestroyEvent(t) \in alive
  BY <1>1, Tags DEF PlaceInv, Gone
<1> QED BY <1>1, <1>6, <1>7, <1>8, <1>9 DEF PlaceInv

\* The CoreActor asks the singleton of its core to go only when there is no service.
LEMMA AskCoreLastPlace ==
  ASSUME PlaceInv, NEW c \in Cores, AskCoreLast(c)
  PROVE  PlaceInv'
<1>1. /\ alive' = alive \ {Core(c)} /\ UNCHANGED <<home, lastServiceFlag>> /\ Core(c) \in alive
  BY AskedWhere DEF AskCoreLast, services
<1>2. \A e \in requested' : \/ (e \in requested /\ e # Core(c)) \/ e \in ReleasedSingleton(c, alive')
  BY <1>1 DEF AskCoreLast
<1>3. \A e \in ReleasedSingleton(c, alive') : e = Singleton(c) /\ ~HasServices(c)'
  BY <1>1 DEF ReleasedSingleton, serviceActorList, HasServices
<1>4. \A d \in Cores : HasServices(d)' => HasServices(d)
  BY <1>1 DEF HasServices
<1>5. Core(c) \notin alive' /\ Singleton(c) \in alive
  BY <1>1 DEF PlaceInv
<1>6. requested' \subseteq alive'
  BY <1>1, <1>2, <1>3, <1>5, Tags DEF PlaceInv
<1>7. ASSUME NEW d \in Cores, Singleton(d) \in requested' PROVE Core(d) \notin alive' /\ ~HasServices(d)'
  <2>1. CASE Singleton(d) \in requested
    BY <1>1, <1>4, <2>1 DEF PlaceInv
  <2>2. CASE Singleton(d) \in ReleasedSingleton(c, alive')
    BY <1>1, <1>3, <2>2, Tags
  <2> QED BY <1>2, <1>7, <2>1, <2>2
<1>8. \A d \in Cores : Core(d) \in alive' \/ HasServices(d)' => Singleton(d) \in alive'
  BY <1>1, <1>4, Tags DEF PlaceInv
<1>9. \A i : (Actor(i) \in alive' <=> Actor(i) \in alive) /\ (DestroyEvent(i) \in alive' <=> DestroyEvent(i) \in alive)
  BY <1>1, Tags
<1> QED BY <1>1, <1>6, <1>7, <1>8, <1>9 DEF PlaceInv, Gone

\* An actor that is new and no service
LEMMA NewActorPlace ==
  ASSUME OrderType, PlaceInv, NEW i \in Actors \ Declared, NEW d \in Cores, home[i] = 0,
         home' = [home EXCEPT ![i] = d], alive' = alive \cup {Actor(i)}, UNCHANGED <<requested, lastServiceFlag>>
  PROVE  PlaceInv'
<1>1. \A s \in Services : /\ home'[s] = home[s] /\ (Actor(s) \in alive' <=> Actor(s) \in alive)
                          /\ (DestroyEvent(s) \in alive' <=> DestroyEvent(s) \in alive)
  BY Tags, ServicesAreActors DEF OrderType
<1>2. \A e \in Cores : /\ (Core(e) \in alive' <=> Core(e) \in alive) /\ (Singleton(e) \in alive' <=> Singleton(e) \in alive)
                       /\ (HasServices(e)' <=> HasServices(e))
  BY <1>1, Tags DEF HasServices
<1>3. requested' \subseteq alive'
  BY DEF PlaceInv
<1>4. \A j \in Actors : Actor(j) \in alive' => home'[j] # 0
  BY Tags, ServicesAreActors DEF PlaceInv, OrderType
<1> QED BY <1>1, <1>2, <1>3, <1>4 DEF PlaceInv, Gone

\* A core that newCore() takes has neither a singleton nor services to lose.
LEMMA NewCoreNodePlace ==
  ASSUME EngineType, LoopInv, PlaceInv, NEW c \in Cores, NEW d \in Cores, NewCoreNode(c, d)
  PROVE  PlaceInv'
<1>1. UNCHANGED <<home, requested, lastServiceFlag>> /\ Deserted(d)
      /\ (UNCHANGED alive \/ alive' = alive \cup {Core(d), Singleton(d)})
  BY NewCoreNodeEffect
<1>2. \A e \in Cores : HasServices(e)' <=> HasServices(e)
  BY <1>1, Tags DEF HasServices
<1>3. \A i : (Actor(i) \in alive' <=> Actor(i) \in alive) /\ (DestroyEvent(i) \in alive' <=> DestroyEvent(i) \in alive)
  BY <1>1, Tags
<1>4. Singleton(d) \notin requested
  BY <1>1 DEF PlaceInv, Deserted
<1>5. \A e \in Cores : e # d => (Core(e) \in alive' <=> Core(e) \in alive)
  BY <1>1, Tags
<1>6. \A e \in Cores : Core(e) \in alive' \/ HasServices(e)' => Singleton(e) \in alive'
  BY <1>1, <1>2, Tags DEF PlaceInv
<1> QED BY <1>1, <1>2, <1>3, <1>4, <1>5, <1>6 DEF PlaceInv, Gone

\* The starter of a core that newCore() has built adds at most a regular actor.
LEMMA NewCoreRunPlace ==
  ASSUME OrderType, PlaceInv, NewCoreInv, NEW c \in Cores, NewCoreRun(c)
  PROVE  PlaceInv'
<1>1. UNCHANGED <<requested, lastServiceFlag>> /\ target[c] \in Cores
  BY DEF NewCoreRun, services, NewCoreInv, InNewCore
<1>2. CASE UNCHANGED <<home, alive>>
  BY <1>1, <1>2 DEF PlaceInv, Gone, HasServices
<1>3. CASE \E i \in {j \in Actors \ Declared : home[j] = 0} :
             home' = [home EXCEPT ![i] = target[c]] /\ alive' = alive \cup {Actor(i)}
  BY <1>1, <1>3, NewActorPlace
<1> QED BY <1>2, <1>3 DEF NewCoreRun

\* No two services tell the same one.
LEMMA PreviousOfOne ==
  ASSUME NEW s \in Services, NEW t \in Services, s # t
  PROVE  Previous(s) \cap Previous(t) = {}
BY ServicesAreActors DEF Previous

\* A service is told by the DestroyEvent actor of the service after it, and by no other.
LEMMA AskDestroyEventTold ==
  ASSUME OrderType, PlaceInv, ToldInv, NEW c \in Cores, NEW s \in Services, AskDestroyEvent(c, s)
  PROVE  ToldInv'
<1>1. /\ pending' = pending \cup Previous(s) /\ alive' = alive \ {DestroyEvent(s)}
      /\ UNCHANGED <<home, lastServiceFlag>>
  BY DEF AskDestroyEvent, Delete
<1>2. DestroyEvent(s) \in alive /\ home[s] # 0
  BY AskedWhere DEF AskDestroyEvent, PlaceInv
<1>3. ASSUME NEW p \in Previous(s) PROVE p \notin pending /\ ~lastServiceFlag[p] /\ Actor(p) \in alive
  <2>1. p \in Services /\ p < s
    BY DEF Previous
  <2>2. p \notin pending /\ ~lastServiceFlag[p]
    BY <1>2 DEF ToldInv
  <2>3. home[p] # 0
    BY <1>2, <2>1 DEF PlaceInv
  <2> QED BY <2>1, <2>2, <2>3 DEF PlaceInv, Gone
<1>4. \A p \in pending' : Actor(p) \in alive' /\ ~lastServiceFlag'[p]
  BY <1>1, <1>3, Tags DEF ToldInv
<1>5. ASSUME NEW t \in Services, home'[t] = 0 \/ DestroyEvent(t) \in alive', NEW p \in Previous(t)
      PROVE  p \notin pending' /\ ~lastServiceFlag'[p]
  <2>1. t # s
    BY <1>1, <1>2, <1>5
  <2>2. p \notin pending /\ ~lastServiceFlag[p]
    BY <1>1, <1>5 DEF ToldInv
  <2> QED BY <1>1, <2>1, <2>2, PreviousOfOne
<1> QED BY <1>4, <1>5 DEF ToldInv, Previous

\* The cores that are counted
LEMMA CountedFinite == IsFiniteSet(Counted) /\ Cardinality(Counted) \in Nat
<1>1. IsFiniteSet(Cores)
  BY FS_Interval, EngineAssumption DEF Cores
<1>2. Counted \subseteq Cores
  BY DEF Counted
<1>3. IsFiniteSet(Counted)
  BY <1>1, <1>2, FS_Subset
<1> QED BY <1>3, FS_CardinalityType

\* A core is counted out only when it has no regular actor.
LEMMA CountedDown ==
  ASSUME EngineType, NewCoreInv, NEW c \in Cores, AskCoreLast(c) \/ AskCoreServices(c)
  PROVE  \A i \in Actors \ Services : Actor(i) \in alive /\ home[i] \in Counted => home[i] \in Counted'
<1>1. /\ onlyCoreAndServiceReferencedActorsLeft(c, alive) /\ UNCHANGED <<pc, target, home>>
      /\ alive' = alive \/ alive' = alive \ {Core(c)}
  BY DEF AskCoreLast, AskCoreServices, thread
<1>2. \A d \in Cores : d # c => regularActorsCoreCountFlag'[d] = regularActorsCoreCountFlag[d]
  BY DEF AskCoreLast, AskCoreServices, CountDown, counting, EngineType
<1>3. \A i \in Actors \ Services : Actor(i) \in alive => home[i] # c
  BY <1>1, Tags DEF At, onlyCoreAndServiceReferencedActorsLeft
<1>4. \A d \in Counted : d # c => d \in Counted'
  BY <1>1, <1>2, Tags DEF Counted
<1> QED BY <1>3, <1>4

\* A CoreActor that counts its core out leaves no regular actor on it.
LEMMA CountedDownRegular ==
  ASSUME EngineType, NewCoreInv, RegularInv, NEW c \in Cores, AskCoreLast(c) \/ AskCoreServices(c)
  PROVE  RegularInv'
<1>1. UNCHANGED <<engine, failed, home, node, isServiceDestroyTimeFlag, shutdownFlag>>
  BY DEF AskCoreLast, AskCoreServices, main, services
<1>2. \/ alive' = alive /\ UNCHANGED stopFlag
      \/ alive' = alive \ {Core(c)} /\ stopFlag' = [stopFlag EXCEPT ![c] = TRUE]
  BY DEF AskCoreLast, AskCoreServices, nodeFlags
<1>3. \A i \in Actors : Actor(i) \in alive' <=> Actor(i) \in alive
  BY <1>2, Tags
<1>4. Regular' = Regular /\ \A d \in Cores : HasServices(d)' <=> HasServices(d)
  BY <1>1, <1>3, ServicesAreActors DEF Regular, HasServices
<1>5. \A d \in Cores : Core(d) \in alive \/ stopFlag[d] => Core(d) \in alive' \/ stopFlag'[d]
  BY <1>2, Tags DEF EngineType
<1> QED BY <1>1, <1>3, <1>4, <1>5, CountedDown DEF RegularInv, Starting

\* A CoreActor lets its services go once the count is 0: no core is counted then, so there is
\* no regular actor.
LEMMA RegularActorsGoneRegular ==
  ASSUME EngineType, CountRight, RegularInv, NEW c \in Cores, RegularActorsGone(c)
  PROVE  RegularInv'
<1>1. /\ UNCHANGED <<engine, failed, home, alive, node, pc, target, regularActorsCoreCountFlag, shutdownFlag, stopFlag>>
      /\ regularActorsCoreCount = 0
      /\ isServiceDestroyTimeFlag' = [isServiceDestroyTimeFlag EXCEPT ![c] = TRUE]
  BY DEF RegularActorsGone, main, nodeFlags, thread
<1>2. regularActorsCoreCount = (IF engine \in {"wait", "ended"} THEN 0 ELSE 1) + Cardinality(Counted)
  BY DEF CountRight, Counted
<1>3. engine \in {"wait", "ended"} /\ Cardinality(Counted) = 0
  BY <1>1, <1>2, CountedFinite
<1>4. Counted = {}
  BY <1>3, CountedFinite, FS_EmptySet
<1>5. ~failed /\ ~Starting => Regular = {}
  BY <1>4 DEF RegularInv, Regular
<1> QED BY <1>1, <1>3, <1>5 DEF RegularInv, Starting, Regular, HasServices, Counted

\* A core under construction is not counted yet.
LEMMA NewCoreNodeCounted ==
  ASSUME EngineType, OrderType, LoopInv, NewCoreInv, NEW c \in Cores, NEW d \in Cores, NewCoreNode(c, d)
  PROVE  Counted' = Counted
<1> SUFFICES ASSUME NEW e \in Cores PROVE e \in Counted' <=> e \in Counted
  BY DEF Counted
<1>1. \A b \in Cores : b # c => target'[b] = target[b]
  BY DEF NewCoreNode
<1>2. pc'[c] \in {"newCore", "newCoreStarter"} /\ (~shutdownFlag[d] => pc'[c] = "newCore") /\ target'[c] = d
  <2>1. target'[c] = d
    BY DEF NewCoreNode, OrderType
  <2>2. pc'[c] = (IF shutdownFlag[d] THEN "newCoreStarter" ELSE "newCore")
    BY NewCoreNodeEffect
  <2> QED BY <2>1, <2>2
<1>3. CASE e = d
  BY <1>1, <1>2, <1>3, NewCoreNodeEffect DEF Counted, Deserted
<1>4. CASE e # d
  <2>1. Core(e) \in alive' <=> Core(e) \in alive
    BY <1>4, NewCoreNodeEffect, Tags
  <2>2. \A b \in Cores : (pc'[b] = "newCore" /\ target'[b] = e) <=> (pc[b] = "newCore" /\ target[b] = e)
    BY <1>1, <1>2, <1>4, NewCoreNodeEffect
  <2> QED BY <1>4, <2>1, <2>2, NewCoreNodeEffect DEF Counted
<1> QED BY <1>3, <1>4

\* newCore() puts no regular actor anywhere before the core is counted.
LEMMA NewCoreNodeRegular ==
  ASSUME EngineType, OrderType, LoopInv, NewCoreInv, RegularInv, NEW c \in Cores, NEW d \in Cores, NewCoreNode(c, d)
  PROVE  RegularInv'
<1>1. UNCHANGED <<engine, failed, home, shutdownFlag>>
  BY NewCoreNodeEffect DEF main
<1>2. \A i \in Actors : Actor(i) \in alive' <=> Actor(i) \in alive
  BY NewCoreNodeEffect, Tags
<1>3. Regular' = Regular /\ \A e \in Cores : HasServices(e)' <=> HasServices(e)
  BY <1>1, <1>2, ServicesAreActors DEF Regular, HasServices
<1>4. ~HasServices(d)
  BY NewCoreNodeEffect, ServicesAreActors DEF Deserted, HasServices
<1>5. \A e \in Cores : Core(e) \in alive => Core(e) \in alive'
  BY NewCoreNodeEffect
<1> QED BY <1>1, <1>2, <1>3, <1>4, <1>5, NewCoreNodeCounted, NewCoreNodeEffect DEF RegularInv, Starting

\* A core that starts to run was counted before, or never will be.
LEMMA NewCoreRunCounted ==
  ASSUME EngineType, OrderType, NewCoreInv, NEW c \in Cores, NewCoreRun(c)
  PROVE  Counted' = Counted
<1>1. /\ pc[c] = "newCoreStarter" /\ pc'[c] = "synchronize" /\ \A e \in Cores : e # c => pc'[e] = pc[e] /\ target'[e] = target[e]
      /\ UNCHANGED regularActorsCoreCountFlag
  BY DEF NewCoreRun, EngineType, counting
<1>2. \A e \in Cores : Core(e) \in alive' <=> Core(e) \in alive
  <2>1. UNCHANGED alive \/ \E i \in Actors : alive' = alive \cup {Actor(i)}
    BY DEF NewCoreRun
  <2> QED BY <2>1, Tags
<1>3. \A e, b \in Cores : (pc'[b] = "newCore" /\ target'[b] = e) <=> (pc[b] = "newCore" /\ target[b] = e)
  BY <1>1
<1> QED BY <1>1, <1>2, <1>3 DEF Counted

\* The actor of a core that starts is put there only if the core has not been told to stop, so
\* it is counted.
LEMMA NewCoreRunRegular ==
  ASSUME EngineType, OrderType, NewCoreInv, FlagInv, RegularInv, NEW c \in Cores, NewCoreRun(c)
  PROVE  RegularInv'
<1> DEFINE d == target[c]
<1>1. /\ d \in Cores /\ UNCHANGED <<engine, failed, shutdownFlag, isServiceDestroyTimeFlag>>
      /\ Core(d) \in alive \/ shutdownFlag[d]
      /\ node' = [node EXCEPT ![d] = "running"]
  BY DEF NewCoreRun, NewCoreInv, InNewCore, main, services
<1>2. \A e \in Cores : Core(e) \in alive' <=> Core(e) \in alive
  <2>1. UNCHANGED alive \/ \E i \in Actors : alive' = alive \cup {Actor(i)}
    BY DEF NewCoreRun
  <2> QED BY <2>1, Tags
<1>3. \A e \in Cores : stopFlag[e] => stopFlag'[e]
  BY DEF NewCoreRun, StopIf, nodeFlags, EngineType
<1>4. \A e \in Cores : node'[e] = "running" => e = d \/ node[e] = "running"
  BY <1>1 DEF EngineType
<1>5. CASE UNCHANGED <<home, alive>>
  BY <1>1, <1>2, <1>3, <1>4, <1>5, NewCoreRunCounted DEF RegularInv, Starting, Regular, HasServices
<1>6. CASE /\ ~shutdownFlag[d]
           /\ \E i \in {j \in Actors \ Declared : home[j] = 0} :
                home' = [home EXCEPT ![i] = d] /\ alive' = alive \cup {Actor(i)}
  <2> PICK i \in Actors \ Declared : home' = [home EXCEPT ![i] = d] /\ alive' = alive \cup {Actor(i)}
    BY <1>6
  <2>1. \A j \in Actors : j # i => home'[j] = home[j] /\ (Actor(j) \in alive' <=> Actor(j) \in alive)
    BY Tags DEF OrderType
  <2>2. home'[i] = d /\ d \in Counted
    <3>1. Core(d) \in alive /\ ~regularActorsCoreCountFlag[d] /\ pc[c] = "newCoreStarter"
      BY <1>6 DEF NewCoreRun, NewCoreInv, InNewCore
    <3>2. \A e \in Cores : ~(pc[e] = "newCore" /\ target[e] = d)
      BY <3>1 DEF NewCoreInv, InNewCore
    <3> QED BY <1>1, <3>1, <3>2 DEF OrderType, Counted
  <2>3. \A j \in Actors \ Services : ~failed /\ ~Starting /\ Actor(j) \in alive' => home'[j] \in Counted
    BY <2>1, <2>2 DEF RegularInv
  <2>4. \A e \in Cores : HasServices(e)' => HasServices(e)
    BY <2>1, ServicesAreActors DEF HasServices
  <2>5. engine \notin {"wait", "ended"}
    BY <1>1, <1>6 DEF FlagInv
  <2> QED BY <1>1, <1>2, <1>3, <1>4, <2>3, <2>4, <2>5, NewCoreRunCounted DEF RegularInv, Starting
<1> QED BY <1>1, <1>5, <1>6 DEF NewCoreRun

\* What the set of the counted cores depends on
LEMMA CountedSame ==
  ASSUME UNCHANGED regularActorsCoreCountFlag,
         \A d \in Cores : Core(d) \in alive' <=> Core(d) \in alive,
         \A e \in Cores : /\ pc'[e] = "newCore" <=> pc[e] = "newCore"
                          /\ pc[e] = "newCore" => target'[e] = target[e]
  PROVE  Counted' = Counted
BY DEF Counted

\* The count, and what makes it one more or one less
LEMMA CountStays ==
  ASSUME CountRight, Counted' = Counted, UNCHANGED regularActorsCoreCount,
         engine' \in {"wait", "ended"} <=> engine \in {"wait", "ended"}
  PROVE  CountRight'
<1>1. CountRight <=> regularActorsCoreCount = (IF engine \in {"wait", "ended"} THEN 0 ELSE 1) + Cardinality(Counted)
  BY DEF CountRight, Counted
<1>2. CountRight' <=> regularActorsCoreCount' = (IF engine' \in {"wait", "ended"} THEN 0 ELSE 1) + Cardinality(Counted')
  BY DEF CountRight, Counted
<1> QED BY <1>1, <1>2

\* A core is counted in.
LEMMA CountUp ==
  ASSUME CountRight, NEW c, c \notin Counted, Counted' = Counted \cup {c}, UNCHANGED engine,
         regularActorsCoreCount' = regularActorsCoreCount + 1
  PROVE  CountRight'
<1>1. regularActorsCoreCount = (IF engine \in {"wait", "ended"} THEN 0 ELSE 1) + Cardinality(Counted)
  BY DEF CountRight, Counted
<1>2. CountRight' <=> regularActorsCoreCount' = (IF engine' \in {"wait", "ended"} THEN 0 ELSE 1) + Cardinality(Counted')
  BY DEF CountRight, Counted
<1>3. Cardinality(Counted') = Cardinality(Counted) + 1 /\ Cardinality(Counted) \in Nat
  BY CountedFinite, FS_AddElement
<1> QED BY <1>1, <1>2, <1>3

\* A core is counted out.
LEMMA CountDownOnce ==
  ASSUME CountRight, NEW c \in Counted, Counted' = Counted \ {c}, UNCHANGED engine,
         regularActorsCoreCount' = regularActorsCoreCount - 1
  PROVE  CountRight'
<1>1. regularActorsCoreCount = (IF engine \in {"wait", "ended"} THEN 0 ELSE 1) + Cardinality(Counted)
  BY DEF CountRight, Counted
<1>2. CountRight' <=> regularActorsCoreCount' = (IF engine' \in {"wait", "ended"} THEN 0 ELSE 1) + Cardinality(Counted')
  BY DEF CountRight, Counted
<1>3. Cardinality(Counted') = Cardinality(Counted) - 1 /\ Cardinality(Counted) \in Nat
  BY CountedFinite, FS_RemoveElement
<1> QED BY <1>1, <1>2, <1>3

\* A CoreActor that is asked has been counted in, so that nobody is about to count it.
LEMMA CountDownKeeps ==
  ASSUME EngineType, NewCoreInv, CountRight, NEW c \in Cores, node[c] = "running", Core(c) \in alive,
         CountDown(c), UNCHANGED <<engine, pc, target>>,
         \A d \in Cores : d # c => (Core(d) \in alive' <=> Core(d) \in alive),
         regularActorsCoreCountFlag[c] => Counted' = Counted
  PROVE  CountRight'
<1>1. CASE regularActorsCoreCountFlag[c]
  BY <1>1, CountStays DEF CountDown
<1>2. CASE ~regularActorsCoreCountFlag[c]
  <2>1. /\ regularActorsCoreCount' = regularActorsCoreCount - 1
        /\ regularActorsCoreCountFlag'[c] /\ \A d \in Cores : d # c => regularActorsCoreCountFlag'[d] = regularActorsCoreCountFlag[d]
    BY <1>2 DEF CountDown, EngineType
  <2>2. c \in Counted
    BY <1>2 DEF Counted, NewCoreInv, InNewCore
  <2>3. Counted' = Counted \ {c}
    BY <2>1 DEF Counted
  <2> QED BY <2>1, <2>2, <2>3, CountDownOnce
<1> QED BY <1>1, <1>2

\* Every step of the engine keeps the count.
LEMMA CountStep ==
  ASSUME EngineType, OrderType, LoopInv, NewCoreInv, StartInv, CountRight, Next
  PROVE  CountRight'
<1>1. ASSUME NEW c \in Cores, NewCoreActor(c) PROVE CountRight'
  <2>1. /\ engine = "starters" /\ Core(c) \notin alive /\ alive' = alive \cup {Core(c), Singleton(c)}
        /\ regularActorsCoreCountFlag' = [regularActorsCoreCountFlag EXCEPT ![c] = FALSE]
        /\ regularActorsCoreCount' = regularActorsCoreCount + 1
        /\ UNCHANGED <<engine, pc, target>>
    BY <1>1 DEF NewCoreActor, NewCore, main, thread
  <2>2. \A e \in Cores : pc[e] # "newCore"
    BY <2>1 DEF StartInv, Starting
  <2>3. c \notin Counted /\ Counted' = Counted \cup {c}
    BY <2>1, <2>2, Tags DEF Counted, EngineType
  <2> QED BY <2>1, <2>3, CountUp
<1>2. CASE FinishCount
  <2>1. /\ engine = "count" /\ engine' = "wait" /\ regularActorsCoreCount' = regularActorsCoreCount - 1
        /\ UNCHANGED <<alive, regularActorsCoreCountFlag, pc, target>>
    BY <1>2 DEF FinishCount, actors, thread
  <2>2. Counted' = Counted
    BY <2>1, CountedSame
  <2>3. regularActorsCoreCount = 1 + Cardinality(Counted)
    BY <2>1 DEF CountRight, Counted
  <2>4. CountRight' <=> regularActorsCoreCount' = 0 + Cardinality(Counted')
    BY <2>1 DEF CountRight, Counted
  <2> QED BY <2>1, <2>2, <2>3, <2>4, CountedFinite
<1>3. CASE \/ StartNodes \/ OnStart \/ StartDone \/ Run \/ ShutdownFlags \/ ShutdownInterrupts
           \/ FinishWait \/ OnStartThrows \/ Finish
  <2>1. /\ engine' \in {"wait", "ended"} <=> engine \in {"wait", "ended"}
        /\ UNCHANGED <<regularActorsCoreCount, regularActorsCoreCountFlag, pc, target>>
    BY <1>3 DEF StartNodes, OnStart, StartDone, Run, ShutdownFlags, ShutdownInterrupts, FinishWait,
       OnStartThrows, Finish, counting, thread
  <2>2. \A d \in Cores : Core(d) \in alive' <=> Core(d) \in alive
    <3>1. CASE OnStart
      BY <3>1, OnStartEffect, Tags
    <3>2. CASE ~OnStart
      BY <1>3, <3>2 DEF StartNodes, StartDone, Run, ShutdownFlags, ShutdownInterrupts, FinishWait,
         OnStartThrows, Finish, actors
    <3> QED BY <3>1, <3>2
  <2> QED BY <2>1, <2>2, CountedSame, CountStays
<1>4. ASSUME NEW c \in Cores, LoopStep(c) \/ \E s \in Services : AskServiceRefused(c, s)
      PROVE  CountRight'
  <2>1. UNCHANGED <<engine, regularActorsCoreCount, regularActorsCoreCountFlag, target, alive>>
    BY <1>4 DEF LoopStep, Interrupted, IsRunningClear, IsRunningTest, DeleteNode, AskServiceRefused,
       main, actors, counting, thread
  <2>2. \A e \in Cores : pc'[e] = "newCore" <=> pc[e] = "newCore"
    BY <1>4 DEF LoopStep, Interrupted, IsRunningClear, IsRunningTest, DeleteNode, AskServiceRefused,
       thread, EngineType
  <2> QED BY <2>1, <2>2, CountedSame, CountStays
<1>5. ASSUME NEW c \in Cores, \/ \E i \in Actors : AskActor(c, i) \/ RequestDestroy(c, i) \/ NewActor(c, i)
                              \/ \E s \in Services : AskService(c, s) \/ AskDestroyEvent(c, s) \/ OnServiceDestroyEvent(s)
                              \/ AskSingleton(c) \/ AskCoreRefused(c) \/ RegularActorsGone(c)
      PROVE  CountRight'
  <2>1. UNCHANGED <<engine, regularActorsCoreCount, regularActorsCoreCountFlag, pc, target>>
    BY <1>5 DEF AskActor, RequestDestroy, NewActor, AskService, AskDestroyEvent, OnServiceDestroyEvent,
       AskSingleton, AskCoreRefused, RegularActorsGone, main, counting, thread
  <2>2. \A d \in Cores : Core(d) \in alive' <=> Core(d) \in alive
    <3>1. CASE \E i \in Actors : AskActor(c, i) \/ RequestDestroy(c, i) \/ NewActor(c, i)
      BY <3>1, Tags DEF AskActor, RequestDestroy, NewActor, Delete
    <3>2. CASE \E s \in Services : AskService(c, s) \/ AskDestroyEvent(c, s) \/ OnServiceDestroyEvent(s)
      BY <3>2, Tags DEF AskService, AskDestroyEvent, OnServiceDestroyEvent, Delete
    <3>3. CASE AskSingleton(c) \/ AskCoreRefused(c) \/ RegularActorsGone(c)
      BY <3>3, Tags DEF AskSingleton, AskCoreRefused, RegularActorsGone, Delete
    <3> QED BY <1>5, <3>1, <3>2, <3>3
  <2> QED BY <2>1, <2>2, CountedSame, CountStays
<1>6. ASSUME NEW c \in Cores, AskCoreLast(c) PROVE CountRight'
  <2>1. /\ node[c] = "running" /\ Core(c) \in alive /\ alive' = alive \ {Core(c)} /\ CountDown(c)
        /\ UNCHANGED <<engine, pc, target>>
    BY <1>6, AskedWhere DEF AskCoreLast, main, thread
  <2>2. regularActorsCoreCountFlag[c] => Counted' = Counted
    BY <2>1, Tags DEF CountDown, Counted, EngineType
  <2> QED BY <2>1, <2>2, Tags, CountDownKeeps
<1>7. ASSUME NEW c \in Cores, AskCoreServices(c) PROVE CountRight'
  <2>1. /\ node[c] = "running" /\ Core(c) \in alive /\ UNCHANGED <<alive, engine, pc, target>>
        /\ UNCHANGED counting \/ CountDown(c)
    BY <1>7, AskedWhere DEF AskCoreServices, main, thread
  <2>2. CASE UNCHANGED counting
    BY <2>1, <2>2, CountedSame, CountStays DEF counting
  <2>3. CASE CountDown(c)
    <3>1. regularActorsCoreCountFlag[c] => Counted' = Counted
      BY <2>1, <2>3 DEF CountDown, Counted, EngineType
    <3> QED BY <2>1, <2>3, <3>1, CountDownKeeps
  <2> QED BY <2>1, <2>2, <2>3
<1>8. ASSUME NEW c \in Cores, \E d \in Cores : NewCoreNode(c, d) PROVE CountRight'
  <2>1. UNCHANGED <<engine, regularActorsCoreCount>>
    BY <1>8 DEF NewCoreNode, main
  <2> QED BY <1>8, <2>1, NewCoreNodeCounted, CountStays
<1>9. ASSUME NEW c \in Cores, NewCoreCounted(c) PROVE CountRight'
  <2> DEFINE d == target[c]
  <2>1. /\ pc[c] = "newCore" /\ pc' = [pc EXCEPT ![c] = "newCoreStarter"]
        /\ UNCHANGED <<engine, alive, regularActorsCoreCountFlag, target>>
        /\ regularActorsCoreCount' = regularActorsCoreCount + 1
    BY <1>9 DEF NewCoreCounted, main, actors
  <2>2. /\ d \in Cores /\ Core(d) \in alive /\ ~regularActorsCoreCountFlag[d]
        /\ \A e \in Cores : pc[e] = "newCore" /\ target[e] = d => e = c
    BY <2>1 DEF NewCoreInv, InNewCore
  <2>3. d \notin Counted
    BY <2>1 DEF Counted
  <2>4. Counted' = Counted \cup {d}
    BY <2>1, <2>2 DEF Counted, EngineType
  <2> QED BY <2>1, <2>3, <2>4, CountUp
<1>10. ASSUME NEW c \in Cores, NewCoreRun(c) PROVE CountRight'
  <2>1. UNCHANGED <<engine, regularActorsCoreCount>>
    BY <1>10 DEF NewCoreRun, main, counting
  <2> QED BY <1>10, <2>1, NewCoreRunCounted, CountStays
<1> QED BY <1>1, <1>2, <1>3, <1>4, <1>5, <1>6, <1>7, <1>8, <1>9, <1>10
        DEF Next, MainStep, Progress, UserStep

\* A thread is where its flags say, and a node that has ended, or whose loop has, is deserted.
LEMMA LoopKeeps ==
  ASSUME EngineInv, Next
  PROVE  LoopInv'
<1> USE DEF EngineInv, OrderInv
<1>1. CASE \/ StartDone \/ Finish \/ FinishCount \/ FinishWait
  <2>1. UNCHANGED <<pc, interruptFlag, node, isBeingDestroyedFlag, stopFlag, shutdownFlag, alive,
     home>>
    BY <1>1 DEF StartDone, Finish, FinishCount, FinishWait, actors, services, counting, nodeFlags,
       thread
  <2> QED BY <2>1 DEF LoopInv, Deserted
<1>2. ASSUME NEW c \in Cores, \/ AskCoreServices(c) \/ AskCoreRefused(c) \/ RegularActorsGone(c)
                              \/ \E i \in Actors : RequestDestroy(c, i)
                              \/ \E s \in Services : AskServiceRefused(c, s)
                              \/ \E s \in Services : home[s] = c /\ OnServiceDestroyEvent(s)
      PROVE  LoopInv'
  <2>1. UNCHANGED <<pc, interruptFlag, node, isBeingDestroyedFlag, stopFlag, shutdownFlag, alive,
     home>>
    BY <1>2 DEF AskServiceRefused, AskCoreServices, AskCoreRefused, RegularActorsGone,
       OnServiceDestroyEvent, RequestDestroy, main, services, counting, nodeFlags, thread
  <2> QED BY <2>1 DEF LoopInv, Deserted
<1>3. CASE StartNodes
  BY <1>3 DEF StartNodes, LoopInv, Deserted, actors, nodeFlags, thread, StartInv, Starting
<1>4. CASE OnStart
  BY <1>4, OnStartLoop
<1>5. CASE OnStartThrows
  BY <1>5, Tags DEF OnStartThrows, LoopInv, Deserted, StopIf, actors, thread, EngineType
<1>6. ASSUME NEW c \in Cores, NewCoreActor(c) PROVE LoopInv'
  BY <1>6, NewCoreActorLoop
<1>7. CASE Run
  BY <1>7, Tags DEF Run, LoopInv, Deserted, actors, services, nodeFlags, thread, EngineType
<1>8. CASE ShutdownFlags
  BY <1>8, Tags DEF ShutdownFlags, LoopInv, Deserted, actors, services, nodeFlags, thread,
     EngineType
<1>9. CASE ShutdownInterrupts
  BY <1>9, Tags DEF ShutdownInterrupts, LoopInv, Deserted, actors, thread, EngineType
<1>10. ASSUME NEW c \in Cores, Interrupted(c) PROVE LoopInv'
  BY <1>10 DEF Interrupted, LoopInv, Deserted, actors, nodeFlags
<1>11. ASSUME NEW c \in Cores, IsRunningClear(c) PROVE LoopInv'
  BY <1>11, Tags DEF IsRunningClear, LoopInv, Deserted, main, actors, EngineType
<1>12. ASSUME NEW c \in Cores, IsRunningTest(c) PROVE LoopInv'
  BY <1>12, AtDeserted DEF IsRunningTest, LoopInv, Deserted, services, EngineType, PlaceInv,
     InNewCore
<1>13. ASSUME NEW c \in Cores, DeleteNode(c) PROVE LoopInv'
  BY <1>13, Tags DEF DeleteNode, LoopInv, Deserted, main, actors, nodeFlags, EngineType
<1>14. ASSUME NEW c \in Cores, NEW i \in Actors, AskActor(c, i) PROVE LoopInv'
  BY <1>14 DEF AskActor, LoopInv, Deserted, Delete, thread, StopIf, EngineType
<1>15. ASSUME NEW c \in Cores, NEW s \in Services, AskService(c, s) PROVE LoopInv'
  BY <1>15 DEF AskService, LoopInv, Deserted, Delete, thread, StopIf, EngineType
<1>16. ASSUME NEW c \in Cores, NEW s \in Services, AskDestroyEvent(c, s) PROVE LoopInv'
  BY <1>16, Tags DEF AskDestroyEvent, LoopInv, Deserted, Asked, Delete, main, counting, thread,
     StopIf, EngineType
<1>17. ASSUME NEW c \in Cores, AskSingleton(c) PROVE LoopInv'
  BY <1>17 DEF AskSingleton, LoopInv, Deserted, Delete, thread, StopIf, EngineType
<1>18. ASSUME NEW c \in Cores, AskCoreLast(c) PROVE LoopInv'
  BY <1>18 DEF AskCoreLast, LoopInv, Deserted, Asked, onlyCoreAndServiceReferencedActorsLeft,
     thread
<1>19. ASSUME NEW c \in Cores, NEW i \in Actors, NewActor(c, i) PROVE LoopInv'
  BY <1>19, Tags DEF NewActor, LoopInv, Deserted, UserCode, main, services, nodeFlags, thread,
     OrderType
<1>20. ASSUME NEW c \in Cores, NEW d \in Cores, NewCoreNode(c, d) PROVE LoopInv'
  BY <1>20, NewCoreNodeLoop
<1>21. ASSUME NEW c \in Cores, NewCoreCounted(c) PROVE LoopInv'
  BY <1>21 DEF NewCoreCounted, LoopInv, Deserted, actors, nodeFlags
<1>22. ASSUME NEW c \in Cores, NewCoreRun(c) PROVE LoopInv'
  BY <1>22, Tags, ServicesAreActors DEF NewCoreRun, LoopInv, Deserted, StopIf, nodeFlags,
     EngineType, OrderType, NewCoreInv, InNewCore
<1> QED BY <1>1, <1>2, <1>3, <1>4, <1>5, <1>6, <1>7, <1>8, <1>9, <1>10, <1>11, <1>12, <1>13, <1>14,
   <1>15, <1>16, <1>17, <1>18, <1>19, <1>20, <1>21, <1>22 DEF Next, MainStep, LoopStep, Progress,
   UserStep

\* A core that newCore() is starting is built, by one other core, and nobody can count it out.
LEMMA NewCoreKeeps ==
  ASSUME EngineInv, Next
  PROVE  NewCoreInv'
<1> USE DEF EngineInv, OrderInv
<1>1. CASE \/ OnStartThrows \/ StartDone \/ Finish \/ ShutdownInterrupts \/ FinishCount
           \/ FinishWait
  <2>1. UNCHANGED <<pc, target, node, alive, regularActorsCoreCountFlag, shutdownFlag>>
    BY <1>1 DEF OnStartThrows, StartDone, Finish, ShutdownInterrupts, FinishCount, FinishWait,
       actors, services, counting, nodeFlags, thread
  <2> QED BY <2>1 DEF NewCoreInv, InNewCore
<1>2. ASSUME NEW c \in Cores, \/ AskCoreRefused(c) \/ RegularActorsGone(c)
                              \/ \E i \in Actors : RequestDestroy(c, i)
                              \/ \E s \in Services : AskServiceRefused(c, s)
                              \/ \E s \in Services : home[s] = c /\ OnServiceDestroyEvent(s)
      PROVE  NewCoreInv'
  <2>1. UNCHANGED <<pc, target, node, alive, regularActorsCoreCountFlag, shutdownFlag>>
    BY <1>2 DEF AskServiceRefused, AskCoreRefused, RegularActorsGone, OnServiceDestroyEvent,
       RequestDestroy, main, services, counting, nodeFlags, thread
  <2> QED BY <2>1 DEF NewCoreInv, InNewCore
<1>3. CASE StartNodes
  BY <1>3 DEF StartNodes, NewCoreInv, InNewCore, thread, StartInv, Starting
<1>4. CASE OnStart
  BY <1>4 DEF OnStart, NewCoreInv, InNewCore, counting, thread
<1>5. ASSUME NEW c \in Cores, NewCoreActor(c) PROVE NewCoreInv'
  BY <1>5 DEF NewCoreActor, NewCoreInv, InNewCore, NewCore, thread
<1>6. CASE Run
  BY <1>6 DEF Run, NewCoreInv, InNewCore, actors, counting, thread, EngineType, OrderType,
     StartInv, Named
<1>7. CASE ShutdownFlags
  BY <1>7, Tags DEF ShutdownFlags, NewCoreInv, InNewCore, actors, services, counting, thread,
     EngineType
<1>8. ASSUME NEW c \in Cores, Interrupted(c) PROVE NewCoreInv'
  BY <1>8 DEF Interrupted, NewCoreInv, InNewCore, actors, counting
<1>9. ASSUME NEW c \in Cores, IsRunningClear(c) PROVE NewCoreInv'
  BY <1>9 DEF IsRunningClear, NewCoreInv, InNewCore, actors, counting
<1>10. ASSUME NEW c \in Cores, IsRunningTest(c) PROVE NewCoreInv'
  BY <1>10 DEF IsRunningTest, NewCoreInv, InNewCore, counting
<1>11. ASSUME NEW c \in Cores, DeleteNode(c) PROVE NewCoreInv'
  BY <1>11 DEF DeleteNode, NewCoreInv, InNewCore, actors, counting
<1>12. ASSUME NEW c \in Cores, NEW i \in Actors, AskActor(c, i) PROVE NewCoreInv'
  BY <1>12, Tags DEF AskActor, NewCoreInv, InNewCore, Asked, Delete, main, services, counting,
     thread
<1>13. ASSUME NEW c \in Cores, NEW s \in Services, AskService(c, s) PROVE NewCoreInv'
  BY <1>13, Tags DEF AskService, NewCoreInv, InNewCore, Asked, Delete, ReleasedSingleton, main,
     services, counting, thread
<1>14. ASSUME NEW c \in Cores, NEW s \in Services, AskDestroyEvent(c, s) PROVE NewCoreInv'
  BY <1>14, AskDestroyEventNewCore
<1>15. ASSUME NEW c \in Cores, AskSingleton(c) PROVE NewCoreInv'
  BY <1>15, Tags DEF AskSingleton, NewCoreInv, InNewCore, Asked, Delete, main, services, counting,
     thread
<1>16. ASSUME NEW c \in Cores, AskCoreLast(c) PROVE NewCoreInv'
  BY <1>16, Tags DEF AskCoreLast, NewCoreInv, InNewCore, Asked,
     onlyCoreAndServiceReferencedActorsLeft, CountDown, thread
<1>17. ASSUME NEW c \in Cores, AskCoreServices(c) PROVE NewCoreInv'
  BY <1>17, Tags DEF AskCoreServices, NewCoreInv, InNewCore, Asked,
     onlyCoreAndServiceReferencedActorsLeft, CountDown, counting, main, thread, EngineType
<1>18. ASSUME NEW c \in Cores, NEW i \in Actors, NewActor(c, i) PROVE NewCoreInv'
  BY <1>18 DEF NewActor, NewCoreInv, InNewCore, UserCode, counting, thread
<1>19. ASSUME NEW c \in Cores, NEW d \in Cores, NewCoreNode(c, d) PROVE NewCoreInv'
  BY <1>19, Tags DEF NewCoreNode, NewCoreInv, InNewCore, NewCore, EngineType, OrderType
<1>20. ASSUME NEW c \in Cores, NewCoreCounted(c) PROVE NewCoreInv'
  BY <1>20 DEF NewCoreCounted, NewCoreInv, InNewCore, actors
<1>21. ASSUME NEW c \in Cores, NewCoreRun(c) PROVE NewCoreInv'
  BY <1>21, Tags DEF NewCoreRun, NewCoreInv, InNewCore, StopIf, nodeFlags, counting, EngineType
<1> QED BY <1>1, <1>2, <1>3, <1>4, <1>5, <1>6, <1>7, <1>8, <1>9, <1>10, <1>11, <1>12, <1>13, <1>14,
   <1>15, <1>16, <1>17, <1>18, <1>19, <1>20, <1>21 DEF Next, MainStep, LoopStep, Progress, UserStep

\* What the start has done, and what nobody does before it is done
LEMMA StartKeeps ==
  ASSUME EngineInv, Next
  PROVE  StartInv'
<1> USE DEF EngineInv, OrderInv
<1>1. ASSUME NEW c \in Cores, \/ AskSingleton(c) \/ AskCoreLast(c) \/ AskCoreServices(c)
                              \/ AskCoreRefused(c) \/ RegularActorsGone(c)
                              \/ \E i \in Actors : AskActor(c, i) \/ RequestDestroy(c, i) \/ NewActor(c, i)
                              \/ \E s \in Services : AskService(c, s) \/ AskServiceRefused(c, s)
                                                     \/ AskDestroyEvent(c, s)
                              \/ \E s \in Services : home[s] = c /\ OnServiceDestroyEvent(s)
      PROVE  StartInv'
  <2>1. pc[c] # "isRunning" /\ UNCHANGED <<main, node, pc, target>>
    BY <1>1, AskedWhere DEF AskActor, AskService, AskServiceRefused, AskDestroyEvent, AskSingleton,
       AskCoreLast, AskCoreServices, AskCoreRefused, RegularActorsGone, OnServiceDestroyEvent,
       RequestDestroy, NewActor, UserCode, thread
  <2>2. \A d \in Cores : Core(d) \in alive => Core(d) \in alive' \/ node[d] = "running"
    <3>1. CASE AskCoreLast(c)
      BY <3>1, AskedWhere, Tags DEF AskCoreLast
    <3>2. CASE \E i \in Actors : AskActor(c, i) \/ RequestDestroy(c, i) \/ NewActor(c, i)
      BY <3>2, Tags DEF AskActor, RequestDestroy, NewActor, Delete
    <3>3. CASE \E s \in Services : \/ AskService(c, s) \/ AskServiceRefused(c, s)
                                   \/ AskDestroyEvent(c, s) \/ OnServiceDestroyEvent(s)
      BY <3>3, Tags DEF AskService, AskServiceRefused, AskDestroyEvent, OnServiceDestroyEvent, Delete
    <3>4. CASE AskSingleton(c) \/ AskCoreServices(c) \/ AskCoreRefused(c) \/ RegularActorsGone(c)
      BY <3>4, Tags DEF AskSingleton, AskCoreServices, AskCoreRefused, RegularActorsGone, Delete
    <3> QED BY <1>1, <3>1, <3>2, <3>3, <3>4
  <2> QED BY <2>1, <2>2, AfterStart
<1>2. CASE StartNodes
  BY <1>2 DEF StartNodes, StartInv, Starting, Named, InNewCore, actors, counting, thread
<1>3. CASE OnStart
  BY <1>3, OnStartStart
<1>4. CASE OnStartThrows
  BY <1>4 DEF OnStartThrows, StartInv, Starting, Named, InNewCore, thread
<1>5. ASSUME NEW c \in Cores, NewCoreActor(c) PROVE StartInv'
  BY <1>5, Tags DEF NewCoreActor, StartInv, Starting, Named, InNewCore, NewCore, main, thread,
     EngineType
<1>6. CASE StartDone
  BY <1>6 DEF StartDone, StartInv, Starting, Named, InNewCore, actors, thread
<1>7. CASE Run
  BY <1>7, RunStart
<1>8. CASE Finish
  BY <1>8 DEF Finish, StartInv, Starting, Named, InNewCore
<1>9. CASE ShutdownFlags
  BY <1>9 DEF ShutdownFlags, StartInv, Starting, Named, InNewCore
<1>10. CASE ShutdownInterrupts
  BY <1>10 DEF ShutdownInterrupts, StartInv, Starting, Named
<1>11. CASE FinishCount
  BY <1>11 DEF FinishCount, StartInv, Starting, Named
<1>12. CASE FinishWait
  BY <1>12 DEF FinishWait, StartInv, Starting, Named, InNewCore
<1>13. ASSUME NEW c \in Cores, Interrupted(c) PROVE StartInv'
  BY <1>13 DEF Interrupted, StartInv, Starting, Named, InNewCore, main, actors
<1>14. ASSUME NEW c \in Cores, IsRunningClear(c) PROVE StartInv'
  BY <1>14 DEF IsRunningClear, StartInv, Starting, Named, InNewCore, main, actors
<1>15. ASSUME NEW c \in Cores, IsRunningTest(c) PROVE StartInv'
  BY <1>15 DEF IsRunningTest, StartInv, Starting, InNewCore, main
<1>16. ASSUME NEW c \in Cores, DeleteNode(c) PROVE StartInv'
  BY <1>16 DEF DeleteNode, StartInv, Starting, Named, InNewCore, main, actors
<1>17. ASSUME NEW c \in Cores, NEW d \in Cores, NewCoreNode(c, d) PROVE StartInv'
  BY <1>17, Tags DEF NewCoreNode, StartInv, Starting, Named, InNewCore, UserCode, NewCore, main,
     OrderType
<1>18. ASSUME NEW c \in Cores, NewCoreCounted(c) PROVE StartInv'
  BY <1>18 DEF NewCoreCounted, StartInv, Starting, Named, InNewCore, main, actors
<1>19. ASSUME NEW c \in Cores, NewCoreRun(c) PROVE StartInv'
  BY <1>19, Tags DEF NewCoreRun, StartInv, Starting, Named, InNewCore, StopIf, nodeFlags, main,
     EngineType
<1> QED BY <1>1, <1>2, <1>3, <1>4, <1>5, <1>6, <1>7, <1>8, <1>9, <1>10, <1>11, <1>12, <1>13, <1>14,
   <1>15, <1>16, <1>17, <1>18, <1>19 DEF Next, MainStep, LoopStep, Progress, UserStep

\* Who outlives whom
LEMMA PlaceKeeps ==
  ASSUME EngineInv, Next
  PROVE  PlaceInv'
<1> USE DEF EngineInv, OrderInv
<1>1. CASE \/ StartNodes \/ OnStartThrows \/ StartDone \/ Run \/ Finish \/ ShutdownFlags
           \/ ShutdownInterrupts \/ FinishCount \/ FinishWait
  <2>1. UNCHANGED <<requested, alive, home, lastServiceFlag>>
    BY <1>1 DEF StartNodes, OnStartThrows, StartDone, Run, Finish, ShutdownFlags,
       ShutdownInterrupts, FinishCount, FinishWait, actors, services, counting, nodeFlags, thread
  <2> QED BY <2>1 DEF PlaceInv, Gone, HasServices
<1>2. ASSUME NEW c \in Cores, \/ Interrupted(c) \/ IsRunningClear(c) \/ DeleteNode(c) \/ NewCoreCounted(c)
      PROVE  PlaceInv'
  <2>1. UNCHANGED <<requested, alive, home, lastServiceFlag>>
    BY <1>2 DEF Interrupted, IsRunningClear, DeleteNode, NewCoreCounted, main, actors, services,
       counting, nodeFlags
  <2> QED BY <2>1 DEF PlaceInv, Gone, HasServices
<1>3. CASE OnStart
  BY <1>3, OnStartPlace
<1>4. ASSUME NEW c \in Cores, NewCoreActor(c) PROVE PlaceInv'
  BY <1>4, Tags DEF NewCoreActor, PlaceInv, Gone, HasServices, NewCore, StartInv, Starting
<1>5. ASSUME NEW c \in Cores, IsRunningTest(c) PROVE PlaceInv'
  BY <1>5, Tags, AtDeserted DEF IsRunningTest, PlaceInv, Gone, HasServices, services
<1>6. ASSUME NEW c \in Cores, NEW i \in Actors, AskActor(c, i) PROVE PlaceInv'
  BY <1>6, Tags DEF AskActor, PlaceInv, Gone, HasServices, Asked, Delete, main, services,
     onNodeActorsDestroyed
<1>7. ASSUME NEW c \in Cores, NEW s \in Services, AskService(c, s) PROVE PlaceInv'
  BY <1>7, AskServicePlace
<1>8. ASSUME NEW c \in Cores, NEW s \in Services, AskServiceRefused(c, s) PROVE PlaceInv'
  BY <1>8 DEF AskServiceRefused, PlaceInv, Gone, HasServices, Asked, services
<1>9. ASSUME NEW c \in Cores, NEW s \in Services, AskDestroyEvent(c, s) PROVE PlaceInv'
  BY <1>9, Tags DEF AskDestroyEvent, PlaceInv, Gone, HasServices, Asked, Delete,
     onNodeActorsDestroyed, onlyCoreAndServiceReferencedActorsLeft, TurnInv
<1>10. ASSUME NEW c \in Cores, AskSingleton(c) PROVE PlaceInv'
  BY <1>10, Tags DEF AskSingleton, PlaceInv, Gone, HasServices, Asked, Delete, main, services,
     onNodeActorsDestroyed
<1>11. ASSUME NEW c \in Cores, AskCoreLast(c) PROVE PlaceInv'
  BY <1>11, AskCoreLastPlace
<1>12. ASSUME NEW c \in Cores, AskCoreServices(c) PROVE PlaceInv'
  BY <1>12 DEF AskCoreServices, PlaceInv, Gone, HasServices, Asked,
     onlyCoreAndServiceReferencedActorsLeft, CountDown, services
<1>13. ASSUME NEW c \in Cores, AskCoreRefused(c) PROVE PlaceInv'
  BY <1>13 DEF AskCoreRefused, PlaceInv, Gone, HasServices, Asked,
     onlyCoreAndServiceReferencedActorsLeft, services
<1>14. ASSUME NEW c \in Cores, RegularActorsGone(c) PROVE PlaceInv'
  BY <1>14, RegularActorsGonePlace
<1>15. ASSUME NEW s \in Services, OnServiceDestroyEvent(s) PROVE PlaceInv'
  BY <1>15, Tags, ServicesAreActors DEF OnServiceDestroyEvent, PlaceInv, Gone, HasServices, main,
     counting, ToldInv
<1>16. ASSUME NEW c \in Cores, NEW i \in Actors, RequestDestroy(c, i) PROVE PlaceInv'
  BY <1>16, Tags, AtDeserted DEF RequestDestroy, PlaceInv, Gone, HasServices, services
<1>17. ASSUME NEW c \in Cores, NEW i \in Actors, NewActor(c, i) PROVE PlaceInv'
  BY <1>17, Tags, ServicesAreActors DEF NewActor, PlaceInv, Gone, HasServices, services, OrderType
<1>18. ASSUME NEW c \in Cores, NEW d \in Cores, NewCoreNode(c, d) PROVE PlaceInv'
  BY <1>18, NewCoreNodePlace
<1>19. ASSUME NEW c \in Cores, NewCoreRun(c) PROVE PlaceInv'
  BY <1>19, NewCoreRunPlace
<1> QED BY <1>1, <1>2, <1>3, <1>4, <1>5, <1>6, <1>7, <1>8, <1>9, <1>10, <1>11, <1>12, <1>13, <1>14,
   <1>15, <1>16, <1>17, <1>18, <1>19 DEF Next, MainStep, LoopStep, Progress, UserStep

\* A service is told once, by the one that comes after it.
LEMMA ToldKeeps ==
  ASSUME EngineInv, Next
  PROVE  ToldInv'
<1> USE DEF EngineInv, OrderInv
<1>1. CASE \/ StartNodes \/ OnStartThrows \/ StartDone \/ Run \/ Finish \/ ShutdownFlags
           \/ ShutdownInterrupts \/ FinishCount \/ FinishWait
  <2>1. UNCHANGED <<pending, alive, lastServiceFlag, home>>
    BY <1>1 DEF StartNodes, OnStartThrows, StartDone, Run, Finish, ShutdownFlags,
       ShutdownInterrupts, FinishCount, FinishWait, actors, services, counting, nodeFlags, thread
  <2> QED BY <2>1 DEF ToldInv, Previous
<1>2. ASSUME NEW c \in Cores, \/ Interrupted(c) \/ IsRunningClear(c) \/ IsRunningTest(c) \/ DeleteNode(c)
                              \/ AskCoreServices(c) \/ AskCoreRefused(c) \/ RegularActorsGone(c)
                              \/ NewCoreCounted(c)
                              \/ \E i \in Actors : RequestDestroy(c, i)
                              \/ \E s \in Services : AskServiceRefused(c, s)
      PROVE  ToldInv'
  <2>1. UNCHANGED <<pending, alive, lastServiceFlag, home>>
    BY <1>2 DEF Interrupted, IsRunningClear, IsRunningTest, DeleteNode, AskServiceRefused,
       AskCoreServices, AskCoreRefused, RegularActorsGone, RequestDestroy, NewCoreCounted, main,
       actors, services, counting, nodeFlags, thread
  <2> QED BY <2>1 DEF ToldInv, Previous
<1>3. CASE OnStart
  BY <1>3, OnStartTold
<1>4. ASSUME NEW c \in Cores, NewCoreActor(c) PROVE ToldInv'
  BY <1>4, Tags DEF NewCoreActor, ToldInv, NewCore
<1>5. ASSUME NEW c \in Cores, NEW i \in Actors, AskActor(c, i) PROVE ToldInv'
  BY <1>5, Tags DEF AskActor, ToldInv, Previous, Asked, Delete, main, services, counting, thread,
     OrderType
<1>6. ASSUME NEW c \in Cores, NEW s \in Services, AskService(c, s) PROVE ToldInv'
  BY <1>6, Tags DEF AskService, ToldInv, Previous, Asked, Delete, ReleasedSingleton, main, services
<1>7. ASSUME NEW c \in Cores, NEW s \in Services, AskDestroyEvent(c, s) PROVE ToldInv'
  BY <1>7, AskDestroyEventTold
<1>8. ASSUME NEW c \in Cores, AskSingleton(c) PROVE ToldInv'
  BY <1>8, Tags DEF AskSingleton, ToldInv, Previous, Asked, Delete, main, services
<1>9. ASSUME NEW c \in Cores, AskCoreLast(c) PROVE ToldInv'
  BY <1>9, Tags DEF AskCoreLast, ToldInv, Previous, Asked, onlyCoreAndServiceReferencedActorsLeft,
     services
<1>10. ASSUME NEW s \in Services, OnServiceDestroyEvent(s) PROVE ToldInv'
  BY <1>10 DEF OnServiceDestroyEvent, ToldInv
<1>11. ASSUME NEW c \in Cores, NEW i \in Actors, NewActor(c, i) PROVE ToldInv'
  BY <1>11, Tags DEF NewActor, ToldInv, Previous, UserCode, services
<1>12. ASSUME NEW c \in Cores, NEW d \in Cores, NewCoreNode(c, d) PROVE ToldInv'
  BY <1>12, Tags DEF NewCoreNode, ToldInv, NewCore
<1>13. ASSUME NEW c \in Cores, NewCoreRun(c) PROVE ToldInv'
  BY <1>13, Tags, ServicesAreActors DEF NewCoreRun, ToldInv, Previous, StopIf, nodeFlags, main,
     services, EngineType, OrderType
<1> QED BY <1>1, <1>2, <1>3, <1>4, <1>5, <1>6, <1>7, <1>8, <1>9, <1>10, <1>11, <1>12, <1>13 DEF
   Next, MainStep, LoopStep, Progress, UserStep

\* Why a CoreActor waits in a callback, and what its flags say of it
LEMMA CoreKeeps ==
  ASSUME EngineInv, Next
  PROVE  CoreInv'
<1> USE DEF EngineInv, OrderInv
<1>1. CASE \/ StartNodes \/ OnStartThrows \/ StartDone \/ Run \/ Finish \/ ShutdownInterrupts
           \/ FinishCount \/ FinishWait
  <2>1. UNCHANGED <<callback, alive, isServiceDestroyTimeFlag, regularActorsCoreCountFlag, home,
     shutdownFlag>>
    BY <1>1 DEF StartNodes, OnStartThrows, StartDone, Run, Finish, ShutdownInterrupts, FinishCount,
       FinishWait, actors, services, counting, nodeFlags, thread
  <2> QED BY <2>1 DEF CoreInv, HasServices
<1>2. ASSUME NEW c \in Cores, \/ Interrupted(c) \/ IsRunningClear(c) \/ IsRunningTest(c) \/ DeleteNode(c)
                              \/ AskCoreRefused(c) \/ NewCoreCounted(c)
                              \/ \E i \in Actors : RequestDestroy(c, i)
                              \/ \E s \in Services : AskServiceRefused(c, s)
                              \/ \E s \in Services : home[s] = c /\ OnServiceDestroyEvent(s)
      PROVE  CoreInv'
  <2>1. UNCHANGED <<callback, alive, isServiceDestroyTimeFlag, regularActorsCoreCountFlag, home,
     shutdownFlag>>
    BY <1>2 DEF Interrupted, IsRunningClear, IsRunningTest, DeleteNode, AskServiceRefused,
       AskCoreRefused, OnServiceDestroyEvent, RequestDestroy, NewCoreCounted, main, actors,
       services, counting, nodeFlags, thread
  <2> QED BY <2>1 DEF CoreInv, HasServices
<1>3. CASE OnStart
  BY <1>3, OnStartCore
<1>4. ASSUME NEW c \in Cores, NewCoreActor(c) PROVE CoreInv'
  BY <1>4, Tags DEF NewCoreActor, CoreInv, HasServices, NewCore, EngineType
<1>5. CASE ShutdownFlags
  BY <1>5, Tags DEF ShutdownFlags, CoreInv, HasServices, actors, services, counting, EngineType
<1>6. ASSUME NEW c \in Cores, NEW i \in Actors, AskActor(c, i) PROVE CoreInv'
  BY <1>6, Tags DEF AskActor, CoreInv, HasServices, Asked, Delete, main, services, counting
<1>7. ASSUME NEW c \in Cores, NEW s \in Services, AskService(c, s) PROVE CoreInv'
  BY <1>7, AskServiceCore
<1>8. ASSUME NEW c \in Cores, NEW s \in Services, AskDestroyEvent(c, s) PROVE CoreInv'
  BY <1>8, Tags DEF AskDestroyEvent, CoreInv, HasServices, Asked, Delete, main, counting
<1>9. ASSUME NEW c \in Cores, AskSingleton(c) PROVE CoreInv'
  BY <1>9, Tags DEF AskSingleton, CoreInv, HasServices, Asked, Delete, main, services, counting
<1>10. ASSUME NEW c \in Cores, AskCoreLast(c) PROVE CoreInv'
  BY <1>10, AskCoreLastCore
<1>11. ASSUME NEW c \in Cores, AskCoreServices(c) PROVE CoreInv'
  BY <1>11, Tags, AtDeserted, EngineAssumption DEF AskCoreServices, CoreInv, HasServices, Asked,
     CountDown, counting, services, EngineType, OrderType, FlagInv, InNewCore
<1>12. ASSUME NEW c \in Cores, RegularActorsGone(c) PROVE CoreInv'
  BY <1>12, Tags DEF RegularActorsGone, CoreInv, HasServices, EngineType
<1>13. ASSUME NEW c \in Cores, NEW i \in Actors, NewActor(c, i) PROVE CoreInv'
  BY <1>13, Tags, ServicesAreActors DEF NewActor, CoreInv, HasServices, UserCode, main, services,
     counting, nodeFlags
<1>14. ASSUME NEW c \in Cores, NEW d \in Cores, NewCoreNode(c, d) PROVE CoreInv'
  BY <1>14, Tags DEF NewCoreNode, CoreInv, HasServices, NewCore, EngineType
<1>15. ASSUME NEW c \in Cores, NewCoreRun(c) PROVE CoreInv'
  <2>1. UNCHANGED <<callback, isServiceDestroyTimeFlag, regularActorsCoreCountFlag, shutdownFlag>>
    BY <1>15 DEF NewCoreRun, counting, services
  <2>2. \A d \in Cores : Core(d) \in alive' <=> Core(d) \in alive
    <3>1. alive' = alive \/ \E i \in Actors : alive' = alive \cup {Actor(i)}
      BY <1>15 DEF NewCoreRun
    <3> QED BY <3>1, Tags
  <2>3. \A d \in Cores : HasServices(d) => HasServices(d)'
    BY <1>15, ServicesAreActors DEF NewCoreRun, HasServices, OrderType
  <2> QED BY <2>1, <2>2, <2>3 DEF CoreInv
<1> QED BY <1>1, <1>2, <1>3, <1>4, <1>5, <1>6, <1>7, <1>8, <1>9, <1>10, <1>11, <1>12, <1>13, <1>14,
   <1>15 DEF Next, MainStep, LoopStep, Progress, UserStep

\* How far the shutdown of the nodes has come
LEMMA FlagKeeps ==
  ASSUME EngineInv, Next
  PROVE  FlagInv'
<1> USE DEF EngineInv, OrderInv
<1>1. ASSUME NEW c \in Cores, \/ NewCoreActor(c) \/ Interrupted(c) \/ IsRunningClear(c) \/ IsRunningTest(c)
                              \/ DeleteNode(c) \/ AskSingleton(c) \/ AskCoreLast(c) \/ AskCoreServices(c)
                              \/ AskCoreRefused(c) \/ RegularActorsGone(c) \/ NewCoreCounted(c)
                              \/ NewCoreRun(c)
                              \/ \E i \in Actors : AskActor(c, i) \/ RequestDestroy(c, i) \/ NewActor(c, i)
                              \/ \E d \in Cores : NewCoreNode(c, d)
                              \/ \E s \in Services : AskService(c, s) \/ AskServiceRefused(c, s)
                                                     \/ AskDestroyEvent(c, s)
                              \/ \E s \in Services : home[s] = c /\ OnServiceDestroyEvent(s)
      PROVE  FlagInv'
  <2>1. UNCHANGED <<engine, starting, shutdownFlag>>
    BY <1>1 DEF NewCoreActor, Interrupted, IsRunningClear, IsRunningTest, DeleteNode, AskActor,
       AskService, AskServiceRefused, AskDestroyEvent, AskSingleton, AskCoreLast, AskCoreServices,
       AskCoreRefused, RegularActorsGone, OnServiceDestroyEvent, RequestDestroy, NewActor,
       NewCoreNode, NewCoreCounted, NewCoreRun, main, actors, services, counting, nodeFlags, thread
  <2> QED BY <2>1 DEF FlagInv
<1>2. CASE StartNodes
  BY <1>2 DEF StartNodes, FlagInv, actors
<1>3. CASE OnStart
  BY <1>3 DEF OnStart, FlagInv
<1>4. CASE OnStartThrows
  BY <1>4 DEF OnStartThrows, FlagInv, StopIf
<1>5. CASE StartDone
  BY <1>5 DEF StartDone, FlagInv, actors
<1>6. CASE Run
  BY <1>6 DEF Run, FlagInv, actors, Cores
<1>7. CASE Finish
  BY <1>7 DEF Finish, FlagInv, actors, Cores
<1>8. CASE ShutdownFlags
  <2>1. CASE starting <= NumCores
    <3>1. engine = "shutdown" /\ engine' = engine /\ starting \in Cores /\ starting' = starting + 1
      BY <1>8, <2>1 DEF ShutdownFlags, OrderType, Cores
    <3>2. \A c \in Cores : shutdownFlag'[c] <=> shutdownFlag[c] \/ c = starting
      BY <1>8, <2>1, <3>1, FlagSet DEF ShutdownFlags, EngineType
    <3>3. \A c \in Cores : c < starting + 1 => c < starting \/ c = starting
      BY <3>1 DEF Cores
    <3> QED BY <3>1, <3>2, <3>3 DEF FlagInv
  <2>2. CASE starting > NumCores
    <3>1. engine = "shutdown" /\ engine' = "interrupt" /\ shutdownFlag' = shutdownFlag
      BY <1>8, <2>2, EngineAssumption DEF ShutdownFlags, OrderType
    <3>2. \A c \in Cores : c < starting
      BY <2>2, EngineAssumption DEF Cores, OrderType
    <3> QED BY <3>1, <3>2 DEF FlagInv
  <2> QED BY <2>1, <2>2, EngineAssumption DEF OrderType
<1>9. CASE ShutdownInterrupts
  BY <1>9 DEF ShutdownInterrupts, FlagInv
<1>10. CASE FinishCount
  BY <1>10 DEF FinishCount, FlagInv
<1>11. CASE FinishWait
  BY <1>11 DEF FinishWait, FlagInv, actors
<1> QED BY <1>1, <1>2, <1>3, <1>4, <1>5, <1>6, <1>7, <1>8, <1>9, <1>10, <1>11 DEF Next, MainStep,
   LoopStep, Progress, UserStep

\* A regular actor keeps its core among the counted, and services wait for the count.
LEMMA RegularKeeps ==
  ASSUME EngineInv, Next
  PROVE  RegularInv'
<1> USE DEF EngineInv, OrderInv
<1>1. ASSUME NEW c \in Cores, \/ AskCoreRefused(c)
                              \/ \E i \in Actors : RequestDestroy(c, i)
                              \/ \E s \in Services : AskServiceRefused(c, s)
                              \/ \E s \in Services : home[s] = c /\ OnServiceDestroyEvent(s)
      PROVE  RegularInv'
  <2>1. UNCHANGED <<failed, engine, alive, home, node, stopFlag, shutdownFlag,
     isServiceDestroyTimeFlag, pc, target, regularActorsCoreCountFlag>>
    BY <1>1 DEF AskServiceRefused, AskCoreRefused, OnServiceDestroyEvent, RequestDestroy, main,
       services, counting, nodeFlags, thread
  <2> QED BY <2>1 DEF RegularInv, Starting, Counted, HasServices, Regular
<1>2. CASE StartNodes
  BY <1>2 DEF StartNodes, RegularInv, Starting, Counted, HasServices, Regular
<1>3. CASE OnStart
  BY <1>3 DEF OnStart, RegularInv, Starting, Counted
<1>4. CASE OnStartThrows
  BY <1>4 DEF OnStartThrows, RegularInv, Starting, Counted, HasServices, Regular
<1>5. ASSUME NEW c \in Cores, NewCoreActor(c) PROVE RegularInv'
  BY <1>5 DEF NewCoreActor, RegularInv, Starting, Counted, HasServices, main
<1>6. CASE StartDone
  BY <1>6, ServicesAreActors DEF StartDone, RegularInv, Starting, Counted, HasServices, actors,
     services, counting, thread, OrderType, StartInv, PlaceInv
<1>7. CASE Run
  BY <1>7 DEF Run, RegularInv, Starting, Counted, HasServices, actors, services, counting,
     nodeFlags, thread, EngineType, OrderType, StartInv, Named
<1>8. CASE Finish
  BY <1>8 DEF Finish, RegularInv, Starting, Counted, HasServices, Regular, actors, services,
     counting, nodeFlags, thread
<1>9. CASE ShutdownFlags
  BY <1>9 DEF ShutdownFlags, RegularInv, Starting, Counted, HasServices, actors, services,
     counting, nodeFlags, thread, EngineType
<1>10. CASE ShutdownInterrupts
  BY <1>10 DEF ShutdownInterrupts, RegularInv, Starting, Counted, HasServices, actors, services,
     counting, thread
<1>11. CASE FinishCount
  BY <1>11 DEF FinishCount, RegularInv, Starting, Counted, HasServices, actors, services,
     nodeFlags, thread
<1>12. CASE FinishWait
  BY <1>12 DEF FinishWait, RegularInv, Starting, Counted, HasServices, Regular, actors, services,
     counting, nodeFlags, thread
<1>13. ASSUME NEW c \in Cores, Interrupted(c) PROVE RegularInv'
  BY <1>13 DEF Interrupted, RegularInv, Starting, Counted, HasServices, Regular, main, actors,
     services, counting, nodeFlags
<1>14. ASSUME NEW c \in Cores, IsRunningClear(c) PROVE RegularInv'
  BY <1>14 DEF IsRunningClear, RegularInv, Starting, Counted, HasServices, Regular, main, actors,
     services, counting
<1>15. ASSUME NEW c \in Cores, IsRunningTest(c) PROVE RegularInv'
  BY <1>15 DEF IsRunningTest, RegularInv, Starting, Counted, HasServices, Regular, main, services,
     counting
<1>16. ASSUME NEW c \in Cores, DeleteNode(c) PROVE RegularInv'
  BY <1>16 DEF DeleteNode, RegularInv, Starting, Counted, HasServices, Regular, main, actors,
     services, counting, nodeFlags
<1>17. ASSUME NEW c \in Cores, NEW i \in Actors, AskActor(c, i) PROVE RegularInv'
  BY <1>17, Tags DEF AskActor, RegularInv, Starting, Counted, HasServices, Regular, Delete, main,
     services, counting, thread, StopIf, EngineType
<1>18. ASSUME NEW c \in Cores, NEW s \in Services, AskService(c, s) PROVE RegularInv'
  BY <1>18, Tags DEF AskService, RegularInv, Starting, Counted, HasServices, Regular, Delete, main,
     services, counting, thread, StopIf, EngineType
<1>19. ASSUME NEW c \in Cores, NEW s \in Services, AskDestroyEvent(c, s) PROVE RegularInv'
  BY <1>19, Tags DEF AskDestroyEvent, RegularInv, Starting, Counted, HasServices, Regular, Delete,
     main, counting, thread, StopIf, EngineType
<1>20. ASSUME NEW c \in Cores, AskSingleton(c) PROVE RegularInv'
  BY <1>20, Tags DEF AskSingleton, RegularInv, Starting, Counted, HasServices, Regular, Delete,
     main, services, counting, thread, StopIf, EngineType
<1>21. ASSUME NEW c \in Cores, AskCoreLast(c) PROVE RegularInv'
  BY <1>21, CountedDownRegular
<1>22. ASSUME NEW c \in Cores, AskCoreServices(c) PROVE RegularInv'
  BY <1>22, CountedDownRegular
<1>23. ASSUME NEW c \in Cores, RegularActorsGone(c) PROVE RegularInv'
  BY <1>23, RegularActorsGoneRegular
<1>24. ASSUME NEW c \in Cores, NEW i \in Actors, NewActor(c, i) PROVE RegularInv'
  BY <1>24, Tags DEF NewActor, RegularInv, Starting, Counted, HasServices, UserCode, main,
     services, counting, nodeFlags, thread, OrderType, CoreInv, FlagInv, NewCoreInv, InNewCore
<1>25. ASSUME NEW c \in Cores, NEW d \in Cores, NewCoreNode(c, d) PROVE RegularInv'
  BY <1>25, NewCoreNodeRegular
<1>26. ASSUME NEW c \in Cores, NewCoreCounted(c) PROVE RegularInv'
  BY <1>26 DEF NewCoreCounted, RegularInv, Starting, Counted, HasServices, Regular, main, actors,
     services, nodeFlags
<1>27. ASSUME NEW c \in Cores, NewCoreRun(c) PROVE RegularInv'
  BY <1>27, NewCoreRunRegular
<1> QED BY <1>1, <1>2, <1>3, <1>4, <1>5, <1>6, <1>7, <1>8, <1>9, <1>10, <1>11, <1>12, <1>13, <1>14,
   <1>15, <1>16, <1>17, <1>18, <1>19, <1>20, <1>21, <1>22, <1>23, <1>24, <1>25, <1>26, <1>27 DEF
   Next, MainStep, LoopStep, Progress, UserStep

-----------------------------------------------------------------------------

\* Nothing has been started, and the thread of the Engine is the one that counts.
LEMMA EngineInit == Init => EngineInv
<1> SUFFICES ASSUME Init PROVE EngineInv
  OBVIOUS
<1>1. OrderInv
  BY OrderInit
<1>2. EngineType
  BY DEF Init, All, EngineType
<1>3. LoopInv /\ NewCoreInv
  BY DEF Init, All, LoopInv, NewCoreInv, InNewCore, Deserted
<1>4. StartInv
  <2>1. engine = "start" /\ failed = FALSE /\ requested = {} /\ alive = {} /\ starting = 1
    BY DEF Init
  <2>2. \A i \in Actors : home[i] = 0
    BY DEF Init
  <2>3. \A i \in Declared : ~(i < 1)
    BY ServicesAreActors DEF Declared
  <2>4. \A c \in Cores : pc[c] = "isRunning" /\ node[c] = "none" /\ ~regularActorsCoreCountFlag[c]
    BY DEF Init, All
  <2> QED BY <2>1, <2>2, <2>3, <2>4, ServicesAreActors DEF StartInv, Starting
<1>5. PlaceInv /\ ToldInv
  <2>1. \A s \in Services : home[s] = 0 /\ ~lastServiceFlag[s]
    BY ServicesAreActors DEF Init
  <2> QED BY <2>1 DEF Init, PlaceInv, ToldInv, Gone, HasServices, Previous
<1>6. CoreInv /\ FlagInv /\ RegularInv
  BY DEF Init, All, CoreInv, FlagInv, RegularInv, Starting
<1>7. CountRight
  <2>1. Counted = {} /\ engine = "start" /\ regularActorsCoreCount = 1
    BY DEF Init, Counted
  <2>2. Cardinality(Counted) = 0
    BY <2>1, FS_EmptySet
  <2> QED BY <2>1, <2>2 DEF CountRight, Counted
<1> QED BY <1>1, <1>2, <1>3, <1>4, <1>5, <1>6, <1>7 DEF EngineInv

\* A step that changes nothing keeps the invariant.
LEMMA EngineStutters == EngineInv /\ UNCHANGED vars => EngineInv'
<1> SUFFICES ASSUME EngineInv, UNCHANGED vars PROVE EngineInv'
  OBVIOUS
<1> USE DEF vars, main, actors, services, counting, nodeFlags, thread
<1>1. OrderInv'
  BY DEF EngineInv, OrderInv, OrderType, StartInOrder, TurnInv, Gone
<1>2. EngineType' /\ LoopInv' /\ NewCoreInv'
  BY DEF EngineInv, EngineType, LoopInv, NewCoreInv, InNewCore, Deserted
<1>3. StartInv' /\ PlaceInv' /\ ToldInv'
  BY DEF EngineInv, StartInv, Starting, Named, InNewCore, PlaceInv, ToldInv, Gone, HasServices, Previous
<1>4. CoreInv' /\ FlagInv' /\ RegularInv'
  BY DEF EngineInv, CoreInv, FlagInv, RegularInv, Starting, Counted, HasServices, Regular
<1>5. CountRight'
  BY DEF EngineInv, CountRight
<1> QED BY <1>1, <1>2, <1>3, <1>4, <1>5 DEF EngineInv

\* The invariant behind the assertions, the count and the order of destruction
THEOREM EngineInvariant == Spec => []EngineInv
<1>1. EngineInv /\ Next => EngineInv'
  <2> SUFFICES ASSUME EngineInv, Next PROVE EngineInv'
    OBVIOUS
  <2> USE DEF EngineInv, OrderInv
  <2>1. OrderInv'
    BY TurnStep, StartStep, OrderTypeStep DEF OrderInv
  <2>2. EngineType' /\ LoopInv' /\ NewCoreInv'
    BY EngineTypeStep, LoopKeeps, NewCoreKeeps
  <2>3. StartInv' /\ PlaceInv' /\ ToldInv'
    BY StartKeeps, PlaceKeeps, ToldKeeps
  <2>4. CoreInv' /\ FlagInv' /\ RegularInv' /\ CountRight'
    BY CoreKeeps, FlagKeeps, RegularKeeps, CountStep
  <2> QED BY <2>1, <2>2, <2>3, <2>4 DEF EngineInv
<1>2. EngineInv /\ [Next]_vars => EngineInv'
  BY <1>1, EngineStutters
<1> QED BY <1>2, EngineInit, PTL DEF Spec

\* The assertions of engine.cpp and engine.h hold, in whatever order the threads of the cores
\* meet the flags, the count and the events of a shutdown, and whatever newCore() starts.
THEOREM EngineAssertsHold == Spec => []EngineAsserts
<1>1. ASSUME EngineInv PROVE EngineAsserts
  <2> USE DEF EngineInv, OrderInv, OrderType
  <2>1. \A s \in pending : {Actor(s), DestroyEvent(s)} \subseteq alive /\ ~lastServiceFlag[s]
    BY <1>1 DEF ToldInv, PlaceInv
  <2>2. ASSUME NEW c \in Cores
        PROVE  /\ callback[c] => (Core(c) \in alive /\ ~isServiceDestroyTimeFlag[c])
               /\ serviceActorList(c, alive) # {} => Singleton(c) \in alive
               /\ (node[c] = "running" /\ pc[c] = "isRunning") => interruptFlag[c]
               /\ isBeingDestroyedFlag[c] => (stopFlag[c] \/ shutdownFlag[c])
    BY <1>1 DEF CoreInv, PlaceInv, LoopInv, HasServices, serviceActorList
  <2>3. ASSUME NEW c \in Cores, node[c] = "ended"
        PROVE  At(c, alive) = {} /\ \A s \in pending : home[s] # c
    <3>1. Deserted(c)
      BY <1>1, <2>3 DEF LoopInv
    <3> QED BY <1>1, <2>1, <3>1, AtDeserted, ServicesAreActors DEF Deserted
  <2> QED BY <2>1, <2>2, <2>3 DEF EngineAsserts
<1> QED BY <1>1, EngineInvariant, PTL

\* regularActorsCoreCount counts what it should at every moment: each core is counted in and
\* counted out once, whoever starts it and however its CoreActor comes to its end.
THEOREM CountAlwaysRight == Spec => []CountRight
<1>1. EngineInv => CountRight
  BY DEF EngineInv
<1> QED BY <1>1, EngineInvariant, PTL

\* A service that is deleted has accepted on its core.
LEMMA ServiceAccepted ==
  ASSUME OrderInv, Next, NEW s \in Services, Actor(s) \in alive, Actor(s) \notin alive'
  PROVE  \E c \in Cores : AskService(c, s)
<1>1. ~Indifferent
  BY DEF Indifferent
<1>2. ~OnStart
  BY DEF OnStart
<1>3. PICK c \in Cores : \E t \in Services : AskService(c, t) \/ AskDestroyEvent(c, t) \/ OnServiceDestroyEvent(t)
  BY <1>1, <1>2, MainIndifferent, LoopIndifferent, UserIndifferent, OthersIndifferent
     DEF Next, MainStep, Progress, OrderInv
<1>4. PICK t \in Services : AskService(c, t) \/ AskDestroyEvent(c, t) \/ OnServiceDestroyEvent(t)
  BY <1>3
<1>5. AskService(c, t) => alive' = alive \ {Actor(t)}
  BY DEF AskService, Delete
<1>6. AskDestroyEvent(c, t) => alive' = alive \ {DestroyEvent(t)}
  BY DEF AskDestroyEvent, Delete
<1>7. OnServiceDestroyEvent(t) => alive' = alive
  BY DEF OnServiceDestroyEvent
<1>8. AskService(c, t) /\ t = s
  BY <1>4, <1>5, <1>6, <1>7, Tags
<1> QED BY <1>8

\* Unless a constructor of the start threw, no service is destroyed while there is a regular
\* actor on any core: the promise of StartSequence.
THEOREM ServicesGoLast == Spec => ServicesLast
<1>1. ASSUME EngineInv, [Next]_vars
      PROVE  [\A s \in Services : (~failed /\ Actor(s) \in alive /\ Actor(s) \notin alive') => Regular = {}]_vars
  <2> SUFFICES ASSUME Next, NEW s \in Services, ~failed, Actor(s) \in alive, Actor(s) \notin alive'
               PROVE  Regular = {}
    BY <1>1
  <2>1. PICK c \in Cores : AskService(c, s)
    BY <1>1, ServiceAccepted DEF EngineInv
  <2>2. isServiceDestroyTimeFlag[c] /\ home[s] = c /\ pc[c] = "synchronize"
    BY <2>1, AskedWhere, ServicesAreActors DEF AskService
  <2>3. ~Starting /\ HasServices(c)
    BY <1>1, <2>2, NotStarting DEF EngineInv, HasServices
  <2> QED BY <1>1, <2>2, <2>3 DEF EngineInv, RegularInv
<1> QED BY <1>1, EngineInvariant, PTL DEF Spec, ServicesLast
=============================================================================
