--------------------------- MODULE ActorLifecycle ---------------------------
(***************************************************************************)
(* Life and death of the actors of one node: construction, references,     *)
(* singletons, actor-ids and the destruction the event loop performs       *)
(* (actor.h, actor.cpp, node.h, node.cpp, engine.cpp).  A node has one     *)
(* thread.  What makes its destruction hard is user code: constructors,    *)
(* onDestroyRequest() and destructors call back into the functions that    *)
(* are at work.                                                            *)
(*                                                                         *)
(* A step of user code is one call of an Actor or ActorReference function, *)
(* in any order; Habits says which of the riskier things user code does.   *)
(***************************************************************************)
EXTENDS Integers, FiniteSets, Sequences, Chain

CONSTANTS
  Actors,             \* actor objects; each is constructed at most once
  Refs,               \* ActorReference objects, reused when they are NULL
  NoActor, NoRef,
  CheckCyclicalRefs,  \* TREDZONE_CHECK_CYCLICAL_REFS: set in debug builds only
  Habits              \* what user code does, a subset of AllHabits

AllHabits ==
  {"outside",     \* keeps references in objects that are no actor's members
   "copy",        \* copies a reference into a member of another actor
   "defer",       \* returns from onDestroyRequest() without acceptDestroy()
   "reference",   \* takes references while in onDestroyRequest()
   "throw"}       \* throws from a constructor that asked for its destruction

\* What an ActorReference that is not NULL has
RefRecords ==
  [holder : Actors \cup {NoActor}, org : Actors \cup {NoActor}, dest : Actors, should : BOOLEAN]

ASSUME LifecycleAssumption ==
  /\ NoActor \notin Actors /\ NoRef \notin Refs /\ NoRef \notin RefRecords
  /\ IsFiniteSet(Refs)
  /\ CheckCyclicalRefs \in BOOLEAN
  /\ Habits \subseteq AllHabits

VARIABLES
  life,                       \* "unborn", "alive", "dead"
  chain,                      \* which chain the actor's chain pointer names
  asyncActorChain, destroyedActorChain, tmp,
  refs,                       \* Refs -> NoRef or [holder, org, dest, should]
  m_ReferenceFromCount,
  onUnreferencedDestroyFlag, m_DestroyRequestedFlag,
  ctors,                      \* the constructors under way, innermost first
  singleton, reservedFlag,    \* SingletonActorIndexEntry of one class
  actorId,                    \* Actors -> [table, id]
  eventTable,                 \* sequence of the tables' nodeActorId, 0 = free
  freeEventTable,             \* the free tables, a stack
  shutdownFlag, stopFlag, isBeingDestroyedFlag,
  pc, current                \* where the loop is, and with which actor

chains  == <<chain, asyncActorChain, destroyedActorChain, tmp>>
flags   == <<onUnreferencedDestroyFlag, m_DestroyRequestedFlag>>
counts  == <<refs, m_ReferenceFromCount>>
single  == <<singleton, reservedFlag>>
ids     == <<actorId, eventTable, freeEventTable>>
loop    == <<shutdownFlag, stopFlag, isBeingDestroyedFlag, pc, current>>
vars    == <<life, chains, flags, counts, ctors, single, ids, loop>>

Init ==
  /\ life = [a \in Actors |-> "unborn"]
  /\ chain = [a \in Actors |-> "none"]
  /\ asyncActorChain = << >> /\ destroyedActorChain = << >> /\ tmp = << >>
  /\ refs = [r \in Refs |-> NoRef]
  /\ m_ReferenceFromCount = [a \in Actors |-> 0]
  /\ onUnreferencedDestroyFlag = [a \in Actors |-> FALSE]
  /\ m_DestroyRequestedFlag = [a \in Actors |-> FALSE]
  /\ ctors = << >>
  /\ singleton = NoActor /\ reservedFlag = FALSE
  /\ actorId = [a \in Actors |-> [table |-> 0, id |-> 0]]
  /\ eventTable = << >> /\ freeEventTable = << >>
  /\ shutdownFlag = FALSE /\ stopFlag = FALSE /\ isBeingDestroyedFlag = FALSE
  /\ pc = "run" /\ current = NoActor

-----------------------------------------------------------------------------

Alive(a)      == life[a] = "alive"
Used          == {r \in Refs : refs[r] # NoRef}
Free          == {r \in Refs \ Used : \A i \in DOMAIN ctors : ctors[i].ref # r}

\* User code runs in handlers and callbacks, or in onDestroyRequest().
UserCode      == pc \in {"run", "onDestroyRequest"}
MayReference  == pc = "run" \/ (UserCode /\ "reference" \in Habits)

\* Where a new ActorReference object may be: a member of the actor, or elsewhere.
Holders(o)    == {o} \cup (IF "outside" \in Habits THEN {NoActor} ELSE {})

\* Mutant of recursiveFind: only the references of the destination to itself.
recursiveFindSelf(org, dest) == CheckCyclicalRefs /\ org = dest

\* RefMapper::recursiveFind: does a chain of references lead from dest to org?
\* That is, is org in every set with dest that is closed under references?
recursiveFind(org, dest) ==
  /\ CheckCyclicalRefs
  /\ \A S \in SUBSET Actors :
       (dest \in S /\ \A r \in Used : refs[r].org \in S => refs[r].dest \in S)
         => org \in S

\* Mutant of MoveToDestroyed: the actor is not taken out of the chain it is in.
MoveToDestroyedOnly(a) ==
  /\ destroyedActorChain' = Append(destroyedActorChain, a)
  /\ chain' = [chain EXCEPT ![a] = "destroyedActorChain"]
  /\ asyncActorChain' = Without(asyncActorChain, a)
  /\ UNCHANGED tmp

\* The body of requestDestroy(): out of the chain it is in, into the other.
MoveToDestroyed(a) ==
  /\ destroyedActorChain' = Append(destroyedActorChain, a)
  /\ chain' = [chain EXCEPT ![a] = "destroyedActorChain"]
  /\ asyncActorChain' = IF chain[a] = "asyncActorChain"
                        THEN Without(asyncActorChain, a) ELSE asyncActorChain
  /\ tmp' = IF chain[a] = "tmp" THEN Without(tmp, a) ELSE tmp

requestDestroy(a, count) ==
  /\ onUnreferencedDestroyFlag' = [onUnreferencedDestroyFlag EXCEPT ![a] = TRUE]
  /\ IF count = 0 /\ chain[a] # "destroyedActorChain"
     THEN MoveToDestroyed(a)
     ELSE UNCHANGED chains

\* ActorReferenceBase(org, dest, destroy_f), in an object that holder has
Reference(r, holder, o, d, should) ==
  /\ refs' = [refs EXCEPT ![r] =
                [holder |-> holder, org |-> o, dest |-> d, should |-> should]]
  /\ m_ReferenceFromCount' = [m_ReferenceFromCount EXCEPT ![d] = @ + 1]

-----------------------------------------------------------------------------
(* References                                                              *)

RequestDestroy(a) ==
  /\ UserCode \/ pc = "delete"
  /\ Alive(a)
  /\ requestDestroy(a, m_ReferenceFromCount[a])
  /\ UNCHANGED <<life, m_DestroyRequestedFlag, counts, ctors, single, ids, loop>>

\* The actor-id of a leads to b: its event table is b's, with the id of a.
getReferenceToLocalActor(a, b) ==
  /\ Alive(b) /\ actorId[a].table = actorId[b].table
  /\ eventTable[actorId[a].table] = actorId[a].id

\* o.referenceLocalActor(id of a)
ReferenceLocalActor(o, a, r) ==
  /\ MayReference
  /\ Alive(o) /\ life[a] # "unborn" /\ r \in Free
  /\ \E b \in Actors : \E h \in Holders(o) :
       /\ getReferenceToLocalActor(a, b)
       /\ ~recursiveFind(o, b)
       /\ Reference(r, h, o, b, FALSE)
  /\ UNCHANGED <<life, chains, flags, ctors, single, ids, loop>>

\* A copy of s in a new object; operator= is Unreference followed by this.
CopyReference(s, r) ==
  /\ MayReference
  /\ s \in Used /\ r \in Free
  /\ \E h \in Holders(refs[s].holder)
              \cup (IF "copy" \in Habits THEN {a \in Actors : Alive(a) /\ a # refs[s].dest} ELSE {}) :
       Reference(r, h, refs[s].org, refs[s].dest, refs[s].should)
  /\ UNCHANGED <<life, chains, flags, ctors, single, ids, loop>>

\* Mutant of unreference: a request made while the actor was referenced is lost.
unreferenceOwned(r) ==
  LET a == refs[r].dest
      count == m_ReferenceFromCount[a] - 1 IN
  /\ m_ReferenceFromCount' = [m_ReferenceFromCount EXCEPT ![a] = count]
  /\ IF count = 0 /\ refs[r].should
     THEN requestDestroy(a, count)
     ELSE UNCHANGED <<chains, onUnreferencedDestroyFlag>>

\* What releasing the reference in r does to its destination
unreference(r) ==
  LET a == refs[r].dest
      count == m_ReferenceFromCount[a] - 1 IN
  /\ m_ReferenceFromCount' = [m_ReferenceFromCount EXCEPT ![a] = count]
  /\ IF count = 0 /\ (refs[r].should \/ onUnreferencedDestroyFlag[a])
     THEN requestDestroy(a, count)
     ELSE UNCHANGED <<chains, onUnreferencedDestroyFlag>>

\* ~ActorReference(), reset(), or r = r; a destructor releases the members.
Unreference(r) ==
  /\ r \in Used
  /\ UserCode \/ (pc = "delete" /\ refs[r].holder = current)
  /\ unreference(r)
  /\ refs' = [refs EXCEPT ![r] = NoRef]
  /\ UNCHANGED <<life, m_DestroyRequestedFlag, ctors, single, ids, loop>>

-----------------------------------------------------------------------------
(* Construction                                                            *)

\* Mutant of retainEventTable: the table keeps the id of the actor it had before.
retainEventTableSameId(a) ==
  LET t == IF freeEventTable = << >> THEN Len(eventTable) + 1 ELSE Head(freeEventTable) IN
  /\ actorId' = [actorId EXCEPT ![a] = [table |-> t, id |-> t]]
  /\ IF freeEventTable = << >>
     THEN eventTable' = Append(eventTable, t) /\ UNCHANGED freeEventTable
     ELSE eventTable' = [eventTable EXCEPT ![t] = t] /\ freeEventTable' = Tail(freeEventTable)

\* The next id (nextHanlerId counts the actors constructed) in a free table, or
\* in a new one.
retainEventTable(a) ==
  LET id == 1 + Cardinality({b \in Actors : life[b] # "unborn"})
      t  == IF freeEventTable = << >> THEN Len(eventTable) + 1 ELSE Head(freeEventTable) IN
  /\ actorId' = [actorId EXCEPT ![a] = [table |-> t, id |-> id]]
  /\ IF freeEventTable = << >>
     THEN eventTable' = Append(eventTable, id) /\ UNCHANGED freeEventTable
     ELSE eventTable' = [eventTable EXCEPT ![t] = id] /\ freeEventTable' = Tail(freeEventTable)

\* Actor::Actor(); the constructor of the derived class is still to run.
Construct(a, by, holder, r, isSingleton) ==
  /\ MayReference
  /\ life[a] = "unborn"
  /\ ~shutdownFlag /\ ~stopFlag
  /\ life' = [life EXCEPT ![a] = "alive"]
  /\ retainEventTable(a)
  /\ asyncActorChain' = Append(asyncActorChain, a)
  /\ chain' = [chain EXCEPT ![a] = "asyncActorChain"]
  /\ ctors' = <<[actor |-> a, by |-> by, holder |-> holder, ref |-> r,
                single |-> isSingleton]>> \o ctors
  /\ UNCHANGED <<destroyedActorChain, tmp, flags, counts, loop>>

NewUnreferencedActor(a) ==
  /\ Construct(a, NoActor, NoActor, NoRef, FALSE)
  /\ UNCHANGED single

NewReferencedActor(o, a, r) ==
  /\ Alive(o) /\ r \in Free
  /\ \E h \in Holders(o) : Construct(a, o, h, r, FALSE)
  /\ UNCHANGED single

\* newReferencedSingletonActor() without a singleton; reserveSingletonActor()
\* throws while one is under construction.
NewReferencedSingletonActor(o, a, r) ==
  /\ Alive(o) /\ r \in Free
  /\ singleton = NoActor /\ ~reservedFlag
  /\ \E h \in Holders(o) : Construct(a, o, h, r, TRUE)
  /\ reservedFlag' = TRUE /\ UNCHANGED singleton

\* ... and with one
ReferenceSingletonActor(o, r) ==
  /\ MayReference
  /\ Alive(o) /\ r \in Free
  /\ singleton # NoActor
  /\ ~recursiveFind(o, singleton)
  /\ \E h \in Holders(o) : Reference(r, h, o, singleton, TRUE)
  /\ UNCHANGED <<life, chains, flags, ctors, single, ids, loop>>

\* The innermost constructor returns.  newReferencedActor() references the new
\* actor, or asks for its destruction when that reference would close a cycle.
Constructed ==
  LET new == Head(ctors) IN
  /\ ctors # << >>
  /\ ctors' = Tail(ctors)
  /\ IF new.by # NoActor /\ ~recursiveFind(new.by, new.actor)
     THEN /\ Reference(new.ref, new.holder, new.by, new.actor, TRUE)
          /\ singleton' = IF new.single THEN new.actor ELSE singleton
          /\ UNCHANGED <<chains, onUnreferencedDestroyFlag>>
     ELSE /\ IF new.by = NoActor
             THEN UNCHANGED <<chains, onUnreferencedDestroyFlag>>
             ELSE requestDestroy(new.actor, m_ReferenceFromCount[new.actor])
          /\ UNCHANGED <<counts, singleton>>
  /\ reservedFlag' = (reservedFlag /\ ~new.single)
  /\ UNCHANGED <<life, m_DestroyRequestedFlag, ids, loop>>

\* ~Actor(): the event table is released, the references that other objects had
\* from this actor lose their origin, and the last actor stops the node.
Destructor(a) ==
  LET t == actorId[a].table IN
  /\ life' = [life EXCEPT ![a] = "dead"]
  /\ eventTable' = [eventTable EXCEPT ![t] = 0]
  /\ freeEventTable' = <<t>> \o freeEventTable
  /\ refs' = [r \in Refs |-> IF r \in Used /\ refs[r].org = a
                             THEN [refs[r] EXCEPT !.org = NoActor] ELSE refs[r]]
  /\ stopFlag' = (stopFlag \/ \A b \in Actors \ {a} : ~Alive(b))
  /\ UNCHANGED <<m_ReferenceFromCount, actorId>>

\* The innermost constructor throws when its members are gone; nobody may have
\* been given a reference to the actor.
ConstructorThrows ==
  LET new == Head(ctors) IN
  /\ ctors # << >>
  /\ \A r \in Used : refs[r].holder # new.actor
  /\ "throw" \in Habits \/ chain[new.actor] = "asyncActorChain"
  /\ m_ReferenceFromCount[new.actor] = 0
  /\ Destructor(new.actor)
  /\ ctors' = Tail(ctors)
  /\ reservedFlag' = (reservedFlag /\ ~new.single)
  /\ asyncActorChain' = IF chain[new.actor] = "asyncActorChain"
                        THEN Without(asyncActorChain, new.actor) ELSE asyncActorChain
  /\ UNCHANGED <<chain, destroyedActorChain, tmp, flags, singleton, shutdownFlag,
                 isBeingDestroyedFlag, pc, current>>

-----------------------------------------------------------------------------
(* The event loop                                                          *)

\* AsyncNodeManager::shutdown(), from another thread
Shutdown ==
  /\ ~shutdownFlag /\ shutdownFlag' = TRUE
  /\ UNCHANGED <<life, chains, flags, counts, ctors, single, ids, stopFlag,
                 isBeingDestroyedFlag, pc, current>>

\* synchronizeDestroyAsyncActors() begins
BeginDestroy ==
  /\ pc = "run" /\ ctors = << >>
  /\ pc' = "destroy"
  /\ tmp' = destroyedActorChain /\ destroyedActorChain' = << >>
  /\ UNCHANGED <<life, chain, asyncActorChain, flags, counts, ctors, single, ids,
                 shutdownFlag, stopFlag, isBeingDestroyedFlag, current>>

\* The first actor has been referenced again: back among the living.
DestroyReferenced ==
  /\ pc = "destroy" /\ tmp # << >>
  /\ m_ReferenceFromCount[Head(tmp)] # 0
  /\ chain' = [chain EXCEPT ![Head(tmp)] = "asyncActorChain"]
  /\ asyncActorChain' = Append(asyncActorChain, Head(tmp))
  /\ tmp' = Tail(tmp)
  /\ UNCHANGED <<life, destroyedActorChain, flags, counts, ctors, single, ids, loop>>

\* The first actor is asked.
CallOnDestroyRequest ==
  LET a == Head(tmp) IN
  /\ pc = "destroy" /\ tmp # << >>
  /\ m_ReferenceFromCount[a] = 0
  /\ chain' = [chain EXCEPT ![a] = "tmp"]
  /\ onUnreferencedDestroyFlag' = [onUnreferencedDestroyFlag EXCEPT ![a] = FALSE]
  /\ m_DestroyRequestedFlag' = [m_DestroyRequestedFlag EXCEPT ![a] = FALSE]
  /\ pc' = "onDestroyRequest" /\ current' = a
  /\ UNCHANGED <<life, asyncActorChain, destroyedActorChain, tmp, counts, ctors, single, ids,
                 shutdownFlag, stopFlag, isBeingDestroyedFlag>>

acceptDestroy ==
  /\ pc = "onDestroyRequest"
  /\ ~m_DestroyRequestedFlag[current]
  /\ m_DestroyRequestedFlag' = [m_DestroyRequestedFlag EXCEPT ![current] = TRUE]
  /\ UNCHANGED <<life, chains, onUnreferencedDestroyFlag, counts, ctors, single, ids, loop>>

\* Mutant of Accepted: the reference count is not looked at again.
AcceptedOnly == m_DestroyRequestedFlag[current]

Accepted == m_DestroyRequestedFlag[current] /\ m_ReferenceFromCount[current] = 0

\* Mutant of DeleteActor: the chain pointer is left at the local chain.
DeleteActorInTmp ==
  /\ pc = "onDestroyRequest" /\ ctors = << >>
  /\ Accepted
  /\ tmp' = Without(tmp, current)
  /\ destroyedActorChain' = Without(destroyedActorChain, current)
  /\ singleton' = IF singleton = current THEN NoActor ELSE singleton
  /\ pc' = "delete"
  /\ UNCHANGED <<life, chain, asyncActorChain, flags, counts, ctors, reservedFlag, ids,
                 shutdownFlag, stopFlag, isBeingDestroyedFlag, current>>

\* onDestroyRequest() returns and the actor is to be deleted ...
DeleteActor ==
  /\ pc = "onDestroyRequest" /\ ctors = << >>
  /\ Accepted
  /\ tmp' = Without(tmp, current)
  /\ destroyedActorChain' = Without(destroyedActorChain, current)
  /\ chain' = [chain EXCEPT ![current] = "destroyedActorChain"]
  /\ singleton' = IF singleton = current THEN NoActor ELSE singleton
  /\ pc' = "delete"
  /\ UNCHANGED <<life, asyncActorChain, flags, counts, ctors, reservedFlag, ids,
                 shutdownFlag, stopFlag, isBeingDestroyedFlag, current>>

\* ... or lives on; when it asked again it is in the chain of the next pass.
KeepActor ==
  /\ pc = "onDestroyRequest" /\ ctors = << >>
  /\ "defer" \in Habits \/ m_DestroyRequestedFlag[current]
  /\ ~Accepted
  /\ IF chain[current] = "tmp"
     THEN /\ chain' = [chain EXCEPT ![current] = "asyncActorChain"]
          /\ asyncActorChain' = Append(asyncActorChain, current)
          /\ tmp' = Tail(tmp)
     ELSE UNCHANGED <<chain, asyncActorChain, tmp>>
  /\ pc' = "destroy" /\ current' = NoActor
  /\ UNCHANGED <<life, destroyedActorChain, flags, counts, ctors, single, ids,
                 shutdownFlag, stopFlag, isBeingDestroyedFlag>>

\* The destructors of the derived class and of its members are done.
DeleteDone ==
  /\ pc = "delete"
  /\ \A r \in Used : refs[r].holder # current
  /\ Destructor(current)
  /\ pc' = "destroy" /\ current' = NoActor
  /\ UNCHANGED <<chains, flags, ctors, single, shutdownFlag, isBeingDestroyedFlag>>

DestroyDone ==
  /\ pc = "destroy" /\ tmp = << >>
  /\ pc' = "isRunning"
  /\ UNCHANGED <<life, chains, flags, counts, ctors, single, ids, shutdownFlag,
                 stopFlag, isBeingDestroyedFlag, current>>

\* AsyncNode::destroyAsyncActors(): requestDestroy() for every actor of the chain
destroyAsyncActors ==
  LET Unreferenced == {a \in Actors : m_ReferenceFromCount[a] = 0} IN
  /\ onUnreferencedDestroyFlag' =
       [a \in Actors |-> onUnreferencedDestroyFlag[a] \/ InChain(asyncActorChain, a)]
  /\ chain' = [a \in Actors |->
                 IF InChain(asyncActorChain, a) /\ a \in Unreferenced
                 THEN "destroyedActorChain" ELSE chain[a]]
  /\ destroyedActorChain' = destroyedActorChain \o Kept(asyncActorChain, Unreferenced)
  /\ asyncActorChain' = Kept(asyncActorChain, Actors \ Unreferenced)
  /\ UNCHANGED tmp

\* Mutant of isRunning: the chain of actors still to be destroyed is not looked at.
isRunningAsyncOnly ==
  /\ pc = "isRunning"
  /\ pc' = IF isBeingDestroyedFlag /\ asyncActorChain = << >> THEN "ended" ELSE "run"
  /\ isBeingDestroyedFlag' = (isBeingDestroyedFlag \/ stopFlag \/ shutdownFlag)
  /\ IF isBeingDestroyedFlag' /\ ~isBeingDestroyedFlag
     THEN destroyAsyncActors
     ELSE UNCHANGED <<chains, onUnreferencedDestroyFlag>>
  /\ UNCHANGED <<life, m_DestroyRequestedFlag, counts, ctors, single, ids, shutdownFlag,
                 stopFlag, current>>

\* EngineEventLoop::isRunning()
isRunning ==
  /\ pc = "isRunning"
  /\ pc' = IF isBeingDestroyedFlag /\ asyncActorChain = << >> /\ destroyedActorChain = << >>
           THEN "ended" ELSE "run"
  /\ isBeingDestroyedFlag' = (isBeingDestroyedFlag \/ stopFlag \/ shutdownFlag)
  /\ IF isBeingDestroyedFlag' /\ ~isBeingDestroyedFlag
     THEN destroyAsyncActors
     ELSE UNCHANGED <<chains, onUnreferencedDestroyFlag>>
  /\ UNCHANGED <<life, m_DestroyRequestedFlag, counts, ctors, single, ids, shutdownFlag,
                 stopFlag, current>>

-----------------------------------------------------------------------------

LoopStep ==
  \/ BeginDestroy \/ DestroyReferenced \/ CallOnDestroyRequest
  \/ DeleteActor \/ KeepActor \/ DeleteDone \/ DestroyDone \/ isRunning

UserStep ==
  \/ \E a \in Actors : RequestDestroy(a) \/ NewUnreferencedActor(a)
  \/ \E o, a \in Actors : \E r \in Refs :
       NewReferencedActor(o, a, r) \/ NewReferencedSingletonActor(o, a, r) \/ ReferenceLocalActor(o, a, r)
  \/ \E o \in Actors : \E r \in Refs : ReferenceSingletonActor(o, r)
  \/ \E s, r \in Refs : CopyReference(s, r)
  \/ \E r \in Refs : Unreference(r)
  \/ Constructed \/ ConstructorThrows
  \/ acceptDestroy

Next == LoopStep \/ UserStep \/ Shutdown

Spec == Init /\ [][Next]_vars

\* The thread of the node goes on, and the constructors, onDestroyRequest() and
\* the destructors that it calls come to their end.
FairSpec ==
  /\ Spec
  /\ WF_vars(LoopStep)
  /\ WF_vars(acceptDestroy)
  /\ WF_vars(Constructed)
  /\ WF_vars(pc = "delete" /\ \E r \in Refs : Unreference(r))

-----------------------------------------------------------------------------
(* Properties.                                                             *)

CtorRecords ==
  [actor : Actors, by : Actors \cup {NoActor}, holder : Actors \cup {NoActor},
   ref : Refs \cup {NoRef}, single : BOOLEAN]

TypeOK ==
  /\ life \in [Actors -> {"unborn", "alive", "dead"}]
  /\ chain \in [Actors -> {"none", "asyncActorChain", "destroyedActorChain", "tmp"}]
  /\ asyncActorChain \in Seq(Actors) /\ destroyedActorChain \in Seq(Actors) /\ tmp \in Seq(Actors)
  /\ refs \in [Refs -> RefRecords \cup {NoRef}]
  /\ m_ReferenceFromCount \in [Actors -> Nat]
  /\ onUnreferencedDestroyFlag \in [Actors -> BOOLEAN]
  /\ m_DestroyRequestedFlag \in [Actors -> BOOLEAN]
  /\ ctors \in Seq(CtorRecords)
  /\ singleton \in Actors \cup {NoActor} /\ reservedFlag \in BOOLEAN
  /\ actorId \in [Actors -> [table : Nat, id : Nat]]
  /\ eventTable \in Seq(Nat) /\ freeEventTable \in Seq(Nat)
  /\ shutdownFlag \in BOOLEAN /\ stopFlag \in BOOLEAN /\ isBeingDestroyedFlag \in BOOLEAN
  /\ pc \in {"run", "destroy", "onDestroyRequest", "delete", "isRunning", "ended"}
  /\ current \in Actors \cup {NoActor}

\* "Any existing instance of this class with non-NULL reference to an actor will
\* prevent that actor from being destroyed" (ActorReference): what a reference or
\* the singleton index names is alive, and the counts are right.
NoDangling ==
  /\ \A r \in Used :
       /\ Alive(refs[r].dest)
       /\ refs[r].holder = NoActor \/ Alive(refs[r].holder)
       /\ refs[r].org = NoActor \/ Alive(refs[r].org)
  /\ singleton = NoActor \/ Alive(singleton)
  /\ \A a \in Actors :
       m_ReferenceFromCount[a] = Cardinality({r \in Used : refs[r].dest = a})

\* Each actor that is alive is in one chain, once, and its chain pointer, which
\* requestDestroy() and ~Actor() go by, does not mislead them.
ChainsAgree ==
  LET all == asyncActorChain \o destroyedActorChain \o tmp IN
  /\ \A i, j \in DOMAIN all : all[i] = all[j] => i = j
  /\ \A a \in Actors :
       /\ InChain(all, a) <=> Alive(a) /\ ~(pc = "delete" /\ current = a)
       /\ InChain(asyncActorChain, a) <=> Alive(a) /\ chain[a] = "asyncActorChain"
       /\ InChain(destroyedActorChain, a) => chain[a] = "destroyedActorChain"
       /\ chain[a] = "tmp" => pc = "onDestroyRequest" /\ a = current /\ a = Head(tmp)

\* A request for destruction is not forgotten: once no reference is left, the
\* actor is where the event loop will find it.
RequestKept ==
  \A a \in Actors :
    Alive(a) /\ onUnreferencedDestroyFlag[a] /\ m_ReferenceFromCount[a] = 0
      => \/ InChain(destroyedActorChain, a) \/ InChain(tmp, a)
         \/ pc = "delete" /\ current = a

\* An actor-id leads to the actor it was taken from while that is alive, and to
\* nobody after that, though event tables are used again.
IdsLeadHome ==
  \A a, b \in Actors :
    life[a] # "unborn" => (getReferenceToLocalActor(a, b) <=> a = b /\ Alive(a))

\* The asserts of ~Actor() about references, chain and flag.
DestructorAsserts ==
  [][\A a \in Actors :
       Alive(a) /\ life'[a] = "dead" =>
         /\ m_ReferenceFromCount[a] = 0
         /\ \/ chain[a] = "asyncActorChain" /\ ~m_DestroyRequestedFlag[a]
            \/ chain[a] = "destroyedActorChain" /\ m_DestroyRequestedFlag[a]]_vars

\* Is there a way from a back to a along the references from o(r) to their
\* destinations?
Circular(o(_)) ==
  \E S \in (SUBSET Actors) \ {{}} :
    \A a \in S : \E r \in Used : o(r) \in S /\ refs[r].dest = a

\* With TREDZONE_CHECK_CYCLICAL_REFS the references, taken from the actor that
\* created them, make no circle.
NoCircularReference ==
  CheckCyclicalRefs => ~Circular(LAMBDA r : refs[r].org)

\* A node that is shut down destroys all of its actors and comes to its end, and not
\* before.
NodeStops == shutdownFlag ~> (pc = "ended" /\ \A a \in Actors : ~Alive(a))
=============================================================================
