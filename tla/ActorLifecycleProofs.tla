------------------------- MODULE ActorLifecycleProofs -------------------------
(***************************************************************************)
(* The safety of ActorLifecycle, for any number of actors and references   *)
(* and every use of the calls: no reference dangles, the chains and the    *)
(* chain pointers agree, no request for destruction is forgotten, the      *)
(* asserts of ~Actor() hold, actor-ids lead home, and the references make  *)
(* no circle where the build looks for one.                                *)
(*                                                                         *)
(* One habit of user code is excluded, as the code does not stand it (run  *)
(* lifecycle_throw): to throw from a constructor that has asked for the    *)
(* destruction of its actor.                                               *)
(*                                                                         *)
(* The invariant has a part for each of: where the event loop is, the      *)
(* chains, the constructors under way, the references and their counts,    *)
(* the requests, and the actor-ids.  NoCircularReference is inductive as   *)
(* it stands.                                                              *)
(***************************************************************************)
EXTENDS ActorLifecycle, ChainProofs, FiniteSetTheorems

NoThrow == "throw" \notin Habits

Chains == {"asyncActorChain", "destroyedActorChain", "tmp"}

\* Where the loop is, and what it knows there of the actor that it deletes: it has
\* accepted, nobody refers to it, and the singleton index does not name it any more.
PlaceInv ==
  /\ ctors # << >> => UserCode
  /\ pc \in {"onDestroyRequest", "delete"} => current \in Actors /\ Alive(current)
  /\ pc \in {"run", "isRunning", "ended"} => tmp = << >>
  /\ pc = "delete" =>
       /\ m_ReferenceFromCount[current] = 0 /\ m_DestroyRequestedFlag[current]
       /\ singleton # current

\* An actor that is alive is in one chain, once, but for the one being deleted.  The chain
\* pointer says in which; it still says destroyedActorChain of those in the local chain
\* that have not been asked yet.
ChainInv ==
  /\ IsInjective(asyncActorChain) /\ IsInjective(destroyedActorChain) /\ IsInjective(tmp)
  /\ \A a \in Actors :
       /\ InChain(asyncActorChain, a) <=> Alive(a) /\ chain[a] = "asyncActorChain"
       /\ InChain(destroyedActorChain, a) => Alive(a) /\ chain[a] = "destroyedActorChain"
       /\ InChain(tmp, a) => Alive(a) /\ chain[a] \in {"destroyedActorChain", "tmp"}
       /\ ~(InChain(destroyedActorChain, a) /\ InChain(tmp, a))
       /\ Alive(a) /\ ~(pc = "delete" /\ a = current) =>
            InChain(asyncActorChain, a) \/ InChain(destroyedActorChain, a) \/ InChain(tmp, a)
       /\ chain[a] = "tmp" => pc = "onDestroyRequest" /\ a = current /\ tmp # << >> /\ a = Head(tmp)
  /\ pc = "onDestroyRequest" => chain[current] \in {"destroyedActorChain", "tmp"}
  /\ pc = "delete" =>
       /\ chain[current] = "destroyedActorChain"
       /\ ~InChain(destroyedActorChain, current) /\ ~InChain(tmp, current)

\* An actor under construction is nobody's yet: it was never asked, it is not the singleton,
\* and no constructor further out is its own or was called by it.  The reference that is to
\* name it is reserved.
CtorOK(c) ==
  /\ Alive(c.actor) /\ c.by # c.actor
  /\ ~m_DestroyRequestedFlag[c.actor]
  /\ c.actor # singleton
  /\ pc = "onDestroyRequest" => c.actor # current
  /\ c.holder \in {c.by, NoActor}
  /\ c.by # NoActor => Alive(c.by) /\ c.ref \in Refs /\ refs[c.ref] = NoRef

CtorInv ==
  /\ \A i \in DOMAIN ctors : CtorOK(ctors[i])
  /\ \A i, j \in DOMAIN ctors : i < j =>
       /\ ctors[i].actor # ctors[j].actor /\ ctors[i].actor # ctors[j].by
       /\ ctors[i].by # NoActor /\ ctors[j].by # NoActor => ctors[i].ref # ctors[j].ref
  /\ \A a \in Actors : life[a] = "unborn" => ~m_DestroyRequestedFlag[a]

\* A request for destruction is not forgotten, by the chain pointers; one that is made while
\* the actor decides is not lost when it goes back among the living.
KeptInv ==
  /\ \A a \in Actors :
       /\ Alive(a) /\ onUnreferencedDestroyFlag[a] /\ m_ReferenceFromCount[a] = 0
            => chain[a] # "asyncActorChain"
       /\ life[a] = "unborn" => ~onUnreferencedDestroyFlag[a]
  /\ pc = "onDestroyRequest" /\ chain[current] = "tmp" /\ onUnreferencedDestroyFlag[current]
       => m_ReferenceFromCount[current] # 0

\* No two actors were given the same id; an actor that is alive has the table to itself, and
\* the free tables have no id.
Born == {a \in Actors : life[a] # "unborn"}

IdInv ==
  /\ IsFiniteSet(Born)
  /\ \A a \in Born :
       /\ actorId[a].table \in DOMAIN eventTable
       /\ actorId[a].id \in 1 .. Cardinality(Born)
  /\ \A a, b \in Born : actorId[a].id = actorId[b].id => a = b
  /\ \A a \in Actors : Alive(a) => eventTable[actorId[a].table] = actorId[a].id
  /\ \A t : InChain(freeEventTable, t) => t \in DOMAIN eventTable /\ eventTable[t] = 0
  /\ IsInjective(freeEventTable)

LifecycleInv ==
  /\ TypeOK /\ PlaceInv /\ ChainInv /\ CtorInv /\ NoDangling /\ KeptInv

-----------------------------------------------------------------------------
(* The chains                                                              *)

\* An actor that is taken to the chain of those to be destroyed leaves the one that it is in.
LEMMA MoveToDestroyedChains ==
  ASSUME TypeOK, ChainInv, NEW a \in Actors, Alive(a), chain[a] # "destroyedActorChain",
         pc = "delete" => a # current,
         MoveToDestroyed(a), UNCHANGED <<life, pc, current>>
  PROVE  ChainInv'
<1> USE DEF Alive
<1>1. /\ asyncActorChain \in Seq(Actors) /\ destroyedActorChain \in Seq(Actors) /\ tmp \in Seq(Actors)
      /\ chain \in [Actors -> Chains \cup {"none"}]
  BY DEF TypeOK, Chains
<1>2. /\ ~InChain(destroyedActorChain, a)
      /\ chain[a] # "asyncActorChain" => chain[a] = "tmp" /\ ~InChain(asyncActorChain, a)
      /\ chain[a] # "tmp" => chain[a] = "asyncActorChain" /\ ~InChain(tmp, a)
  BY <1>1 DEF ChainInv
<1>3. /\ \A b : InChain(destroyedActorChain', b) <=> InChain(destroyedActorChain, b) \/ b = a
      /\ IsInjective(destroyedActorChain')
  <2>1. destroyedActorChain' = Append(destroyedActorChain, a) BY DEF MoveToDestroyed
  <2> QED BY <1>1, <1>2, <2>1, AppendChain DEF ChainInv
<1>4. /\ \A b : InChain(asyncActorChain', b) <=> InChain(asyncActorChain, b) /\ b # a
      /\ IsInjective(asyncActorChain')
  <2>1. asyncActorChain' = IF chain[a] = "asyncActorChain"
                           THEN Without(asyncActorChain, a) ELSE asyncActorChain
    BY DEF MoveToDestroyed
  <2> QED BY <1>1, <1>2, <2>1, WithoutChain DEF ChainInv
<1>5. /\ \A b : InChain(tmp', b) <=> InChain(tmp, b) /\ b # a
      /\ IsInjective(tmp')
  <2>1. tmp' = IF chain[a] = "tmp" THEN Without(tmp, a) ELSE tmp
    BY DEF MoveToDestroyed
  <2> QED BY <1>1, <1>2, <2>1, WithoutChain DEF ChainInv
<1>6. chain' = [chain EXCEPT ![a] = "destroyedActorChain"]
  BY DEF MoveToDestroyed
<1>7. \A b \in Actors : chain'[b] = "tmp" => tmp' = tmp
  BY <1>1, <1>2, <1>6 DEF ChainInv, MoveToDestroyed
<1> QED BY <1>1, <1>2, <1>3, <1>4, <1>5, <1>6, <1>7 DEF ChainInv

LEMMA ChainsUnchanged ==
  ASSUME ChainInv, UNCHANGED <<life, chain, asyncActorChain, destroyedActorChain, tmp, pc, current>>
  PROVE  ChainInv'
BY DEF ChainInv, Alive

LEMMA requestDestroyChains ==
  ASSUME TypeOK, ChainInv, NEW a \in Actors, Alive(a), NEW count,
         requestDestroy(a, count), UNCHANGED <<life, pc, current>>
  PROVE  ChainInv'
<1>1. CASE count = 0 /\ chain[a] # "destroyedActorChain"
  <2>1. MoveToDestroyed(a) BY <1>1 DEF requestDestroy
  <2>2. pc = "delete" => a # current BY <1>1 DEF ChainInv
  <2> QED BY <1>1, <2>1, <2>2, MoveToDestroyedChains
<1>2. CASE ~(count = 0 /\ chain[a] # "destroyedActorChain")
  <2>1. UNCHANGED chains BY <1>2 DEF requestDestroy
  <2> QED BY <2>1, ChainsUnchanged DEF chains
<1> QED BY <1>1, <1>2

LEMMA unreferenceChains ==
  ASSUME TypeOK, ChainInv, NoDangling, NEW r \in Used, unreference(r), UNCHANGED <<life, pc, current>>
  PROVE  ChainInv'
<1> DEFINE a == refs[r].dest
           count == m_ReferenceFromCount[a] - 1
<1>1. a \in Actors /\ Alive(a)
  BY DEF NoDangling, Used, TypeOK, RefRecords
<1>2. CASE requestDestroy(a, count)
  <2> HIDE DEF a, count
  <2> QED BY <1>1, <1>2, requestDestroyChains
<1>3. CASE UNCHANGED chains
  BY <1>3, ChainsUnchanged DEF chains
<1> QED BY <1>2, <1>3 DEF unreference

\* A new actor goes to the end of asyncActorChain.
LEMMA ConstructChains ==
  ASSUME TypeOK, ChainInv, NEW a \in Actors,
         life[a] = "unborn", life' = [life EXCEPT ![a] = "alive"],
         asyncActorChain' = Append(asyncActorChain, a),
         chain' = [chain EXCEPT ![a] = "asyncActorChain"],
         pc \in {"run", "onDestroyRequest"}, PlaceInv,
         UNCHANGED <<destroyedActorChain, tmp, pc, current>>
  PROVE  ChainInv'
<1> USE DEF Alive
<1>1. /\ asyncActorChain \in Seq(Actors) /\ life \in [Actors -> {"unborn", "alive", "dead"}]
      /\ chain \in [Actors -> Chains \cup {"none"}]
  BY DEF TypeOK, Chains
<1>2. ~InChain(asyncActorChain, a) /\ ~InChain(destroyedActorChain, a) /\ ~InChain(tmp, a)
  BY DEF ChainInv
<1>3. /\ \A b : InChain(asyncActorChain', b) <=> InChain(asyncActorChain, b) \/ b = a
      /\ IsInjective(asyncActorChain')
  BY <1>1, <1>2, AppendChain DEF ChainInv
<1>4. pc = "onDestroyRequest" => current # a
  BY DEF PlaceInv
<1> QED BY <1>1, <1>2, <1>3, <1>4 DEF ChainInv

\* An actor whose constructor throws is taken out of asyncActorChain, where it still is.
LEMMA ConstructorThrowsChains ==
  ASSUME TypeOK, PlaceInv, ChainInv, CtorInv, NoThrow, ConstructorThrows
  PROVE  ChainInv'
<1> USE DEF Alive
<1> DEFINE a == Head(ctors).actor
<1>1. /\ asyncActorChain \in Seq(Actors) /\ life \in [Actors -> {"unborn", "alive", "dead"}]
      /\ chain \in [Actors -> Chains \cup {"none"}] /\ ctors \in Seq(CtorRecords)
  BY DEF TypeOK, Chains
<1>2. ctors # << >> /\ chain[a] = "asyncActorChain"
  BY DEF ConstructorThrows, NoThrow
<1>3. Head(ctors) \in CtorRecords /\ CtorOK(Head(ctors))
  BY <1>1, <1>2, HeadChain DEF CtorInv, InChain
<1>4. a \in Actors /\ Alive(a) /\ (pc = "onDestroyRequest" => a # current)
  BY <1>3 DEF CtorOK, CtorRecords
<1>5. /\ asyncActorChain' = Without(asyncActorChain, a)
      /\ life' = [life EXCEPT ![a] = "dead"]
      /\ UNCHANGED <<chain, destroyedActorChain, tmp, pc, current>>
  BY <1>2 DEF ConstructorThrows, Destructor
<1>6. pc # "delete" BY <1>2 DEF PlaceInv, UserCode
<1> HIDE DEF a
<1>7. /\ \A b : InChain(asyncActorChain', b) <=> InChain(asyncActorChain, b) /\ b # a
      /\ IsInjective(asyncActorChain')
  BY <1>1, <1>5, WithoutChain DEF ChainInv
<1>8. ~InChain(destroyedActorChain, a) /\ ~InChain(tmp, a)
  BY <1>2, <1>4 DEF ChainInv
<1> QED BY <1>1, <1>2, <1>4, <1>5, <1>6, <1>7, <1>8 DEF ChainInv

LEMMA BeginDestroyChains ==
  ASSUME TypeOK, PlaceInv, ChainInv, BeginDestroy
  PROVE  ChainInv'
BY EmptyChain DEF BeginDestroy, ChainInv, PlaceInv, Alive

LEMMA DestroyReferencedChains ==
  ASSUME TypeOK, ChainInv, DestroyReferenced
  PROVE  ChainInv'
<1> USE DEF Alive
<1> DEFINE a == Head(tmp)
<1>1. /\ asyncActorChain \in Seq(Actors) /\ tmp \in Seq(Actors)
      /\ chain \in [Actors -> Chains \cup {"none"}]
  BY DEF TypeOK, Chains
<1>2. /\ tmp # << >> /\ pc = "destroy"
      /\ chain' = [chain EXCEPT ![a] = "asyncActorChain"]
      /\ asyncActorChain' = Append(asyncActorChain, a)
      /\ tmp' = Tail(tmp)
      /\ UNCHANGED <<life, destroyedActorChain, pc, current>>
  BY DEF DestroyReferenced, loop
<1>3. /\ a \in Actors /\ InChain(tmp, a)
      /\ \A b : InChain(tmp', b) <=> InChain(tmp, b) /\ b # a
      /\ IsInjective(tmp')
  BY <1>1, <1>2, HeadChain DEF ChainInv
<1> HIDE DEF a
<1>4. ~InChain(asyncActorChain, a) /\ ~InChain(destroyedActorChain, a) /\ life[a] = "alive"
  BY <1>2, <1>3 DEF ChainInv
<1>5. /\ \A b : InChain(asyncActorChain', b) <=> InChain(asyncActorChain, b) \/ b = a
      /\ IsInjective(asyncActorChain')
  BY <1>1, <1>2, <1>3, <1>4, AppendChain DEF ChainInv
<1> QED BY <1>1, <1>2, <1>3, <1>4, <1>5 DEF ChainInv

LEMMA CallOnDestroyRequestChains ==
  ASSUME TypeOK, ChainInv, CallOnDestroyRequest
  PROVE  ChainInv'
<1> USE DEF Alive
<1> DEFINE a == Head(tmp)
<1>1. tmp \in Seq(Actors) /\ chain \in [Actors -> Chains \cup {"none"}]
  BY DEF TypeOK, Chains
<1>2. /\ tmp # << >> /\ pc = "destroy" /\ pc' = "onDestroyRequest" /\ current' = a
      /\ chain' = [chain EXCEPT ![a] = "tmp"]
      /\ UNCHANGED <<life, asyncActorChain, destroyedActorChain, tmp>>
  BY DEF CallOnDestroyRequest
<1>3. a \in Actors /\ InChain(tmp, a)
  BY <1>1, <1>2, HeadChain
<1>4. ~InChain(asyncActorChain, a) /\ ~InChain(destroyedActorChain, a) /\ life[a] = "alive"
  BY <1>2, <1>3 DEF ChainInv
<1> QED BY <1>1, <1>2, <1>3, <1>4 DEF ChainInv

LEMMA DeleteActorChains ==
  ASSUME TypeOK, PlaceInv, ChainInv, DeleteActor
  PROVE  ChainInv'
<1> USE DEF Alive
<1>1. /\ destroyedActorChain \in Seq(Actors) /\ tmp \in Seq(Actors)
      /\ chain \in [Actors -> Chains \cup {"none"}]
  BY DEF TypeOK, Chains
<1>2. /\ pc = "onDestroyRequest" /\ pc' = "delete"
      /\ tmp' = Without(tmp, current)
      /\ destroyedActorChain' = Without(destroyedActorChain, current)
      /\ chain' = [chain EXCEPT ![current] = "destroyedActorChain"]
      /\ UNCHANGED <<life, asyncActorChain, current>>
  BY DEF DeleteActor
<1>3. /\ \A b : InChain(tmp', b) <=> InChain(tmp, b) /\ b # current
      /\ IsInjective(tmp')
      /\ \A b : InChain(destroyedActorChain', b) <=> InChain(destroyedActorChain, b) /\ b # current
      /\ IsInjective(destroyedActorChain')
  BY <1>1, <1>2, WithoutChain DEF ChainInv
<1>4. current \in Actors /\ life[current] = "alive" /\ ~InChain(asyncActorChain, current)
  BY <1>2 DEF ChainInv, PlaceInv
<1> QED BY <1>1, <1>2, <1>3, <1>4 DEF ChainInv

LEMMA KeepActorChains ==
  ASSUME TypeOK, PlaceInv, ChainInv, KeepActor
  PROVE  ChainInv'
<1> USE DEF Alive
<1>1. /\ asyncActorChain \in Seq(Actors) /\ tmp \in Seq(Actors)
      /\ chain \in [Actors -> Chains \cup {"none"}]
  BY DEF TypeOK, Chains
<1>2. /\ pc = "onDestroyRequest" /\ pc' = "destroy" /\ current' = NoActor
      /\ UNCHANGED <<life, destroyedActorChain>>
  BY DEF KeepActor
<1>3. current \in Actors /\ life[current] = "alive" /\ ~InChain(asyncActorChain, current)
  BY <1>2 DEF ChainInv, PlaceInv
<1>4. CASE chain[current] = "tmp"
  <2>1. /\ chain' = [chain EXCEPT ![current] = "asyncActorChain"]
        /\ asyncActorChain' = Append(asyncActorChain, current)
        /\ tmp' = Tail(tmp)
    BY <1>4 DEF KeepActor
  <2>2. tmp # << >> /\ current = Head(tmp) BY <1>3, <1>4 DEF ChainInv
  <2>3. /\ \A b : InChain(tmp', b) <=> InChain(tmp, b) /\ b # current
        /\ IsInjective(tmp') /\ InChain(tmp, current)
    BY <1>1, <2>1, <2>2, HeadChain DEF ChainInv
  <2>4. /\ \A b : InChain(asyncActorChain', b) <=> InChain(asyncActorChain, b) \/ b = current
        /\ IsInjective(asyncActorChain')
    BY <1>1, <1>3, <2>1, AppendChain DEF ChainInv
  <2>5. ~InChain(destroyedActorChain, current) BY <1>3, <2>3 DEF ChainInv
  <2> QED BY <1>1, <1>2, <1>3, <2>1, <2>3, <2>4, <2>5, LifecycleAssumption DEF ChainInv
<1>5. CASE chain[current] # "tmp"
  <2>1. UNCHANGED <<chain, asyncActorChain, tmp>> BY <1>5 DEF KeepActor
  <2> QED BY <1>2, <1>5, <2>1 DEF ChainInv
<1> QED BY <1>4, <1>5

LEMMA DeleteDoneChains ==
  ASSUME TypeOK, PlaceInv, ChainInv, DeleteDone
  PROVE  ChainInv'
<1> USE DEF Alive
<1>1. /\ life \in [Actors -> {"unborn", "alive", "dead"}]
      /\ chain \in [Actors -> Chains \cup {"none"}]
  BY DEF TypeOK, Chains
<1>2. /\ pc = "delete" /\ pc' = "destroy" /\ current' = NoActor
      /\ life' = [life EXCEPT ![current] = "dead"]
      /\ UNCHANGED <<chain, asyncActorChain, destroyedActorChain, tmp>>
  BY DEF DeleteDone, Destructor, chains
<1>3. /\ current \in Actors /\ ~InChain(asyncActorChain, current)
      /\ ~InChain(destroyedActorChain, current) /\ ~InChain(tmp, current)
  BY <1>2 DEF ChainInv, PlaceInv
<1> QED BY <1>1, <1>2, <1>3, LifecycleAssumption DEF ChainInv

LEMMA DestroyDoneChains ==
  ASSUME ChainInv, DestroyDone
  PROVE  ChainInv'
BY DEF DestroyDone, ChainInv, chains, Alive

\* destroyAsyncActors() takes those without references to the chain of those to be destroyed.
LEMMA isRunningChains ==
  ASSUME TypeOK, PlaceInv, ChainInv, isRunning
  PROVE  ChainInv'
<1> USE DEF Alive
<1>1. /\ pc = "isRunning" /\ pc' \in {"ended", "run"} /\ tmp = << >>
      /\ UNCHANGED <<life, current>>
  BY DEF isRunning, PlaceInv
<1>2. CASE UNCHANGED chains
  BY <1>1, <1>2 DEF ChainInv, chains
<1>3. CASE destroyAsyncActors
  <2> DEFINE U == {a \in Actors : m_ReferenceFromCount[a] = 0}
  <2>1. /\ asyncActorChain \in Seq(Actors) /\ destroyedActorChain \in Seq(Actors)
        /\ chain \in [Actors -> Chains \cup {"none"}]
    BY DEF TypeOK, Chains
  <2>2. /\ chain' = [a \in Actors |-> IF InChain(asyncActorChain, a) /\ a \in U
                                      THEN "destroyedActorChain" ELSE chain[a]]
        /\ destroyedActorChain' = destroyedActorChain \o Kept(asyncActorChain, U)
        /\ asyncActorChain' = Kept(asyncActorChain, Actors \ U)
        /\ tmp' = tmp
    BY <1>3 DEF destroyAsyncActors
  <2> HIDE DEF U
  <2>3. /\ Kept(asyncActorChain, U) \in Seq(Actors)
        /\ \A b : InChain(Kept(asyncActorChain, U), b) <=> InChain(asyncActorChain, b) /\ b \in U
        /\ IsInjective(Kept(asyncActorChain, U))
    BY <2>1, KeptChain DEF ChainInv
  <2>4. /\ \A b : InChain(asyncActorChain', b) <=> InChain(asyncActorChain, b) /\ b \in Actors \ U
        /\ IsInjective(asyncActorChain')
    BY <2>1, <2>2, KeptChain DEF ChainInv
  <2>5. \A b : ~(InChain(destroyedActorChain, b) /\ InChain(Kept(asyncActorChain, U), b))
    <3> SUFFICES ASSUME NEW b, InChain(destroyedActorChain, b), InChain(asyncActorChain, b) PROVE FALSE
      BY <2>3
    <3>1. b \in Actors BY <2>1, ChainItems
    <3> QED BY <3>1 DEF ChainInv
  <2>6. /\ \A b : InChain(destroyedActorChain', b)
               <=> InChain(destroyedActorChain, b) \/ (InChain(asyncActorChain, b) /\ b \in U)
        /\ IsInjective(destroyedActorChain')
    BY <2>1, <2>2, <2>3, <2>5, ConcatChain DEF ChainInv
  <2>7. \A b : ~InChain(tmp, b) BY <1>1, EmptyChain
  <2> QED BY <1>1, <2>1, <2>2, <2>4, <2>6, <2>7 DEF ChainInv
<1> QED BY <1>2, <1>3 DEF isRunning

\* Whatever the step, the chains and the chain pointers agree.
LEMMA ChainStep ==
  ASSUME TypeOK, PlaceInv, ChainInv, CtorInv, NoDangling, NoThrow, [Next]_vars
  PROVE  ChainInv'
<1>1. ASSUME NEW a \in Actors, RequestDestroy(a) PROVE ChainInv'
  BY <1>1, requestDestroyChains DEF RequestDestroy, loop
<1>2. ASSUME NEW a \in Actors, NEW by, NEW holder, NEW r, NEW b, Construct(a, by, holder, r, b)
      PROVE  ChainInv'
  BY <1>2, ConstructChains DEF Construct, MayReference, UserCode, loop
<1>3. ASSUME NEW a \in Actors, NewUnreferencedActor(a) PROVE ChainInv'
  BY <1>2, <1>3 DEF NewUnreferencedActor
<1>4. ASSUME NEW o \in Actors, NEW a \in Actors, NEW r \in Refs,
             NewReferencedActor(o, a, r) \/ NewReferencedSingletonActor(o, a, r)
      PROVE  ChainInv'
  BY <1>2, <1>4 DEF NewReferencedActor, NewReferencedSingletonActor
<1>5. ASSUME NEW o \in Actors, NEW a \in Actors, NEW r \in Refs, ReferenceLocalActor(o, a, r)
      PROVE  ChainInv'
  BY <1>5, ChainsUnchanged DEF ReferenceLocalActor, chains, loop
<1>6. ASSUME NEW o \in Actors, NEW r \in Refs, ReferenceSingletonActor(o, r) PROVE ChainInv'
  BY <1>6, ChainsUnchanged DEF ReferenceSingletonActor, chains, loop
<1>7. ASSUME NEW s \in Refs, NEW r \in Refs, CopyReference(s, r) PROVE ChainInv'
  BY <1>7, ChainsUnchanged DEF CopyReference, chains, loop
<1>8. ASSUME NEW r \in Refs, Unreference(r) PROVE ChainInv'
  BY <1>8, unreferenceChains DEF Unreference, loop
<1>9. CASE Constructed
  <2>1. Head(ctors).actor \in Actors /\ Alive(Head(ctors).actor)
    <3>1. ctors # << >> /\ ctors \in Seq(CtorRecords) BY <1>9 DEF Constructed, TypeOK
    <3>2. Head(ctors) \in CtorRecords /\ CtorOK(Head(ctors))
      BY <3>1, HeadChain DEF CtorInv, InChain
    <3> QED BY <3>2 DEF CtorRecords, CtorOK
  <2>2. UNCHANGED <<life, pc, current>> BY <1>9 DEF Constructed, loop
  <2>3. \/ UNCHANGED chains
        \/ requestDestroy(Head(ctors).actor, m_ReferenceFromCount[Head(ctors).actor])
    BY <1>9 DEF Constructed
  <2> QED BY <2>1, <2>2, <2>3, requestDestroyChains, ChainsUnchanged DEF chains
<1>10. CASE acceptDestroy
  BY <1>10, ChainsUnchanged DEF acceptDestroy, chains, loop
<1>11. CASE Shutdown
  BY <1>11, ChainsUnchanged DEF Shutdown, chains
<1>12. CASE UNCHANGED vars
  BY <1>12, ChainsUnchanged DEF vars, chains, loop
<1> QED
  BY <1>1, <1>3, <1>4, <1>5, <1>6, <1>7, <1>8, <1>9, <1>10, <1>11, <1>12,
     ConstructorThrowsChains, BeginDestroyChains, DestroyReferencedChains,
     CallOnDestroyRequestChains, DeleteActorChains, KeepActorChains, DeleteDoneChains,
     DestroyDoneChains, isRunningChains
  DEF Next, LoopStep, UserStep

-----------------------------------------------------------------------------
(* References and their counts                                             *)

\* The references to an actor
Referrers(a) == {r \in Used : refs[r].dest = a}

\* The counts of NoDangling
CountsRight == \A a \in Actors : m_ReferenceFromCount[a] = Cardinality(Referrers(a))

LEMMA ReferrersFinite ==
  \A a : /\ IsFiniteSet(Referrers(a)) /\ Cardinality(Referrers(a)) \in Nat
         /\ Cardinality(Referrers(a)) = 0 <=> Referrers(a) = {}
<1> SUFFICES ASSUME NEW a
             PROVE  /\ IsFiniteSet(Referrers(a)) /\ Cardinality(Referrers(a)) \in Nat
                    /\ Cardinality(Referrers(a)) = 0 <=> Referrers(a) = {}
  OBVIOUS
<1>1. Referrers(a) \subseteq Refs BY DEF Referrers, Used
<1>2. IsFiniteSet(Referrers(a)) BY <1>1, FS_Subset, LifecycleAssumption
<1> QED BY <1>2, FS_CardinalityType, FS_EmptySet

LEMMA UsedRecord ==
  ASSUME TypeOK, NEW r \in Used
  PROVE  /\ refs[r] \in RefRecords /\ refs[r] # NoRef /\ r \in Refs
         /\ refs[r].holder \in Actors \cup {NoActor} /\ refs[r].org \in Actors \cup {NoActor}
         /\ refs[r].dest \in Actors /\ refs[r].should \in BOOLEAN
BY DEF TypeOK, Used, RefRecords

\* A destination has a count that can go down.
LEMMA CountPositive ==
  ASSUME TypeOK, CountsRight, NEW r \in Used
  PROVE  m_ReferenceFromCount[refs[r].dest] \in Nat \ {0}
<1>1. r \in Referrers(refs[r].dest) BY DEF Referrers
<1>2. refs[r].dest \in Actors BY UsedRecord
<1> QED BY <1>1, <1>2, ReferrersFinite DEF CountsRight

\* A new reference counts for its destination, and for nobody else.
LEMMA ReferenceCounts ==
  ASSUME TypeOK, CountsRight, NEW r \in Refs, refs[r] = NoRef,
         NEW h \in Actors \cup {NoActor}, NEW o \in Actors \cup {NoActor},
         NEW d \in Actors, NEW should \in BOOLEAN, Reference(r, h, o, d, should)
  PROVE  /\ Used' = Used \cup {r} /\ r \notin Used
         /\ refs'[r] = [holder |-> h, org |-> o, dest |-> d, should |-> should]
         /\ \A s \in Used : refs'[s] = refs[s]
         /\ CountsRight'
<1> DEFINE rec == [holder |-> h, org |-> o, dest |-> d, should |-> should]
<1>1. rec \in RefRecords BY DEF RefRecords
<1>2. rec # NoRef BY <1>1, LifecycleAssumption
<1>3. refs' = [refs EXCEPT ![r] = rec] /\ m_ReferenceFromCount' = [m_ReferenceFromCount EXCEPT ![d] = @ + 1]
  BY DEF Reference
<1>4. rec.dest = d OBVIOUS
<1> HIDE DEF rec
<1>5. refs'[r] = rec /\ \A s \in Refs : s # r => refs'[s] = refs[s]
  BY <1>3 DEF TypeOK
<1>6. Used' = Used \cup {r} /\ r \notin Used /\ \A s \in Used : refs'[s] = refs[s]
  BY <1>2, <1>5 DEF Used
<1>7. Referrers(d)' = Referrers(d) \cup {r} /\ r \notin Referrers(d)
  BY <1>4, <1>5, <1>6 DEF Referrers
<1>8. \A a : a # d => Referrers(a)' = Referrers(a)
  BY <1>4, <1>5, <1>6 DEF Referrers
<1>9. Cardinality(Referrers(d)') = Cardinality(Referrers(d)) + 1
  BY <1>7, ReferrersFinite, FS_AddElement
<1>10. CountsRight'
  BY <1>3, <1>8, <1>9 DEF CountsRight, TypeOK
<1> QED BY <1>5, <1>6, <1>10 DEF rec

\* A released one counts no more.
LEMMA ReleaseCounts ==
  ASSUME TypeOK, CountsRight, NEW r \in Used, refs' = [refs EXCEPT ![r] = NoRef],
         m_ReferenceFromCount' = [m_ReferenceFromCount EXCEPT ![refs[r].dest] = @ - 1]
  PROVE  /\ Used' = Used \ {r}
         /\ \A s \in Used' : refs'[s] = refs[s]
         /\ CountsRight'
<1>1. r \in Refs BY UsedRecord
<1> PICK d \in Actors : d = refs[r].dest BY UsedRecord
<1>2. refs'[r] = NoRef /\ \A s \in Refs : s # r => refs'[s] = refs[s]
  BY <1>1 DEF TypeOK
<1>3. Used' = Used \ {r} /\ \A s \in Used' : refs'[s] = refs[s]
  BY <1>2 DEF Used
<1>4. Referrers(d)' = Referrers(d) \ {r} /\ r \in Referrers(d)
  <2>1. \A s : s \in Referrers(d)' <=> s \in Used' /\ refs'[s].dest = d
    BY DEF Referrers
  <2> QED BY <1>3, <2>1 DEF Referrers
<1>5. \A a : a # d => Referrers(a)' = Referrers(a)
  BY <1>3 DEF Referrers
<1>6. Cardinality(Referrers(d)') = Cardinality(Referrers(d)) - 1
  BY <1>4, ReferrersFinite, FS_RemoveElement
<1>7. m_ReferenceFromCount' = [m_ReferenceFromCount EXCEPT ![d] = @ - 1]
  OBVIOUS
<1>8. CountsRight'
  <2> SUFFICES ASSUME NEW a \in Actors
               PROVE  m_ReferenceFromCount'[a] = Cardinality(Referrers(a)')
    BY DEF CountsRight
  <2> QED BY <1>1, <1>5, <1>6, <1>7 DEF CountsRight, TypeOK
<1> QED BY <1>3, <1>8

\* A destructor takes the origin from references, and leaves their destinations.
LEMMA DestructorReferences ==
  ASSUME TypeOK, NEW a \in Actors, Destructor(a)
  PROVE  /\ Used' = Used
         /\ \A r \in Used : /\ refs'[r].dest = refs[r].dest /\ refs'[r].holder = refs[r].holder
                            /\ refs'[r].org = IF refs[r].org = a THEN NoActor ELSE refs[r].org
                            /\ refs'[r].should = refs[r].should
         /\ CountsRight => CountsRight'
<1>1. refs' = [r \in Refs |-> IF r \in Used /\ refs[r].org = a
                             THEN [refs[r] EXCEPT !.org = NoActor] ELSE refs[r]]
  BY DEF Destructor
<1>2. ASSUME NEW r \in Used
      PROVE  /\ refs'[r] # NoRef
             /\ refs'[r].dest = refs[r].dest /\ refs'[r].holder = refs[r].holder
             /\ refs'[r].org = IF refs[r].org = a THEN NoActor ELSE refs[r].org
             /\ refs'[r].should = refs[r].should
  <2>1. refs[r] \in RefRecords /\ r \in Refs BY UsedRecord
  <2>2. CASE refs[r].org = a
    <3>1. refs'[r] = [refs[r] EXCEPT !.org = NoActor] BY <1>1, <2>1, <2>2
    <3>2. refs'[r] \in RefRecords BY <2>1, <3>1 DEF RefRecords
    <3> QED BY <2>1, <2>2, <3>1, <3>2, LifecycleAssumption DEF RefRecords
  <2>3. CASE refs[r].org # a
    <3>1. refs'[r] = refs[r] BY <1>1, <2>1, <2>3
    <3> QED BY <2>3, <3>1 DEF Used
  <2> QED BY <2>2, <2>3
<1>3. \A r \in Refs : r \notin Used => refs'[r] = refs[r]
  BY <1>1
<1>4. Used' = Used
  BY <1>2, <1>3 DEF Used
<1>5. \A b : Referrers(b)' = Referrers(b)
  BY <1>2, <1>4 DEF Referrers
<1>6. CountsRight => CountsRight'
  BY <1>5 DEF CountsRight, Destructor
<1> QED BY <1>2, <1>4, <1>6

-----------------------------------------------------------------------------
(* Types                                                                   *)

LEMMA requestDestroyType ==
  ASSUME TypeOK, NEW a \in Actors, NEW count, requestDestroy(a, count)
  PROVE  /\ asyncActorChain' \in Seq(Actors) /\ destroyedActorChain' \in Seq(Actors)
         /\ tmp' \in Seq(Actors)
         /\ chain' \in [Actors -> {"none", "asyncActorChain", "destroyedActorChain", "tmp"}]
         /\ onUnreferencedDestroyFlag' \in [Actors -> BOOLEAN]
<1>1. \A s \in Seq(Actors) : Without(s, a) \in Seq(Actors)
  BY WithoutType
<1>2. Append(destroyedActorChain, a) \in Seq(Actors)
  BY AppendProperties DEF TypeOK
<1>3. onUnreferencedDestroyFlag' \in [Actors -> BOOLEAN]
  BY DEF requestDestroy, TypeOK
<1>4. CASE MoveToDestroyed(a)
  BY <1>1, <1>2, <1>3, <1>4 DEF MoveToDestroyed, TypeOK
<1>5. CASE UNCHANGED chains
  BY <1>3, <1>5 DEF chains, TypeOK
<1> QED BY <1>4, <1>5 DEF requestDestroy

LEMMA ReferenceType ==
  ASSUME TypeOK, NEW r \in Refs, NEW h \in Actors \cup {NoActor}, NEW o \in Actors \cup {NoActor},
         NEW d \in Actors, NEW should \in BOOLEAN, Reference(r, h, o, d, should)
  PROVE  /\ refs' \in [Refs -> RefRecords \cup {NoRef}]
         /\ m_ReferenceFromCount' \in [Actors -> Nat]
BY DEF TypeOK, Reference, RefRecords

LEMMA retainEventTableType ==
  ASSUME TypeOK, IdInv, NEW a \in Actors, retainEventTable(a)
  PROVE  /\ actorId' \in [Actors -> [table : Nat, id : Nat]]
         /\ eventTable' \in Seq(Nat) /\ freeEventTable' \in Seq(Nat)
<1> DEFINE id == 1 + Cardinality(Born)
           t == IF freeEventTable = << >> THEN Len(eventTable) + 1 ELSE Head(freeEventTable)
<1>1. id \in Nat
  BY FS_CardinalityType DEF IdInv
<1>2. eventTable \in Seq(Nat) /\ freeEventTable \in Seq(Nat) /\ Len(eventTable) \in Nat
  BY LenProperties DEF TypeOK
<1>3. freeEventTable # << >> => Head(freeEventTable) \in Nat /\ Tail(freeEventTable) \in Seq(Nat)
  BY <1>2, HeadChain
<1>4. t \in Nat
  BY <1>2, <1>3
<1>5. /\ actorId' = [actorId EXCEPT ![a] = [table |-> t, id |-> id]]
      /\ IF freeEventTable = << >>
         THEN eventTable' = Append(eventTable, id) /\ UNCHANGED freeEventTable
         ELSE eventTable' = [eventTable EXCEPT ![t] = id] /\ freeEventTable' = Tail(freeEventTable)
  BY DEF retainEventTable, Born
<1>6. Append(eventTable, id) \in Seq(Nat)
  BY <1>1, <1>2, AppendProperties
<1>7. [eventTable EXCEPT ![t] = id] \in Seq(Nat)
  BY <1>1, <1>2, ExceptType
<1> HIDE DEF id, t
<1> QED BY <1>1, <1>2, <1>3, <1>4, <1>5, <1>6, <1>7 DEF TypeOK

LEMMA DestructorType ==
  ASSUME TypeOK, NEW a \in Actors, Destructor(a)
  PROVE  /\ life' \in [Actors -> {"unborn", "alive", "dead"}]
         /\ eventTable' \in Seq(Nat) /\ freeEventTable' \in Seq(Nat)
         /\ refs' \in [Refs -> RefRecords \cup {NoRef}]
         /\ stopFlag' \in BOOLEAN
<1> DEFINE t == actorId[a].table
<1>1. t \in Nat /\ eventTable \in Seq(Nat) /\ freeEventTable \in Seq(Nat)
  BY DEF TypeOK
<1>2. [eventTable EXCEPT ![t] = 0] \in Seq(Nat)
  BY <1>1, ExceptType
<1>3. <<t>> \in Seq(Nat)
  BY <1>1
<1>4. <<t>> \o freeEventTable \in Seq(Nat)
  BY <1>1, <1>3, ConcatProperties
<1>5. refs' \in [Refs -> RefRecords \cup {NoRef}]
  BY DEF TypeOK, Destructor, RefRecords, Used
<1> QED BY <1>2, <1>4, <1>5 DEF TypeOK, Destructor

LEMMA ConstructType ==
  ASSUME TypeOK, IdInv, NEW a \in Actors, NEW by \in Actors \cup {NoActor},
         NEW holder \in Actors \cup {NoActor}, NEW r \in Refs \cup {NoRef}, NEW b \in BOOLEAN,
         Construct(a, by, holder, r, b), singleton' \in Actors \cup {NoActor}, reservedFlag' \in BOOLEAN
  PROVE  TypeOK'
<1> DEFINE c == [actor |-> a, by |-> by, holder |-> holder, ref |-> r, single |-> b]
<1>1. /\ actorId' \in [Actors -> [table : Nat, id : Nat]]
      /\ eventTable' \in Seq(Nat) /\ freeEventTable' \in Seq(Nat)
  BY retainEventTableType DEF Construct
<1>2. ctors' \in Seq(CtorRecords)
  <2>1. c \in CtorRecords BY DEF CtorRecords
  <2>2. ctors' = <<c>> \o ctors BY DEF Construct
  <2> HIDE DEF c
  <2> QED BY <2>1, <2>2, PushChain DEF TypeOK
<1>3. asyncActorChain' \in Seq(Actors)
  BY AppendProperties DEF TypeOK, Construct
<1>4. /\ life' = [life EXCEPT ![a] = "alive"]
      /\ chain' = [chain EXCEPT ![a] = "asyncActorChain"]
      /\ UNCHANGED <<destroyedActorChain, tmp, flags, counts, loop>>
  BY DEF Construct
<1> QED BY <1>1, <1>2, <1>3, <1>4 DEF TypeOK, flags, counts, loop

\* The holders of references are actors, or nobody.
LEMMA HoldersType == \A o \in Actors \cup {NoActor} : Holders(o) \subseteq Actors \cup {NoActor}
BY DEF Holders

LEMMA UserType ==
  ASSUME TypeOK, IdInv, CtorInv, NoDangling, UserStep
  PROVE  TypeOK'
<1> USE DEF flags, counts, single, ids, loop, chains
<1>1. ASSUME NEW a \in Actors, RequestDestroy(a) PROVE TypeOK'
  BY <1>1, requestDestroyType DEF RequestDestroy, TypeOK
<1>2. ASSUME NEW a \in Actors, NewUnreferencedActor(a) PROVE TypeOK'
  <2>1. Construct(a, NoActor, NoActor, NoRef, FALSE) /\ UNCHANGED single
    BY <1>2 DEF NewUnreferencedActor
  <2> QED BY <2>1, ConstructType DEF TypeOK
<1>3. ASSUME NEW o \in Actors, NEW a \in Actors, NEW r \in Refs, NewReferencedActor(o, a, r)
      PROVE  TypeOK'
  <2>1. PICK h \in Holders(o) : Construct(a, o, h, r, FALSE)
    BY <1>3 DEF NewReferencedActor
  <2>2. UNCHANGED single BY <1>3 DEF NewReferencedActor
  <2> QED BY <2>1, <2>2, ConstructType, HoldersType DEF TypeOK
<1>4. ASSUME NEW o \in Actors, NEW a \in Actors, NEW r \in Refs, NewReferencedSingletonActor(o, a, r)
      PROVE  TypeOK'
  <2>1. PICK h \in Holders(o) : Construct(a, o, h, r, TRUE)
    BY <1>4 DEF NewReferencedSingletonActor
  <2>2. reservedFlag' = TRUE /\ UNCHANGED singleton BY <1>4 DEF NewReferencedSingletonActor
  <2> QED BY <2>1, <2>2, ConstructType, HoldersType DEF TypeOK
<1>5. ASSUME NEW o \in Actors, NEW a \in Actors, NEW r \in Refs, ReferenceLocalActor(o, a, r)
      PROVE  TypeOK'
  <2>1. PICK b \in Actors, h \in Holders(o) : Reference(r, h, o, b, FALSE)
    BY <1>5 DEF ReferenceLocalActor
  <2>2. /\ refs' \in [Refs -> RefRecords \cup {NoRef}] /\ m_ReferenceFromCount' \in [Actors -> Nat]
    BY <2>1, ReferenceType, HoldersType
  <2>3. UNCHANGED <<life, chains, flags, ctors, single, ids, loop>>
    BY <1>5 DEF ReferenceLocalActor
  <2> QED BY <2>2, <2>3 DEF TypeOK
<1>6. ASSUME NEW o \in Actors, NEW r \in Refs, ReferenceSingletonActor(o, r) PROVE TypeOK'
  <2>1. PICK h \in Holders(o) : Reference(r, h, o, singleton, TRUE)
    BY <1>6 DEF ReferenceSingletonActor
  <2>2. singleton \in Actors BY <1>6 DEF ReferenceSingletonActor, TypeOK
  <2>3. /\ refs' \in [Refs -> RefRecords \cup {NoRef}] /\ m_ReferenceFromCount' \in [Actors -> Nat]
    BY <2>1, <2>2, ReferenceType, HoldersType
  <2>4. UNCHANGED <<life, chains, flags, ctors, single, ids, loop>>
    BY <1>6 DEF ReferenceSingletonActor
  <2> QED BY <2>3, <2>4 DEF TypeOK
<1>7. ASSUME NEW s \in Refs, NEW r \in Refs, CopyReference(s, r) PROVE TypeOK'
  <2>1. refs[s] \in RefRecords BY <1>7 DEF CopyReference, TypeOK, Used
  <2>2. refs[s].holder \in Actors \cup {NoActor} /\ refs[s].org \in Actors \cup {NoActor}
        /\ refs[s].dest \in Actors /\ refs[s].should \in BOOLEAN
    BY <2>1 DEF RefRecords
  <2>3. PICK h \in Actors \cup {NoActor} : Reference(r, h, refs[s].org, refs[s].dest, refs[s].should)
    BY <1>7, <2>2, HoldersType DEF CopyReference
  <2>4. /\ refs' \in [Refs -> RefRecords \cup {NoRef}] /\ m_ReferenceFromCount' \in [Actors -> Nat]
    BY <2>2, <2>3, ReferenceType
  <2>5. UNCHANGED <<life, chains, flags, ctors, single, ids, loop>>
    BY <1>7 DEF CopyReference
  <2> QED BY <2>4, <2>5 DEF TypeOK
<1>8. ASSUME NEW r \in Refs, Unreference(r) PROVE TypeOK'
  <2>1. r \in Used /\ refs' = [refs EXCEPT ![r] = NoRef] BY <1>8 DEF Unreference
  <2>2. PICK a \in Actors : a = refs[r].dest BY <2>1, UsedRecord
  <2>3. m_ReferenceFromCount[a] \in Nat \ {0}
    BY <2>1, <2>2, CountPositive DEF NoDangling, CountsRight, Referrers
  <2>4. PICK count : count = m_ReferenceFromCount[a] - 1 OBVIOUS
  <2>5. m_ReferenceFromCount' = [m_ReferenceFromCount EXCEPT ![a] = count]
    BY <1>8, <2>2, <2>4 DEF Unreference, unreference
  <2>6. requestDestroy(a, count) \/ UNCHANGED <<chains, onUnreferencedDestroyFlag>>
    BY <1>8, <2>2, <2>4 DEF Unreference, unreference
  <2>7. UNCHANGED <<life, m_DestroyRequestedFlag, ctors, single, ids, loop>>
    BY <1>8 DEF Unreference
  <2>8. refs' \in [Refs -> RefRecords \cup {NoRef}] /\ m_ReferenceFromCount' \in [Actors -> Nat]
    BY <2>1, <2>3, <2>4, <2>5 DEF TypeOK
  <2> QED BY <2>6, <2>7, <2>8, requestDestroyType DEF TypeOK
<1>9. CASE Constructed
  <2>1. PICK new \in CtorRecords : new = Head(ctors) /\ CtorOK(new)
    BY <1>9, HeadChain DEF Constructed, TypeOK, CtorInv, InChain
  <2>2. /\ new.actor \in Actors /\ new.by \in Actors \cup {NoActor}
        /\ new.holder \in Actors \cup {NoActor} /\ new.single \in BOOLEAN
    BY <2>1 DEF CtorRecords
  <2>3. /\ ctors # << >> /\ ctors' = Tail(ctors) /\ reservedFlag' = (reservedFlag /\ ~new.single)
        /\ UNCHANGED <<life, m_DestroyRequestedFlag, ids, loop>>
    BY <1>9, <2>1 DEF Constructed
  <2>4. ctors' \in Seq(CtorRecords) BY <2>3, HeadChain DEF TypeOK
  <2>5. CASE new.by # NoActor /\ ~recursiveFind(new.by, new.actor)
    <3>1. /\ Reference(new.ref, new.holder, new.by, new.actor, TRUE)
          /\ singleton' = IF new.single THEN new.actor ELSE singleton
          /\ UNCHANGED <<chains, onUnreferencedDestroyFlag>>
      BY <1>9, <2>1, <2>5 DEF Constructed
    <3>2. new.ref \in Refs BY <2>1, <2>5 DEF CtorOK
    <3>3. refs' \in [Refs -> RefRecords \cup {NoRef}] /\ m_ReferenceFromCount' \in [Actors -> Nat]
      BY <2>2, <3>1, <3>2, ReferenceType
    <3> QED BY <2>2, <2>3, <2>4, <3>1, <3>3 DEF TypeOK
  <2>6. CASE ~(new.by # NoActor /\ ~recursiveFind(new.by, new.actor))
    <3>1. /\ \/ UNCHANGED <<chains, onUnreferencedDestroyFlag>>
             \/ requestDestroy(new.actor, m_ReferenceFromCount[new.actor])
          /\ UNCHANGED <<counts, singleton>>
      BY <1>9, <2>1, <2>6 DEF Constructed
    <3> QED BY <2>2, <2>3, <2>4, <3>1, requestDestroyType DEF TypeOK
  <2> QED BY <2>5, <2>6
<1>10. CASE acceptDestroy
  BY <1>10 DEF acceptDestroy, TypeOK
<1>11. CASE ConstructorThrows
  <2>1. PICK new \in CtorRecords : new = Head(ctors)
    BY <1>11, HeadChain DEF ConstructorThrows, TypeOK
  <2>2. new.actor \in Actors /\ new.single \in BOOLEAN
    BY <2>1 DEF CtorRecords
  <2>3. /\ ctors # << >> /\ Destructor(new.actor) /\ ctors' = Tail(ctors)
        /\ reservedFlag' = (reservedFlag /\ ~new.single)
        /\ \/ asyncActorChain' = Without(asyncActorChain, new.actor)
           \/ asyncActorChain' = asyncActorChain
        /\ UNCHANGED <<chain, destroyedActorChain, tmp, flags, singleton, shutdownFlag,
                       isBeingDestroyedFlag, pc, current>>
    BY <1>11, <2>1 DEF ConstructorThrows
  <2>4. ctors' \in Seq(CtorRecords) BY <2>3, HeadChain DEF TypeOK
  <2>5. asyncActorChain' \in Seq(Actors) BY <2>3, WithoutType DEF TypeOK
  <2>6. UNCHANGED <<m_ReferenceFromCount, actorId>> BY <2>3 DEF Destructor
  <2> QED BY <2>2, <2>3, <2>4, <2>5, <2>6, DestructorType DEF TypeOK
<1> QED BY <1>1, <1>2, <1>3, <1>4, <1>5, <1>6, <1>7, <1>8, <1>9, <1>10, <1>11 DEF UserStep

LEMMA LoopType ==
  ASSUME TypeOK, PlaceInv, ChainInv, LoopStep \/ Shutdown
  PROVE  TypeOK'
<1> USE DEF flags, counts, single, ids, loop, chains
<1>1. CASE BeginDestroy BY <1>1, EmptySeq DEF BeginDestroy, TypeOK
<1>2. CASE DestroyReferenced
  <2>1. Head(tmp) \in Actors /\ Tail(tmp) \in Seq(Actors)
    BY <1>2, HeadChain DEF DestroyReferenced, TypeOK
  <2>2. Append(asyncActorChain, Head(tmp)) \in Seq(Actors) BY <2>1, AppendProperties DEF TypeOK
  <2> QED BY <1>2, <2>1, <2>2 DEF DestroyReferenced, TypeOK
<1>3. CASE CallOnDestroyRequest
  <2>1. Head(tmp) \in Actors BY <1>3, HeadChain DEF CallOnDestroyRequest, TypeOK
  <2> QED BY <1>3, <2>1 DEF CallOnDestroyRequest, TypeOK
<1>4. CASE DeleteActor
  <2>1. Without(tmp, current) \in Seq(Actors) /\ Without(destroyedActorChain, current) \in Seq(Actors)
    BY WithoutType DEF TypeOK
  <2> QED BY <1>4, <2>1 DEF DeleteActor, TypeOK
<1>5. CASE KeepActor
  <2>1. current \in Actors BY <1>5 DEF KeepActor, PlaceInv
  <2>2. Append(asyncActorChain, current) \in Seq(Actors) BY <2>1, AppendProperties DEF TypeOK
  <2>3. CASE chain[current] = "tmp"
    <3>1. Tail(tmp) \in Seq(Actors) BY <2>1, <2>3, TailType DEF TypeOK, ChainInv
    <3> QED BY <1>5, <2>2, <2>3, <3>1 DEF KeepActor, TypeOK
  <2>4. CASE chain[current] # "tmp" BY <1>5, <2>4 DEF KeepActor, TypeOK
  <2> QED BY <2>3, <2>4
<1>6. CASE DeleteDone
  <2>1. current \in Actors BY <1>6 DEF DeleteDone, PlaceInv
  <2>2. Destructor(current) BY <1>6 DEF DeleteDone
  <2>3. UNCHANGED <<m_ReferenceFromCount, actorId>> BY <2>2 DEF Destructor
  <2> QED BY <1>6, <2>1, <2>2, <2>3, DestructorType DEF DeleteDone, TypeOK
<1>7. CASE DestroyDone BY <1>7 DEF DestroyDone, TypeOK
<1>8. CASE isRunning
  <2>1. CASE UNCHANGED <<chains, onUnreferencedDestroyFlag>>
    BY <1>8, <2>1 DEF isRunning, TypeOK
  <2>2. CASE destroyAsyncActors
    <3> DEFINE U == {a \in Actors : m_ReferenceFromCount[a] = 0}
    <3>1. Kept(asyncActorChain, U) \in Seq(Actors) /\ Kept(asyncActorChain, Actors \ U) \in Seq(Actors)
      BY KeptChain DEF TypeOK
    <3>2. destroyedActorChain \o Kept(asyncActorChain, U) \in Seq(Actors)
      BY <3>1, ConcatProperties DEF TypeOK
    <3>3. /\ onUnreferencedDestroyFlag' \in [Actors -> BOOLEAN]
          /\ chain' \in [Actors -> {"none", "asyncActorChain", "destroyedActorChain", "tmp"}]
      BY <2>2 DEF destroyAsyncActors, TypeOK, InChain
    <3>4. destroyedActorChain' \in Seq(Actors) /\ asyncActorChain' \in Seq(Actors) /\ tmp' = tmp
      BY <2>2, <3>1, <3>2 DEF destroyAsyncActors
    <3> QED BY <1>8, <3>3, <3>4 DEF isRunning, TypeOK
  <2> QED BY <1>8, <2>1, <2>2 DEF isRunning
<1>9. CASE Shutdown BY <1>9 DEF Shutdown, TypeOK
<1> QED BY <1>1, <1>2, <1>3, <1>4, <1>5, <1>6, <1>7, <1>8, <1>9 DEF LoopStep

-----------------------------------------------------------------------------
(* Where the loop is                                                       *)

LEMMA DanglingCounts == TypeOK /\ NoDangling => CountsRight
BY DEF NoDangling, CountsRight, Referrers

\* The innermost constructor under way, and those around it
LEMMA Innermost ==
  ASSUME TypeOK, CtorInv, ctors # << >>
  PROVE  /\ Head(ctors) \in CtorRecords /\ CtorOK(Head(ctors))
         /\ Head(ctors).actor \in Actors /\ Head(ctors).by \in Actors \cup {NoActor}
         /\ Head(ctors).holder \in Actors \cup {NoActor} /\ Head(ctors).single \in BOOLEAN
         /\ \A i \in DOMAIN Tail(ctors) :
              LET c == Tail(ctors)[i] IN
              /\ c \in CtorRecords /\ CtorOK(c)
              /\ Head(ctors).actor # c.actor /\ Head(ctors).actor # c.by
              /\ Head(ctors).by # NoActor /\ c.by # NoActor => Head(ctors).ref # c.ref
<1>1. ctors \in Seq(CtorRecords) BY DEF TypeOK
<1>2. Len(ctors) \in Nat \ {0} /\ DOMAIN ctors = 1 .. Len(ctors) /\ ctors[1] = Head(ctors)
  BY <1>1, EmptySeq, LenProperties, HeadTailProperties
<1>3. \A i \in DOMAIN ctors : ctors[i] \in CtorRecords /\ CtorOK(ctors[i])
  BY <1>1, ElementOfSeq DEF CtorInv
<1>4. \A i \in DOMAIN Tail(ctors) : i + 1 \in DOMAIN ctors /\ 1 < i + 1 /\ Tail(ctors)[i] = ctors[i + 1]
  BY <1>1, <1>2, HeadTailProperties, LenProperties
<1>5. Head(ctors) \in CtorRecords /\ CtorOK(Head(ctors))
  BY <1>2, <1>3
<1>6. ASSUME NEW i \in DOMAIN Tail(ctors)
      PROVE  LET c == Tail(ctors)[i] IN
             /\ c \in CtorRecords /\ CtorOK(c)
             /\ Head(ctors).actor # c.actor /\ Head(ctors).actor # c.by
             /\ Head(ctors).by # NoActor /\ c.by # NoActor => Head(ctors).ref # c.ref
  BY <1>2, <1>3, <1>4 DEF CtorInv
<1> QED BY <1>5, <1>6 DEF CtorRecords

\* What a request or the release of a reference may do to the local chain
LEMMA TmpKept ==
  ASSUME ChainInv, NEW a \in Actors, NEW count, pc # "onDestroyRequest",
         requestDestroy(a, count) \/ UNCHANGED chains
  PROVE  tmp' = tmp
BY DEF ChainInv, requestDestroy, MoveToDestroyed, chains

LEMMA PlaceUser ==
  ASSUME LifecycleInv, NoThrow, UserStep
  PROVE  PlaceInv'
<1> USE DEF flags, counts, single, ids, loop, UserCode, Alive
<1>0. TypeOK /\ PlaceInv /\ ChainInv /\ CtorInv /\ NoDangling /\ CountsRight
  BY DanglingCounts DEF LifecycleInv
<1>1. ASSUME NEW a \in Actors, RequestDestroy(a) PROVE PlaceInv'
  <2>1. pc # "onDestroyRequest" => tmp' = tmp
    BY <1>0, <1>1, TmpKept DEF RequestDestroy
  <2> QED BY <1>0, <1>1, <2>1 DEF RequestDestroy, PlaceInv
<1>2. ASSUME NEW a \in Actors, NEW by, NEW holder, NEW r, NEW b, Construct(a, by, holder, r, b)
      PROVE  PlaceInv'
  <2>1. /\ pc \in {"run", "onDestroyRequest"} /\ life' = [life EXCEPT ![a] = "alive"]
        /\ UNCHANGED <<tmp, pc, current>>
    BY <1>2 DEF Construct, MayReference
  <2> QED BY <1>0, <2>1 DEF PlaceInv, TypeOK
<1>3. ASSUME NEW a \in Actors, NewUnreferencedActor(a) PROVE PlaceInv'
  BY <1>2, <1>3 DEF NewUnreferencedActor
<1>4. ASSUME NEW o \in Actors, NEW a \in Actors, NEW r \in Refs,
             NewReferencedActor(o, a, r) \/ NewReferencedSingletonActor(o, a, r)
      PROVE  PlaceInv'
  BY <1>2, <1>4 DEF NewReferencedActor, NewReferencedSingletonActor
<1>5. ASSUME MayReference, UNCHANGED <<life, chains, flags, ctors, single, ids, loop>> PROVE PlaceInv'
  BY <1>0, <1>5 DEF PlaceInv, MayReference, chains
<1>6. ASSUME NEW o \in Actors, NEW a \in Actors, NEW r \in Refs, ReferenceLocalActor(o, a, r)
      PROVE  PlaceInv'
  BY ONLY <1>5, <1>6 DEF ReferenceLocalActor
<1>7. ASSUME NEW o \in Actors, NEW r \in Refs, ReferenceSingletonActor(o, r) PROVE PlaceInv'
  BY ONLY <1>5, <1>7 DEF ReferenceSingletonActor
<1>8. ASSUME NEW s \in Refs, NEW r \in Refs, CopyReference(s, r) PROVE PlaceInv'
  BY ONLY <1>5, <1>8 DEF CopyReference
<1>9. ASSUME NEW r \in Refs, Unreference(r) PROVE PlaceInv'
  <2>1. r \in Used BY <1>9 DEF Unreference
  <2>2. PICK a \in Actors : a = refs[r].dest BY <1>0, <2>1, UsedRecord
  <2>3. m_ReferenceFromCount[a] # 0 BY <1>0, <2>1, <2>2, CountPositive
  <2>4. /\ m_ReferenceFromCount' = [m_ReferenceFromCount EXCEPT ![a] = m_ReferenceFromCount[a] - 1]
        /\ requestDestroy(a, m_ReferenceFromCount[a] - 1) \/ UNCHANGED chains
    BY <1>9, <2>2 DEF Unreference, unreference
  <2>5. pc # "onDestroyRequest" => tmp' = tmp
    BY <1>0, <2>4, TmpKept
  <2>6. UNCHANGED <<life, m_DestroyRequestedFlag, ctors, single, ids, loop>>
    BY <1>9 DEF Unreference
  <2> QED BY <1>0, <2>3, <2>4, <2>5, <2>6 DEF PlaceInv, TypeOK
<1>10. CASE Constructed
  <2>1. ctors # << >> /\ UNCHANGED <<life, m_DestroyRequestedFlag, ids, loop>>
    BY <1>10 DEF Constructed
  <2>2. \/ UNCHANGED chains
        \/ requestDestroy(Head(ctors).actor, m_ReferenceFromCount[Head(ctors).actor])
    BY <1>10 DEF Constructed
  <2>3. Head(ctors).actor \in Actors BY <1>0, <2>1, Innermost
  <2>4. pc # "onDestroyRequest" => tmp' = tmp
    BY <1>0, <2>2, <2>3, TmpKept
  <2> QED BY <1>0, <2>1, <2>4 DEF PlaceInv
<1>11. CASE acceptDestroy
  BY <1>0, <1>11 DEF acceptDestroy, PlaceInv, chains
<1>12. CASE ConstructorThrows
  <2>1. PICK a \in Actors : a = Head(ctors).actor
    BY <1>0, <1>12, Innermost DEF ConstructorThrows
  <2>2. /\ ctors # << >> /\ life' = [life EXCEPT ![a] = "dead"]
        /\ UNCHANGED <<tmp, pc, current>>
    BY <1>12, <2>1 DEF ConstructorThrows, Destructor
  <2>3. pc = "onDestroyRequest" => a # current
    BY <1>0, <2>1, <2>2, Innermost DEF CtorOK
  <2> QED BY <1>0, <2>2, <2>3 DEF PlaceInv, TypeOK
<1> QED BY <1>1, <1>3, <1>4, <1>6, <1>7, <1>8, <1>9, <1>10, <1>11, <1>12 DEF UserStep

LEMMA PlaceLoop ==
  ASSUME LifecycleInv, LoopStep \/ Shutdown
  PROVE  PlaceInv'
<1> USE DEF flags, counts, single, ids, loop, chains, UserCode, Alive
<1>0. TypeOK /\ PlaceInv /\ ChainInv
  BY DEF LifecycleInv
<1>1. CASE BeginDestroy BY <1>0, <1>1 DEF BeginDestroy, PlaceInv
<1>2. CASE DestroyReferenced BY <1>0, <1>2 DEF DestroyReferenced, PlaceInv
<1>3. CASE CallOnDestroyRequest
  <2>1. Head(tmp) \in Actors /\ InChain(tmp, Head(tmp))
    BY <1>0, <1>3, HeadChain DEF CallOnDestroyRequest, TypeOK
  <2>2. life[Head(tmp)] = "alive" BY <1>0, <2>1 DEF ChainInv
  <2> QED BY <1>0, <1>3, <2>1, <2>2 DEF CallOnDestroyRequest, PlaceInv
<1>4. CASE DeleteActor
  <2>1. current \in Actors BY <1>0, <1>4 DEF DeleteActor, PlaceInv
  <2> QED BY <1>0, <1>4, <2>1, LifecycleAssumption DEF DeleteActor, Accepted, PlaceInv
<1>5. CASE KeepActor BY <1>0, <1>5 DEF KeepActor, PlaceInv
<1>6. CASE DeleteDone BY <1>0, <1>6 DEF DeleteDone, PlaceInv
<1>7. CASE DestroyDone BY <1>0, <1>7 DEF DestroyDone, PlaceInv
<1>8. CASE isRunning
  <2>1. tmp' = tmp BY <1>8 DEF isRunning, destroyAsyncActors
  <2> QED BY <1>0, <1>8, <2>1 DEF isRunning, PlaceInv
<1>9. CASE Shutdown BY <1>0, <1>9 DEF Shutdown, PlaceInv
<1> QED BY <1>1, <1>2, <1>3, <1>4, <1>5, <1>6, <1>7, <1>8, <1>9 DEF LoopStep

-----------------------------------------------------------------------------
(* The constructors under way                                              *)

\* A step that no constructor begins or ends in, and that reserved references stay NULL in
LEMMA CtorsUnchanged ==
  ASSUME TypeOK, CtorInv, UNCHANGED <<ctors, life, singleton, m_DestroyRequestedFlag, pc, current>>,
         \A i \in DOMAIN ctors : refs[ctors[i].ref] = NoRef => refs'[ctors[i].ref] = NoRef
  PROVE  CtorInv'
<1>1. ASSUME NEW i \in DOMAIN ctors, NEW c, c = ctors[i] PROVE CtorOK(c)'
  <2>1. CtorOK(c) BY <1>1 DEF CtorInv
  <2> QED BY <1>1, <2>1 DEF CtorOK, Alive
<1> QED BY <1>1 DEF CtorInv

\* A reference is taken in an object that no constructor reserved.
LEMMA CtorsReference ==
  ASSUME TypeOK, CtorInv, NEW r \in Free, NEW h, NEW o, NEW d, NEW should,
         Reference(r, h, o, d, should), UNCHANGED <<life, chains, flags, ctors, single, ids, loop>>
  PROVE  CtorInv'
<1>1. \A i \in DOMAIN ctors : ctors[i].ref # r
  BY DEF Free
<1>2. \A s : s # r => refs'[s] = refs[s]
  BY DEF Reference, TypeOK
<1> QED BY <1>1, <1>2, CtorsUnchanged DEF flags, single, loop

\* A constructor begins, called by nobody or by an actor that is alive.
LEMMA ConstructCtors ==
  ASSUME TypeOK, PlaceInv, CtorInv, NoDangling, NEW a \in Actors, NEW by \in Actors \cup {NoActor},
         NEW holder \in Actors \cup {NoActor}, NEW r \in Refs \cup {NoRef}, NEW b \in BOOLEAN,
         Construct(a, by, holder, r, b), singleton' = singleton,
         holder \in {by, NoActor}, by # NoActor => Alive(by) /\ r \in Free
  PROVE  CtorInv'
<1> DEFINE c == [actor |-> a, by |-> by, holder |-> holder, ref |-> r, single |-> b]
<1>1. /\ life[a] = "unborn" /\ life' = [life EXCEPT ![a] = "alive"]
      /\ ctors' = <<c>> \o ctors
      /\ UNCHANGED <<refs, m_DestroyRequestedFlag, pc, current>>
      /\ pc \in {"run", "onDestroyRequest"}
  BY DEF Construct, flags, counts, loop, MayReference, UserCode
<1>2. c \in CtorRecords /\ ctors \in Seq(CtorRecords)
  BY DEF CtorRecords, TypeOK
<1>3. c.actor = a /\ c.by = by /\ c.holder = holder /\ c.ref = r
  OBVIOUS
<1> HIDE DEF c
<1>4. /\ ctors'[1] = c
      /\ \A i \in DOMAIN ctors' : i # 1 => i - 1 \in DOMAIN ctors /\ ctors'[i] = ctors[i - 1]
      /\ DOMAIN ctors' = 1 .. Len(ctors) + 1 /\ Len(ctors) \in Nat
  BY <1>1, <1>2, PushChain, LenProperties
<1>5. ASSUME NEW i \in DOMAIN ctors, NEW d, d = ctors[i]
      PROVE  /\ CtorOK(d)' /\ d.actor # a /\ d.by # a
             /\ by # NoActor /\ d.by # NoActor => d.ref # r
  <2>1. CtorOK(d) /\ d \in CtorRecords BY <1>2, <1>5, ElementOfSeq DEF CtorInv
  <2>2. d.actor # a /\ d.by # a
    BY <1>1, <2>1, LifecycleAssumption DEF CtorOK, Alive
  <2>3. by # NoActor => d.ref # r BY <1>5 DEF Free
  <2> QED BY <1>1, <2>1, <2>2, <2>3 DEF CtorOK, Alive, TypeOK
<1>6. CtorOK(c)'
  <2>1. by # a /\ ~m_DestroyRequestedFlag[a] BY <1>1, LifecycleAssumption DEF CtorInv, Alive
  <2>2. a # singleton BY <1>1, LifecycleAssumption DEF NoDangling, Alive
  <2>3. pc = "onDestroyRequest" => a # current BY <1>1 DEF PlaceInv, Alive
  <2>4. by # NoActor => r \in Refs /\ refs[r] = NoRef BY DEF Free, Used
  <2> QED BY <1>1, <1>3, <2>1, <2>2, <2>3, <2>4 DEF CtorOK, Alive, TypeOK
<1>7. ASSUME NEW i \in DOMAIN ctors', NEW d, d = ctors'[i] PROVE CtorOK(d)'
  BY <1>4, <1>5, <1>6, <1>7
<1>8. ASSUME NEW i \in DOMAIN ctors', NEW j \in DOMAIN ctors', i < j
      PROVE  /\ ctors'[i].actor # ctors'[j].actor /\ ctors'[i].actor # ctors'[j].by
             /\ ctors'[i].by # NoActor /\ ctors'[j].by # NoActor => ctors'[i].ref # ctors'[j].ref
  <2>1. j # 1 /\ j - 1 \in DOMAIN ctors /\ ctors'[j] = ctors[j - 1]
    BY <1>4, <1>8
  <2>2. CASE i = 1 BY <1>3, <1>4, <1>5, <2>1, <2>2
  <2>3. CASE i # 1
    <3>1. i - 1 \in DOMAIN ctors /\ ctors'[i] = ctors[i - 1] /\ i - 1 < j - 1
      BY <1>4, <1>8, <2>3
    <3> QED BY <2>1, <3>1 DEF CtorInv
  <2> QED BY <2>2, <2>3
<1>9. \A d \in Actors : life'[d] = "unborn" => ~m_DestroyRequestedFlag'[d]
  BY <1>1 DEF CtorInv, TypeOK
<1> QED BY <1>7, <1>8, <1>9 DEF CtorInv

\* The innermost constructor ends, by returning or throwing, with its actor left alone by
\* those around it.
LEMMA EndCtors ==
  ASSUME TypeOK, CtorInv, ctors # << >>, ctors' = Tail(ctors),
         UNCHANGED <<m_DestroyRequestedFlag, pc, current>>,
         \A a \in Actors : /\ life'[a] = "unborn" => life[a] = "unborn"
                           /\ a # Head(ctors).actor => life'[a] = life[a],
         singleton' \in {singleton, Head(ctors).actor},
         \A r \in Refs : refs[r] = NoRef =>
            refs'[r] = NoRef \/ (Head(ctors).by # NoActor /\ r = Head(ctors).ref)
  PROVE  CtorInv'
<1>1. \A i \in DOMAIN Tail(ctors) : i \in Int /\ i + 1 \in DOMAIN ctors /\ Tail(ctors)[i] = ctors[i + 1]
  BY HeadTailProperties, LenProperties DEF TypeOK
<1>2. ASSUME NEW i \in DOMAIN Tail(ctors), NEW c, c = Tail(ctors)[i] PROVE CtorOK(c)'
  <2>1. /\ CtorOK(c) /\ c \in CtorRecords
        /\ Head(ctors).actor # c.actor /\ Head(ctors).actor # c.by
        /\ Head(ctors).by # NoActor /\ c.by # NoActor => Head(ctors).ref # c.ref
    BY <1>2, Innermost
  <2>2. c.actor \in Actors /\ (c.by # NoActor => c.by \in Actors)
    BY <2>1 DEF CtorRecords
  <2>3. Alive(c.actor)' /\ (c.by # NoActor => Alive(c.by)')
    BY <2>1, <2>2 DEF CtorOK, Alive
  <2>4. c.by # NoActor => refs'[c.ref] = NoRef
    BY <2>1 DEF CtorOK
  <2> QED BY <2>1, <2>3, <2>4 DEF CtorOK
<1>3. ASSUME NEW i \in DOMAIN Tail(ctors), NEW j \in DOMAIN Tail(ctors), i < j
      PROVE  LET c == Tail(ctors)[i]
                 d == Tail(ctors)[j] IN
             /\ c.actor # d.actor /\ c.actor # d.by
             /\ c.by # NoActor /\ d.by # NoActor => c.ref # d.ref
  <2>1. i + 1 < j + 1 BY <1>1, <1>3
  <2> QED BY <1>1, <1>3, <2>1 DEF CtorInv
<1> QED BY <1>2, <1>3 DEF CtorInv

LEMMA UserCtors ==
  ASSUME LifecycleInv, NoThrow, UserStep
  PROVE  CtorInv'
<1> USE DEF flags, counts, single, ids, loop
<1>0. TypeOK /\ PlaceInv /\ CtorInv /\ NoDangling
  BY DEF LifecycleInv
<1>1. ASSUME NEW a \in Actors, RequestDestroy(a) PROVE CtorInv'
  BY <1>0, <1>1, CtorsUnchanged DEF RequestDestroy
<1>2. ASSUME NEW a \in Actors, NewUnreferencedActor(a) PROVE CtorInv'
  <2>1. Construct(a, NoActor, NoActor, NoRef, FALSE) /\ UNCHANGED single
    BY <1>2 DEF NewUnreferencedActor
  <2> QED BY <1>0, <2>1, ConstructCtors
<1>3. ASSUME NEW o \in Actors, NEW a \in Actors, NEW r \in Refs, NewReferencedActor(o, a, r)
      PROVE  CtorInv'
  <2>1. PICK h \in Holders(o) : Construct(a, o, h, r, FALSE)
    BY <1>3 DEF NewReferencedActor
  <2>2. UNCHANGED single /\ Alive(o) /\ r \in Free BY <1>3 DEF NewReferencedActor
  <2>3. h \in {o, NoActor} BY DEF Holders
  <2> QED BY <1>0, <2>1, <2>2, <2>3, ConstructCtors
<1>4. ASSUME NEW o \in Actors, NEW a \in Actors, NEW r \in Refs, NewReferencedSingletonActor(o, a, r)
      PROVE  CtorInv'
  <2>1. PICK h \in Holders(o) : Construct(a, o, h, r, TRUE)
    BY <1>4 DEF NewReferencedSingletonActor
  <2>2. UNCHANGED singleton /\ Alive(o) /\ r \in Free BY <1>4 DEF NewReferencedSingletonActor
  <2>3. h \in {o, NoActor} BY DEF Holders
  <2> QED BY <1>0, <2>1, <2>2, <2>3, ConstructCtors
<1>5. ASSUME NEW o \in Actors, NEW a \in Actors, NEW r \in Refs, ReferenceLocalActor(o, a, r)
      PROVE  CtorInv'
  BY <1>0, <1>5, CtorsReference DEF ReferenceLocalActor
<1>6. ASSUME NEW o \in Actors, NEW r \in Refs, ReferenceSingletonActor(o, r) PROVE CtorInv'
  BY <1>0, <1>6, CtorsReference DEF ReferenceSingletonActor
<1>7. ASSUME NEW s \in Refs, NEW r \in Refs, CopyReference(s, r) PROVE CtorInv'
  <2>1. PICK h : Reference(r, h, refs[s].org, refs[s].dest, refs[s].should) BY <1>7 DEF CopyReference
  <2> QED BY <1>0, <1>7, <2>1, CtorsReference DEF CopyReference
<1>8. ASSUME NEW r \in Refs, Unreference(r) PROVE CtorInv'
  <2>1. \A s : refs[s] = NoRef => refs'[s] = NoRef
    BY <1>0, <1>8 DEF Unreference, TypeOK
  <2> QED BY <1>0, <1>8, <2>1, CtorsUnchanged DEF Unreference
<1>9. CASE Constructed
  <2>1. /\ ctors # << >> /\ ctors' = Tail(ctors) /\ singleton' \in {singleton, Head(ctors).actor}
        /\ UNCHANGED <<life, m_DestroyRequestedFlag, pc, current>>
    BY <1>9 DEF Constructed
  <2>2. \A r \in Refs : refs'[r] = refs[r] \/ (Head(ctors).by # NoActor /\ r = Head(ctors).ref)
    BY <1>0, <1>9 DEF Constructed, Reference, TypeOK
  <2> QED BY <1>0, <2>1, <2>2, EndCtors
<1>10. CASE acceptDestroy
  <2>1. /\ pc = "onDestroyRequest" /\ m_DestroyRequestedFlag' = [m_DestroyRequestedFlag EXCEPT ![current] = TRUE]
        /\ UNCHANGED <<ctors, life, singleton, refs, pc, current>>
    BY <1>10 DEF acceptDestroy
  <2>2. Alive(current) BY <1>0, <2>1 DEF PlaceInv
  <2>3. ASSUME NEW i \in DOMAIN ctors, NEW c, c = ctors[i] PROVE CtorOK(c)'
    <3>1. CtorOK(c) BY <1>0, <2>3 DEF CtorInv
    <3> QED BY <1>0, <2>1, <3>1 DEF CtorOK, Alive, TypeOK
  <2> QED BY <1>0, <2>1, <2>2, <2>3 DEF CtorInv, Alive, TypeOK
<1>11. CASE ConstructorThrows
  <2>1. PICK a \in Actors : a = Head(ctors).actor
    BY <1>0, <1>11, Innermost DEF ConstructorThrows
  <2>2. /\ ctors # << >> /\ ctors' = Tail(ctors) /\ life' = [life EXCEPT ![a] = "dead"]
        /\ UNCHANGED <<m_DestroyRequestedFlag, pc, current, singleton>>
    BY <1>11, <2>1 DEF ConstructorThrows, Destructor
  <2>3. \A r \in Refs : refs[r] = NoRef => refs'[r] = NoRef
    BY <1>11, <2>1 DEF ConstructorThrows, Destructor, Used
  <2> QED BY <1>0, <2>1, <2>2, <2>3, EndCtors DEF TypeOK
<1> QED BY <1>1, <1>2, <1>3, <1>4, <1>5, <1>6, <1>7, <1>8, <1>9, <1>10, <1>11 DEF UserStep

\* The loop does its work when no constructor is under way.
LEMMA LoopCtors ==
  ASSUME LifecycleInv, LoopStep \/ Shutdown
  PROVE  CtorInv'
<1> USE DEF flags, counts, single, ids, loop, UserCode
<1>0. TypeOK /\ PlaceInv /\ ChainInv /\ CtorInv
  BY DEF LifecycleInv
<1>1. ASSUME ctors = << >>, ctors' = ctors,
             \A a \in Actors : life'[a] = "unborn" => life[a] = "unborn",
             \A a \in Actors : m_DestroyRequestedFlag'[a] => m_DestroyRequestedFlag[a]
      PROVE  CtorInv'
  <2>1. DOMAIN ctors = {} BY <1>1
  <2> QED BY <1>0, <1>1, <2>1 DEF CtorInv
<1>2. CASE BeginDestroy BY <1>1, <1>2 DEF BeginDestroy
<1>3. CASE DestroyReferenced BY <1>0, <1>1, <1>3 DEF DestroyReferenced, PlaceInv
<1>4. CASE CallOnDestroyRequest
  BY <1>0, <1>1, <1>4 DEF CallOnDestroyRequest, PlaceInv, TypeOK
<1>5. CASE DeleteActor BY <1>1, <1>5 DEF DeleteActor
<1>6. CASE KeepActor BY <1>1, <1>6 DEF KeepActor
<1>7. CASE DeleteDone
  BY <1>0, <1>1, <1>7 DEF DeleteDone, Destructor, PlaceInv, TypeOK
<1>8. CASE DestroyDone BY <1>0, <1>1, <1>8 DEF DestroyDone, PlaceInv
<1>9. CASE isRunning BY <1>0, <1>1, <1>9 DEF isRunning, PlaceInv
<1>10. CASE Shutdown BY <1>0, <1>10, CtorsUnchanged DEF Shutdown
<1> QED BY <1>2, <1>3, <1>4, <1>5, <1>6, <1>7, <1>8, <1>9, <1>10 DEF LoopStep

-----------------------------------------------------------------------------
(* References name actors that are alive                                   *)

LEMMA DanglingUnchanged ==
  ASSUME NoDangling, UNCHANGED <<refs, m_ReferenceFromCount>>, singleton' \in {singleton, NoActor},
         \A a : Alive(a) => life'[a] = "alive"
  PROVE  NoDangling'
BY DEF NoDangling, Used, Alive

LEMMA DanglingReference ==
  ASSUME TypeOK, NoDangling, NEW r \in Refs, refs[r] = NoRef,
         NEW h \in Actors \cup {NoActor}, h = NoActor \/ Alive(h),
         NEW o \in Actors \cup {NoActor}, o = NoActor \/ Alive(o),
         NEW d \in Actors, Alive(d), NEW should \in BOOLEAN, Reference(r, h, o, d, should),
         life' = life, singleton' \in {singleton, d}
  PROVE  NoDangling'
<1>1. /\ Used' = Used \cup {r} /\ r \notin Used
      /\ refs'[r] = [holder |-> h, org |-> o, dest |-> d, should |-> should]
      /\ \A s \in Used : refs'[s] = refs[s]
      /\ CountsRight'
  BY ReferenceCounts, DanglingCounts
<1>2. \A s \in Used' :
        /\ life'[refs'[s].dest] = "alive"
        /\ refs'[s].holder = NoActor \/ life'[refs'[s].holder] = "alive"
        /\ refs'[s].org = NoActor \/ life'[refs'[s].org] = "alive"
  BY <1>1 DEF NoDangling, Alive
<1>3. singleton' = NoActor \/ life'[singleton'] = "alive"
  BY DEF NoDangling, Alive
<1> QED BY <1>1, <1>2, <1>3 DEF NoDangling, CountsRight, Referrers, Alive

LEMMA DanglingRelease ==
  ASSUME TypeOK, NoDangling, NEW r \in Refs, Unreference(r)
  PROVE  NoDangling'
<1>1. r \in Used BY DEF Unreference
<1>2. /\ refs' = [refs EXCEPT ![r] = NoRef]
      /\ m_ReferenceFromCount' = [m_ReferenceFromCount EXCEPT ![refs[r].dest] = m_ReferenceFromCount[refs[r].dest] - 1]
      /\ UNCHANGED <<life, singleton>>
  BY DEF Unreference, unreference, single
<1>3. Used' = Used \ {r} /\ (\A s \in Used' : refs'[s] = refs[s]) /\ CountsRight'
  BY <1>1, <1>2, ReleaseCounts, DanglingCounts
<1> QED BY <1>2, <1>3 DEF NoDangling, CountsRight, Referrers, Alive

\* An actor dies that nobody refers to and that holds no references.
LEMMA DanglingDeath ==
  ASSUME TypeOK, NoDangling, NEW a \in Actors, Destructor(a), m_ReferenceFromCount[a] = 0,
         \A r \in Used : refs[r].holder # a, singleton # a, singleton' = singleton
  PROVE  NoDangling'
<1>1. /\ Used' = Used
      /\ \A r \in Used : /\ refs'[r].dest = refs[r].dest /\ refs'[r].holder = refs[r].holder
                         /\ refs'[r].org = IF refs[r].org = a THEN NoActor ELSE refs[r].org
      /\ CountsRight'
  BY DestructorReferences, DanglingCounts
<1>2. \A r \in Used : refs[r].dest # a
  BY CountPositive, DanglingCounts
<1>3. \A b : b # a => (Alive(b) => life'[b] = "alive")
  BY DEF Destructor, TypeOK, Alive
<1>4. \A r \in Used' :
        /\ life'[refs'[r].dest] = "alive"
        /\ refs'[r].holder = NoActor \/ life'[refs'[r].holder] = "alive"
        /\ refs'[r].org = NoActor \/ life'[refs'[r].org] = "alive"
  BY <1>1, <1>2, <1>3 DEF NoDangling, Alive
<1>5. singleton' = NoActor \/ life'[singleton'] = "alive"
  BY <1>3 DEF NoDangling, Alive
<1> QED BY <1>1, <1>4, <1>5 DEF NoDangling, CountsRight, Referrers, Alive

LEMMA UserDangling ==
  ASSUME LifecycleInv, NoThrow, UserStep
  PROVE  NoDangling'
<1> USE DEF flags, counts, single, ids, loop
<1>0. TypeOK /\ CtorInv /\ NoDangling
  BY DEF LifecycleInv
<1>1. ASSUME NEW a \in Actors, RequestDestroy(a) PROVE NoDangling'
  BY <1>0, <1>1, DanglingUnchanged DEF RequestDestroy, Alive
<1>2. ASSUME NEW a \in Actors, NEW by, NEW holder, NEW r, NEW b, Construct(a, by, holder, r, b),
             singleton' = singleton
      PROVE  NoDangling'
  <2>1. \A d : Alive(d) => life'[d] = "alive" BY <1>0, <1>2 DEF Construct, TypeOK, Alive
  <2> QED BY <1>0, <1>2, <2>1, DanglingUnchanged DEF Construct
<1>3. ASSUME NEW a \in Actors, NewUnreferencedActor(a) PROVE NoDangling'
  BY <1>2, <1>3 DEF NewUnreferencedActor
<1>4. ASSUME NEW o \in Actors, NEW a \in Actors, NEW r \in Refs,
             NewReferencedActor(o, a, r) \/ NewReferencedSingletonActor(o, a, r)
      PROVE  NoDangling'
  BY <1>2, <1>4 DEF NewReferencedActor, NewReferencedSingletonActor
<1>5. ASSUME NEW o \in Actors, NEW a \in Actors, NEW r \in Refs, ReferenceLocalActor(o, a, r)
      PROVE  NoDangling'
  <2>1. PICK b \in Actors, h \in Holders(o) : Alive(b) /\ Reference(r, h, o, b, FALSE)
    BY <1>5 DEF ReferenceLocalActor, getReferenceToLocalActor
  <2>2. refs[r] = NoRef /\ Alive(o) /\ UNCHANGED <<life, single>>
    BY <1>5 DEF ReferenceLocalActor, Free, Used
  <2>3. h \in {o, NoActor} BY DEF Holders
  <2> QED BY <1>0, <2>1, <2>2, <2>3, DanglingReference
<1>6. ASSUME NEW o \in Actors, NEW r \in Refs, ReferenceSingletonActor(o, r) PROVE NoDangling'
  <2>1. PICK h \in Holders(o) : Reference(r, h, o, singleton, TRUE)
    BY <1>6 DEF ReferenceSingletonActor
  <2>2. /\ refs[r] = NoRef /\ Alive(o) /\ singleton # NoActor /\ UNCHANGED <<life, single>>
    BY <1>6 DEF ReferenceSingletonActor, Free, Used
  <2>3. h \in {o, NoActor} BY DEF Holders
  <2>4. singleton \in Actors /\ Alive(singleton) BY <1>0, <2>2 DEF TypeOK, NoDangling
  <2> QED BY <1>0, <2>1, <2>2, <2>3, <2>4, DanglingReference
<1>7. ASSUME NEW s \in Refs, NEW r \in Refs, CopyReference(s, r) PROVE NoDangling'
  <2>1. /\ s \in Used /\ refs[r] = NoRef /\ UNCHANGED <<life, single>>
    BY <1>7 DEF CopyReference, Free, Used
  <2>2. PICK h \in {refs[s].holder, NoActor} \cup {a \in Actors : Alive(a)} :
          Reference(r, h, refs[s].org, refs[s].dest, refs[s].should)
    BY <1>7 DEF CopyReference, Holders
  <2>3. /\ refs[s].holder \in Actors \cup {NoActor} /\ refs[s].org \in Actors \cup {NoActor}
        /\ refs[s].dest \in Actors /\ refs[s].should \in BOOLEAN
    BY <1>0, <2>1, UsedRecord
  <2>4. /\ h \in Actors \cup {NoActor} /\ (h = NoActor \/ Alive(h))
        /\ refs[s].org = NoActor \/ Alive(refs[s].org)
        /\ Alive(refs[s].dest)
    BY <1>0, <2>1, <2>3 DEF NoDangling
  <2> QED BY <1>0, <2>1, <2>2, <2>3, <2>4, DanglingReference
<1>8. ASSUME NEW r \in Refs, Unreference(r) PROVE NoDangling'
  BY <1>0, <1>8, DanglingRelease
<1>9. CASE Constructed
  <2>1. PICK new \in CtorRecords : new = Head(ctors) /\ CtorOK(new)
    BY <1>0, <1>9, Innermost DEF Constructed
  <2>2. /\ new.actor \in Actors /\ new.by \in Actors \cup {NoActor}
        /\ new.holder \in Actors \cup {NoActor}
    BY <2>1 DEF CtorRecords
  <2>3. UNCHANGED life BY <1>9 DEF Constructed
  <2>4. CASE UNCHANGED <<counts, singleton>>
    BY <1>0, <2>3, <2>4, DanglingUnchanged DEF Alive
  <2>5. CASE /\ new.by # NoActor /\ Reference(new.ref, new.holder, new.by, new.actor, TRUE)
             /\ singleton' \in {singleton, new.actor}
    BY <1>0, <2>1, <2>2, <2>3, <2>5, DanglingReference DEF CtorOK
  <2> QED BY <1>9, <2>1, <2>4, <2>5 DEF Constructed
<1>10. CASE acceptDestroy
  BY <1>0, <1>10, DanglingUnchanged DEF acceptDestroy, Alive
<1>11. CASE ConstructorThrows
  <2>1. PICK a \in Actors : a = Head(ctors).actor /\ a # singleton
    BY <1>0, <1>11, Innermost DEF ConstructorThrows, CtorOK
  <2>2. /\ Destructor(a) /\ singleton' = singleton /\ m_ReferenceFromCount[a] = 0
        /\ \A r \in Used : refs[r].holder # a
    BY <1>11, <2>1 DEF ConstructorThrows
  <2> QED BY <1>0, <2>1, <2>2, DanglingDeath
<1> QED BY <1>1, <1>3, <1>4, <1>5, <1>6, <1>7, <1>8, <1>9, <1>10, <1>11 DEF UserStep

LEMMA LoopDangling ==
  ASSUME LifecycleInv, LoopStep \/ Shutdown
  PROVE  NoDangling'
<1> USE DEF flags, counts, single, ids, loop, Alive
<1>0. TypeOK /\ PlaceInv /\ NoDangling
  BY DEF LifecycleInv
<1>1. CASE DeleteDone
  <2>1. /\ pc = "delete" /\ Destructor(current) /\ singleton' = singleton
        /\ \A r \in Used : refs[r].holder # current
    BY <1>1 DEF DeleteDone
  <2>2. current \in Actors /\ m_ReferenceFromCount[current] = 0 /\ singleton # current
    BY <1>0, <2>1 DEF PlaceInv
  <2> QED BY <1>0, <2>1, <2>2, DanglingDeath
<1>2. CASE DeleteActor
  <2>1. singleton' \in {singleton, NoActor} /\ UNCHANGED <<refs, m_ReferenceFromCount, life>>
    BY <1>2 DEF DeleteActor
  <2> QED BY <1>0, <2>1, DanglingUnchanged
<1>3. CASE (LoopStep /\ ~DeleteDone /\ ~DeleteActor) \/ Shutdown
  <2>1. UNCHANGED <<refs, m_ReferenceFromCount, life, singleton>>
    BY <1>3 DEF LoopStep, BeginDestroy, DestroyReferenced, CallOnDestroyRequest, KeepActor,
                DestroyDone, isRunning, Shutdown
  <2> QED BY <1>0, <2>1, DanglingUnchanged
<1> QED BY <1>1, <1>2, <1>3

-----------------------------------------------------------------------------
(* Requests for destruction                                                *)

\* The chain pointer tells whether an actor that is alive awaits its destruction.
LEMMA KeptIsKept ==
  ASSUME ChainInv, KeptInv
  PROVE  RequestKept
BY DEF ChainInv, KeptInv, RequestKept, Alive

\* Counts go up, or down without reaching 0.
LEMMA KeptUnchanged ==
  ASSUME PlaceInv, KeptInv, UNCHANGED <<life, chain, onUnreferencedDestroyFlag, pc, current>>,
         \A a \in Actors : m_ReferenceFromCount'[a] = 0 => m_ReferenceFromCount[a] = 0
  PROVE  KeptInv'
BY DEF PlaceInv, KeptInv, Alive

\* A request is made, and its actor is where the loop finds it unless it is referenced.
LEMMA KeptRequest ==
  ASSUME TypeOK, PlaceInv, KeptInv, NEW a \in Actors, Alive(a),
         requestDestroy(a, m_ReferenceFromCount'[a]), UNCHANGED <<life, pc, current>>,
         \A b \in Actors : b # a => m_ReferenceFromCount'[b] = m_ReferenceFromCount[b]
  PROVE  KeptInv'
<1>1. /\ \A b \in Actors : b # a => chain'[b] = chain[b]
      /\ chain'[a] = chain[a] \/ chain'[a] = "destroyedActorChain"
      /\ m_ReferenceFromCount'[a] = 0 => chain'[a] = "destroyedActorChain"
  BY DEF requestDestroy, MoveToDestroyed, chains, TypeOK
<1>2. onUnreferencedDestroyFlag' = [onUnreferencedDestroyFlag EXCEPT ![a] = TRUE]
  BY DEF requestDestroy
<1> QED BY <1>1, <1>2 DEF PlaceInv, KeptInv, Alive, TypeOK

\* Actors die, and nothing else changes that KeptInv is about.
LEMMA KeptDeath ==
  ASSUME TypeOK, KeptInv, NEW a \in Actors, Destructor(a), UNCHANGED <<chain, onUnreferencedDestroyFlag>>,
         pc' = "onDestroyRequest" => pc = "onDestroyRequest" /\ current' = current
  PROVE  KeptInv'
BY DEF Destructor, KeptInv, Alive, TypeOK

LEMMA UserKept ==
  ASSUME LifecycleInv, NoThrow, UserStep
  PROVE  KeptInv'
<1> USE DEF flags, counts, single, ids, loop
<1>0. TypeOK /\ PlaceInv /\ CtorInv /\ NoDangling /\ KeptInv
  BY DEF LifecycleInv
<1>1. ASSUME NEW a \in Actors, RequestDestroy(a) PROVE KeptInv'
  <2>1. /\ Alive(a) /\ UNCHANGED <<life, m_ReferenceFromCount, pc, current>>
        /\ requestDestroy(a, m_ReferenceFromCount'[a])
    BY <1>1 DEF RequestDestroy
  <2> QED BY <1>0, <2>1, KeptRequest
<1>2. ASSUME NEW a \in Actors, NEW by, NEW holder, NEW r, NEW b, Construct(a, by, holder, r, b)
      PROVE  KeptInv'
  <2>1. /\ pc \in {"run", "onDestroyRequest"} /\ life[a] = "unborn"
        /\ life' = [life EXCEPT ![a] = "alive"]
        /\ chain' = [chain EXCEPT ![a] = "asyncActorChain"]
        /\ UNCHANGED <<onUnreferencedDestroyFlag, m_ReferenceFromCount, pc, current>>
    BY <1>2 DEF Construct, MayReference, UserCode
  <2>2. pc = "onDestroyRequest" => current # a BY <1>0, <2>1 DEF PlaceInv, Alive
  <2> QED BY <1>0, <2>1, <2>2 DEF KeptInv, Alive, TypeOK
<1>3. ASSUME NEW a \in Actors, NewUnreferencedActor(a) PROVE KeptInv'
  BY <1>2, <1>3 DEF NewUnreferencedActor
<1>4. ASSUME NEW o \in Actors, NEW a \in Actors, NEW r \in Refs,
             NewReferencedActor(o, a, r) \/ NewReferencedSingletonActor(o, a, r)
      PROVE  KeptInv'
  BY <1>2, <1>4 DEF NewReferencedActor, NewReferencedSingletonActor
<1>5. ASSUME NEW r, NEW h, NEW o, NEW d \in Actors, NEW should, Reference(r, h, o, d, should),
             UNCHANGED <<life, chains, onUnreferencedDestroyFlag, pc, current>>
      PROVE  KeptInv'
  <2>1. \A a \in Actors : m_ReferenceFromCount'[a] = 0 => m_ReferenceFromCount[a] = 0
    BY <1>0, <1>5 DEF Reference, TypeOK
  <2> QED BY <1>0, <1>5, <2>1, KeptUnchanged DEF chains
<1>6. ASSUME NEW o \in Actors, NEW a \in Actors, NEW r \in Refs, ReferenceLocalActor(o, a, r)
      PROVE  KeptInv'
  BY <1>5, <1>6 DEF ReferenceLocalActor
<1>7. ASSUME NEW o \in Actors, NEW r \in Refs, ReferenceSingletonActor(o, r) PROVE KeptInv'
  <2>1. singleton \in Actors BY <1>0, <1>7 DEF ReferenceSingletonActor, TypeOK
  <2> QED BY <1>5, <1>7, <2>1 DEF ReferenceSingletonActor
<1>8. ASSUME NEW s \in Refs, NEW r \in Refs, CopyReference(s, r) PROVE KeptInv'
  <2>1. refs[s].dest \in Actors BY <1>0, <1>8, UsedRecord DEF CopyReference
  <2> QED BY <1>5, <1>8, <2>1 DEF CopyReference
<1>9. ASSUME NEW r \in Refs, Unreference(r) PROVE KeptInv'
  <2>1. r \in Used /\ UNCHANGED <<life, pc, current>> BY <1>9 DEF Unreference
  <2>2. PICK a \in Actors : a = refs[r].dest /\ Alive(a)
    BY <1>0, <2>1, UsedRecord DEF NoDangling
  <2>3. /\ m_ReferenceFromCount' = [m_ReferenceFromCount EXCEPT ![a] = m_ReferenceFromCount[a] - 1]
        /\ IF m_ReferenceFromCount'[a] = 0 /\ (refs[r].should \/ onUnreferencedDestroyFlag[a])
           THEN requestDestroy(a, m_ReferenceFromCount'[a])
           ELSE UNCHANGED <<chains, onUnreferencedDestroyFlag>>
    BY <1>0, <1>9, <2>2 DEF Unreference, unreference, TypeOK
  <2>4. \A b \in Actors : b # a => m_ReferenceFromCount'[b] = m_ReferenceFromCount[b]
    BY <1>0, <2>3 DEF TypeOK
  <2>5. CASE m_ReferenceFromCount'[a] = 0 /\ onUnreferencedDestroyFlag[a]
    BY <1>0, <2>1, <2>2, <2>3, <2>4, <2>5, KeptRequest
  <2>6. CASE requestDestroy(a, m_ReferenceFromCount'[a])
    BY <1>0, <2>1, <2>2, <2>4, <2>6, KeptRequest
  <2>7. CASE /\ UNCHANGED <<chains, onUnreferencedDestroyFlag>>
             /\ ~(m_ReferenceFromCount'[a] = 0 /\ onUnreferencedDestroyFlag[a])
    BY <1>0, <2>1, <2>4, <2>7 DEF KeptInv, PlaceInv, Alive, chains
  <2> QED BY <2>3, <2>5, <2>6, <2>7
<1>10. CASE Constructed
  <2>1. PICK new \in CtorRecords : new = Head(ctors) /\ CtorOK(new)
    BY <1>0, <1>10, Innermost DEF Constructed
  <2>2. new.actor \in Actors /\ Alive(new.actor)
    BY <2>1 DEF CtorRecords, CtorOK
  <2>3. UNCHANGED <<life, pc, current>> BY <1>10 DEF Constructed
  <2>4. CASE /\ Reference(new.ref, new.holder, new.by, new.actor, TRUE)
             /\ UNCHANGED <<chains, onUnreferencedDestroyFlag>>
    BY <1>5, <2>2, <2>3, <2>4
  <2>5. CASE UNCHANGED <<counts, chains, onUnreferencedDestroyFlag>>
    BY <1>0, <2>3, <2>5, KeptUnchanged DEF chains
  <2>6. CASE requestDestroy(new.actor, m_ReferenceFromCount'[new.actor]) /\ UNCHANGED counts
    BY <1>0, <2>2, <2>3, <2>6, KeptRequest
  <2>7. \/ /\ Reference(new.ref, new.holder, new.by, new.actor, TRUE)
           /\ UNCHANGED <<chains, onUnreferencedDestroyFlag>>
        \/ UNCHANGED <<counts, chains, onUnreferencedDestroyFlag>>
        \/ requestDestroy(new.actor, m_ReferenceFromCount[new.actor]) /\ UNCHANGED counts
    BY <1>10, <2>1 DEF Constructed
  <2> QED BY <2>4, <2>5, <2>6, <2>7
<1>11. CASE acceptDestroy
  BY <1>0, <1>11, KeptUnchanged DEF acceptDestroy, chains
<1>12. CASE ConstructorThrows
  <2>1. PICK a \in Actors : a = Head(ctors).actor
    BY <1>0, <1>12, Innermost DEF ConstructorThrows
  <2>2. Destructor(a) /\ UNCHANGED <<chain, onUnreferencedDestroyFlag, pc, current>>
    BY <1>12, <2>1 DEF ConstructorThrows
  <2> QED BY <1>0, <2>2, KeptDeath
<1> QED BY <1>1, <1>3, <1>4, <1>6, <1>7, <1>8, <1>9, <1>10, <1>11, <1>12 DEF UserStep

LEMMA LoopKept ==
  ASSUME LifecycleInv, LoopStep \/ Shutdown
  PROVE  KeptInv'
<1> USE DEF flags, counts, single, ids, loop, Alive
<1>0. TypeOK /\ PlaceInv /\ ChainInv /\ KeptInv
  BY DEF LifecycleInv
<1>1. CASE BeginDestroy BY <1>0, <1>1 DEF BeginDestroy, KeptInv
<1>2. CASE DestroyReferenced
  <2>1. Head(tmp) \in Actors BY <1>0, <1>2, HeadChain DEF DestroyReferenced, TypeOK
  <2> QED BY <1>0, <1>2, <2>1 DEF DestroyReferenced, KeptInv, TypeOK
<1>3. CASE CallOnDestroyRequest
  <2>1. Head(tmp) \in Actors BY <1>0, <1>3, HeadChain DEF CallOnDestroyRequest, TypeOK
  <2> QED BY <1>0, <1>3, <2>1 DEF CallOnDestroyRequest, KeptInv, TypeOK
<1>4. CASE DeleteActor
  <2>1. current \in Actors BY <1>0, <1>4 DEF DeleteActor, PlaceInv
  <2> QED BY <1>0, <1>4, <2>1 DEF DeleteActor, KeptInv, TypeOK
<1>5. CASE KeepActor
  <2>1. current \in Actors BY <1>0, <1>5 DEF KeepActor, PlaceInv
  <2> QED BY <1>0, <1>5, <2>1 DEF KeepActor, KeptInv, TypeOK
<1>6. CASE DeleteDone
  <2>1. /\ current \in Actors /\ Destructor(current) /\ pc' = "destroy"
        /\ UNCHANGED <<chain, onUnreferencedDestroyFlag>>
    BY <1>0, <1>6 DEF DeleteDone, PlaceInv, chains
  <2> QED BY <1>0, <2>1, KeptDeath
<1>7. CASE DestroyDone BY <1>0, <1>7 DEF DestroyDone, KeptInv, chains
<1>8. CASE isRunning
  <2>1. pc' \in {"ended", "run"} /\ UNCHANGED <<life, m_ReferenceFromCount>>
    BY <1>8 DEF isRunning
  <2>2. CASE UNCHANGED <<chains, onUnreferencedDestroyFlag>>
    BY <1>0, <2>1, <2>2 DEF KeptInv, chains
  <2>3. CASE destroyAsyncActors
    <3>1. \A a \in Actors : InChain(asyncActorChain, a) <=> Alive(a) /\ chain[a] = "asyncActorChain"
      BY <1>0 DEF ChainInv
    <3> QED BY <1>0, <2>1, <2>3, <3>1 DEF destroyAsyncActors, KeptInv
  <2> QED BY <1>8, <2>2, <2>3 DEF isRunning
<1>9. CASE Shutdown BY <1>0, <1>9 DEF Shutdown, KeptInv, chains
<1> QED BY <1>1, <1>2, <1>3, <1>4, <1>5, <1>6, <1>7, <1>8, <1>9 DEF LoopStep

-----------------------------------------------------------------------------
(* Actor-ids                                                               *)

LEMMA IdsUnchanged ==
  ASSUME IdInv, UNCHANGED <<life, ids>>
  PROVE  IdInv'
BY DEF IdInv, Born, Alive, ids

\* A new actor has the next id, in a table that was free or is new.
LEMMA IdsConstruct ==
  ASSUME TypeOK, IdInv, NEW a \in Actors, life[a] = "unborn",
         life' = [life EXCEPT ![a] = "alive"], retainEventTable(a)
  PROVE  IdInv'
<1> DEFINE n == Cardinality(Born)
           t == IF freeEventTable = << >> THEN Len(eventTable) + 1 ELSE Head(freeEventTable)
<1>1. /\ actorId' = [actorId EXCEPT ![a] = [table |-> t, id |-> 1 + n]]
      /\ IF freeEventTable = << >>
         THEN eventTable' = Append(eventTable, 1 + n) /\ UNCHANGED freeEventTable
         ELSE eventTable' = [eventTable EXCEPT ![t] = 1 + n] /\ freeEventTable' = Tail(freeEventTable)
  BY DEF retainEventTable, Born
<1>2. /\ eventTable \in Seq(Nat) /\ freeEventTable \in Seq(Nat) /\ Len(eventTable) \in Nat
      /\ DOMAIN eventTable = 1 .. Len(eventTable)
  BY LenProperties DEF TypeOK
<1>3. n \in Nat BY FS_CardinalityType DEF IdInv
<1>4. Born' = Born \cup {a} /\ a \notin Born
  BY DEF Born, TypeOK
<1>5. IsFiniteSet(Born') /\ Cardinality(Born') = n + 1
  BY <1>4, FS_AddElement DEF IdInv
<1> HIDE DEF n
<1>6. /\ t \in DOMAIN eventTable' /\ eventTable'[t] = 1 + n
      /\ \A i \in DOMAIN eventTable : i # t => i \in DOMAIN eventTable' /\ eventTable'[i] = eventTable[i]
      /\ \A i \in DOMAIN eventTable : i = t => eventTable[i] = 0
  <2>1. CASE freeEventTable = << >>
    <3>1. eventTable' = Append(eventTable, 1 + n) /\ t = Len(eventTable) + 1 BY <1>1, <2>1
    <3> QED BY <1>2, <1>3, <3>1, AppendProperties
  <2>2. CASE freeEventTable # << >>
    <3>1. eventTable' = [eventTable EXCEPT ![t] = 1 + n] /\ t = Head(freeEventTable) BY <1>1, <2>2
    <3>2. t \in DOMAIN eventTable /\ eventTable[t] = 0
      BY <1>2, <2>2, <3>1, HeadChain DEF IdInv
    <3>3. DOMAIN eventTable' = DOMAIN eventTable BY <1>2, <1>3, <3>1, ExceptType
    <3> QED BY <1>2, <1>3, <3>1, <3>2, <3>3
  <2> QED BY <2>1, <2>2
<1>7. /\ IsInjective(freeEventTable') /\ ~InChain(freeEventTable', t)
      /\ \A i : InChain(freeEventTable', i) => InChain(freeEventTable, i)
  <2>1. CASE freeEventTable = << >> BY <1>1, <2>1, EmptyChain
  <2>2. CASE freeEventTable # << >> BY <1>1, <1>2, <2>2, HeadChain DEF IdInv
  <2> QED BY <2>1, <2>2
<1> DEFINE rec == [table |-> t, id |-> 1 + n]
<1>8. /\ actorId'[a] = rec /\ rec.table = t /\ rec.id = 1 + n
      /\ \A b \in Actors : b # a => actorId'[b] = actorId[b]
  BY <1>1 DEF TypeOK
<1> HIDE DEF t, rec
<1>9. ASSUME NEW b \in Born
      PROVE  /\ b \in Actors /\ actorId[b].table \in DOMAIN eventTable
             /\ actorId[b].id \in 1 .. n
  BY DEF IdInv, Born, n
<1>10. \A b \in Born' : actorId'[b].table \in DOMAIN eventTable' /\ actorId'[b].id \in 1 .. n + 1
  BY <1>3, <1>4, <1>6, <1>8, <1>9
<1>11. \A b, c \in Born' : actorId'[b].id = actorId'[c].id => b = c
  <2>1. \A b \in Born : b # a /\ actorId'[b] = actorId[b] /\ actorId[b].id # 1 + n
    BY <1>3, <1>4, <1>8, <1>9
  <2>2. actorId'[a].id = 1 + n BY <1>8
  <2> QED BY <1>4, <2>1, <2>2 DEF IdInv
<1>12. ASSUME NEW b \in Actors, life'[b] = "alive"
       PROVE  eventTable'[actorId'[b].table] = actorId'[b].id
  <2>1. CASE b = a BY <1>6, <1>8, <2>1
  <2>2. CASE b # a
    <3>1. b \in Born /\ eventTable[actorId[b].table] = actorId[b].id /\ actorId'[b] = actorId[b]
      BY <1>8, <1>12, <2>2 DEF Born, IdInv, Alive, TypeOK
    <3>2. actorId[b].table # t BY <1>3, <1>6, <1>9, <3>1
    <3> QED BY <1>6, <1>9, <3>1, <3>2
  <2> QED BY <2>1, <2>2
<1>13. \A i : InChain(freeEventTable', i) => i \in DOMAIN eventTable' /\ eventTable'[i] = 0
  BY <1>6, <1>7 DEF IdInv
<1> QED BY <1>5, <1>7, <1>10, <1>11, <1>12, <1>13 DEF IdInv, Alive

\* An actor that dies leaves its table free, without an id.
LEMMA IdsDeath ==
  ASSUME TypeOK, IdInv, NEW a \in Actors, Alive(a), Destructor(a)
  PROVE  IdInv'
<1> DEFINE t == actorId[a].table
<1>1. /\ life' = [life EXCEPT ![a] = "dead"]
      /\ eventTable' = [eventTable EXCEPT ![t] = 0]
      /\ freeEventTable' = <<t>> \o freeEventTable
      /\ actorId' = actorId
  BY DEF Destructor
<1>2. eventTable \in Seq(Nat) /\ freeEventTable \in Seq(Nat)
  BY DEF TypeOK
<1>3. Born' = Born BY <1>1 DEF Born, Alive, TypeOK
<1>4. a \in Born BY DEF Born, Alive
<1>5. Cardinality(Born) \in Nat BY FS_CardinalityType DEF IdInv
<1>6. t \in Nat /\ t \in DOMAIN eventTable /\ eventTable[t] = actorId[a].id /\ actorId[a].id # 0
  BY <1>4, <1>5 DEF IdInv, Alive, TypeOK
<1> HIDE DEF t
<1>7. DOMAIN eventTable' = DOMAIN eventTable /\ eventTable'[t] = 0
  BY <1>1, <1>2, <1>6, ExceptType
<1>8. \A i \in DOMAIN eventTable : i # t => eventTable'[i] = eventTable[i]
  BY <1>1
<1>9. ~InChain(freeEventTable, t) BY <1>6 DEF IdInv
<1>10. <<t>> \in Seq(Nat) /\ IsInjective(<<t>>) /\ \A b : InChain(<<t>>, b) <=> b = t
  <2>1. <<t>> \in Seq(Nat) /\ DOMAIN <<t>> = {1} /\ <<t>>[1] = t BY <1>6
  <2> QED BY <2>1 DEF InChain, IsInjective
<1>11. /\ \A b : InChain(freeEventTable', b) <=> b = t \/ InChain(freeEventTable, b)
       /\ IsInjective(freeEventTable')
  BY <1>1, <1>2, <1>9, <1>10, ConcatChain DEF IdInv
<1>12. ASSUME NEW b \in Actors, life'[b] = "alive" PROVE eventTable'[actorId'[b].table] = actorId'[b].id
  <2>1. b # a /\ life[b] = "alive" BY <1>1, <1>12 DEF TypeOK
  <2>2. b \in Born /\ eventTable[actorId[b].table] = actorId[b].id BY <2>1 DEF IdInv, Born, Alive
  <2>3. actorId[b].table # t BY <1>4, <1>6, <2>1, <2>2 DEF IdInv
  <2> QED BY <1>1, <1>8, <2>2, <2>3 DEF IdInv
<1>13. \A i : InChain(freeEventTable', i) => i \in DOMAIN eventTable' /\ eventTable'[i] = 0
  BY <1>6, <1>7, <1>8, <1>11 DEF IdInv
<1>14. \A b \in Born : actorId'[b].table \in DOMAIN eventTable' /\ actorId'[b].id \in 1 .. Cardinality(Born)
  BY <1>1, <1>7 DEF IdInv
<1>15. \A b, c \in Born : actorId'[b].id = actorId'[c].id => b = c
  BY <1>1 DEF IdInv
<1> QED BY <1>3, <1>11, <1>12, <1>13, <1>14, <1>15 DEF IdInv, Alive

\* Ids change with the actors' births and deaths, and with no other step.
LEMMA IdStep ==
  ASSUME LifecycleInv, IdInv, [Next]_vars
  PROVE  IdInv'
<1> USE DEF flags, counts, single, loop
<1>0. TypeOK /\ PlaceInv /\ CtorInv
  BY DEF LifecycleInv
<1>1. ASSUME NEW a \in Actors, NEW by, NEW holder, NEW r, NEW b, Construct(a, by, holder, r, b)
      PROVE  IdInv'
  BY <1>0, <1>1, IdsConstruct DEF Construct
<1>2. ASSUME NEW a \in Actors, NewUnreferencedActor(a) PROVE IdInv'
  BY <1>1, <1>2 DEF NewUnreferencedActor
<1>3. ASSUME NEW o \in Actors, NEW a \in Actors, NEW r \in Refs,
             NewReferencedActor(o, a, r) \/ NewReferencedSingletonActor(o, a, r)
      PROVE  IdInv'
  BY <1>1, <1>3 DEF NewReferencedActor, NewReferencedSingletonActor
<1>4. CASE ConstructorThrows
  <2>1. PICK a \in Actors : a = Head(ctors).actor /\ Alive(a)
    BY <1>0, <1>4, Innermost DEF ConstructorThrows, CtorOK
  <2> QED BY <1>0, <1>4, <2>1, IdsDeath DEF ConstructorThrows
<1>5. CASE DeleteDone
  <2>1. current \in Actors /\ Alive(current) BY <1>0, <1>5 DEF DeleteDone, PlaceInv
  <2> QED BY <1>0, <1>5, <2>1, IdsDeath DEF DeleteDone
<1>6. ASSUME UNCHANGED <<life, ids>> PROVE IdInv'
  BY <1>6, IdsUnchanged
<1>7. CASE LoopStep /\ ~DeleteDone
  <2>1. UNCHANGED <<life, ids>>
    BY <1>7 DEF LoopStep, BeginDestroy, DestroyReferenced, CallOnDestroyRequest, DeleteActor,
                KeepActor, DestroyDone, isRunning
  <2> QED BY <1>6, <2>1
<1>8. CASE Constructed \/ acceptDestroy \/ Shutdown
  <2>1. UNCHANGED <<life, ids>> BY <1>8 DEF Constructed, acceptDestroy, Shutdown
  <2> QED BY <1>6, <2>1
<1>9. CASE UNCHANGED vars
  <2>1. UNCHANGED <<life, ids>> BY <1>9 DEF vars
  <2> QED BY <1>6, <2>1
<1>10. ASSUME NEW a \in Actors, RequestDestroy(a) PROVE IdInv'
  BY <1>6, <1>10 DEF RequestDestroy
<1>11. ASSUME NEW o \in Actors, NEW a \in Actors, NEW r \in Refs, ReferenceLocalActor(o, a, r)
       PROVE  IdInv'
  BY <1>6, <1>11 DEF ReferenceLocalActor
<1>12. ASSUME NEW o \in Actors, NEW r \in Refs, ReferenceSingletonActor(o, r) PROVE IdInv'
  BY <1>6, <1>12 DEF ReferenceSingletonActor
<1>13. ASSUME NEW s \in Refs, NEW r \in Refs, CopyReference(s, r) PROVE IdInv'
  BY <1>6, <1>13 DEF CopyReference
<1>14. ASSUME NEW r \in Refs, Unreference(r) PROVE IdInv'
  BY <1>6, <1>14 DEF Unreference
<1> QED
  BY <1>2, <1>3, <1>4, <1>5, <1>7, <1>8, <1>9, <1>10, <1>11, <1>12, <1>13, <1>14 DEF Next, UserStep

LEMMA IdsAreHome ==
  ASSUME TypeOK, IdInv
  PROVE  IdsLeadHome
<1> SUFFICES ASSUME NEW a \in Actors, NEW b \in Actors, life[a] # "unborn"
             PROVE  getReferenceToLocalActor(a, b) <=> a = b /\ Alive(a)
  BY DEF IdsLeadHome
<1>1. a \in Born /\ (Alive(b) => b \in Born) BY DEF Born, Alive
<1> QED BY <1>1 DEF IdInv, getReferenceToLocalActor, Alive

-----------------------------------------------------------------------------
(* Circles of references                                                   *)

\* Each actor of S is named by a reference that an actor of S created.
Circle(S) == S # {} /\ \A a \in S : \E r \in Used : refs[r].org \in S /\ refs[r].dest = a

NoCircle == \A S \in SUBSET Actors : ~Circle(S)

LEMMA CircleDef == NoCircularReference <=> (CheckCyclicalRefs => NoCircle)
BY DEF NoCircularReference, Circular, NoCircle, Circle

\* References are released, lose their origin, or are copied: what is a circle was one.
LEMMA CircleKept ==
  ASSUME NoCircle,
         \A s \in Used' : refs'[s].org = NoActor \/
            \E r \in Used : refs[r].org = refs'[s].org /\ refs[r].dest = refs'[s].dest
  PROVE  NoCircle'
<1> SUFFICES ASSUME NEW S \in SUBSET Actors, Circle(S)' PROVE FALSE
  BY DEF NoCircle
<1>1. ASSUME NEW a \in S PROVE \E r \in Used : refs[r].org \in S /\ refs[r].dest = a
  <2>1. PICK s \in Used' : refs'[s].org \in S /\ refs'[s].dest = a BY DEF Circle
  <2> QED BY <2>1, LifecycleAssumption
<1> QED BY <1>1 DEF NoCircle, Circle

\* A new reference closes no circle, when no references lead from its destination to its
\* origin: without the actors that can be reached from the destination, a circle would have
\* been one before.
LEMMA CircleReference ==
  ASSUME TypeOK, CountsRight, CheckCyclicalRefs, NoCircle, NEW r \in Refs, refs[r] = NoRef,
         NEW h \in Actors \cup {NoActor}, NEW o \in Actors, NEW d \in Actors, NEW should \in BOOLEAN,
         Reference(r, h, o, d, should), ~recursiveFind(o, d)
  PROVE  NoCircle'
<1>1. PICK R \in SUBSET Actors :
        d \in R /\ o \notin R /\ \A s \in Used : refs[s].org \in R => refs[s].dest \in R
  BY DEF recursiveFind
<1>2. /\ Used' = Used \cup {r} /\ r \notin Used
      /\ refs'[r] = [holder |-> h, org |-> o, dest |-> d, should |-> should]
      /\ \A s \in Used : refs'[s] = refs[s]
  BY ReferenceCounts
<1>3. refs'[r].org = o /\ refs'[r].dest = d
  BY <1>2
<1> SUFFICES ASSUME NEW S \in SUBSET Actors, Circle(S)' PROVE FALSE
  BY DEF NoCircle
<1>4. o \in S
  <2> SUFFICES ASSUME o \notin S PROVE FALSE
    OBVIOUS
  <2>1. Circle(S) BY <1>2, <1>3 DEF Circle
  <2> QED BY <2>1 DEF NoCircle
<1>5. Circle(S \ R)
  <2>1. o \in S \ R BY <1>1, <1>4
  <2>2. ASSUME NEW a \in S \ R PROVE \E s \in Used : refs[s].org \in S \ R /\ refs[s].dest = a
    <3>1. PICK s \in Used' : refs'[s].org \in S /\ refs'[s].dest = a BY DEF Circle
    <3>2. s # r BY <1>1, <1>3, <3>1
    <3>3. s \in Used /\ refs'[s] = refs[s] BY <1>2, <3>2
    <3> QED BY <1>1, <3>1, <3>3
  <2> QED BY <2>1, <2>2 DEF Circle
<1> QED BY <1>5 DEF NoCircle

LEMMA CircleStep ==
  ASSUME LifecycleInv, NoCircularReference, [Next]_vars
  PROVE  NoCircularReference'
<1> USE DEF flags, single, ids, loop
<1>0. TypeOK /\ PlaceInv /\ CtorInv /\ CountsRight
  BY DanglingCounts DEF LifecycleInv
<1> SUFFICES ASSUME CheckCyclicalRefs PROVE NoCircle'
  <2>1. NoCircularReference' <=> (CheckCyclicalRefs => NoCircle')
    BY DEF NoCircularReference, Circular, NoCircle, Circle
  <2> QED BY <2>1
<1>1. NoCircle BY CircleDef
<1>2. ASSUME UNCHANGED refs PROVE NoCircle'
  BY <1>1, <1>2, CircleKept DEF Used
<1>3. ASSUME NEW o \in Actors, NEW a \in Actors, NEW r \in Refs, ReferenceLocalActor(o, a, r)
      PROVE  NoCircle'
  <2>1. PICK b \in Actors, h \in Holders(o) : ~recursiveFind(o, b) /\ Reference(r, h, o, b, FALSE)
    BY <1>3 DEF ReferenceLocalActor
  <2>2. refs[r] = NoRef BY <1>3 DEF ReferenceLocalActor, Free, Used
  <2> QED BY <1>0, <1>1, <2>1, <2>2, HoldersType, CircleReference
<1>4. ASSUME NEW o \in Actors, NEW r \in Refs, ReferenceSingletonActor(o, r) PROVE NoCircle'
  <2>1. PICK h \in Holders(o) : Reference(r, h, o, singleton, TRUE)
    BY <1>4 DEF ReferenceSingletonActor
  <2>2. refs[r] = NoRef /\ ~recursiveFind(o, singleton) /\ singleton # NoActor
    BY <1>4 DEF ReferenceSingletonActor, Free, Used
  <2>3. singleton \in Actors BY <1>0, <2>2 DEF TypeOK
  <2> QED BY <1>0, <1>1, <2>1, <2>2, <2>3, HoldersType, CircleReference
<1>5. ASSUME NEW s \in Refs, NEW r \in Refs, CopyReference(s, r) PROVE NoCircle'
  <2>1. s \in Used /\ refs[r] = NoRef BY <1>5 DEF CopyReference, Free, Used
  <2>2. PICK h \in Actors \cup {NoActor} : Reference(r, h, refs[s].org, refs[s].dest, refs[s].should)
    BY <1>0, <1>5, <2>1, UsedRecord, HoldersType DEF CopyReference
  <2>3. /\ Used' = Used \cup {r} /\ r \notin Used
        /\ refs'[r].org = refs[s].org /\ refs'[r].dest = refs[s].dest
        /\ \A q \in Used : refs'[q] = refs[q]
    <3>1. /\ refs[s].org \in Actors \cup {NoActor} /\ refs[s].dest \in Actors
          /\ refs[s].should \in BOOLEAN
      BY <1>0, <2>1, UsedRecord
    <3>2. PICK o \in Actors \cup {NoActor}, d \in Actors : o = refs[s].org /\ d = refs[s].dest
      BY <3>1
    <3>3. Reference(r, h, o, d, refs[s].should) BY <2>2, <3>2
    <3>4. /\ Used' = Used \cup {r} /\ r \notin Used
          /\ refs'[r] = [holder |-> h, org |-> o, dest |-> d, should |-> refs[s].should]
          /\ \A q \in Used : refs'[q] = refs[q]
      BY <1>0, <2>1, <3>1, <3>3, ReferenceCounts
    <3> QED BY <3>2, <3>4
  <2> QED BY <1>1, <2>1, <2>3, CircleKept
<1>6. ASSUME NEW r \in Refs, Unreference(r) PROVE NoCircle'
  <2>1. Used' \subseteq Used /\ \A s \in Used' : refs'[s] = refs[s]
    BY <1>0, <1>6 DEF Unreference, Used, TypeOK
  <2> QED BY <1>1, <2>1, CircleKept
<1>7. CASE Constructed
  <2>1. PICK new \in CtorRecords : new = Head(ctors) /\ CtorOK(new)
    BY <1>0, <1>7, Innermost DEF Constructed
  <2>2. CASE UNCHANGED counts BY <1>2, <2>2 DEF counts
  <2>3. CASE /\ new.by # NoActor /\ ~recursiveFind(new.by, new.actor)
             /\ Reference(new.ref, new.holder, new.by, new.actor, TRUE)
    <3>1. /\ new.actor \in Actors /\ new.by \in Actors /\ new.holder \in Actors \cup {NoActor}
          /\ new.ref \in Refs /\ refs[new.ref] = NoRef
      BY <2>1, <2>3 DEF CtorOK, CtorRecords
    <3> QED BY <1>0, <1>1, <2>3, <3>1, CircleReference
  <2> QED BY <1>7, <2>1, <2>2, <2>3 DEF Constructed
<1>8. ASSUME NEW a \in Actors, Destructor(a) PROVE NoCircle'
  <2>1. /\ Used' = Used
        /\ \A r \in Used : /\ refs'[r].dest = refs[r].dest
                           /\ refs'[r].org = IF refs[r].org = a THEN NoActor ELSE refs[r].org
    BY <1>0, <1>8, DestructorReferences
  <2> QED BY <1>1, <2>1, CircleKept
<1>9. CASE ConstructorThrows
  BY <1>0, <1>8, <1>9, Innermost DEF ConstructorThrows
<1>10. CASE DeleteDone
  BY <1>0, <1>8, <1>10 DEF DeleteDone, PlaceInv
<1>11. ASSUME NEW a \in Actors, RequestDestroy(a) PROVE NoCircle'
  BY <1>2, <1>11 DEF RequestDestroy, counts
<1>12. ASSUME NEW a \in Actors, NEW by, NEW holder, NEW r, NEW b, Construct(a, by, holder, r, b)
       PROVE  NoCircle'
  BY <1>2, <1>12 DEF Construct, counts
<1>13. ASSUME NEW a \in Actors, NewUnreferencedActor(a) PROVE NoCircle'
  BY <1>12, <1>13 DEF NewUnreferencedActor
<1>14. ASSUME NEW o \in Actors, NEW a \in Actors, NEW r \in Refs,
              NewReferencedActor(o, a, r) \/ NewReferencedSingletonActor(o, a, r)
       PROVE  NoCircle'
  BY <1>12, <1>14 DEF NewReferencedActor, NewReferencedSingletonActor
<1>15. CASE (LoopStep /\ ~DeleteDone) \/ acceptDestroy \/ Shutdown \/ UNCHANGED vars
  <2>1. UNCHANGED refs
    BY <1>15 DEF LoopStep, BeginDestroy, DestroyReferenced, CallOnDestroyRequest, DeleteActor,
                 KeepActor, DestroyDone, isRunning, acceptDestroy, Shutdown, vars, counts
  <2> QED BY <1>2, <2>1
<1> QED
  BY <1>3, <1>4, <1>5, <1>6, <1>7, <1>9, <1>10, <1>11, <1>13, <1>14, <1>15 DEF Next, UserStep

\* User code does not move the loop.
LEMMA UserPlace == UserStep => pc' = pc
<1> USE DEF loop
<1>1. ASSUME NEW a, NEW by, NEW holder, NEW r, NEW b, Construct(a, by, holder, r, b) PROVE pc' = pc
  BY <1>1 DEF Construct
<1>2. \A a \in Actors : RequestDestroy(a) \/ NewUnreferencedActor(a) => pc' = pc
  BY <1>1 DEF RequestDestroy, NewUnreferencedActor
<1>3. \A o, a \in Actors : \A r \in Refs :
        NewReferencedActor(o, a, r) \/ NewReferencedSingletonActor(o, a, r) => pc' = pc
  BY <1>1 DEF NewReferencedActor, NewReferencedSingletonActor
<1>4. \A o, a \in Actors : \A r \in Refs : ReferenceLocalActor(o, a, r) => pc' = pc
  BY DEF ReferenceLocalActor
<1>5. \A o \in Actors : \A r \in Refs : ReferenceSingletonActor(o, r) => pc' = pc
  BY DEF ReferenceSingletonActor
<1>6. \A s, r \in Refs : CopyReference(s, r) => pc' = pc
  BY DEF CopyReference
<1>7. \A r \in Refs : Unreference(r) => pc' = pc
  BY DEF Unreference
<1>8. Constructed \/ ConstructorThrows \/ acceptDestroy => pc' = pc
  BY DEF Constructed, ConstructorThrows, acceptDestroy
<1> QED BY <1>2, <1>3, <1>4, <1>5, <1>6, <1>7, <1>8 DEF UserStep

-----------------------------------------------------------------------------
(* The invariant                                                           *)

LEMMA LifecycleInit == Init => LifecycleInv /\ IdInv /\ NoCircularReference
<1> SUFFICES ASSUME Init PROVE LifecycleInv /\ IdInv /\ NoCircularReference
  OBVIOUS
<1> USE DEF Init
<1>1. << >> \in Seq(Actors) /\ << >> \in Seq(Nat) /\ << >> \in Seq(CtorRecords) /\ DOMAIN << >> = {}
  BY EmptySeq
<1>2. TypeOK BY <1>1 DEF TypeOK
<1>3. PlaceInv BY DEF PlaceInv
<1>4. ChainInv BY EmptyChain DEF ChainInv, Alive
<1>5. CtorInv BY <1>1 DEF CtorInv
<1>6. NoDangling
  <2>1. Used = {} BY DEF Used
  <2>2. \A a \in Actors : Cardinality(Referrers(a)) = 0
    BY <2>1, ReferrersFinite DEF Referrers
  <2> QED BY <2>1, <2>2 DEF NoDangling, Referrers
<1>7. KeptInv BY DEF KeptInv, Alive
<1>8. IdInv
  <2>1. Born = {} BY DEF Born
  <2> QED BY <2>1, EmptyChain, FS_EmptySet DEF IdInv, Alive
<1>9. NoCircularReference BY CircleDef DEF NoCircle, Circle, Used
<1> QED BY <1>2, <1>3, <1>4, <1>5, <1>6, <1>7, <1>8, <1>9 DEF LifecycleInv

LEMMA LifecycleStep ==
  ASSUME NoThrow, LifecycleInv, IdInv, [Next]_vars
  PROVE  LifecycleInv' /\ IdInv'
<1>0. TypeOK /\ PlaceInv /\ ChainInv /\ CtorInv /\ NoDangling /\ KeptInv
  BY DEF LifecycleInv
<1>1. ChainInv' BY <1>0, ChainStep
<1>2. IdInv' BY IdStep
<1>3. CASE UserStep
  BY <1>0, <1>1, <1>2, <1>3, UserType, PlaceUser, UserCtors, UserDangling, UserKept DEF LifecycleInv
<1>4. CASE LoopStep \/ Shutdown
  BY <1>0, <1>1, <1>2, <1>4, LoopType, PlaceLoop, LoopCtors, LoopDangling, LoopKept DEF LifecycleInv
<1>5. CASE UNCHANGED vars
  <2>1. TypeOK' BY <1>0, <1>5 DEF TypeOK, vars, chains, flags, counts, single, ids, loop
  <2>2. PlaceInv' BY <1>0, <1>5 DEF PlaceInv, UserCode, Alive, vars, chains, flags, counts, single, ids, loop
  <2>3. CtorInv' BY <1>0, <1>5, CtorsUnchanged DEF vars, flags, counts, single, ids, loop
  <2>4. NoDangling' BY <1>0, <1>5, DanglingUnchanged DEF vars, counts, single, Alive
  <2>5. KeptInv' BY <1>0, <1>5, KeptUnchanged DEF vars, chains, flags, counts, loop
  <2> QED BY <1>1, <1>2, <2>1, <2>2, <2>3, <2>4, <2>5 DEF LifecycleInv
<1> QED BY <1>3, <1>4, <1>5 DEF Next

LEMMA LifecycleInvariant ==
  ASSUME NoThrow
  PROVE  Spec => [](LifecycleInv /\ IdInv)
<1>1. Init => LifecycleInv /\ IdInv BY LifecycleInit
<1>2. (LifecycleInv /\ IdInv) /\ [Next]_vars => (LifecycleInv /\ IdInv)' BY LifecycleStep
<1> QED BY <1>1, <1>2, PTL DEF Spec

-----------------------------------------------------------------------------
(* The theorems                                                            *)

\* The variables of a node keep their types; in particular no reference count goes below 0.
THEOREM LifecycleTypeCorrect ==
  ASSUME NoThrow
  PROVE  Spec => []TypeOK
<1>1. LifecycleInv => TypeOK BY DEF LifecycleInv
<1> QED BY <1>1, LifecycleInvariant, PTL

\* Any reference that is not NULL, and the singleton index, name an actor that is alive, and
\* the reference counts that destruction goes by are right.
THEOREM NothingDangles ==
  ASSUME NoThrow
  PROVE  Spec => []NoDangling
<1>1. LifecycleInv => NoDangling BY DEF LifecycleInv
<1> QED BY <1>1, LifecycleInvariant, PTL

\* Each actor that is alive is in one of the chains, once, and its chain pointer does not
\* mislead requestDestroy() and ~Actor(), whatever user code does in onDestroyRequest().
THEOREM ChainsAlwaysAgree ==
  ASSUME NoThrow
  PROVE  Spec => []ChainsAgree
<1>1. ASSUME LifecycleInv PROVE ChainsAgree
  <2> DEFINE both == asyncActorChain \o destroyedActorChain
             all  == asyncActorChain \o destroyedActorChain \o tmp
  <2>1. /\ asyncActorChain \in Seq(Actors) /\ destroyedActorChain \in Seq(Actors) /\ tmp \in Seq(Actors)
        /\ ChainInv
    BY <1>1 DEF LifecycleInv, TypeOK
  <2>2. /\ \A b : InChain(asyncActorChain, b) => b \in Actors
        /\ \A b : InChain(destroyedActorChain, b) => b \in Actors
    BY <2>1, ChainItems
  <2>3. /\ \A b : ~(InChain(asyncActorChain, b) /\ InChain(destroyedActorChain, b))
        /\ \A b : ~((InChain(asyncActorChain, b) \/ InChain(destroyedActorChain, b)) /\ InChain(tmp, b))
    BY <2>1, <2>2 DEF ChainInv
  <2>4. /\ both \in Seq(Actors) /\ IsInjective(both)
        /\ \A b : InChain(both, b) <=> InChain(asyncActorChain, b) \/ InChain(destroyedActorChain, b)
    BY <2>1, <2>3, ConcatChain DEF ChainInv
  <2>5. all = both \o tmp OBVIOUS
  <2> HIDE DEF both, all
  <2>6. /\ IsInjective(all)
        /\ \A b : InChain(all, b) <=> InChain(both, b) \/ InChain(tmp, b)
    BY <2>1, <2>3, <2>4, <2>5, ConcatChain DEF ChainInv
  <2>7. \A i, j \in DOMAIN all : all[i] = all[j] => i = j
    BY <2>6 DEF IsInjective
  <2>8. \A a \in Actors : InChain(all, a) <=> Alive(a) /\ ~(pc = "delete" /\ current = a)
    BY <2>1, <2>4, <2>6 DEF ChainInv
  <2>9. \A a \in Actors :
          /\ InChain(asyncActorChain, a) <=> Alive(a) /\ chain[a] = "asyncActorChain"
          /\ InChain(destroyedActorChain, a) => chain[a] = "destroyedActorChain"
          /\ chain[a] = "tmp" => pc = "onDestroyRequest" /\ a = current /\ a = Head(tmp)
    BY <2>1 DEF ChainInv
  <2> QED BY <2>7, <2>8, <2>9 DEF ChainsAgree, all
<1> QED BY <1>1, LifecycleInvariant, PTL

\* A request for destruction, also one made while the actor was referenced or was deciding,
\* leads the event loop to the actor once no reference is left.
THEOREM RequestsAreKept ==
  ASSUME NoThrow
  PROVE  Spec => []RequestKept
<1>1. LifecycleInv => RequestKept BY KeptIsKept DEF LifecycleInv
<1> QED BY <1>1, LifecycleInvariant, PTL

\* An actor-id leads to its actor while that is alive, and to no other actor ever, though
\* event tables are used again.
THEOREM IdsAlwaysLeadHome ==
  ASSUME NoThrow
  PROVE  Spec => []IdsLeadHome
<1>1. LifecycleInv /\ IdInv => IdsLeadHome BY IdsAreHome DEF LifecycleInv
<1> QED BY <1>1, LifecycleInvariant, PTL

\* Where the build looks for circles of references, there are none: what ReferenceLocalActor,
\* ReferenceSingletonActor and newReferencedActor() look at is enough.
THEOREM NeverCircular ==
  ASSUME NoThrow
  PROVE  Spec => []NoCircularReference
<1>1. Init => NoCircularReference BY LifecycleInit
<1>2. LifecycleInv /\ NoCircularReference /\ [Next]_vars => NoCircularReference' BY CircleStep
<1> QED BY <1>1, <1>2, LifecycleInvariant, PTL DEF Spec

\* The asserts of ~Actor(): an actor dies without references to it, and in the chain that it
\* belongs to at that time.
THEOREM DestructorsAssert ==
  ASSUME NoThrow
  PROVE  Spec => DestructorAsserts
<1>1. ASSUME LifecycleInv, [Next]_vars, NEW a \in Actors, Alive(a), life'[a] = "dead"
      PROVE  /\ m_ReferenceFromCount[a] = 0
             /\ \/ chain[a] = "asyncActorChain" /\ ~m_DestroyRequestedFlag[a]
                \/ chain[a] = "destroyedActorChain" /\ m_DestroyRequestedFlag[a]
  <2>0. TypeOK /\ PlaceInv /\ ChainInv /\ CtorInv BY <1>1 DEF LifecycleInv
  <2>1. CASE DeleteDone
    <3>1. a = current BY <1>1, <2>0, <2>1 DEF DeleteDone, Destructor, TypeOK, Alive
    <3> QED BY <2>0, <2>1, <3>1 DEF DeleteDone, PlaceInv, ChainInv
  <2>2. CASE ConstructorThrows
    <3>1. /\ ctors # << >> /\ Destructor(Head(ctors).actor)
          /\ m_ReferenceFromCount[Head(ctors).actor] = 0
          /\ chain[Head(ctors).actor] = "asyncActorChain"
      BY <2>2 DEF ConstructorThrows, NoThrow
    <3>2. a = Head(ctors).actor BY <1>1, <2>0, <3>1 DEF Destructor, TypeOK, Alive
    <3> QED BY <2>0, <3>1, <3>2, Innermost DEF CtorOK
  <2>3. ASSUME NEW b, life' = [life EXCEPT ![b] = "alive"] PROVE FALSE
    BY <1>1, <2>0, <2>3 DEF TypeOK, Alive
  <2>4. ASSUME NEW b, NEW by, NEW holder, NEW r, NEW s, Construct(b, by, holder, r, s) PROVE FALSE
    BY <2>3, <2>4 DEF Construct
  <2>5. life' # life BY <1>1 DEF Alive
  <2>6. ~(LoopStep /\ ~DeleteDone) /\ ~Constructed /\ ~acceptDestroy /\ ~Shutdown /\ ~UNCHANGED vars
    BY <2>5 DEF LoopStep, BeginDestroy, DestroyReferenced, CallOnDestroyRequest, DeleteActor,
                KeepActor, DestroyDone, isRunning, Constructed, acceptDestroy, Shutdown, vars
  <2>7. /\ \A b \in Actors : ~RequestDestroy(b)
        /\ \A o, b \in Actors : \A r \in Refs : ~ReferenceLocalActor(o, b, r)
        /\ \A o \in Actors : \A r \in Refs : ~ReferenceSingletonActor(o, r)
        /\ \A s, r \in Refs : ~CopyReference(s, r)
        /\ \A r \in Refs : ~Unreference(r)
    BY <2>5 DEF RequestDestroy, ReferenceLocalActor, ReferenceSingletonActor, CopyReference, Unreference
  <2>8. /\ \A b \in Actors : ~NewUnreferencedActor(b)
        /\ \A o, b \in Actors : \A r \in Refs :
             ~NewReferencedActor(o, b, r) /\ ~NewReferencedSingletonActor(o, b, r)
    BY <2>4 DEF NewUnreferencedActor, NewReferencedActor, NewReferencedSingletonActor
  <2> QED BY <1>1, <2>1, <2>2, <2>6, <2>7, <2>8 DEF Next, UserStep
<1>2. LifecycleInv /\ [Next]_vars =>
        [\A a \in Actors :
           Alive(a) /\ life'[a] = "dead" =>
             /\ m_ReferenceFromCount[a] = 0
             /\ \/ chain[a] = "asyncActorChain" /\ ~m_DestroyRequestedFlag[a]
                \/ chain[a] = "destroyedActorChain" /\ m_DestroyRequestedFlag[a]]_vars
  BY <1>1
<1> QED BY <1>2, LifecycleInvariant, PTL DEF Spec, DestructorAsserts

EndedEmpty == pc = "ended" => \A a \in Actors : ~Alive(a)

\* The event loop of a node does not come to its end before all of its actors are destroyed.
THEOREM NodesEndEmpty ==
  ASSUME NoThrow
  PROVE  Spec => []EndedEmpty
<1>1. Init => EndedEmpty BY DEF Init, EndedEmpty
<1>2. ASSUME LifecycleInv, EndedEmpty, [Next]_vars PROVE EndedEmpty'
  <2>0. TypeOK /\ PlaceInv /\ ChainInv BY <1>2 DEF LifecycleInv
  <2> SUFFICES ASSUME pc' = "ended", NEW a \in Actors, Alive(a)' PROVE FALSE
    BY DEF EndedEmpty
  <2>1. CASE pc = "ended"
    <3>1. ~Alive(a) BY <1>2, <2>1 DEF EndedEmpty
    <3>2. ctors = << >> BY <2>0, <2>1 DEF PlaceInv, UserCode
    <3>3. life' = life
      BY <1>2, <2>1, <3>2
      DEF Next, LoopStep, UserStep, BeginDestroy, DestroyReferenced, CallOnDestroyRequest, DeleteActor,
          KeepActor, DeleteDone, DestroyDone, isRunning, Shutdown, vars, UserCode, MayReference,
          RequestDestroy, NewUnreferencedActor, NewReferencedActor, NewReferencedSingletonActor,
          Construct, ReferenceLocalActor, ReferenceSingletonActor, CopyReference, Unreference,
          Constructed, ConstructorThrows, acceptDestroy
    <3> QED BY <3>1, <3>3 DEF Alive
  <2>2. CASE pc # "ended"
    <3>1. isRunning
      <4>1. pc' # pc BY <2>2
      <4>2. ~UserStep BY <4>1, UserPlace
      <4>3. ~Shutdown /\ ~UNCHANGED vars BY <4>1 DEF Shutdown, vars, loop
      <4>4. LoopStep BY <1>2, <4>2, <4>3 DEF Next
      <4> QED
        BY <4>1, <4>4 DEF LoopStep, BeginDestroy, DestroyReferenced, CallOnDestroyRequest,
                          DeleteActor, KeepActor, DeleteDone, DestroyDone, loop
    <3>2. /\ pc = "isRunning" /\ asyncActorChain = << >> /\ destroyedActorChain = << >>
          /\ tmp = << >> /\ life' = life
      BY <2>0, <3>1 DEF isRunning, PlaceInv
    <3>3. Alive(a) BY <3>2 DEF Alive
    <3> QED BY <2>0, <3>2, <3>3, EmptyChain DEF ChainInv
  <2> QED BY <2>1, <2>2
<1> QED BY <1>1, <1>2, LifecycleInvariant, PTL DEF Spec
=============================================================================
