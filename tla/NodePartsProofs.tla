--------------------------- MODULE NodePartsProofs ---------------------------
(***************************************************************************)
(* What the parts of a node keep to, each for itself: the handshake by     *)
(* which its thread starts, the callbacks and the handlers of its actors,  *)
(* the memory of its events, its timers, the memory of its actors.         *)
(***************************************************************************)
EXTENDS ThreadStart, Callbacks, HandlerTable, EventPages, Timer, NodeAllocator, ChainProofs, FiniteSetTheorems

-----------------------------------------------------------------------------
(* ThreadStart: nobody is left behind, whatever may fail.                  *)

\* What each side knows of the other: the thread has its flag up exactly while it spins
\* or leaves, it leaves only after it saw the creator's flag, and the creator is only
\* past its constructor when the thread has told how setting up went.
StartInv ==
  /\ creator \in {"new", "constructing", "threw", "building", "giving", "given", "destroying", "joining", "gone"}
  /\ inThread \in {"none", "setUp", "spinning", "leaving", "left", "ran", "ended"}
  /\ inThreadFlag \in BOOLEAN /\ runFlag \in BOOLEAN
  /\ inThreadExceptionFlag \in BOOLEAN /\ theNode \in BOOLEAN
  /\ creator = "new" <=> inThread = "none"
  /\ inThread = "setUp" => creator = "constructing"
  /\ inThreadFlag <=> inThread \in {"spinning", "leaving"}
  /\ inThreadExceptionFlag => inThread = "ended" /\ creator \in {"constructing", "threw"}
  /\ creator = "threw" => inThreadExceptionFlag
  /\ runFlag => creator \in {"destroying", "joining", "gone"}
  /\ creator \in {"joining", "gone"} => runFlag
  /\ theNode => creator \in {"given", "destroying", "joining", "gone"}
  /\ inThread \in {"leaving", "left", "ran", "ended"} => runFlag \/ inThreadExceptionFlag
  /\ inThread = "ended" => ~theNode
  /\ creator = "gone" => inThread \in {"left", "ran", "ended"}

\* Initially there is neither a thread nor a flag that is set.
LEMMA StartInvInit == StartInit => StartInv
BY DEF StartInit, StartInv

\* No step of the creator disturbs what the two know of each other.
LEMMA CreatorKeeps ==
  ASSUME StartInv, threadCreate \/ Constructed \/ BuildNode \/ run \/ Destroy
  PROVE  StartInv'
<1>1. CASE threadCreate BY <1>1 DEF StartInv, threadCreate
<1>2. CASE Constructed BY <1>2 DEF StartInv, Constructed
<1>3. CASE BuildNode BY <1>3 DEF StartInv, BuildNode
<1>4. CASE run
  <2>1. CASE creator = "giving" /\ theNode' = TRUE /\ creator' = "given"
             /\ UNCHANGED <<inThread, inThreadFlag, runFlag, inThreadExceptionFlag>>
    BY <2>1 DEF StartInv
  <2>2. CASE creator = "given" /\ runFlag' = TRUE /\ creator' = "destroying"
             /\ UNCHANGED <<inThread, inThreadFlag, inThreadExceptionFlag, theNode>>
    BY <2>2 DEF StartInv
  <2>3. QED BY ONLY <1>4, <2>1, <2>2 DEF run
<1>5. CASE Destroy
  <2>1. CASE creator = "destroying" /\ runFlag' = TRUE /\ creator' = "joining"
             /\ UNCHANGED <<inThread, inThreadFlag, inThreadExceptionFlag, theNode>>
    BY <2>1 DEF StartInv
  <2>2. CASE creator = "joining" /\ ~inThreadFlag /\ creator' = "gone"
             /\ UNCHANGED <<inThread, inThreadFlag, runFlag, inThreadExceptionFlag, theNode>>
    BY <2>2 DEF StartInv
  <2>3. QED BY ONLY <1>5, <2>1, <2>2 DEF Destroy
<1>6. QED BY <1>1, <1>2, <1>3, <1>4, <1>5

\* Nor does a step of the thread.
LEMMA ThreadKeeps ==
  ASSUME StartInv, SetUp \/ SeeRunFlag \/ ClearInThreadFlag \/ RunNode
  PROVE  StartInv'
<1>1. CASE SetUp
  <2>1. CASE inThread = "setUp" /\ inThreadFlag' = TRUE /\ inThread' = "spinning"
             /\ UNCHANGED <<inThreadExceptionFlag, creator, runFlag, theNode>>
    BY <2>1 DEF StartInv
  <2>2. CASE inThread = "setUp" /\ inThreadExceptionFlag' = TRUE /\ inThread' = "ended"
             /\ UNCHANGED <<inThreadFlag, creator, runFlag, theNode>>
    BY <2>2 DEF StartInv
  <2>3. QED BY ONLY <1>1, <2>1, <2>2 DEF SetUp
<1>2. CASE SeeRunFlag BY <1>2 DEF StartInv, SeeRunFlag
<1>3. CASE ClearInThreadFlag BY <1>3 DEF StartInv, ClearInThreadFlag
<1>4. CASE RunNode BY <1>4 DEF StartInv, RunNode
<1>5. QED BY <1>1, <1>2, <1>3, <1>4

\* The invariant of the handshake of Thread(), run(), ~Thread() and inThread()
THEOREM StartInvariant == StartSpec => []StartInv
<1>1. StartInv /\ [StartNext]_startVars => StartInv'
  <2> SUFFICES ASSUME StartInv, [StartNext]_startVars PROVE StartInv'
    OBVIOUS
  <2>1. CASE StartNext BY <2>1, CreatorKeeps, ThreadKeeps DEF StartNext
  <2>2. CASE UNCHANGED startVars BY <2>2 DEF startVars, StartInv
  <2>3. QED BY <2>1, <2>2
<1>2. QED BY StartInvInit, <1>1, PTL DEF StartSpec

\* The thread never uses an object that is gone, neither side waits for a flag that nobody
\* will set, and the node that was given is run: for every way in which setting up the
\* thread or building the node may fail.
THEOREM StartLeavesNobodyBehind == StartSpec => []NobodyLeftBehind
<1>1. StartInv => NobodyLeftBehind
  BY DEF StartInv, NobodyLeftBehind
<1>2. QED BY StartInvariant, <1>1, PTL

-----------------------------------------------------------------------------
(* Callbacks.                                                              *)

\* Chains of callbacks, and the place that each knows of.
CallbackTypeOK ==
  /\ callbackChain \in [Kinds -> Seq(CallbackObjects)] /\ tmp \in Seq(CallbackObjects)
  /\ phase \in {"idle", "neutral", "regular"}
  /\ chain \in [CallbackObjects -> Kinds \cup {"tmp", "0"}]
  /\ recent \subseteq CallbackObjects

\* It is inductive together with the places.
CallbackInv == CallbackTypeOK /\ CallbacksInOnePlace

\* Sets of items are those in chains.
LEMMA SetOf ==
  ASSUME NEW s, NEW b
  PROVE  b \in ToSet(s) <=> InChain(s, b)
BY DEF ToSet, InChain

\* What the properties say of where callbacks are
LEMMA Places3 ==
  CallbacksInOnePlace <=>
    /\ \A b \in CallbackObjects :
         /\ \A k \in Kinds : chain[b] = k <=> InChain(callbackChain[k], b)
         /\ chain[b] = "tmp" <=> InChain(tmp, b)
         /\ chain[b] \in Kinds => b \in recent
         /\ chain[b] = "tmp" => b \notin recent
    /\ \A k \in Kinds : IsInjective(callbackChain[k])
    /\ IsInjective(tmp)
    /\ phase = "idle" => tmp = << >>
BY SetOf DEF CallbacksInOnePlace

\* Before the first callback is registered all chains are empty.
LEMMA CallbackInvInit == CallbackInit => CallbackInv
<1> SUFFICES ASSUME CallbackInit PROVE CallbackInv
  OBVIOUS
<1>1. << >> \in Seq(CallbackObjects) /\ IsInjective(<< >>) /\ \A b : ~InChain(<< >>, b)
  BY EmptyChain
<1> QED BY <1>1, Places3 DEF CallbackInit, CallbackInv, CallbackTypeOK, Kinds

\* A callback is taken out of the chain that it knows of.
LEMMA TakenOut ==
  ASSUME CallbackInv, NEW b \in CallbackObjects
  PROVE  /\ Unchained(b) \in [Kinds -> Seq(CallbackObjects)]
         /\ \A k \in Kinds :
              /\ IsInjective(Unchained(b)[k])
              /\ \A x : InChain(Unchained(b)[k], x) <=> InChain(callbackChain[k], x) /\ x # b
         /\ LET t == IF chain[b] = "tmp" THEN Without(tmp, b) ELSE tmp
            IN /\ t \in Seq(CallbackObjects) /\ IsInjective(t)
               /\ \A x : InChain(t, x) <=> InChain(tmp, x) /\ x # b
               /\ tmp = << >> => t = << >>
<1>1. CallbackTypeOK
  BY DEF CallbackInv
<1>2. /\ \A k \in Kinds : /\ chain[b] = k <=> InChain(callbackChain[k], b)
                          /\ IsInjective(callbackChain[k])
      /\ chain[b] = "tmp" <=> InChain(tmp, b)
      /\ IsInjective(tmp)
  BY Places3 DEF CallbackInv
<1>3. ASSUME NEW k \in Kinds
      PROVE  /\ Unchained(b)[k] \in Seq(CallbackObjects) /\ IsInjective(Unchained(b)[k])
             /\ \A x : InChain(Unchained(b)[k], x) <=> InChain(callbackChain[k], x) /\ x # b
  <2>1. callbackChain[k] \in Seq(CallbackObjects)
    BY <1>1 DEF CallbackTypeOK
  <2>2. Unchained(b)[k] = IF chain[b] = k THEN Without(callbackChain[k], b) ELSE callbackChain[k]
    BY DEF Unchained
  <2>3. CASE chain[b] = k
    BY <1>2, <2>1, <2>2, <2>3, WithoutChain
  <2>4. CASE chain[b] # k
    BY <1>2, <2>1, <2>2, <2>4
  <2> QED BY <2>3, <2>4
<1>4. Unchained(b) \in [Kinds -> Seq(CallbackObjects)]
  BY <1>3 DEF Unchained
<1>5. /\ Without(tmp, b) \in Seq(CallbackObjects) /\ IsInjective(Without(tmp, b))
      /\ \A x : InChain(Without(tmp, b), x) <=> InChain(tmp, x) /\ x # b
  BY <1>1, <1>2, WithoutChain DEF CallbackTypeOK
<1>6. tmp = << >> => chain[b] # "tmp"
  BY <1>2, EmptyChain
<1> QED BY <1>1, <1>2, <1>3, <1>4, <1>5, <1>6 DEF CallbackTypeOK

\* Registering takes a callback from where it was, and puts it at the end of a chain.
LEMMA RegisterKeeps ==
  ASSUME CallbackInv, NEW b \in CallbackObjects, NEW t \in EventTables, NEW k \in Kinds,
         registerCallback(b, t, k)
  PROVE  CallbackInv'
<1> DEFINE u == Unchained(b)
<1>1. /\ u \in [Kinds -> Seq(CallbackObjects)]
      /\ \A j \in Kinds :
           /\ IsInjective(u[j])
           /\ \A x : InChain(u[j], x) <=> InChain(callbackChain[j], x) /\ x # b
      /\ tmp' \in Seq(CallbackObjects) /\ IsInjective(tmp')
      /\ \A x : InChain(tmp', x) <=> InChain(tmp, x) /\ x # b
      /\ tmp = << >> => tmp' = << >>
  BY TakenOut DEF registerCallback
<1>2. /\ callbackChain' = [u EXCEPT ![k] = Append(@, b)]
      /\ chain' = [chain EXCEPT ![b] = k] /\ recent' = recent \cup {b} /\ phase' = phase
  BY DEF registerCallback
<1> HIDE DEF u
<1>3. /\ Append(u[k], b) \in Seq(CallbackObjects) /\ IsInjective(Append(u[k], b))
      /\ \A x : InChain(Append(u[k], b), x) <=> InChain(u[k], x) \/ x = b
  BY <1>1, AppendChain
<1>4. callbackChain' \in [Kinds -> Seq(CallbackObjects)]
  BY <1>1, <1>2, <1>3
<1>5. ASSUME NEW j \in Kinds
      PROVE  /\ IsInjective(callbackChain'[j])
             /\ \A x \in CallbackObjects : chain'[x] = j <=> InChain(callbackChain'[j], x)
  <2>0. \A x \in CallbackObjects : chain[x] = j <=> InChain(callbackChain[j], x)
    BY Places3 DEF CallbackInv
  <2>1. \A x \in CallbackObjects : chain'[x] = IF x = b THEN k ELSE chain[x]
    BY <1>2 DEF CallbackInv, CallbackTypeOK
  <2>2. CASE j = k
    <3>1. callbackChain'[j] = Append(u[k], b)
      BY <1>1, <1>2, <2>2
    <3> QED BY <1>1, <1>3, <2>0, <2>1, <2>2, <3>1
  <2>3. CASE j # k
    <3>1. callbackChain'[j] = u[j]
      BY <1>1, <1>2, <2>3
    <3> QED BY <1>1, <2>0, <2>1, <2>3, <3>1
  <2> QED BY <2>2, <2>3
<1>6. CallbackTypeOK'
  BY <1>1, <1>2, <1>4 DEF CallbackInv, CallbackTypeOK
<1>7. ASSUME NEW x \in CallbackObjects
      PROVE  /\ chain'[x] = "tmp" <=> InChain(tmp', x)
             /\ chain'[x] \in Kinds => x \in recent'
             /\ chain'[x] = "tmp" => x \notin recent'
  <2>1. chain'[x] = IF x = b THEN k ELSE chain[x]
    BY <1>2 DEF CallbackInv, CallbackTypeOK
  <2>2. k # "tmp"
    BY DEF Kinds
  <2> QED BY <1>1, <1>2, <2>1, <2>2, Places3 DEF CallbackInv
<1>8. CallbacksInOnePlace'
  <2>1. phase' = "idle" => tmp' = << >>
    BY <1>1, <1>2, Places3 DEF CallbackInv
  <2> QED BY <1>1, <1>5, <1>7, <2>1, SetOf DEF CallbacksInOnePlace
<1> QED BY <1>6, <1>8 DEF CallbackInv

\* Unregistering takes it from where it was, be it the chain that is being called.
LEMMA UnregisterKeeps ==
  ASSUME CallbackInv, NEW b \in CallbackObjects, unregister(b)
  PROVE  CallbackInv'
<1>1. /\ callbackChain' \in [Kinds -> Seq(CallbackObjects)]
      /\ \A j \in Kinds :
           /\ IsInjective(callbackChain'[j])
           /\ \A x : InChain(callbackChain'[j], x) <=> InChain(callbackChain[j], x) /\ x # b
      /\ tmp' \in Seq(CallbackObjects) /\ IsInjective(tmp')
      /\ \A x : InChain(tmp', x) <=> InChain(tmp, x) /\ x # b
      /\ tmp = << >> => tmp' = << >>
  BY TakenOut DEF unregister
<1>2. chain' = [chain EXCEPT ![b] = "0"] /\ recent' = recent /\ phase' = phase
  BY DEF unregister
<1>3. CallbackTypeOK'
  BY <1>1, <1>2 DEF CallbackInv, CallbackTypeOK
<1>4. ASSUME NEW x \in CallbackObjects
      PROVE  /\ \A k \in Kinds : chain'[x] = k <=> InChain(callbackChain'[k], x)
             /\ chain'[x] = "tmp" <=> InChain(tmp', x)
             /\ chain'[x] \in Kinds => x \in recent'
             /\ chain'[x] = "tmp" => x \notin recent'
  <2>1. chain'[x] = IF x = b THEN "0" ELSE chain[x]
    BY <1>2 DEF CallbackInv, CallbackTypeOK
  <2>2. "0" \notin Kinds
    BY DEF Kinds
  <2> QED BY <1>1, <1>2, <2>1, <2>2, Places3 DEF CallbackInv
<1>5. CallbacksInOnePlace'
  <2>1. phase' = "idle" => tmp' = << >>
    BY <1>1, <1>2, Places3 DEF CallbackInv
  <2> QED BY <1>1, <1>4, <2>1, SetOf DEF CallbacksInOnePlace
<1> QED BY <1>3, <1>5 DEF CallbackInv

\* A whole chain is taken, and is empty while its callbacks are called.
LEMMA TakeKeeps ==
  ASSUME CallbackInv, NEW k \in Kinds, Take(k), tmp = << >>, phase' \in {"neutral", "regular"}
  PROVE  CallbackInv'
<1>1. /\ tmp' = callbackChain[k]
      /\ callbackChain' = [callbackChain EXCEPT ![k] = << >>]
      /\ \A b \in CallbackObjects :
           /\ chain'[b] = IF InChain(callbackChain[k], b) THEN "tmp" ELSE chain[b]
           /\ b \in recent' <=> b \in recent /\ ~InChain(callbackChain[k], b)
      /\ recent' \subseteq recent
  BY SetOf DEF Take
<1>2. CallbackTypeOK
  BY DEF CallbackInv
<1>3. << >> \in Seq(CallbackObjects) /\ IsInjective(<< >>) /\ \A b : ~InChain(<< >>, b)
  BY EmptyChain
<1>4. CallbackTypeOK'
  <2>1. DOMAIN chain' = CallbackObjects /\ chain' = [b \in CallbackObjects |-> chain'[b]]
    BY DEF Take
  <2>2. \A b \in CallbackObjects : chain'[b] \in Kinds \cup {"tmp", "0"}
    BY <1>1, <1>2 DEF CallbackTypeOK
  <2>3. chain' \in [CallbackObjects -> Kinds \cup {"tmp", "0"}]
    BY <2>1, <2>2
  <2> QED BY <1>1, <1>2, <1>3, <2>3 DEF CallbackTypeOK
<1>5. ASSUME NEW j \in Kinds
      PROVE  /\ IsInjective(callbackChain'[j])
             /\ \A x : InChain(callbackChain'[j], x) <=> j # k /\ InChain(callbackChain[j], x)
  <2>1. callbackChain'[j] = IF j = k THEN << >> ELSE callbackChain[j]
    BY <1>1, <1>2 DEF CallbackTypeOK
  <2> QED BY <1>3, <2>1, Places3 DEF CallbackInv
<1>6. ASSUME NEW x \in CallbackObjects
      PROVE  /\ \A j \in Kinds : chain'[x] = j <=> InChain(callbackChain'[j], x)
             /\ chain'[x] = "tmp" <=> InChain(tmp', x)
             /\ chain'[x] \in Kinds => x \in recent'
             /\ chain'[x] = "tmp" => x \notin recent'
  <2>1. /\ \A j \in Kinds : chain[x] = j <=> InChain(callbackChain[j], x)
        /\ chain[x] # "tmp"
        /\ chain[x] \in Kinds => x \in recent
    BY <1>3, Places3 DEF CallbackInv
  <2>2. "tmp" \notin Kinds
    BY DEF Kinds
  <2> QED BY <1>1, <1>5, <2>1, <2>2
<1>7. IsInjective(tmp')
  BY <1>1, Places3 DEF CallbackInv
<1> QED BY <1>4, <1>5, <1>6, <1>7, SetOf DEF CallbackInv, CallbacksInOnePlace

\* The first of the chain that was taken is called, and is in no chain then.
LEMMA CallKeeps ==
  ASSUME CallbackInv, callNext
  PROVE  CallbackInv'
<1> DEFINE h == Head(tmp)
<1>1. tmp # << >> /\ tmp \in Seq(CallbackObjects) /\ IsInjective(tmp)
  BY Places3 DEF callNext, CallbackInv, CallbackTypeOK
<1>2. /\ h \in CallbackObjects /\ InChain(tmp, h) /\ tmp' \in Seq(CallbackObjects)
      /\ IsInjective(tmp')
      /\ \A x : InChain(tmp', x) <=> InChain(tmp, x) /\ x # h
  BY <1>1, HeadChain DEF callNext
<1>3. /\ \A x \in CallbackObjects : chain'[x] = IF x = h THEN "0" ELSE chain[x]
      /\ callbackChain' = callbackChain /\ recent' = recent /\ phase' = phase
  BY DEF callNext, CallbackInv, CallbackTypeOK
<1>4. CallbackTypeOK'
  BY <1>2 DEF callNext, CallbackInv, CallbackTypeOK
<1>5. phase' # "idle"
  BY <1>1, <1>3, Places3 DEF CallbackInv
<1>6. ASSUME NEW x \in CallbackObjects
      PROVE  /\ \A j \in Kinds : chain'[x] = j <=> InChain(callbackChain'[j], x)
             /\ chain'[x] = "tmp" <=> InChain(tmp', x)
             /\ chain'[x] \in Kinds => x \in recent'
             /\ chain'[x] = "tmp" => x \notin recent'
  <2>1. /\ \A j \in Kinds : chain[x] = j <=> InChain(callbackChain[j], x)
        /\ chain[x] = "tmp" <=> InChain(tmp, x)
        /\ chain[x] \in Kinds => x \in recent
        /\ chain[x] = "tmp" => x \notin recent
    BY Places3 DEF CallbackInv
  <2>2. "0" \notin Kinds /\ "tmp" \notin Kinds
    BY DEF Kinds
  <2> QED BY <1>2, <1>3, <2>1, <2>2
<1> QED BY <1>2, <1>3, <1>4, <1>5, <1>6, Places3, SetOf DEF CallbackInv, CallbacksInOnePlace

\* The steps are these, and those that begin and end a round.
LEMMA CallbackKeeps == CallbackInv /\ [CallbackNext]_callbackVars => CallbackInv'
<1> SUFFICES ASSUME CallbackInv, [CallbackNext]_callbackVars PROVE CallbackInv'
  OBVIOUS
<1>1. CASE \E b \in CallbackObjects :
             unregister(b) \/ \E t \in EventTables, k \in Kinds : registerCallback(b, t, k)
  BY <1>1, UnregisterKeeps, RegisterKeeps
<1>2. CASE BeginIteration \/ TakeRegular
  <2>1. \E k \in Kinds : Take(k)
    BY <1>2 DEF BeginIteration, TakeRegular, Kinds
  <2>2. tmp = << >> /\ phase' \in {"neutral", "regular"}
    BY <1>2, Places3 DEF BeginIteration, TakeRegular, CallbackInv
  <2> QED BY <2>1, <2>2, TakeKeeps
<1>3. CASE callNext
  BY <1>3, CallKeeps
<1>4. CASE EndIteration
  BY <1>4 DEF EndIteration, CallbackInv, CallbackTypeOK, CallbacksInOnePlace
<1>5. CASE (\E t \in EventTables : newActor(t) \/ deleteActor(t)) \/ UNCHANGED callbackVars
  BY <1>5 DEF newActor, deleteActor, callbackVars, CallbackInv, CallbackTypeOK, CallbacksInOnePlace
<1> QED BY <1>1, <1>2, <1>3, <1>4, <1>5 DEF CallbackNext

\* A callback is where it believes to be, whatever the callbacks of a round register,
\* unregister and call, and for any number of callbacks, tables and actors: what is
\* unregistered is not called, what is registered waits for one iteration at most
\* (Actor::Callback, synchronizeAsyncActorCallbacks).
THEOREM CallbacksStayInOnePlace == CallbackSpec => []CallbacksInOnePlace
<1>1. CallbackInv => CallbacksInOnePlace
  BY DEF CallbackInv
<1> QED BY <1>1, CallbackInvInit, CallbackKeeps, PTL DEF CallbackSpec

\* Sequences with the same positions are of the same length.
LEMMA LenDomain ==
  ASSUME NEW m \in Nat, NEW n \in Nat, 1 .. m = 1 .. n
  PROVE  m = n
<1>1. CASE m < n
  <2>1. n \in 1 .. n /\ n \notin 1 .. m BY <1>1
  <2> QED BY <2>1
<1>2. CASE n < m
  <2>1. m \in 1 .. m /\ m \notin 1 .. n BY <1>2
  <2> QED BY <2>1
<1> QED BY <1>1, <1>2

\* A function on the first numbers is a sequence.
LEMMA FunctionIsChain ==
  ASSUME NEW S, NEW n \in Nat, NEW f \in [1 .. n -> S]
  PROVE  f \in Seq(S) /\ Len(f) = n
<1>1. f \in Seq(S)
  BY SeqDef
<1>2. Len(f) \in Nat /\ DOMAIN f = 1 .. Len(f)
  BY <1>1, LenProperties
<1> QED BY <1>1, <1>2, LenDomain

-----------------------------------------------------------------------------
(* Handlers: arrays of entries.                                            *)

Entries == [eventId : EventIds \cup {NoEventId}, eventHandler : Handlers \cup {NoHandler}]

\* No event has two entries in an array of low priority ...
OneEach(array) == \A e \in EventIds : \A i, j \in Places(array, e) : i = j

\* ... and f is what the array holds.
Holding(array, f) == OneEach(array) /\ \A e \in EventIds : HandlerIn(array, e) = f[e]

\* Min takes the least of a set of places.
LEMMA LeastPlace ==
  ASSUME NEW T, T \subseteq Nat, T # {}
  PROVE  Min(T) \in T
<1>1. \E n \in T : \A k \in T : n <= k
  BY LeastNat
<1> QED BY <1>1 DEF Min

\* What a call finds in an array: the one entry of the event, or none.
LEMMA HandlerAt ==
  ASSUME NEW array \in Seq(Entries), OneEach(array), NEW e \in EventIds
  PROVE  /\ Places(array, e) = {} => HandlerIn(array, e) = NoHandler
         /\ \A i \in Places(array, e) : /\ HandlerIn(array, e) = array[i].eventHandler
                                        /\ Min(Places(array, e)) = i
                                        /\ Places(array, e) = {i}
         /\ isRegisteredLowPriorityEventHandler(array, e) <=> HandlerIn(array, e) # NoHandler
         /\ HandlerIn(array, e) \in Handlers \cup {NoHandler}
<1>1. ASSUME NEW i \in Places(array, e)
      PROVE  /\ HandlerIn(array, e) = array[i].eventHandler /\ Min(Places(array, e)) = i
             /\ Places(array, e) = {i} /\ array[i] \in Entries
  <2>1. DOMAIN array = 1 .. Len(array) /\ Len(array) \in Nat
    BY LenProperties
  <2>2. Places(array, e) \subseteq Nat /\ i \in DOMAIN array
    BY <2>1 DEF Places
  <2>3. Min(Places(array, e)) = i
    BY <2>2, LeastPlace DEF OneEach
  <2>4. Places(array, e) = {i}
    BY DEF OneEach
  <2>5. array[i] \in Entries
    BY <2>1, <2>2, ElementOfSeq
  <2> QED BY <2>3, <2>4, <2>5 DEF HandlerIn
<1>2. Places(array, e) = {} => HandlerIn(array, e) = NoHandler
  BY DEF HandlerIn
<1>3. isRegisteredLowPriorityEventHandler(array, e) <=> HandlerIn(array, e) # NoHandler
  BY <1>1, <1>2 DEF isRegisteredLowPriorityEventHandler
<1>4. HandlerIn(array, e) \in Handlers \cup {NoHandler}
  BY <1>1, <1>2 DEF Entries
<1> QED BY <1>1, <1>2, <1>3, <1>4

\* An array with the same places holds what is at them.
LEMMA HoldingSame ==
  ASSUME NEW a \in Seq(Entries), NEW b \in Seq(Entries), OneEach(a), NEW e \in EventIds,
         Places(b, e) = Places(a, e),
         \A i \in Places(a, e) : b[i].eventHandler = a[i].eventHandler
  PROVE  HandlerIn(b, e) = HandlerIn(a, e)
<1>1. CASE Places(a, e) = {}
  BY <1>1 DEF HandlerIn
<1>2. CASE Places(a, e) # {}
  <2>1. PICK i : i \in Places(a, e)
    BY <1>2
  <2>2. Min(Places(a, e)) = i
    BY <2>1, HandlerAt
  <2> QED BY <1>2, <2>1, <2>2 DEF HandlerIn
<1> QED BY <1>1, <1>2

\* Registering: an event has the handler given, the others theirs.
LEMMA WithHandlerHolds ==
  ASSUME NEW a \in Seq(Entries), OneEach(a), NEW e \in EventIds, NEW h \in Handlers
  PROVE  LET b == WithHandler(a, e, h) IN
         /\ b \in Seq(Entries) /\ OneEach(b)
         /\ \A x \in EventIds : HandlerIn(b, x) = IF x = e THEN h ELSE HandlerIn(a, x)
         /\ Len(b) = IF Places(a, e) = {} THEN Len(a) + 1 ELSE Len(a)
<1> DEFINE n == Entry(e, h)
           b == WithHandler(a, e, h)
<1>1. n \in Entries /\ n.eventId = e /\ n.eventHandler = h
  BY DEF Entry, Entries
<1>2. Len(a) \in Nat /\ DOMAIN a = 1 .. Len(a)
  BY LenProperties
<1> HIDE DEF n
<1>3. CASE Places(a, e) = {}
  <2>1. b = Append(a, n)
    BY <1>3 DEF WithHandler, n
  <2>2. /\ b \in Seq(Entries) /\ Len(b) = Len(a) + 1
        /\ DOMAIN b = 1 .. Len(a) + 1
        /\ \A i \in 1 .. Len(a) : b[i] = a[i]
        /\ b[Len(a) + 1] = n
    BY <1>1, <2>1, AppendProperties, LenProperties
  <2> HIDE DEF b
  <2>3. /\ \A i \in 1 .. Len(a) + 1 : i \in 1 .. Len(a) \/ i = Len(a) + 1
        /\ 1 .. Len(a) \subseteq 1 .. Len(a) + 1 /\ Len(a) + 1 \in 1 .. Len(a) + 1
    BY <1>2
  <2>4. Places(b, e) = {Len(a) + 1}
    BY <1>1, <1>2, <1>3, <2>2, <2>3 DEF Places
  <2>5. ASSUME NEW x \in EventIds, x # e PROVE Places(b, x) = Places(a, x)
    BY <1>1, <1>2, <2>2, <2>3, <2>5 DEF Places
  <2>6. OneEach(b)
    BY <2>4, <2>5 DEF OneEach
  <2>7. HandlerIn(b, e) = h
    BY <1>1, <2>2, <2>4, <2>6, HandlerAt
  <2>8. ASSUME NEW x \in EventIds, x # e PROVE HandlerIn(b, x) = HandlerIn(a, x)
    <3>1. \A i \in Places(a, x) : b[i] = a[i]
      BY <1>2, <2>2 DEF Places
    <3> QED BY <2>2, <2>5, <2>8, <3>1, HoldingSame
  <2> QED BY <1>3, <2>2, <2>6, <2>7, <2>8 DEF b
<1>4. CASE Places(a, e) # {}
  <2>1. PICK i : i \in Places(a, e)
    BY <1>4
  <2>2. Min(Places(a, e)) = i /\ Places(a, e) = {i} /\ i \in DOMAIN a /\ a[i].eventId = e
    BY <2>1, HandlerAt DEF Places
  <2>3. b = [a EXCEPT ![i] = n]
    BY <1>4, <2>2 DEF WithHandler, n
  <2>4. b \in Seq(Entries) /\ DOMAIN b = DOMAIN a
    BY <1>1, <2>3, ExceptType
  <2>5. b[i] = n /\ \A j \in DOMAIN a : j # i => b[j] = a[j]
    BY <2>2, <2>3
  <2> HIDE DEF b
  <2>6. Len(b) = Len(a)
    <3>1. Len(b) \in Nat /\ DOMAIN b = 1 .. Len(b)
      BY <2>4, LenProperties
    <3> QED BY <1>2, <2>4, <3>1, LenDomain
  <2>7. ASSUME NEW x \in EventIds PROVE Places(b, x) = Places(a, x)
    BY <1>1, <2>2, <2>4, <2>5 DEF Places
  <2>8. OneEach(b)
    BY <2>7 DEF OneEach
  <2>9. HandlerIn(b, e) = h
    BY <1>1, <2>1, <2>4, <2>5, <2>7, <2>8, HandlerAt
  <2>10. ASSUME NEW x \in EventIds, x # e PROVE HandlerIn(b, x) = HandlerIn(a, x)
    <3>1. \A j \in Places(a, x) : b[j] = a[j]
      BY <2>2, <2>5, <2>10 DEF Places
    <3> QED BY <2>4, <2>7, <3>1, HoldingSame
  <2> QED BY <1>4, <2>4, <2>6, <2>8, <2>9, <2>10 DEF b
<1> QED BY <1>3, <1>4

\* Unregistering: the entry stays without a handler.
LEMMA WithoutHandlerHolds ==
  ASSUME NEW a \in Seq(Entries), OneEach(a), NEW e \in EventIds
  PROVE  LET b == WithoutHandler(a, e) IN
         /\ b \in Seq(Entries) /\ OneEach(b) /\ Len(b) = Len(a)
         /\ \A x \in EventIds : HandlerIn(b, x) = IF x = e THEN NoHandler ELSE HandlerIn(a, x)
<1> DEFINE b == WithoutHandler(a, e)
<1>1. Len(a) \in Nat /\ DOMAIN a = 1 .. Len(a) /\ \A i \in 1 .. Len(a) : a[i] \in Entries
  BY LenProperties, ElementOfSeq
<1>2. Entry(e, NoHandler) \in Entries /\ Entry(e, NoHandler).eventId = e
      /\ Entry(e, NoHandler).eventHandler = NoHandler
  BY DEF Entry, Entries
<1>3. /\ DOMAIN b = 1 .. Len(a)
      /\ \A i \in 1 .. Len(a) : b[i] = IF i \in Places(a, e) THEN Entry(e, NoHandler) ELSE a[i]
  BY <1>1 DEF WithoutHandler
<1>4. b \in [1 .. Len(a) -> Entries]
  BY <1>1, <1>2 DEF WithoutHandler
<1> HIDE DEF b
<1>5. b \in Seq(Entries) /\ Len(b) = Len(a)
  BY <1>1, <1>4, FunctionIsChain
<1>6. ASSUME NEW x \in EventIds PROVE Places(b, x) = Places(a, x)
  BY <1>1, <1>2, <1>3 DEF Places
<1>7. OneEach(b)
  BY <1>6 DEF OneEach
<1>8. HandlerIn(b, e) = NoHandler
  <2>1. CASE Places(b, e) = {}
    BY <2>1 DEF HandlerIn
  <2>2. CASE Places(b, e) # {}
    <3>1. PICK i : i \in Places(b, e)
      BY <2>2
    <3>2. b[i] = Entry(e, NoHandler)
      BY <1>3, <1>6, <3>1 DEF Places
    <3> QED BY <1>2, <1>5, <1>7, <3>1, <3>2, HandlerAt
  <2> QED BY <2>1, <2>2
<1>9. ASSUME NEW x \in EventIds, x # e PROVE HandlerIn(b, x) = HandlerIn(a, x)
  <2>1. \A i \in Places(a, x) : b[i] = a[i]
    BY <1>1, <1>3, <1>9 DEF Places
  <2> QED BY <1>5, <1>6, <2>1, HoldingSame
<1> QED BY <1>5, <1>7, <1>8, <1>9 DEF b

\* Unregistering all handlers: all entries stay, without handlers.
LEMMA WithoutHandlersHolds ==
  ASSUME NEW a \in Seq(Entries), OneEach(a)
  PROVE  LET b == WithoutHandlers(a) IN
         /\ b \in Seq(Entries) /\ OneEach(b) /\ Len(b) = Len(a)
         /\ \A x \in EventIds : HandlerIn(b, x) = NoHandler
<1> DEFINE b == WithoutHandlers(a)
<1>1. Len(a) \in Nat /\ DOMAIN a = 1 .. Len(a) /\ \A i \in 1 .. Len(a) : a[i] \in Entries
  BY LenProperties, ElementOfSeq
<1>2. /\ DOMAIN b = 1 .. Len(a)
      /\ \A i \in 1 .. Len(a) : /\ b[i] \in Entries /\ b[i].eventId = a[i].eventId
                                /\ b[i].eventHandler = NoHandler
  BY <1>1 DEF WithoutHandlers, Entry, Entries
<1>3. b \in [1 .. Len(a) -> Entries]
  BY <1>1 DEF WithoutHandlers, Entry, Entries
<1> HIDE DEF b
<1>4. b \in Seq(Entries) /\ Len(b) = Len(a)
  BY <1>1, <1>3, FunctionIsChain
<1>5. ASSUME NEW x \in EventIds PROVE Places(b, x) = Places(a, x)
  BY <1>1, <1>2 DEF Places
<1>6. OneEach(b)
  BY <1>5 DEF OneEach
<1>7. ASSUME NEW x \in EventIds PROVE HandlerIn(b, x) = NoHandler
  <2>1. CASE Places(b, x) = {}
    BY <2>1 DEF HandlerIn
  <2>2. CASE Places(b, x) # {}
    <3>1. PICK i : i \in Places(b, x)
      BY <2>2
    <3>2. b[i].eventHandler = NoHandler
      BY <1>2, <3>1 DEF Places
    <3> QED BY <1>4, <1>6, <3>1, <3>2, HandlerAt
  <2> QED BY <2>1, <2>2
<1> QED BY <1>4, <1>6, <1>7 DEF b

-----------------------------------------------------------------------------
(* Handlers: the tables of an actor.                                       *)

\* What is allocated for an array fits it.
RoomOf(array, allocated) ==
  /\ allocated \in Nat
  /\ allocated = 0 => array = << >>
  /\ allocated # 0 => allocated = lfRegisteredEventArraySize(array)

\* The two places for the handler of an event: a place in hfEvent, which an event has
\* only with a handler, goes before the entry of lfEvent, which then has none.
Found(e) ==
  IF Places(hfEvent, e) # {}
  THEN /\ HandlerIn(hfEvent, e) = asked.lfEvent[e] /\ asked.lfEvent[e] # NoHandler
       /\ HandlerIn(lfEvent, e) = NoHandler
  ELSE HandlerIn(lfEvent, e) = asked.lfEvent[e]

\* What the actor asked for.
AskedType ==
  LET handlers == [EventIds -> Handlers \cup {NoHandler}]
  IN asked \in [lfEvent : handlers, undeliveredEvent : handlers]

\* The arrays are what the calls of the actor make of them.
HandlerInv ==
  /\ hfEvent \in Seq(Entries) /\ lfEvent \in Seq(Entries) /\ undeliveredEvent \in Seq(Entries)
  /\ room \in [lfEvent : Nat, undeliveredEvent : Nat] /\ AskedType
  /\ OneEach(hfEvent) /\ OneEach(lfEvent) /\ \A e \in EventIds : Found(e)
  /\ Holding(undeliveredEvent, asked.undeliveredEvent)
  /\ RoomOf(lfEvent, room.lfEvent) /\ RoomOf(undeliveredEvent, room.undeliveredEvent)

\* A full array grows by Alignment entries, and is then as large as it is to be.
LEMMA ArrayGrows ==
  ASSUME NEW n \in Nat
  PROVE  LET size == Alignment * ((n + Alignment) \div Alignment)
             grown == Alignment * ((n + 1 + Alignment) \div Alignment)
         IN /\ size \in Nat /\ size # 0 /\ grown = IF n + 1 = size THEN size + Alignment ELSE size
            /\ Alignment * ((1 + Alignment) \div Alignment) = Alignment
<1>1. PICK a \in Nat \ {0} : a = Alignment /\ a > 1
  BY HandlerAssumption
<1>2. PICK q \in Int : q = (n + a) \div a
  BY <1>1
<1>3. a * q <= n + a /\ n + a < a * q + a
  BY <1>1, <1>2
<1>4. q > 0
  BY <1>3
<1>5. a * q \in Nat /\ a * q # 0 /\ n + 1 <= a * q
  BY <1>3, <1>4
<1>6. (1 + a) \div a = 1
  BY <1>1
<1>7. CASE n + 1 = a * q
  <2>1. a * (q + 1) = n + 1 + a /\ q + 1 \in Int
    BY <1>7
  <2>2. (n + 1 + a) \div a = q + 1
    BY <2>1
  <2> QED BY <1>1, <1>2, <1>5, <1>6, <1>7, <2>1, <2>2
<1>8. CASE n + 1 # a * q
  <2>1. a * q <= n + 1 + a /\ n + 1 + a < a * q + a /\ n + 1 + a \in Int
    BY <1>3, <1>5, <1>8
  <2>2. (n + 1 + a) \div a = q
    BY <2>1
  <2> QED BY <1>1, <1>2, <1>5, <1>6, <1>8, <2>2
<1> QED BY <1>7, <1>8

\* Registering allocates what the array then needs.
LEMMA RoomKept ==
  ASSUME NEW a \in Seq(Entries), NEW b \in Seq(Entries), NEW r \in Nat, NEW e, RoomOf(a, r),
         Len(b) = IF Places(a, e) = {} THEN Len(a) + 1 ELSE Len(a)
  PROVE  RoomOf(b, RoomFor(a, r, e))
<1>1. Len(a) \in Nat /\ Len(b) \in Nat /\ Alignment \in Nat /\ Alignment # 0
  BY LenProperties, HandlerAssumption
<1>2. CASE Places(a, e) # {}
  <2>1. Len(a) # 0
    BY <1>2, LenProperties DEF Places
  <2>2. r # 0
    BY <2>1, EmptySeq DEF RoomOf
  <2> QED BY <1>2, <2>2 DEF RoomOf, RoomFor, lfRegisteredEventArraySize
<1>3. CASE Places(a, e) = {} /\ r = 0
  <2>1. Len(a) = 0 /\ Len(b) = 1
    BY <1>3, EmptySeq DEF RoomOf
  <2> QED BY <1>1, <1>3, <2>1, ArrayGrows DEF RoomOf, RoomFor, lfRegisteredEventArraySize
<1>4. CASE Places(a, e) = {} /\ r # 0
  <2>1. r = lfRegisteredEventArraySize(a) /\ Len(b) = Len(a) + 1
    BY <1>4 DEF RoomOf
  <2>2. lfRegisteredEventArraySize(b) = IF Len(a) + 1 = lfRegisteredEventArraySize(a)
                                        THEN lfRegisteredEventArraySize(a) + Alignment
                                        ELSE lfRegisteredEventArraySize(a)
    BY <1>1, <2>1, ArrayGrows DEF lfRegisteredEventArraySize
  <2>3. RoomFor(a, r, e) = IF Len(a) + 1 = lfRegisteredEventArraySize(a) THEN r + Alignment ELSE r
    BY <1>4 DEF RoomFor
  <2> QED BY <1>1, <1>4, <2>1, <2>2, <2>3 DEF RoomOf
<1> QED BY <1>2, <1>3, <1>4

\* The table of a new actor.
LEMMA HandlerInvInit == HandlerInit => HandlerInv
<1> SUFFICES ASSUME HandlerInit PROVE HandlerInv
  OBVIOUS
<1>1. << >> \in Seq(Entries) /\ DOMAIN << >> = {}
  BY EmptySeq
<1>2. hfEvent \in Seq(Entries)
  <2>1. hfEvent \in [1 .. HighFrequency -> Entries] /\ HighFrequency \in Nat
    BY HandlerAssumption DEF HandlerInit, Entry, Entries
  <2> QED BY <2>1, FunctionIsChain
<1>3. \A e \in EventIds : Places(hfEvent, e) = {} /\ Places(<< >>, e) = {}
  BY <1>1, HandlerAssumption DEF HandlerInit, Places, Entry
<1>4. \A e \in EventIds : HandlerIn(<< >>, e) = NoHandler
  BY <1>3 DEF HandlerIn
<1> QED BY <1>1, <1>2, <1>3, <1>4 DEF HandlerInit, HandlerInv, OneEach, Found, Holding, AskedType,
        Nobody, RoomOf

\* A handler goes to an open place of hfEvent, or to lfEvent.
LEMMA RegisterHandlerKeeps ==
  ASSUME HandlerInv, NEW e \in EventIds, NEW h \in Handlers, registerEventHandler(e, h)
  PROVE  HandlerInv'
<1> DEFINE open == Places(hfEvent, NoEventId)
<1>1. /\ asked' = [asked EXCEPT !.lfEvent[e] = h]
      /\ Places(hfEvent, e) = {} /\ ~isRegisteredLowPriorityEventHandler(lfEvent, e)
      /\ h # NoHandler
  BY HandlerAssumption DEF registerEventHandler, isRegisteredEventHandler
<1>2. /\ AskedType' /\ asked'.undeliveredEvent = asked.undeliveredEvent
      /\ \A x \in EventIds : asked'.lfEvent[x] = IF x = e THEN h ELSE asked.lfEvent[x]
  BY <1>1 DEF HandlerInv, AskedType
<1>3. HandlerIn(lfEvent, e) = NoHandler
  BY <1>1, HandlerAt DEF HandlerInv
<1>4. UNCHANGED undeliveredEvent
  BY DEF registerEventHandler
<1>5. CASE open # {}
  <2> DEFINE i == Min(open)
             n == Entry(e, h)
  <2>1. hfEvent' = [hfEvent EXCEPT ![i] = n] /\ UNCHANGED <<lfEvent, room>>
    BY <1>5 DEF registerEventHandler
  <2>2. i \in DOMAIN hfEvent /\ hfEvent[i].eventId = NoEventId
    <3>1. open \subseteq Nat
      BY LenProperties DEF Places, HandlerInv
    <3>2. i \in open
      BY <1>5, <3>1, LeastPlace
    <3> QED BY <3>2 DEF Places
  <2>3. n \in Entries /\ n.eventId = e /\ n.eventHandler = h
    BY DEF Entry, Entries
  <2> HIDE DEF i, n
  <2>4. /\ hfEvent' \in Seq(Entries) /\ DOMAIN hfEvent' = DOMAIN hfEvent
        /\ hfEvent'[i] = n /\ \A j \in DOMAIN hfEvent : j # i => hfEvent'[j] = hfEvent[j]
    BY <2>1, <2>2, <2>3, ExceptType DEF HandlerInv
  <2>5. Places(hfEvent', e) = {i}
    BY <1>1, <2>2, <2>3, <2>4 DEF Places
  <2>6. ASSUME NEW x \in EventIds, x # e
        PROVE  Places(hfEvent', x) = Places(hfEvent, x) /\ i \notin Places(hfEvent, x)
    BY <2>2, <2>3, <2>4, <2>6, HandlerAssumption DEF Places
  <2>7. OneEach(hfEvent')
    BY <2>5, <2>6 DEF OneEach, HandlerInv
  <2>8. HandlerIn(hfEvent', e) = h
    BY <2>3, <2>4, <2>5, <2>7, HandlerAt
  <2>9. ASSUME NEW x \in EventIds, x # e PROVE HandlerIn(hfEvent', x) = HandlerIn(hfEvent, x)
    <3>1. \A j \in Places(hfEvent, x) : hfEvent'[j] = hfEvent[j]
      BY <2>4, <2>6, <2>9 DEF Places
    <3> QED BY <2>4, <2>6, <2>9, <3>1, HoldingSame DEF HandlerInv
  <2>10. ASSUME NEW x \in EventIds PROVE Found(x)'
    <3>1. CASE x = e
      BY <1>1, <1>2, <1>3, <2>1, <2>5, <2>8, <3>1 DEF Found
    <3>2. CASE x # e
      BY <1>2, <2>1, <2>6, <2>9, <3>2 DEF Found, HandlerInv
    <3> QED BY <3>1, <3>2
  <2> QED BY <1>2, <1>4, <2>1, <2>4, <2>7, <2>10 DEF HandlerInv, Holding
<1>6. CASE open = {}
  <2>1. /\ lfEvent' = WithHandler(lfEvent, e, h) /\ UNCHANGED hfEvent
        /\ room' = [room EXCEPT !.lfEvent = RoomFor(lfEvent, @, e)]
    BY <1>6 DEF registerEventHandler
  <2>2. /\ lfEvent' \in Seq(Entries) /\ OneEach(lfEvent')
        /\ \A x \in EventIds : HandlerIn(lfEvent', x) = IF x = e THEN h ELSE HandlerIn(lfEvent, x)
        /\ Len(lfEvent') = IF Places(lfEvent, e) = {} THEN Len(lfEvent) + 1 ELSE Len(lfEvent)
    <3>1. lfEvent \in Seq(Entries) /\ OneEach(lfEvent)
      BY DEF HandlerInv
    <3> QED BY ONLY <2>1, <3>1, WithHandlerHolds, e \in EventIds, h \in Handlers
  <2>3. RoomOf(lfEvent', RoomFor(lfEvent, room.lfEvent, e))
    BY <2>2, RoomKept DEF HandlerInv
  <2>4. RoomOf(lfEvent', room'.lfEvent) /\ room' \in [lfEvent : Nat, undeliveredEvent : Nat]
        /\ room'.undeliveredEvent = room.undeliveredEvent
    <3>1. RoomFor(lfEvent, room.lfEvent, e) \in Nat
      BY <2>3 DEF RoomOf
    <3> QED BY <2>1, <2>3, <3>1 DEF HandlerInv
  <2>5. ASSUME NEW x \in EventIds PROVE Found(x)'
    BY <1>1, <1>2, <2>1, <2>2 DEF Found, HandlerInv
  <2> QED BY <1>2, <1>4, <2>1, <2>2, <2>4, <2>5 DEF HandlerInv, Holding
<1> QED BY <1>5, <1>6

\* A handler of an undelivered event has its array to itself.
LEMMA RegisterUndeliveredKeeps ==
  ASSUME HandlerInv, NEW e \in EventIds, NEW h \in Handlers, registerUndeliveredEventHandler(e, h)
  PROVE  HandlerInv'
<1>1. /\ asked' = [asked EXCEPT !.undeliveredEvent[e] = h]
      /\ undeliveredEvent' = WithHandler(undeliveredEvent, e, h)
      /\ room' = [room EXCEPT !.undeliveredEvent = RoomFor(undeliveredEvent, @, e)]
      /\ UNCHANGED <<hfEvent, lfEvent>>
  BY DEF registerUndeliveredEventHandler
<1>2. /\ AskedType' /\ asked'.lfEvent = asked.lfEvent
      /\ \A x \in EventIds : asked'.undeliveredEvent[x] = IF x = e THEN h ELSE asked.undeliveredEvent[x]
  BY <1>1 DEF HandlerInv, AskedType
<1>3. /\ undeliveredEvent' \in Seq(Entries) /\ OneEach(undeliveredEvent')
      /\ \A x \in EventIds :
           HandlerIn(undeliveredEvent', x) = IF x = e THEN h ELSE HandlerIn(undeliveredEvent, x)
      /\ Len(undeliveredEvent') = IF Places(undeliveredEvent, e) = {} THEN Len(undeliveredEvent) + 1
                                                                      ELSE Len(undeliveredEvent)
  <2>1. undeliveredEvent \in Seq(Entries) /\ OneEach(undeliveredEvent)
    BY DEF HandlerInv, Holding
  <2> QED BY ONLY <1>1, <2>1, WithHandlerHolds, e \in EventIds, h \in Handlers
<1>4. RoomOf(undeliveredEvent', RoomFor(undeliveredEvent, room.undeliveredEvent, e))
  BY <1>3, RoomKept DEF HandlerInv
<1>5. RoomOf(undeliveredEvent', room'.undeliveredEvent) /\ room' \in [lfEvent : Nat, undeliveredEvent : Nat]
      /\ room'.lfEvent = room.lfEvent
  <2>1. RoomFor(undeliveredEvent, room.undeliveredEvent, e) \in Nat
    BY <1>4 DEF RoomOf
  <2> QED BY <1>1, <1>4, <2>1 DEF HandlerInv
<1>6. Holding(undeliveredEvent, asked.undeliveredEvent)'
  BY <1>2, <1>3 DEF HandlerInv, Holding
<1> QED BY <1>1, <1>2, <1>3, <1>5, <1>6 DEF HandlerInv, Found

\* An array whose entries at the places T are open again.
Opened(a, T) == [i \in DOMAIN a |-> IF i \in T THEN [a[i] EXCEPT !.eventId = NoEventId] ELSE a[i]]

\* It has no event there, and the others where they were.
LEMMA OpenedHolds ==
  ASSUME NEW a \in Seq(Entries), OneEach(a), NEW T, NEW b, b = Opened(a, T)
  PROVE  /\ b \in Seq(Entries) /\ OneEach(b)
         /\ \A e \in EventIds : Places(b, e) = Places(a, e) \ T
         /\ \A e \in EventIds : Places(b, e) = Places(a, e) => HandlerIn(b, e) = HandlerIn(a, e)
<1>1. Len(a) \in Nat /\ DOMAIN a = 1 .. Len(a) /\ \A i \in 1 .. Len(a) : a[i] \in Entries
  BY LenProperties, ElementOfSeq
<1>2. /\ DOMAIN b = 1 .. Len(a)
      /\ \A i \in 1 .. Len(a) :
           /\ b[i] \in Entries /\ b[i].eventHandler = a[i].eventHandler
           /\ b[i].eventId = IF i \in T THEN NoEventId ELSE a[i].eventId
  BY <1>1 DEF Entries, Opened
<1>3. b \in [1 .. Len(a) -> Entries]
  <2>1. b = [i \in 1 .. Len(a) |-> b[i]]
    BY <1>1 DEF Opened
  <2> QED BY <1>2, <2>1
<1>4. b \in Seq(Entries)
  BY <1>1, <1>3, FunctionIsChain
<1>5. \A e \in EventIds : Places(b, e) = Places(a, e) \ T
  BY <1>1, <1>2, HandlerAssumption DEF Places
<1>6. OneEach(b)
  BY <1>5 DEF OneEach
<1>7. ASSUME NEW e \in EventIds, Places(b, e) = Places(a, e) PROVE HandlerIn(b, e) = HandlerIn(a, e)
  <2>1. \A i \in Places(a, e) : b[i].eventHandler = a[i].eventHandler
    BY <1>1, <1>2 DEF Places
  <2> QED BY <1>4, <1>7, <2>1, HoldingSame
<1> QED BY <1>4, <1>5, <1>6, <1>7

\* An event leaves both arrays.
LEMMA UnregisterHandlerKeeps ==
  ASSUME HandlerInv, NEW e \in EventIds, unregisterEventHandler(e)
  PROVE  HandlerInv'
<1>1. /\ asked' = [asked EXCEPT !.lfEvent[e] = NoHandler]
      /\ lfEvent' = WithoutHandler(lfEvent, e)
      /\ UNCHANGED <<undeliveredEvent, room>>
  BY DEF unregisterEventHandler
<1>2. /\ AskedType' /\ asked'.undeliveredEvent = asked.undeliveredEvent
      /\ \A x \in EventIds : asked'.lfEvent[x] = IF x = e THEN NoHandler ELSE asked.lfEvent[x]
  BY <1>1 DEF HandlerInv, AskedType
<1>3. /\ lfEvent' \in Seq(Entries) /\ OneEach(lfEvent') /\ Len(lfEvent') = Len(lfEvent)
      /\ \A x \in EventIds : HandlerIn(lfEvent', x) = IF x = e THEN NoHandler ELSE HandlerIn(lfEvent, x)
  BY <1>1, WithoutHandlerHolds DEF HandlerInv
<1>4. hfEvent' = Opened(hfEvent, Places(hfEvent, e))
  <2>1. \A i : Places(hfEvent, e) # {} /\ i = Min(Places(hfEvent, e)) <=> i \in Places(hfEvent, e)
    BY HandlerAt DEF HandlerInv
  <2> QED BY <2>1 DEF unregisterEventHandler, Opened
<1>5. /\ hfEvent' \in Seq(Entries) /\ OneEach(hfEvent')
      /\ \A x \in EventIds : Places(hfEvent', x) = Places(hfEvent, x) \ Places(hfEvent, e)
      /\ \A x \in EventIds :
           Places(hfEvent', x) = Places(hfEvent, x) => HandlerIn(hfEvent', x) = HandlerIn(hfEvent, x)
  <2>1. hfEvent \in Seq(Entries) /\ OneEach(hfEvent)
    BY DEF HandlerInv
  <2> QED BY ONLY <1>4, <2>1, OpenedHolds
<1>6. \A x \in EventIds : x # e => Places(hfEvent', x) = Places(hfEvent, x)
  BY <1>5 DEF Places
<1>7. ASSUME NEW x \in EventIds PROVE Found(x)'
  <2>1. CASE x = e
    BY <1>2, <1>3, <1>5, <2>1 DEF Found
  <2>2. CASE x # e
    BY <1>2, <1>3, <1>5, <1>6, <2>2 DEF Found, HandlerInv
  <2> QED BY <2>1, <2>2
<1>8. RoomOf(lfEvent', room'.lfEvent)
  <2>1. lfEvent = << >> => lfEvent' = << >>
    BY <1>3, EmptySeq
  <2> QED BY <1>1, <1>3, <2>1 DEF HandlerInv, RoomOf, lfRegisteredEventArraySize
<1> QED BY <1>1, <1>2, <1>3, <1>5, <1>7, <1>8 DEF HandlerInv, Holding

\* An undelivered event leaves its entry behind.
LEMMA UnregisterUndeliveredKeeps ==
  ASSUME HandlerInv, NEW e \in EventIds, unregisterUndeliveredEventHandler(e)
  PROVE  HandlerInv'
<1>1. /\ asked' = [asked EXCEPT !.undeliveredEvent[e] = NoHandler]
      /\ undeliveredEvent' = WithoutHandler(undeliveredEvent, e)
      /\ UNCHANGED <<hfEvent, lfEvent, room>>
  BY DEF unregisterUndeliveredEventHandler
<1>2. /\ AskedType' /\ asked'.lfEvent = asked.lfEvent
      /\ \A x \in EventIds :
           asked'.undeliveredEvent[x] = IF x = e THEN NoHandler ELSE asked.undeliveredEvent[x]
  BY <1>1 DEF HandlerInv, AskedType
<1>3. /\ undeliveredEvent' \in Seq(Entries) /\ OneEach(undeliveredEvent')
      /\ Len(undeliveredEvent') = Len(undeliveredEvent)
      /\ \A x \in EventIds :
           HandlerIn(undeliveredEvent', x) = IF x = e THEN NoHandler ELSE HandlerIn(undeliveredEvent, x)
  BY <1>1, WithoutHandlerHolds DEF HandlerInv, Holding
<1>4. RoomOf(undeliveredEvent', room'.undeliveredEvent)
  <2>1. undeliveredEvent = << >> => undeliveredEvent' = << >>
    BY <1>3, EmptySeq
  <2> QED BY <1>1, <1>3, <2>1 DEF HandlerInv, RoomOf, lfRegisteredEventArraySize
<1>5. Holding(undeliveredEvent, asked.undeliveredEvent)'
  BY <1>2, <1>3 DEF HandlerInv, Holding
<1> QED BY <1>1, <1>2, <1>3, <1>4, <1>5 DEF HandlerInv, Found

\* All handlers go, with the arrays or with the entries alone.
LEMMA UnregisterAllKeeps ==
  ASSUME HandlerInv, unregisterAllEventHandlers \/ releaseEventTable
  PROVE  HandlerInv'
<1>1. /\ asked' = [lfEvent |-> Nobody, undeliveredEvent |-> Nobody]
      /\ hfEvent' = [i \in DOMAIN hfEvent |-> [hfEvent[i] EXCEPT !.eventId = NoEventId]]
  BY DEF unregisterAllEventHandlers, releaseEventTable, HandlerInv, AskedType
<1>2. AskedType' /\ \A e \in EventIds : asked'.lfEvent[e] = NoHandler /\ asked'.undeliveredEvent[e] = NoHandler
  BY <1>1 DEF AskedType, Nobody
<1>3. hfEvent' \in Seq(Entries) /\ OneEach(hfEvent') /\ \A e \in EventIds : Places(hfEvent', e) = {}
  <2>1. hfEvent' = Opened(hfEvent, DOMAIN hfEvent)
    BY <1>1 DEF Opened
  <2>2. /\ hfEvent' \in Seq(Entries) /\ OneEach(hfEvent')
        /\ \A e \in EventIds : Places(hfEvent', e) = Places(hfEvent, e) \ DOMAIN hfEvent
    <3>1. hfEvent \in Seq(Entries) /\ OneEach(hfEvent)
      BY DEF HandlerInv
    <3> QED BY ONLY <2>1, <3>1, OpenedHolds
  <2> QED BY <2>2 DEF Places
<1>4. /\ lfEvent' \in Seq(Entries) /\ OneEach(lfEvent')
      /\ undeliveredEvent' \in Seq(Entries) /\ OneEach(undeliveredEvent')
      /\ \A e \in EventIds : HandlerIn(lfEvent', e) = NoHandler /\ HandlerIn(undeliveredEvent', e) = NoHandler
      /\ RoomOf(lfEvent', room'.lfEvent) /\ RoomOf(undeliveredEvent', room'.undeliveredEvent)
      /\ room' \in [lfEvent : Nat, undeliveredEvent : Nat]
  <2>1. CASE unregisterAllEventHandlers
    <3>1. /\ lfEvent' = WithoutHandlers(lfEvent) /\ undeliveredEvent' = WithoutHandlers(undeliveredEvent)
          /\ UNCHANGED room
      BY <2>1 DEF unregisterAllEventHandlers
    <3>2. /\ lfEvent' \in Seq(Entries) /\ OneEach(lfEvent') /\ Len(lfEvent') = Len(lfEvent)
          /\ \A e \in EventIds : HandlerIn(lfEvent', e) = NoHandler
      BY <3>1, WithoutHandlersHolds DEF HandlerInv
    <3>3. /\ undeliveredEvent' \in Seq(Entries) /\ OneEach(undeliveredEvent')
          /\ Len(undeliveredEvent') = Len(undeliveredEvent)
          /\ \A e \in EventIds : HandlerIn(undeliveredEvent', e) = NoHandler
      BY <3>1, WithoutHandlersHolds DEF HandlerInv, Holding
    <3>4. /\ lfEvent = << >> => lfEvent' = << >>
          /\ undeliveredEvent = << >> => undeliveredEvent' = << >>
      BY <3>2, <3>3, EmptySeq
    <3> QED BY <3>1, <3>2, <3>3, <3>4 DEF HandlerInv, RoomOf, lfRegisteredEventArraySize
  <2>2. CASE releaseEventTable
    <3>1. /\ lfEvent' = << >> /\ undeliveredEvent' = << >>
          /\ room' = [lfEvent |-> 0, undeliveredEvent |-> 0]
      BY <2>2 DEF releaseEventTable
    <3>2. << >> \in Seq(Entries) /\ \A e : Places(<< >>, e) = {}
      BY EmptySeq DEF Places
    <3> QED BY <3>1, <3>2 DEF OneEach, HandlerIn, RoomOf
  <2> QED BY <2>1, <2>2
<1> QED BY <1>2, <1>3, <1>4 DEF HandlerInv, Found, Holding

\* The steps are these, and those of the pipes, which leave the arrays alone.
LEMMA HandlerKeeps == HandlerInv /\ [HandlerNext]_handlerVars => HandlerInv'
<1> SUFFICES ASSUME HandlerInv, [HandlerNext]_handlerVars PROVE HandlerInv'
  OBVIOUS
<1>1. CASE \E e \in EventIds :
             \/ \E h \in Handlers : registerEventHandler(e, h) \/ registerUndeliveredEventHandler(e, h)
             \/ unregisterEventHandler(e) \/ unregisterUndeliveredEventHandler(e)
  BY <1>1, RegisterHandlerKeeps, RegisterUndeliveredKeeps, UnregisterHandlerKeeps,
     UnregisterUndeliveredKeeps
<1>2. CASE unregisterAllEventHandlers \/ releaseEventTable
  BY <1>2, UnregisterAllKeeps
<1>3. CASE \/ registerProcessOutPipe \/ copyPipe \/ unregisterProcessOutPipe
           \/ UNCHANGED handlerVars
  <2>1. UNCHANGED <<tableVars, asked>>
    BY <1>3 DEF registerProcessOutPipe, copyPipe, unregisterProcessOutPipe, handlerVars
  <2> QED BY <2>1 DEF tableVars, HandlerInv, AskedType, Found, Holding
<1> QED BY <1>1, <1>2, <1>3 DEF HandlerNext

\* An event reaches the handler that was registered for it last, and none that was
\* unregistered, in whichever array each came to lie; what an array is given back as is
\* what was allocated for it.  For any event ids, handlers, sizes of the arrays and
\* sequences of calls (EventTable, registerHighPriorityEventHandler).
THEOREM HandlersAlwaysFound == HandlerSpec => []HandlersFound
<1>1. HandlerInv => HandlersFound
  <2> SUFFICES ASSUME HandlerInv PROVE HandlersFound
    OBVIOUS
  <2>1. ASSUME NEW e \in EventIds
        PROVE  /\ onEvent(e) = asked.lfEvent[e]
               /\ HandlerIn(undeliveredEvent, e) = asked.undeliveredEvent[e]
               /\ isRegisteredEventHandler(e) <=> asked.lfEvent[e] # NoHandler
    <3>1. Found(e) /\ HandlerIn(undeliveredEvent, e) = asked.undeliveredEvent[e]
      BY DEF HandlerInv, Holding
    <3>2. isRegisteredLowPriorityEventHandler(lfEvent, e) <=> HandlerIn(lfEvent, e) # NoHandler
      BY HandlerAt DEF HandlerInv
    <3> QED BY <3>1, <3>2 DEF Found, onEvent, isRegisteredEventHandler
  <2> QED BY <2>1 DEF HandlerInv, RoomOf, HandlersFound
<1> QED BY <1>1, HandlerInvInit, HandlerKeeps, PTL DEF HandlerSpec

-----------------------------------------------------------------------------
(* The chain of the actors to tell about unreachable nodes.                *)

\* The events for which the actor has a handler if they are undelivered.
AskedEvents == {e \in EventIds : asked.undeliveredEvent[e] # NoHandler}

\* They are as many as are counted, which is what the chain goes by.
CountInv ==
  /\ IsFiniteSet(AskedEvents) /\ undeliveredEventCount = Cardinality(AskedEvents)
  /\ processOutPipeCount \in Nat /\ onUnreachableChain \in BOOLEAN
  /\ processOutPipeCount > 0 /\ AskedEvents # {} => onUnreachableChain
  /\ onUnreachableChain => AskedEvents # {}

\* The count is 0 when there are none.
LEMMA CountZero == ASSUME CountInv PROVE undeliveredEventCount \in Nat /\ (undeliveredEventCount = 0 <=> AskedEvents = {})
BY FS_EmptySet, FS_CardinalityType DEF CountInv

\* Before any call nothing is asked for.
LEMMA CountInvInit == HandlerInit => CountInv
<1> SUFFICES ASSUME HandlerInit PROVE CountInv
  OBVIOUS
<1>1. AskedEvents = {}
  BY DEF HandlerInit, AskedEvents, Nobody
<1> QED BY <1>1, FS_EmptySet DEF HandlerInit, CountInv

\* A handler more.
LEMMA RegisterUndeliveredCounts ==
  ASSUME HandlerInv, CountInv, NEW e \in EventIds, NEW h \in Handlers,
         registerUndeliveredEventHandler(e, h)
  PROVE  CountInv'
<1>1. asked.undeliveredEvent[e] = NoHandler
  <2>1. undeliveredEvent \in Seq(Entries) /\ OneEach(undeliveredEvent)
        /\ HandlerIn(undeliveredEvent, e) = asked.undeliveredEvent[e]
    BY DEF HandlerInv, Holding
  <2> QED BY <2>1, HandlerAt DEF registerUndeliveredEventHandler
<1>2. AskedEvents' = AskedEvents \cup {e} /\ e \notin AskedEvents
  <2>1. \A x \in EventIds : asked'.undeliveredEvent[x] = IF x = e THEN h ELSE asked.undeliveredEvent[x]
    BY DEF registerUndeliveredEventHandler, HandlerInv, AskedType
  <2> QED BY <1>1, <2>1, HandlerAssumption DEF AskedEvents
<1>3. IsFiniteSet(AskedEvents') /\ Cardinality(AskedEvents') = Cardinality(AskedEvents) + 1
  BY <1>2, FS_AddElement DEF CountInv
<1>4. undeliveredEventCount' = Cardinality(AskedEvents')
  BY <1>3 DEF registerUndeliveredEventHandler, CountInv
<1>5. processOutPipeCount' = processOutPipeCount /\ (processOutPipeCount > 0 => processOutPipeCount # 0)
  BY DEF registerUndeliveredEventHandler, CountInv
<1>6. onUnreachableChain' = (onUnreachableChain \/ processOutPipeCount # 0)
  BY DEF registerUndeliveredEventHandler
<1>7. onUnreachableChain' \in BOOLEAN /\ (processOutPipeCount' > 0 => onUnreachableChain')
  BY <1>5, <1>6, Zenon
<1>8. AskedEvents' # {}
  BY <1>2
<1> QED BY <1>3, <1>4, <1>5, <1>7, <1>8 DEF CountInv

\* A handler less: an entry that counts has one.
LEMMA UnregisterUndeliveredCounts ==
  ASSUME Careful, HandlerInv, CountInv, NEW e \in EventIds, unregisterUndeliveredEventHandler(e)
  PROVE  CountInv'
<1>1. /\ undeliveredEvent \in Seq(Entries) /\ OneEach(undeliveredEvent)
      /\ HandlerIn(undeliveredEvent, e) = asked.undeliveredEvent[e]
  BY DEF HandlerInv, Holding
<1>2. asked.undeliveredEvent[e] # NoHandler /\ Places(undeliveredEvent, e) # {}
  BY <1>1, HandlerAt DEF unregisterUndeliveredEventHandler
<1>3. Cardinality(Places(undeliveredEvent, e)) = 1
  <2>1. PICK i : Places(undeliveredEvent, e) = {i}
    BY <1>1, <1>2, HandlerAt
  <2> QED BY <2>1, FS_Singleton
<1>4. AskedEvents' = AskedEvents \ {e} /\ e \in AskedEvents
  <2>1. \A x \in EventIds :
          asked'.undeliveredEvent[x] = IF x = e THEN NoHandler ELSE asked.undeliveredEvent[x]
    BY DEF unregisterUndeliveredEventHandler, HandlerInv, AskedType
  <2> QED BY <1>2, <2>1 DEF AskedEvents
<1>5. IsFiniteSet(AskedEvents') /\ Cardinality(AskedEvents') = Cardinality(AskedEvents) - 1
  BY <1>4, FS_RemoveElement DEF CountInv
<1>6. undeliveredEventCount' = Cardinality(AskedEvents')
  BY <1>3, <1>5 DEF unregisterUndeliveredEventHandler, CountInv
<1>7. Cardinality(AskedEvents') = 0 <=> AskedEvents' = {}
  BY <1>5, FS_EmptySet
<1> QED BY <1>4, <1>5, <1>6, <1>7 DEF unregisterUndeliveredEventHandler, CountInv

\* The rest empties the tables or leaves the handlers of undelivered events alone.
LEMMA CountKeeps ==
  ASSUME Careful, HandlerInv, CountInv, [HandlerNext]_handlerVars PROVE CountInv'
<1>1. CASE \E e \in EventIds, h \in Handlers : registerUndeliveredEventHandler(e, h)
  BY <1>1, RegisterUndeliveredCounts
<1>2. CASE \E e \in EventIds : unregisterUndeliveredEventHandler(e)
  BY <1>2, UnregisterUndeliveredCounts
<1>3. CASE unregisterAllEventHandlers \/ releaseEventTable
  <2>1. /\ asked'.undeliveredEvent = Nobody /\ undeliveredEventCount' = 0 /\ onUnreachableChain' = FALSE
        /\ UNCHANGED processOutPipeCount
    <3>1. CASE unregisterAllEventHandlers
      <4>1. asked' = [asked EXCEPT !.lfEvent = Nobody, !.undeliveredEvent = Nobody]
            /\ undeliveredEventCount' = 0 /\ onUnreachableChain' = FALSE /\ UNCHANGED processOutPipeCount
        BY <3>1, Zenon DEF unregisterAllEventHandlers
      <4>2. asked'.undeliveredEvent = Nobody
        BY <4>1 DEF HandlerInv, AskedType
      <4> QED BY <4>1, <4>2, Zenon
    <3>2. CASE releaseEventTable
      <4>1. asked' = [lfEvent |-> Nobody, undeliveredEvent |-> Nobody]
            /\ undeliveredEventCount' = 0 /\ onUnreachableChain' = FALSE /\ UNCHANGED processOutPipeCount
        BY <3>2, Zenon DEF releaseEventTable
      <4>2. asked'.undeliveredEvent = Nobody
        BY <4>1
      <4> QED BY <4>1, <4>2, Zenon
    <3> QED BY <1>3, <3>1, <3>2
  <2>2. AskedEvents' = {}
    BY <2>1 DEF AskedEvents, Nobody
  <2> QED BY <2>1, <2>2, FS_EmptySet DEF CountInv
<1>4. CASE \/ \E e \in EventIds : \/ \E h \in Handlers : registerEventHandler(e, h)
                                  \/ unregisterEventHandler(e)
           \/ UNCHANGED handlerVars
  <2>1. /\ asked'.undeliveredEvent = asked.undeliveredEvent
        /\ UNCHANGED <<undeliveredEventCount, processOutPipeCount, onUnreachableChain>>
    BY <1>4 DEF registerEventHandler, unregisterEventHandler, handlerVars, tableVars, HandlerInv, AskedType
  <2>2. UNCHANGED AskedEvents
    BY <2>1 DEF AskedEvents
  <2> QED BY <2>1, <2>2 DEF CountInv
<1>5. CASE registerProcessOutPipe \/ copyPipe \/ unregisterProcessOutPipe
  <2>1. UNCHANGED <<tableVars, asked>> /\ UNCHANGED AskedEvents
    BY <1>5 DEF registerProcessOutPipe, copyPipe, unregisterProcessOutPipe, AskedEvents
  <2>2. MaxPipes \in Nat
    BY HandlerAssumption
  <2>3. CASE registerProcessOutPipe
    <3>1. onUnreachableChain' = (onUnreachableChain \/ undeliveredEventCount # 0)
      BY <2>3 DEF registerProcessOutPipe
    <3>2. processOutPipeCount' \in Nat /\ UNCHANGED undeliveredEventCount
      BY <2>1, <2>3 DEF registerProcessOutPipe, CountInv, tableVars
    <3>3. undeliveredEventCount # 0 <=> AskedEvents # {}
      BY CountZero
    <3>4. onUnreachableChain' \in BOOLEAN /\ (onUnreachableChain' <=> AskedEvents # {})
      BY <3>1, <3>3, Zenon DEF CountInv
    <3> QED BY <2>1, <3>2, <3>4 DEF CountInv
  <2>4. CASE copyPipe
    BY <2>1, <2>2, <2>4 DEF copyPipe, CountInv, tableVars
  <2>5. CASE unregisterProcessOutPipe
    BY <2>1, <2>5 DEF unregisterProcessOutPipe, CountInv, tableVars
  <2> QED BY <1>5, <2>3, <2>4, <2>5
<1> QED BY <1>1, <1>2, <1>3, <1>4, <1>5 DEF HandlerNext

\* An actor that unregisters only what it has registered is in the chain of those to
\* tell about unreachable nodes when it has a pipe and a handler, and never without a
\* handler: the count of its handlers is right whatever it did (EventTable,
\* Node::registerUndeliveredEventHandler()).
THEOREM UnreachableAlwaysTold ==
  ASSUME Careful PROVE HandlerSpec => []UnreachableTold
<1>1. HandlerInit => HandlerInv /\ CountInv
  BY HandlerInvInit, CountInvInit
<1>2. HandlerInv /\ CountInv /\ [HandlerNext]_handlerVars => (HandlerInv /\ CountInv)'
  BY HandlerKeeps, CountKeeps
<1>3. CountInv => UnreachableTold
  BY DEF CountInv, UnreachableTold, AskedEvents
<1> QED BY <1>1, <1>2, <1>3, PTL DEF HandlerSpec

-----------------------------------------------------------------------------
(* EventPages: an event keeps its memory.                                  *)

Blocks == [page : Nat, at : Nat, sz : Nat \ {0}]

PagesType ==
  /\ local \in BOOLEAN
  /\ free \in Seq(Nat) /\ used \in Seq(Nat) /\ usedByReader \in Seq(Nat)
  /\ frontOffset \in Nat /\ nextPageIndex \in Nat \ {0}
  /\ batchId \in 0 .. MaxBatchId /\ batchIdIncrement \in {0, 1}
  /\ toBeDelivered \subseteq Blocks /\ handed \subseteq Blocks
  /\ mine \subseteq Blocks /\ buffered \subseteq Blocks
  /\ mineBatch \in 0 .. MaxBatchId /\ bufferedBatch \in 0 .. MaxBatchId

\* Every page that there is is in one chain, once.
PageInv ==
  /\ IsInjective(free) /\ IsInjective(used) /\ IsInjective(usedByReader)
  /\ \A n : /\ ~(InChain(free, n) /\ InChain(used, n))
            /\ ~(InChain(free, n) /\ InChain(usedByReader, n))
            /\ ~(InChain(used, n) /\ InChain(usedByReader, n))
            /\ InChain(free, n) \/ InChain(used, n) \/ InChain(usedByReader, n) => n < nextPageIndex
  /\ Len(free) + Len(used) + Len(usedByReader) = nextPageIndex

\* A batch that somebody has asked for ends with the next write; its number was none
\* before, but for the number that no batch has.
BatchInv ==
  /\ bufferedBatch <= batchId /\ (mineBatch <= batchId \/ mineBatch = MaxBatchId)
  /\ ~checkHasChanged(mineBatch) /\ mine # {} => batchIdIncrement = 1 /\ mine \subseteq toBeDelivered
  /\ ~checkHasChanged(bufferedBatch) /\ buffered # {} => batchIdIncrement = 1

\* An event of this node lies in a page that is in use, below what is allocated next.
Placed(e) == InChain(used, e.page) /\ (e.page = Head(used) => e.at + e.sz <= frontOffset)

MemoryInv ==
  /\ \A e \in handed : InChain(usedByReader, e.page)
  /\ \A e \in Own : Placed(e)
  /\ \A e, d \in handed : ~Overlap(e, d)
  /\ \A e, d \in Own : ~Overlap(e, d)

EventPagesInv == PagesType /\ PageInv /\ BatchInv /\ MemoryInv

\* A sequence of one item
LEMMA OneItem ==
  ASSUME NEW S, NEW a \in S
  PROVE  /\ <<a>> \in Seq(S) /\ Len(<<a>>) = 1 /\ IsInjective(<<a>>) /\ Head(<<a>>) = a
         /\ \A b : InChain(<<a>>, b) <=> b = a
BY DEF IsInjective, InChain

\* What is somebody's own is events.
LEMMA OwnType == PagesType => Own \subseteq Blocks
BY DEF PagesType, Own

\* A new first item, when it is nowhere in the sequence yet
LEMMA PushNew ==
  ASSUME NEW S, NEW s \in Seq(S), NEW a \in S
  PROVE  /\ <<a>> \o s \in Seq(S) /\ Len(<<a>> \o s) = Len(s) + 1 /\ Head(<<a>> \o s) = a
         /\ \A b : InChain(<<a>> \o s, b) <=> b = a \/ InChain(s, b)
         /\ IsInjective(s) /\ ~InChain(s, a) => IsInjective(<<a>> \o s)
<1>1. <<a>> \o s \in Seq(S) /\ Len(<<a>> \o s) = Len(s) + 1
  BY OneItem, ConcatProperties
<1>2. (<<a>> \o s)[1] = a
  BY PushChain
<1>3. Head(<<a>> \o s) = a
  BY <1>1, <1>2, HeadTailProperties, LenProperties, EmptySeq
<1>4. \A b : InChain(<<a>> \o s, b) <=> b = a \/ InChain(s, b)
  BY OneItem, ConcatChain
<1>5. IsInjective(s) /\ ~InChain(s, a) => IsInjective(<<a>> \o s)
  BY OneItem, ConcatChain
<1> QED BY <1>1, <1>3, <1>4, <1>5

\* allocateEvent() takes memory that nobody of this node has, and moves no page.
LEMMA AllocateEvent ==
  ASSUME PagesType, PageInv, MemoryInv, NEW sz \in EventSizes, allocateEvent(sz)
  PROVE  /\ Allocated(sz) \in Blocks
         /\ free' \in Seq(Nat) /\ used' \in Seq(Nat) /\ frontOffset' \in Nat /\ nextPageIndex' \in Nat \ {0}
         /\ PageInv' /\ UNCHANGED usedByReader
         /\ \A e \in Own \cup {Allocated(sz)} : Placed(e)'
         /\ \A e, d \in Own \cup {Allocated(sz)} : ~Overlap(e, d)
<1> DEFINE new == Allocated(sz)
<1>1. sz \in Nat \ {0} /\ frontOffset' = new.at + sz /\ UNCHANGED usedByReader
  BY PagesAssumption DEF allocateEvent
<1>2. CASE ~MustTakePage(sz)
  <2>1. new = Block(Head(used), frontOffset, sz) /\ UNCHANGED <<free, used, nextPageIndex>> /\ used # << >>
    BY <1>2 DEF allocateEvent, Allocated, MustTakePage
  <2>2. Head(used) \in Nat /\ InChain(used, Head(used))
    BY <2>1, HeadChain DEF PagesType
  <2>3. new \in Blocks /\ new.page = Head(used) /\ new.at = frontOffset /\ new.sz = sz
    BY <1>1, <2>1, <2>2 DEF Block, Blocks, PagesType
  <2>4. frontOffset' = frontOffset + sz
    BY <1>1, <2>3
  <2>5. PageInv'
    BY <1>1, <2>1 DEF PageInv
  <2>6. \A e \in Own \cup {new} : Placed(e)'
    <3>1. \A e \in {new} : Placed(e)'
      BY <2>1, <2>2, <2>3, <2>4, <1>1 DEF Placed, PagesType
    <3>2. ASSUME NEW e \in Own PROVE Placed(e)'
      <4>1. Placed(e) /\ e \in Blocks
        BY <3>2, OwnType DEF MemoryInv
      <4> QED BY <4>1, <2>1, <2>4, <1>1 DEF Placed, Blocks, PagesType
    <3> QED BY <3>1, <3>2
  <2>7. \A e \in Own : ~Overlap(e, new) /\ ~Overlap(new, e)
    <3> SUFFICES ASSUME NEW e \in Own PROVE ~Overlap(e, new) /\ ~Overlap(new, e)
      OBVIOUS
    <3>1. Placed(e) /\ e \in Blocks
      BY OwnType DEF MemoryInv
    <3> QED BY <3>1, <2>3, <1>1 DEF Placed, Overlap, Blocks, PagesType
  <2>8. ~Overlap(new, new)
    BY DEF Overlap
  <2>9. \A e, d \in Own \cup {new} : ~Overlap(e, d)
    BY <2>7, <2>8 DEF MemoryInv
  <2> QED BY <1>1, <2>1, <2>3, <2>4, <2>5, <2>6, <2>9 DEF PagesType
<1>3. CASE MustTakePage(sz)
  <2> DEFINE n == IF free = << >> THEN nextPageIndex ELSE Head(free)
  <2>1. /\ new = Block(n, 0, sz) /\ used' = <<n>> \o used
        /\ free' = IF free = << >> THEN free ELSE Tail(free)
        /\ nextPageIndex' = nextPageIndex + (IF free = << >> THEN 1 ELSE 0)
    BY <1>3 DEF allocateEvent, Allocated, Block
  <2>2. /\ n \in Nat /\ n < nextPageIndex' /\ ~InChain(used, n) /\ ~InChain(usedByReader, n) /\ ~InChain(free', n)
        /\ free' \in Seq(Nat) /\ IsInjective(free') /\ nextPageIndex' \in Nat \ {0} /\ nextPageIndex <= nextPageIndex'
        /\ \A b : InChain(free', b) => InChain(free, b)
        /\ Len(free') = (IF free = << >> THEN Len(free) ELSE Len(free) - 1)
    <3>1. CASE free = << >>
      <4>1. n = nextPageIndex /\ free' = << >> /\ nextPageIndex' = nextPageIndex + 1
        BY <2>1, <3>1
      <4>2. ~InChain(used, nextPageIndex) /\ ~InChain(usedByReader, nextPageIndex)
        BY DEF PageInv, PagesType
      <4> QED BY <3>1, <4>1, <4>2, EmptyChain DEF PagesType, PageInv
    <3>2. CASE free # << >>
      <4>1. n = Head(free) /\ free' = Tail(free) /\ nextPageIndex' = nextPageIndex
        BY <2>1, <3>2 DEF PagesType
      <4>2. /\ n \in Nat /\ InChain(free, n) /\ free' \in Seq(Nat) /\ IsInjective(free') /\ ~InChain(free', n)
            /\ \A b : InChain(free', b) => InChain(free, b)
        BY <4>1, <3>2, HeadChain DEF PagesType, PageInv
      <4>3. Len(free') = Len(free) - 1
        BY <4>1, <3>2, HeadTailProperties DEF PagesType
      <4> QED BY <3>2, <4>1, <4>2, <4>3 DEF PagesType, PageInv
    <3> QED BY <3>1, <3>2
  <2> HIDE DEF n
  <2>3. /\ used' \in Seq(Nat) /\ Len(used') = Len(used) + 1 /\ Head(used') = n /\ IsInjective(used')
        /\ \A b : InChain(used', b) <=> b = n \/ InChain(used, b)
    <3>1. used \in Seq(Nat) /\ IsInjective(used) /\ n \in Nat /\ ~InChain(used, n)
      BY <2>2 DEF PagesType, PageInv
    <3> QED BY <2>1, <3>1, PushNew
  <2>4. new \in Blocks /\ new.page = n /\ new.at = 0 /\ new.sz = sz
    BY <1>1, <2>1, <2>2 DEF Block, Blocks
  <2>5. frontOffset' = sz
    BY <1>1, <2>4
  <2>6. PageInv'
    <3>1. Len(free') + Len(used') + Len(usedByReader') = nextPageIndex'
      <4>1. Len(free) \in Nat /\ Len(used) \in Nat /\ Len(usedByReader) \in Nat
        BY LenProperties DEF PagesType
      <4>2. Len(free) + Len(used) + Len(usedByReader) = nextPageIndex /\ nextPageIndex \in Nat
        BY DEF PagesType, PageInv
      <4>3. /\ Len(used') = Len(used) + 1 /\ Len(usedByReader') = Len(usedByReader)
            /\ Len(free') = (IF free = << >> THEN Len(free) ELSE Len(free) - 1)
            /\ nextPageIndex' = nextPageIndex + (IF free = << >> THEN 1 ELSE 0)
        BY <1>1, <2>1, <2>2, <2>3
      <4>4. CASE free = << >>
        BY <4>1, <4>2, <4>3, <4>4
      <4>5. CASE free # << >>
        BY <4>1, <4>2, <4>3, <4>5
      <4> QED BY <4>4, <4>5
    <3>2. \A b : InChain(free', b) \/ InChain(used', b) \/ InChain(usedByReader', b) => b < nextPageIndex'
      <4> SUFFICES ASSUME NEW b, InChain(free', b) \/ InChain(used', b) \/ InChain(usedByReader', b)
                   PROVE  b < nextPageIndex'
        OBVIOUS
      <4>1. CASE b = n
        BY <4>1, <2>2
      <4>2. CASE b # n
        <5>1. InChain(free, b) \/ InChain(used, b) \/ InChain(usedByReader, b)
          BY <4>2, <1>1, <2>2, <2>3
        <5>2. b \in Nat /\ b < nextPageIndex
          BY <5>1, ChainItems DEF PagesType, PageInv
        <5> QED BY <5>2, <2>2 DEF PagesType
      <4> QED BY <4>1, <4>2
    <3> QED BY <1>1, <2>2, <2>3, <3>1, <3>2 DEF PageInv
  <2>7. \A e \in Own : Placed(e)' /\ ~Overlap(e, new) /\ ~Overlap(new, e)
    <3> SUFFICES ASSUME NEW e \in Own PROVE Placed(e)' /\ ~Overlap(e, new) /\ ~Overlap(new, e)
      OBVIOUS
    <3>1. InChain(used, e.page)
      BY DEF MemoryInv, Placed
    <3>2. e.page # n
      BY <3>1, <2>2
    <3> QED BY <3>1, <3>2, <2>3, <2>4 DEF Placed, Overlap
  <2>8. \A e \in {new} : Placed(e)'
    BY <2>3, <2>4, <2>5, <1>1 DEF Placed
  <2>9. \A e, d \in Own \cup {new} : ~Overlap(e, d)
    BY <2>7 DEF MemoryInv, Overlap
  <2> QED BY <1>1, <2>2, <2>3, <2>4, <2>5, <2>6, <2>7, <2>8, <2>9
<1> QED BY <1>2, <1>3

\* A push, an event that is amended and one that is buffered take new memory, and nothing else changes hands.
LEMMA TakesMemory ==
  ASSUME EventPagesInv, NEW sz \in EventSizes, allocateEvent(sz), UNCHANGED handed,
         Own' \subseteq Own \cup {Allocated(sz)}
  PROVE  PageInv' /\ MemoryInv'
<1>1. /\ PageInv' /\ UNCHANGED usedByReader
      /\ \A e \in Own' : Placed(e)'
      /\ \A e, d \in Own' : ~Overlap(e, d)
  BY AllocateEvent DEF EventPagesInv
<1> QED BY <1>1 DEF EventPagesInv, MemoryInv, Overlap

\* Nor does anything where no page is taken and no event gets an owner.
LEMMA LeavesMemory ==
  ASSUME EventPagesInv, UNCHANGED chainVars, UNCHANGED handed, Own' \subseteq Own
  PROVE  PageInv' /\ MemoryInv'
<1> USE DEF chainVars
<1>1. PageInv'
  BY DEF EventPagesInv, PageInv
<1>2. \A e : Placed(e) => Placed(e)'
  BY DEF Placed
<1> QED BY <1>1, <1>2 DEF EventPagesInv, MemoryInv, Overlap

\* When events are handed to the reader, the batch of whoever still writes to them ends.
LEMMA BatchEnds ==
  ASSUME PagesType, BatchInv, nextBatch, toBeDelivered' = {}, UNCHANGED <<mineVars, bufferedVars>>
  PROVE  BatchInv' /\ Own' = {} /\ batchId' \in 0 .. MaxBatchId /\ batchIdIncrement' \in {0, 1}
<1> USE DEF mineVars, bufferedVars
<1>1. CASE batchId = MaxBatchId
  <2>1. UNCHANGED <<batchId, batchIdIncrement>> /\ \A id : checkHasChanged(id)'
    BY <1>1 DEF nextBatch, batchVars, checkHasChanged
  <2>2. Own' = {}
    BY <2>1 DEF Own, Mixed
  <2>3. BatchInv'
    BY <2>1 DEF BatchInv
  <2> QED BY <2>1, <2>2, <2>3 DEF PagesType
<1>2. CASE batchId # MaxBatchId
  <2>1. batchId' = batchId + batchIdIncrement /\ batchIdIncrement' = 0
    BY <1>2 DEF nextBatch
  <2>2. batchId' \in 0 .. MaxBatchId /\ batchId <= batchId'
    BY <1>2, <2>1, PagesAssumption DEF PagesType
  <2>3. ~checkHasChanged(mineBatch)' => mine = {}
    <3> SUFFICES ASSUME mineBatch = batchId', batchId' # MaxBatchId, mine # {} PROVE FALSE
      BY DEF checkHasChanged
    <3>1. mineBatch <= batchId
      BY DEF BatchInv
    <3>2. mineBatch = batchId
      BY <2>2, <3>1 DEF PagesType
    <3> QED BY <1>2, <2>1, <3>2 DEF checkHasChanged, BatchInv, PagesType
  <2>4. ~checkHasChanged(bufferedBatch)' => buffered = {}
    BY <1>2, <2>1 DEF checkHasChanged, BatchInv, PagesType
  <2>5. Own' = {}
    BY <2>3, <2>4 DEF Own, Mixed
  <2>6. bufferedBatch' <= batchId' /\ (mineBatch' <= batchId' \/ mineBatch' = MaxBatchId)
    BY <2>1, <2>2, PagesAssumption DEF BatchInv, PagesType
  <2>7. BatchInv'
    BY <2>3, <2>4, <2>6 DEF BatchInv
  <2> QED BY <2>1, <2>2, <2>5, <2>7
<1> QED BY <1>1, <1>2

\* What write() takes for the next events: the first of the pages, if there is one
LEMMA FirstOf ==
  ASSUME NEW S, NEW p \in Seq(S)
  PROVE  SubSeq(p, 1, IF p = << >> THEN 0 ELSE 1) = IF p = << >> THEN << >> ELSE <<Head(p)>>
<1>1. CASE p = << >>
  BY <1>1
<1>2. CASE p # << >>
  <2>1. Len(p) \in Nat \ {0} /\ Head(p) \in S /\ Head(p) = p[1]
    BY <1>2, EmptySeq, LenProperties, HeadTailProperties
  <2>2. SubSeq(p, 1, 1) \in Seq(S) /\ Len(SubSeq(p, 1, 1)) = 1 /\ SubSeq(p, 1, 1)[1] = p[1]
    BY <2>1, SubSeqProperties
  <2>3. <<Head(p)>> \in Seq(S) /\ Len(<<Head(p)>>) = 1 /\ <<Head(p)>>[1] = p[1]
    BY <2>1
  <2>4. SubSeq(p, 1, 1) = <<Head(p)>>
    <3>1. \A i \in 1 .. 1 : SubSeq(p, 1, 1)[i] = <<Head(p)>>[i]
      BY <2>2, <2>3
    <3> QED BY <2>2, <2>3, <3>1, SeqEqual
  <2> QED BY <1>2, <2>4
<1> QED BY <1>1, <1>2

\* The first item of a sequence and the others, as far as there are any
First(p) == IF p = << >> THEN << >> ELSE <<Head(p)>>
Rest(p)  == IF p = << >> THEN p ELSE Tail(p)

\* Together they are all of it, each item once.
LEMMA TakeFirst ==
  ASSUME NEW S, NEW p \in Seq(S)
  PROVE  LET u == First(p)
             f == Rest(p) IN
         /\ u \in Seq(S) /\ f \in Seq(S) /\ Len(u) + Len(f) = Len(p)
         /\ \A b : InChain(p, b) <=> InChain(u, b) \/ InChain(f, b)
         /\ IsInjective(p) => /\ IsInjective(u) /\ IsInjective(f)
                              /\ \A b : ~(InChain(u, b) /\ InChain(f, b))
<1>1. CASE p = << >>
  <2>1. First(p) = p /\ Rest(p) = p
    BY <1>1 DEF First, Rest
  <2>2. Len(p) = 0 /\ \A b : ~InChain(p, b)
    BY <1>1, EmptyChain
  <2> QED BY <2>1, <2>2
<1>2. CASE p # << >>
  <2>1. First(p) = <<Head(p)>> /\ Rest(p) = Tail(p)
    BY <1>2 DEF First, Rest
  <2>2. Head(p) \in S /\ Len(Tail(p)) = Len(p) - 1 /\ Len(p) \in Nat
    BY <1>2, LenProperties, HeadTailProperties
  <2>3. /\ <<Head(p)>> \in Seq(S) /\ Len(<<Head(p)>>) = 1 /\ IsInjective(<<Head(p)>>)
        /\ \A b : InChain(<<Head(p)>>, b) <=> b = Head(p)
    BY <2>2, OneItem
  <2>4. /\ Tail(p) \in Seq(S) /\ \A b : InChain(p, b) <=> InChain(Tail(p), b) \/ b = Head(p)
        /\ IsInjective(p) => IsInjective(Tail(p)) /\ ~InChain(Tail(p), Head(p))
    BY <1>2, HeadChain
  <2> QED BY <2>1, <2>2, <2>3, <2>4
<1> QED BY <1>1, <1>2

\* synchronizeLocalEvents(): the pages change places, and nothing is in use.
LEMMA LocalKeeps ==
  ASSUME EventPagesInv, synchronizeLocalEvents
  PROVE  EventPagesInv'
<1> USE DEF EventPagesInv
<1>1. /\ handed' = toBeDelivered /\ toBeDelivered' = {}
      /\ free' = free \o usedByReader /\ usedByReader' = used /\ used' = << >> /\ frontOffset' = 0
      /\ nextBatch /\ UNCHANGED <<local, nextPageIndex, mineVars, bufferedVars>>
  BY DEF synchronizeLocalEvents
<1>2. BatchInv' /\ Own' = {} /\ batchId' \in 0 .. MaxBatchId /\ batchIdIncrement' \in {0, 1}
  BY <1>1, BatchEnds
<1>3. /\ free' \in Seq(Nat) /\ IsInjective(free') /\ Len(free') = Len(free) + Len(usedByReader)
      /\ \A b : InChain(free', b) <=> InChain(free, b) \/ InChain(usedByReader, b)
  BY <1>1, ConcatChain, ConcatProperties DEF PagesType, PageInv
<1>4. used' \in Seq(Nat) /\ Len(used') = 0 /\ IsInjective(used') /\ \A b : ~InChain(used', b)
  BY <1>1, EmptyChain
<1>5. PagesType'
  BY <1>1, <1>2, <1>3, <1>4 DEF PagesType, mineVars, bufferedVars
<1>6. PageInv'
  <2>1. Len(free') + Len(used') + Len(usedByReader') = nextPageIndex'
    BY <1>1, <1>3, <1>4, LenProperties DEF PagesType, PageInv
  <2> QED BY <1>1, <1>3, <1>4, <2>1 DEF PageInv
<1>7. MemoryInv'
  <2>1. toBeDelivered \subseteq Own
    BY DEF Own
  <2> QED BY <1>1, <1>2, <2>1 DEF MemoryInv, Placed, Overlap
<1> QED BY <1>2, <1>5, <1>6, <1>7

\* write(): with nothing to write the reader's pages are free, otherwise they are taken again.
LEMMA WriteKeeps ==
  ASSUME EventPagesInv, write
  PROVE  EventPagesInv'
<1> USE DEF EventPagesInv
<1> DEFINE pages == free \o usedByReader
<1>1. /\ pages \in Seq(Nat) /\ IsInjective(pages) /\ Len(pages) = Len(free) + Len(usedByReader)
      /\ \A b : InChain(pages, b) <=> InChain(free, b) \/ InChain(usedByReader, b)
  BY ConcatChain, ConcatProperties DEF PagesType, PageInv
<1>2. UNCHANGED <<local, nextPageIndex, mineVars, bufferedVars>> /\ handed' = toBeDelivered /\ toBeDelivered' = {}
  BY DEF write
<1>3. CASE toBeDelivered = {}
  <2>1. free' = pages /\ usedByReader' = << >> /\ UNCHANGED <<used, frontOffset, batchVars>>
    BY <1>3 DEF write
  <2>2. PagesType'
    BY <1>1, <1>2, <1>3, <2>1 DEF PagesType, mineVars, bufferedVars, batchVars
  <2>3. PageInv'
    <3>1. Len(free') + Len(used') + Len(usedByReader') = nextPageIndex'
      BY <1>1, <1>2, <2>1, LenProperties DEF PagesType, PageInv
    <3> QED BY <1>1, <1>2, <2>1, <3>1, EmptyChain DEF PageInv
  <2>4. BatchInv' /\ Own' = Own
    BY <1>2, <1>3, <2>1 DEF BatchInv, Own, Mixed, checkHasChanged, mineVars, bufferedVars, batchVars
  <2>5. MemoryInv'
    BY <1>2, <1>3, <2>1, <2>4 DEF MemoryInv, Placed, Overlap
  <2> QED BY <2>2, <2>3, <2>4, <2>5
<1>4. CASE toBeDelivered # {}
  <2>1. /\ usedByReader' = used /\ frontOffset' = 0 /\ nextBatch
        /\ used' = SubSeq(pages, 1, IF pages = << >> THEN 0 ELSE 1)
        /\ free' = IF pages = << >> THEN pages ELSE Tail(pages)
    BY <1>4 DEF write
  <2>2. BatchInv' /\ Own' = {} /\ batchId' \in 0 .. MaxBatchId /\ batchIdIncrement' \in {0, 1}
    BY <1>2, <2>1, BatchEnds
  <2>3. /\ used' \in Seq(Nat) /\ free' \in Seq(Nat) /\ Len(used') + Len(free') = Len(pages)
        /\ \A b : InChain(pages, b) <=> InChain(used', b) \/ InChain(free', b)
        /\ IsInjective(used') /\ IsInjective(free')
        /\ \A b : ~(InChain(used', b) /\ InChain(free', b))
    <3> DEFINE u == used'
               f == free'
    <3>1. u = First(pages) /\ f = Rest(pages)
      BY <1>1, <2>1, FirstOf DEF First, Rest
    <3> HIDE DEF pages, u, f
    <3>2. /\ u \in Seq(Nat) /\ f \in Seq(Nat) /\ Len(u) + Len(f) = Len(pages)
          /\ \A b : InChain(pages, b) <=> InChain(u, b) \/ InChain(f, b)
          /\ IsInjective(u) /\ IsInjective(f) /\ \A b : ~(InChain(u, b) /\ InChain(f, b))
      BY <1>1, <3>1, TakeFirst
    <3> QED BY <3>2 DEF u, f
  <2>4. PagesType'
    BY <1>2, <2>1, <2>2, <2>3 DEF PagesType, mineVars, bufferedVars
  <2>5. PageInv'
    <3>1. /\ Len(free) \in Nat /\ Len(usedByReader) \in Nat /\ Len(used) \in Nat
          /\ Len(free') \in Nat /\ Len(used') \in Nat /\ Len(usedByReader') = Len(used)
      BY <2>1, <2>3, LenProperties DEF PagesType
    <3>2. /\ Len(used') + Len(free') = Len(free) + Len(usedByReader)
          /\ Len(free) + Len(used) + Len(usedByReader) = nextPageIndex /\ nextPageIndex' = nextPageIndex
      BY <1>1, <1>2, <2>3 DEF PageInv
    <3>3. Len(free') + Len(used') + Len(usedByReader') = nextPageIndex'
      BY <3>1, <3>2
    <3> QED BY <1>1, <1>2, <2>1, <2>3, <3>3 DEF PageInv
  <2>6. MemoryInv'
    <3>1. toBeDelivered \subseteq Own
      BY DEF Own
    <3> QED BY <1>2, <2>1, <2>2, <3>1 DEF MemoryInv, Placed, Overlap
  <2> QED BY <2>2, <2>4, <2>5, <2>6
<1> QED BY <1>3, <1>4

\* writeFailed(): all pages are free but one, and no batch is worth anything.
LEMMA WriteFailedKeeps ==
  ASSUME EventPagesInv, ~HoldsAtFailure, writeFailed
  PROVE  EventPagesInv'
<1> USE DEF EventPagesInv
<1> DEFINE pages == free \o usedByReader \o used
<1>1. /\ handed' = {} /\ toBeDelivered' = {} /\ used' = <<Head(pages)>> /\ free' = Tail(pages)
      /\ usedByReader' = << >> /\ frontOffset' = 0
      /\ mineBatch # batchId /\ bufferedBatch # batchId
      /\ UNCHANGED <<local, nextPageIndex, batchVars, mineVars, bufferedVars>>
  BY DEF writeFailed
<1>2. /\ pages \in Seq(Nat) /\ IsInjective(pages)
      /\ \A b : InChain(pages, b) <=> InChain(free, b) \/ InChain(usedByReader, b) \/ InChain(used, b)
  <2>1. /\ free \o usedByReader \in Seq(Nat) /\ IsInjective(free \o usedByReader)
        /\ \A b : InChain(free \o usedByReader, b) <=> InChain(free, b) \/ InChain(usedByReader, b)
    BY ConcatChain DEF PagesType, PageInv
  <2> QED BY <2>1, ConcatChain DEF PagesType, PageInv
<1>3. Len(pages) = nextPageIndex /\ pages # << >>
  <2>1. /\ Len(free) \in Nat /\ Len(usedByReader) \in Nat /\ Len(used) \in Nat
        /\ Len(free) + Len(used) + Len(usedByReader) = nextPageIndex /\ nextPageIndex \in Nat \ {0}
    BY LenProperties DEF PagesType, PageInv
  <2>2. free \o usedByReader \in Seq(Nat) /\ Len(free \o usedByReader) = Len(free) + Len(usedByReader)
    BY ConcatProperties DEF PagesType
  <2>3. Len(pages) = Len(free \o usedByReader) + Len(used)
    BY <2>2, ConcatProperties DEF PagesType
  <2> QED BY <1>2, <2>1, <2>2, <2>3, EmptySeq
<1>4. /\ used' \in Seq(Nat) /\ IsInjective(used') /\ Len(used') = 1
      /\ free' \in Seq(Nat) /\ IsInjective(free') /\ Len(free') = nextPageIndex - 1
      /\ \A b : InChain(used', b) <=> b = Head(pages)
      /\ \A b : InChain(pages, b) <=> InChain(free', b) \/ b = Head(pages)
      /\ ~InChain(free', Head(pages))
  <2> DEFINE u == used'
             f == free'
  <2>1. u = <<Head(pages)>> /\ f = Tail(pages)
    BY <1>1
  <2> HIDE DEF pages, u, f
  <2>2. Head(pages) \in Nat /\ Len(f) = nextPageIndex - 1
    BY <1>2, <1>3, <2>1, HeadTailProperties
  <2>3. u \in Seq(Nat) /\ IsInjective(u) /\ Len(u) = 1 /\ \A b : InChain(u, b) <=> b = Head(pages)
    BY <2>1, <2>2, OneItem
  <2>4. /\ f \in Seq(Nat) /\ IsInjective(f)
        /\ \A b : InChain(pages, b) <=> InChain(f, b) \/ b = Head(pages)
        /\ ~InChain(f, Head(pages))
    BY <1>2, <1>3, <2>1, HeadChain
  <2> QED BY <2>2, <2>3, <2>4 DEF u, f
<1>5. PagesType'
  BY <1>1, <1>4 DEF PagesType, batchVars, mineVars, bufferedVars
<1>6. PageInv'
  <2>1. Len(free') + Len(used') + Len(usedByReader') = nextPageIndex'
    BY <1>1, <1>4 DEF PagesType
  <2>2. \A b : ~InChain(usedByReader', b)
    BY <1>1, EmptyChain
  <2> HIDE DEF pages
  <2>3. /\ \A b : ~(InChain(free', b) /\ InChain(used', b))
        /\ \A b : InChain(free', b) \/ InChain(used', b) => b < nextPageIndex
    BY <1>2, <1>4 DEF PageInv
  <2>4. IsInjective(usedByReader')
    BY <1>1, EmptyChain
  <2> QED BY <1>1, <1>4, <2>1, <2>2, <2>3, <2>4 DEF PageInv
<1>7. BatchInv' /\ Own' = {}
  BY <1>1 DEF BatchInv, Own, Mixed, checkHasChanged, batchVars, mineVars, bufferedVars
<1>8. MemoryInv'
  BY <1>1, <1>7 DEF MemoryInv
<1> QED BY <1>5, <1>6, <1>7, <1>8

\* What takes memory
LEMMA PushesKeep ==
  ASSUME EventPagesInv, NEW sz \in EventSizes,
         (\E amended \in BOOLEAN : push(sz, amended)) \/ amend(sz) \/ pushBuffered(sz)
  PROVE  EventPagesInv'
<1> USE DEF EventPagesInv
<1>1. /\ Allocated(sz) \in Blocks /\ free' \in Seq(Nat) /\ used' \in Seq(Nat) /\ UNCHANGED usedByReader
      /\ frontOffset' \in Nat /\ nextPageIndex' \in Nat \ {0} /\ allocateEvent(sz)
  BY AllocateEvent DEF push, amend, pushBuffered
<1>2. ASSUME NEW amended \in BOOLEAN, push(sz, amended) PROVE EventPagesInv'
  <2>1. /\ toBeDelivered' = toBeDelivered \cup {Allocated(sz)} /\ UNCHANGED <<local, batchId, handed, bufferedVars>>
        /\ \/ mine' = {Allocated(sz)} /\ mineBatch' = batchId /\ batchIdIncrement' = 1
           \/ UNCHANGED <<mineVars, batchIdIncrement>>
    BY <1>2 DEF push, getCurrentBatchId
  <2>2. PagesType'
    BY <1>1, <2>1 DEF PagesType, mineVars, bufferedVars
  <2>3. BatchInv' /\ Own' \subseteq Own \cup {Allocated(sz)}
    BY <2>1 DEF BatchInv, PagesType, Own, Mixed, checkHasChanged, mineVars, bufferedVars
  <2> QED BY <1>1, <2>1, <2>2, <2>3, TakesMemory
<1>3. CASE amend(sz)
  <2>1. /\ toBeDelivered' = toBeDelivered \cup {Allocated(sz)} /\ mine' = mine \cup {Allocated(sz)}
        /\ batchIdIncrement' = 1 /\ ~checkHasChanged(mineBatch) /\ mine # {}
        /\ UNCHANGED <<local, batchId, handed, mineBatch, bufferedVars>>
    BY <1>3 DEF amend, getCurrentBatchId
  <2>2. PagesType'
    BY <1>1, <2>1 DEF PagesType, bufferedVars
  <2>3. BatchInv' /\ Own' \subseteq Own \cup {Allocated(sz)}
    BY <2>1 DEF BatchInv, PagesType, Own, Mixed, checkHasChanged, bufferedVars
  <2> QED BY <1>1, <2>1, <2>2, <2>3, TakesMemory
<1>4. CASE pushBuffered(sz)
  <2>1. /\ buffered' = buffered \cup {Allocated(sz)} /\ bufferedBatch' = batchId /\ batchIdIncrement' = 1
        /\ ~Mixed /\ UNCHANGED <<local, batchId, eventVars, mineVars>>
    BY <1>4 DEF pushBuffered, isPushCommitted, getCurrentBatchId
  <2>2. PagesType'
    BY <1>1, <2>1 DEF PagesType, eventVars, mineVars
  <2>3. BatchInv' /\ Own' \subseteq Own \cup {Allocated(sz)}
    BY <2>1 DEF BatchInv, PagesType, Own, Mixed, checkHasChanged, eventVars, mineVars
  <2> QED BY <1>1, <2>1, <2>2, <2>3, TakesMemory DEF eventVars
<1> QED BY <1>2, <1>3, <1>4

\* What a remainder leaves alone
LEMMA ModSmall ==
  ASSUME NEW m \in Nat, NEW a \in Nat, a < m
  PROVE  a % m = a
OBVIOUS

\* What takes none
LEMMA OthersKeep ==
  ASSUME EventPagesInv,
         \/ read \/ forceChange \/ pushFails \/ flush \/ setDestinationActorId \/ clearBuffered
         \/ \E sz \in EventSizes : pushNoMemory(sz) \/ pushBufferedNoMemory(sz)
  PROVE  EventPagesInv'
<1> USE DEF EventPagesInv
<1> SUFFICES /\ UNCHANGED <<local, chainVars, handed, batchId>> /\ PagesType' /\ BatchInv'
             /\ Own' \subseteq Own
  BY LeavesMemory
<1> USE DEF chainVars, batchVars, syncVars, eventVars, mineVars, bufferedVars
<1>1. CASE read \/ \E sz \in EventSizes : pushNoMemory(sz)
  <2>1. UNCHANGED <<local, chainVars, eventVars, batchVars, mineVars, bufferedVars>>
    BY <1>1 DEF read, pushNoMemory
  <2> QED BY <2>1 DEF PagesType, BatchInv, checkHasChanged, Own, Mixed
<1>2. CASE forceChange
  <2>1. /\ mineBatch' = (batchId - 1) % (MaxBatchId + 1) /\ mine' = {} /\ batchIdIncrement' = 1
        /\ UNCHANGED <<local, chainVars, batchId, eventVars, bufferedVars>>
    BY <1>2 DEF forceChange, getCurrentBatchId
  <2>2. mineBatch' \in 0 .. MaxBatchId /\ (mineBatch' <= batchId \/ mineBatch' = MaxBatchId)
    <3>1. CASE batchId = 0
      BY <2>1, <3>1, PagesAssumption
    <3>2. CASE batchId > 0
      <4>1. batchId - 1 \in Nat /\ MaxBatchId + 1 \in Nat /\ batchId - 1 < MaxBatchId + 1
        BY <3>2, PagesAssumption DEF PagesType
      <4>2. mineBatch' = batchId - 1
        BY <2>1, <4>1, ModSmall
      <4> QED BY <4>1, <4>2, <3>2, PagesAssumption DEF PagesType
    <3> QED BY <3>1, <3>2 DEF PagesType
  <2> QED BY <2>1, <2>2 DEF PagesType, BatchInv, checkHasChanged, Own, Mixed
<1>3. CASE pushFails \/ setDestinationActorId
  <2>1. /\ buffered' = {} /\ bufferedBatch' = batchId /\ batchIdIncrement' = 1
        /\ UNCHANGED <<local, chainVars, batchId, eventVars, mineVars>>
    BY <1>3 DEF pushFails, setDestinationActorId, isPushCommitted, getCurrentBatchId
  <2> QED BY <2>1 DEF PagesType, BatchInv, checkHasChanged, Own, Mixed
<1>4. CASE flush
  <2>1. /\ toBeDelivered' = toBeDelivered \cup buffered /\ buffered' = {} /\ ~Mixed
        /\ bufferedBatch' = batchId /\ batchIdIncrement' = 1
        /\ UNCHANGED <<local, chainVars, batchId, handed, mineVars>>
    BY <1>4 DEF flush, isPushCommitted, getCurrentBatchId
  <2> QED BY <2>1 DEF PagesType, BatchInv, checkHasChanged, Own, Mixed
<1>5. CASE clearBuffered
  <2>1. buffered' = {} /\ UNCHANGED <<local, chainVars, batchVars, eventVars, mineVars, bufferedBatch>>
    BY <1>5 DEF clearBuffered
  <2> QED BY <2>1 DEF PagesType, BatchInv, checkHasChanged, Own, Mixed
<1>6. CASE \E sz \in EventSizes : pushBufferedNoMemory(sz)
  <2>1. /\ ~Mixed /\ bufferedBatch' = batchId /\ batchIdIncrement' = 1
        /\ UNCHANGED <<local, chainVars, batchId, eventVars, mineVars, buffered>>
    BY <1>6 DEF pushBufferedNoMemory, isPushCommitted, getCurrentBatchId
  <2> QED BY <2>1 DEF PagesType, BatchInv, checkHasChanged, Own, Mixed
<1> QED BY <1>1, <1>2, <1>3, <1>4, <1>5, <1>6

\* A new cache has a page to write to and one that is free.
LEMMA EventPagesInit == PagesInit => EventPagesInv
<1> SUFFICES ASSUME PagesInit PROVE EventPagesInv
  OBVIOUS
<1>1. /\ free = <<0>> /\ used = <<1>> /\ usedByReader = << >> /\ frontOffset = 0 /\ nextPageIndex = 2
      /\ batchId = 0 /\ batchIdIncrement = 0 /\ local \in BOOLEAN
      /\ toBeDelivered = {} /\ handed = {} /\ mine = {} /\ mineBatch = 0 /\ buffered = {} /\ bufferedBatch = 0
  BY DEF PagesInit
<1>2. PagesType
  BY <1>1, PagesAssumption DEF PagesType
<1>3. PageInv
  <2>1. /\ Len(free) = 1 /\ IsInjective(free) /\ \A b : InChain(free, b) <=> b = 0
        /\ Len(used) = 1 /\ IsInjective(used) /\ \A b : InChain(used, b) <=> b = 1
    BY <1>1, OneItem, 0 \in Nat, 1 \in Nat
  <2>2. Len(usedByReader) = 0 /\ IsInjective(usedByReader) /\ \A b : ~InChain(usedByReader, b)
    BY <1>1, EmptyChain
  <2> QED BY <1>1, <2>1, <2>2 DEF PageInv
<1>4. BatchInv /\ Own = {}
  BY <1>1 DEF BatchInv, Own, Mixed
<1>5. MemoryInv
  BY <1>1, <1>4 DEF MemoryInv
<1> QED BY <1>2, <1>3, <1>4, <1>5 DEF EventPagesInv

\* As many pages as the sequence is long, when none is there twice
LEMMA ItemCount ==
  ASSUME NEW S, NEW s \in Seq(S), IsInjective(s)
  PROVE  Cardinality(ToSet(s)) = Len(s)
<1> DEFINE f == [i \in 1 .. Len(s) |-> s[i]]
<1>1. Len(s) \in Nat /\ DOMAIN s = 1 .. Len(s)
  BY LenProperties
<1>2. f \in Bijection(1 .. Len(s), ToSet(s))
  <2>1. f \in Surjection(1 .. Len(s), ToSet(s))
    BY <1>1 DEF Surjection, ToSet
  <2>2. f \in Injection(1 .. Len(s), ToSet(s))
    BY <1>1 DEF Injection, ToSet, IsInjective
  <2> QED BY <2>1, <2>2 DEF Bijection
<1> QED BY <1>1, <1>2, FS_CountingElements DEF ExistsBijection

\* Events that are amended, buffered, handed over and given up are never written over,
\* whichever batches and pages come round again, unless a Batch or a pipe is used across
\* the failure of a node.
THEOREM EventsAlwaysKeepTheirMemory ==
  ASSUME ~HoldsAtFailure PROVE PagesSpec => []EventsKeepTheirMemory
<1>1. EventPagesInv /\ [PagesNext]_pagesVars => EventPagesInv'
  <2> SUFFICES ASSUME EventPagesInv, [PagesNext]_pagesVars PROVE EventPagesInv'
    OBVIOUS
  <2>1. CASE PagesNext
    <3>1. CASE write BY <3>1, WriteKeeps
    <3>2. CASE synchronizeLocalEvents BY <3>2, LocalKeeps
    <3>3. CASE writeFailed BY <3>3, WriteFailedKeeps
    <3>4. CASE \/ read \/ forceChange \/ pushFails \/ flush \/ setDestinationActorId \/ clearBuffered
               \/ \E sz \in EventSizes : pushNoMemory(sz) \/ pushBufferedNoMemory(sz)
      BY <3>4, OthersKeep
    <3>5. CASE \E sz \in EventSizes :
                 (\E amended \in BOOLEAN : push(sz, amended)) \/ amend(sz) \/ pushBuffered(sz)
      BY <3>5, PushesKeep
    <3> QED BY <2>1, <3>1, <3>2, <3>3, <3>4, <3>5 DEF PagesNext
  <2>2. CASE UNCHANGED pagesVars
    <3> USE DEF pagesVars, chainVars, batchVars, syncVars, eventVars, mineVars, bufferedVars
    <3>1. PagesType' /\ BatchInv' /\ Own' = Own
      BY <2>2 DEF EventPagesInv, PagesType, BatchInv, checkHasChanged, Own, Mixed
    <3>2. PageInv' /\ MemoryInv'
      BY <2>2, <3>1, LeavesMemory
    <3> QED BY <3>1, <3>2 DEF EventPagesInv
  <2> QED BY <2>1, <2>2
<1>2. EventPagesInv => EventsKeepTheirMemory
  <2> SUFFICES ASSUME EventPagesInv PROVE EventsKeepTheirMemory
    OBVIOUS
  <2> USE DEF EventPagesInv
  <2>1. /\ \A e \in handed : InChain(usedByReader, e.page)
        /\ \A e \in Own : InChain(used, e.page) /\ (e.page = Head(used) => e.at + e.sz <= frontOffset)
    BY DEF MemoryInv, Placed
  <2>2. \A e, d \in handed \cup Own : ~Overlap(e, d)
    <3>1. \A e \in handed, d \in Own : e.page # d.page
      BY <2>1 DEF PageInv
    <3> QED BY <3>1 DEF MemoryInv, Overlap
  <2>3. ~checkHasChanged(mineBatch) => mine \subseteq toBeDelivered
    BY DEF BatchInv
  <2>4. LET pages == free \o used \o usedByReader IN
        Len(pages) = nextPageIndex /\ Cardinality(ToSet(pages)) = Len(pages)
    <3> DEFINE pages == free \o used \o usedByReader
    <3>1. /\ free \o used \in Seq(Nat) /\ IsInjective(free \o used) /\ Len(free \o used) = Len(free) + Len(used)
          /\ \A b : InChain(free \o used, b) <=> InChain(free, b) \/ InChain(used, b)
      BY ConcatChain, ConcatProperties DEF PagesType, PageInv
    <3>2. pages \in Seq(Nat) /\ IsInjective(pages) /\ Len(pages) = Len(free) + Len(used) + Len(usedByReader)
      <4>1. usedByReader \in Seq(Nat) /\ IsInjective(usedByReader)
        BY DEF PagesType, PageInv
      <4>2. \A b : ~(InChain(free \o used, b) /\ InChain(usedByReader, b))
        BY <3>1 DEF PageInv
      <4>3. pages \in Seq(Nat) /\ IsInjective(pages)
        BY <3>1, <4>1, <4>2, ConcatChain
      <4>4. Len(pages) = Len(free \o used) + Len(usedByReader)
        BY <3>1, <4>1, ConcatProperties
      <4> QED BY <3>1, <4>3, <4>4
    <3>3. Cardinality(ToSet(pages)) = Len(pages)
      BY <3>2, ItemCount
    <3> QED BY <3>2, <3>3 DEF PageInv
  <2> QED BY <2>1, <2>2, <2>3, <2>4 DEF EventsKeepTheirMemory, InChain
<1> QED BY <1>1, <1>2, EventPagesInit, PTL DEF PagesSpec

-----------------------------------------------------------------------------
(* Timer: a timer that is set is never forgotten.                          *)

TimerType ==
  /\ now \in Nat \ {0} /\ home \in Homes
  /\ proxy \in [TimerProxies -> [startTime : Nat, duration : Nat, repeatFlag : BOOLEAN]]
  /\ timerProxyChain \in [TimerCores -> Seq(TimerProxies)]
  /\ timedOutTimerProxyChain \in [TimerCores -> Seq(TimerProxies)]
  /\ handler \in [TimerCores -> [on : BOOLEAN, time : Nat, minRemain : Nat]]
  /\ getNowTimeInProgressFlag \in [TimerCores -> BOOLEAN]
  /\ sendGetEventTryCallback \in [TimerCores -> [duration : Nat, registered : BOOLEAN]]
  /\ gets \in [TimerCores -> Seq(Nat)] /\ timeOuts \in [TimerCores -> Seq(Nat \ {0})]
  /\ timerClient \in [TimerCores -> [startTime : Nat, duration : Nat, inProgressFlag : BOOLEAN, retry : BOOLEAN]]
  /\ serviceCallback \in BOOLEAN

\* Asked(c) is not empty, and its last item
Requested(c) == sendGetEventTryCallback[c].registered \/ gets[c] # << >> \/ timerClient[c].inProgressFlag
LastAsked(c) ==
  IF sendGetEventTryCallback[c].registered THEN sendGetEventTryCallback[c].duration
  ELSE IF gets[c] # << >> THEN gets[c][Len(gets[c])]
  ELSE timerClient[c].duration

Set(c, p) == InChain(timerProxyChain[c], p)
TimedOut(c, p) == InChain(timedOutTimerProxyChain[c], p)
Started(p) == proxy[p].startTime # Unknown
DueAt(p) == proxy[p].startTime + proxy[p].duration

\* A proxy is in one chain of its core; those that are not started are in front.
ProxyOf(c) ==
  /\ IsInjective(timerProxyChain[c]) /\ IsInjective(timedOutTimerProxyChain[c])
  /\ \A p : Set(c, p) \/ TimedOut(c, p) => p \in DOMAIN home /\ home[p] = c
  /\ \A p : ~(Set(c, p) /\ TimedOut(c, p))
  /\ \A i, j \in DOMAIN timerProxyChain[c] :
       i < j /\ Started(timerProxyChain[c][i]) => Started(timerProxyChain[c][j])

\* minRemainToTimeOut is right for the proxies that are started.
RemainOf(c) ==
  handler[c].on =>
    /\ handler[c].time # Unknown
    /\ \A p : Set(c, p) /\ Started(p) => handler[c].time + handler[c].minRemain <= DueAt(p)

\* A request for the time as of now that is in progress has been answered or is the last.
NowOf(c) == getNowTimeInProgressFlag[c] /\ ~Answered(c) => Requested(c) /\ LastAsked(c) = 0

\* TimersCovered, for one core
CoverOf(c) ==
  ~handler[c].on /\ ~Answered(c) =>
    \A p : Set(c, p) =>
      /\ Requested(c)
      /\ LastAsked(c) # 0 => Started(p) /\ handler[c].time + LastAsked(c) <= DueAt(p)

CoreOf(c) == ProxyOf(c) /\ RemainOf(c) /\ NowOf(c) /\ CoverOf(c)

ClientInv == (\E c \in TimerCores : timerClient[c].inProgressFlag) => serviceCallback

TimerInv == TimerType /\ (\A c \in TimerCores : CoreOf(c)) /\ ClientInv

\* Every proxy that is there has a core.
LEMMA HomeIs ==
  ASSUME TimerType
  PROVE  DOMAIN home \subseteq TimerProxies /\ \A p \in DOMAIN home : home[p] \in TimerCores
<1>1. PICK ps \in SUBSET TimerProxies : home \in [ps -> TimerCores]
  BY TimerAssumption DEF TimerType
<1> QED BY <1>1

\* Removal keeps the order of the others.
LEMMA WithoutOrder ==
  ASSUME NEW S, NEW s \in Seq(S), NEW a,
         NEW i \in DOMAIN Without(s, a), NEW j \in DOMAIN Without(s, a), i < j
  PROVE  \E k, l \in DOMAIN s : k < l /\ Without(s, a)[i] = s[k] /\ Without(s, a)[j] = s[l]
<1> DEFINE n == IF InChain(s, a) THEN Len(s) - 1 ELSE Len(s)
<1>1. Len(s) \in Nat /\ DOMAIN s = 1 .. Len(s)
  BY LenProperties
<1>2. DOMAIN Without(s, a) = 1 .. n
  BY DEF Without
<1>3. \A k \in 1 .. n : Without(s, a)[k] = IF \E m \in 1 .. k : s[m] = a THEN s[k + 1] ELSE s[k]
  BY DEF Without
<1>4. i \in 1 .. n /\ j \in 1 .. n /\ n \in Int /\ n <= Len(s)
  BY <1>1, <1>2
<1>5. \A k \in 1 .. n : \A m \in 1 .. k : s[m] = a => k + 1 \in 1 .. Len(s)
  <2> SUFFICES ASSUME NEW k \in 1 .. n, NEW m \in 1 .. k, s[m] = a PROVE k + 1 \in 1 .. Len(s)
    OBVIOUS
  <2>1. m \in DOMAIN s
    BY <1>1, <1>4
  <2>2. InChain(s, a)
    BY <2>1 DEF InChain
  <2> QED BY <1>1, <2>2
<1> HIDE DEF n
<1>6. CASE \E m \in 1 .. i : s[m] = a
  <2>1. \E m \in 1 .. j : s[m] = a
    BY <1>4, <1>6
  <2>2. i + 1 \in DOMAIN s /\ j + 1 \in DOMAIN s
    BY <1>1, <1>4, <1>5, <1>6, <2>1
  <2>3. Without(s, a)[i] = s[i + 1] /\ Without(s, a)[j] = s[j + 1]
    BY <1>3, <1>4, <1>6, <2>1
  <2>4. i + 1 < j + 1
    BY <1>4
  <2> QED BY <2>2, <2>3, <2>4
<1>7. CASE ~\E m \in 1 .. i : s[m] = a
  <2>1. Without(s, a)[i] = s[i] /\ i \in DOMAIN s /\ j \in DOMAIN s
    BY <1>1, <1>3, <1>4, <1>7
  <2>2. CASE \E m \in 1 .. j : s[m] = a
    <3>1. j + 1 \in DOMAIN s /\ Without(s, a)[j] = s[j + 1] /\ i < j + 1
      BY <1>1, <1>3, <1>4, <1>5, <2>2
    <3> QED BY <2>1, <3>1
  <2>3. CASE ~\E m \in 1 .. j : s[m] = a
    <3>1. Without(s, a)[j] = s[j]
      BY <1>3, <1>4, <2>3
    <3> QED BY <2>1, <3>1
  <2> QED BY <2>2, <2>3
<1> QED BY <1>6, <1>7

\* The smallest of some times
LEMMA MinOfTimes ==
  ASSUME NEW T, T \subseteq Nat, T # {}
  PROVE  Min(T) \in T /\ \A t \in T : Min(T) <= t
<1>1. \E x \in T : \A y \in T : x <= y
  BY LeastNat
<1> QED BY <1>1 DEF Min

\* The last item of a queue
LEMMA LastItem ==
  ASSUME NEW S, NEW s \in Seq(S), NEW d \in S
  PROVE  Append(s, d) \in Seq(S) /\ Append(s, d) # << >> /\ Append(s, d)[Len(Append(s, d))] = d
<1>1. /\ Append(s, d) \in Seq(S) /\ Len(Append(s, d)) = Len(s) + 1
      /\ Append(s, d)[Len(s) + 1] = d /\ Len(s) \in Nat
  BY AppendProperties, LenProperties
<1> QED BY <1>1, EmptySeq

\* getTime() leaves the duration as the last one that was asked for.
LEMMA GetTime ==
  ASSUME TimerType, NEW c \in TimerCores, NEW d \in Nat, getTime(c, d)
  PROVE  /\ getNowTimeInProgressFlag' \in [TimerCores -> BOOLEAN]
         /\ sendGetEventTryCallback' \in [TimerCores -> [duration : Nat, registered : BOOLEAN]]
         /\ gets' \in [TimerCores -> Seq(Nat)]
         /\ \A e \in TimerCores : e # c => /\ getNowTimeInProgressFlag'[e] = getNowTimeInProgressFlag[e]
                                           /\ sendGetEventTryCallback'[e] = sendGetEventTryCallback[e]
                                           /\ gets'[e] = gets[e]
         /\ \/ d = 0 /\ getNowTimeInProgressFlag[c] /\ UNCHANGED requestVars
            \/ /\ getNowTimeInProgressFlag'[c] => d = 0
               /\ \/ sendGetEventTryCallback'[c].registered /\ sendGetEventTryCallback'[c].duration = d
                  \/ /\ ~sendGetEventTryCallback'[c].registered
                     /\ gets'[c] # << >> /\ gets'[c][Len(gets'[c])] = d
<1>1. CASE UNCHANGED requestVars /\ d = 0 /\ getNowTimeInProgressFlag[c]
  BY <1>1 DEF requestVars, TimerType
<1>2. CASE getNowTimeInProgressFlag' = [getNowTimeInProgressFlag EXCEPT ![c] = (d = 0)] /\ Push(c, d)
  <2>1. /\ getNowTimeInProgressFlag' \in [TimerCores -> BOOLEAN] /\ (getNowTimeInProgressFlag'[c] => d = 0)
        /\ \A e \in TimerCores : e # c => getNowTimeInProgressFlag'[e] = getNowTimeInProgressFlag[e]
    BY <1>2 DEF TimerType
  <2>2. CASE /\ gets' = [gets EXCEPT ![c] = Append(@, d)]
             /\ sendGetEventTryCallback' = [sendGetEventTryCallback EXCEPT ![c].duration = d]
    <3>1. Append(gets[c], d) \in Seq(Nat) /\ Append(gets[c], d) # << >>
          /\ Append(gets[c], d)[Len(Append(gets[c], d))] = d
      BY LastItem DEF TimerType
    <3>2. /\ gets' \in [TimerCores -> Seq(Nat)] /\ gets'[c] = Append(gets[c], d)
          /\ \A e \in TimerCores : e # c => gets'[e] = gets[e]
      BY <2>2, <3>1 DEF TimerType
    <3>3. /\ sendGetEventTryCallback' \in [TimerCores -> [duration : Nat, registered : BOOLEAN]]
          /\ sendGetEventTryCallback'[c].duration = d
          /\ \A e \in TimerCores : e # c => sendGetEventTryCallback'[e] = sendGetEventTryCallback[e]
      BY <2>2 DEF TimerType
    <3> QED BY <2>1, <3>1, <3>2, <3>3
  <2>3. CASE /\ sendGetEventTryCallback' = [sendGetEventTryCallback EXCEPT ![c] = [duration |-> d, registered |-> TRUE]]
             /\ UNCHANGED gets
    BY <2>1, <2>3 DEF TimerType
  <2> QED BY <1>2, <2>2, <2>3 DEF Push
<1> QED BY <1>1, <1>2 DEF getTime

\* getTime() leaves the duration as the last one that was asked for.
LEMMA GetTimeAsks ==
  ASSUME TimerType, NEW c \in TimerCores, NEW d \in Nat, getTime(c, d), NowOf(c),
         UNCHANGED <<timeOuts, timerClient>>
  PROVE  NowOf(c)' /\ (Answered(c) \/ (Requested(c)' /\ LastAsked(c)' = d))
<1>1. \/ d = 0 /\ getNowTimeInProgressFlag[c] /\ UNCHANGED requestVars
      \/ /\ getNowTimeInProgressFlag'[c] => d = 0
         /\ \/ sendGetEventTryCallback'[c].registered /\ sendGetEventTryCallback'[c].duration = d
            \/ /\ ~sendGetEventTryCallback'[c].registered
               /\ gets'[c] # << >> /\ gets'[c][Len(gets'[c])] = d
  BY GetTime
<1>2. CASE d = 0 /\ getNowTimeInProgressFlag[c] /\ UNCHANGED requestVars
  BY <1>2 DEF NowOf, Answered, Requested, LastAsked, requestVars
<1>3. CASE /\ getNowTimeInProgressFlag'[c] => d = 0
           /\ \/ sendGetEventTryCallback'[c].registered /\ sendGetEventTryCallback'[c].duration = d
              \/ /\ ~sendGetEventTryCallback'[c].registered
                 /\ gets'[c] # << >> /\ gets'[c][Len(gets'[c])] = d
  <2>1. Requested(c)' /\ LastAsked(c)' = d
    BY <1>3 DEF Requested, LastAsked
  <2> QED BY <1>3, <2>1 DEF NowOf
<1> QED BY <1>1, <1>2, <1>3

\* The chains of a core
LEMMA ChainOf ==
  ASSUME TimerType, NEW c \in TimerCores
  PROVE  /\ timerProxyChain[c] \in Seq(TimerProxies) /\ timedOutTimerProxyChain[c] \in Seq(TimerProxies)
         /\ \A p : Set(c, p) \/ TimedOut(c, p) => p \in TimerProxies
<1>1. timerProxyChain[c] \in Seq(TimerProxies) /\ timedOutTimerProxyChain[c] \in Seq(TimerProxies)
  BY DEF TimerType
<1> QED BY <1>1, ChainItems DEF Set, TimedOut

\* A core whose chains and handler stay, and whose last request stays the last or is answered
LEMMA SameChains ==
  ASSUME TimerType, NEW c \in TimerCores, CoreOf(c), UNCHANGED home,
         timerProxyChain'[c] = timerProxyChain[c], timedOutTimerProxyChain'[c] = timedOutTimerProxyChain[c],
         handler'[c] = handler[c], \A p : Set(c, p) \/ TimedOut(c, p) => proxy'[p] = proxy[p],
         getNowTimeInProgressFlag'[c] = getNowTimeInProgressFlag[c],
         \/ Answered(c)'
         \/ ~Answered(c) /\ (Requested(c) => Requested(c)' /\ LastAsked(c)' = LastAsked(c))
  PROVE  CoreOf(c)'
<1>1. \A p : (Set(c, p)' <=> Set(c, p)) /\ (TimedOut(c, p)' <=> TimedOut(c, p))
  BY DEF Set, TimedOut
<1>2. \A p : Set(c, p) => (Started(p)' <=> Started(p)) /\ DueAt(p)' = DueAt(p)
  BY DEF Started, DueAt
<1>3. ProxyOf(c)'
  <2>1. ASSUME NEW i \in DOMAIN timerProxyChain[c], NEW j \in DOMAIN timerProxyChain[c], i < j,
               Started(timerProxyChain[c][i])'
        PROVE  Started(timerProxyChain[c][j])'
    <3>1. Set(c, timerProxyChain[c][i]) /\ Set(c, timerProxyChain[c][j])
      BY DEF Set, InChain
    <3>2. Started(timerProxyChain[c][i])
      <4> DEFINE p == timerProxyChain[c][i]
      <4>1. proxy'[p] = proxy[p]
        BY <3>1
      <4>2. timerProxyChain'[c][i] = p
        OBVIOUS
      <4> QED BY <2>1, <4>1, <4>2 DEF Started
    <3>3. Started(timerProxyChain[c][j])
      BY <2>1, <3>2 DEF CoreOf, ProxyOf
    <3> QED BY <3>1, <3>3 DEF Started
  <2>2. \A i, j \in DOMAIN timerProxyChain'[c] :
          i < j /\ Started(timerProxyChain[c][i])' => Started(timerProxyChain[c][j])'
    BY <2>1
  <2> QED BY <1>1, <2>2 DEF CoreOf, ProxyOf
<1>4. RemainOf(c)'
  BY <1>1, <1>2 DEF CoreOf, RemainOf
<1>5. NowOf(c)' /\ CoverOf(c)'
  BY <1>1, <1>2 DEF CoreOf, NowOf, CoverOf
<1> QED BY <1>3, <1>4, <1>5 DEF CoreOf

\* A core that a step has nothing to do with
LEMMA OtherCore ==
  ASSUME TimerType, NEW c \in TimerCores, CoreOf(c), UNCHANGED home,
         timerProxyChain'[c] = timerProxyChain[c], timedOutTimerProxyChain'[c] = timedOutTimerProxyChain[c],
         handler'[c] = handler[c], \A p : Set(c, p) \/ TimedOut(c, p) => proxy'[p] = proxy[p],
         getNowTimeInProgressFlag'[c] = getNowTimeInProgressFlag[c],
         sendGetEventTryCallback'[c] = sendGetEventTryCallback[c], gets'[c] = gets[c],
         timeOuts'[c] = timeOuts[c], timerClient'[c] = timerClient[c]
  PROVE  CoreOf(c)'
<1>1. \/ Answered(c)'
      \/ ~Answered(c) /\ (Requested(c) => Requested(c)' /\ LastAsked(c)' = LastAsked(c))
  BY DEF Answered, Requested, LastAsked
<1> QED BY <1>1, SameChains

\* set() and unset(): what becomes of the chains
LEMMA ChainsWithout ==
  ASSUME TimerType, NEW c \in TimerCores, ProxyOf(c), NEW p \in TimerProxies
  PROVE  LET s == Without(timerProxyChain[c], p)
             o == Without(timedOutTimerProxyChain[c], p)
         IN /\ s \in Seq(TimerProxies) /\ o \in Seq(TimerProxies) /\ IsInjective(s) /\ IsInjective(o)
            /\ \A q : InChain(s, q) <=> Set(c, q) /\ q # p
            /\ \A q : InChain(o, q) <=> TimedOut(c, q) /\ q # p
            /\ \A i, j \in DOMAIN s : i < j /\ Started(s[i]) => Started(s[j])
<1> DEFINE s == Without(timerProxyChain[c], p)
           o == Without(timedOutTimerProxyChain[c], p)
<1>1. /\ s \in Seq(TimerProxies) /\ o \in Seq(TimerProxies) /\ IsInjective(s) /\ IsInjective(o)
      /\ \A q : InChain(s, q) <=> Set(c, q) /\ q # p
      /\ \A q : InChain(o, q) <=> TimedOut(c, q) /\ q # p
  BY ChainOf, WithoutChain DEF ProxyOf, Set, TimedOut
<1>2. ASSUME NEW i \in DOMAIN s, NEW j \in DOMAIN s, i < j, Started(s[i]) PROVE Started(s[j])
  <2>1. PICK k, l \in DOMAIN timerProxyChain[c] : k < l /\ s[i] = timerProxyChain[c][k] /\ s[j] = timerProxyChain[c][l]
    BY <1>2, ChainOf, WithoutOrder
  <2> QED BY <1>2, <2>1 DEF ProxyOf
<1> QED BY <1>1, <1>2

\* set() puts the proxy in front, not started, and asks for the time as of now.
LEMMA SetKeeps ==
  ASSUME TimerInv, NEW p \in DOMAIN home, NEW d \in Nat, NEW repeat \in BOOLEAN, set(p, d, repeat)
  PROVE  TimerInv'
<1>0. TimerType /\ ClientInv /\ \A e \in TimerCores : CoreOf(e)
  BY DEF TimerInv
<1>1. PICK c \in TimerCores : c = home[p] /\ p \in TimerProxies
  BY <1>0, HomeIs
<1> DEFINE s == Without(timerProxyChain[c], p)
           o == Without(timedOutTimerProxyChain[c], p)
           front == <<p>> \o s
<1>2. /\ timedOutTimerProxyChain' = [timedOutTimerProxyChain EXCEPT ![c] = o]
      /\ timerProxyChain' = [timerProxyChain EXCEPT ![c] = front]
      /\ proxy' = [proxy EXCEPT ![p] = [startTime |-> Unknown, duration |-> d, repeatFlag |-> repeat]]
      /\ getTime(c, 0) /\ UNCHANGED <<now, home, handler, timeOuts, timerClient, serviceCallback>>
  BY <1>1 DEF set, serviceVars
<1>3. /\ s \in Seq(TimerProxies) /\ o \in Seq(TimerProxies) /\ IsInjective(s) /\ IsInjective(o)
      /\ \A q : InChain(s, q) <=> Set(c, q) /\ q # p
      /\ \A q : InChain(o, q) <=> TimedOut(c, q) /\ q # p
      /\ \A i, j \in DOMAIN s : i < j /\ Started(s[i]) => Started(s[j])
  BY <1>0, <1>1, ChainsWithout DEF CoreOf
<1>4. /\ getNowTimeInProgressFlag' \in [TimerCores -> BOOLEAN]
      /\ sendGetEventTryCallback' \in [TimerCores -> [duration : Nat, registered : BOOLEAN]]
      /\ gets' \in [TimerCores -> Seq(Nat)]
      /\ \A e \in TimerCores : e # c => /\ getNowTimeInProgressFlag'[e] = getNowTimeInProgressFlag[e]
                                        /\ sendGetEventTryCallback'[e] = sendGetEventTryCallback[e]
                                        /\ gets'[e] = gets[e]
  BY <1>0, <1>1, <1>2, GetTime, 0 \in Nat
<1>5. NowOf(c)' /\ (Answered(c) \/ (Requested(c)' /\ LastAsked(c)' = 0))
  BY <1>0, <1>1, <1>2, GetTimeAsks, 0 \in Nat DEF CoreOf
<1>6. /\ front \in Seq(TimerProxies) /\ IsInjective(front) /\ front[1] = p /\ DOMAIN front = 1 .. Len(s) + 1
      /\ \A q : InChain(front, q) <=> q = p \/ InChain(s, q)
      /\ \A i \in DOMAIN front : i # 1 => i - 1 \in DOMAIN s /\ front[i] = s[i - 1]
  <2>1. /\ IsInjective(<<p>>) /\ <<p>> \in Seq(TimerProxies)
        /\ \A q : InChain(<<p>>, q) <=> q = p
    BY <1>1 DEF IsInjective, InChain
  <2>2. \A q : ~(InChain(<<p>>, q) /\ InChain(s, q))
    BY <2>1, <1>3
  <2> HIDE DEF s
  <2>3. /\ <<p>> \o s \in Seq(TimerProxies) /\ IsInjective(<<p>> \o s)
        /\ \A q : InChain(<<p>> \o s, q) <=> InChain(<<p>>, q) \/ InChain(s, q)
    BY <1>3, <2>1, <2>2, ConcatChain
  <2>4. /\ (<<p>> \o s)[1] = p
        /\ \A i \in DOMAIN (<<p>> \o s) : i # 1 => i - 1 \in DOMAIN s /\ (<<p>> \o s)[i] = s[i - 1]
        /\ DOMAIN (<<p>> \o s) = 1 .. Len(s) + 1
    BY <1>1, <1>3, PushChain
  <2> QED BY <2>1, <2>3, <2>4
<1> HIDE DEF s, o, front
<1>7. /\ timerProxyChain'[c] = front /\ timedOutTimerProxyChain'[c] = o
      /\ timerProxyChain' \in [TimerCores -> Seq(TimerProxies)]
      /\ timedOutTimerProxyChain' \in [TimerCores -> Seq(TimerProxies)]
      /\ \A e \in TimerCores : e # c => /\ timerProxyChain'[e] = timerProxyChain[e]
                                        /\ timedOutTimerProxyChain'[e] = timedOutTimerProxyChain[e]
  BY <1>0, <1>1, <1>2, <1>3, <1>6 DEF TimerType
<1>8. /\ proxy' \in [TimerProxies -> [startTime : Nat, duration : Nat, repeatFlag : BOOLEAN]]
      /\ proxy'[p].startTime = Unknown /\ \A q \in TimerProxies : q # p => proxy'[q] = proxy[q]
  BY <1>0, <1>1, <1>2 DEF TimerType, Unknown
<1>9. TimerType'
  BY <1>0, <1>2, <1>4, <1>7, <1>8 DEF TimerType
<1>10. \A q : /\ Set(c, q)' <=> q = p \/ (Set(c, q) /\ q # p)
              /\ TimedOut(c, q)' <=> TimedOut(c, q) /\ q # p
  <2> TAKE q
  <2>1. (Set(c, q)' <=> InChain(front, q)) /\ (TimedOut(c, q)' <=> InChain(o, q))
    BY <1>2, <1>7 DEF Set, TimedOut
  <2> QED BY <2>1, <1>3, <1>6
<1>11. ProxyOf(c)'
  <2>1. ASSUME NEW i \in DOMAIN front, NEW j \in DOMAIN front, i < j, proxy'[front[i]].startTime # Unknown
        PROVE  proxy'[front[j]].startTime # Unknown
    <3>1. i # 1 /\ j # 1
      BY <1>6, <1>8, <2>1
    <3>2. /\ i - 1 \in DOMAIN s /\ front[i] = s[i - 1] /\ j - 1 \in DOMAIN s /\ front[j] = s[j - 1]
          /\ i - 1 < j - 1
      BY <1>6, <2>1, <3>1
    <3>3. InChain(s, front[i]) /\ InChain(s, front[j])
      BY <3>2 DEF InChain
    <3>4. proxy'[front[i]] = proxy[front[i]] /\ proxy'[front[j]] = proxy[front[j]]
      BY <1>0, <1>1, <1>3, <1>8, <3>3, ChainOf
    <3>5. Started(s[i - 1])
      BY <2>1, <3>2, <3>4 DEF Started
    <3>6. Started(s[j - 1])
      BY <1>3, <3>2, <3>5
    <3> QED BY <3>2, <3>4, <3>6 DEF Started
  <2>2. \A i, j \in DOMAIN timerProxyChain'[c] :
          i < j /\ proxy'[timerProxyChain'[c][i]].startTime # Unknown
            => proxy'[timerProxyChain'[c][j]].startTime # Unknown
    BY <1>7, <2>1
  <2>3. \A q : Set(c, q)' \/ TimedOut(c, q)' => q \in DOMAIN home' /\ home'[q] = c
    BY <1>0, <1>1, <1>2, <1>10 DEF CoreOf, ProxyOf
  <2>4. IsInjective(timerProxyChain'[c]) /\ IsInjective(timedOutTimerProxyChain'[c])
    BY <1>3, <1>6, <1>7
  <2>5. \A q : ~(Set(c, q)' /\ TimedOut(c, q)')
    BY <1>0, <1>1, <1>10 DEF CoreOf, ProxyOf
  <2> QED BY <2>2, <2>3, <2>4, <2>5 DEF ProxyOf, Started
<1>12. RemainOf(c)'
  <2>1. ASSUME NEW q, Set(c, q)', Started(q)' PROVE Set(c, q) /\ Started(q) /\ DueAt(q)' = DueAt(q)
    <3>1. q # p
      BY <1>8, <2>1 DEF Started
    <3>2. Set(c, q)
      BY <1>10, <2>1, <3>1
    <3>3. proxy'[q] = proxy[q]
      BY <1>0, <1>1, <1>8, <3>1, <3>2, ChainOf
    <3> QED BY <2>1, <3>2, <3>3 DEF Started, DueAt
  <2> QED BY <1>0, <1>1, <1>2, <2>1 DEF CoreOf, RemainOf
<1>13. CoverOf(c)'
  <2>1. Answered(c)' <=> Answered(c)
    BY <1>2 DEF Answered
  <2> QED BY <1>5, <2>1 DEF CoverOf
<1>14. ASSUME NEW e \in TimerCores, e # c PROVE CoreOf(e)'
  <2>1. ASSUME NEW q, Set(e, q) \/ TimedOut(e, q) PROVE proxy'[q] = proxy[q]
    <3>1. home[q] = e /\ q \in TimerProxies
      BY <1>0, <2>1, ChainOf DEF CoreOf, ProxyOf
    <3>2. q # p
      BY <1>1, <1>14, <3>1
    <3> QED BY <1>8, <3>1, <3>2
  <2>2. CoreOf(e) /\ TimerType
    BY <1>0
  <2> QED BY <1>2, <1>4, <1>7, <1>14, <2>1, <2>2, OtherCore
<1>15. CoreOf(c)'
  BY <1>5, <1>11, <1>12, <1>13 DEF CoreOf
<1>16. ClientInv'
  BY <1>0, <1>2 DEF ClientInv
<1> QED BY <1>9, <1>14, <1>15, <1>16 DEF TimerInv

\* unset() takes the proxy out of its chain.
LEMMA UnsetKeeps ==
  ASSUME TimerInv, NEW p \in DOMAIN home, unset(p)
  PROVE  TimerInv'
<1>0. TimerType /\ ClientInv /\ \A e \in TimerCores : CoreOf(e)
  BY DEF TimerInv
<1>1. PICK c \in TimerCores : c = home[p] /\ p \in TimerProxies
  BY <1>0, HomeIs
<1> DEFINE s == Without(timerProxyChain[c], p)
           o == Without(timedOutTimerProxyChain[c], p)
<1>2. /\ timedOutTimerProxyChain' = [timedOutTimerProxyChain EXCEPT ![c] = o]
      /\ timerProxyChain' = [timerProxyChain EXCEPT ![c] = s]
      /\ UNCHANGED <<now, home, proxy, handler, getNowTimeInProgressFlag, sendGetEventTryCallback, gets, timeOuts,
                     timerClient, serviceCallback>>
  BY <1>1 DEF unset, serviceVars, requestVars
<1>3. /\ s \in Seq(TimerProxies) /\ o \in Seq(TimerProxies) /\ IsInjective(s) /\ IsInjective(o)
      /\ \A q : InChain(s, q) <=> Set(c, q) /\ q # p
      /\ \A q : InChain(o, q) <=> TimedOut(c, q) /\ q # p
      /\ \A i, j \in DOMAIN s : i < j /\ Started(s[i]) => Started(s[j])
  BY <1>0, <1>1, ChainsWithout DEF CoreOf
<1> HIDE DEF s, o
<1>4. /\ timerProxyChain'[c] = s /\ timedOutTimerProxyChain'[c] = o
      /\ timerProxyChain' \in [TimerCores -> Seq(TimerProxies)]
      /\ timedOutTimerProxyChain' \in [TimerCores -> Seq(TimerProxies)]
      /\ \A e \in TimerCores : e # c => /\ timerProxyChain'[e] = timerProxyChain[e]
                                        /\ timedOutTimerProxyChain'[e] = timedOutTimerProxyChain[e]
  BY <1>0, <1>1, <1>2, <1>3 DEF TimerType
<1>5. TimerType'
  BY <1>0, <1>2, <1>4 DEF TimerType
<1>6. \A q : /\ Set(c, q)' => Set(c, q)
             /\ TimedOut(c, q)' => TimedOut(c, q)
  <2> TAKE q
  <2>1. (Set(c, q)' <=> InChain(s, q)) /\ (TimedOut(c, q)' <=> InChain(o, q))
    BY <1>4 DEF Set, TimedOut
  <2> QED BY <2>1, <1>3
<1>7. \A q : (Started(q)' <=> Started(q)) /\ DueAt(q)' = DueAt(q)
  BY <1>2 DEF Started, DueAt
<1>8. ProxyOf(c)'
  <2>1. \A i, j \in DOMAIN timerProxyChain'[c] :
          i < j /\ proxy'[timerProxyChain'[c][i]].startTime # Unknown
            => proxy'[timerProxyChain'[c][j]].startTime # Unknown
    BY <1>2, <1>3, <1>4 DEF Started
  <2>2. \A q : Set(c, q)' \/ TimedOut(c, q)' => q \in DOMAIN home' /\ home'[q] = c
    BY <1>0, <1>1, <1>2, <1>6 DEF CoreOf, ProxyOf
  <2>3. IsInjective(timerProxyChain'[c]) /\ IsInjective(timedOutTimerProxyChain'[c])
    BY <1>3, <1>4
  <2>4. \A q : ~(Set(c, q)' /\ TimedOut(c, q)')
    BY <1>0, <1>1, <1>6 DEF CoreOf, ProxyOf
  <2> QED BY <2>1, <2>2, <2>3, <2>4 DEF ProxyOf, Started
<1>9. RemainOf(c)'
  BY <1>0, <1>1, <1>2, <1>6, <1>7 DEF CoreOf, RemainOf
<1>10. /\ Answered(c)' <=> Answered(c)
       /\ Requested(c)' <=> Requested(c)
       /\ LastAsked(c)' = LastAsked(c)
  BY <1>2 DEF Answered, Requested, LastAsked
<1>11. NowOf(c)' /\ CoverOf(c)'
  BY <1>0, <1>1, <1>2, <1>6, <1>7, <1>10 DEF CoreOf, NowOf, CoverOf
<1>12. ASSUME NEW e \in TimerCores, e # c PROVE CoreOf(e)'
  <2>1. CoreOf(e) /\ TimerType
    BY <1>0
  <2> QED BY <1>2, <1>4, <1>12, <2>1, OtherCore
<1>13. CoreOf(c)'
  BY <1>8, <1>9, <1>11 DEF CoreOf
<1>14. ClientInv'
  BY <1>0, <1>2 DEF ClientInv
<1> QED BY <1>5, <1>12, <1>13, <1>14 DEF TimerInv

\* A request that is pushed at last stays the last one.
LEMMA SendAgainKeeps ==
  ASSUME TimerInv, NEW c \in TimerCores, sendAgain(c)
  PROVE  TimerInv'
<1>0. TimerType /\ ClientInv /\ \A e \in TimerCores : CoreOf(e)
  BY DEF TimerInv
<1>1. /\ sendGetEventTryCallback[c].registered
      /\ gets' = [gets EXCEPT ![c] = Append(@, sendGetEventTryCallback[c].duration)]
      /\ sendGetEventTryCallback' = [sendGetEventTryCallback EXCEPT ![c].registered = FALSE]
      /\ UNCHANGED <<now, home, proxy, timerProxyChain, timedOutTimerProxyChain, handler, getNowTimeInProgressFlag,
                     timeOuts, timerClient, serviceCallback>>
  BY DEF sendAgain, serviceVars, proxyVars
<1> DEFINE d == sendGetEventTryCallback[c].duration
<1>2. d \in Nat /\ gets[c] \in Seq(Nat)
  BY <1>0 DEF TimerType
<1>3. /\ Append(gets[c], d) \in Seq(Nat) /\ Append(gets[c], d) # << >>
      /\ Append(gets[c], d)[Len(Append(gets[c], d))] = d
  BY <1>2, LastItem
<1>4. /\ gets' \in [TimerCores -> Seq(Nat)] /\ gets'[c] = Append(gets[c], d)
      /\ \A e \in TimerCores : e # c => gets'[e] = gets[e]
  BY <1>0, <1>1, <1>3 DEF TimerType
<1>5. /\ sendGetEventTryCallback' \in [TimerCores -> [duration : Nat, registered : BOOLEAN]]
      /\ ~sendGetEventTryCallback'[c].registered
      /\ \A e \in TimerCores : e # c => sendGetEventTryCallback'[e] = sendGetEventTryCallback[e]
  BY <1>0, <1>1 DEF TimerType
<1>6. TimerType'
  BY <1>0, <1>1, <1>4, <1>5 DEF TimerType
<1>7. Requested(c)' /\ LastAsked(c)' = LastAsked(c)
  BY <1>1, <1>3, <1>4, <1>5 DEF Requested, LastAsked
<1>8. CoreOf(c)'
  <2>1. \/ Answered(c)'
        \/ ~Answered(c) /\ (Requested(c) => Requested(c)' /\ LastAsked(c)' = LastAsked(c))
    BY <1>1, <1>7 DEF Answered
  <2>2. CoreOf(c) /\ TimerType
    BY <1>0
  <2> QED BY <1>1, <2>1, <2>2, SameChains
<1>9. ASSUME NEW e \in TimerCores, e # c PROVE CoreOf(e)'
  <2>1. CoreOf(e) /\ TimerType
    BY <1>0
  <2> QED BY <1>1, <1>4, <1>5, <1>9, <2>1, OtherCore
<1>10. ClientInv'
  BY <1>0, <1>1 DEF ClientInv
<1> QED BY <1>6, <1>8, <1>9, <1>10 DEF TimerInv

\* What the tail of a queue leaves as the last item
LEMMA TailLast ==
  ASSUME NEW S, NEW s \in Seq(S), s # << >>
  PROVE  /\ Tail(s) \in Seq(S) /\ Head(s) \in S
         /\ Tail(s) = << >> => s[Len(s)] = Head(s)
         /\ Tail(s) # << >> => Tail(s)[Len(Tail(s))] = s[Len(s)]
<1>1. Len(s) \in Nat /\ Len(s) # 0
  BY EmptySeq, LenProperties
<1>2. /\ Tail(s) \in Seq(S) /\ Head(s) = s[1] /\ Head(s) \in S /\ Len(Tail(s)) = Len(s) - 1
      /\ \A i \in 1 .. Len(s) - 1 : Tail(s)[i] = s[i + 1]
  BY HeadTailProperties, HeadChain
<1>3. Tail(s) = << >> => Len(s) = 1
  BY <1>1, <1>2, EmptySeq
<1>4. Tail(s) # << >> => Len(s) - 1 \in 1 .. Len(s) - 1
  BY <1>1, <1>2, EmptySeq
<1> QED BY <1>1, <1>2, <1>3, <1>4

\* The service has the request; the next ones come behind.
LEMMA GetEventKeeps ==
  ASSUME TimerInv, NEW c \in TimerCores, GetEvent(c)
  PROVE  TimerInv'
<1>0. TimerType /\ ClientInv /\ \A e \in TimerCores : CoreOf(e)
  BY DEF TimerInv
<1>1. /\ gets[c] # << >> /\ gets' = [gets EXCEPT ![c] = Tail(@)]
      /\ timerClient' = [timerClient EXCEPT ![c] =
           [@ EXCEPT !.startTime = Unknown, !.duration = Head(gets[c]), !.inProgressFlag = TRUE]]
      /\ serviceCallback' = (serviceCallback \/ \A d \in TimerCores : ~timerClient[d].inProgressFlag)
      /\ UNCHANGED <<now, home, proxy, timerProxyChain, timedOutTimerProxyChain, handler, getNowTimeInProgressFlag,
                     timeOuts, sendGetEventTryCallback>>
  BY DEF GetEvent, proxyVars
<1>2. gets[c] \in Seq(Nat)
  BY <1>0 DEF TimerType
<1>3. /\ Tail(gets[c]) \in Seq(Nat) /\ Head(gets[c]) \in Nat
      /\ Tail(gets[c]) = << >> => gets[c][Len(gets[c])] = Head(gets[c])
      /\ Tail(gets[c]) # << >> => Tail(gets[c])[Len(Tail(gets[c]))] = gets[c][Len(gets[c])]
  BY <1>1, <1>2, TailLast
<1>4. /\ gets' \in [TimerCores -> Seq(Nat)] /\ gets'[c] = Tail(gets[c])
      /\ \A e \in TimerCores : e # c => gets'[e] = gets[e]
  BY <1>0, <1>1, <1>3 DEF TimerType
<1>5. /\ timerClient' \in [TimerCores -> [startTime : Nat, duration : Nat, inProgressFlag : BOOLEAN, retry : BOOLEAN]]
      /\ timerClient'[c].inProgressFlag /\ timerClient'[c].duration = Head(gets[c])
      /\ timerClient'[c].retry = timerClient[c].retry
      /\ \A e \in TimerCores : e # c => timerClient'[e] = timerClient[e]
  BY <1>0, <1>1, <1>3 DEF TimerType, Unknown
<1>6. serviceCallback' \in BOOLEAN
  BY <1>1
<1>7. TimerType'
  BY <1>0, <1>1, <1>4, <1>5, <1>6 DEF TimerType
<1>8. Requested(c)' /\ LastAsked(c)' = LastAsked(c)
  BY <1>1, <1>3, <1>4, <1>5 DEF Requested, LastAsked
<1>9. CoreOf(c)'
  <2>1. \/ Answered(c)'
        \/ ~Answered(c) /\ (Requested(c) => Requested(c)' /\ LastAsked(c)' = LastAsked(c))
    BY <1>1, <1>5, <1>8 DEF Answered
  <2>2. CoreOf(c) /\ TimerType
    BY <1>0
  <2> QED BY <1>1, <2>1, <2>2, SameChains
<1>10. ASSUME NEW e \in TimerCores, e # c PROVE CoreOf(e)'
  <2>1. CoreOf(e) /\ TimerType
    BY <1>0
  <2> QED BY <1>1, <1>4, <1>5, <1>10, <2>1, OtherCore
<1>11. ClientInv'
  BY <1>0, <1>1 DEF ClientInv
<1> QED BY <1>7, <1>9, <1>10, <1>11 DEF TimerInv

\* The first loop of the handler starts all of the timers and divides them.
LEMMA TimeOutBeginKeeps ==
  ASSUME TimerInv, NEW c \in TimerCores, TimeOutBegin(c)
  PROVE  TimerInv'
<1>0. TimerType /\ ClientInv /\ \A e \in TimerCores : CoreOf(e)
  BY DEF TimerInv
<1> DEFINE t     == Head(timeOuts[c])
           ofCore  == Range(timerProxyChain[c])
           start == [p \in ofCore |-> IF proxy[p].startTime = Unknown THEN t ELSE proxy[p].startTime]
           due   == {p \in ofCore : t - start[p] >= proxy[p].duration}
           s     == Kept(timerProxyChain[c], ofCore \ due)
           o     == Kept(timerProxyChain[c], due)
           times == {Forever} \cup {proxy[p].duration - (t - start[p]) : p \in ofCore \ due}
<1>1. /\ ~handler[c].on /\ timeOuts[c] # << >>
      /\ timeOuts' = [timeOuts EXCEPT ![c] = Tail(@)]
      /\ getNowTimeInProgressFlag' = [getNowTimeInProgressFlag EXCEPT ![c] = FALSE]
      /\ proxy' = [p \in TimerProxies |-> IF p \in ofCore THEN [proxy[p] EXCEPT !.startTime = start[p]] ELSE proxy[p]]
      /\ timedOutTimerProxyChain' = [timedOutTimerProxyChain EXCEPT ![c] = o]
      /\ timerProxyChain' = [timerProxyChain EXCEPT ![c] = s]
      /\ handler' = [handler EXCEPT ![c] = [on |-> TRUE, time |-> t, minRemain |-> Min(times)]]
      /\ UNCHANGED <<now, home, sendGetEventTryCallback, gets, timerClient, serviceCallback>>
  BY DEF TimeOutBegin, serviceVars
<1>2. t \in Nat \ {0} /\ Tail(timeOuts[c]) \in Seq(Nat \ {0})
  <2>1. timeOuts[c] \in Seq(Nat \ {0})
    BY <1>0 DEF TimerType
  <2> QED BY <1>1, <2>1, HeadChain
<1>3. \A q : q \in ofCore <=> Set(c, q)
  BY DEF Set, InChain, Range
<1>4. ofCore \subseteq TimerProxies
  BY <1>0, <1>3, ChainOf
<1> HIDE DEF t, ofCore
<1>5. \A q \in ofCore : start[q] \in Nat \ {0} /\ proxy[q].duration \in Nat
  BY <1>0, <1>2, <1>4 DEF TimerType, Unknown
<1>6. /\ s \in Seq(TimerProxies) /\ o \in Seq(TimerProxies)
      /\ \A q : InChain(s, q) <=> Set(c, q) /\ q \in ofCore \ due
      /\ \A q : InChain(o, q) <=> Set(c, q) /\ q \in due
      /\ IsInjective(s) /\ IsInjective(o)
  <2>1. timerProxyChain[c] \in Seq(TimerProxies) /\ IsInjective(timerProxyChain[c])
    BY <1>0, ChainOf DEF CoreOf, ProxyOf
  <2> HIDE DEF due
  <2> QED BY <2>1, KeptChain DEF Set
<1>7. times \subseteq Nat /\ times # {} /\ \A q \in ofCore \ due : proxy[q].duration - (t - start[q]) \in times
  <2>1. Forever \in Nat
    BY TimerAssumption DEF Forever
  <2>2. \A q \in ofCore \ due : proxy[q].duration - (t - start[q]) \in Nat
    BY <1>2, <1>5
  <2> QED BY <2>1, <2>2
<1>8. Min(times) \in Nat /\ \A q \in ofCore \ due : Min(times) <= proxy[q].duration - (t - start[q])
  <2> HIDE DEF times
  <2> QED BY <1>7, MinOfTimes
<1> HIDE DEF times, due, s, o
<1>9. /\ timerProxyChain'[c] = s /\ timedOutTimerProxyChain'[c] = o
      /\ timerProxyChain' \in [TimerCores -> Seq(TimerProxies)]
      /\ timedOutTimerProxyChain' \in [TimerCores -> Seq(TimerProxies)]
      /\ \A e \in TimerCores : e # c => /\ timerProxyChain'[e] = timerProxyChain[e]
                                        /\ timedOutTimerProxyChain'[e] = timedOutTimerProxyChain[e]
  BY <1>0, <1>1, <1>6 DEF TimerType
<1>10. /\ proxy' \in [TimerProxies -> [startTime : Nat, duration : Nat, repeatFlag : BOOLEAN]]
       /\ \A q \in ofCore : proxy'[q].startTime = start[q] /\ proxy'[q].duration = proxy[q].duration
       /\ \A q \in TimerProxies : q \notin ofCore => proxy'[q] = proxy[q]
  <2> HIDE DEF start
  <2>1. proxy \in [TimerProxies -> [startTime : Nat, duration : Nat, repeatFlag : BOOLEAN]]
    BY <1>0 DEF TimerType
  <2>2. \A q \in TimerProxies :
          proxy'[q] = IF q \in ofCore THEN [proxy[q] EXCEPT !.startTime = start[q]] ELSE proxy[q]
    BY <1>1
  <2>3. ASSUME NEW q \in ofCore
        PROVE  /\ proxy'[q].startTime = start[q] /\ proxy'[q].duration = proxy[q].duration
               /\ proxy'[q] \in [startTime : Nat, duration : Nat, repeatFlag : BOOLEAN]
    BY <1>4, <1>5, <2>1, <2>2
  <2>4. ASSUME NEW q \in TimerProxies, q \notin ofCore PROVE proxy'[q] = proxy[q]
    BY <2>2, <2>4
  <2>5. \A q \in TimerProxies : proxy'[q] \in [startTime : Nat, duration : Nat, repeatFlag : BOOLEAN]
    BY <2>1, <2>3, <2>4
  <2> QED BY <1>1, <1>4, <2>3, <2>4, <2>5
<1> HIDE DEF start
<1>11. /\ handler' \in [TimerCores -> [on : BOOLEAN, time : Nat, minRemain : Nat]]
       /\ handler'[c] = [on |-> TRUE, time |-> t, minRemain |-> Min(times)]
       /\ \A e \in TimerCores : e # c => handler'[e] = handler[e]
  BY <1>0, <1>1, <1>2, <1>8 DEF TimerType
<1>12. /\ timeOuts' \in [TimerCores -> Seq(Nat \ {0})]
       /\ \A e \in TimerCores : e # c => timeOuts'[e] = timeOuts[e]
       /\ getNowTimeInProgressFlag' \in [TimerCores -> BOOLEAN] /\ ~getNowTimeInProgressFlag'[c]
       /\ \A e \in TimerCores : e # c => getNowTimeInProgressFlag'[e] = getNowTimeInProgressFlag[e]
  BY <1>0, <1>1, <1>2 DEF TimerType
<1>13. TimerType'
  BY <1>0, <1>1, <1>9, <1>10, <1>11, <1>12 DEF TimerType
<1>14. \A q : /\ Set(c, q)' => Set(c, q) /\ q \in ofCore \ due
              /\ TimedOut(c, q)' => Set(c, q) /\ q \in due
  <2> TAKE q
  <2>1. (Set(c, q)' <=> InChain(s, q)) /\ (TimedOut(c, q)' <=> InChain(o, q))
    BY <1>9 DEF Set, TimedOut
  <2> QED BY <2>1, <1>6
<1>15. ProxyOf(c)'
  <2>1. ASSUME NEW i \in DOMAIN s PROVE proxy'[s[i]].startTime # Unknown
    <3>1. InChain(s, s[i])
      BY <2>1 DEF InChain
    <3>2. s[i] \in ofCore
      BY <1>6, <3>1
    <3> QED BY <1>5, <1>10, <3>2 DEF Unknown
  <2>2. \A i, j \in DOMAIN timerProxyChain'[c] :
          i < j /\ proxy'[timerProxyChain'[c][i]].startTime # Unknown
            => proxy'[timerProxyChain'[c][j]].startTime # Unknown
    BY <1>9, <2>1
  <2>3. \A q : Set(c, q)' \/ TimedOut(c, q)' => q \in DOMAIN home' /\ home'[q] = c
    BY <1>0, <1>1, <1>14 DEF CoreOf, ProxyOf
  <2>4. IsInjective(timerProxyChain'[c]) /\ IsInjective(timedOutTimerProxyChain'[c])
    BY <1>6, <1>9
  <2>5. \A q : ~(Set(c, q)' /\ TimedOut(c, q)')
    BY <1>14
  <2> QED BY <2>2, <2>3, <2>4, <2>5 DEF ProxyOf, Started
<1>16. RemainOf(c)'
  <2>1. ASSUME NEW q, Set(c, q)' PROVE handler'[c].time + handler'[c].minRemain <= DueAt(q)'
    <3>1. q \in ofCore \ due
      BY <1>14, <2>1
    <3>2. Min(times) <= proxy[q].duration - (t - start[q])
      BY <1>8, <3>1
    <3>3. DueAt(q)' = start[q] + proxy[q].duration
      BY <1>10, <3>1 DEF DueAt
    <3> QED BY <1>2, <1>5, <1>8, <1>11, <3>1, <3>2, <3>3
  <2>2. handler'[c].time # Unknown
    BY <1>2, <1>11 DEF Unknown
  <2> QED BY <2>1, <2>2 DEF RemainOf
<1>17. CoreOf(c)'
  BY <1>11, <1>12, <1>15, <1>16 DEF CoreOf, NowOf, CoverOf
<1>18. ASSUME NEW e \in TimerCores, e # c PROVE CoreOf(e)'
  <2>1. ASSUME NEW q, Set(e, q) \/ TimedOut(e, q) PROVE proxy'[q] = proxy[q]
    <3>1. home[q] = e /\ q \in TimerProxies
      BY <1>0, <2>1, ChainOf DEF CoreOf, ProxyOf
    <3>2. ~Set(c, q)
      BY <1>0, <1>18, <3>1 DEF CoreOf, ProxyOf
    <3> QED BY <1>3, <1>10, <3>1, <3>2
  <2>2. CoreOf(e) /\ TimerType
    BY <1>0
  <2> QED BY <1>1, <1>9, <1>11, <1>12, <1>18, <2>1, <2>2, OtherCore
<1>19. ClientInv'
  BY <1>0, <1>1 DEF ClientInv
<1> QED BY <1>13, <1>17, <1>18, <1>19 DEF TimerInv

\* A timer that is due and repeats goes to the end of the chain of those that are set.
LEMMA TimeOutNextKeeps ==
  ASSUME TimerInv, NEW c \in TimerCores, TimeOutNext(c)
  PROVE  TimerInv'
<1>0. TimerType /\ ClientInv /\ \A e \in TimerCores : CoreOf(e)
  BY DEF TimerInv
<1> DEFINE p == Head(timedOutTimerProxyChain[c])
           d == proxy[p].duration
           o == Tail(timedOutTimerProxyChain[c])
           s == timerProxyChain[c]
           more == Append(s, p)
           m == handler[c].minRemain
           t == handler[c].time
<1>1. /\ handler[c].on /\ timedOutTimerProxyChain[c] # << >>
      /\ timedOutTimerProxyChain' = [timedOutTimerProxyChain EXCEPT ![c] = o]
      /\ UNCHANGED <<now, home, getNowTimeInProgressFlag, sendGetEventTryCallback, gets, timeOuts,
                     timerClient, serviceCallback>>
  BY DEF TimeOutNext, serviceVars, requestVars
<1>2. /\ p \in TimerProxies /\ TimedOut(c, p) /\ o \in Seq(TimerProxies) /\ IsInjective(o)
      /\ \A q : TimedOut(c, q) <=> InChain(o, q) \/ q = p
      /\ ~InChain(o, p)
  <2>1. timedOutTimerProxyChain[c] \in Seq(TimerProxies) /\ IsInjective(timedOutTimerProxyChain[c])
    BY <1>0, ChainOf DEF CoreOf, ProxyOf
  <2> QED BY <1>1, <2>1, HeadChain DEF TimedOut
<1>3. /\ s \in Seq(TimerProxies) /\ ~Set(c, p) /\ IsInjective(s) /\ home[p] = c /\ p \in DOMAIN home
      /\ t \in Nat \ {0} /\ m \in Nat /\ d \in Nat
      /\ \A q : Set(c, q) /\ Started(q) => t + m <= DueAt(q)
  BY <1>0, <1>1, <1>2, ChainOf DEF CoreOf, ProxyOf, RemainOf, TimerType, Unknown
<1>4. /\ timedOutTimerProxyChain'[c] = o
      /\ timedOutTimerProxyChain' \in [TimerCores -> Seq(TimerProxies)]
      /\ \A e \in TimerCores : e # c => timedOutTimerProxyChain'[e] = timedOutTimerProxyChain[e]
  BY <1>0, <1>1, <1>2 DEF TimerType
<1>5. \A q : TimedOut(c, q)' <=> TimedOut(c, q) /\ q # p
  BY <1>2, <1>4 DEF TimedOut
<1>6. CASE ~proxy[p].repeatFlag
  <2>1. UNCHANGED <<proxy, timerProxyChain, handler>>
    BY <1>6 DEF TimeOutNext
  <2>2. TimerType'
    BY <1>0, <1>1, <1>4, <2>1 DEF TimerType
  <2>3. \A q : (Set(c, q)' <=> Set(c, q)) /\ (Started(q)' <=> Started(q)) /\ DueAt(q)' = DueAt(q)
    BY <2>1 DEF Set, Started, DueAt
  <2>4. ProxyOf(c)'
    <3>1. \A i, j \in DOMAIN timerProxyChain'[c] :
            i < j /\ proxy'[timerProxyChain'[c][i]].startTime # Unknown
            => proxy'[timerProxyChain'[c][j]].startTime # Unknown
      BY <1>0, <2>1 DEF CoreOf, ProxyOf, Started
    <3>2. \A q : Set(c, q)' \/ TimedOut(c, q)' => q \in DOMAIN home' /\ home'[q] = c
      BY <1>0, <1>1, <1>5, <2>3 DEF CoreOf, ProxyOf
    <3>3. IsInjective(timerProxyChain'[c]) /\ IsInjective(timedOutTimerProxyChain'[c])
      BY <1>2, <1>3, <1>4, <2>1
    <3>4. \A q : ~(Set(c, q)' /\ TimedOut(c, q)')
      BY <1>0, <1>5, <2>3 DEF CoreOf, ProxyOf
    <3> QED BY <3>1, <3>2, <3>3, <3>4 DEF ProxyOf, Started
  <2>5. RemainOf(c)'
    BY <1>0, <2>1, <2>3 DEF CoreOf, RemainOf
  <2>6. NowOf(c)' /\ CoverOf(c)'
    <3>1. (Answered(c)' <=> Answered(c)) /\ (Requested(c)' <=> Requested(c)) /\ LastAsked(c)' = LastAsked(c)
      BY <1>1 DEF Answered, Requested, LastAsked
    <3> QED BY <1>0, <1>1, <2>1, <3>1 DEF CoreOf, NowOf, CoverOf
  <2>7. ASSUME NEW e \in TimerCores, e # c PROVE CoreOf(e)'
    <3>1. CoreOf(e) /\ TimerType
      BY <1>0
    <3> QED BY <1>1, <1>4, <2>1, <2>7, <3>1, OtherCore
  <2>8. ClientInv'
    BY <1>0, <1>1 DEF ClientInv
  <2>9. CoreOf(c)'
    BY <2>4, <2>5, <2>6 DEF CoreOf
  <2> QED BY <2>2, <2>7, <2>8, <2>9 DEF TimerInv
<1>7. CASE proxy[p].repeatFlag
  <2>1. /\ proxy' = [proxy EXCEPT ![p].startTime = t]
        /\ timerProxyChain' = [timerProxyChain EXCEPT ![c] = more]
        /\ handler' = [handler EXCEPT ![c].minRemain = Min({m, d})]
    BY <1>7 DEF TimeOutNext
  <2>2. /\ more \in Seq(TimerProxies) /\ IsInjective(more) /\ (\A q : InChain(more, q) <=> Set(c, q) \/ q = p)
        /\ DOMAIN more = 1 .. Len(s) + 1 /\ more[Len(s) + 1] = p /\ Len(s) \in Nat
        /\ \A i \in 1 .. Len(s) : i \in DOMAIN s /\ more[i] = s[i]
    <3>1. /\ more \in Seq(TimerProxies) /\ (\A q : InChain(more, q) <=> InChain(s, q) \/ q = p)
          /\ IsInjective(s) /\ ~InChain(s, p) => IsInjective(more)
      BY <1>2, <1>3, AppendChain
    <3>2. /\ DOMAIN more = 1 .. Len(s) + 1 /\ more[Len(s) + 1] = p /\ Len(s) \in Nat
          /\ \A i \in 1 .. Len(s) : i \in DOMAIN s /\ more[i] = s[i]
      <4>1. Len(more) = Len(s) + 1 /\ more[Len(s) + 1] = p /\ \A i \in 1 .. Len(s) : more[i] = s[i]
        BY <1>2, <1>3, AppendProperties
      <4>2. Len(s) \in Nat /\ DOMAIN s = 1 .. Len(s) /\ DOMAIN more = 1 .. Len(more)
        BY <1>3, <3>1, LenProperties
      <4> QED BY <4>1, <4>2
    <3> QED BY <1>3, <3>1, <3>2 DEF Set
  <2>3. Min({m, d}) \in Nat /\ Min({m, d}) <= m /\ Min({m, d}) <= d
    BY <1>3, MinOfTimes, {m, d} \subseteq Nat, {m, d} # {}
  <2>4. /\ timerProxyChain'[c] = more /\ timerProxyChain' \in [TimerCores -> Seq(TimerProxies)]
        /\ \A e \in TimerCores : e # c => timerProxyChain'[e] = timerProxyChain[e]
    <3> HIDE DEF more
    <3> QED BY <1>0, <2>1, <2>2 DEF TimerType
  <2> HIDE DEF o, more
  <2>5. /\ proxy' \in [TimerProxies -> [startTime : Nat, duration : Nat, repeatFlag : BOOLEAN]]
        /\ proxy'[p].startTime = t /\ proxy'[p].duration = d
        /\ \A q \in TimerProxies : q # p => proxy'[q] = proxy[q]
    BY <1>0, <1>2, <1>3, <2>1 DEF TimerType
  <2>6. /\ handler' \in [TimerCores -> [on : BOOLEAN, time : Nat, minRemain : Nat]]
        /\ handler'[c].on /\ handler'[c].time = t /\ handler'[c].minRemain = Min({m, d})
        /\ \A e \in TimerCores : e # c => handler'[e] = handler[e]
    BY <1>0, <1>1, <2>1, <2>3 DEF TimerType
  <2>7. TimerType'
    BY <1>0, <1>1, <1>4, <2>4, <2>5, <2>6 DEF TimerType
  <2>8. \A q : Set(c, q)' <=> Set(c, q) \/ q = p
    <3> TAKE q
    <3>1. Set(c, q)' <=> InChain(more, q)
      BY <2>4 DEF Set
    <3> QED BY <2>2, <3>1
  <2>9. ProxyOf(c)'
    <3>1. ASSUME NEW i \in DOMAIN more, NEW j \in DOMAIN more, i < j, proxy'[more[i]].startTime # Unknown
          PROVE  proxy'[more[j]].startTime # Unknown
      <4>1. CASE j = Len(s) + 1
        BY <1>3, <2>2, <2>5, <4>1 DEF Unknown
      <4>2. CASE j # Len(s) + 1
        <5>1. i \in 1 .. Len(s) /\ j \in 1 .. Len(s)
          BY <2>2, <3>1, <4>2
        <5>2. i \in DOMAIN s /\ j \in DOMAIN s /\ more[i] = s[i] /\ more[j] = s[j]
          BY <2>2, <5>1
        <5>3. Set(c, s[i]) /\ Set(c, s[j])
          BY <5>2 DEF Set, InChain
        <5>4. proxy'[s[i]] = proxy[s[i]] /\ proxy'[s[j]] = proxy[s[j]]
          BY <1>0, <1>3, <2>5, <5>3, ChainOf
        <5>5. Started(s[i]) => Started(s[j])
          BY <1>0, <3>1, <5>2 DEF CoreOf, ProxyOf
        <5> QED BY <3>1, <5>2, <5>4, <5>5 DEF Started
      <4> QED BY <4>1, <4>2
    <3>2. \A i, j \in DOMAIN timerProxyChain'[c] :
            i < j /\ proxy'[timerProxyChain'[c][i]].startTime # Unknown
            => proxy'[timerProxyChain'[c][j]].startTime # Unknown
      BY <2>4, <3>1
    <3>3. \A q : Set(c, q)' \/ TimedOut(c, q)' => q \in DOMAIN home' /\ home'[q] = c
      BY <1>0, <1>1, <1>3, <1>5, <2>8 DEF CoreOf, ProxyOf
    <3>4. IsInjective(timerProxyChain'[c]) /\ IsInjective(timedOutTimerProxyChain'[c])
      BY <1>2, <1>4, <2>2, <2>4
    <3>5. \A q : ~(Set(c, q)' /\ TimedOut(c, q)')
      BY <1>0, <1>5, <2>8 DEF CoreOf, ProxyOf
    <3> QED BY <3>2, <3>3, <3>4, <3>5 DEF ProxyOf, Started
  <2>10. RemainOf(c)'
    <3>1. ASSUME NEW q, Set(c, q)', Started(q)' PROVE t + Min({m, d}) <= DueAt(q)'
      <4>1. CASE q = p
        <5>1. DueAt(q)' = t + d
          BY <2>5, <4>1 DEF DueAt
        <5> HIDE DEF t, d, m
        <5> QED BY <1>3, <2>3, <5>1
      <4>2. CASE q # p
        <5>1. Set(c, q)
          BY <2>8, <3>1, <4>2
        <5>2. proxy'[q] = proxy[q] /\ proxy[q].startTime \in Nat /\ proxy[q].duration \in Nat
          BY <1>0, <2>5, <4>2, <5>1, ChainOf DEF TimerType
        <5>3. Started(q) /\ DueAt(q)' = DueAt(q) /\ DueAt(q) \in Nat
          BY <3>1, <5>2 DEF Started, DueAt
        <5>4. t + m <= DueAt(q)
          BY <1>3, <5>1, <5>3
        <5> HIDE DEF t, d, m
        <5> QED BY <1>3, <2>3, <5>3, <5>4
      <4> QED BY <4>1, <4>2
    <3>2. t # Unknown
      BY <1>3 DEF Unknown
    <3> HIDE DEF t, m, d
    <3> QED BY <2>6, <3>1, <3>2 DEF RemainOf
  <2>11. NowOf(c)' /\ CoverOf(c)'
    <3>1. (Answered(c)' <=> Answered(c)) /\ (Requested(c)' <=> Requested(c)) /\ LastAsked(c)' = LastAsked(c)
      BY <1>1 DEF Answered, Requested, LastAsked
    <3> QED BY <1>0, <1>1, <2>6, <3>1 DEF CoreOf, NowOf, CoverOf
  <2>12. ASSUME NEW e \in TimerCores, e # c PROVE CoreOf(e)'
    <3>1. ASSUME NEW q, Set(e, q) \/ TimedOut(e, q) PROVE proxy'[q] = proxy[q]
      <4>1. home[q] = e /\ q \in TimerProxies
        BY <1>0, <3>1, ChainOf DEF CoreOf, ProxyOf
      <4>2. q # p
        BY <1>3, <2>12, <4>1
      <4> QED BY <2>5, <4>1, <4>2
    <3>2. CoreOf(e) /\ TimerType
      BY <1>0
    <3> QED BY <1>1, <1>4, <2>4, <2>6, <2>12, <3>1, <3>2, OtherCore
  <2>13. ClientInv'
    BY <1>0, <1>1 DEF ClientInv
  <2>14. CoreOf(c)'
    BY <2>9, <2>10, <2>11 DEF CoreOf
  <2> QED BY <2>7, <2>12, <2>13, <2>14 DEF TimerInv
<1> QED BY <1>6, <1>7

\* The third loop starts the timers that are new, which are in front.
LEMMA TimeOutEndKeeps ==
  ASSUME TimerInv, NEW c \in TimerCores, TimeOutEnd(c)
  PROVE  TimerInv'
<1>0. TimerType /\ ClientInv /\ \A e \in TimerCores : CoreOf(e)
  BY DEF TimerInv
<1> DEFINE members  == timerProxyChain[c]
           new    == {members[i] : i \in {j \in DOMAIN members : \A k \in 1 .. j : proxy[members[k]].startTime = Unknown}}
           times  == {handler[c].minRemain} \cup {proxy[p].duration : p \in new}
           remain == Min(times)
           t      == handler[c].time
           m      == handler[c].minRemain
<1>1. /\ handler[c].on /\ timedOutTimerProxyChain[c] = << >>
      /\ proxy' = [p \in TimerProxies |-> IF p \in new THEN [proxy[p] EXCEPT !.startTime = t] ELSE proxy[p]]
      /\ handler' = [handler EXCEPT ![c].on = FALSE, ![c].minRemain = Forever]
      /\ IF members = << >> THEN UNCHANGED requestVars ELSE getTime(c, remain)
      /\ UNCHANGED <<now, home, timerProxyChain, timedOutTimerProxyChain, timeOuts, timerClient, serviceCallback>>
  BY DEF TimeOutEnd, serviceVars
<1>2. /\ members \in Seq(TimerProxies) /\ Len(members) \in Nat /\ DOMAIN members = 1 .. Len(members)
      /\ IsInjective(members) /\ IsInjective(timedOutTimerProxyChain[c])
      /\ t \in Nat \ {0} /\ m \in Nat
      /\ \A q : Set(c, q) /\ Started(q) => t + m <= DueAt(q)
  <2>1. members \in Seq(TimerProxies) /\ IsInjective(members) /\ IsInjective(timedOutTimerProxyChain[c])
    BY <1>0, ChainOf DEF CoreOf, ProxyOf
  <2>2. t \in Nat \ {0} /\ m \in Nat /\ \A q : Set(c, q) /\ Started(q) => t + m <= DueAt(q)
    BY <1>0, <1>1 DEF CoreOf, RemainOf, TimerType, Unknown
  <2> QED BY <2>1, <2>2, LenProperties
<1>3. \A q \in new : Set(c, q)
  BY DEF Set, InChain
\* The new ones are those that are not started.
<1>4. \A q : Set(c, q) /\ ~Started(q) => q \in new
  <2> SUFFICES ASSUME NEW q, Set(c, q), ~Started(q) PROVE q \in new
    OBVIOUS
  <2>1. PICK i \in DOMAIN members : members[i] = q
    BY DEF Set, InChain
  <2>2. ASSUME NEW k \in 1 .. i PROVE ~Started(members[k])
    <3>1. k \in DOMAIN members /\ (k < i \/ k = i)
      BY <1>2, <2>1
    <3>2. k < i /\ Started(members[k]) => Started(members[i])
      BY <1>0, <2>1, <3>1 DEF CoreOf, ProxyOf
    <3> QED BY <2>1, <3>1, <3>2
  <2> QED BY <2>1, <2>2 DEF Started
<1>5. new \subseteq TimerProxies
  BY <1>0, <1>3, ChainOf
<1> HIDE DEF new
<1>6. remain \in Nat /\ remain <= m /\ \A q \in new : remain <= proxy[q].duration
  <2>1. times \subseteq Nat /\ times # {} /\ m \in times /\ \A q \in new : proxy[q].duration \in times
    <3>1. \A q \in new : proxy[q].duration \in Nat
      BY <1>0, <1>5 DEF TimerType
    <3> QED BY <1>2, <3>1
  <2> HIDE DEF times, m
  <2> QED BY <2>1, MinOfTimes
<1> HIDE DEF times, remain
<1>7. /\ proxy' \in [TimerProxies -> [startTime : Nat, duration : Nat, repeatFlag : BOOLEAN]]
      /\ \A q \in new : proxy'[q].startTime = t /\ proxy'[q].duration = proxy[q].duration
      /\ \A q \in TimerProxies : q \notin new => proxy'[q] = proxy[q]
  <2>1. proxy \in [TimerProxies -> [startTime : Nat, duration : Nat, repeatFlag : BOOLEAN]]
    BY <1>0 DEF TimerType
  <2> HIDE DEF t
  <2>2. \A q \in TimerProxies :
          proxy'[q] = IF q \in new THEN [proxy[q] EXCEPT !.startTime = t] ELSE proxy[q]
    BY <1>1
  <2>3. ASSUME NEW q \in new
        PROVE  /\ proxy'[q].startTime = t /\ proxy'[q].duration = proxy[q].duration
               /\ proxy'[q] \in [startTime : Nat, duration : Nat, repeatFlag : BOOLEAN]
    BY <1>2, <1>5, <2>1, <2>2
  <2>4. ASSUME NEW q \in TimerProxies, q \notin new PROVE proxy'[q] = proxy[q]
    BY <2>2, <2>4
  <2>5. \A q \in TimerProxies : proxy'[q] \in [startTime : Nat, duration : Nat, repeatFlag : BOOLEAN]
    BY <2>1, <2>3, <2>4
  <2> QED BY <1>1, <2>3, <2>4, <2>5
<1>8. \A q : Set(c, q) => Started(q)' /\ t + remain <= DueAt(q)'
  <2> SUFFICES ASSUME NEW q, Set(c, q) PROVE Started(q)' /\ t + remain <= DueAt(q)'
    OBVIOUS
  <2>1. q \in TimerProxies
    BY <1>0, ChainOf
  <2>2. proxy[q].startTime \in Nat /\ proxy[q].duration \in Nat
    BY <1>0, <2>1 DEF TimerType
  <2>3. CASE q \in new
    <3>1. Started(q)' /\ DueAt(q)' = t + proxy[q].duration
      BY <1>2, <1>7, <2>3 DEF Started, DueAt, Unknown
    <3> HIDE DEF t
    <3> QED BY <1>2, <1>6, <2>2, <2>3, <3>1
  <2>4. CASE q \notin new
    <3>1. proxy'[q] = proxy[q] /\ Started(q)
      BY <1>4, <1>7, <2>1, <2>4
    <3>2. Started(q)' /\ DueAt(q)' = DueAt(q) /\ DueAt(q) \in Nat
      BY <2>2, <3>1 DEF Started, DueAt
    <3>3. t + m <= DueAt(q)
      BY <1>2, <3>1
    <3> HIDE DEF t, m
    <3> QED BY <1>2, <1>6, <3>2, <3>3
  <2> QED BY <2>3, <2>4
<1>9. /\ handler' \in [TimerCores -> [on : BOOLEAN, time : Nat, minRemain : Nat]]
      /\ ~handler'[c].on /\ handler'[c].time = t
      /\ \A e \in TimerCores : e # c => handler'[e] = handler[e]
  <2>1. Forever \in Nat
    BY TimerAssumption DEF Forever
  <2> QED BY <1>0, <1>1, <2>1 DEF TimerType
<1>10. /\ getNowTimeInProgressFlag' \in [TimerCores -> BOOLEAN]
       /\ sendGetEventTryCallback' \in [TimerCores -> [duration : Nat, registered : BOOLEAN]]
       /\ gets' \in [TimerCores -> Seq(Nat)]
       /\ \A e \in TimerCores : e # c => /\ getNowTimeInProgressFlag'[e] = getNowTimeInProgressFlag[e]
                                         /\ sendGetEventTryCallback'[e] = sendGetEventTryCallback[e]
                                         /\ gets'[e] = gets[e]
  <2>1. CASE members = << >>
    BY <1>0, <1>1, <2>1 DEF TimerType, requestVars
  <2>2. CASE members # << >>
    <3>1. getTime(c, remain)
      BY <1>1, <2>2
    <3> QED BY <1>0, <1>6, <3>1, GetTime
  <2> QED BY <2>1, <2>2
<1>11. TimerType'
  BY <1>0, <1>1, <1>7, <1>9, <1>10 DEF TimerType
<1>12. \A q : (Set(c, q)' <=> Set(c, q)) /\ ~TimedOut(c, q)'
  BY <1>1 DEF Set, TimedOut, InChain
<1>13. ProxyOf(c)'
  <2>1. ASSUME NEW i \in DOMAIN members PROVE proxy'[members[i]].startTime # Unknown
    <3>1. Set(c, members[i])
      BY <2>1 DEF Set, InChain
    <3>2. Started(members[i])'
      <4> DEFINE q == members[i]
      <4>1. Set(c, q)
        BY <3>1
      <4>2. proxy'[q].startTime # Unknown
        <5> HIDE DEF q
        <5> QED BY <1>8, <4>1 DEF Started
      <4>3. members' = members
        BY <1>1
      <4> QED BY <4>2, <4>3 DEF Started
    <3>3. members' = members
      BY <1>1
    <3> QED BY <3>2, <3>3 DEF Started
  <2>2. \A i, j \in DOMAIN timerProxyChain'[c] :
          i < j /\ proxy'[timerProxyChain'[c][i]].startTime # Unknown
            => proxy'[timerProxyChain'[c][j]].startTime # Unknown
    BY <1>1, <2>1
  <2>3. \A q : Set(c, q)' \/ TimedOut(c, q)' => q \in DOMAIN home' /\ home'[q] = c
    BY <1>0, <1>1, <1>12 DEF CoreOf, ProxyOf
  <2>4. IsInjective(timerProxyChain'[c]) /\ IsInjective(timedOutTimerProxyChain'[c])
    BY <1>1, <1>2
  <2> QED BY <1>12, <2>2, <2>3, <2>4 DEF ProxyOf, Started
<1>14. NowOf(c)' /\ CoverOf(c)'
  <2>1. CASE members = << >>
    <3>1. \A q : ~Set(c, q)'
      BY <1>12, <2>1 DEF Set, InChain
    <3>2. /\ getNowTimeInProgressFlag' = getNowTimeInProgressFlag /\ (Answered(c)' <=> Answered(c))
          /\ (Requested(c)' <=> Requested(c)) /\ LastAsked(c)' = LastAsked(c)
      BY <1>1, <2>1 DEF Answered, Requested, LastAsked, requestVars
    <3> QED BY <1>0, <3>1, <3>2 DEF CoreOf, NowOf, CoverOf
  <2>2. CASE members # << >>
    <3>1. getTime(c, remain) /\ NowOf(c) /\ UNCHANGED <<timeOuts, timerClient>>
      BY <1>0, <1>1, <2>2 DEF CoreOf
    <3>2. NowOf(c)' /\ (Answered(c) \/ (Requested(c)' /\ LastAsked(c)' = remain))
      BY <1>0, <1>6, <3>1, GetTimeAsks
    <3>3. Answered(c)' <=> Answered(c)
      BY <1>1 DEF Answered
    <3>4. CoverOf(c)'
      <4> HIDE DEF t
      <4> QED BY <1>8, <1>9, <1>12, <3>2, <3>3 DEF CoverOf
    <3> QED BY <3>2, <3>4
  <2> QED BY <2>1, <2>2
<1>15. CoreOf(c)'
  BY <1>9, <1>13, <1>14 DEF CoreOf, RemainOf
<1>16. ASSUME NEW e \in TimerCores, e # c PROVE CoreOf(e)'
  <2>1. ASSUME NEW q, Set(e, q) \/ TimedOut(e, q) PROVE proxy'[q] = proxy[q]
    <3>1. home[q] = e /\ q \in TimerProxies
      BY <1>0, <2>1, ChainOf DEF CoreOf, ProxyOf
    <3>2. ~Set(c, q)
      BY <1>0, <1>16, <3>1 DEF CoreOf, ProxyOf
    <3> QED BY <1>3, <1>7, <3>1, <3>2
  <2>2. CoreOf(e) /\ TimerType
    BY <1>0
  <2> QED BY <1>1, <1>9, <1>10, <1>16, <2>1, <2>2, OtherCore
<1>17. ClientInv'
  BY <1>0, <1>1 DEF ClientInv
<1> QED BY <1>11, <1>15, <1>16, <1>17 DEF TimerInv

\* The callback of the service answers a request or leaves it.
LEMMA ServiceCallbackKeeps ==
  ASSUME TimerInv, ServiceCallback
  PROVE  TimerInv'
<1>0. TimerType /\ ClientInv /\ \A e \in TimerCores : CoreOf(e)
  BY DEF TimerInv
<1> DEFINE waiting == {c \in TimerCores : timerClient[c].inProgressFlag}
           start   == [c \in waiting |-> IF timerClient[c].startTime = Unknown THEN now ELSE timerClient[c].startTime]
           due     == {c \in waiting : now - start[c] >= timerClient[c].duration}
<1>1. PICK failed \in SUBSET (due \cap PushFails) :
        /\ timeOuts' = [c \in TimerCores |-> IF c \in due \ failed THEN Append(timeOuts[c], now) ELSE timeOuts[c]]
        /\ timerClient' = [c \in TimerCores |->
             IF c \notin waiting THEN timerClient[c]
             ELSE [timerClient[c] EXCEPT !.startTime = start[c], !.inProgressFlag = c \notin due,
                                         !.retry = @ \/ c \in failed]]
  BY DEF ServiceCallback
<1>2. /\ serviceCallback' = (waiting # due)
      /\ UNCHANGED <<now, home, proxy, timerProxyChain, timedOutTimerProxyChain, handler, getNowTimeInProgressFlag,
                     sendGetEventTryCallback, gets>>
  BY DEF ServiceCallback, proxyVars, requestVars
<1>3. \A c \in waiting : start[c] \in Nat
  BY <1>0 DEF TimerType
<1>4. due \subseteq waiting /\ failed \subseteq due /\ waiting \subseteq TimerCores
      /\ \A c \in TimerCores : c \in waiting <=> timerClient[c].inProgressFlag
  BY <1>1
<1> HIDE DEF start, due, waiting
<1>5. ASSUME NEW c \in TimerCores
      PROVE  /\ timerClient'[c] \in [startTime : Nat, duration : Nat, inProgressFlag : BOOLEAN, retry : BOOLEAN]
             /\ timerClient'[c].duration = timerClient[c].duration
             /\ timerClient'[c].inProgressFlag <=> c \in waiting /\ c \notin due
             /\ timerClient'[c].retry <=> timerClient[c].retry \/ c \in failed
  <2>1. timerClient[c] \in [startTime : Nat, duration : Nat, inProgressFlag : BOOLEAN, retry : BOOLEAN]
    BY <1>0 DEF TimerType
  <2>2. CASE c \notin waiting
    <3>1. timerClient'[c] = timerClient[c]
      BY <1>1, <2>2
    <3> QED BY <1>4, <2>1, <2>2, <3>1
  <2>3. CASE c \in waiting
    <3>1. timerClient'[c] = [timerClient[c] EXCEPT !.startTime = start[c], !.inProgressFlag = c \notin due,
                                                   !.retry = @ \/ c \in failed]
      BY <1>1, <2>3
    <3>2. (c \notin due) \in BOOLEAN /\ (timerClient[c].retry \/ c \in failed) \in BOOLEAN
      OBVIOUS
    <3> QED BY <1>3, <2>1, <2>3, <3>1, <3>2
  <2> QED BY <2>2, <2>3
<1>6. ASSUME NEW c \in TimerCores
      PROVE  /\ timeOuts'[c] \in Seq(Nat \ {0})
             /\ c \in due \ failed => timeOuts'[c] # << >>
             /\ c \notin due \ failed => timeOuts'[c] = timeOuts[c]
  <2>1. timeOuts[c] \in Seq(Nat \ {0}) /\ now \in Nat \ {0}
    BY <1>0 DEF TimerType
  <2>2. Append(timeOuts[c], now) \in Seq(Nat \ {0}) /\ Append(timeOuts[c], now) # << >>
    BY <2>1, LastItem
  <2> QED BY <1>1, <2>1, <2>2
<1>7. /\ timerClient' \in [TimerCores -> [startTime : Nat, duration : Nat, inProgressFlag : BOOLEAN, retry : BOOLEAN]]
      /\ timeOuts' \in [TimerCores -> Seq(Nat \ {0})] /\ serviceCallback' \in BOOLEAN
  BY <1>1, <1>2, <1>5, <1>6
<1>8. TimerType'
  BY <1>0, <1>2, <1>7 DEF TimerType
<1>9. ASSUME NEW c \in TimerCores PROVE CoreOf(c)'
  <2>1. CASE c \in due
    <3>1. Answered(c)'
      BY <1>5, <1>6, <2>1 DEF Answered
    <3>2. CoreOf(c) /\ TimerType
      BY <1>0
    <3> QED BY <1>2, <3>1, <3>2, SameChains
  <2>2. CASE c \notin due
    <3>1. Requested(c) => Requested(c)' /\ LastAsked(c)' = LastAsked(c)
      BY <1>2, <1>4, <1>5, <2>2 DEF Requested, LastAsked
    <3>2. Answered(c) => Answered(c)'
      BY <1>4, <1>5, <1>6, <2>2 DEF Answered
    <3>3. \/ Answered(c)'
          \/ ~Answered(c) /\ (Requested(c) => Requested(c)' /\ LastAsked(c)' = LastAsked(c))
      BY <3>1, <3>2
    <3>4. CoreOf(c) /\ TimerType
      BY <1>0
    <3> QED BY <1>2, <3>3, <3>4, SameChains
  <2> QED BY <2>1, <2>2
<1>10. ClientInv'
  BY <1>2, <1>4, <1>5 DEF ClientInv
<1> QED BY <1>8, <1>9, <1>10 DEF TimerInv

\* An answer that is pushed at last
LEMMA TimeOutAgainKeeps ==
  ASSUME TimerInv, NEW c \in TimerCores, TimeOutAgain(c)
  PROVE  TimerInv'
<1>0. TimerType /\ ClientInv /\ \A e \in TimerCores : CoreOf(e)
  BY DEF TimerInv
<1>1. /\ timerClient' = [timerClient EXCEPT ![c].retry = FALSE]
      /\ timeOuts' = [timeOuts EXCEPT ![c] = Append(@, now)]
      /\ UNCHANGED <<now, home, proxy, timerProxyChain, timedOutTimerProxyChain, handler, getNowTimeInProgressFlag,
                     sendGetEventTryCallback, gets, serviceCallback>>
  BY DEF TimeOutAgain, proxyVars, requestVars
<1>2. Append(timeOuts[c], now) \in Seq(Nat \ {0}) /\ Append(timeOuts[c], now) # << >>
  <2>1. timeOuts[c] \in Seq(Nat \ {0}) /\ now \in Nat \ {0}
    BY <1>0 DEF TimerType
  <2> QED BY <2>1, LastItem
<1>3. /\ timeOuts' \in [TimerCores -> Seq(Nat \ {0})] /\ timeOuts'[c] # << >>
      /\ \A e \in TimerCores : e # c => timeOuts'[e] = timeOuts[e]
  BY <1>0, <1>1, <1>2 DEF TimerType
<1>4. /\ timerClient' \in [TimerCores -> [startTime : Nat, duration : Nat, inProgressFlag : BOOLEAN, retry : BOOLEAN]]
      /\ \A e \in TimerCores : timerClient'[e].inProgressFlag = timerClient[e].inProgressFlag
      /\ \A e \in TimerCores : e # c => timerClient'[e] = timerClient[e]
  BY <1>0, <1>1 DEF TimerType
<1>5. TimerType'
  BY <1>0, <1>1, <1>3, <1>4 DEF TimerType
<1>6. CoreOf(c)'
  <2>1. Answered(c)'
    BY <1>3 DEF Answered
  <2>2. CoreOf(c) /\ TimerType
    BY <1>0
  <2> QED BY <1>1, <2>1, <2>2, SameChains
<1>7. ASSUME NEW e \in TimerCores, e # c PROVE CoreOf(e)'
  <2>1. CoreOf(e) /\ TimerType
    BY <1>0
  <2> QED BY <1>1, <1>3, <1>4, <1>7, <2>1, OtherCore
<1>8. ClientInv'
  BY <1>0, <1>1, <1>4 DEF ClientInv
<1> QED BY <1>5, <1>6, <1>7, <1>8 DEF TimerInv

\* Time passes, or nothing happens.
LEMMA TickKeeps ==
  ASSUME TimerInv, now' \in Nat \ {0},
         UNCHANGED <<home, proxyVars, handler, requestVars, timeOuts, serviceVars>>
  PROVE  TimerInv'
<1>0. TimerType /\ ClientInv /\ \A e \in TimerCores : CoreOf(e)
  BY DEF TimerInv
<1>1. UNCHANGED <<home, proxy, timerProxyChain, timedOutTimerProxyChain, handler, getNowTimeInProgressFlag,
                  sendGetEventTryCallback, gets, timeOuts, timerClient, serviceCallback>>
  BY DEF proxyVars, requestVars, serviceVars
<1>2. TimerType'
  BY <1>0, <1>1 DEF TimerType
<1>3. ASSUME NEW e \in TimerCores PROVE CoreOf(e)'
  <2>1. CoreOf(e) /\ TimerType
    BY <1>0
  <2> QED BY <1>1, <2>1, OtherCore
<1>4. ClientInv'
  BY <1>0, <1>1 DEF ClientInv
<1> QED BY <1>2, <1>3, <1>4 DEF TimerInv

LEMMA TimerInitHas == TimerInit => TimerInv
<1> SUFFICES ASSUME TimerInit PROVE TimerInv
  OBVIOUS
<1>1. TimerType
  <2>1. Forever \in Nat /\ Unknown \in Nat
    BY TimerAssumption DEF Forever, Unknown
  <2>2. << >> \in Seq(TimerProxies) /\ << >> \in Seq(Nat) /\ << >> \in Seq(Nat \ {0})
    OBVIOUS
  <2>3. /\ now \in Nat \ {0} /\ home \in Homes /\ serviceCallback \in BOOLEAN
        /\ getNowTimeInProgressFlag \in [TimerCores -> BOOLEAN]
    <3>1. now = 1 /\ home \in Homes /\ serviceCallback = FALSE
          /\ getNowTimeInProgressFlag = [c \in TimerCores |-> FALSE]
      BY DEF TimerInit
    <3>2. serviceCallback \in BOOLEAN /\ getNowTimeInProgressFlag \in [TimerCores -> BOOLEAN]
      BY <3>1
    <3>3. now \in Nat \ {0}
      BY <3>1
    <3> QED BY <3>1, <3>2, <3>3
  <2>4. /\ proxy \in [TimerProxies -> [startTime : Nat, duration : Nat, repeatFlag : BOOLEAN]]
        /\ handler \in [TimerCores -> [on : BOOLEAN, time : Nat, minRemain : Nat]]
    <3>1. /\ [startTime |-> Unknown, duration |-> 0, repeatFlag |-> FALSE]
                \in [startTime : Nat, duration : Nat, repeatFlag : BOOLEAN]
          /\ [on |-> FALSE, time |-> Unknown, minRemain |-> Forever] \in [on : BOOLEAN, time : Nat, minRemain : Nat]
      BY <2>1
    <3> QED BY <3>1 DEF TimerInit
  <2>5. /\ timerProxyChain \in [TimerCores -> Seq(TimerProxies)]
        /\ timedOutTimerProxyChain \in [TimerCores -> Seq(TimerProxies)]
        /\ gets \in [TimerCores -> Seq(Nat)] /\ timeOuts \in [TimerCores -> Seq(Nat \ {0})]
    BY <2>2 DEF TimerInit
  <2>6. /\ sendGetEventTryCallback \in [TimerCores -> [duration : Nat, registered : BOOLEAN]]
        /\ timerClient \in [TimerCores -> [startTime : Nat, duration : Nat, inProgressFlag : BOOLEAN, retry : BOOLEAN]]
    BY <2>1 DEF TimerInit
  <2> QED BY <2>3, <2>4, <2>5, <2>6 DEF TimerType
<1>2. ASSUME NEW c \in TimerCores PROVE CoreOf(c)
  <2>1. /\ timerProxyChain[c] = << >> /\ timedOutTimerProxyChain[c] = << >>
        /\ ~handler[c].on /\ ~getNowTimeInProgressFlag[c]
    BY DEF TimerInit
  <2>2. \A q : ~Set(c, q) /\ ~TimedOut(c, q)
    BY <2>1, EmptyChain DEF Set, TimedOut
  <2>3. IsInjective(timerProxyChain[c]) /\ IsInjective(timedOutTimerProxyChain[c]) /\ DOMAIN timerProxyChain[c] = {}
    BY <2>1, EmptyChain
  <2> QED BY <2>1, <2>2, <2>3 DEF CoreOf, ProxyOf, RemainOf, NowOf, CoverOf
<1>3. ClientInv
  BY DEF TimerInit, ClientInv
<1> QED BY <1>1, <1>2, <1>3 DEF TimerInv

\* The last item of two queues, one behind the other
LEMMA LastOfTwo ==
  ASSUME NEW S, NEW s \in Seq(S), NEW u \in Seq(S)
  PROVE  /\ s \o u \in Seq(S) /\ (s \o u # << >> <=> s # << >> \/ u # << >>)
         /\ u # << >> => (s \o u)[Len(s \o u)] = u[Len(u)]
         /\ u = << >> => s \o u = s
<1>1. /\ s \o u \in Seq(S) /\ Len(s \o u) = Len(s) + Len(u)
      /\ \A i \in 1 .. Len(s) + Len(u) : (s \o u)[i] = IF i <= Len(s) THEN s[i] ELSE u[i - Len(s)]
  BY ConcatProperties
<1>2. Len(s) \in Nat /\ Len(u) \in Nat
  BY LenProperties
<1>3. s \o u # << >> <=> s # << >> \/ u # << >>
  <2>1. (s = << >> <=> Len(s) = 0) /\ (u = << >> <=> Len(u) = 0)
    BY EmptySeq
  <2>2. s \o u = << >> <=> Len(s \o u) = 0
    BY <1>1, EmptySeq
  <2> QED BY <1>1, <1>2, <2>1, <2>2
<1>4. ASSUME u # << >> PROVE (s \o u)[Len(s \o u)] = u[Len(u)]
  <2>1. Len(u) # 0
    BY <1>4, EmptySeq
  <2>2. Len(s) + Len(u) \in 1 .. Len(s) + Len(u) /\ ~(Len(s) + Len(u) <= Len(s))
        /\ Len(s) + Len(u) - Len(s) = Len(u)
    BY <1>2, <2>1
  <2> QED BY <1>1, <2>2
<1>5. u = << >> => s \o u = s
  BY ConcatEmptySeq
<1> QED BY <1>1, <1>3, <1>4, <1>5

\* What is asked for, in the order in which the service sees it
LEMMA AskedLast ==
  ASSUME TimerType, NEW c \in TimerCores
  PROVE  /\ Requested(c) <=> Asked(c) # << >>
         /\ Requested(c) => Last(Asked(c)) = LastAsked(c)
<1> DEFINE first == IF timerClient[c].inProgressFlag THEN <<timerClient[c].duration>> ELSE << >>
           last  == IF sendGetEventTryCallback[c].registered THEN <<sendGetEventTryCallback[c].duration>> ELSE << >>
           fg    == first \o gets[c]
<1>1. /\ first \in Seq(Nat) /\ last \in Seq(Nat) /\ gets[c] \in Seq(Nat)
      /\ first # << >> <=> timerClient[c].inProgressFlag
      /\ last # << >> <=> sendGetEventTryCallback[c].registered
      /\ timerClient[c].inProgressFlag => first[Len(first)] = timerClient[c].duration
      /\ sendGetEventTryCallback[c].registered => last[Len(last)] = sendGetEventTryCallback[c].duration
  BY DEF TimerType
<1>2. Asked(c) = fg \o last
  BY DEF Asked
<1> HIDE DEF first, last
<1>3. /\ fg \in Seq(Nat) /\ (fg # << >> <=> first # << >> \/ gets[c] # << >>)
      /\ gets[c] # << >> => fg[Len(fg)] = gets[c][Len(gets[c])]
      /\ gets[c] = << >> => fg = first
  BY <1>1, LastOfTwo
<1> HIDE DEF fg
<1>4. /\ fg \o last # << >> <=> fg # << >> \/ last # << >>
      /\ last # << >> => (fg \o last)[Len(fg \o last)] = last[Len(last)]
      /\ last = << >> => fg \o last = fg
  <2>1. fg \in Seq(Nat) /\ last \in Seq(Nat)
    BY <1>1, <1>3
  <2> QED BY <2>1, LastOfTwo
<1>5. Requested(c) <=> Asked(c) # << >>
  BY <1>1, <1>2, <1>3, <1>4 DEF Requested
<1>6. Requested(c) => Last(Asked(c)) = LastAsked(c)
  BY <1>1, <1>2, <1>3, <1>4 DEF Requested, LastAsked, Last
<1> QED BY <1>5, <1>6

\* A timer that is set is never forgotten: as long as no answer is under way to its core, the last
\* request of the core is for the time as of now, or for one no later than the timer is due, and the
\* service is called (TimerActor::onEvent, SingletonActorEventHandler::getTime).
THEOREM TimersNeverForgotten == TimerSpec => []TimersCovered
<1>1. TimerInit => TimerInv
  BY TimerInitHas
<1>2. TimerInv /\ [TimerNext]_timerVars => TimerInv'
  <2> SUFFICES ASSUME TimerInv, [TimerNext]_timerVars PROVE TimerInv'
    OBVIOUS
  <2>1. ASSUME NEW p \in DOMAIN home, NEW s \in Settings[home[p]], set(p, s[1], s[2]) PROVE TimerInv'
    <3>1. home[p] \in TimerCores
      BY HomeIs DEF TimerInv
    <3>2. s[1] \in Nat /\ s[2] \in BOOLEAN
      BY <3>1, TimerAssumption
    <3> QED BY <2>1, <3>2, SetKeeps
  <2>2. ASSUME NEW p \in DOMAIN home, unset(p) PROVE TimerInv'
    BY <2>2, UnsetKeeps
  <2>3. ASSUME NEW c \in TimerCores,
               sendAgain(c) \/ TimeOutBegin(c) \/ TimeOutNext(c) \/ TimeOutEnd(c) \/ GetEvent(c) \/ TimeOutAgain(c)
        PROVE  TimerInv'
    BY <2>3, SendAgainKeeps, TimeOutBeginKeeps, TimeOutNextKeeps, TimeOutEndKeeps, GetEventKeeps, TimeOutAgainKeeps
  <2>4. CASE ServiceCallback
    BY <2>4, ServiceCallbackKeeps
  <2>5. CASE Tick
    <3>1. now' \in Nat \ {0}
      BY <2>5 DEF Tick, TimerInv, TimerType
    <3> QED BY <2>5, <3>1, TickKeeps DEF Tick
  <2>6. CASE UNCHANGED timerVars
    <3>1. now' \in Nat \ {0}
      BY <2>6 DEF timerVars, TimerInv, TimerType
    <3> QED BY <2>6, <3>1, TickKeeps DEF timerVars
  <2> QED BY <2>1, <2>2, <2>3, <2>4, <2>5, <2>6 DEF TimerNext
<1>3. TimerInv => TimersCovered
  <2> SUFFICES ASSUME TimerInv PROVE TimersCovered
    OBVIOUS
  <2>1. ASSUME NEW c \in TimerCores, ~handler[c].on, timerProxyChain[c] # << >>, ~Answered(c)
        PROVE  /\ Asked(c) # << >>
               /\ \A p \in Range(timerProxyChain[c]) :
                    \/ Last(Asked(c)) = 0
                    \/ /\ proxy[p].startTime # Unknown
                       /\ handler[c].time + Last(Asked(c)) <= proxy[p].startTime + proxy[p].duration
    <3>1. \A p \in Range(timerProxyChain[c]) : Set(c, p)
      BY DEF Range, Set, InChain
    <3>2. \A p : Set(c, p) => Requested(c) /\ (LastAsked(c) # 0 => Started(p) /\ handler[c].time + LastAsked(c) <= DueAt(p))
      BY <2>1 DEF TimerInv, CoreOf, CoverOf
    <3>3. \E p : Set(c, p)
      <4>1. timerProxyChain[c] \in Seq(TimerProxies)
        BY ChainOf DEF TimerInv
      <4> QED BY <2>1, <4>1, HeadChain DEF Set
    <3>4. Asked(c) # << >> /\ Last(Asked(c)) = LastAsked(c)
      BY <3>2, <3>3, AskedLast DEF TimerInv
    <3> QED BY <3>1, <3>2, <3>4 DEF Started, DueAt
  <2>2. (\E c \in TimerCores : timerClient[c].inProgressFlag) => serviceCallback
    BY DEF TimerInv, ClientInv
  <2> QED BY <2>1, <2>2 DEF TimersCovered
<1> QED BY <1>1, <1>2, <1>3, PTL DEF TimerSpec

-----------------------------------------------------------------------------
(* NodeAllocator: the blocks fill the pages, and none is in two places.    *)

\* The recursive definition of Power has the values that it asks for.
LEMMA PowerIs ==
  /\ Power \in [Nat -> Nat \ {0}]
  /\ Power[0] = 1
  /\ \A n \in Nat : Power[n + 1] = 2 * Power[n]
<1> DEFINE V == Nat \ {0}
           Upto(n) == {f \in [0 .. n -> V] : f[0] = 1 /\ \A i \in 1 .. n : f[i] = 2 * f[i - 1]}
           one(n) == CHOOSE f : f \in Upto(n)
           P == [n \in Nat |-> one(n)[n]]
           Value(f, n) == IF n = 0 THEN 1 ELSE 2 * f[n - 1]
           power == CHOOSE f : f = [n \in Nat |-> Value(f, n)]
<1>1. \A n \in Nat : Upto(n) # {}
  <2> SUFFICES ASSUME NEW n \in Nat PROVE Upto(n) # {}
    OBVIOUS
  <2> DEFINE step == [i \in 1 .. n |-> [v \in V |-> 2 * v]]
  <2>1. step \in [1 .. n -> [V -> V]] OBVIOUS
  <2>2. \A i \in 1 .. n, v \in V : step[i][v] = 2 * v OBVIOUS
  <2>3. 1 \in V OBVIOUS
  <2> HIDE DEF step
  <2>4. PICK f \in [0 .. n -> V] : Recurs(f, n, 1, step)
    <3> HIDE DEF V
    <3> QED BY <2>1, <2>3, Recursion
  <2>5. f[0] = 1 /\ \A i \in 1 .. n : f[i] = step[i][f[i - 1]] BY <2>4 DEF Recurs
  <2>6. \A i \in 1 .. n : f[i - 1] \in V OBVIOUS
  <2>7. f \in Upto(n) BY <2>2, <2>5, <2>6
  <2> QED BY <2>7
<1>2. \A n \in Nat : one(n) \in Upto(n)
  <2> HIDE DEF Upto
  <2> QED BY <1>1
<1> HIDE DEF one
<1>3. \A n \in Nat : one(n) \in [0 .. n -> V] /\ one(n)[0] = 1
                     /\ \A i \in 1 .. n : one(n)[i] = 2 * one(n)[i - 1]
  BY <1>2
<1>4. \A n \in Nat, m \in Nat : n <= m => one(n)[n] = one(m)[n]
  <2> SUFFICES ASSUME NEW m \in Nat PROVE \A n \in Nat : n <= m => one(n)[n] = one(m)[n]
    OBVIOUS
  <2> SUFFICES ASSUME NEW n \in Nat, n <= m PROVE one(n)[n] = one(m)[n]
    OBVIOUS
  <2> DEFINE T == {i \in Nat : i <= n => one(n)[i] = one(m)[i]}
  <2>1. 0 \in T BY <1>3
  <2>2. \A i \in Nat : i \in T => i + 1 \in T
    <3> SUFFICES ASSUME NEW i \in Nat, i \in T, i + 1 <= n PROVE one(n)[i + 1] = one(m)[i + 1]
      OBVIOUS
    <3>1. i + 1 \in 1 .. n /\ i + 1 \in 1 .. m /\ (i + 1) - 1 = i OBVIOUS
    <3>2. one(n)[i + 1] = 2 * one(n)[i] BY <1>3, <3>1
    <3>3. one(m)[i + 1] = 2 * one(m)[i] BY <1>3, <3>1
    <3> QED BY <3>2, <3>3
  <2>3. \A i \in Nat : i \in T
    <3> HIDE DEF T
    <3> QED BY <2>1, <2>2, SetInduction
  <2> QED BY <2>3
<1>5. P \in [Nat -> V]
  <2>1. \A n \in Nat : one(n)[n] \in V BY <1>3
  <2> HIDE DEF V
  <2> QED BY <2>1
<1>6. P[0] = 1 BY <1>3
<1>7. \A n \in Nat : P[n + 1] = 2 * P[n]
  <2> SUFFICES ASSUME NEW n \in Nat PROVE P[n + 1] = 2 * P[n]
    OBVIOUS
  <2>1. one(n + 1)[n + 1] = 2 * one(n + 1)[n]
    <3>1. n + 1 \in Nat /\ n + 1 \in 1 .. n + 1 /\ (n + 1) - 1 = n OBVIOUS
    <3> QED BY <1>3, <3>1
  <2>2. one(n)[n] = one(n + 1)[n] BY <1>4
  <2> QED BY <2>1, <2>2
<1> HIDE DEF P
<1>8. P = [n \in Nat |-> Value(P, n)]
  <2>1. \A n \in Nat : P[n] = Value(P, n)
    <3> SUFFICES ASSUME NEW n \in Nat PROVE P[n] = Value(P, n)
      OBVIOUS
    <3>1. CASE n = 0 BY <3>1, <1>6
    <3>2. CASE n # 0
      <4>1. n - 1 \in Nat /\ (n - 1) + 1 = n BY <3>2
      <4>2. P[n] = 2 * P[n - 1] BY <4>1, <1>7
      <4> QED BY <3>2, <4>2
    <3> QED BY <3>1, <3>2
  <2> HIDE DEF Value
  <2> QED BY <1>5, <2>1
<1>9. Power = power BY DEF Power
<1>10. power = [n \in Nat |-> Value(power, n)]
  <2> HIDE DEF Value
  <2> QED BY <1>8
<1>11. \A n \in Nat : Power[n] = IF n = 0 THEN 1 ELSE 2 * Power[n - 1]
  <2>1. \A n \in Nat : power[n] = Value(power, n)
    <3> HIDE DEF Value, power
    <3> QED BY <1>10
  <2> HIDE DEF power
  <2> QED BY <1>9, <2>1
<1>12. Power = [n \in Nat |-> Value(Power, n)] BY <1>9, <1>10
<1>13. DOMAIN Power = Nat
  <2> HIDE DEF Value
  <2> QED BY <1>12
<1>14. Power[0] = 1 BY <1>11
<1>15. \A n \in Nat : Power[n + 1] = 2 * Power[n]
  <2> SUFFICES ASSUME NEW n \in Nat PROVE Power[n + 1] = 2 * Power[n]
    OBVIOUS
  <2>1. n + 1 \in Nat /\ n + 1 # 0 /\ (n + 1) - 1 = n OBVIOUS
  <2> QED BY <1>11, <2>1
<1>16. \A n \in Nat : Power[n] \in V
  <2> DEFINE T == {n \in Nat : Power[n] \in V}
  <2>1. 0 \in T BY <1>14
  <2>2. \A n \in Nat : n \in T => n + 1 \in T BY <1>15
  <2>3. \A n \in Nat : n \in T
    <3> HIDE DEF T
    <3> QED BY <2>1, <2>2, SetInduction
  <2> QED BY <2>3
<1>17. Power = [n \in Nat |-> Power[n]]
  <2> HIDE DEF Value
  <2> QED BY <1>12
<1> QED BY <1>14, <1>15, <1>16, <1>17

\* 2^n is more than n, and from the second on at least twice it.
LEMMA PowerGrows == \A n \in Nat : Power[n] \in Nat \ {0} /\ Power[n] >= n + 1 /\ (n > 0 => Power[n] >= 2 * n)
<1> DEFINE T == {n \in Nat : Power[n] \in Nat \ {0} /\ Power[n] >= n + 1 /\ (n > 0 => Power[n] >= 2 * n)}
<1>1. \A n \in Nat : Power[n] \in Nat \ {0} /\ Power[n + 1] = 2 * Power[n] BY PowerIs
<1>2. 0 \in T BY PowerIs
<1>3. \A n \in Nat : n \in T => n + 1 \in T
  <2> SUFFICES ASSUME NEW n \in Nat, n \in T PROVE n + 1 \in T
    OBVIOUS
  <2>1. PICK k \in Nat : k = Power[n] BY <1>1
  <2>2. PICK m \in Nat : m = Power[n + 1] /\ m = 2 * k BY <1>1, <2>1
  <2>3. k >= n + 1 BY <2>1
  <2>4. m # 0 /\ m >= n + 2 /\ m >= 2 * (n + 1) BY <2>2, <2>3
  <2>5. m \in Nat \ {0} /\ m >= (n + 1) + 1 /\ (n + 1 > 0 => m >= 2 * (n + 1)) BY ONLY <2>4, m \in Nat, n \in Nat
  <2>6. n + 1 \in Nat OBVIOUS
  <2> QED BY <2>2, <2>5, <2>6 DEF T
<1>4. \A n \in Nat : n \in T
  <2> HIDE DEF T
  <2> QED BY <1>2, <1>3, SetInduction
<1> QED BY <1>4

\* The largest number of a set that has a bound
LEMMA LargestOf ==
  ASSUME NEW T, T \subseteq Nat, T # {}, NEW b \in Nat, \A n \in T : n <= b
  PROVE  Max(T) \in T /\ \A n \in T : n <= Max(T)
<1> DEFINE D == {k \in 0 .. b : b - k \in T}
<1>1. PICK t \in T : TRUE OBVIOUS
<1>2. t \in Nat /\ t <= b /\ b - t \in 0 .. b /\ b - (b - t) = t BY <1>1
<1>3. D # {} /\ D \subseteq Nat BY <1>2
<1>4. PICK k \in D : \A j \in D : k <= j
  <2> HIDE DEF D
  <2> QED BY <1>3, LeastNat
<1>5. b - k \in T /\ k \in 0 .. b BY <1>4
<1>6. \A n \in T : b - k >= n
  <2> SUFFICES ASSUME NEW n \in T PROVE b - k >= n
    OBVIOUS
  <2>1. n \in Nat /\ n <= b /\ b - n \in 0 .. b /\ b - (b - n) = n OBVIOUS
  <2>2. b - n \in D BY <2>1
  <2>3. k <= b - n BY <2>2, <1>4
  <2> QED BY <2>1, <2>3, <1>5
<1>7. \E x \in T : \A n \in T : x >= n BY <1>5, <1>6
<1>8. Max(T) \in T /\ \A n \in T : Max(T) >= n BY <1>7 DEF Max
<1> QED BY <1>8

\* The highest bit of a number is the place of the largest power of two in it.
LEMMA HighestBit ==
  ASSUME NEW n \in Nat \ {0}
  PROVE  /\ highestBit(n) \in Nat /\ Power[highestBit(n)] <= n
         /\ n < Power[highestBit(n) + 1]
<1> DEFINE B == {i \in 0 .. n : Power[i] <= n}
<1>1. highestBit(n) = Max(B) BY DEF highestBit
<1>2. 0 \in B BY PowerIs
<1>3. B \subseteq Nat /\ B # {} /\ \A i \in B : i <= n BY <1>2
<1>4. Max(B) \in B /\ \A i \in B : i <= Max(B)
  <2> HIDE DEF B
  <2> QED BY <1>3, LargestOf
<1>5. PICK h \in Nat : h = highestBit(n) /\ h \in B /\ \A i \in B : i <= h BY <1>1, <1>3, <1>4
<1>6. Power[h] <= n BY <1>5
<1>7. n < Power[h + 1]
  <2> SUFFICES ASSUME ~(n < Power[h + 1]) PROVE FALSE
    OBVIOUS
  <2>1. Power[h + 1] \in Nat /\ Power[h + 1] >= h + 2 BY PowerGrows
  <2>2. h + 1 \in 0 .. n /\ Power[h + 1] <= n BY <2>1
  <2>3. h + 1 \in B BY <2>2
  <2> QED BY <2>3, <1>5
<1> QED BY <1>5, <1>6, <1>7

\* The sizes that are asked for have a largest.
LEMMA LargestSize == Largest \in Nat \ {0} /\ \A sz \in AllocSizes : sz <= Largest
<1>1. PICK m \in AllocSizes : \A sz \in AllocSizes : sz <= m BY AllocatorAssumption
<1>2. AllocSizes \subseteq Nat \ {0} BY AllocatorAssumption
<1>3. Max(AllocSizes) \in AllocSizes /\ \A sz \in AllocSizes : sz <= Max(AllocSizes)
  <2>1. AllocSizes \subseteq Nat /\ AllocSizes # {} /\ m \in Nat BY <1>1, <1>2
  <2> QED BY <1>1, <2>1, LargestOf
<1> QED BY <1>2, <1>3 DEF Largest

\* There is a chain for each power of two below twice the largest size.
LEMMA HasChain ==
  ASSUME NEW i \in Nat, Power[i] < 2 * Largest
  PROVE  i \in Indices
<1>1. Largest \in Nat \ {0} BY LargestSize
<1>2. Power[i] \in Nat /\ (i > 0 => Power[i] >= 2 * i) BY PowerGrows
<1>3. i <= Largest BY <1>1, <1>2
<1> QED BY <1>1, <1>3 DEF Indices

\* A size fits in the blocks of its index.
LEMMA IndexFits ==
  ASSUME NEW sz \in AllocSizes
  PROVE  index(sz) \in Indices /\ sz <= Power[index(sz)]
<1>1. sz \in Nat \ {0} /\ sz <= Largest /\ Largest \in Nat BY LargestSize, AllocatorAssumption
<1>2. PICK h \in Nat : h = highestBit(sz) /\ Power[h] <= sz /\ sz < Power[h + 1] BY <1>1, HighestBit
<1>3. PICK p \in Nat : p = Power[h] BY PowerGrows
<1>4. Power[h + 1] = 2 * p BY <1>3, PowerIs
<1>5. CASE p = sz
  <2>1. index(sz) = h BY <1>2, <1>3, <1>5 DEF index
  <2>2. p < 2 * Largest BY <1>1, <1>5
  <2>3. sz <= p BY <1>1, <1>5
  <2>4. h \in Indices BY <1>3, <2>2, HasChain
  <2> QED BY <1>3, <2>1, <2>3, <2>4
<1>6. CASE p # sz
  <2>1. index(sz) = h + 1 BY <1>2, <1>3, <1>6 DEF index
  <2>2. p <= sz /\ sz < 2 * p BY <1>2, <1>3, <1>4
  <2>3. 2 * p < 2 * Largest /\ sz <= 2 * p BY ONLY <1>1, <1>6, <2>2, p \in Nat
  <2>4. h + 1 \in Nat OBVIOUS
  <2> QED BY <1>4, <2>1, <2>3, <2>4, HasChain
<1> QED BY <1>5, <1>6

\* A page has room for its head and a block.
LEMMA PageHolds ==
  ASSUME NEW i \in Nat
  PROVE  PageSize(i) \in Nat /\ PageSize(i) >= Power[i] + 1
<1> DEFINE s == systemPageSize
           n == Power[i] + 1
<1>1. s \in Nat \ {0} /\ n \in Nat BY AllocatorAssumption, PowerGrows
<1>2. PageSize(i) = s * ((n + s - 1) \div s) BY DEF PageSize
<1> HIDE DEF s, n
<1>3. PICK q : q = (n + s - 1) \div s OBVIOUS
<1>4. q \in Int /\ s * q <= n + s - 1 /\ n + s - 1 < s * q + s BY <1>1, <1>3
<1>5. PICK r : r = s * q OBVIOUS
<1>6. r \in Int BY <1>1, <1>4, <1>5
<1>7. r >= n BY ONLY <1>1, <1>4, <1>5, <1>6
<1>8. r \in Nat BY <1>1, <1>6, <1>7
<1> QED BY <1>2, <1>3, <1>5, <1>7, <1>8 DEF n

\* What the loop has cut: pieces from the head of the page to a place, one behind the other
Piece == [at : Nat, i : Nat]
Ends(b) == b.at + Power[b.i]

Tiled(b, end) ==
  /\ \A n \in 1 .. Len(b) : 1 <= b[n].at /\ Ends(b[n]) <= end
  /\ \A m, n \in 1 .. Len(b) : m < n => Ends(b[m]) <= b[n].at
  /\ \A u \in 1 .. end - 1 : \E n \in 1 .. Len(b) : b[n].at <= u /\ u < Ends(b[n])

\* The first piece has the index that was asked for, and none has a larger one.
CutUp(i, size) ==
  {d \in [blocks : Seq(Piece), at : 1 .. size, i : Nat] :
     /\ Tiled(d.blocks, d.at)
     /\ Power[d.i] <= Power[i] /\ \A n \in 1 .. Len(d.blocks) : Power[d.blocks[n].i] <= Power[i]
     /\ Len(d.blocks) = 0 => d.at = 1 /\ d.i = i
     /\ Len(d.blocks) > 0 => d.blocks[1].i = i}

\* A piece behind the others
LEMMA TileOn ==
  ASSUME NEW b \in Seq(Piece), NEW end \in Nat \ {0}, Tiled(b, end), NEW j \in Nat
  PROVE  Tiled(Append(b, [at |-> end, i |-> j]), end + Power[j])
<1> DEFINE p == [at |-> end, i |-> j]
           c == Append(b, p)
<1>1. p \in Piece /\ p.at = end BY DEF Piece
<1>2. PICK w \in Nat : w = Power[j] /\ w > 0
  <2>1. Power[j] \in Nat \ {0} BY PowerGrows
  <2> QED BY <2>1
<1>3. Ends(p) = end + w BY <1>2 DEF Ends
<1>4. PICK N \in Nat : N = Len(b) BY LenProperties
<1> HIDE DEF p
<1>5. /\ Len(c) = N + 1 /\ c[N + 1] = p
      /\ \A n \in 1 .. N : c[n] = b[n] /\ b[n] \in Piece
  BY <1>1, <1>4, AppendProperties, ElementOfSeq
<1>6. \A n \in 1 .. N : b[n].at \in Nat /\ Ends(b[n]) \in Nat
  <2>1. \A n \in 1 .. N : b[n].at \in Nat /\ b[n].i \in Nat BY <1>5 DEF Piece
  <2>2. \A n \in 1 .. N : Power[b[n].i] \in Nat BY <2>1, PowerGrows
  <2> QED BY <2>1, <2>2 DEF Ends
<1>7. /\ \A n \in 1 .. N : 1 <= b[n].at /\ Ends(b[n]) <= end
      /\ \A m, n \in 1 .. N : m < n => Ends(b[m]) <= b[n].at
      /\ \A u \in 1 .. end - 1 : \E n \in 1 .. N : b[n].at <= u /\ u < Ends(b[n])
  BY <1>4 DEF Tiled
<1> HIDE DEF c
<1>8. \A n \in 1 .. N + 1 : 1 <= c[n].at /\ Ends(c[n]) <= end + w
  <2> SUFFICES ASSUME NEW n \in 1 .. N + 1 PROVE 1 <= c[n].at /\ Ends(c[n]) <= end + w
    OBVIOUS
  <2>1. CASE n = N + 1 BY <2>1, <1>1, <1>3, <1>5
  <2>2. CASE n # N + 1
    <3>1. n \in 1 .. N BY <2>2
    <3> QED BY <3>1, <1>5, <1>6, <1>7
  <2> QED BY <2>1, <2>2
<1>9. \A m, n \in 1 .. N + 1 : m < n => Ends(c[m]) <= c[n].at
  <2> SUFFICES ASSUME NEW m \in 1 .. N + 1, NEW n \in 1 .. N + 1, m < n PROVE Ends(c[m]) <= c[n].at
    OBVIOUS
  <2>1. m \in 1 .. N OBVIOUS
  <2>2. CASE n = N + 1 BY <2>1, <2>2, <1>1, <1>5, <1>7
  <2>3. CASE n # N + 1
    <3>1. n \in 1 .. N BY <2>3
    <3> QED BY <2>1, <3>1, <1>5, <1>7
  <2> QED BY <2>2, <2>3
<1>10. \A u \in 1 .. (end + w) - 1 : \E n \in 1 .. N + 1 : c[n].at <= u /\ u < Ends(c[n])
  <2> SUFFICES ASSUME NEW u \in 1 .. (end + w) - 1 PROVE \E n \in 1 .. N + 1 : c[n].at <= u /\ u < Ends(c[n])
    OBVIOUS
  <2>1. CASE u < end
    <3>1. u \in 1 .. end - 1 BY <2>1
    <3>2. PICK n \in 1 .. N : b[n].at <= u /\ u < Ends(b[n]) BY <3>1, <1>7
    <3>3. n \in 1 .. N + 1 /\ c[n] = b[n] BY <1>5
    <3> QED BY <3>2, <3>3
  <2>2. CASE u >= end
    <3>1. N + 1 \in 1 .. N + 1 /\ end <= u /\ u < end + w BY <2>2, <1>2
    <3> QED BY <3>1, <1>1, <1>3, <1>5
  <2> QED BY <2>1, <2>2
<1>11. Tiled(c, end + w) BY <1>5, <1>8, <1>9, <1>10 DEF Tiled
<1> QED BY <1>2, <1>11 DEF c, p

\* One round of the loop cuts another piece, unless the page is used up.
LEMMA CutOn ==
  ASSUME NEW i \in Nat, NEW size \in Nat, size >= Power[i] + 1, NEW d \in CutUp(i, size)
  PROVE  /\ NextCut(size, d) \in CutUp(i, size)
         /\ d.at < size => NextCut(size, d).at > d.at
         /\ d.at = size => NextCut(size, d) = d
<1>1. /\ d \in [blocks : Seq(Piece), at : 1 .. size, i : Nat] /\ Tiled(d.blocks, d.at)
      /\ Power[d.i] <= Power[i] /\ \A n \in 1 .. Len(d.blocks) : Power[d.blocks[n].i] <= Power[i]
      /\ Len(d.blocks) = 0 => d.at = 1 /\ d.i = i
      /\ Len(d.blocks) > 0 => d.blocks[1].i = i
  BY DEF CutUp
<1>2. d.blocks \in Seq(Piece) /\ d.at \in 1 .. size /\ d.i \in Nat BY <1>1
<1>3. CASE d.at = size
  <2>1. NextCut(size, d) = d BY <1>2, <1>3 DEF NextCut
  <2> QED BY <2>1, <1>3
<1>4. CASE d.at # size
  <2>1. PICK left \in Nat \ {0} : left = size - d.at BY <1>2, <1>4
  <2>2. PICK j : j = IF left < Power[d.i] THEN highestBit(left) ELSE d.i OBVIOUS
  <2>3. PICK q \in Nat : q = Power[d.i] BY <1>2, PowerGrows
  <2>4. PICK r \in Nat : r = Power[i] BY PowerGrows
  <2>5. j \in Nat /\ Power[j] <= left /\ Power[j] <= r
    <3>1. CASE left < Power[d.i]
      <4>1. j \in Nat /\ Power[j] <= left BY <3>1, <2>2, HighestBit
      <4>2. Power[j] \in Nat BY <4>1, PowerGrows
      <4>3. left < q /\ q <= r BY <3>1, <2>3, <2>4, <1>1
      <4> QED BY <4>1, <4>2, <4>3
    <3>2. CASE ~(left < Power[d.i])
      <4>1. j = d.i BY <3>2, <2>2
      <4>2. q <= left /\ q <= r BY <3>2, <2>3, <2>4, <1>1
      <4> QED BY <4>1, <4>2, <2>3, <1>2
    <3> QED BY <3>1, <3>2
  <2>6. PICK p \in Nat : p = Power[j] /\ p > 0 /\ p <= left /\ p <= r BY <2>5, PowerGrows
  <2>7. PICK piece : piece = [at |-> d.at, i |-> j] OBVIOUS
  <2>8. piece \in Piece /\ piece.i = j BY <1>2, <2>5, <2>7 DEF Piece
  <2>9. PICK c : c = Append(d.blocks, piece) OBVIOUS
  <2>10. NextCut(size, d) = [blocks |-> c, at |-> d.at + p, i |-> j]
    <3>1. left # 0 OBVIOUS
    <3> QED BY <3>1, <2>1, <2>2, <2>6, <2>7, <2>9 DEF NextCut
  <2>11. PICK N \in Nat : N = Len(d.blocks) BY <1>2, LenProperties
  <2>12. /\ c \in Seq(Piece) /\ Len(c) = N + 1 /\ c[N + 1] = piece
         /\ \A n \in 1 .. N : c[n] = d.blocks[n]
    BY <1>2, <2>8, <2>9, <2>11, AppendProperties
  <2>13. Tiled(c, d.at + p)
    <3>1. d.at \in Nat \ {0} BY <1>2
    <3> QED BY <3>1, <1>1, <1>2, <2>5, <2>6, <2>7, <2>9, TileOn
  <2>14. \A n \in 1 .. N + 1 : Power[c[n].i] <= r
    <3> SUFFICES ASSUME NEW n \in 1 .. N + 1 PROVE Power[c[n].i] <= r
      OBVIOUS
    <3>1. n = N + 1 \/ n \in 1 .. N OBVIOUS
    <3> QED BY <3>1, <1>1, <2>4, <2>6, <2>8, <2>11, <2>12
  <2>15. c[1].i = i
    <3>1. CASE N = 0
      <4>1. d.at = 1 /\ d.i = i BY <3>1, <1>1, <2>11
      <4>2. left >= r BY <4>1, <2>1, <2>4
      <4>3. j = i BY <4>1, <4>2, <2>2, <2>4
      <4> QED BY <3>1, <4>3, <2>8, <2>12
    <3>2. CASE N > 0
      <4>1. 1 \in 1 .. N BY <3>2
      <4> QED BY <4>1, <3>2, <1>1, <2>11, <2>12
    <3> QED BY <3>1, <3>2
  <2>16. d.at + p \in 1 .. size /\ d.at + p > d.at BY <1>2, <2>1, <2>6
  <2>17. PICK e : e = [blocks |-> c, at |-> d.at + p, i |-> j] OBVIOUS
  <2>18. e.blocks = c /\ e.at = d.at + p /\ e.i = j
         /\ e \in [blocks : Seq(Piece), at : 1 .. size, i : Nat]
    BY <2>17, <2>12, <2>16, <2>5
  <2>19. e \in CutUp(i, size)
    <3>1. Len(e.blocks) = N + 1 /\ Tiled(e.blocks, e.at) BY <2>12, <2>13, <2>18
    <3>2. Power[e.i] <= Power[i] BY <2>4, <2>5, <2>18
    <3>3. \A n \in 1 .. Len(e.blocks) : Power[e.blocks[n].i] <= Power[i] BY <3>1, <2>4, <2>14, <2>18
    <3>4. Len(e.blocks) # 0 /\ e.blocks[1].i = i BY <3>1, <2>15, <2>18
    <3> QED BY <3>1, <3>2, <3>3, <3>4, <2>18 DEF CutUp
  <2> QED BY <2>10, <2>16, <2>17, <2>18, <2>19, <1>4
<1> QED BY <1>3, <1>4

\* The pieces of a page fill it, and the first is one of those that were asked for.
LEMMA CutFills ==
  ASSUME NEW i \in Nat
  PROVE  /\ Cut(i) \in Seq(Piece) /\ Tiled(Cut(i), PageSize(i))
         /\ Len(Cut(i)) > 0 /\ Cut(i)[1].i = i
         /\ \A n \in 1 .. Len(Cut(i)) : Power[Cut(i)[n].i] <= Power[i]
<1>1. PICK size \in Nat : size = PageSize(i) /\ size >= Power[i] + 1 BY PageHolds
<1>2. PICK r \in Nat \ {0} : r = Power[i] BY PowerGrows
<1> DEFINE C == CutUp(i, size)
           first == [blocks |-> << >>, at |-> 1, i |-> i]
           step == [k \in 1 .. size |-> [d \in C |-> NextCut(size, d)]]
           Value(f, k) == IF k = 0 THEN first ELSE NextCut(size, f[k - 1])
           cut == CHOOSE f : f = [k \in 0 .. size |-> Value(f, k)]
<1>3. first \in C
  <2>1. PICK f : f = first OBVIOUS
  <2>2. << >> \in Seq(Piece) /\ Len(<< >>) = 0 BY EmptySeq
  <2>3. f.blocks = << >> /\ f.at = 1 /\ f.i = i /\ 1 \in 1 .. size BY <2>1, <1>1, <1>2
  <2>4. f \in [blocks : Seq(Piece), at : 1 .. size, i : Nat] BY <2>1, <2>2, <2>3
  <2>5. Tiled(f.blocks, f.at) BY <2>2, <2>3 DEF Tiled
  <2>6. f \in C BY <2>2, <2>3, <2>4, <2>5, <1>2 DEF CutUp
  <2> QED BY <2>1, <2>6
<1>4. \A d \in C : NextCut(size, d) \in C BY <1>1, CutOn
<1> HIDE DEF C, first
<1>5. step \in [1 .. size -> [C -> C]] BY <1>4
<1>6. \A k \in 1 .. size, d \in C : step[k][d] = NextCut(size, d) OBVIOUS
<1> HIDE DEF step
<1>7. PICK f \in [0 .. size -> C] : Recurs(f, size, first, step) BY <1>3, <1>5, Recursion
<1>8. f[0] = first /\ \A k \in 1 .. size : f[k - 1] \in C /\ f[k] = NextCut(size, f[k - 1])
  <2>1. f[0] = first /\ \A k \in 1 .. size : f[k] = step[k][f[k - 1]] BY <1>7 DEF Recurs
  <2>2. \A k \in 1 .. size : f[k - 1] \in C OBVIOUS
  <2> QED BY <1>6, <2>1, <2>2
<1>9. f = [k \in 0 .. size |-> Value(f, k)]
  <2>1. \A k \in 0 .. size : f[k] = Value(f, k)
    <3> SUFFICES ASSUME NEW k \in 0 .. size PROVE f[k] = Value(f, k)
      OBVIOUS
    <3>1. k = 0 \/ k \in 1 .. size BY <1>1
    <3> QED BY <3>1, <1>8
  <2> HIDE DEF Value
  <2> QED BY <2>1
<1>10. cut = [k \in 0 .. size |-> Value(cut, k)]
  <2> HIDE DEF Value
  <2> QED BY <1>9
<1>11. Cut(i) = cut[size].blocks BY <1>1 DEF Cut, first
<1>12. \A k \in 0 .. size : cut[k] = Value(cut, k)
  <2> HIDE DEF Value, cut
  <2> QED BY <1>10
<1> HIDE DEF cut
<1> DEFINE T == {k \in Nat : k <= size => cut[k] \in C /\ (cut[k].at = size \/ cut[k].at > k)}
<1>13. \A d \in C : d.at \in 1 .. size BY DEF C, CutUp
<1>14. 0 \in T
  <2>1. cut[0] = first /\ first.at = 1 BY <1>12 DEF first
  <2> QED BY <2>1, <1>3
<1>15. \A k \in Nat : k \in T => k + 1 \in T
  <2> SUFFICES ASSUME NEW k \in Nat, k \in T, k + 1 <= size
               PROVE  cut[k + 1] \in C /\ (cut[k + 1].at = size \/ cut[k + 1].at > k + 1)
    OBVIOUS
  <2>1. PICK d \in C : d = cut[k] /\ (d.at = size \/ d.at > k) OBVIOUS
  <2>2. PICK e \in C : e = NextCut(size, d) BY <1>4
  <2>3. cut[k + 1] = e
    <3>1. k + 1 \in 0 .. size /\ k + 1 # 0 /\ (k + 1) - 1 = k OBVIOUS
    <3>2. cut[k + 1] = NextCut(size, cut[k]) BY <3>1, <1>12
    <3> QED BY <3>2, <2>1, <2>2
  <2>4. d.at \in 1 .. size /\ e.at \in 1 .. size BY <1>13
  <2>5. (d.at < size => e.at > d.at) /\ (d.at = size => e = d) BY <1>1, <2>2, CutOn DEF C
  <2> QED BY <2>1, <2>3, <2>4, <2>5
<1>16. \A k \in Nat : k \in T
  <2> HIDE DEF T
  <2> QED BY <1>14, <1>15, SetInduction
<1>17. PICK d \in C : d = cut[size] /\ d.at = size
  <2>1. cut[size] \in C /\ (cut[size].at = size \/ cut[size].at > size) BY <1>16
  <2>2. cut[size].at \in 1 .. size BY <2>1, <1>13
  <2> QED BY <2>1, <2>2
<1>18. /\ d.blocks \in Seq(Piece) /\ Tiled(d.blocks, size)
       /\ \A n \in 1 .. Len(d.blocks) : Power[d.blocks[n].i] <= Power[i]
       /\ Len(d.blocks) = 0 => size = 1
       /\ Len(d.blocks) > 0 => d.blocks[1].i = i
  BY <1>17 DEF C, CutUp
<1>19. Len(d.blocks) \in Nat BY <1>18, LenProperties
<1>20. Len(d.blocks) > 0 BY <1>1, <1>2, <1>18, <1>19
<1>21. Cut(i) = d.blocks BY <1>11, <1>17
<1> QED BY <1>1, <1>18, <1>20, <1>21

\* Reverse of a chain has the same items.
LEMMA ReverseChain ==
  ASSUME NEW S, NEW s \in Seq(S)
  PROVE  /\ Reverse(s) \in Seq(S)
         /\ \A b : InChain(Reverse(s), b) <=> InChain(s, b)
         /\ IsInjective(s) => IsInjective(Reverse(s))
<1>1. PICK N \in Nat : N = Len(s) /\ DOMAIN s = 1 .. N /\ \A k \in 1 .. N : s[k] \in S
  BY LenProperties, ElementOfSeq
<1>2. PICK t : t = Reverse(s) OBVIOUS
<1>3. t = [k \in 1 .. N |-> s[(N - k) + 1]] BY <1>1, <1>2 DEF Reverse
<1>4. \A k \in 1 .. N : (N - k) + 1 \in 1 .. N /\ (N - ((N - k) + 1)) + 1 = k BY <1>1
<1>5. DOMAIN t = 1 .. N /\ \A k \in 1 .. N : t[k] = s[(N - k) + 1] BY <1>3
<1>6. t \in Seq(S)
  <2>1. t \in [1 .. N -> S] BY <1>1, <1>3, <1>4
  <2> QED BY <2>1, SeqDef
<1>7. \A b : InChain(t, b) <=> InChain(s, b)
  <2>1. \A k \in 1 .. N : s[k] = t[(N - k) + 1] BY <1>4, <1>5
  <2> QED BY <2>1, <1>1, <1>4, <1>5 DEF InChain
<1>8. IsInjective(s) => IsInjective(t)
  <2> SUFFICES ASSUME IsInjective(s), NEW j \in 1 .. N, NEW k \in 1 .. N, t[j] = t[k] PROVE j = k
    BY <1>5 DEF IsInjective
  <2>1. s[(N - j) + 1] = s[(N - k) + 1] BY <1>5
  <2>2. (N - j) + 1 = (N - k) + 1 BY <2>1, <1>1, <1>4 DEF IsInjective
  <2> QED BY <2>2
<1> QED BY <1>2, <1>6, <1>7, <1>8

\* Blocks, where they are and how they are kept
Slab == [page : Nat, at : Nat]
Held == [block : Slab, i : Indices]
FreeBlocks(c) == {x \in Held : InChain(c[x.i], x.block)}
GivenOut(l)   == {[block |-> a.block, i |-> index(a.sz)] : a \in l}

Covers(x, page, u) == x.block.page = page /\ x.block.at <= u /\ u < x.block.at + Power[x.i]

\* Blocks in pages of the given sizes: each byte behind the head of a page is in one.
FillPages(A, p) ==
  /\ \A x \in A : /\ x.block.page \in 1 .. Len(p)
                  /\ 1 <= x.block.at /\ x.block.at + Power[x.i] <= p[x.block.page]
  /\ \A x, y \in A : x # y => \A page, u \in Nat : ~(Covers(x, page, u) /\ Covers(y, page, u))
  /\ \A page \in 1 .. Len(p) : \A u \in 1 .. p[page] - 1 : \E x \in A : Covers(x, page, u)

\* The blocks of a new page
IsPiece(i, at, j) == \E k \in 1 .. Len(Cut(i)) : Cut(i)[k].at = at /\ Cut(i)[k].i = j
Slabs(i, page) == {x \in Held : x.block.page = page /\ IsPiece(i, x.block.at, x.i)}

\* The pieces of a page have chains, and no two begin at the same place.
LEMMA PiecesApart ==
  ASSUME NEW i \in Indices
  PROVE  /\ \A k \in 1 .. Len(Cut(i)) : Cut(i)[k].at \in Nat /\ Cut(i)[k].i \in Indices
         /\ \A m, n \in 1 .. Len(Cut(i)) : m < n => Cut(i)[m].at < Cut(i)[n].at
<1>1. PICK c \in Seq(Piece) : c = Cut(i) /\ Tiled(c, PageSize(i))
                              /\ \A n \in 1 .. Len(c) : Power[c[n].i] <= Power[i]
  <2>1. i \in Nat BY DEF Indices
  <2> QED BY <2>1, CutFills
<1>2. i \in Nat /\ Power[i] < 2 * Largest BY DEF Indices
<1>3. \A n \in 1 .. Len(c) : c[n] \in Piece BY ElementOfSeq
<1>4. \A n \in 1 .. Len(c) : c[n].at \in Nat /\ c[n].i \in Nat /\ Power[c[n].i] \in Nat /\ Power[c[n].i] > 0
  <2> SUFFICES ASSUME NEW n \in 1 .. Len(c)
               PROVE  c[n].at \in Nat /\ c[n].i \in Nat /\ Power[c[n].i] \in Nat /\ Power[c[n].i] > 0
    OBVIOUS
  <2>1. c[n].at \in Nat /\ c[n].i \in Nat BY <1>3 DEF Piece
  <2>2. Power[c[n].i] \in Nat \ {0} BY <2>1, PowerGrows
  <2> QED BY <2>1, <2>2
<1>5. \A n \in 1 .. Len(c) : c[n].i \in Indices
  <2> SUFFICES ASSUME NEW n \in 1 .. Len(c) PROVE c[n].i \in Indices
    OBVIOUS
  <2>1. Power[c[n].i] < 2 * Largest
    <3>1. Power[c[n].i] <= Power[i] /\ Power[c[n].i] \in Nat BY <1>1, <1>4
    <3>2. Power[i] \in Nat /\ Largest \in Nat BY <1>2, PowerGrows, LargestSize
    <3> QED BY <3>1, <3>2, <1>2
  <2> QED BY <2>1, <1>4, HasChain
<1>6. \A m, n \in 1 .. Len(c) : m < n => c[m].at < c[n].at
  <2> SUFFICES ASSUME NEW m \in 1 .. Len(c), NEW n \in 1 .. Len(c), m < n PROVE c[m].at < c[n].at
    OBVIOUS
  <2>1. Ends(c[m]) <= c[n].at BY <1>1 DEF Tiled
  <2>2. c[m].at + Power[c[m].i] <= c[n].at BY <2>1 DEF Ends
  <2> QED BY <2>2, <1>4
<1> QED BY <1>1, <1>4, <1>5, <1>6

\* The blocks of a new page fill it, beside those there were.
LEMMA NewPage ==
  ASSUME NEW p \in Seq(Nat), NEW A \in SUBSET Held, FillPages(A, p), NEW i \in Indices
  PROVE  FillPages(A \cup Slabs(i, Len(p) + 1), Append(p, PageSize(i)))
<1>1. PICK N \in Nat : N = Len(p) BY LenProperties
<1>2. PICK c \in Seq(Piece) : c = Cut(i) /\ Tiled(c, PageSize(i))
  <2>1. i \in Nat BY DEF Indices
  <2> QED BY <2>1, CutFills
<1>3. PICK L \in Nat : L = Len(c) BY LenProperties
<1>4. PICK size \in Nat : size = PageSize(i)
  <2>1. i \in Nat BY DEF Indices
  <2> QED BY <2>1, PageHolds
<1>5. /\ \A k \in 1 .. L : c[k].at \in Nat /\ c[k].i \in Indices
      /\ \A m, n \in 1 .. L : m < n => c[m].at < c[n].at
  BY <1>2, <1>3, PiecesApart
<1>6. /\ \A n \in 1 .. L : 1 <= c[n].at /\ Ends(c[n]) <= size
      /\ \A m, n \in 1 .. L : m < n => Ends(c[m]) <= c[n].at
      /\ \A u \in 1 .. size - 1 : \E n \in 1 .. L : c[n].at <= u /\ u < Ends(c[n])
  BY <1>2, <1>3, <1>4 DEF Tiled
<1>7. PICK q : q = Append(p, size) OBVIOUS
<1>8. /\ Len(q) = N + 1 /\ q[N + 1] = size
      /\ \A n \in 1 .. N : q[n] = p[n]
  BY <1>1, <1>7, AppendProperties
<1>9. PICK B : B = Slabs(i, N + 1) OBVIOUS
<1>10. \A x \in B : /\ x \in Held /\ x.block.page = N + 1
                   /\ \E k \in 1 .. L : c[k].at = x.block.at /\ c[k].i = x.i
  BY <1>2, <1>3, <1>9 DEF Slabs, IsPiece
<1>11. \A k \in 1 .. L : \E x \in B : x.block.page = N + 1 /\ x.block.at = c[k].at /\ x.i = c[k].i
  <2> SUFFICES ASSUME NEW k \in 1 .. L
               PROVE  \E x \in B : x.block.page = N + 1 /\ x.block.at = c[k].at /\ x.i = c[k].i
    OBVIOUS
  <2>1. PICK b : b = [page |-> N + 1, at |-> c[k].at] OBVIOUS
  <2>2. b \in Slab /\ b.page = N + 1 /\ b.at = c[k].at BY <2>1, <1>5 DEF Slab
  <2>3. PICK x : x = [block |-> b, i |-> c[k].i] OBVIOUS
  <2>4. x \in Held /\ x.block = b /\ x.i = c[k].i BY <2>2, <2>3, <1>5 DEF Held
  <2>5. x \in B BY <2>2, <2>4, <1>2, <1>3, <1>9 DEF Slabs, IsPiece
  <2> QED BY <2>2, <2>4, <2>5
<1>12. \A x \in A : /\ x.block.page \in 1 .. N
                   /\ 1 <= x.block.at /\ x.block.at + Power[x.i] <= p[x.block.page]
  BY <1>1 DEF FillPages
<1>13. ASSUME NEW x \in A \cup B
       PROVE  /\ x.block.page \in 1 .. N + 1
              /\ 1 <= x.block.at /\ x.block.at + Power[x.i] <= q[x.block.page]
  <2>1. CASE x \in A BY <2>1, <1>8, <1>12
  <2>2. CASE x \in B
    <3>1. PICK k \in 1 .. L : c[k].at = x.block.at /\ c[k].i = x.i BY <2>2, <1>10
    <3>2. 1 <= c[k].at /\ c[k].at + Power[c[k].i] <= size BY <1>6 DEF Ends
    <3> QED BY <2>2, <3>1, <3>2, <1>8, <1>10
  <2> QED BY <2>1, <2>2
<1>14. \A x \in A, y \in B : x # y /\ \A page, u \in Nat : ~(Covers(x, page, u) /\ Covers(y, page, u))
  <2> SUFFICES ASSUME NEW x \in A, NEW y \in B
               PROVE  x # y /\ \A page, u \in Nat : ~(Covers(x, page, u) /\ Covers(y, page, u))
    OBVIOUS
  <2>1. x.block.page # y.block.page BY <1>10, <1>12
  <2> QED BY <2>1 DEF Covers
<1>15. \A x, y \in B : x # y => \A page, u \in Nat : ~(Covers(x, page, u) /\ Covers(y, page, u))
  <2> SUFFICES ASSUME NEW x \in B, NEW y \in B, x # y, NEW page \in Nat, NEW u \in Nat, Covers(x, page, u), Covers(y, page, u)
               PROVE  FALSE
    OBVIOUS
  <2>1. PICK j \in 1 .. L : c[j].at = x.block.at /\ c[j].i = x.i BY <1>10
  <2>2. PICK k \in 1 .. L : c[k].at = y.block.at /\ c[k].i = y.i BY <1>10
  <2>3. j # k
    <3> SUFFICES ASSUME j = k PROVE FALSE
      OBVIOUS
    <3>1. x.block.page = y.block.page /\ x.block.at = y.block.at /\ x.i = y.i BY <2>1, <2>2, <1>10
    <3>2. x \in Held /\ y \in Held BY <1>10
    <3>3. x = [block |-> x.block, i |-> x.i] /\ y = [block |-> y.block, i |-> y.i] BY <3>2 DEF Held
    <3>4. x.block \in Slab /\ y.block \in Slab BY <3>2 DEF Held
    <3>5. x.block = [page |-> x.block.page, at |-> x.block.at] /\ y.block = [page |-> y.block.page, at |-> y.block.at]
      BY <3>4 DEF Slab
    <3> QED BY <3>1, <3>3, <3>5
  <2>4. c[j].at <= u /\ u < Ends(c[j]) /\ c[k].at <= u /\ u < Ends(c[k]) BY <2>1, <2>2 DEF Covers, Ends
  <2>5. \A n \in 1 .. L : c[n].at \in Nat /\ Ends(c[n]) \in Nat
    <3>1. \A n \in 1 .. L : c[n].at \in Nat /\ c[n].i \in Nat BY <1>5 DEF Indices
    <3>2. \A n \in 1 .. L : Power[c[n].i] \in Nat BY <3>1, PowerGrows
    <3> QED BY <3>1, <3>2 DEF Ends
  <2>6. j < k \/ k < j BY <2>3
  <2>7. Ends(c[j]) <= c[k].at \/ Ends(c[k]) <= c[j].at BY <2>6, <1>6
  <2> QED BY <2>4, <2>5, <2>7
<1>16. \A x, y \in A \cup B : x # y => \A page, u \in Nat : ~(Covers(x, page, u) /\ Covers(y, page, u))
  <2>1. \A x, y \in A : x # y => \A page, u \in Nat : ~(Covers(x, page, u) /\ Covers(y, page, u))
    BY DEF FillPages
  <2> QED BY <2>1, <1>14, <1>15
<1>17. \A page \in 1 .. N + 1 : \A u \in 1 .. q[page] - 1 : \E x \in A \cup B : Covers(x, page, u)
  <2> SUFFICES ASSUME NEW page \in 1 .. N + 1, NEW u \in 1 .. q[page] - 1
               PROVE  \E x \in A \cup B : Covers(x, page, u)
    OBVIOUS
  <2>1. CASE page # N + 1
    <3>1. page \in 1 .. N /\ q[page] = p[page] BY <2>1, <1>8
    <3>2. \E x \in A : Covers(x, page, u) BY <3>1, <1>1 DEF FillPages
    <3> QED BY <3>2
  <2>2. CASE page = N + 1
    <3>1. u \in 1 .. size - 1 BY <2>2, <1>8
    <3>2. PICK n \in 1 .. L : c[n].at <= u /\ u < Ends(c[n]) BY <3>1, <1>6
    <3>3. PICK x \in B : x.block.page = N + 1 /\ x.block.at = c[n].at /\ x.i = c[n].i BY <1>11
    <3> QED BY <2>2, <3>2, <3>3 DEF Covers, Ends
  <2> QED BY <2>1, <2>2
<1>18. FillPages(A \cup B, q) BY <1>8, <1>13, <1>16, <1>17 DEF FillPages
<1> QED BY <1>1, <1>4, <1>7, <1>9, <1>18

\* The new blocks of an index, in the order in which they are taken
Fresh(i, page, j) ==
  LET own == Kept(Cut(i), {b \in Range(Cut(i)) : b.i = j})
  IN Reverse([n \in DOMAIN own |-> BlockAt(page, own[n].at)])

\* They are the pieces of the page that have this index, each once.
LEMMA FreshChain ==
  ASSUME NEW i \in Indices, NEW page \in Nat, NEW j \in Indices
  PROVE  /\ Fresh(i, page, j) \in Seq(Slab) /\ IsInjective(Fresh(i, page, j))
         /\ \A b : InChain(Fresh(i, page, j), b) <=> b \in Slab /\ b.page = page /\ IsPiece(i, b.at, j)
<1>1. PICK c \in Seq(Piece) : c = Cut(i)
  <2>1. i \in Nat BY DEF Indices
  <2> QED BY <2>1, CutFills
<1>2. /\ DOMAIN c = 1 .. Len(c) /\ Len(c) \in Nat
      /\ \A k \in 1 .. Len(c) : c[k] \in Piece /\ c[k].at \in Nat
      /\ \A m, n \in 1 .. Len(c) : m < n => c[m].at < c[n].at
  BY <1>1, PiecesApart, LenProperties, ElementOfSeq
<1>3. \A m, n \in 1 .. Len(c) : c[m].at = c[n].at => m = n
  <2> SUFFICES ASSUME NEW m \in 1 .. Len(c), NEW n \in 1 .. Len(c), c[m].at = c[n].at PROVE m = n
    OBVIOUS
  <2>1. m < n \/ n < m \/ m = n OBVIOUS
  <2>2. c[m].at \in Nat /\ c[n].at \in Nat BY <1>2
  <2> QED BY <2>1, <2>2, <1>2
<1>4. IsInjective(c) BY <1>2, <1>3 DEF IsInjective
<1> DEFINE K == {b \in Range(c) : b.i = j}
<1>5. PICK own : own = Kept(c, K) OBVIOUS
<1>6. \A b : InChain(c, b) <=> b \in Range(c) BY DEF InChain, Range
<1>7. /\ own \in Seq(Piece) /\ IsInjective(own)
      /\ \A b : InChain(own, b) <=> InChain(c, b) /\ b.i = j
  <2>1. /\ own \in Seq(Piece) /\ (IsInjective(c) => IsInjective(own))
        /\ \A b : InChain(own, b) <=> InChain(c, b) /\ b \in K
    <3> HIDE DEF K
    <3> QED BY <1>5, KeptChain
  <2> QED BY <2>1, <1>4, <1>6
<1>8. PICK N \in Nat : N = Len(own) /\ DOMAIN own = 1 .. N /\ \A k \in 1 .. N : own[k] \in Piece
  BY <1>7, LenProperties, ElementOfSeq
<1>9. \A m, n \in 1 .. N : own[m].at = own[n].at => m = n
  <2> SUFFICES ASSUME NEW m \in 1 .. N, NEW n \in 1 .. N, own[m].at = own[n].at PROVE m = n
    OBVIOUS
  <2>1. InChain(own, own[m]) /\ InChain(own, own[n]) BY <1>8 DEF InChain
  <2>2. PICK a \in 1 .. Len(c) : c[a] = own[m] BY <2>1, <1>2, <1>7 DEF InChain
  <2>3. PICK b \in 1 .. Len(c) : c[b] = own[n] BY <2>1, <1>2, <1>7 DEF InChain
  <2>4. a = b BY <2>2, <2>3, <1>3
  <2>5. own[m] = own[n] BY <2>2, <2>3, <2>4
  <2> QED BY <2>5, <1>7, <1>8 DEF IsInjective
<1>10. PICK marks : marks = [n \in DOMAIN own |-> BlockAt(page, own[n].at)] OBVIOUS
<1>11. /\ DOMAIN marks = 1 .. N
       /\ \A n \in 1 .. N : marks[n] \in Slab /\ marks[n].page = page /\ marks[n].at = own[n].at
  <2>1. DOMAIN marks = 1 .. N /\ \A n \in 1 .. N : marks[n] = BlockAt(page, own[n].at) BY <1>8, <1>10
  <2>2. \A n \in 1 .. N : own[n].at \in Nat BY <1>8 DEF Piece
  <2> QED BY <2>1, <2>2 DEF BlockAt, Slab
<1>12. marks \in Seq(Slab)
  <2>1. marks \in [1 .. N -> Slab] BY <1>8, <1>10, <1>11
  <2> QED BY <2>1, SeqDef
<1>13. IsInjective(marks)
  <2> SUFFICES ASSUME NEW m \in 1 .. N, NEW n \in 1 .. N, marks[m] = marks[n] PROVE m = n
    BY <1>11 DEF IsInjective
  <2>1. own[m].at = own[n].at BY <1>11
  <2> QED BY <2>1, <1>9
<1>14. \A b : InChain(marks, b) <=> b \in Slab /\ b.page = page /\ IsPiece(i, b.at, j)
  <2>1. ASSUME NEW b, InChain(marks, b) PROVE b \in Slab /\ b.page = page /\ IsPiece(i, b.at, j)
    <3>1. PICK n \in 1 .. N : marks[n] = b BY <2>1, <1>11 DEF InChain
    <3>2. InChain(own, own[n]) BY <1>8 DEF InChain
    <3>3. PICK a \in 1 .. Len(c) : c[a] = own[n] BY <3>2, <1>2, <1>7 DEF InChain
    <3>4. c[a].at = b.at /\ c[a].i = j BY <3>1, <3>2, <3>3, <1>7, <1>11
    <3> QED BY <3>1, <3>4, <1>1, <1>11 DEF IsPiece
  <2>2. ASSUME NEW b, b \in Slab, b.page = page, IsPiece(i, b.at, j) PROVE InChain(marks, b)
    <3>1. PICK a \in 1 .. Len(c) : c[a].at = b.at /\ c[a].i = j BY <2>2, <1>1 DEF IsPiece
    <3>2. InChain(c, c[a]) BY <1>2 DEF InChain
    <3>3. InChain(own, c[a]) BY <3>1, <3>2, <1>7
    <3>4. PICK n \in 1 .. N : own[n] = c[a] BY <3>3, <1>8 DEF InChain
    <3>5. marks[n] \in Slab /\ marks[n].page = b.page /\ marks[n].at = b.at BY <3>1, <3>4, <2>2, <1>11
    <3>6. marks[n] = b BY <3>5, <2>2 DEF Slab
    <3> QED BY <3>6, <1>11 DEF InChain
  <2> QED BY <2>1, <2>2
<1>15. /\ Reverse(marks) \in Seq(Slab) /\ IsInjective(Reverse(marks))
       /\ \A b : InChain(Reverse(marks), b) <=> InChain(marks, b)
  BY <1>12, <1>13, ReverseChain
<1>16. Fresh(i, page, j) = Reverse(marks) BY <1>1, <1>5, <1>10 DEF Fresh
<1> QED BY <1>14, <1>15, <1>16

\* What holds of the chains, the pages and what is allocated.
Sound(c, p, l) ==
  /\ c \in [Indices -> Seq(Slab)] /\ p \in Seq(Nat) /\ l \subseteq [block : Slab, sz : AllocSizes]
  /\ \A i \in Indices : IsInjective(c[i])
  /\ \A a \in l : ~InChain(c[index(a.sz)], a.block)
  /\ \A a, b \in l : a.block = b.block /\ index(a.sz) = index(b.sz) => a = b
  /\ FillPages(FreeBlocks(c) \cup GivenOut(l), p)

\* What is free or allocated is a block of an index.
LEMMA AllHeld ==
  ASSUME NEW c, NEW l, l \subseteq [block : Slab, sz : AllocSizes]
  PROVE  FreeBlocks(c) \subseteq Held /\ GivenOut(l) \subseteq Held
<1>1. \A a \in l : a.block \in Slab /\ index(a.sz) \in Indices BY IndexFits
<1> QED BY <1>1 DEF FreeBlocks, GivenOut, Held

\* A new page, with no block of it given out yet
LEMMA PageSound ==
  ASSUME Sound(blockChains, pageChain, live), NEW i \in Indices
  PROVE  Sound(WithPage(i), Append(pageChain, PageSize(i)), live) /\ WithPage(i)[i] # << >>
<1> DEFINE c == blockChains
           A == FreeBlocks(c) \cup GivenOut(live)
<1>1. /\ c \in [Indices -> Seq(Slab)] /\ pageChain \in Seq(Nat) /\ live \subseteq [block : Slab, sz : AllocSizes]
      /\ \A j \in Indices : IsInjective(c[j])
      /\ \A a \in live : ~InChain(c[index(a.sz)], a.block)
      /\ \A a, b \in live : a.block = b.block /\ index(a.sz) = index(b.sz) => a = b
      /\ FillPages(A, pageChain)
  BY DEF Sound
<1>2. PICK n \in Nat : n = Len(pageChain) + 1 BY <1>1, LenProperties
<1>3. A \in SUBSET Held BY <1>1, AllHeld
<1> HIDE DEF A
<1>4. \A x \in A : x.block.page # n
  <2>1. \A x \in A : x.block.page \in 1 .. Len(pageChain) BY <1>1 DEF FillPages
  <2>2. Len(pageChain) \in Nat BY <1>1, LenProperties
  <2> QED BY <2>1, <2>2, <1>2
<1>5. \A j \in Indices : /\ Fresh(i, n, j) \in Seq(Slab) /\ IsInjective(Fresh(i, n, j))
                        /\ \A b : InChain(Fresh(i, n, j), b) <=> b \in Slab /\ b.page = n /\ IsPiece(i, b.at, j)
  BY FreshChain
<1>6. PICK d : d = WithPage(i) OBVIOUS
<1>7. d = [j \in Indices |-> Fresh(i, n, j) \o c[j]] BY <1>2, <1>6 DEF WithPage, Fresh
<1>8. \A j \in Indices : \A b : InChain(c[j], b) => b \in Slab /\ b.page # n
  <2> SUFFICES ASSUME NEW j \in Indices, NEW b, InChain(c[j], b) PROVE b \in Slab /\ b.page # n
    OBVIOUS
  <2>1. c[j] \in Seq(Slab) BY <1>1
  <2>2. b \in Slab BY <2>1, ChainItems
  <2>3. PICK x : x = [block |-> b, i |-> j] OBVIOUS
  <2>4. x \in Held /\ x.block = b /\ x.i = j BY <2>2, <2>3 DEF Held
  <2>5. x \in A BY <2>4 DEF A, FreeBlocks
  <2> QED BY <2>2, <2>4, <2>5, <1>4
<1>9. \A j \in Indices : /\ d[j] \in Seq(Slab) /\ IsInjective(d[j])
                        /\ \A b : InChain(d[j], b) <=> InChain(Fresh(i, n, j), b) \/ InChain(c[j], b)
  <2> SUFFICES ASSUME NEW j \in Indices
               PROVE  /\ d[j] \in Seq(Slab) /\ IsInjective(d[j])
                      /\ \A b : InChain(d[j], b) <=> InChain(Fresh(i, n, j), b) \/ InChain(c[j], b)
    OBVIOUS
  <2>1. PICK s \in Seq(Slab) : s = Fresh(i, n, j) BY <1>5
  <2>2. PICK t \in Seq(Slab) : t = c[j] BY <1>1
  <2>3. IsInjective(s) /\ IsInjective(t) BY <2>1, <2>2, <1>1, <1>5
  <2>4. \A b : ~(InChain(s, b) /\ InChain(t, b)) BY <2>1, <2>2, <1>5, <1>8
  <2>5. d[j] = s \o t BY <2>1, <2>2, <1>7
  <2>6. s \o t \in Seq(Slab) /\ IsInjective(s \o t) /\ \A b : InChain(s \o t, b) <=> InChain(s, b) \/ InChain(t, b)
    BY <2>3, <2>4, ConcatChain
  <2> QED BY <2>1, <2>2, <2>5, <2>6
<1>10. d \in [Indices -> Seq(Slab)] BY <1>7, <1>9
<1>11. FreeBlocks(d) = FreeBlocks(c) \cup Slabs(i, n)
  <2>1. \A x \in Held : x \in FreeBlocks(d) <=> x \in FreeBlocks(c) \/ x \in Slabs(i, n)
    <3> SUFFICES ASSUME NEW x \in Held PROVE x \in FreeBlocks(d) <=> x \in FreeBlocks(c) \/ x \in Slabs(i, n)
      OBVIOUS
    <3>1. x.block \in Slab /\ x.i \in Indices BY DEF Held
    <3>2. InChain(d[x.i], x.block) <=> (x.block.page = n /\ IsPiece(i, x.block.at, x.i)) \/ InChain(c[x.i], x.block)
      BY <3>1, <1>5, <1>9
    <3> QED BY <3>2 DEF FreeBlocks, Slabs
  <2> QED BY <2>1 DEF FreeBlocks, Slabs
<1>12. FillPages(FreeBlocks(d) \cup GivenOut(live), Append(pageChain, PageSize(i)))
  <2>1. FillPages(A \cup Slabs(i, n), Append(pageChain, PageSize(i))) BY <1>1, <1>2, <1>3, NewPage
  <2>2. A \cup Slabs(i, n) = FreeBlocks(d) \cup GivenOut(live) BY <1>11 DEF A
  <2> QED BY <2>1, <2>2
<1>13. \A a \in live : ~InChain(d[index(a.sz)], a.block)
  <2> SUFFICES ASSUME NEW a \in live PROVE ~InChain(d[index(a.sz)], a.block)
    OBVIOUS
  <2>1. a.block \in Slab /\ index(a.sz) \in Indices BY <1>1, IndexFits
  <2>2. PICK x : x = [block |-> a.block, i |-> index(a.sz)] OBVIOUS
  <2>3. x \in A /\ x.block = a.block BY <2>2 DEF A, GivenOut
  <2>4. a.block.page # n BY <2>3, <1>4
  <2> QED BY <2>1, <2>4, <1>1, <1>5, <1>9
<1>14. Append(pageChain, PageSize(i)) \in Seq(Nat)
  <2>1. i \in Nat BY DEF Indices
  <2> QED BY <2>1, <1>1, PageHolds, AppendProperties
<1>15. d[i] # << >>
  <2>1. PICK b : b = [page |-> n, at |-> Cut(i)[1].at] OBVIOUS
  <2>2. i \in Nat BY DEF Indices
  <2>3. Cut(i) \in Seq(Piece) /\ Len(Cut(i)) > 0 /\ Cut(i)[1].i = i BY <2>2, CutFills
  <2>4. Len(Cut(i)) \in Nat /\ 1 \in 1 .. Len(Cut(i)) BY <2>3, LenProperties
  <2>5. Cut(i)[1].at \in Nat BY <2>4, PiecesApart
  <2>6. b \in Slab /\ b.page = n /\ b.at = Cut(i)[1].at BY <2>1, <2>5 DEF Slab
  <2>7. IsPiece(i, b.at, i) BY <2>3, <2>4, <2>6 DEF IsPiece
  <2>8. InChain(d[i], b) BY <2>6, <2>7, <1>5, <1>9
  <2> QED BY <2>8, EmptyChain
<1>16. Sound(d, Append(pageChain, PageSize(i)), live)
  BY <1>1, <1>9, <1>10, <1>12, <1>13, <1>14 DEF Sound
<1> QED BY <1>6, <1>15, <1>16

\* The first block of a chain is given out.
LEMMA TakeSound ==
  ASSUME NEW c, NEW p, NEW l, Sound(c, p, l), NEW sz \in AllocSizes, c[index(sz)] # << >>
  PROVE  Sound([c EXCEPT ![index(sz)] = Tail(@)], p, l \cup {[block |-> Head(c[index(sz)]), sz |-> sz]})
<1>1. /\ c \in [Indices -> Seq(Slab)] /\ p \in Seq(Nat) /\ l \subseteq [block : Slab, sz : AllocSizes]
      /\ \A j \in Indices : IsInjective(c[j])
      /\ \A a \in l : ~InChain(c[index(a.sz)], a.block)
      /\ \A a, b \in l : a.block = b.block /\ index(a.sz) = index(b.sz) => a = b
      /\ FillPages(FreeBlocks(c) \cup GivenOut(l), p)
  BY DEF Sound
<1>2. PICK i \in Indices : i = index(sz) BY IndexFits
<1>3. PICK h : h = Head(c[i]) OBVIOUS
<1>4. /\ h \in Slab /\ InChain(c[i], h) /\ Tail(c[i]) \in Seq(Slab)
      /\ \A b : InChain(c[i], b) <=> InChain(Tail(c[i]), b) \/ b = h
      /\ IsInjective(Tail(c[i])) /\ ~InChain(Tail(c[i]), h)
  <2>1. c[i] \in Seq(Slab) /\ c[i] # << >> /\ IsInjective(c[i]) BY <1>1, <1>2
  <2> QED BY <2>1, <1>3, HeadChain
<1>5. PICK d : d = [c EXCEPT ![i] = Tail(c[i])] OBVIOUS
<1>6. d \in [Indices -> Seq(Slab)] /\ d[i] = Tail(c[i]) /\ \A j \in Indices \ {i} : d[j] = c[j]
  BY <1>1, <1>4, <1>5
<1>7. PICK new : new = [block |-> h, sz |-> sz] OBVIOUS
<1>8. new \in [block : Slab, sz : AllocSizes] /\ new.block = h /\ new.sz = sz BY <1>4, <1>7
<1>9. PICK m : m = l \cup {new} OBVIOUS
<1>10. PICK x : x = [block |-> h, i |-> i] OBVIOUS
<1>11. x \in Held /\ x.block = h /\ x.i = i BY <1>4, <1>10 DEF Held
<1>12. \A j \in Indices : \A b : InChain(d[j], b) <=> InChain(c[j], b) /\ ~(j = i /\ b = h)
  <2> SUFFICES ASSUME NEW j \in Indices, NEW b PROVE InChain(d[j], b) <=> InChain(c[j], b) /\ ~(j = i /\ b = h)
    OBVIOUS
  <2>1. CASE j = i BY <2>1, <1>4, <1>6
  <2>2. CASE j # i BY <2>2, <1>6
  <2> QED BY <2>1, <2>2
<1>13. FreeBlocks(d) \cup {x} = FreeBlocks(c)
  <2>1. \A y \in Held : y \in FreeBlocks(c) <=> y \in FreeBlocks(d) \/ y = x
    <3> SUFFICES ASSUME NEW y \in Held PROVE y \in FreeBlocks(c) <=> y \in FreeBlocks(d) \/ y = x
      OBVIOUS
    <3>1. y.i \in Indices /\ y = [block |-> y.block, i |-> y.i] BY DEF Held
    <3>2. y = x <=> y.i = i /\ y.block = h BY <3>1, <1>10, <1>11
    <3>3. InChain(d[y.i], y.block) <=> InChain(c[y.i], y.block) /\ ~(y.i = i /\ y.block = h) BY <3>1, <1>12
    <3> QED BY <3>2, <3>3, <1>4 DEF FreeBlocks
  <2> QED BY <2>1, <1>11 DEF FreeBlocks
<1>14. GivenOut(m) = GivenOut(l) \cup {x}
  <2>1. [block |-> new.block, i |-> index(new.sz)] = x BY <1>2, <1>8, <1>10
  <2> QED BY <2>1, <1>9 DEF GivenOut
<1>15. FillPages(FreeBlocks(d) \cup GivenOut(m), p)
  <2>1. FreeBlocks(d) \cup GivenOut(m) = FreeBlocks(c) \cup GivenOut(l) BY <1>13, <1>14
  <2> QED BY <2>1, <1>1
<1>16. \A a \in m : ~InChain(d[index(a.sz)], a.block)
  <2> SUFFICES ASSUME NEW a \in m PROVE ~InChain(d[index(a.sz)], a.block)
    OBVIOUS
  <2>1. CASE a = new BY <2>1, <1>2, <1>8, <1>12
  <2>2. CASE a \in l
    <3>1. index(a.sz) \in Indices BY <2>2, <1>1, IndexFits
    <3> QED BY <3>1, <2>2, <1>1, <1>12
  <2> QED BY <2>1, <2>2, <1>9
<1>17. \A a, b \in m : a.block = b.block /\ index(a.sz) = index(b.sz) => a = b
  <2>1. \A a \in l : ~(a.block = new.block /\ index(a.sz) = index(new.sz)) BY <1>1, <1>2, <1>4, <1>8
  <2> QED BY <2>1, <1>1, <1>9
<1>18. \A j \in Indices : IsInjective(d[j])
  <2> SUFFICES ASSUME NEW j \in Indices PROVE IsInjective(d[j])
    OBVIOUS
  <2>1. CASE j = i BY <2>1, <1>4, <1>6
  <2>2. CASE j # i BY <2>2, <1>1, <1>6
  <2> QED BY <2>1, <2>2
<1>19. m \subseteq [block : Slab, sz : AllocSizes] BY <1>1, <1>8, <1>9
<1>20. Sound(d, p, m) BY <1>1, <1>6, <1>15, <1>16, <1>17, <1>18, <1>19 DEF Sound
<1> QED BY <1>2, <1>3, <1>5, <1>7, <1>9, <1>20

\* A block comes back to the chain from which it was taken.
LEMMA GiveSound ==
  ASSUME NEW c, NEW p, NEW l, Sound(c, p, l), NEW a \in l
  PROVE  Sound([c EXCEPT ![index(a.sz)] = <<a.block>> \o @], p, l \ {a})
<1>1. /\ c \in [Indices -> Seq(Slab)] /\ p \in Seq(Nat) /\ l \subseteq [block : Slab, sz : AllocSizes]
      /\ \A j \in Indices : IsInjective(c[j])
      /\ \A b \in l : ~InChain(c[index(b.sz)], b.block)
      /\ \A b, e \in l : b.block = e.block /\ index(b.sz) = index(e.sz) => b = e
      /\ FillPages(FreeBlocks(c) \cup GivenOut(l), p)
  BY DEF Sound
<1>2. a.sz \in AllocSizes /\ a.block \in Slab BY <1>1
<1>3. PICK i \in Indices : i = index(a.sz) BY <1>2, IndexFits
<1>4. PICK h \in Slab : h = a.block BY <1>2
<1>5. PICK t : t = <<h>> \o c[i] OBVIOUS
<1>6. t \in Seq(Slab) /\ IsInjective(t) /\ \A b : InChain(t, b) <=> InChain(c[i], b) \/ b = h
  <2>1. c[i] \in Seq(Slab) /\ IsInjective(c[i]) /\ ~InChain(c[i], h) BY <1>1, <1>3, <1>4
  <2>2. <<h>> \in Seq(Slab) /\ IsInjective(<<h>>) /\ \A b : InChain(<<h>>, b) <=> b = h
    <3>1. Len(<<h>>) = 1 /\ DOMAIN <<h>> = 1 .. 1 /\ <<h>>[1] = h OBVIOUS
    <3>2. <<h>> \in Seq(Slab) OBVIOUS
    <3> QED BY <3>1, <3>2 DEF InChain, IsInjective
  <2>3. \A b : ~(InChain(<<h>>, b) /\ InChain(c[i], b)) BY <2>1, <2>2
  <2>4. /\ <<h>> \o c[i] \in Seq(Slab) /\ IsInjective(<<h>> \o c[i])
        /\ \A b : InChain(<<h>> \o c[i], b) <=> InChain(<<h>>, b) \/ InChain(c[i], b)
    BY <2>1, <2>2, <2>3, ConcatChain
  <2> QED BY <2>2, <2>4, <1>5
<1>7. PICK d : d = [c EXCEPT ![i] = t] OBVIOUS
<1>8. d \in [Indices -> Seq(Slab)] /\ d[i] = t /\ \A j \in Indices \ {i} : d[j] = c[j]
  BY <1>1, <1>6, <1>7
<1>9. PICK m : m = l \ {a} OBVIOUS
<1>10. PICK x : x = [block |-> h, i |-> i] OBVIOUS
<1>11. x \in Held /\ x.block = h /\ x.i = i BY <1>10 DEF Held
<1>12. \A j \in Indices : \A b : InChain(d[j], b) <=> InChain(c[j], b) \/ (j = i /\ b = h)
  <2> SUFFICES ASSUME NEW j \in Indices, NEW b PROVE InChain(d[j], b) <=> InChain(c[j], b) \/ (j = i /\ b = h)
    OBVIOUS
  <2>1. CASE j = i BY <2>1, <1>6, <1>8
  <2>2. CASE j # i BY <2>2, <1>8
  <2> QED BY <2>1, <2>2
<1>13. FreeBlocks(d) = FreeBlocks(c) \cup {x}
  <2>1. \A y \in Held : y \in FreeBlocks(d) <=> y \in FreeBlocks(c) \/ y = x
    <3> SUFFICES ASSUME NEW y \in Held PROVE y \in FreeBlocks(d) <=> y \in FreeBlocks(c) \/ y = x
      OBVIOUS
    <3>1. y.i \in Indices /\ y = [block |-> y.block, i |-> y.i] BY DEF Held
    <3>2. y = x <=> y.i = i /\ y.block = h BY <3>1, <1>10, <1>11
    <3>3. InChain(d[y.i], y.block) <=> InChain(c[y.i], y.block) \/ (y.i = i /\ y.block = h) BY <3>1, <1>12
    <3> QED BY <3>2, <3>3 DEF FreeBlocks
  <2> QED BY <2>1, <1>11 DEF FreeBlocks
<1>14. GivenOut(m) \cup {x} = GivenOut(l)
  <2>1. [block |-> a.block, i |-> index(a.sz)] = x BY <1>3, <1>4, <1>10
  <2> QED BY <2>1, <1>9 DEF GivenOut
<1>15. FillPages(FreeBlocks(d) \cup GivenOut(m), p)
  <2>1. FreeBlocks(d) \cup GivenOut(m) = FreeBlocks(c) \cup GivenOut(l) BY <1>13, <1>14
  <2> QED BY <2>1, <1>1
<1>16. \A b \in m : ~InChain(d[index(b.sz)], b.block)
  <2> SUFFICES ASSUME NEW b \in m PROVE ~InChain(d[index(b.sz)], b.block)
    OBVIOUS
  <2>1. b \in l /\ b # a BY <1>9
  <2>2. index(b.sz) \in Indices BY <2>1, <1>1, IndexFits
  <2>3. ~(b.block = h /\ index(b.sz) = i) BY <2>1, <1>1, <1>3, <1>4
  <2> QED BY <2>1, <2>2, <2>3, <1>1, <1>12
<1>17. \A j \in Indices : IsInjective(d[j])
  <2> SUFFICES ASSUME NEW j \in Indices PROVE IsInjective(d[j])
    OBVIOUS
  <2>1. CASE j = i BY <2>1, <1>6, <1>8
  <2>2. CASE j # i BY <2>2, <1>1, <1>8
  <2> QED BY <2>1, <2>2
<1>18. /\ m \subseteq [block : Slab, sz : AllocSizes]
       /\ \A b, e \in m : b.block = e.block /\ index(b.sz) = index(e.sz) => b = e
  BY <1>1, <1>9
<1>19. Sound(d, p, m) BY <1>1, <1>8, <1>15, <1>16, <1>17, <1>18 DEF Sound
<1> QED BY <1>3, <1>4, <1>5, <1>7, <1>9, <1>19

AllocatorInv == Sound(blockChains, pageChain, live)

\* At first there is nothing.
LEMMA AllocatorInvInit == AllocatorInit => AllocatorInv
<1> SUFFICES ASSUME AllocatorInit PROVE Sound(blockChains, pageChain, live)
  BY DEF AllocatorInv
<1>1. blockChains = [i \in Indices |-> << >>] /\ pageChain = << >> /\ live = {} BY DEF AllocatorInit
<1>2. << >> \in Seq(Slab) /\ << >> \in Seq(Nat) /\ Len(<< >>) = 0 BY EmptySeq
<1>3. blockChains \in [Indices -> Seq(Slab)] /\ \A i \in Indices : blockChains[i] = << >> BY <1>1, <1>2
<1>4. FreeBlocks(blockChains) = {} BY <1>3, EmptyChain DEF FreeBlocks, Held
<1>5. GivenOut(live) = {} BY <1>1 DEF GivenOut
<1>6. FillPages({}, pageChain) BY <1>1, <1>2 DEF FillPages
<1>7. FillPages(FreeBlocks(blockChains) \cup GivenOut(live), pageChain) BY <1>4, <1>5, <1>6
<1> QED BY <1>1, <1>2, <1>3, <1>7, EmptyChain DEF Sound

\* allocate() takes a block of the chain, which has a new page in front if it was empty.
LEMMA AllocateStep ==
  ASSUME AllocatorInv, NEW sz \in AllocSizes, allocate(sz)
  PROVE  AllocatorInv'
<1>1. Sound(blockChains, pageChain, live) BY DEF AllocatorInv
<1>2. index(sz) \in Indices BY IndexFits
<1>3. CASE blockChains[index(sz)] # << >>
  <2>1. /\ blockChains' = [blockChains EXCEPT ![index(sz)] = Tail(@)]
        /\ live' = live \cup {[block |-> Head(blockChains[index(sz)]), sz |-> sz]} /\ pageChain' = pageChain
    BY <1>3 DEF allocate
  <2>2. Sound([blockChains EXCEPT ![index(sz)] = Tail(@)], pageChain,
              live \cup {[block |-> Head(blockChains[index(sz)]), sz |-> sz]})
    BY <1>1, <1>3, TakeSound
  <2>3. Sound(blockChains', pageChain', live') BY <2>1, <2>2
  <2> QED BY <2>3 DEF AllocatorInv
<1>4. CASE blockChains[index(sz)] = << >>
  <2>1. PICK c : c = WithPage(index(sz)) OBVIOUS
  <2>2. PICK p : p = Append(pageChain, PageSize(index(sz))) OBVIOUS
  <2>3. blockChains' = [c EXCEPT ![index(sz)] = Tail(@)] /\ pageChain' = p
        /\ live' = live \cup {[block |-> Head(c[index(sz)]), sz |-> sz]}
    BY <1>4, <2>1, <2>2 DEF allocate
  <2>4. Sound(c, p, live) /\ c[index(sz)] # << >> BY <1>1, <1>2, <2>1, <2>2, PageSound
  <2>5. Sound([c EXCEPT ![index(sz)] = Tail(@)], p, live \cup {[block |-> Head(c[index(sz)]), sz |-> sz]})
    BY <2>4, TakeSound
  <2>6. Sound(blockChains', pageChain', live') BY <2>3, <2>5
  <2> QED BY <2>6 DEF AllocatorInv
<1> QED BY <1>3, <1>4

\* deallocate() puts back what was allocated.
LEMMA DeallocateStep ==
  ASSUME AllocatorInv, NEW a \in live, deallocate(a)
  PROVE  AllocatorInv'
<1>1. Sound(blockChains, pageChain, live) BY DEF AllocatorInv
<1>2. /\ live' = live \ {a} /\ pageChain' = pageChain
      /\ blockChains' = [blockChains EXCEPT ![index(a.sz)] = <<a.block>> \o @]
  BY DEF deallocate
<1>3. Sound([blockChains EXCEPT ![index(a.sz)] = <<a.block>> \o @], pageChain, live \ {a}) BY <1>1, GiveSound
<1>4. Sound(blockChains', pageChain', live') BY <1>2, <1>3
<1> QED BY <1>4 DEF AllocatorInv

\* The blocks of the allocator of a node, free or given out, always fill its pages, and
\* each of them is in the chain of its index or allocated (AsyncNodeAllocator).
THEOREM AllocatorInvariant == AllocatorSpec => []AllocatorInv
<1>1. AllocatorInv /\ [AllocatorNext]_allocatorVars => AllocatorInv'
  <2> SUFFICES ASSUME AllocatorInv, [AllocatorNext]_allocatorVars PROVE AllocatorInv'
    OBVIOUS
  <2>1. ASSUME NEW sz \in AllocSizes, allocate(sz) PROVE AllocatorInv' BY <2>1, AllocateStep
  <2>2. ASSUME NEW a \in live, deallocate(a) PROVE AllocatorInv' BY <2>2, DeallocateStep
  <2>3. CASE UNCHANGED allocatorVars BY <2>3 DEF allocatorVars, AllocatorInv
  <2> QED BY <2>1, <2>2, <2>3 DEF AllocatorNext
<1> QED BY <1>1, AllocatorInvInit, PTL DEF AllocatorSpec

\* The bytes of a block are those that it covers.
LEMMA BytesCovered ==
  ASSUME NEW x \in Held
  PROVE  \A z : z \in Bytes(x.block, x.i) <=> \E page, u \in Nat : z = <<page, u>> /\ Covers(x, page, u)
<1>1. x.block \in Slab /\ x.i \in Indices BY DEF Held
<1>2. x.block.page \in Nat /\ x.block.at \in Nat BY <1>1 DEF Slab
<1>3. PICK w \in Nat : w = Power[x.i]
  <2>1. x.i \in Nat BY <1>1 DEF Indices
  <2> QED BY <2>1, PowerGrows
<1>4. PICK at \in Nat : at = x.block.at BY <1>2
<1>5. Bytes(x.block, x.i) = {x.block.page} \X (at .. at + w - 1) BY <1>3, <1>4 DEF Bytes
<1>6. \A u : u \in at .. at + w - 1 <=> u \in Nat /\ at <= u /\ u < at + w OBVIOUS
<1>7. \A page, u \in Nat : Covers(x, page, u) <=> page = x.block.page /\ at <= u /\ u < at + w
  BY <1>3, <1>4 DEF Covers
<1>8. ASSUME NEW z, z \in Bytes(x.block, x.i)
      PROVE  \E page, u \in Nat : z = <<page, u>> /\ Covers(x, page, u)
  <2>1. PICK u \in at .. at + w - 1 : z = <<x.block.page, u>> BY <1>5, <1>8
  <2> QED BY <2>1, <1>2, <1>6, <1>7
<1>9. ASSUME NEW z, NEW page \in Nat, NEW u \in Nat, z = <<page, u>>, Covers(x, page, u)
      PROVE  z \in Bytes(x.block, x.i)
  <2>1. page = x.block.page /\ u \in at .. at + w - 1 BY <1>6, <1>7, <1>9
  <2> QED BY <2>1, <1>5, <1>9
<1> QED BY <1>8, <1>9

\* Different blocks that are free or allocated have no byte in common.
LEMMA BytesApart ==
  ASSUME NEW c, NEW p, NEW l, Sound(c, p, l),
         NEW x \in FreeBlocks(c) \cup GivenOut(l), NEW y \in FreeBlocks(c) \cup GivenOut(l), x # y
  PROVE  Bytes(x.block, x.i) \cap Bytes(y.block, y.i) = {}
<1>1. l \subseteq [block : Slab, sz : AllocSizes] /\ FillPages(FreeBlocks(c) \cup GivenOut(l), p) BY DEF Sound
<1>2. x \in Held /\ y \in Held BY <1>1, AllHeld
<1>3. \A page, u \in Nat : ~(Covers(x, page, u) /\ Covers(y, page, u)) BY <1>1 DEF FillPages
<1> SUFFICES ASSUME NEW z, z \in Bytes(x.block, x.i), z \in Bytes(y.block, y.i) PROVE FALSE
  OBVIOUS
<1>4. PICK page \in Nat, u \in Nat : z = <<page, u>> /\ Covers(x, page, u) BY <1>2, BytesCovered
<1>5. PICK page2 \in Nat, u2 \in Nat : z = <<page2, u2>> /\ Covers(y, page2, u2) BY <1>2, BytesCovered
<1>6. page = page2 /\ u = u2 BY <1>4, <1>5
<1> QED BY <1>3, <1>4, <1>5, <1>6

\* No byte of a page of the allocator is in two blocks or in none, none is beyond its
\* page or in its head, and what is allocated is as long as was asked for, for every
\* size of pages and any sizes that are allocated and given back (allocate(), deallocate()).
THEOREM MemoryAlwaysDisjoint == AllocatorSpec => []MemoryDisjoint
<1>1. AllocatorInv => MemoryDisjoint
  <2> SUFFICES ASSUME AllocatorInv PROVE MemoryDisjoint
    OBVIOUS
  <2> DEFINE c == blockChains
             A == FreeBlocks(c) \cup GivenOut(live)
             freeBytes == UNION {UNION {Bytes(b, i) : b \in Range(c[i])} : i \in Indices}
             usedBytes == UNION {Bytes(a.block, index(a.sz)) : a \in live}
             allBytes  == UNION {{page} \X (1 .. pageChain[page] - 1) : page \in DOMAIN pageChain}
             block(a) == [block |-> a.block, i |-> index(a.sz)]
  <2>1. /\ Sound(c, pageChain, live)
        /\ c \in [Indices -> Seq(Slab)] /\ pageChain \in Seq(Nat) /\ live \subseteq [block : Slab, sz : AllocSizes]
        /\ \A j \in Indices : IsInjective(c[j])
        /\ \A a \in live : ~InChain(c[index(a.sz)], a.block)
        /\ \A a, b \in live : a.block = b.block /\ index(a.sz) = index(b.sz) => a = b
        /\ FillPages(A, pageChain)
    BY DEF AllocatorInv, Sound
  <2>2. A \subseteq Held BY <2>1, AllHeld
  <2>3. PICK N \in Nat : N = Len(pageChain) /\ DOMAIN pageChain = 1 .. N /\ \A n \in 1 .. N : pageChain[n] \in Nat
    BY <2>1, LenProperties, ElementOfSeq
  <2>4. \A x, y \in A : x # y => Bytes(x.block, x.i) \cap Bytes(y.block, y.i) = {}
    BY <2>1, BytesApart
  <2>5. \A j \in Indices : \A n \in DOMAIN c[j] :
          /\ [block |-> c[j][n], i |-> j] \in FreeBlocks(c)
          /\ [block |-> c[j][n], i |-> j].block = c[j][n] /\ [block |-> c[j][n], i |-> j].i = j
    <3> SUFFICES ASSUME NEW j \in Indices, NEW n \in DOMAIN c[j]
                 PROVE  [block |-> c[j][n], i |-> j] \in FreeBlocks(c)
      OBVIOUS
    <3>1. c[j] \in Seq(Slab) /\ InChain(c[j], c[j][n]) BY <2>1 DEF InChain
    <3>2. c[j][n] \in Slab BY <3>1, ChainItems
    <3>3. PICK x : x = [block |-> c[j][n], i |-> j] OBVIOUS
    <3>4. x \in Held /\ x.block = c[j][n] /\ x.i = j BY <3>2, <3>3 DEF Held
    <3>5. x \in FreeBlocks(c) BY <3>1, <3>4 DEF FreeBlocks
    <3> QED BY <3>3, <3>5
  <2>6. \A a \in live : block(a) \in GivenOut(live) /\ block(a).block = a.block /\ block(a).i = index(a.sz)
    BY DEF GivenOut
  <2>7. \A a \in live : block(a) \notin FreeBlocks(c) BY <2>1 DEF FreeBlocks
  <2>8. \A z : z \in freeBytes <=> \E x \in FreeBlocks(c) : z \in Bytes(x.block, x.i)
    <3>1. ASSUME NEW z, z \in freeBytes PROVE \E x \in FreeBlocks(c) : z \in Bytes(x.block, x.i)
      <4>1. PICK j \in Indices : z \in UNION {Bytes(b, j) : b \in Range(c[j])} BY <3>1
      <4>2. PICK b \in Range(c[j]) : z \in Bytes(b, j) BY <4>1
      <4>3. PICK n \in DOMAIN c[j] : c[j][n] = b BY DEF Range
      <4> QED BY <4>2, <4>3, <2>5
    <3>2. ASSUME NEW z, NEW x \in FreeBlocks(c), z \in Bytes(x.block, x.i) PROVE z \in freeBytes
      <4>1. x.i \in Indices /\ InChain(c[x.i], x.block) BY DEF FreeBlocks, Held
      <4>2. x.block \in Range(c[x.i]) BY <4>1 DEF InChain, Range
      <4>3. z \in UNION {Bytes(b, x.i) : b \in Range(c[x.i])} BY <3>2, <4>2
      <4> QED BY <4>1, <4>3
    <3> QED BY <3>1, <3>2
  <2>9. \A z : z \in usedBytes <=> \E x \in GivenOut(live) : z \in Bytes(x.block, x.i)
    <3>1. ASSUME NEW z, z \in usedBytes PROVE \E x \in GivenOut(live) : z \in Bytes(x.block, x.i)
      <4>1. PICK a \in live : z \in Bytes(a.block, index(a.sz)) BY <3>1
      <4> QED BY <4>1, <2>6
    <3>2. ASSUME NEW z, NEW x \in GivenOut(live), z \in Bytes(x.block, x.i) PROVE z \in usedBytes
      <4>1. PICK a \in live : x = block(a) BY DEF GivenOut
      <4> QED BY <4>1, <3>2, <2>6
    <3> QED BY <3>1, <3>2
  <2>10. \A z : z \in allBytes <=> \E page \in 1 .. N : \E u \in 1 .. pageChain[page] - 1 : z = <<page, u>>
    <3>1. ASSUME NEW z, z \in allBytes PROVE \E page \in 1 .. N : \E u \in 1 .. pageChain[page] - 1 : z = <<page, u>>
      <4>1. PICK page \in 1 .. N : z \in {page} \X (1 .. pageChain[page] - 1) BY <3>1, <2>3
      <4> QED BY <4>1
    <3>2. ASSUME NEW z, NEW page \in 1 .. N, NEW u \in 1 .. pageChain[page] - 1, z = <<page, u>> PROVE z \in allBytes
      <4>1. z \in {page} \X (1 .. pageChain[page] - 1) BY <3>2
      <4> QED BY <4>1, <2>3
    <3> QED BY <3>1, <3>2
  <2> HIDE DEF freeBytes, usedBytes, allBytes
  <2>11. freeBytes \cup usedBytes = allBytes
    <3>1. ASSUME NEW z, NEW x \in A, z \in Bytes(x.block, x.i) PROVE z \in allBytes
      <4>1. PICK page \in Nat, u \in Nat : z = <<page, u>> /\ Covers(x, page, u) BY <3>1, <2>2, BytesCovered
      <4>2. x.block.page \in 1 .. N /\ 1 <= x.block.at /\ x.block.at + Power[x.i] <= pageChain[x.block.page]
        BY <2>1, <2>3 DEF FillPages
      <4>3. x.block.at \in Nat /\ Power[x.i] \in Nat
        <5>1. x \in Held BY <2>2
        <5>2. x.block \in Slab /\ x.i \in Nat BY <5>1 DEF Held, Indices
        <5> QED BY <5>2, PowerGrows DEF Slab
      <4>4. page = x.block.page /\ x.block.at <= u /\ u < x.block.at + Power[x.i] BY <4>1 DEF Covers
      <4>5. pageChain[page] \in Nat BY <4>2, <4>4, <2>3
      <4>6. u \in 1 .. pageChain[page] - 1 BY <4>2, <4>3, <4>4, <4>5
      <4> QED BY <4>1, <4>2, <4>4, <4>6, <2>10
    <3>2. ASSUME NEW z, z \in allBytes PROVE \E x \in A : z \in Bytes(x.block, x.i)
      <4>1. PICK page \in 1 .. N : \E u \in 1 .. pageChain[page] - 1 : z = <<page, u>> BY <3>2, <2>10
      <4>2. PICK u \in 1 .. pageChain[page] - 1 : z = <<page, u>> BY <4>1
      <4>3. PICK x \in A : Covers(x, page, u) BY <4>2, <2>1, <2>3 DEF FillPages
      <4>4. page \in Nat /\ u \in Nat BY <2>3
      <4>5. x \in Held BY <2>2
      <4>6. z \in Bytes(x.block, x.i) BY <4>2, <4>3, <4>4, <4>5, BytesCovered
      <4> QED BY <4>6
    <3> QED BY <3>1, <3>2, <2>8, <2>9
  <2>12. freeBytes \cap usedBytes = {}
    <3> SUFFICES ASSUME NEW z, z \in freeBytes, z \in usedBytes PROVE FALSE
      OBVIOUS
    <3>1. PICK x \in FreeBlocks(c) : z \in Bytes(x.block, x.i) BY <2>8
    <3>2. PICK y \in GivenOut(live) : z \in Bytes(y.block, y.i) BY <2>9
    <3>3. x # y BY <2>7 DEF GivenOut
    <3>4. Bytes(x.block, x.i) \cap Bytes(y.block, y.i) = {} BY <3>3, <2>4
    <3> QED BY <3>1, <3>2, <3>4
  <2>13. \A i, j \in Indices : \A m \in DOMAIN c[i], n \in DOMAIN c[j] :
           <<i, m>> # <<j, n>> => Bytes(c[i][m], i) \cap Bytes(c[j][n], j) = {}
    <3> SUFFICES ASSUME NEW i \in Indices, NEW j \in Indices, NEW m \in DOMAIN c[i], NEW n \in DOMAIN c[j],
                        <<i, m>> # <<j, n>>
                 PROVE  Bytes(c[i][m], i) \cap Bytes(c[j][n], j) = {}
      OBVIOUS
    <3>1. PICK x \in FreeBlocks(c) : x.block = c[i][m] /\ x.i = i BY <2>5
    <3>2. PICK y \in FreeBlocks(c) : y.block = c[j][n] /\ y.i = j BY <2>5
    <3>3. x # y
      <4> SUFFICES ASSUME x = y PROVE FALSE
        OBVIOUS
      <4>1. i = j /\ c[i][m] = c[i][n] BY <3>1, <3>2
      <4>2. m = n BY <4>1, <2>1 DEF IsInjective
      <4> QED BY <4>1, <4>2
    <3>4. Bytes(x.block, x.i) \cap Bytes(y.block, y.i) = {} BY <3>3, <2>4
    <3> QED BY <3>1, <3>2, <3>4
  <2>14. \A a, b \in live : a # b => Bytes(a.block, index(a.sz)) \cap Bytes(b.block, index(b.sz)) = {}
    <3> SUFFICES ASSUME NEW a \in live, NEW b \in live, a # b
                 PROVE  Bytes(a.block, index(a.sz)) \cap Bytes(b.block, index(b.sz)) = {}
      OBVIOUS
    <3>1. PICK x \in A : x.block = a.block /\ x.i = index(a.sz) BY <2>6
    <3>2. PICK y \in A : y.block = b.block /\ y.i = index(b.sz) BY <2>6
    <3>3. x # y BY <3>1, <3>2, <2>1
    <3>4. Bytes(x.block, x.i) \cap Bytes(y.block, y.i) = {} BY <3>3, <2>4
    <3> QED BY <3>1, <3>2, <3>4
  <2>15. \A a \in live : a.sz <= Power[index(a.sz)] BY <2>1, IndexFits
  <2> QED BY <2>11, <2>12, <2>13, <2>14, <2>15 DEF MemoryDisjoint, freeBytes, usedBytes, allBytes
<1> QED BY <1>1, AllocatorInvariant, PTL
=============================================================================
