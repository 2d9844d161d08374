---------------------------- MODULE NodeSyncProofs ----------------------------
(***************************************************************************)
(* TypeOK, ExclusiveAccess and Asserts of NodeSync, what becomes of its    *)
(* signals and events, and that it implements EventChannel, for any number *)
(* of nodes, restarts and events.                                          *)
(*                                                                         *)
(* Type correctness has one lemma per group of variables; the sequence     *)
(* lemmas say what dispatching and turning down events does to a chain.    *)
(*                                                                         *)
(* The inductive invariant is Inv of NodeSync: what the position of a      *)
(* thread says about its members (Phase), which thread has which word of a *)
(* Shared block in which state (PairLock), and who used its locked part    *)
(* last (PairDelivered).  For a pair <<w, r>> a step is one of r, one of w *)
(* or one of a third node.  ReaderMove and WriterMove list what the first  *)
(* two can do to the words of the pair and to the roles of the threads;    *)
(* ReaderSide and WriterSide show that the actions do nothing else, and    *)
(* ReaderPair and WriterPair that no such move breaks the invariant.       *)
(*                                                                         *)
(* Signals: SignalKept is nearly inductive by itself; a node that is       *)
(* constructed again resets its signals, which loses none only because     *)
(* ~Node ends when there is none left (DestructorLoop).  SignalInv adds    *)
(* that, and which words of a writer the last loop of ~Node has taken      *)
(* back.                                                                   *)
(*                                                                         *)
(* Events: that the exchange implements EventChannel, and from it          *)
(* EventsAccounted and NoOvertaking.  Accounted is what a channel keeps    *)
(* true of its events, whatever implements it (ChannelStep).  That each    *)
(* step is one of the channel's needs more of the block of a pair: ReadInv *)
(* (what a reader has behind it is delivered), LeftInv (what nobody has    *)
(* locked and nobody has read was left by a node that is gone) and BornInv *)
(* (no event is older than its node).  A step of a third node leaves the   *)
(* pair alone (ElsewhereEvents); ReaderEvents and WriterEvents are about   *)
(* the two that own it.                                                    *)
(***************************************************************************)
EXTENDS NodeSync, SequenceTheorems, ChainProofs

\* Two different nodes form a pair both ways.
LEMMA PairOf ==
  ASSUME NEW n \in Nodes, NEW m \in Nodes, n # m
  PROVE  <<n, m>> \in Pairs /\ <<m, n>> \in Pairs
BY DEF Pairs, Peers

\* A function on 1 .. k is a sequence.
LEMMA FunctionIsSeq ==
  ASSUME NEW S, NEW k \in Nat, NEW f \in [1 .. k -> S]
  PROVE  f \in Seq(S)
BY SeqDef

\* Taking one event out of a chain (undeliveredEvent) leaves a chain.
LEMMA EraseType ==
  ASSUME NEW S, NEW s \in Seq(S), NEW i \in 1 .. Len(s)
  PROVE  Erase(s, i) \in Seq(S)
<1>1. Len(s) \in Nat /\ \A j \in 1 .. Len(s) : s[j] \in S
  BY LenProperties, ElementOfSeq
<1>2. SubSeq(s, 1, i - 1) \in Seq(S)
  <2>1. 1 \in Int /\ i - 1 \in Int /\ \A j \in 1 .. i - 1 : s[j] \in S
    BY <1>1
  <2> QED BY ONLY <2>1, SubSeqProperties
<1>3. SubSeq(s, i + 1, Len(s)) \in Seq(S)
  <2>1. i + 1 \in Int /\ Len(s) \in Int /\ \A j \in i + 1 .. Len(s) : s[j] \in S
    BY <1>1
  <2> QED BY ONLY <2>1, SubSeqProperties
<1> QED BY ONLY <1>2, <1>3, ConcatProperties DEF Erase

\* Dispatching events back to their sources leaves a sequence of fates.
LEMMA DispatchedType ==
  ASSUME SharedType, NEW p \in Pairs, NEW back, NEW drop
  PROVE  Dispatched(p, back, drop) \in Seq(Fates)
<1>1. fate[p] \in Seq(Fates)
  BY DEF SharedType
<1>2. Len(fate[p]) \in Nat /\ fate[p] \in [1 .. Len(fate[p]) -> Fates]
  BY <1>1, LenProperties
<1>3. Dispatched(p, back, drop) \in [1 .. Len(fate[p]) -> Fates]
  BY <1>2 DEF Dispatched, Fates
<1> QED BY ONLY <1>2, <1>3, FunctionIsSeq

\* So does recording the fate of one event.
LEMMA SetFateType ==
  ASSUME NEW s \in Seq(Fates), NEW e, NEW x \in Fates
  PROVE  [s EXCEPT ![e] = x] \in Seq(Fates)
<1>1. Len(s) \in Nat /\ s \in [1 .. Len(s) -> Fates]
  BY LenProperties
<1>2. [s EXCEPT ![e] = x] \in [1 .. Len(s) -> Fates]
  BY <1>1
<1> QED BY ONLY <1>1, <1>2, FunctionIsSeq
\* The three ways a thread moves on keep the types of pc and todo.
LEMMA GotoType ==
  ASSUME ControlType, NEW n \in Nodes, NEW l \in Labels, Goto(n, l)
  PROVE  ControlType'
BY DEF ControlType, Goto

LEMMA ForeachType ==
  ASSUME ControlType, NEW n \in Nodes, NEW l \in Labels, Foreach(n, l)
  PROVE  ControlType'
BY DEF ControlType, Foreach, Peers

LEMMA ContinueType ==
  ASSUME ControlType, NEW n \in Nodes, NEW l \in Labels, NEW m, Continue(n, m, l)
  PROVE  ControlType'
BY DEF ControlType, Continue

\* Every variable has its type initially.
LEMMA InitType == Init => TypeOK
<1> SUFFICES ASSUME Init PROVE TypeOK
  OBVIOUS
<1>1. WordsType
  BY DEF Init, WordsType
<1>2. SharedType
  BY EmptySeq DEF Init, SharedType, WriteCache, ReadWriteLocked
<1>3. OwnType
  BY DEF Init, OwnType
<1>4. LifeType
  BY DEF Init, LifeType
<1>5. ControlType
  BY DEF Init, ControlType, Labels
<1> QED BY <1>1, <1>2, <1>3, <1>4, <1>5 DEF TypeOK

\* Every synchronisation word keeps its type.
LEMMA WordsStep ==
  ASSUME TypeOK, NEW n \in Nodes, Step(n)
  PROVE  WordsType'
<1>1. CASE \/ Start(n) \/ BeginSynchronize(n) \/ SynchronizeReadTest(n)
           \/ ReadEvent(n) \/ UndeliveredEvent(n) \/ ReadEnd(n)
           \/ SynchronizeReadCheck(n) \/ SynchronizeWriteTest(n)
           \/ SynchronizeWrite(n) \/ ReturnToSender(n) \/ FailedActive(n)
           \/ FailedLocked(n) \/ Stop(n) \/ DestructorLoop(n) \/ Deactivate(n)
  BY <1>1 DEF Start, BeginSynchronize, SynchronizeReadTest, ReadEvent,
     UndeliveredEvent, ReadEnd, SynchronizeReadCheck, SynchronizeWriteTest,
     SynchronizeWrite, ReturnToSender, FailedActive, FailedLocked, Stop,
     DestructorLoop, Deactivate, TypeOK, WordsType, words
<1>2. CASE ConstructorWrite(n)
  BY <1>2, PairOf DEF ConstructorWrite, TypeOK, WordsType, words, ControlType
<1>3. CASE ConstructorRead(n)
  BY <1>3, PairOf DEF ConstructorRead, TypeOK, WordsType, words, ControlType
<1>4. CASE Unlock(n)
  BY <1>4, PairOf DEF Unlock, TypeOK, WordsType, words, ControlType
<1>5. CASE Lock(n)
  BY <1>5, PairOf DEF Lock, TypeOK, WordsType, words, ControlType
<1>6. CASE FailedCAS(n)
  BY <1>6, PairOf DEF FailedCAS, TypeOK, WordsType, words, ControlType
<1>7. CASE Failed(n)
  BY <1>7, PairOf DEF Failed, TypeOK, WordsType, words, ControlType
<1>8. CASE FailedRelease(n)
  BY <1>8, PairOf DEF FailedRelease, TypeOK, WordsType, words, ControlType
<1>9. CASE DestructorRead(n)
  BY <1>9, PairOf DEF DestructorRead, TypeOK, WordsType, words, ControlType
<1>10. CASE DestructorWrite(n)
  BY <1>10, PairOf DEF DestructorWrite, TypeOK, WordsType, words, ControlType
<1>11. CASE \E d \in Nodes : Push(n, d)
  BY <1>11 DEF Push, TypeOK, WordsType, words
<1> QED
  BY <1>1, <1>2, <1>3, <1>4, <1>5, <1>6, <1>7, <1>8, <1>9, <1>10, <1>11 DEF Step,
     NodeStep

\* The members of Parallel<>::Node keep their types.
LEMMA OwnStep ==
  ASSUME TypeOK, NEW n \in Nodes, Step(n)
  PROVE  OwnType'
<1> USE DEF TypeOK, OwnType
<1>1. CASE \/ ConstructorWrite(n) \/ ConstructorRead(n) \/ FailedActive(n)
           \/ FailedCAS(n) \/ FailedRelease(n) \/ Stop(n) \/ DestructorRead(n)
           \/ DestructorWrite(n) \/ Deactivate(n)
  BY <1>1 DEF ConstructorWrite, ConstructorRead, FailedActive, FailedCAS,
     FailedRelease, Stop, DestructorRead, DestructorWrite, Deactivate, own
<1>2. CASE Start(n)
  BY <1>2 DEF Start, ControlType, own
<1>3. CASE BeginSynchronize(n)
  BY <1>3 DEF BeginSynchronize, ControlType, own
<1>4. CASE ReadEvent(n)
  BY <1>4 DEF ReadEvent, ControlType, own
<1>5. CASE ReadEnd(n)
  BY <1>5 DEF ReadEnd, ControlType, own
<1>6. CASE SynchronizeReadCheck(n)
  BY <1>6 DEF SynchronizeReadCheck, ControlType, own
<1>7. CASE DestructorLoop(n)
  BY <1>7 DEF DestructorLoop, ControlType, own
<1>8. CASE UndeliveredEvent(n) \/ ReturnToSender(n)
  <2>1. \E w \in Nodes : writeSignal' = [writeSignal EXCEPT ![n] = @ \cup {w}]
    BY <1>8 DEF UndeliveredEvent, ReturnToSender, TurnDown, Peers, ControlType
  <2> QED BY <1>8, <2>1 DEF UndeliveredEvent, ReturnToSender
<1>9. CASE SynchronizeWriteTest(n)
  BY <1>9 DEF SynchronizeWriteTest, ControlType, own
<1>10. CASE FailedLocked(n)
  BY <1>10 DEF FailedLocked, ControlType, own
<1>11. CASE SynchronizeReadTest(n)
  <2>1. writeSignal' = writeSignal \/ \E w \in todo[n] :
        writeSignal' = [writeSignal EXCEPT ![n] = @ \cup {w}]
     BY <1>11 DEF SynchronizeReadTest, own
  <2>2. writeSignal' \in [Nodes -> SUBSET Nodes]
     BY <2>1 DEF ControlType
  <2> QED BY <1>11, <2>2 DEF SynchronizeReadTest, own
<1>12. CASE SynchronizeWrite(n)
  <2>1. \/ UNCHANGED own
        \/ /\ UNCHANGED <<readNodes, checkWriteFailed, cursor>>
           /\ \E r \in todo[n] :
                \/ Write(n, r)
                \/ WriteFailed(n, r) /\ UNCHANGED <<writeNodes, writeActivity>>
    BY <1>12 DEF SynchronizeWrite
  <2>2. ASSUME NEW r \in todo[n], Write(n, r),
               UNCHANGED <<readNodes, checkWriteFailed, cursor>>
        PROVE OwnType'
    <3>1. \E d \in Nodes :
          writeSignal' = [writeSignal EXCEPT ![n] = @ \cup ({d} \ {n})]
      BY <2>2 DEF Write
    <3>2. \E S \in SUBSET {r} : writeNodes' = [writeNodes EXCEPT ![n] = @ \cup S]
      BY <2>2 DEF Write
    <3>3. \E S \in SUBSET {r} :
          writeActivity' = [writeActivity EXCEPT ![n] = @ \cup S]
      BY <2>2 DEF Write
    <3> QED BY <2>2, <3>1, <3>2, <3>3 DEF ControlType
  <2>3. ASSUME NEW r \in todo[n], WriteFailed(n, r),
               UNCHANGED <<readNodes, checkWriteFailed, cursor, writeNodes,
                           writeActivity>>
        PROVE OwnType'
    BY <2>3 DEF WriteFailed
  <2> QED BY <2>1, <2>2, <2>3 DEF own
<1>13. CASE Unlock(n)
  <2>1. UNCHANGED own \/ \E w \in Nodes :
        readNodes' = [readNodes EXCEPT ![n] = @ \ {w}]
      BY <1>13 DEF Unlock
  <2> QED BY <1>13, <2>1 DEF Unlock, own
<1>14. CASE Lock(n)
  <2>1. UNCHANGED own \/ \E w \in Nodes :
        writeNodes' = [writeNodes EXCEPT ![n] = @ \ {w}]
      BY <1>14 DEF Lock
  <2> QED BY <1>14, <2>1 DEF Lock, own
<1>15. CASE Failed(n)
  BY <1>15 DEF Failed, WriteFailed, ControlType
<1>16. CASE \E d \in Nodes : Push(n, d)
  BY <1>16 DEF Push
<1> QED BY <1>1, <1>2, <1>3, <1>4, <1>5, <1>6, <1>7, <1>8, <1>9, <1>10,
       <1>11, <1>12, <1>13, <1>14, <1>15, <1>16 DEF Step, NodeStep

\* So do the words about the life of a node ...
LEMMA LifeStep ==
  ASSUME TypeOK, NEW n \in Nodes, Step(n)
  PROVE  LifeType'
<1>1. CASE \/ ConstructorWrite(n) \/ ConstructorRead(n)
           \/ BeginSynchronize(n) \/ SynchronizeReadTest(n) \/ ReadEvent(n)
           \/ UndeliveredEvent(n) \/ ReadEnd(n) \/ SynchronizeReadCheck(n)
           \/ SynchronizeWriteTest(n) \/ SynchronizeWrite(n) \/ Unlock(n)
           \/ Lock(n) \/ FailedActive(n) \/ FailedLocked(n) \/ FailedCAS(n)
           \/ Failed(n) \/ FailedRelease(n) \/ DestructorRead(n)
           \/ DestructorLoop(n) \/ DestructorWrite(n) \/ ReturnToSender(n)
  BY <1>1 DEF ConstructorWrite, ConstructorRead, BeginSynchronize,
     SynchronizeReadTest, ReadEvent, UndeliveredEvent, ReadEnd,
     SynchronizeReadCheck, SynchronizeWriteTest, SynchronizeWrite, Unlock, Lock,
     FailedActive, FailedLocked, FailedCAS, Failed, FailedRelease, DestructorRead,
     DestructorLoop, DestructorWrite, ReturnToSender, TypeOK, LifeType, life
<1>2. CASE Start(n)
  BY <1>2 DEF Start, TypeOK, LifeType
<1>3. CASE Stop(n) \/ Deactivate(n)
  BY <1>3 DEF Stop, Deactivate, TypeOK, LifeType
<1>4. CASE \E d \in Nodes : Push(n, d)
  BY <1>4 DEF Push, TypeOK, LifeType, life
<1> QED
  BY <1>1, <1>2, <1>3, <1>4 DEF Step, NodeStep

\* ... and the program counters and loops.
LEMMA ControlStep ==
  ASSUME TypeOK, NEW n \in Nodes, Step(n)
  PROVE  ControlType'
<1>1. CASE Start(n)
  BY <1>1, GotoType, ContinueType, ForeachType DEF Start, TypeOK, Labels
<1>2. CASE ConstructorWrite(n)
  BY <1>2, GotoType, ContinueType, ForeachType DEF ConstructorWrite, TypeOK, Labels
<1>3. CASE ConstructorRead(n)
  BY <1>3, GotoType, ContinueType, ForeachType DEF ConstructorRead, TypeOK, Labels
<1>4. CASE BeginSynchronize(n)
  BY <1>4, GotoType, ContinueType, ForeachType DEF BeginSynchronize, TypeOK, Labels
<1>5. CASE SynchronizeReadTest(n)
  BY <1>5, GotoType, ContinueType, ForeachType DEF SynchronizeReadTest, TypeOK,
     Labels
<1>6. CASE ReadEvent(n)
  BY <1>6, GotoType, ContinueType, ForeachType DEF ReadEvent, TypeOK, ControlType,
     Labels
<1>7. CASE UndeliveredEvent(n) \/ ReturnToSender(n)
  BY <1>7 DEF UndeliveredEvent, ReturnToSender, TypeOK, ControlType
<1>8. CASE ReadEnd(n)
  BY <1>8, GotoType, ContinueType, ForeachType DEF ReadEnd, TypeOK, Labels
<1>9. CASE SynchronizeReadCheck(n)
  BY <1>9, GotoType, ContinueType, ForeachType DEF SynchronizeReadCheck, TypeOK,
     Labels
<1>10. CASE SynchronizeWriteTest(n)
  BY <1>10, GotoType, ContinueType, ForeachType DEF SynchronizeWriteTest, TypeOK,
     Labels
<1>11. CASE SynchronizeWrite(n)
  BY <1>11, GotoType, ContinueType, ForeachType DEF SynchronizeWrite, TypeOK, Labels
<1>12. CASE Unlock(n)
  BY <1>12, GotoType, ContinueType, ForeachType DEF Unlock, TypeOK, ControlType,
     Labels
<1>13. CASE Lock(n)
  BY <1>13, GotoType, ContinueType, ForeachType DEF Lock, TypeOK, ControlType,
     Labels
<1>14. CASE FailedActive(n)
  BY <1>14, GotoType, ContinueType, ForeachType DEF FailedActive, TypeOK, Labels
<1>15. CASE FailedLocked(n)
  BY <1>15, GotoType, ContinueType, ForeachType DEF FailedLocked, TypeOK, Labels
<1>16. CASE FailedCAS(n)
  BY <1>16, GotoType, ContinueType, ForeachType DEF FailedCAS, TypeOK, Labels
<1>17. CASE Failed(n)
  BY <1>17, GotoType, ContinueType, ForeachType DEF Failed, TypeOK, Labels
<1>18. CASE FailedRelease(n)
  BY <1>18, GotoType, ContinueType, ForeachType DEF FailedRelease, TypeOK, Labels
<1>19. CASE Stop(n)
  BY <1>19, GotoType, ContinueType, ForeachType DEF Stop, TypeOK, Labels
<1>20. CASE DestructorRead(n)
  BY <1>20, GotoType, ContinueType, ForeachType DEF DestructorRead, TypeOK, Labels
<1>21. CASE DestructorLoop(n)
  BY <1>21, GotoType, ContinueType, ForeachType DEF DestructorLoop, TypeOK, Labels
<1>22. CASE DestructorWrite(n)
  BY <1>22, GotoType, ContinueType, ForeachType DEF DestructorWrite, TypeOK, Labels
<1>23. CASE Deactivate(n)
  BY <1>23, GotoType, ContinueType, ForeachType DEF Deactivate, TypeOK, Labels
<1>24. CASE \E d \in Nodes : Push(n, d)
  BY <1>24 DEF Push, TypeOK, ControlType
<1> QED
  BY <1>1, <1>2, <1>3, <1>4, <1>5, <1>6, <1>7, <1>8, <1>9, <1>10, <1>11,
     <1>12, <1>13, <1>14, <1>15, <1>16, <1>17, <1>18, <1>19, <1>20, <1>21,
     <1>22, <1>23, <1>24 DEF Step, NodeStep

\* An event pushed by a handler leaves the caches and histories well typed.
LEMMA PushedType ==
  ASSUME TypeOK, NEW n \in Nodes, NEW d \in Nodes,
         NEW f \in [Pairs -> Seq(Fates)], NEW first \in Fates
  PROVE  /\ PushedBorn(n, d) \in [Pairs -> Seq(Nat)]
         /\ PushedFate(n, d, f, first) \in [Pairs -> Seq(Fates)]
         /\ PushedCache(n, d) \in [Pairs -> WriteCache]
<1>1. CASE d = n
  BY <1>1 DEF PushedBorn, PushedFate, PushedCache, TypeOK, SharedType, WriteCache
<1>2. CASE d # n
  <2> DEFINE p == <<n, d>>
  <2>1. p \in Pairs
    BY <1>2, PairOf
  <2>2. Append(born[p], starts[n]) \in Seq(Nat)
    BY <2>1, AppendProperties DEF TypeOK, SharedType, LifeType
  <2>3. Append(f[p], first) \in Seq(Fates)
    BY <2>1, AppendProperties
  <2>4. Len(fate[p]) + 1 \in Nat
    BY <2>1, LenProperties DEF TypeOK, SharedType
  <2>5. Append(writeCache[p].chain, Len(fate[p]) + 1) \in Seq(Nat)
    BY <2>1, <2>4, AppendProperties DEF TypeOK, SharedType, WriteCache
  <2>6. PushedBorn(n, d) \in [Pairs -> Seq(Nat)]
    BY <1>2, <2>2 DEF PushedBorn, TypeOK, SharedType
  <2>7. PushedFate(n, d, f, first) \in [Pairs -> Seq(Fates)]
    BY <1>2, <2>3 DEF PushedFate
  <2>8. PushedCache(n, d) \in [Pairs -> WriteCache]
    BY <1>2, <2>5 DEF PushedCache, TypeOK, SharedType, WriteCache
  <2> QED BY <2>6, <2>7, <2>8
<1> QED BY <1>1, <1>2

\* WriterSharedHandle::write leaves the Shared block well typed ...
LEMMA WriteType ==
  ASSUME TypeOK, NEW n \in Nodes, NEW r \in Peers(n), Write(n, r)
  PROVE  SharedType'
<1> DEFINE p == <<n, r>>
           rw == readWriteLocked[p]
           back == Pending(rw.undelivered)
           drop == IF rw.delivered THEN {} ELSE Pending(rw.chain)
           sent == [fate EXCEPT ![p] = Dispatched(p, back, drop)]
<1>1. PICK d \in Nodes :
          /\ born' = PushedBorn(n, d)
          /\ fate' = PushedFate(n, d, sent, "pending")
          /\ readWriteLocked' = [readWriteLocked EXCEPT ![p] =
               [delivered |-> FALSE, check |-> PushedCache(n, d)[p].check,
                chain |-> PushedCache(n, d)[p].chain, undelivered |-> << >>]]
          /\ writeCache' = [PushedCache(n, d) EXCEPT
               ![p] = [check |-> FALSE, chain |-> << >>]]
  BY DEF Write
<1>2. p \in Pairs
  BY PairOf DEF Peers
<1>3. sent \in [Pairs -> Seq(Fates)]
  BY <1>2, DispatchedType DEF TypeOK, SharedType
<1>4. PushedCache(n, d) \in [Pairs -> WriteCache]
  BY <1>3, PushedType DEF Fates
<1>5. born' \in [Pairs -> Seq(Nat)]
  BY <1>1, <1>3, PushedType DEF Fates
<1>6. fate' \in [Pairs -> Seq(Fates)]
  BY <1>1, <1>3, PushedType DEF Fates
<1>7. writeCache' \in [Pairs -> WriteCache]
  BY <1>1, <1>4, EmptySeq DEF WriteCache
<1>8. readWriteLocked' \in [Pairs -> ReadWriteLocked]
  BY <1>1, <1>2, <1>4, EmptySeq DEF TypeOK, SharedType, WriteCache, ReadWriteLocked
<1> QED BY <1>5, <1>6, <1>7, <1>8 DEF SharedType

\* ... and so does WriterSharedHandle::writeFailed.
LEMMA WriteFailedType ==
  ASSUME TypeOK, NEW n \in Nodes, NEW r \in Peers(n), WriteFailed(n, r)
  PROVE  SharedType'
<1> DEFINE p == <<n, r>>
           rw == readWriteLocked[p]
           back == Pending(IF rw.delivered THEN rw.undelivered ELSE rw.chain)
                     \cup Pending(writeCache[p].chain)
           sent == [fate EXCEPT ![p] = Dispatched(p, back, {})]
<1>1. PICK d \in Nodes :
          /\ born' = PushedBorn(n, d)
          /\ fate' = PushedFate(n, d, sent, IF d = r THEN "returned" ELSE "pending")
          /\ readWriteLocked' = [readWriteLocked EXCEPT ![p] =
               [delivered |-> FALSE, check |-> FALSE, chain |-> << >>,
                undelivered |-> IF rw.delivered THEN << >> ELSE rw.undelivered]]
          /\ writeCache' = [PushedCache(n, d) EXCEPT
               ![p] = [check |-> FALSE, chain |-> << >>]]
  BY DEF WriteFailed
<1>2. p \in Pairs
  BY PairOf DEF Peers
<1>3. sent \in [Pairs -> Seq(Fates)]
  BY <1>2, DispatchedType DEF TypeOK, SharedType
<1>4. PushedCache(n, d) \in [Pairs -> WriteCache]
  BY <1>3, PushedType DEF Fates
<1>5. born' \in [Pairs -> Seq(Nat)]
  BY <1>1, <1>3, PushedType DEF Fates
<1>6. fate' \in [Pairs -> Seq(Fates)]
  BY <1>1, <1>3, PushedType DEF Fates
<1>7. writeCache' \in [Pairs -> WriteCache]
  BY <1>1, <1>4, EmptySeq DEF WriteCache
<1>8. readWriteLocked' \in [Pairs -> ReadWriteLocked]
  BY <1>1, <1>2, EmptySeq DEF TypeOK, SharedType, ReadWriteLocked
<1> QED BY <1>5, <1>6, <1>7, <1>8 DEF SharedType

\* undeliveredEvent moves an event from one chain of a block to another.
LEMMA TurnDownType ==
  ASSUME TypeOK, NEW n \in Nodes, NEW w \in Peers(n),
         NEW i \in DOMAIN readWriteLocked[<<w, n>>].chain, TurnDown(n, w, i)
  PROVE  /\ readWriteLocked' \in [Pairs -> ReadWriteLocked]
         /\ writeCache' \in [Pairs -> WriteCache]
<1> DEFINE p     == <<w, n>>
           rw    == readWriteLocked[p]
           rest  == Erase(rw.chain, i)
           moved == Append(rw.undelivered, rw.chain[i])
<1>1. p \in Pairs /\ rw \in ReadWriteLocked
  BY PairOf DEF TypeOK, SharedType, Peers
<1>2. i \in 1 .. Len(rw.chain)
  BY <1>1, LenProperties DEF ReadWriteLocked
<1>3. rest \in Seq(Nat)
  BY <1>1, <1>2, EraseType DEF ReadWriteLocked
<1>4. moved \in Seq(Nat)
  BY <1>1, <1>2, ElementOfSeq, AppendProperties DEF ReadWriteLocked
<1>5. readWriteLocked' = [readWriteLocked EXCEPT ![p] =
        [rw EXCEPT !.chain = rest, !.undelivered = moved]]
  BY <1>1 DEF TurnDown, TypeOK, SharedType
<1>6. readWriteLocked' \in [Pairs -> ReadWriteLocked]
  BY <1>1, <1>3, <1>4, <1>5 DEF TypeOK, SharedType, ReadWriteLocked
<1>7. writeCache' \in [Pairs -> WriteCache]
  BY DEF TurnDown, TypeOK, SharedType, WriteCache
<1> QED BY <1>6, <1>7

\* The Shared blocks keep their types.
LEMMA SharedStep ==
  ASSUME TypeOK, NEW n \in Nodes, Step(n)
  PROVE  SharedType'
<1>1. CASE \/ Start(n) \/ ConstructorWrite(n) \/ ConstructorRead(n)
           \/ BeginSynchronize(n) \/ ReadEnd(n) \/ SynchronizeReadCheck(n)
           \/ SynchronizeWriteTest(n) \/ Unlock(n) \/ Lock(n)
           \/ FailedActive(n) \/ FailedLocked(n) \/ FailedCAS(n)
           \/ FailedRelease(n) \/ Stop(n) \/ DestructorRead(n)
           \/ DestructorLoop(n) \/ DestructorWrite(n) \/ Deactivate(n)
  BY <1>1 DEF Start, ConstructorWrite, ConstructorRead, BeginSynchronize, ReadEnd,
     SynchronizeReadCheck, SynchronizeWriteTest, Unlock, Lock, FailedActive,
     FailedLocked, FailedCAS, FailedRelease, Stop, DestructorRead, DestructorLoop,
     DestructorWrite, Deactivate, TypeOK, SharedType, shared
<1>2. CASE SynchronizeReadTest(n)
  <2>1. \/ UNCHANGED shared
        \/ /\ UNCHANGED <<writeCache, born, fate>>
           /\ \E w \in todo[n] : readWriteLocked' =
                [readWriteLocked EXCEPT ![<<w, n>>].delivered = TRUE]
    BY <1>2 DEF SynchronizeReadTest
  <2> QED BY <2>1 DEF TypeOK, SharedType, ReadWriteLocked, shared
<1>3. CASE ReadEvent(n)
  <2>1. PICK w \in todo[n] : ReadEvent(n)!1!(w)
    BY <1>3 DEF ReadEvent
  <2> DEFINE p == <<w, n>>
             e == readWriteLocked[p].chain[cursor[n]]
  <2>2. p \in Pairs
    BY PairOf DEF TypeOK, ControlType
  <2>3. fate' = [fate EXCEPT ![p] = [fate[p] EXCEPT ![e] = "delivered"]]
    BY <2>1
  <2>4. [fate[p] EXCEPT ![e] = "delivered"] \in Seq(Fates)
    BY <2>2, SetFateType DEF TypeOK, SharedType, Fates
  <2> QED BY <1>3, <2>3, <2>4 DEF ReadEvent, TypeOK, SharedType
<1>4. CASE UndeliveredEvent(n)
  <2>1. PICK w \in todo[n] : UndeliveredEvent(n)!1!(w)
    BY <1>4 DEF UndeliveredEvent
  <2>2. w \in Peers(n) /\ <<w, n>> \in Pairs
    BY PairOf DEF TypeOK, ControlType, Peers
  <2>3. cursor[n] \in DOMAIN readWriteLocked[<<w, n>>].chain
    BY <2>1, <2>2, LenProperties DEF TypeOK, OwnType, SharedType, ReadWriteLocked
  <2> QED BY <1>4, <2>1, <2>2, <2>3, TurnDownType DEF UndeliveredEvent, TypeOK,
       SharedType
<1>5. CASE SynchronizeWrite(n)
  <2>1. \/ UNCHANGED shared
        \/ \E r \in Peers(n) : Write(n, r) \/ WriteFailed(n, r)
    BY <1>5 DEF SynchronizeWrite, TypeOK, ControlType, Peers
  <2> QED BY <2>1, WriteType, WriteFailedType DEF TypeOK, SharedType, shared
<1>6. CASE Failed(n)
  <2>1. \E r \in Peers(n) : WriteFailed(n, r)
    BY <1>6 DEF Failed, TypeOK, ControlType, Peers
  <2> QED BY <2>1, WriteFailedType
<1>7. CASE \E d \in Nodes : Push(n, d)
  <2>1. PICK d \in Nodes : Push(n, d)
    BY <1>7
  <2>2. d # n
    BY <2>1 DEF Push, Peers
  <2>3. /\ born' = PushedBorn(n, d)
        /\ fate' = PushedFate(n, d, fate, "pending")
        /\ writeCache' = PushedCache(n, d)
        /\ UNCHANGED readWriteLocked
    BY <2>1, <2>2 DEF Push, PushedBorn, PushedFate, PushedCache
  <2> QED BY <2>3, PushedType DEF TypeOK, SharedType, Fates
<1>8. CASE ReturnToSender(n)
  <2>a. PICK w \in Peers(n) : \E i \in DOMAIN readWriteLocked[<<w, n>>].chain :
          /\ TurnDown(n, w, i)
          /\ fate' = [fate EXCEPT ![<<w, n>>][readWriteLocked[<<w, n>>].chain[i]] =
                        "pending"]
    BY <1>8 DEF ReturnToSender
  <2>1. PICK i \in DOMAIN readWriteLocked[<<w, n>>].chain : <2>a!(w)!(i)
    BY <2>a
  <2> DEFINE p == <<w, n>>
             e == readWriteLocked[p].chain[i]
  <2>2. p \in Pairs
    BY PairOf DEF Peers
  <2>3. fate' = [fate EXCEPT ![p] = [fate[p] EXCEPT ![e] = "pending"]]
    BY <2>1
  <2>4. [fate[p] EXCEPT ![e] = "pending"] \in Seq(Fates)
    BY <2>2, SetFateType DEF TypeOK, SharedType, Fates
  <2>5. fate' \in [Pairs -> Seq(Fates)]
    BY <2>3, <2>4 DEF TypeOK, SharedType
  <2> QED BY <1>8, <2>1, <2>5, TurnDownType DEF ReturnToSender, TypeOK, SharedType
<1> QED
  BY <1>1, <1>2, <1>3, <1>4, <1>5, <1>6, <1>7, <1>8 DEF Step, NodeStep

\* Every step keeps every type.
LEMMA TypeStep == TypeOK /\ [Next]_vars => TypeOK'
<1> SUFFICES ASSUME TypeOK, [Next]_vars PROVE TypeOK'
  OBVIOUS
<1>1. CASE Next
  <2>1. PICK n \in Nodes : Step(n)
    BY <1>1 DEF Next
  <2> QED BY <2>1, WordsStep, SharedStep, OwnStep, LifeStep, ControlStep DEF TypeOK
<1>2. CASE UNCHANGED vars
  BY <1>2 DEF vars, TypeOK, WordsType, SharedType, OwnType, LifeType, ControlType
<1> QED BY <1>1, <1>2

\* Type correctness: every reachable state of the exchange is well typed, for
\* every number of nodes and every bound on restarts and events.
THEOREM TypeCorrect == Spec => []TypeOK
BY InitType, TypeStep, PTL DEF Spec

-----------------------------------------------------------------------------
(* Mutual exclusion.                                                       *)

\* A foreach loop is at one peer at a time, one it has still to visit.
LEMMA First ==
  ASSUME ControlType, NEW n \in Nodes
  PROVE  /\ \A x, y : IsFirst(x, todo[n]) /\ IsFirst(y, todo[n]) => x = y
         /\ \A x : IsFirst(x, todo[n]) => x \in todo[n]
BY DEF ControlType, IsFirst, Nodes

\* Where the thread is after each way of moving on.
LEMMA Moves ==
  ASSUME ControlType, NEW n \in Nodes, NEW l
  PROVE  /\ Goto(n, l) => pc'[n] = l /\ todo'[n] = todo[n]
         /\ Foreach(n, l) => pc'[n] = l /\ todo'[n] = Peers(n)
         /\ \A x : Continue(n, x, l) => pc'[n] = l /\ todo'[n] = todo[n] \ {x}
BY DEF ControlType, Goto, Foreach, Continue

\* A step of node n changes no member and no position of another node.
LEMMA OthersStay ==
  ASSUME TypeOK, NEW n \in Nodes, Step(n), NEW m \in Nodes, m # n
  PROVE  /\ pc'[m] = pc[m] /\ todo'[m] = todo[m] /\ leaving'[m] = leaving[m]
         /\ readNodes'[m] = readNodes[m] /\ writeNodes'[m] = writeNodes[m]
<1>1. pc'[m] = pc[m] /\ todo'[m] = todo[m]
  <2> DEFINE Moved == \E l \in Labels, x \in Nodes :
        Goto(n, l) \/ Foreach(n, l) \/ Continue(n, x, l)
  <2>1. Moved \/ UNCHANGED <<pc, todo>>
    <3> USE DEF TypeOK, ControlType, Labels
    <3>1. CASE \/ Start(n) \/ ConstructorWrite(n) \/ ConstructorRead(n)
      BY <3>1 DEF Start, ConstructorWrite, ConstructorRead
    <3>2. CASE \/ BeginSynchronize(n) \/ SynchronizeReadTest(n) \/ ReadEvent(n)
               \/ UndeliveredEvent(n) \/ ReadEnd(n) \/ SynchronizeReadCheck(n)
      BY <3>2 DEF BeginSynchronize, SynchronizeReadTest, ReadEvent,
         UndeliveredEvent, ReadEnd, SynchronizeReadCheck
    <3>3. CASE \/ SynchronizeWriteTest(n) \/ SynchronizeWrite(n)
               \/ Unlock(n) \/ Lock(n)
      BY <3>3 DEF SynchronizeWriteTest, SynchronizeWrite, Unlock, Lock
    <3>4. CASE \/ FailedActive(n) \/ FailedLocked(n) \/ FailedCAS(n) \/ Failed(n)
               \/ FailedRelease(n)
      BY <3>4 DEF FailedActive, FailedLocked, FailedCAS, Failed, FailedRelease
    <3>5. CASE \/ Stop(n) \/ DestructorRead(n) \/ DestructorLoop(n)
               \/ DestructorWrite(n) \/ Deactivate(n)
      BY <3>5 DEF Stop, DestructorRead, DestructorLoop, DestructorWrite, Deactivate
    <3>6. CASE ReturnToSender(n) \/ \E d \in Nodes : Push(n, d)
      BY <3>6 DEF ReturnToSender, Push
    <3> QED BY <3>1, <3>2, <3>3, <3>4, <3>5, <3>6 DEF Step, NodeStep
  <2> QED BY <2>1 DEF TypeOK, ControlType, Goto, Foreach, Continue
<1>2. leaving'[m] = leaving[m]
  <2>1. UNCHANGED leaving \/ \E b : leaving' = [leaving EXCEPT ![n] = b]
    BY DEF Step, NodeStep, Start, ConstructorWrite, ConstructorRead,
       BeginSynchronize, SynchronizeReadTest, ReadEvent, UndeliveredEvent, ReadEnd,
       SynchronizeReadCheck, SynchronizeWriteTest, SynchronizeWrite, Unlock, Lock,
       FailedActive, FailedLocked, FailedCAS, Failed, FailedRelease, Stop,
       DestructorRead, DestructorLoop, DestructorWrite, Deactivate, Push,
       ReturnToSender, life
  <2> QED BY <2>1 DEF TypeOK, LifeType
<1>3. readNodes'[m] = readNodes[m]
  <2>1. UNCHANGED readNodes \/ \E b : readNodes' = [readNodes EXCEPT ![n] = b]
    BY DEF Step, NodeStep, Start, ConstructorWrite, ConstructorRead,
       BeginSynchronize, SynchronizeReadTest, ReadEvent, UndeliveredEvent, ReadEnd,
       SynchronizeReadCheck, SynchronizeWriteTest, SynchronizeWrite, Unlock, Lock,
       FailedActive, FailedLocked, FailedCAS, Failed, FailedRelease, Stop,
       DestructorRead, DestructorLoop, DestructorWrite, Deactivate, Push,
       ReturnToSender, own
  <2> QED BY <2>1 DEF TypeOK, OwnType
<1>4. writeNodes'[m] = writeNodes[m]
  <2>1. UNCHANGED writeNodes \/ \E b : writeNodes' = [writeNodes EXCEPT ![n] = b]
    BY DEF Step, NodeStep, Start, ConstructorWrite, ConstructorRead,
       BeginSynchronize, SynchronizeReadTest, ReadEvent, UndeliveredEvent, ReadEnd,
       SynchronizeReadCheck, SynchronizeWriteTest, SynchronizeWrite, Write, Unlock,
       Lock, FailedActive, FailedLocked, FailedCAS, Failed, FailedRelease, Stop,
       DestructorRead, DestructorLoop, DestructorWrite, Deactivate, Push,
       ReturnToSender, own
  <2> QED BY <2>1 DEF TypeOK, OwnType
<1> QED BY <1>1, <1>2, <1>3, <1>4

\* The position of a thread always agrees with its own members: only a node in
\* its event loop remembers writers to unlock, only one that flushes remembers
\* readers to lock.
LEMMA PhaseStep ==
  ASSUME TypeOK, NEW n \in Nodes, Phase(n), Step(n)
  PROVE  Phase(n)'
<1> USE DEF Phase, ConstructLabels, ReadLabels, FlushLabels
<1>1. CASE Start(n) \/ BeginSynchronize(n) \/ Stop(n) \/ DestructorLoop(n)
  BY <1>1, Moves DEF Start, BeginSynchronize, Stop, DestructorLoop, TypeOK, OwnType,
     LifeType, At, own, life
<1>2. CASE ConstructorWrite(n) \/ ConstructorRead(n)
  <2>1. /\ pc[n] \in {"ctorWrite", "ctorRead", "ctorCAS"}
        /\ UNCHANGED <<leaving, readNodes, writeNodes>>
    BY <1>2 DEF ConstructorWrite, ConstructorRead, Visit, Done, At, own, life
  <2>2. pc'[n] \in {"ctorWrite", "ctorRead", "ctorCAS", "run"}
    BY <1>2, Moves DEF ConstructorWrite, ConstructorRead, TypeOK
  <2> QED BY <2>1, <2>2
<1>3. CASE SynchronizeReadTest(n)
  <2>1. /\ UNCHANGED <<leaving, readNodes, writeNodes>> /\ pc[n] = "read"
        /\ pc'[n] \in {"reading", "readCheck"} /\ todo'[n] = todo[n]
    BY <1>3, Moves DEF SynchronizeReadTest, Visit, At, TypeOK, own, life
  <2> QED BY <2>1
<1>4. CASE ReadEnd(n)
  <2>1. PICK w \in todo[n] : ReadEnd(n)!1!(w)
    BY <1>4 DEF ReadEnd
  <2>2. /\ UNCHANGED <<leaving, writeNodes>>
        /\ pc[n] = "reading" /\ pc'[n] = "readCheck"
        /\ todo'[n] = todo[n] /\ readNodes'[n] = readNodes[n] \cup {w}
    BY <1>4, <2>1, Moves DEF ReadEnd, Visit, At, TypeOK, OwnType, life
  <2> QED BY <2>1, <2>2 DEF Visit
<1>5. CASE \/ ReadEvent(n) \/ UndeliveredEvent(n) \/ ReturnToSender(n)
           \/ \E d \in Nodes : Push(n, d)
  BY <1>5 DEF ReadEvent, UndeliveredEvent, ReturnToSender, Push, life
<1>6. CASE SynchronizeReadCheck(n)
  <2>1. UNCHANGED <<leaving, readNodes>>
    BY <1>6 DEF SynchronizeReadCheck, life
  <2>2. ASSUME NEW w \in todo[n], Visit(n, w, "readCheck"), Continue(n, w, "read"),
               UNCHANGED writeNodes
        PROVE  Phase(n)'
    <3>1. pc[n] = "readCheck" /\ pc'[n] = "read" /\ todo'[n] = todo[n] \ {w}
      BY <2>2, Moves DEF Visit, At, TypeOK
    <3>2. readNodes[n] \cap todo'[n] = {}
      BY <2>2, <3>1, First DEF Visit, TypeOK
    <3> QED BY <2>1, <2>2, <3>1, <3>2
  <2>3. CASE Done(n, "read") /\ Foreach(n, "write")
             /\ writeNodes' = [writeNodes EXCEPT ![n] = {}]
    <3>1. pc[n] = "read" /\ pc'[n] = "write" /\ writeNodes'[n] = {}
      BY <2>3, Moves DEF Done, At, TypeOK, OwnType
    <3> QED BY <2>1, <3>1
  <2> QED BY <1>6, <2>2, <2>3 DEF SynchronizeReadCheck
<1>7. CASE SynchronizeWriteTest(n)
  <2>1. UNCHANGED <<leaving, readNodes, writeNodes>> /\ pc[n] = "write"
    BY <1>7 DEF SynchronizeWriteTest, Visit, At, life
  <2>2. pc'[n] \in {"write", "writing"} /\ todo'[n] \subseteq todo[n]
    BY <1>7, Moves DEF SynchronizeWriteTest, TypeOK
  <2> QED BY <2>1, <2>2
<1>8. CASE SynchronizeWrite(n)
  <2>1. UNCHANGED <<leaving, readNodes>>
    BY <1>8 DEF SynchronizeWrite, own, life
  <2>2. ASSUME NEW r \in todo[n], Visit(n, r, "writing"), Continue(n, r, "write"),
               Write(n, r) \/ UNCHANGED writeNodes
        PROVE  Phase(n)'
    <3>1. pc[n] = "writing" /\ pc'[n] = "write" /\ todo'[n] = todo[n] \ {r}
      BY <2>2, Moves DEF Visit, At, TypeOK
    <3>2. \/ UNCHANGED writeNodes
          \/ \E S \in SUBSET {r} : writeNodes' = [writeNodes EXCEPT ![n] = @ \cup S]
      BY <2>2 DEF Write
    <3>3. writeNodes'[n] \subseteq writeNodes[n] \cup {r}
      BY <3>2 DEF TypeOK, OwnType
    <3> QED BY <2>1, <3>1, <3>3
  <2>3. CASE Done(n, "write")
             /\ Goto(n, IF leaving[n] THEN "lock" ELSE "unlock") /\ UNCHANGED own
    <3>1. pc[n] = "write" /\ pc'[n] = IF leaving[n] THEN "lock" ELSE "unlock"
      BY <2>3, Moves DEF Done, At, TypeOK
    <3> QED BY <2>1, <2>3, <3>1 DEF own
  <2> QED BY <1>8, <2>2, <2>3 DEF SynchronizeWrite
<1>9. CASE Unlock(n)
  <2>1. pc[n] = "unlock" /\ UNCHANGED <<leaving, writeNodes>>
    BY <1>9 DEF Unlock, At, own, life
  <2>2. \/ /\ UNCHANGED pc
           /\ \E w \in readNodes[n] : readNodes' = [readNodes EXCEPT ![n] = @ \ {w}]
        \/ Goto(n, "lock") /\ readNodes[n] = {} /\ UNCHANGED readNodes
    BY <1>9 DEF Unlock, own
  <2>3. \/ pc'[n] = pc[n] /\ readNodes'[n] \subseteq readNodes[n]
        \/ pc'[n] = "lock" /\ readNodes'[n] = {}
    BY <2>2, Moves DEF TypeOK, OwnType
  <2> QED BY <2>1, <2>3
<1>10. CASE Lock(n)
  <2>1. pc[n] = "lock" /\ UNCHANGED <<leaving, readNodes>>
    BY <1>10 DEF Lock, At, own, life
  <2>2. \/ /\ UNCHANGED pc
           /\ \E r \in writeNodes[n] :
              writeNodes' = [writeNodes EXCEPT ![n] = @ \ {r}]
        \/ /\ Foreach(n, "failActive") \/ (Goto(n, "run") /\ ~leaving[n])
           /\ writeNodes[n] = {} /\ UNCHANGED writeNodes
    BY <1>10 DEF Lock, own
  <2>3. \/ pc'[n] = pc[n] /\ writeNodes'[n] \subseteq writeNodes[n]
        \/ /\ writeNodes'[n] = {}
           /\ pc'[n] = "failActive" \/ (pc'[n] = "run" /\ ~leaving[n])
    BY <2>2, Moves DEF TypeOK, OwnType
  <2> QED BY <2>1, <2>3
<1>11. CASE FailedActive(n)
  <2>1. UNCHANGED <<leaving, readNodes, writeNodes>> /\ pc[n] = "failActive"
    BY <1>11 DEF FailedActive, Visit, Done, At, own, life
  <2>2. \/ pc'[n] \in {"failActive", "failLocked"}
        \/ pc'[n] = IF leaving[n] THEN "dtorLoop" ELSE "run"
    BY <1>11, Moves DEF FailedActive, TypeOK
  <2> QED BY <2>1, <2>2
<1>12. CASE FailedLocked(n) \/ FailedCAS(n) \/ Failed(n) \/ FailedRelease(n)
  <2>1. /\ UNCHANGED <<leaving, readNodes, writeNodes>>
        /\ pc[n] \in {"failLocked", "failCAS", "failing", "failRelease"}
    BY <1>12 DEF FailedLocked, FailedCAS, Failed, FailedRelease, Visit, At, own,
       life
  <2>2. pc'[n] \in {"failActive", "failLocked", "failCAS", "failing", "failRelease"}
    BY <1>12, Moves DEF FailedLocked, FailedCAS, Failed, FailedRelease, TypeOK
  <2> QED BY <2>1, <2>2
<1>13. CASE DestructorRead(n) \/ DestructorWrite(n)
  <2> DEFINE Late == {"dtorCAS", "dtorRead", "dtorLoop", "deactivate"}
                       \cup Unlocking
  <2>1. UNCHANGED <<leaving, readNodes, writeNodes>> /\ pc[n] \in Late
    BY <1>13 DEF DestructorRead, DestructorWrite, Unlocking, Visit, Done, At, own,
       life
  <2>2. pc'[n] \in Late
    BY <1>13, Moves DEF DestructorRead, DestructorWrite, Unlocking, TypeOK
  <2> QED BY <2>1, <2>2 DEF Unlocking
<1>14. CASE Deactivate(n)
  BY <1>14, Moves DEF Deactivate, At, TypeOK, LifeType, own
<1> QED
  BY <1>1, <1>2, <1>3, <1>5, <1>6, <1>7, <1>8, <1>9, <1>10, <1>11, <1>12, <1>13,
       <1>14,
     <1>4 DEF Step, NodeStep

\* The words of the pair p that Inv speaks of do not change.
SameWords(p) ==
  /\ readerCAS'[p] = readerCAS[p]
  /\ isReaderActive'[p] = isReaderActive[p]
  /\ isWriteLocked'[p] = isWriteLocked[p]

\* Node r keeps its role as a reader of w.
SameReader(w, r) ==
  /\ IsOn(w, r)' <=> IsOn(w, r)
  /\ IsActive(w, r)' <=> IsActive(w, r)

\* All a step of the reader r can do to the block of <<w, r>>: nothing, declare
\* itself active, take readerCAS, give it back, declare itself inactive, begin to
\* read, go on reading, unlock.
ReaderMove(w, r) ==
  LET p == <<w, r>> IN
  \/ /\ SameWords(p) /\ readWriteLocked'[p] = readWriteLocked[p]
     /\ SameReader(w, r) /\ (ReaderHolds(w, r)' <=> ReaderHolds(w, r))
  \/ /\ isReaderActive'[p] = TRUE /\ readerCAS'[p] = readerCAS[p]
     /\ isWriteLocked'[p] = isWriteLocked[p]
     /\ readWriteLocked'[p] = readWriteLocked[p]
     /\ ~IsOn(w, r) /\ ~IsOn(w, r)' /\ IsActive(w, r)'
     /\ ~ReaderHolds(w, r) /\ ~ReaderHolds(w, r)'
  \/ /\ readerCAS[p] = "IDLE" /\ readerCAS'[p] = "ON"
     /\ isReaderActive'[p] = isReaderActive[p]
     /\ isWriteLocked'[p] = isWriteLocked[p]
     /\ readWriteLocked'[p] = readWriteLocked[p]
     /\ IsOn(w, r)' /\ IsActive(w, r) /\ IsActive(w, r)'
     /\ ~ReaderHolds(w, r) /\ ~ReaderHolds(w, r)'
  \/ /\ readerCAS'[p] = IF readerCAS[p] = "ON" THEN "IDLE" ELSE readerCAS[p]
     /\ isReaderActive'[p] = isReaderActive[p]
     /\ isWriteLocked'[p] = isWriteLocked[p]
     /\ readWriteLocked'[p] = readWriteLocked[p]
     /\ IsOn(w, r) /\ ~IsOn(w, r)' /\ IsActive(w, r) /\ IsActive(w, r)'
     /\ ~ReaderHolds(w, r) /\ ~ReaderHolds(w, r)'
  \/ /\ isReaderActive'[p] = FALSE /\ readerCAS'[p] = readerCAS[p]
     /\ isWriteLocked'[p] = isWriteLocked[p]
     /\ readWriteLocked'[p] = readWriteLocked[p]
     /\ ~IsOn(w, r) /\ ~IsOn(w, r)' /\ ~IsActive(w, r)'
     /\ ~ReaderHolds(w, r) /\ ~ReaderHolds(w, r)'
  \/ /\ isWriteLocked[p] /\ SameWords(p) /\ SameReader(w, r)
     /\ readWriteLocked'[p] = [readWriteLocked[p] EXCEPT !.delivered = TRUE]
     /\ ReaderHolds(w, r)'
  \/ /\ SameWords(p) /\ SameReader(w, r)
     /\ readWriteLocked'[p].delivered = readWriteLocked[p].delivered
     /\ ReaderHolds(w, r) /\ ReaderHolds(w, r)'
  \/ /\ readerCAS'[p] = readerCAS[p] /\ isReaderActive'[p] = isReaderActive[p]
     /\ isWriteLocked'[p] = FALSE /\ readWriteLocked'[p] = readWriteLocked[p]
     /\ SameReader(w, r) /\ ReaderHolds(w, r) /\ ~ReaderHolds(w, r)'

\* undeliveredEvent keeps the flag of its block and all the other blocks.
LEMMA TurnDownPair ==
  ASSUME TypeOK, NEW n \in Nodes, NEW x \in Peers(n), NEW i, TurnDown(n, x, i),
         NEW p \in Pairs
  PROVE  /\ readWriteLocked'[p].delivered = readWriteLocked[p].delivered
         /\ p # <<x, n>> => readWriteLocked'[p] = readWriteLocked[p]
BY DEF TurnDown, TypeOK, SharedType, ReadWriteLocked

\* A node keeps its role as a reader in every step of its event loop and of the
\* flush loop of ~Node.
LEMMA LoopSide ==
  ASSUME NEW w, NEW r,
         leaving'[r] = leaving[r],
         \/ pc[r] \in {"down", "ctorWrite"} /\ pc'[r] \in {"down", "ctorWrite"}
         \/ ~leaving[r] /\ {pc[r], pc'[r]} \subseteq ReadLabels \cup FlushLabels
         \/ /\ leaving[r]
            /\ {pc[r], pc'[r]} \subseteq
                 FlushLabels \cup {"dtorLoop", "deactivate"} \cup Unlocking
  PROVE  SameReader(w, r)
BY DEF SameReader, IsOn, IsActive, InLoop, ReadLabels, FlushLabels, Unlocking,
   Visit, At

\* Most actions of r leave the blocks it reads from alone.
LEMMA ReaderUntouched ==
  ASSUME TypeOK, NEW r \in Nodes, NEW w \in Peers(r),
         \/ Start(r) \/ ConstructorWrite(r) \/ BeginSynchronize(r) \/ ReadEvent(r)
         \/ ReadEnd(r) \/ SynchronizeReadCheck(r) \/ SynchronizeWriteTest(r)
         \/ SynchronizeWrite(r) \/ Lock(r) \/ FailedActive(r) \/ FailedLocked(r)
         \/ FailedCAS(r) \/ Failed(r) \/ FailedRelease(r) \/ Stop(r)
         \/ DestructorLoop(r) \/ DestructorWrite(r) \/ Deactivate(r)
         \/ \E d \in Nodes : Push(r, d)
  PROVE  SameWords(<<w, r>>)
         /\ readWriteLocked'[<<w, r>>] = readWriteLocked[<<w, r>>]
<1> USE DEF SameWords, words, shared
<1>a. w \in Nodes /\ w # r /\ <<w, r>> \in Pairs
  BY PairOf DEF Peers
<1>1. CASE \/ Start(r) \/ ConstructorWrite(r) \/ BeginSynchronize(r) \/ ReadEvent(r)
         \/ ReadEnd(r) \/ SynchronizeReadCheck(r) \/ SynchronizeWriteTest(r)
         \/ FailedActive(r) \/ FailedLocked(r) \/ Stop(r)
         \/ DestructorLoop(r) \/ Deactivate(r)
         \/ \E d \in Nodes : Push(r, d)
  BY <1>1 DEF Start, ConstructorWrite, BeginSynchronize, ReadEvent, ReadEnd,
     SynchronizeReadCheck, SynchronizeWriteTest, FailedActive, FailedLocked, Stop,
     DestructorLoop, Deactivate, Push
<1>2. CASE SynchronizeWrite(r)
  <2>1. UNCHANGED words
    BY <1>2 DEF SynchronizeWrite
  <2>2. UNCHANGED readWriteLocked \/ \E x, v :
        readWriteLocked' = [readWriteLocked EXCEPT ![<<r, x>>] = v]
    BY <1>2 DEF SynchronizeWrite, Write, WriteFailed
  <2> QED BY <1>a, <2>1, <2>2 DEF TypeOK, SharedType
<1>3. CASE Lock(r)
  <2>1. UNCHANGED <<readerCAS, isReaderActive, readWriteLocked>>
    BY <1>3 DEF Lock
  <2>2. UNCHANGED isWriteLocked \/ \E x :
        isWriteLocked' = [isWriteLocked EXCEPT ![<<r, x>>] = TRUE]
    BY <1>3 DEF Lock
  <2> QED BY <1>a, <2>1, <2>2 DEF TypeOK, WordsType
<1>4. CASE FailedCAS(r) \/ FailedRelease(r)
  <2>1. UNCHANGED <<isReaderActive, isWriteLocked, readWriteLocked>>
    BY <1>4 DEF FailedCAS, FailedRelease
  <2>2. UNCHANGED readerCAS \/ \E x, v :
        readerCAS' = [readerCAS EXCEPT ![<<r, x>>] = v]
    BY <1>4 DEF FailedCAS, FailedRelease
  <2> QED BY <1>a, <2>1, <2>2 DEF TypeOK, WordsType
<1>5. CASE Failed(r)
  <2>1. UNCHANGED <<isReaderActive, readerCAS>>
    BY <1>5 DEF Failed
  <2>2. \E x, v : readWriteLocked' = [readWriteLocked EXCEPT ![<<r, x>>] = v]
    BY <1>5 DEF Failed, WriteFailed
  <2>3. \E x : isWriteLocked' = [isWriteLocked EXCEPT ![<<r, x>>] = FALSE]
    BY <1>5 DEF Failed
  <2> QED BY <1>a, <2>1, <2>2, <2>3 DEF TypeOK, WordsType, SharedType
<1>6. CASE DestructorWrite(r)
  <2>1. UNCHANGED <<isReaderActive, readWriteLocked>>
    BY <1>6 DEF DestructorWrite
  <2>2. UNCHANGED readerCAS \/ \E x, v :
        readerCAS' = [readerCAS EXCEPT ![<<r, x>>] = v]
    BY <1>6 DEF DestructorWrite
  <2>3. UNCHANGED isWriteLocked \/ \E x, v :
        isWriteLocked' = [isWriteLocked EXCEPT ![<<r, x>>] = v]
    BY <1>6 DEF DestructorWrite
  <2> QED BY <1>a, <2>1, <2>2, <2>3 DEF TypeOK, WordsType
<1> QED BY <1>1, <1>2, <1>3, <1>4, <1>5, <1>6

\* A step of r is one of the moves of a reader, for each of its writers.
LEMMA ReaderSide ==
  ASSUME TypeOK, NEW r \in Nodes, NEW w \in Peers(r), Phase(r), Phase(r)', Step(r)
  PROVE  ReaderMove(w, r)
<1> DEFINE p == <<w, r>>
<1>a. w \in Nodes /\ w # r /\ p \in Pairs
  BY PairOf DEF Peers
<1>b. ASSUME SameWords(p), readWriteLocked'[p] = readWriteLocked[p],
             SameReader(w, r),
             ReaderHolds(w, r)' <=> ReaderHolds(w, r)
      PROVE  ReaderMove(w, r)
  BY <1>b DEF ReaderMove
<1>c. ASSUME readNodes'[r] = readNodes[r], "reading" \notin {pc[r], pc'[r]}
      PROVE  ReaderHolds(w, r)' <=> ReaderHolds(w, r)
  BY <1>c DEF ReaderHolds, Visit, At
<1> USE DEF ReadLabels, FlushLabels, Unlocking
<1>1. CASE Start(r)
  <2>1. /\ pc[r] = "down" /\ pc'[r] = "ctorWrite" /\ UNCHANGED leaving
        /\ readNodes[r] = {} /\ readNodes'[r] = {}
    BY <1>1, Moves DEF Start, At, Phase, TypeOK, OwnType
  <2> QED BY <1>1, <2>1, <1>b, <1>c, LoopSide, ReaderUntouched
<1>2. CASE ConstructorWrite(r)
  <2>1. /\ pc[r] = "ctorWrite" /\ UNCHANGED <<leaving, readNodes>>
        /\ pc'[r] = "ctorWrite" \/ (pc'[r] = "ctorRead" /\ todo'[r] = Peers(r))
    BY <1>2, Moves DEF ConstructorWrite, Visit, Done, At, TypeOK, own, life
  <2>2. SameReader(w, r)
    BY <2>1 DEF SameReader, IsOn, IsActive, InLoop, Visit, At
  <2> QED BY <1>2, <2>1, <2>2, <1>b, <1>c, ReaderUntouched
<1>3. CASE ConstructorRead(r)
  <2>1. UNCHANGED <<leaving, readNodes>> /\ readNodes[r] = {}
        /\ readWriteLocked' = readWriteLocked
    BY <1>3 DEF ConstructorRead, Visit, Done, At, own, life, shared, Phase
  <2>2. ASSUME NEW x \in todo[r], Visit(r, x, "ctorRead"), Goto(r, "ctorCAS"),
               isReaderActive' = [isReaderActive EXCEPT ![<<x, r>>] = TRUE],
               UNCHANGED <<isWriteLocked, readerCAS>>
        PROVE  ReaderMove(w, r)
    <3>1. pc[r] = "ctorRead" /\ pc'[r] = "ctorCAS" /\ todo'[r] = todo[r]
          /\ x \in todo[r] /\ IsFirst(x, todo[r])
      BY <2>2, Moves DEF Visit, At, TypeOK
    <3>2. ~ReaderHolds(w, r) /\ ~ReaderHolds(w, r)'
      BY <2>1, <3>1 DEF ReaderHolds, Visit, At
    <3>3. CASE w = x
      <4>1. isReaderActive'[p] = TRUE
        BY <1>a, <2>2, <3>3 DEF TypeOK, WordsType
      <4>2. ~IsOn(w, r) /\ ~IsOn(w, r)' /\ IsActive(w, r)'
        BY <3>1, <3>3 DEF IsOn, IsActive, InLoop, Visit, At
      <4> QED BY <2>1, <2>2, <3>2, <4>1, <4>2 DEF ReaderMove
    <3>4. CASE w # x
      <4>1. SameWords(p)
        BY <1>a, <2>2, <3>4 DEF SameWords, TypeOK, WordsType
      <4>2. ~IsFirst(w, todo[r])
        BY <3>1, <3>4, First DEF TypeOK
      <4>3. SameReader(w, r)
        BY <2>1, <3>1, <4>2 DEF SameReader, IsOn, IsActive, InLoop, Visit, At
      <4> QED BY <2>1, <3>2, <4>1, <4>3, <1>b
    <3> QED BY <3>3, <3>4
  <2>3. ASSUME NEW x \in todo[r], Visit(r, x, "ctorCAS"),
               Continue(r, x, "ctorRead"),
               readerCAS[<<x, r>>] = "IDLE",
               readerCAS' = [readerCAS EXCEPT ![<<x, r>>] = "ON"],
               UNCHANGED <<isWriteLocked, isReaderActive>>
        PROVE  ReaderMove(w, r)
    <3>1. pc[r] = "ctorCAS" /\ pc'[r] = "ctorRead"
          /\ todo'[r] = todo[r] \ {x} /\ IsFirst(x, todo[r])
      BY <2>3, Moves DEF Visit, At, TypeOK
    <3>2. ~ReaderHolds(w, r) /\ ~ReaderHolds(w, r)'
      BY <2>1, <3>1 DEF ReaderHolds, Visit, At
    <3>3. CASE w = x
      <4>1. readerCAS'[p] = "ON" /\ readerCAS[p] = "IDLE"
        BY <1>a, <2>3, <3>3 DEF TypeOK, WordsType
      <4>2. IsOn(w, r)' /\ IsActive(w, r) /\ IsActive(w, r)'
        BY <3>1, <3>3 DEF IsOn, IsActive, InLoop, Visit, At
      <4> QED BY <2>1, <2>3, <3>2, <4>1, <4>2 DEF ReaderMove
    <3>4. CASE w # x
      <4>1. SameWords(p)
        BY <1>a, <2>3, <3>4 DEF SameWords, TypeOK, WordsType
      <4>2. ~IsFirst(w, todo[r])
        BY <3>1, <3>4, First DEF TypeOK
      <4>3. SameReader(w, r)
        BY <2>1, <3>1, <3>4, <4>2 DEF SameReader, IsOn, IsActive, InLoop, Visit, At
      <4> QED BY <2>1, <3>2, <4>1, <4>3, <1>b
    <3> QED BY <3>3, <3>4
  <2>4. CASE Done(r, "ctorRead") /\ Goto(r, "run") /\ UNCHANGED words
    <3>1. pc[r] = "ctorRead" /\ pc'[r] = "run" /\ todo[r] = {} 
      BY <2>4, Moves DEF Done, At, TypeOK
    <3>2. SameReader(w, r)
      BY <2>1, <3>1 DEF SameReader, IsOn, IsActive, InLoop, Visit, At, Phase,
         ConstructLabels
    <3> QED BY <2>1, <2>4, <3>1, <3>2, <1>b, <1>c DEF SameWords, words
  <2> QED BY <1>3, <2>2, <2>3, <2>4 DEF ConstructorRead
<1>4. CASE BeginSynchronize(r)
  <2>1. /\ pc[r] = "run" /\ pc'[r] = "read" /\ UNCHANGED leaving
        /\ readNodes[r] = {} /\ readNodes'[r] = {}
    BY <1>4, Moves DEF BeginSynchronize, At, Phase, TypeOK, OwnType, life
  <2>2. ~leaving[r]
    BY <2>1 DEF Phase
  <2> QED BY <1>4, <2>1, <2>2, <1>b, <1>c, LoopSide, ReaderUntouched
<1>5. CASE SynchronizeReadTest(r)
  <2>1. /\ UNCHANGED <<leaving, readNodes, readerCAS, isReaderActive, isWriteLocked>>
        /\ pc[r] = "read"
    BY <1>5 DEF SynchronizeReadTest, Visit, At, own, life, words
  <2>2. ~leaving[r]
    BY <2>1 DEF Phase
  <2>3. ASSUME NEW x \in todo[r], Visit(r, x, "read"), isWriteLocked[<<x, r>>],
               Goto(r, "reading"),
               readWriteLocked' = [readWriteLocked EXCEPT ![<<x, r>>].delivered = TRUE]
        PROVE  ReaderMove(w, r)
    <3>1. pc'[r] = "reading" /\ todo'[r] = todo[r] /\ IsFirst(x, todo[r])
          /\ x \in todo[r]
      BY <2>3, Moves DEF Visit, TypeOK
    <3>2. SameReader(w, r) /\ SameWords(p)
      BY <2>1, <2>2, <3>1, LoopSide DEF SameWords
    <3>3. CASE w = x
      <4>1. readWriteLocked'[p] = [readWriteLocked[p] EXCEPT !.delivered = TRUE]
        BY <1>a, <2>3, <3>3 DEF TypeOK, SharedType
      <4>2. ReaderHolds(w, r)'
        BY <3>1, <3>3 DEF ReaderHolds, Visit, At
      <4> QED BY <2>3, <3>2, <3>3, <4>1, <4>2 DEF ReaderMove
    <3>4. CASE w # x
      <4>1. readWriteLocked'[p] = readWriteLocked[p]
        BY <1>a, <2>3, <3>4 DEF TypeOK, SharedType
      <4>2. ~IsFirst(w, todo[r])
        BY <3>1, <3>4, First DEF TypeOK
      <4>3. ReaderHolds(w, r)' <=> ReaderHolds(w, r)
        BY <2>1, <3>1, <4>2 DEF ReaderHolds, Visit, At
      <4> QED BY <3>2, <4>1, <4>3, <1>b
    <3> QED BY <3>3, <3>4
  <2>4. CASE Goto(r, "readCheck") /\ UNCHANGED shared
    <3>1. pc'[r] = "readCheck"
      BY <2>4, Moves DEF TypeOK
    <3> QED BY <2>1, <2>2, <2>4, <3>1, <1>b, <1>c, LoopSide DEF SameWords, shared
  <2> QED BY <1>5, <2>3, <2>4 DEF SynchronizeReadTest
<1>6. CASE ReadEvent(r) \/ \E d \in Nodes : Push(r, d)
  <2>1. UNCHANGED <<pc, todo, leaving, readNodes>>
    BY <1>6 DEF ReadEvent, Push, life
  <2>2. SameReader(w, r) /\ (ReaderHolds(w, r)' <=> ReaderHolds(w, r))
    BY <2>1 DEF SameReader, IsOn, IsActive, InLoop, ReaderHolds, Visit, At
  <2> QED BY <1>6, <2>2, <1>b, ReaderUntouched
<1>7. CASE UndeliveredEvent(r) \/ ReturnToSender(r)
  <2>1. UNCHANGED <<pc, todo, leaving, readNodes, readerCAS, isReaderActive,
                    isWriteLocked>>
    BY <1>7 DEF UndeliveredEvent, ReturnToSender, life, words
  <2>2. SameWords(p) /\ SameReader(w, r)
        /\ (ReaderHolds(w, r)' <=> ReaderHolds(w, r))
    BY <2>1 DEF SameWords, SameReader, IsOn, IsActive, InLoop, ReaderHolds, Visit,
       At
  <2>3. PICK x \in Peers(r) : ReaderHolds(x, r) /\ \E i : TurnDown(r, x, i)
    BY <1>7 DEF UndeliveredEvent, ReturnToSender, ReaderHolds, TypeOK, ControlType,
       Peers
  <2>4. CASE w = x
    BY <1>a, <2>2, <2>3, <2>4, TurnDownPair DEF ReaderMove
  <2>5. CASE w # x
    <3>1. readWriteLocked'[p] = readWriteLocked[p]
      BY <1>a, <2>3, <2>5, TurnDownPair
    <3> QED BY <2>2, <3>1, <1>b
  <2> QED BY <2>4, <2>5
<1>8. CASE ReadEnd(r)
  <2>1. PICK x \in todo[r] : ReadEnd(r)!1!(x)
    BY <1>8 DEF ReadEnd
  <2>2. /\ UNCHANGED leaving /\ pc[r] = "reading" /\ pc'[r] = "readCheck"
        /\ IsFirst(x, todo[r]) /\ readNodes'[r] = readNodes[r] \cup {x}
    BY <1>8, <2>1, Moves DEF ReadEnd, Visit, At, TypeOK, OwnType, life
  <2>3. ReaderHolds(w, r)' <=> ReaderHolds(w, r)
    BY <2>2, First DEF ReaderHolds, Visit, At, TypeOK
  <2>4. ~leaving[r]
    BY <2>2 DEF Phase
  <2> QED BY <1>8, <2>2, <2>3, <2>4, <1>b, LoopSide, ReaderUntouched
<1>9. CASE SynchronizeReadCheck(r)
  <2>1. /\ UNCHANGED <<leaving, readNodes>> /\ pc[r] \in {"read", "readCheck"}
        /\ pc'[r] \in {"read", "write"}
    BY <1>9, Moves DEF SynchronizeReadCheck, Visit, Done, At, TypeOK, life
  <2>2. ~leaving[r]
    BY <2>1 DEF Phase
  <2> QED BY <1>9, <2>1, <2>2, <1>b, <1>c, LoopSide, ReaderUntouched
<1>10. CASE SynchronizeWriteTest(r) \/ SynchronizeWrite(r)
  <2>1. /\ UNCHANGED <<leaving, readNodes>> /\ pc[r] \in {"write", "writing"}
        /\ pc'[r] \in {"write", "writing"}
           \/ pc'[r] = (IF leaving[r] THEN "lock" ELSE "unlock")
    BY <1>10, Moves DEF SynchronizeWriteTest, SynchronizeWrite, Visit, Done, At,
       TypeOK, own, life
  <2> QED BY <1>10, <2>1, <1>b, <1>c, LoopSide, ReaderUntouched
<1>11. CASE Unlock(r)
  <2>1. pc[r] = "unlock"
        /\ UNCHANGED <<leaving, readerCAS, isReaderActive, readWriteLocked>>
    BY <1>11 DEF Unlock, At, life, words, shared
  <2>2. ~leaving[r]
    BY <2>1 DEF Phase
  <2>3. ASSUME NEW x \in readNodes[r], UNCHANGED <<pc, todo>>,
               isWriteLocked' = [isWriteLocked EXCEPT ![<<x, r>>] = FALSE],
               readNodes' = [readNodes EXCEPT ![r] = @ \ {x}]
        PROVE  ReaderMove(w, r)
    <3>1. SameReader(w, r)
      BY <2>1, <2>2, <2>3, LoopSide
    <3>2. readNodes'[r] = readNodes[r] \ {x}
      BY <2>3 DEF TypeOK, OwnType
    <3>3. CASE w = x
      <4>1. isWriteLocked'[p] = FALSE
        BY <1>a, <2>3, <3>3 DEF TypeOK, WordsType
      <4>2. ReaderHolds(w, r) /\ ~ReaderHolds(w, r)'
        BY <2>1, <2>3, <3>2, <3>3 DEF ReaderHolds, Visit, At
      <4> QED BY <2>1, <3>1, <4>1, <4>2 DEF ReaderMove
    <3>4. CASE w # x
      <4>1. SameWords(p)
        BY <1>a, <2>1, <2>3, <3>4 DEF SameWords, TypeOK, WordsType
      <4>2. ReaderHolds(w, r)' <=> ReaderHolds(w, r)
        BY <2>3, <3>2, <3>4 DEF ReaderHolds, Visit, At
      <4> QED BY <2>1, <3>1, <4>1, <4>2, <1>b
    <3> QED BY <3>3, <3>4
  <2>4. CASE Goto(r, "lock") /\ UNCHANGED words /\ UNCHANGED own
    <3>1. pc'[r] = "lock"
      BY <2>4, Moves DEF TypeOK
    <3> QED BY <2>1, <2>2, <2>4, <3>1, <1>b, <1>c, LoopSide DEF SameWords, words,
         own
  <2> QED BY <1>11, <2>3, <2>4 DEF Unlock
<1>12. CASE Lock(r)
  <2>1. pc[r] = "lock" /\ UNCHANGED <<leaving, readNodes>>
    BY <1>12 DEF Lock, At, own, life
  <2>2. UNCHANGED pc \/ Foreach(r, "failActive") \/ (Goto(r, "run") /\ ~leaving[r])
    BY <1>12 DEF Lock
  <2>3. pc'[r] \in {"lock", "failActive"} \/ (pc'[r] = "run" /\ ~leaving[r])
    BY <2>1, <2>2, Moves DEF TypeOK
  <2> QED BY <1>12, <2>1, <2>3, <1>b, <1>c, LoopSide, ReaderUntouched
<1>13. CASE \/ FailedActive(r) \/ FailedLocked(r) \/ FailedCAS(r) \/ Failed(r)
            \/ FailedRelease(r)
  <2> DEFINE Failing == {"failActive", "failLocked", "failCAS", "failing",
                         "failRelease"}
  <2>1. UNCHANGED <<leaving, readNodes>> /\ pc[r] \in Failing
    BY <1>13 DEF FailedActive, FailedLocked, FailedCAS, Failed, FailedRelease,
       Visit, Done, At, own, life
  <2>2. pc'[r] \in Failing \/ pc'[r] = (IF leaving[r] THEN "dtorLoop" ELSE "run")
    BY <1>13, Moves DEF FailedActive, FailedLocked, FailedCAS, Failed,
       FailedRelease, TypeOK
  <2> QED BY <1>13, <2>1, <2>2, <1>b, <1>c, LoopSide, ReaderUntouched
<1>14. CASE Stop(r)
  <2>1. /\ pc[r] = "run" /\ pc'[r] = "dtorCAS" /\ todo'[r] = Peers(r)
           /\ UNCHANGED readNodes
    BY <1>14, Moves DEF Stop, At, TypeOK, own
  <2>2. ~leaving[r]
    BY <2>1 DEF Phase
  <2>3. SameReader(w, r)
    BY <2>1, <2>2 DEF SameReader, IsOn, IsActive, InLoop
  <2> QED BY <1>14, <2>1, <2>3, <1>b, <1>c, ReaderUntouched
<1>15. CASE DestructorRead(r)
  <2>1. UNCHANGED <<leaving, readNodes>> /\ readNodes[r] = {}
        /\ readWriteLocked' = readWriteLocked
    BY <1>15 DEF DestructorRead, Visit, Done, At, own, life, shared, Phase
  <2>2. ASSUME NEW x \in todo[r], Visit(r, x, "dtorCAS"), Goto(r, "dtorRead"),
               readerCAS' = [readerCAS EXCEPT
                 ![<<x, r>>] = IF @ = "ON" THEN "IDLE" ELSE @],
               UNCHANGED <<isWriteLocked, isReaderActive>>
        PROVE  ReaderMove(w, r)
    <3>1. pc[r] = "dtorCAS" /\ pc'[r] = "dtorRead" /\ todo'[r] = todo[r]
          /\ IsFirst(x, todo[r])
      BY <2>2, Moves DEF Visit, At, TypeOK
    <3>2. ~ReaderHolds(w, r) /\ ~ReaderHolds(w, r)' /\ leaving[r]
      BY <2>1, <3>1 DEF ReaderHolds, Visit, At, Phase, ConstructLabels
    <3>3. CASE w = x
      <4>1. readerCAS'[p] = IF readerCAS[p] = "ON" THEN "IDLE" ELSE readerCAS[p]
        BY <1>a, <2>2, <3>3 DEF TypeOK, WordsType
      <4>2. IsOn(w, r) /\ ~IsOn(w, r)' /\ IsActive(w, r) /\ IsActive(w, r)'
        BY <2>1, <2>2, <3>1, <3>2, <3>3 DEF IsOn, IsActive, InLoop, Visit, At
      <4> QED BY <2>1, <2>2, <3>2, <4>1, <4>2 DEF ReaderMove
    <3>4. CASE w # x
      <4>1. SameWords(p)
        BY <1>a, <2>2, <3>4 DEF SameWords, TypeOK, WordsType
      <4>2. ~IsFirst(w, todo[r])
        BY <3>1, <3>4, First DEF TypeOK
      <4>3. SameReader(w, r)
        BY <2>1, <3>1, <3>2, <4>2 DEF SameReader, IsOn, IsActive, InLoop, Visit, At
      <4> QED BY <2>1, <3>2, <4>1, <4>3, <1>b
    <3> QED BY <3>3, <3>4
  <2>3. ASSUME NEW x \in todo[r], Visit(r, x, "dtorRead"),
               Continue(r, x, "dtorCAS"),
               isReaderActive' = [isReaderActive EXCEPT ![<<x, r>>] = FALSE],
               UNCHANGED <<isWriteLocked, readerCAS>>
        PROVE  ReaderMove(w, r)
    <3>1. pc[r] = "dtorRead" /\ pc'[r] = "dtorCAS"
          /\ todo'[r] = todo[r] \ {x} /\ IsFirst(x, todo[r])
      BY <2>3, Moves DEF Visit, At, TypeOK
    <3>2. ~ReaderHolds(w, r) /\ ~ReaderHolds(w, r)'
      BY <2>1, <3>1 DEF ReaderHolds, Visit, At
    <3>3. CASE w = x
      <4>1. isReaderActive'[p] = FALSE
        BY <1>a, <2>3, <3>3 DEF TypeOK, WordsType
      <4>2. ~IsOn(w, r) /\ ~IsOn(w, r)' /\ ~IsActive(w, r)'
        BY <3>1, <3>3 DEF IsOn, IsActive, InLoop, Visit, At
      <4> QED BY <2>1, <2>3, <3>2, <4>1, <4>2 DEF ReaderMove
    <3>4. CASE w # x
      <4>1. SameWords(p)
        BY <1>a, <2>3, <3>4 DEF SameWords, TypeOK, WordsType
      <4>2. ~IsFirst(w, todo[r])
        BY <3>1, <3>4, First DEF TypeOK
      <4>3. SameReader(w, r)
        BY <2>1, <3>1, <3>4, <4>2 DEF SameReader, IsOn, IsActive, InLoop, Visit, At
      <4> QED BY <2>1, <3>2, <4>1, <4>3, <1>b
    <3> QED BY <3>3, <3>4
  <2>4. CASE Done(r, "dtorCAS") /\ Goto(r, "dtorLoop") /\ UNCHANGED words
    <3>1. pc[r] = "dtorCAS" /\ pc'[r] = "dtorLoop" /\ todo[r] = {}
          /\ UNCHANGED leaving
      BY <2>1, <2>4, Moves DEF Done, At, TypeOK
    <3>2. SameReader(w, r)
      BY <3>1 DEF SameReader, IsOn, IsActive, InLoop, Visit, At
    <3> QED BY <2>1, <2>4, <3>1, <3>2, <1>b, <1>c DEF SameWords, words
  <2> QED BY <1>15, <2>2, <2>3, <2>4 DEF DestructorRead
<1>16. CASE DestructorLoop(r)
  <2>1. /\ pc[r] = "dtorLoop" /\ pc'[r] \in {"write", "dtorWrite"}
           /\ UNCHANGED <<leaving, readNodes>>
    BY <1>16, Moves DEF DestructorLoop, At, TypeOK, life
  <2>2. leaving[r]
    BY <2>1 DEF Phase, ConstructLabels
  <2> QED BY <1>16, <2>1, <2>2, <1>b, <1>c, LoopSide, ReaderUntouched
<1>17. CASE DestructorWrite(r)
  <2>1. UNCHANGED <<leaving, readNodes>> /\ pc[r] \in Unlocking
    BY <1>17 DEF DestructorWrite, Visit, Done, At, own, life
  <2>2. pc'[r] \in Unlocking \cup {"deactivate"}
    BY <1>17, Moves DEF DestructorWrite, TypeOK
  <2>3. leaving[r]
    BY <2>1 DEF Phase, ConstructLabels
  <2> QED BY <1>17, <2>1, <2>2, <2>3, <1>b, <1>c, LoopSide, ReaderUntouched
<1>18. CASE Deactivate(r)
  <2>1. pc[r] = "deactivate" /\ pc'[r] = "down" /\ UNCHANGED readNodes
    BY <1>18, Moves DEF Deactivate, At, TypeOK, own
  <2>2. SameReader(w, r)
    BY <2>1 DEF SameReader, IsOn, IsActive, InLoop, Visit, At
  <2> QED BY <1>18, <2>1, <2>2, <1>b, <1>c, ReaderUntouched
<1> QED
  BY <1>1, <1>2, <1>3, <1>4, <1>5, <1>6, <1>7, <1>8, <1>9, <1>10, <1>11, <1>12,
     <1>13, <1>14, <1>15, <1>16, <1>17, <1>18 DEF Step, NodeStep

\* Node w keeps its hold on readerCAS of r, if it has one.
SameOff(w, r) == IsOff(w, r)' <=> IsOff(w, r)

\* Node w begins neither to use the block nor to do without the lock.
NoNewClaim(w, r) ==
  /\ Writing(w, r)' => Writing(w, r)
  /\ GaveUp(w, r)' => GaveUp(w, r)
  /\ r \in writeNodes'[w] => r \in writeNodes[w]

\* write() or writeFailed() leaves the locked part fresh for the reader.
Reset(p) ==
  /\ ~readWriteLocked'[p].delivered
  /\ \/ readWriteLocked'[p].undelivered = << >>
     \/ /\ ~readWriteLocked[p].delivered
        /\ readWriteLocked'[p].undelivered = readWriteLocked[p].undelivered

\* All a step of the writer w can do to the block of <<w, r>>: nothing, see that it
\* is not locked, write, lock, take readerCAS from a reader that is gone, unlock in
\* its place, give readerCAS back.
WriterMove(w, r) ==
  LET p == <<w, r>> IN
  \/ /\ SameWords(p) /\ readWriteLocked'[p] = readWriteLocked[p]
     /\ SameOff(w, r) /\ NoNewClaim(w, r)
  \/ /\ ~isWriteLocked[p] /\ SameWords(p)
     /\ readWriteLocked'[p] = readWriteLocked[p]
     /\ SameOff(w, r) /\ (r \in writeNodes'[w] => r \in writeNodes[w])
  \/ /\ Writing(w, r) /\ SameWords(p) /\ Reset(p) /\ SameOff(w, r)
  \/ /\ r \in writeNodes[w] /\ isWriteLocked'[p] = TRUE
     /\ readerCAS'[p] = readerCAS[p] /\ isReaderActive'[p] = isReaderActive[p]
     /\ readWriteLocked'[p] = readWriteLocked[p]
     /\ SameOff(w, r) /\ ~Writing(w, r)' /\ ~GaveUp(w, r)'
  \/ /\ readerCAS[p] = "IDLE" /\ readerCAS'[p] = "OFF"
     /\ isReaderActive'[p] = isReaderActive[p]
     /\ isWriteLocked'[p] = isWriteLocked[p]
     /\ readWriteLocked'[p] = readWriteLocked[p]
     /\ IsOff(w, r)' /\ NoNewClaim(w, r)
  \/ /\ isWriteLocked'[p] = FALSE
     /\ readerCAS'[p] = readerCAS[p] /\ isReaderActive'[p] = isReaderActive[p]
     /\ readWriteLocked'[p] = readWriteLocked[p] \/ Reset(p)
     /\ IsOff(w, r) /\ IsOff(w, r)' /\ NoNewClaim(w, r)
  \/ /\ readerCAS'[p] = "IDLE"
     /\ isReaderActive'[p] = isReaderActive[p]
     /\ isWriteLocked'[p] = isWriteLocked[p]
     /\ readWriteLocked'[p] = readWriteLocked[p]
     /\ IsOff(w, r) /\ ~IsOff(w, r)' /\ NoNewClaim(w, r)

\* Most actions of w leave the blocks it writes to alone.
LEMMA WriterUntouched ==
  ASSUME TypeOK, NEW w \in Nodes, NEW r \in Peers(w),
         \/ Start(w) \/ ConstructorWrite(w) \/ ConstructorRead(w)
         \/ BeginSynchronize(w) \/ SynchronizeReadTest(w) \/ ReadEvent(w)
         \/ UndeliveredEvent(w) \/ ReturnToSender(w) \/ ReadEnd(w)
         \/ SynchronizeReadCheck(w) \/ SynchronizeWriteTest(w) \/ Unlock(w)
         \/ FailedActive(w) \/ FailedLocked(w) \/ Stop(w)
         \/ DestructorRead(w) \/ DestructorLoop(w) \/ Deactivate(w)
         \/ \E d \in Nodes : Push(w, d)
  PROVE  SameWords(<<w, r>>)
         /\ readWriteLocked'[<<w, r>>] = readWriteLocked[<<w, r>>]
<1> USE DEF SameWords, words, shared
<1>a. r \in Nodes /\ w # r /\ <<w, r>> \in Pairs
  BY PairOf DEF Peers
<1>1. CASE \/ Start(w) \/ ConstructorWrite(w) \/ BeginSynchronize(w) \/ ReadEvent(w)
         \/ ReadEnd(w) \/ SynchronizeReadCheck(w) \/ SynchronizeWriteTest(w)
         \/ FailedActive(w) \/ FailedLocked(w) \/ Stop(w)
         \/ DestructorLoop(w) \/ Deactivate(w)
         \/ \E d \in Nodes : Push(w, d)
  BY <1>1 DEF Start, ConstructorWrite, BeginSynchronize, ReadEvent, ReadEnd,
     SynchronizeReadCheck, SynchronizeWriteTest, FailedActive, FailedLocked, Stop,
     DestructorLoop, Deactivate, Push
<1>2. CASE ConstructorRead(w) \/ DestructorRead(w)
  <2>1. UNCHANGED <<isWriteLocked, readWriteLocked>>
    BY <1>2 DEF ConstructorRead, DestructorRead
  <2>2. UNCHANGED readerCAS \/ \E x, v :
        readerCAS' = [readerCAS EXCEPT ![<<x, w>>] = v]
    BY <1>2 DEF ConstructorRead, DestructorRead
  <2>3. UNCHANGED isReaderActive \/ \E x, v :
        isReaderActive' = [isReaderActive EXCEPT ![<<x, w>>] = v]
    BY <1>2 DEF ConstructorRead, DestructorRead
  <2> QED BY <1>a, <2>1, <2>2, <2>3 DEF TypeOK, WordsType
<1>3. CASE SynchronizeReadTest(w)
  <2>1. \/ UNCHANGED readWriteLocked
        \/ \E x \in todo[w] :
           readWriteLocked' = [readWriteLocked EXCEPT ![<<x, w>>].delivered = TRUE]
    BY <1>3 DEF SynchronizeReadTest
  <2>2. UNCHANGED words
    BY <1>3 DEF SynchronizeReadTest
  <2> QED BY <1>a, <2>1, <2>2 DEF TypeOK, SharedType
<1>4. CASE UndeliveredEvent(w) \/ ReturnToSender(w)
  <2>1. PICK x \in Peers(w) : \E i : TurnDown(w, x, i)
    BY <1>4 DEF UndeliveredEvent, ReturnToSender, TypeOK, ControlType, Peers
  <2>2. UNCHANGED words
    BY <1>4 DEF UndeliveredEvent, ReturnToSender
  <2> QED BY <1>a, <2>1, <2>2, TurnDownPair
<1>5. CASE Unlock(w)
  <2>1. UNCHANGED <<readerCAS, isReaderActive, readWriteLocked>>
    BY <1>5 DEF Unlock
  <2>2. UNCHANGED isWriteLocked \/ \E x, v :
        isWriteLocked' = [isWriteLocked EXCEPT ![<<x, w>>] = v]
    BY <1>5 DEF Unlock
  <2> QED BY <1>a, <2>1, <2>2 DEF TypeOK, WordsType
<1> QED BY <1>1, <1>2, <1>3, <1>4, <1>5

\* write and writeFailed leave a locked part nobody has read.
LEMMA WriteResets ==
  ASSUME TypeOK, NEW w \in Nodes, NEW r \in Peers(w), Write(w, r)
         \/ WriteFailed(w, r)
  PROVE  Reset(<<w, r>>)
<1>a. <<w, r>> \in Pairs
  BY PairOf DEF Peers
<1>1. CASE Write(w, r)
  <2>1. \E c, x : readWriteLocked' = [readWriteLocked EXCEPT ![<<w, r>>] =
          [delivered |-> FALSE, check |-> x, chain |-> c, undelivered |-> << >>]]
    BY <1>1 DEF Write
  <2> QED BY <1>a, <2>1 DEF Reset, TypeOK, SharedType
<1>2. CASE WriteFailed(w, r)
  <2> DEFINE rw == readWriteLocked[<<w, r>>]
  <2>1. readWriteLocked' = [readWriteLocked EXCEPT ![<<w, r>>] =
          [delivered |-> FALSE, check |-> FALSE, chain |-> << >>,
           undelivered |-> IF rw.delivered THEN << >> ELSE rw.undelivered]]
    BY <1>2 DEF WriteFailed
  <2> QED BY <1>a, <2>1 DEF Reset, TypeOK, SharedType
<1> QED BY <1>1, <1>2

\* A step of w is one of the moves of a writer, for each of its readers.
LEMMA WriterSide ==
  ASSUME TypeOK, NEW w \in Nodes, NEW r \in Peers(w), Step(w)
  PROVE  WriterMove(w, r)
<1> DEFINE p == <<w, r>>
           OffLabels == {"failing", "failRelease", "dtorUnlock", "dtorRelease"}
<1>a. r \in Nodes /\ w # r /\ p \in Pairs
  BY PairOf DEF Peers
<1>b. ASSUME SameWords(p), readWriteLocked'[p] = readWriteLocked[p],
             SameOff(w, r), NoNewClaim(w, r)
      PROVE  WriterMove(w, r)
  BY <1>b DEF WriterMove
<1>c. ASSUME pc[w] \notin OffLabels, pc'[w] \notin OffLabels
      PROVE  SameOff(w, r)
  BY <1>c DEF SameOff, IsOff, Visit, At
<1>d. ASSUME pc'[w] \notin Unlocking \cup {"writing", "deactivate", "down",
                                              "ctorWrite"},
             writeNodes'[w] \subseteq writeNodes[w]
      PROVE  NoNewClaim(w, r)
  BY <1>d DEF NoNewClaim, Writing, GaveUp, Visit, At
<1> USE DEF Unlocking
<1>1. CASE Start(w)
  <2>1. pc[w] = "down" /\ pc'[w] = "ctorWrite" /\ writeNodes'[w] = {}
    BY <1>1, Moves DEF Start, At, TypeOK, OwnType
  <2>2. NoNewClaim(w, r)
    BY <2>1 DEF NoNewClaim, Writing, GaveUp, Visit, At
  <2> QED BY <1>1, <2>1, <2>2, <1>b, <1>c, WriterUntouched
<1>2. CASE ConstructorWrite(w) \/ ConstructorRead(w)
  <2>1. pc[w] \in {"ctorWrite", "ctorRead", "ctorCAS"} /\ UNCHANGED writeNodes
    BY <1>2 DEF ConstructorWrite, ConstructorRead, Visit, Done, At, own
  <2>2. \/ pc[w] = "ctorWrite" /\ pc'[w] = "ctorWrite"
        \/ pc'[w] \in {"ctorRead", "ctorCAS", "run"}
    BY <1>2, Moves DEF ConstructorWrite, ConstructorRead, Visit, At, TypeOK
  <2>3. NoNewClaim(w, r)
    BY <2>1, <2>2 DEF NoNewClaim, Writing, GaveUp, Visit, At
  <2> QED BY <1>2, <2>1, <2>2, <2>3, <1>b, <1>c, WriterUntouched
<1>3. CASE \/ BeginSynchronize(w) \/ SynchronizeReadTest(w) \/ ReadEnd(w)
           \/ SynchronizeReadCheck(w)
  <2>1. pc[w] \in {"run", "read", "reading", "readCheck"}
        /\ writeNodes'[w] \subseteq writeNodes[w]
    BY <1>3 DEF BeginSynchronize, SynchronizeReadTest, ReadEnd,
       SynchronizeReadCheck, Visit, Done, At, own, TypeOK, OwnType
  <2>2. pc'[w] \in {"read", "reading", "readCheck", "write"}
    BY <1>3, Moves DEF BeginSynchronize, SynchronizeReadTest, ReadEnd,
       SynchronizeReadCheck, TypeOK
  <2> QED BY <1>3, <2>1, <2>2, <1>b, <1>c, <1>d, WriterUntouched
<1>4. CASE \/ ReadEvent(w) \/ UndeliveredEvent(w) \/ ReturnToSender(w)
           \/ \E d \in Nodes : Push(w, d)
  <2>1. UNCHANGED <<pc, todo, writeNodes>>
    BY <1>4 DEF ReadEvent, UndeliveredEvent, ReturnToSender, Push
  <2>2. SameOff(w, r) /\ NoNewClaim(w, r)
    BY <2>1 DEF SameOff, IsOff, NoNewClaim, Writing, GaveUp, Visit, At
  <2> QED BY <1>4, <2>2, <1>b, WriterUntouched
<1>5. CASE SynchronizeWriteTest(w)
  <2>1. PICK x \in todo[w] :
          /\ IsFirst(x, todo[w]) /\ pc[w] = "write" /\ UNCHANGED writeNodes
          /\ \/ ~isWriteLocked[<<w, x>>] /\ Goto(w, "writing")
             \/ Continue(w, x, "write")
    BY <1>5 DEF SynchronizeWriteTest, Visit, At
  <2>2. CASE ~isWriteLocked[<<w, x>>] /\ Goto(w, "writing")
    <3>1. pc'[w] = "writing" /\ todo'[w] = todo[w]
      BY <2>2, Moves DEF TypeOK
    <3>2. SameOff(w, r)
      BY <2>1, <3>1, <1>c
    <3>3. CASE r = x
      BY <1>5, <2>1, <2>2, <3>2, <3>3, WriterUntouched DEF WriterMove
    <3>4. CASE r # x
      <4>1. ~IsFirst(r, todo[w])
        BY <2>1, <3>4, First DEF TypeOK
      <4>2. NoNewClaim(w, r)
        BY <2>1, <3>1, <4>1 DEF NoNewClaim, Writing, GaveUp, Visit, At
      <4> QED BY <1>5, <3>2, <4>2, <1>b, WriterUntouched
    <3> QED BY <3>3, <3>4
  <2>3. CASE Continue(w, x, "write")
    <3>1. pc'[w] = "write"
      BY <2>3, Moves DEF TypeOK
    <3> QED BY <1>5, <2>1, <3>1, <1>b, <1>c, <1>d, WriterUntouched
  <2> QED BY <2>1, <2>2, <2>3
<1>6. CASE SynchronizeWrite(w)
  <2>1. ASSUME NEW x \in todo[w], Visit(w, x, "writing"),
               Continue(w, x, "write"), UNCHANGED words,
               Write(w, x) \/ (WriteFailed(w, x) /\ UNCHANGED writeNodes)
        PROVE  WriterMove(w, r)
    <3>1. pc[w] = "writing" /\ pc'[w] = "write" /\ todo'[w] = todo[w] \ {x}
      BY <2>1, Moves DEF Visit, At, TypeOK
    <3>2. SameWords(p) /\ SameOff(w, r)
      BY <2>1, <3>1, <1>c DEF SameWords, words
    <3>3. x \in Nodes /\ <<w, x>> \in Pairs
      BY PairOf DEF TypeOK, ControlType
    <3>4. CASE r = x
      <4>1. Reset(p)
        BY <2>1, <3>4, WriteResets
      <4> QED BY <2>1, <3>2, <3>4, <4>1 DEF WriterMove, Writing
    <3>5. CASE r # x
      <4>1. \E v : readWriteLocked' = [readWriteLocked EXCEPT ![<<w, x>>] = v]
        BY <2>1 DEF Write, WriteFailed
      <4>2. \E S \in SUBSET {x} :
            writeNodes' = [writeNodes EXCEPT ![w] = @ \cup S]
            \/ UNCHANGED writeNodes
        BY <2>1 DEF Write
      <4>3. r \in writeNodes'[w] => r \in writeNodes[w]
        BY <3>5, <4>2 DEF TypeOK, OwnType
      <4>4. NoNewClaim(w, r)
        BY <3>1, <4>3 DEF NoNewClaim, Writing, GaveUp, Visit, At
      <4>5. readWriteLocked'[p] = readWriteLocked[p]
        BY <1>a, <3>5, <4>1 DEF TypeOK, SharedType
      <4> QED BY <3>2, <4>4, <4>5, <1>b
    <3> QED BY <3>4, <3>5
  <2>2. CASE Done(w, "write")
             /\ Goto(w, IF leaving[w] THEN "lock" ELSE "unlock")
                /\ UNCHANGED <<words, shared, own>>
    <3>1. pc[w] = "write" /\ pc'[w] \in {"lock", "unlock"}
      BY <2>2, Moves DEF Done, At, TypeOK
    <3> QED BY <2>2, <3>1, <1>b, <1>c, <1>d DEF SameWords, words, shared, own
  <2> QED BY <1>6, <2>1, <2>2 DEF SynchronizeWrite
<1>7. CASE Unlock(w)
  <2>1. pc[w] = "unlock" /\ UNCHANGED writeNodes
    BY <1>7 DEF Unlock, At, own
  <2>2. pc'[w] \in {"unlock", "lock"}
    <3>1. UNCHANGED pc \/ Goto(w, "lock")
      BY <1>7 DEF Unlock
    <3> QED BY <2>1, <3>1, Moves DEF TypeOK
  <2> QED BY <1>7, <2>1, <2>2, <1>b, <1>c, <1>d, WriterUntouched
<1>8. CASE Lock(w)
  <2>1. pc[w] = "lock" /\ UNCHANGED <<readerCAS, isReaderActive, readWriteLocked>>
    BY <1>8 DEF Lock, At, words, shared
  <2>2. ASSUME NEW x \in writeNodes[w], UNCHANGED <<pc, todo>>,
               isWriteLocked' = [isWriteLocked EXCEPT ![<<w, x>>] = TRUE],
               writeNodes' = [writeNodes EXCEPT ![w] = @ \ {x}]
        PROVE  WriterMove(w, r)
    <3>1. SameOff(w, r)
      BY <2>1, <2>2, <1>c
    <3>2. writeNodes'[w] = writeNodes[w] \ {x}
      BY <2>2 DEF TypeOK, OwnType
    <3>3. CASE r = x
      <4>1. isWriteLocked'[p] = TRUE
        BY <1>a, <2>2, <3>3 DEF TypeOK, WordsType
      <4>2. ~Writing(w, r)' /\ ~GaveUp(w, r)'
        BY <2>1, <2>2, <3>2, <3>3 DEF Writing, GaveUp, Visit, At
      <4> QED BY <2>1, <2>2, <3>1, <3>3, <4>1, <4>2 DEF WriterMove
    <3>4. CASE r # x
      <4>1. SameWords(p)
        BY <1>a, <2>1, <2>2, <3>4 DEF SameWords, TypeOK, WordsType
      <4> QED BY <2>1, <2>2, <3>1, <3>2, <4>1, <1>b, <1>d
    <3> QED BY <3>3, <3>4
  <2>3. CASE (Foreach(w, "failActive") \/ Goto(w, "run"))
             /\ UNCHANGED <<words, own>>
    <3>1. pc'[w] \in {"failActive", "run"}
      BY <2>3, Moves DEF TypeOK
    <3> QED BY <2>1, <2>3, <3>1, <1>b, <1>c, <1>d DEF SameWords, words, own
  <2> QED BY <1>8, <2>2, <2>3 DEF Lock
<1>9. CASE FailedActive(w) \/ FailedLocked(w)
  <2>1. pc[w] \in {"failActive", "failLocked"} /\ UNCHANGED writeNodes
    BY <1>9 DEF FailedActive, FailedLocked, Visit, Done, At, own
  <2>2. pc'[w] \in {"failActive", "failLocked", "failCAS", "dtorLoop", "run"}
    BY <1>9, Moves DEF FailedActive, FailedLocked, TypeOK
  <2> QED BY <1>9, <2>1, <2>2, <1>b, <1>c, <1>d, WriterUntouched
<1>10. ASSUME NEW x \in todo[w], IsFirst(x, todo[w]), UNCHANGED writeNodes,
              UNCHANGED <<isReaderActive, isWriteLocked, readWriteLocked>>,
              readerCAS[<<w, x>>] = "IDLE",
              readerCAS' = [readerCAS EXCEPT ![<<w, x>>] = "OFF"],
              \/ pc[w] = "failCAS" /\ Goto(w, "failing")
              \/ pc[w] = "dtorTake" /\ Goto(w, "dtorUnlock")
       PROVE  WriterMove(w, r)
  <2>1. /\ todo'[w] = todo[w]
        /\ \/ pc[w] = "failCAS" /\ pc'[w] = "failing"
           \/ pc[w] = "dtorTake" /\ pc'[w] = "dtorUnlock"
    BY <1>10, Moves DEF TypeOK
  <2>2. NoNewClaim(w, r)
    BY <1>10, <2>1 DEF NoNewClaim, Writing, GaveUp, Visit, At
  <2>3. CASE r = x
    <3>1. readerCAS[p] = "IDLE" /\ readerCAS'[p] = "OFF"
      BY <1>a, <1>10, <2>3 DEF TypeOK, WordsType
    <3>2. IsOff(w, r)'
      BY <1>10, <2>1, <2>3 DEF IsOff, Visit, At
    <3> QED BY <1>10, <2>2, <3>1, <3>2 DEF WriterMove
  <2>4. CASE r # x
    <3>1. SameWords(p)
      BY <1>a, <1>10, <2>4 DEF SameWords, TypeOK, WordsType
    <3>2. ~IsFirst(r, todo[w])
      BY <1>10, <2>4, First DEF TypeOK
    <3>3. SameOff(w, r)
      BY <2>1, <3>2 DEF SameOff, IsOff, Visit, At
    <3> QED BY <1>10, <2>2, <3>1, <3>3, <1>b
  <2> QED BY <2>3, <2>4
<1>11. ASSUME NEW x \in todo[w], IsFirst(x, todo[w]), UNCHANGED writeNodes,
              UNCHANGED <<isReaderActive, readerCAS>>,
              isWriteLocked' = [isWriteLocked EXCEPT ![<<w, x>>] = FALSE],
              \/ /\ pc[w] = "failing" /\ Goto(w, "failRelease")
                 /\ WriteFailed(w, x)
              \/ /\ pc[w] = "dtorUnlock" /\ Goto(w, "dtorRelease")
                 /\ UNCHANGED readWriteLocked
       PROVE  WriterMove(w, r)
  <2>1. /\ todo'[w] = todo[w]
        /\ \/ pc[w] = "failing" /\ pc'[w] = "failRelease"
           \/ pc[w] = "dtorUnlock" /\ pc'[w] = "dtorRelease"
    BY <1>11, Moves DEF TypeOK
  <2>2. NoNewClaim(w, r)
    BY <1>11, <2>1 DEF NoNewClaim, Writing, GaveUp, Visit, At
  <2>3. CASE r = x
    <3>1. isWriteLocked'[p] = FALSE
      BY <1>a, <1>11, <2>3 DEF TypeOK, WordsType
    <3>2. IsOff(w, r) /\ IsOff(w, r)'
      BY <1>11, <2>1, <2>3 DEF IsOff, Visit, At
    <3>3. readWriteLocked'[p] = readWriteLocked[p] \/ Reset(p)
      BY <1>11, <2>3, WriteResets
    <3> QED BY <1>11, <2>2, <3>1, <3>2, <3>3 DEF WriterMove
  <2>4. CASE r # x
    <3>1. SameWords(p)
      BY <1>a, <1>11, <2>4 DEF SameWords, TypeOK, WordsType
    <3>2. ~IsFirst(r, todo[w])
      BY <1>11, <2>4, First DEF TypeOK
    <3>3. SameOff(w, r)
      BY <2>1, <3>2 DEF SameOff, IsOff, Visit, At
    <3>4. UNCHANGED readWriteLocked \/ \E v :
          readWriteLocked' = [readWriteLocked EXCEPT ![<<w, x>>] = v]
      BY <1>11 DEF WriteFailed
    <3>5. readWriteLocked'[p] = readWriteLocked[p]
      BY <1>a, <2>4, <3>4 DEF TypeOK, SharedType
    <3> QED BY <2>2, <3>1, <3>3, <3>5, <1>b
  <2> QED BY <2>3, <2>4
<1>12. ASSUME NEW x \in todo[w], IsFirst(x, todo[w]), UNCHANGED writeNodes,
              UNCHANGED <<isReaderActive, isWriteLocked, readWriteLocked>>,
              readerCAS' = [readerCAS EXCEPT ![<<w, x>>] = "IDLE"],
              \/ pc[w] = "failRelease" /\ Continue(w, x, "failActive")
              \/ pc[w] = "dtorRelease" /\ Goto(w, "dtorLocked")
       PROVE  WriterMove(w, r)
  <2>1. \/ pc[w] = "failRelease" /\ pc'[w] = "failActive"
        \/ pc[w] = "dtorRelease" /\ pc'[w] = "dtorLocked" /\ todo'[w] = todo[w]
    BY <1>12, Moves DEF TypeOK
  <2>2. NoNewClaim(w, r)
    BY <1>12, <2>1 DEF NoNewClaim, Writing, GaveUp, Visit, At
  <2>3. ~IsOff(w, r)'
    BY <2>1 DEF IsOff, Visit, At
  <2>4. CASE r = x
    <3>1. readerCAS'[p] = "IDLE"
      BY <1>a, <1>12, <2>4 DEF TypeOK, WordsType
    <3>2. IsOff(w, r)
      BY <1>12, <2>1, <2>4 DEF IsOff, Visit, At
    <3> QED BY <1>12, <2>2, <2>3, <3>1, <3>2 DEF WriterMove
  <2>5. CASE r # x
    <3>1. SameWords(p)
      BY <1>a, <1>12, <2>5 DEF SameWords, TypeOK, WordsType
    <3>2. ~IsFirst(r, todo[w])
      BY <1>12, <2>5, First DEF TypeOK
    <3>3. SameOff(w, r)
      BY <2>3, <3>2 DEF SameOff, IsOff, Visit, At
    <3> QED BY <1>12, <2>2, <3>1, <3>3, <1>b
  <2> QED BY <2>4, <2>5
<1>13. CASE FailedCAS(w)
  <2>1. PICK x \in todo[w] : FailedCAS(w)!1!(x)
    BY <1>13 DEF FailedCAS
  <2>2. UNCHANGED <<isReaderActive, isWriteLocked, readWriteLocked, writeNodes>>
    BY <1>13 DEF FailedCAS, shared, own
  <2>3. CASE Continue(w, x, "failActive") /\ UNCHANGED readerCAS
    <3>1. pc[w] = "failCAS" /\ pc'[w] = "failActive"
      BY <2>1, <2>3, Moves DEF Visit, At, TypeOK
    <3> QED BY <2>2, <2>3, <3>1, <1>b, <1>c, <1>d DEF SameWords
  <2> QED BY <1>10, <2>1, <2>2, <2>3 DEF Visit, At
<1>14. CASE Failed(w)
  BY <1>11, <1>14 DEF Failed, Visit, At
<1>15. CASE FailedRelease(w)
  BY <1>12, <1>15 DEF FailedRelease, Visit, At, shared, own
<1>16. CASE Stop(w) \/ DestructorRead(w)
  <2>1. pc[w] \in {"run", "dtorCAS", "dtorRead"} /\ UNCHANGED writeNodes
    BY <1>16 DEF Stop, DestructorRead, Visit, Done, At, own
  <2>2. pc'[w] \in {"dtorCAS", "dtorRead", "dtorLoop"}
    BY <1>16, Moves DEF Stop, DestructorRead, TypeOK
  <2> QED BY <1>16, <2>1, <2>2, <1>b, <1>c, <1>d, WriterUntouched
<1>17. CASE DestructorLoop(w)
  <2>1. pc[w] = "dtorLoop" /\ writeNodes'[w] = {}
    BY <1>17 DEF DestructorLoop, At, TypeOK, OwnType
  <2>2. pc'[w] = "write" \/ (pc'[w] = "dtorWrite" /\ todo'[w] = Peers(w))
    BY <1>17, Moves DEF DestructorLoop, TypeOK
  <2>3. NoNewClaim(w, r)
    BY <2>1, <2>2 DEF NoNewClaim, Writing, GaveUp, Visit, At
  <2> QED BY <1>17, <2>1, <2>2, <2>3, <1>b, <1>c, WriterUntouched
<1>18. CASE DestructorWrite(w)
  <2>1. UNCHANGED <<isReaderActive, readWriteLocked, writeNodes>>
    BY <1>18 DEF DestructorWrite, words, shared, own
  <2>2. ASSUME NEW x \in todo[w], Visit(w, x, "dtorWrite"), Goto(w, "dtorLocked"),
               UNCHANGED <<isWriteLocked, readerCAS>>
        PROVE  WriterMove(w, r)
    <3>1. pc[w] = "dtorWrite" /\ pc'[w] = "dtorLocked" /\ todo'[w] = todo[w]
      BY <2>2, Moves DEF Visit, At, TypeOK
    <3>2. NoNewClaim(w, r)
      BY <2>1, <3>1 DEF NoNewClaim, Writing, GaveUp, Visit, At
    <3> QED BY <2>1, <2>2, <3>1, <3>2, <1>b, <1>c DEF SameWords
  <2>3. ASSUME NEW x \in todo[w], Visit(w, x, "dtorLocked"), UNCHANGED words,
               \/ Goto(w, "dtorTake")
               \/ ~isWriteLocked[<<w, x>>] /\ Continue(w, x, "dtorWrite")
        PROVE  WriterMove(w, r)
    <3>1. /\ pc[w] = "dtorLocked"
          /\ \/ pc'[w] = "dtorTake" /\ todo'[w] = todo[w]
             \/ /\ ~isWriteLocked[<<w, x>>]
                /\ pc'[w] = "dtorWrite" /\ todo'[w] = todo[w] \ {x}
      BY <2>3, Moves DEF Visit, At, TypeOK
    <3>2. SameOff(w, r) /\ SameWords(p)
      BY <2>3, <3>1, <1>c DEF SameWords, words
    <3>3. CASE r = x /\ ~isWriteLocked[<<w, x>>]
      BY <2>1, <3>2, <3>3 DEF WriterMove
    <3>4. CASE r # x \/ todo'[w] = todo[w]
      <4>1. NoNewClaim(w, r)
        BY <2>1, <3>1, <3>4 DEF NoNewClaim, Writing, GaveUp, Visit, At
      <4> QED BY <2>1, <3>2, <4>1, <1>b
    <3> QED BY <3>1, <3>3, <3>4
  <2>4. ASSUME NEW x \in todo[w], Visit(w, x, "dtorTake"), Goto(w, "dtorLocked"),
               UNCHANGED <<isWriteLocked, readerCAS>>
        PROVE  WriterMove(w, r)
    <3>1. pc[w] = "dtorTake" /\ pc'[w] = "dtorLocked" /\ todo'[w] = todo[w]
      BY <2>4, Moves DEF Visit, At, TypeOK
    <3>2. NoNewClaim(w, r)
      BY <2>1, <3>1 DEF NoNewClaim, Writing, GaveUp, Visit, At
    <3> QED BY <2>1, <2>4, <3>1, <3>2, <1>b, <1>c DEF SameWords
  <2>5. CASE Done(w, "dtorWrite") /\ Goto(w, "deactivate") /\ UNCHANGED words
    <3>1. pc[w] = "dtorWrite" /\ todo[w] = {} /\ pc'[w] = "deactivate"
      BY <2>5, Moves DEF Done, At, TypeOK
    <3>2. NoNewClaim(w, r)
      BY <2>1, <3>1 DEF NoNewClaim, Writing, GaveUp, Visit, At
    <3> QED BY <2>1, <2>5, <3>1, <3>2, <1>b, <1>c DEF SameWords, words
  <2>6. CASE DestructorWrite(w)!1
    BY <2>2, <2>6
  <2>7. CASE DestructorWrite(w)!2
    BY <2>3, <2>7
  <2>8. CASE DestructorWrite(w)!3
    BY <1>10, <2>1, <2>4, <2>8 DEF Visit, At
  <2>9. CASE DestructorWrite(w)!4
    BY <1>11, <2>1, <2>9 DEF Visit, At
  <2>10. CASE DestructorWrite(w)!5
    BY <1>12, <2>1, <2>10 DEF Visit, At
  <2> QED BY <1>18, <2>5, <2>6, <2>7, <2>8, <2>9, <2>10 DEF DestructorWrite
<1>19. CASE Deactivate(w)
  <2>1. pc[w] = "deactivate" /\ pc'[w] = "down" /\ UNCHANGED writeNodes
    BY <1>19, Moves DEF Deactivate, At, TypeOK, own
  <2>2. NoNewClaim(w, r)
    BY <2>1 DEF NoNewClaim, Writing, GaveUp, Visit, At
  <2> QED BY <1>19, <2>1, <2>2, <1>b, <1>c, WriterUntouched
<1> QED
  BY <1>1, <1>2, <1>3, <1>4, <1>5, <1>6, <1>7, <1>8, <1>9, <1>13, <1>14, <1>15,
     <1>16, <1>17, <1>18, <1>19 DEF Step, NodeStep

\* A third node does not touch the words of <<w, r>> ...
LEMMA Elsewhere ==
  ASSUME TypeOK, NEW n \in Nodes, Step(n), NEW w \in Nodes, NEW r \in Peers(w),
         n # w, n # r
  PROVE  SameWords(<<w, r>>)
         /\ readWriteLocked'[<<w, r>>] = readWriteLocked[<<w, r>>]
<1>a. <<w, r>> \in Pairs
  BY PairOf DEF Peers
<1> USE DEF Step, NodeStep, Start, ConstructorWrite, ConstructorRead,
     BeginSynchronize, SynchronizeReadTest, ReadEvent, UndeliveredEvent, ReadEnd,
     SynchronizeReadCheck, SynchronizeWriteTest, SynchronizeWrite, Unlock, Lock,
     FailedActive, FailedLocked, FailedCAS, Failed, FailedRelease, Stop,
     DestructorRead, DestructorLoop, DestructorWrite, Deactivate, Push,
     ReturnToSender, words,
     shared
<1>1. \/ UNCHANGED readerCAS
      \/ \E x, v : \/ readerCAS' = [readerCAS EXCEPT ![<<x, n>>] = v]
                   \/ readerCAS' = [readerCAS EXCEPT ![<<n, x>>] = v]
  OBVIOUS
<1>2. \/ UNCHANGED isReaderActive
      \/ \E x, v : isReaderActive' = [isReaderActive EXCEPT ![<<x, n>>] = v]
  OBVIOUS
<1>3. \/ UNCHANGED isWriteLocked
      \/ \E x, v : \/ isWriteLocked' = [isWriteLocked EXCEPT ![<<x, n>>] = v]
                   \/ isWriteLocked' = [isWriteLocked EXCEPT ![<<n, x>>] = v]
  OBVIOUS
<1>4. \/ UNCHANGED readWriteLocked
      \/ SynchronizeReadTest(n) \/ UndeliveredEvent(n) \/ ReturnToSender(n)
      \/ Failed(n) \/ SynchronizeWrite(n)
  OBVIOUS
<1>5. readWriteLocked'[<<w, r>>] = readWriteLocked[<<w, r>>]
  <2>1. CASE SynchronizeReadTest(n)
    <3>1. \/ UNCHANGED readWriteLocked
          \/ \E x \in todo[n] :
             readWriteLocked' = [readWriteLocked EXCEPT ![<<x, n>>].delivered = TRUE]
      BY <2>1
    <3> QED BY ONLY <1>a, <3>1, TypeOK, n # r DEF TypeOK, SharedType
  <2>2. CASE UndeliveredEvent(n) \/ ReturnToSender(n)
    <3>1. \E x \in Peers(n) : \E i : TurnDown(n, x, i)
      BY <2>2 DEF TypeOK, ControlType, Peers
    <3> QED BY ONLY <1>a, <3>1, TypeOK, n \in Nodes, n # r, TurnDownPair
  <2>3. CASE Failed(n) \/ SynchronizeWrite(n)
    <3>1. \/ UNCHANGED readWriteLocked
          \/ \E x, v : readWriteLocked' = [readWriteLocked EXCEPT ![<<n, x>>] = v]
      BY <2>3 DEF Write, WriteFailed
    <3> QED BY ONLY <1>a, <3>1, TypeOK, n # w DEF TypeOK, SharedType
  <2> QED BY <1>4, <2>1, <2>2, <2>3
<1> QED BY ONLY <1>a, <1>1, <1>2, <1>3, <1>5, TypeOK, n # w, n # r DEF TypeOK,
     WordsType, SameWords

\* ... and so keeps the invariant of the pair.
LEMMA ElsewherePair ==
  ASSUME TypeOK, NEW n \in Nodes, Step(n), NEW w \in Nodes, NEW r \in Peers(w),
         n # w, n # r, PairLock(w, r), PairDelivered(w, r)
  PROVE  PairLock(w, r)' /\ PairDelivered(w, r)'
<1>1. /\ pc'[w] = pc[w] /\ todo'[w] = todo[w] /\ leaving'[w] = leaving[w]
      /\ readNodes'[w] = readNodes[w] /\ writeNodes'[w] = writeNodes[w]
  BY OthersStay
<1>2. /\ pc'[r] = pc[r] /\ todo'[r] = todo[r] /\ leaving'[r] = leaving[r]
      /\ readNodes'[r] = readNodes[r] /\ writeNodes'[r] = writeNodes[r]
  BY OthersStay DEF Peers
<1>3. SameReader(w, r) /\ (ReaderHolds(w, r)' <=> ReaderHolds(w, r))
  BY <1>2 DEF SameReader, IsOn, IsActive, InLoop, ReaderHolds, Visit, At
<1>4. SameOff(w, r) /\ NoNewClaim(w, r)
  BY <1>1 DEF SameOff, IsOff, NoNewClaim, Writing, GaveUp, Visit, At
<1>5. SameWords(<<w, r>>) /\ readWriteLocked'[<<w, r>>] = readWriteLocked[<<w, r>>]
  BY Elsewhere
<1> QED BY <1>3, <1>4, <1>5 DEF PairLock, PairDelivered, SameWords, SameReader,
     SameOff, NoNewClaim

\* A reader uses a block only while it has readerCAS ON.
LEMMA HoldsOn ==
  ASSUME NEW w, NEW r, Phase(r), ReaderHolds(w, r)
  PROVE  IsOn(w, r)
BY DEF Phase, ReaderHolds, IsOn, InLoop, Visit, At, ReadLabels, FlushLabels

\* No step of the reader breaks the invariant of a pair ...
LEMMA ReaderPair ==
  ASSUME TypeOK, NEW w \in Nodes, NEW r \in Peers(w), Step(r), Phase(r), Phase(r)',
         PairLock(w, r), PairDelivered(w, r)
  PROVE  PairLock(w, r)' /\ PairDelivered(w, r)'
<1> DEFINE p == <<w, r>>
<1>1. pc'[w] = pc[w] /\ todo'[w] = todo[w] /\ writeNodes'[w] = writeNodes[w]
  BY OthersStay DEF Peers
<1>2. /\ SameOff(w, r)
      /\ Writing(w, r)' <=> Writing(w, r)
      /\ GaveUp(w, r)' <=> GaveUp(w, r)
  BY <1>1 DEF SameOff, IsOff, Writing, GaveUp, Visit, At
<1>3. ReaderMove(w, r)
  BY ReaderSide DEF Peers
<1>4. p \in Pairs /\ readWriteLocked[p] \in ReadWriteLocked
  BY PairOf DEF Peers, TypeOK, SharedType
<1>5. r \in writeNodes[w] => Writing(w, r)
  BY DEF Writing
<1>6. PairLock(w, r)'
  BY <1>2, <1>3 DEF PairLock, ReaderMove, SameWords, SameReader, SameOff
<1>7. PairDelivered(w, r)'
  BY <1>1, <1>2, <1>3, <1>4, <1>5 DEF PairLock, PairDelivered, ReaderMove,
     SameWords, ReadWriteLocked
<1> QED BY <1>6, <1>7

\* ... and no step of the writer does.
LEMMA WriterPair ==
  ASSUME TypeOK, NEW w \in Nodes, NEW r \in Peers(w), Step(w), Phase(r),
         PairLock(w, r), PairDelivered(w, r)
  PROVE  PairLock(w, r)' /\ PairDelivered(w, r)'
<1> DEFINE p == <<w, r>>
<1>1. /\ pc'[r] = pc[r] /\ todo'[r] = todo[r] /\ leaving'[r] = leaving[r]
      /\ readNodes'[r] = readNodes[r]
  BY OthersStay DEF Peers
<1>2. SameReader(w, r) /\ (ReaderHolds(w, r)' <=> ReaderHolds(w, r))
  BY <1>1 DEF SameReader, IsOn, IsActive, InLoop, ReaderHolds, Visit, At
<1>3. WriterMove(w, r)
  BY WriterSide
<1>4. ReaderHolds(w, r) => IsOn(w, r)
  BY HoldsOn
<1>5. /\ r \in writeNodes[w] => Writing(w, r)
      /\ r \in writeNodes'[w] => Writing(w, r)'
  BY DEF Writing
<1>6. PairLock(w, r)'
  BY <1>2, <1>3, <1>4, <1>5 DEF PairLock, WriterMove, SameWords, SameReader,
     SameOff, NoNewClaim
<1>7. PairDelivered(w, r)'
  BY <1>2, <1>3, <1>4, <1>5 DEF PairLock, PairDelivered, WriterMove, SameWords,
     SameOff, NoNewClaim, Reset
<1> QED BY <1>6, <1>7

\* The invariant holds initially ...
LEMMA InitInv == Init => Inv
<1> SUFFICES ASSUME Init PROVE Inv
  OBVIOUS
<1>1. \A n \in Nodes : /\ pc[n] = "down" /\ todo[n] = {} /\ ~leaving[n]
                       /\ readNodes[n] = {} /\ writeNodes[n] = {}
  BY DEF Init
<1>2. PhaseInv
  BY <1>1 DEF PhaseInv, Phase, ConstructLabels
<1>3. ASSUME NEW w \in Nodes, NEW r \in Peers(w)
      PROVE  PairLock(w, r) /\ PairDelivered(w, r)
  <2>1. <<w, r>> \in Pairs /\ r \in Nodes
    BY PairOf DEF Peers
  <2>2. ~IsOn(w, r) /\ ~IsActive(w, r) /\ ~IsOff(w, r) /\ ~ReaderHolds(w, r)
        /\ ~Writing(w, r)
    BY <1>1, <2>1 DEF IsOn, IsActive, InLoop, IsOff, ReaderHolds, Writing, Visit,
       At, ReadLabels, FlushLabels
  <2> QED BY <1>1, <2>1, <2>2 DEF PairLock, PairDelivered, Init
<1> QED BY InitType, <1>2, <1>3 DEF Inv, LockInv, DeliveredInv

\* ... and every step keeps it.
LEMMA InvStep == Inv /\ [Next]_vars => Inv'
<1> SUFFICES ASSUME Inv, [Next]_vars PROVE Inv'
  OBVIOUS
<1>1. TypeOK'
  BY TypeStep DEF Inv
<1>2. CASE Next
  <2>1. PICK n \in Nodes : Step(n)
    BY <1>2 DEF Next
  <2>2. TypeOK /\ \A m \in Nodes : Phase(m)
    BY DEF Inv, PhaseInv
  <2>3. ASSUME NEW m \in Nodes PROVE Phase(m)'
    <3>1. CASE m = n
      BY <2>1, <2>2, <3>1, PhaseStep
    <3>2. CASE m # n
      BY <2>1, <2>2, <3>2, OthersStay DEF Phase
    <3> QED BY <3>1, <3>2
  <2>4. ASSUME NEW w \in Nodes, NEW r \in Peers(w)
        PROVE  PairLock(w, r)' /\ PairDelivered(w, r)'
    <3>1. PairLock(w, r) /\ PairDelivered(w, r) /\ r \in Nodes
      BY DEF Inv, LockInv, DeliveredInv, Peers
    <3>2. CASE n = r
      BY <2>1, <2>2, <2>3, <3>1, <3>2, ReaderPair
    <3>3. CASE n = w
      BY <2>1, <2>2, <3>1, <3>3, WriterPair
    <3>4. CASE n # w /\ n # r
      BY <2>1, <2>2, <3>1, <3>4, ElsewherePair
    <3> QED BY <3>2, <3>3, <3>4
  <2> QED BY <1>1, <2>3, <2>4 DEF Inv, PhaseInv, LockInv, DeliveredInv
<1>3. CASE UNCHANGED vars
  BY <1>1, <1>3 DEF vars, Inv, PhaseInv, Phase, LockInv, DeliveredInv, PairLock,
     PairDelivered, IsOn, IsActive, InLoop, IsOff, ReaderHolds, Writing, GaveUp,
     Visit, At
<1> QED BY <1>2, <1>3

\* The invariant excludes simultaneous use: a reader that uses the block has it
\* locked and readerCAS ON, a writer that does has it unlocked or readerCAS OFF.
LEMMA InvExclusive == Inv => ExclusiveAccess
<1> SUFFICES ASSUME Inv, NEW w \in Nodes, NEW r \in Peers(w), ReaderHolds(w, r),
    WriterHolds(w, r)
             PROVE  FALSE
  BY DEF ExclusiveAccess
<1>1. PairLock(w, r) /\ Phase(r)
  BY DEF Inv, LockInv, PhaseInv, Peers
<1>2. isWriteLocked[<<w, r>>] /\ readerCAS[<<w, r>>] = "ON"
  BY <1>1, HoldsOn DEF PairLock
<1>3. ~Writing(w, r) /\ ~IsOff(w, r)
  BY <1>1, <1>2 DEF PairLock
<1> QED BY <1>3 DEF WriterHolds, IsOff

\* It also gives every assert.
LEMMA InvAsserts == Inv => Asserts
<1> SUFFICES ASSUME Inv, NEW w \in Nodes, NEW r \in Peers(w)
             PROVE  PairAsserts(w, r)
  BY DEF Asserts
<1> DEFINE p == <<w, r>>
<1>1. PairLock(w, r) /\ PairDelivered(w, r) /\ Phase(r) /\ TypeOK /\ r \in Nodes
  BY DEF Inv, LockInv, DeliveredInv, PhaseInv, Peers
<1>2. Visit(w, r, "ctorWrite") => ~isWriteLocked[p]
  BY <1>1 DEF PairLock, GaveUp, Visit, At
<1>3. Visit(r, w, "ctorRead") => ~isReaderActive[p]
  BY <1>1, First DEF PairLock, IsActive, IsOn, InLoop, ReadLabels, FlushLabels,
     Visit, At, TypeOK
<1>4. Visit(r, w, "read") \/ Visit(r, w, "dtorCAS") => IsOn(w, r)
  BY <1>1, First DEF Phase, IsOn, InLoop, ReadLabels, Visit, At, TypeOK
<1>5. Visit(r, w, "read") \/ Visit(r, w, "dtorCAS")
        => isReaderActive[p] /\ readerCAS[p] = "ON"
  BY <1>1, <1>4 DEF PairLock, IsActive
<1>6. Visit(r, w, "read") => ~ReaderHolds(w, r)
  BY <1>1, First DEF ReaderHolds, Phase, Visit, At, TypeOK
<1>7. Visit(r, w, "read") /\ isWriteLocked[p] => ~readWriteLocked[p].delivered
  BY <1>1, <1>6 DEF PairDelivered
<1>8. At(r, "unlock") /\ w \in readNodes[r] => isWriteLocked[p]
  BY <1>1 DEF PairLock, ReaderHolds
<1>9. At(w, "lock") /\ r \in writeNodes[w] => ~isWriteLocked[p]
  BY <1>1 DEF PairLock, Writing
<1>10. readWriteLocked[p].delivered \/ readWriteLocked[p].undelivered = << >>
  BY <1>1 DEF PairDelivered
<1> QED BY <1>2, <1>3, <1>5, <1>7, <1>8, <1>9, <1>10 DEF PairAsserts

\* The inductive invariant holds in every reachable state.
THEOREM Invariant == Spec => []Inv
BY InitInv, InvStep, PTL DEF Spec

\* The reader and the writer of a Shared block never use its locked part at the
\* same time, for any number of nodes started, stopped and restarted in any order
\* (SynchronizeReadOperator, SynchronizeWriteOperator, writeFailed, ~Node).
THEOREM Exclusive == Spec => []ExclusiveAccess
BY Invariant, InvExclusive, PTL

\* No assert of parallel.h, read() or writeFailed() about state shared with
\* another node ever fails, for any number of nodes.
THEOREM AssertsHold == Spec => []Asserts
BY Invariant, InvAsserts, PTL

-----------------------------------------------------------------------------
(* Signals.                                                                *)


Cached(p) == writeCache[p].chain # << >> \/ writeCache[p].check

\* From the last loop of ~Node to the first iteration of the event loop.
QuietLabels == Unlocking \cup {"deactivate"} \cup ConstructLabels

\* The destructor has reset isWriterActive of w for r.
Resigned(w, r) ==
  \/ pc[w] \in {"deactivate", "down"}
  \/ pc[w] \in Unlocking /\ r \notin todo[w]
  \/ pc[w] \in Unlocking \ {"dtorWrite"} /\ IsFirst(r, todo[w])

PairSignal(w, r) ==
  /\ Cached(<<w, r>>) => r \in writeSignal[w] \/ Visit(w, r, "writing")
  /\ pc[w] \in QuietLabels => r \notin writeSignal[w]

PairResigned(w, r) == Resigned(w, r) => ~isWriterActive[<<w, r>>]

SignalInv == \A w \in Nodes : \A r \in Peers(w) : PairSignal(w, r) /\ PairResigned(w, r)

-----------------------------------------------------------------------------
(* What a step does to the caches.                                         *)

\* The cache after a handler pushed to d is as before, but for that of d.
LEMMA PushedElsewhere ==
  ASSUME TypeOK, NEW n \in Nodes, NEW d \in Nodes, NEW w \in Nodes, NEW r \in Peers(w),
         w # n \/ r # d
  PROVE  PushedCache(n, d)[<<w, r>>] = writeCache[<<w, r>>]
<1>1. <<w, r>> \in Pairs /\ <<n, d>> # <<w, r>>
  BY PairOf DEF Peers
<1> QED BY <1>1 DEF PushedCache, TypeOK, SharedType

\* write() and writeFailed() empty the cache of the reader; what else has been cached is
\* what a handler pushed, for which a signal is set.
LEMMA WriteCaches ==
  ASSUME TypeOK, NEW n \in Nodes, NEW x \in Peers(n), Write(n, x) \/ WriteFailed(n, x)
  PROVE  /\ \A w \in Nodes : \A r \in Peers(w) :
              writeCache'[<<w, r>>] # writeCache[<<w, r>>] => w = n
         /\ writeCache'[<<n, x>>] = [check |-> FALSE, chain |-> << >>]
         /\ \A r \in Peers(n) \ {x} :
              writeCache'[<<n, r>>] # writeCache[<<n, r>>] => r \in writeSignal'[n]
         /\ \A m \in Nodes : writeSignal[m] \subseteq writeSignal'[m]
         /\ \A m \in Nodes \ {n} : writeSignal'[m] = writeSignal[m]
<1>1. PICK d \in Nodes :
         /\ writeCache' = [PushedCache(n, d) EXCEPT
              ![<<n, x>>] = [check |-> FALSE, chain |-> << >>]]
         /\ writeSignal' = [writeSignal EXCEPT ![n] = @ \cup ({d} \ {n})]
  BY DEF Write, WriteFailed
<1>2. PushedCache(n, d) \in [Pairs -> WriteCache]
  BY PushedType DEF Fates, TypeOK, SharedType
<1>3. /\ \A m \in Nodes : writeSignal[m] \subseteq writeSignal'[m]
      /\ \A m \in Nodes \ {n} : writeSignal'[m] = writeSignal[m]
      /\ d # n => d \in writeSignal'[n]
  BY <1>1 DEF TypeOK, OwnType
<1>4. <<n, x>> \in Pairs
  BY PairOf DEF Peers
<1>5. writeCache'[<<n, x>>] = [check |-> FALSE, chain |-> << >>]
  BY <1>1, <1>2, <1>4
<1>6. ASSUME NEW w \in Nodes, NEW r \in Peers(w), <<w, r>> # <<n, x>>, w # n \/ r # d
      PROVE  writeCache'[<<w, r>>] = writeCache[<<w, r>>]
  <2>1. writeCache'[<<w, r>>] = PushedCache(n, d)[<<w, r>>]
    BY <1>1, <1>2, <1>6, PairOf DEF Peers
  <2> QED BY <2>1, <1>6, PushedElsewhere
<1>7. \A w \in Nodes : \A r \in Peers(w) :
              writeCache'[<<w, r>>] # writeCache[<<w, r>>] => w = n
  BY <1>6
<1>8. \A r \in Peers(n) \ {x} :
              writeCache'[<<n, r>>] # writeCache[<<n, r>>] => r \in writeSignal'[n]
  BY <1>6, <1>3 DEF Peers
<1> QED BY ONLY <1>3, <1>5, <1>7, <1>8

\* A step that caches something else does so with a signal for it.
LEMMA CacheWithSignal ==
  ASSUME TypeOK, NEW n \in Nodes,
         UndeliveredEvent(n) \/ ReturnToSender(n) \/ \E d \in Nodes : Push(n, d)
  PROVE  /\ \A w \in Nodes : \A r \in Peers(w) :
              writeCache'[<<w, r>>] # writeCache[<<w, r>>] => w = n /\ r \in writeSignal'[n]
         /\ \A m \in Nodes : writeSignal[m] \subseteq writeSignal'[m]
         /\ \A m \in Nodes \ {n} : writeSignal'[m] = writeSignal[m]
<1>1. PICK d \in Peers(n) :
         /\ writeSignal' = [writeSignal EXCEPT ![n] = @ \cup {d}]
         /\ \E c : writeCache' = [writeCache EXCEPT ![<<n, d>>] = c]
  <2>1. CASE UndeliveredEvent(n) \/ ReturnToSender(n)
    <3>1. PICK w \in Peers(n) :
             /\ writeCache' = [writeCache EXCEPT ![<<n, w>>].check = TRUE]
             /\ writeSignal' = [writeSignal EXCEPT ![n] = @ \cup {w}]
      <4>1. todo[n] \subseteq Peers(n)
        BY DEF TypeOK, ControlType, Peers
      <4> QED BY <4>1, <2>1 DEF UndeliveredEvent, ReturnToSender, TurnDown
    <3> QED BY <3>1
  <2>2. CASE \E d \in Nodes : Push(n, d)
    BY <2>2 DEF Push
  <2> QED BY <2>1, <2>2
<1>2. PICK c : writeCache' = [writeCache EXCEPT ![<<n, d>>] = c]
  BY <1>1
<1>3. /\ \A m \in Nodes : writeSignal[m] \subseteq writeSignal'[m]
      /\ \A m \in Nodes \ {n} : writeSignal'[m] = writeSignal[m]
      /\ d \in writeSignal'[n]
  BY <1>1 DEF TypeOK, OwnType, Peers
<1>4. ASSUME NEW w \in Nodes, NEW r \in Peers(w),
             writeCache'[<<w, r>>] # writeCache[<<w, r>>]
      PROVE  w = n /\ r = d
  <2>1. <<w, r>> \in Pairs
    BY PairOf DEF Peers
  <2>2. <<w, r>> = <<n, d>>
    BY <1>2, <1>4, <2>1 DEF TypeOK, SharedType
  <2> QED BY <2>2
<1> QED BY ONLY <1>3, <1>4

\* The steps that neither cache nor signal anything, nor look at a signal
Silent(n) ==
  \/ ConstructorWrite(n) \/ ConstructorRead(n) \/ BeginSynchronize(n) \/ ReadEvent(n)
  \/ ReadEnd(n) \/ SynchronizeReadCheck(n) \/ Unlock(n) \/ Lock(n) \/ FailedActive(n)
  \/ FailedLocked(n) \/ FailedCAS(n) \/ FailedRelease(n) \/ Stop(n) \/ DestructorRead(n)
  \/ DestructorLoop(n) \/ DestructorWrite(n) \/ Deactivate(n)

\* Those of them that belong to the event loop stay out of the last loop of ~Node.
LEMMA LoudMoves ==
  ASSUME TypeOK, NEW n \in Nodes,
         \/ BeginSynchronize(n) \/ ReadEvent(n) \/ ReadEnd(n) \/ SynchronizeReadCheck(n)
         \/ Unlock(n) \/ Lock(n) \/ FailedActive(n) \/ FailedLocked(n) \/ FailedCAS(n)
         \/ FailedRelease(n) \/ Stop(n) \/ DestructorRead(n)
  PROVE  pc'[n] \in Labels \ QuietLabels
<1> USE DEF TypeOK, ControlType, Labels, QuietLabels, Unlocking, ConstructLabels, Goto,
       Foreach, Continue
<1>1. CASE BeginSynchronize(n) \/ ReadEvent(n) \/ ReadEnd(n) \/ Stop(n)
  BY <1>1 DEF BeginSynchronize, ReadEvent, ReadEnd, Stop, Visit, At
<1>2. CASE SynchronizeReadCheck(n)
  BY <1>2 DEF SynchronizeReadCheck, Visit, Done, At
<1>3. CASE Unlock(n)
  BY <1>3 DEF Unlock, At
<1>4. CASE Lock(n)
  BY <1>4 DEF Lock, At
<1>5. CASE FailedActive(n)
  BY <1>5 DEF FailedActive, Visit, Done, At
<1>6. CASE FailedLocked(n)
  BY <1>6 DEF FailedLocked, Visit, At
<1>7. CASE FailedCAS(n) \/ FailedRelease(n)
  BY <1>7 DEF FailedCAS, FailedRelease, Visit, At
<1>8. CASE DestructorRead(n)
  BY <1>8 DEF DestructorRead, Visit, Done, At
<1> QED BY <1>1, <1>2, <1>3, <1>4, <1>5, <1>6, <1>7, <1>8

\* They are not write(), and one of them leads to the last loop of ~Node, when no signal
\* is left.
LEMMA SilentMoves ==
  ASSUME TypeOK, NEW n \in Nodes, Silent(n)
  PROVE  /\ UNCHANGED <<writeCache, writeSignal>>
         /\ pc[n] # "writing"
         /\ pc'[n] \in QuietLabels => pc[n] \in QuietLabels \/ writeSignal[n] = {}
<1>1. UNCHANGED <<writeCache, writeSignal>>
  BY DEF Silent, ConstructorWrite, ConstructorRead, BeginSynchronize, ReadEvent, ReadEnd,
     SynchronizeReadCheck, Unlock, Lock, FailedActive, FailedLocked, FailedCAS,
     FailedRelease, Stop, DestructorRead, DestructorLoop, DestructorWrite, Deactivate,
     own, shared
<1>2. CASE ConstructorWrite(n) \/ ConstructorRead(n) \/ DestructorWrite(n) \/ Deactivate(n)
  <2>1. pc[n] \in QuietLabels
    BY <1>2 DEF ConstructorWrite, ConstructorRead, DestructorWrite, Deactivate, Visit,
       Done, At, QuietLabels, Unlocking, ConstructLabels
  <2> QED BY <1>1, <2>1 DEF QuietLabels, Unlocking, ConstructLabels
<1>3. CASE \/ BeginSynchronize(n) \/ ReadEvent(n) \/ ReadEnd(n) \/ SynchronizeReadCheck(n)
           \/ Unlock(n) \/ Lock(n) \/ FailedActive(n) \/ FailedLocked(n) \/ FailedCAS(n)
           \/ FailedRelease(n) \/ Stop(n) \/ DestructorRead(n)
  <2>1. pc[n] # "writing"
    BY <1>3 DEF BeginSynchronize, ReadEvent, ReadEnd, SynchronizeReadCheck, Unlock, Lock,
       FailedActive, FailedLocked, FailedCAS, FailedRelease, Stop, DestructorRead, Visit,
       Done, At
  <2>2. pc'[n] \in Labels \ QuietLabels
    BY <1>3, LoudMoves
  <2> QED BY <1>1, <2>1, <2>2
<1>4. CASE DestructorLoop(n)
  <2>1. pc[n] # "writing" /\ (pc'[n] = "write" \/ writeSignal[n] = {})
    BY <1>4, Moves DEF DestructorLoop, TypeOK, At
  <2> QED BY <1>1, <2>1 DEF QuietLabels, Unlocking, ConstructLabels
<1> QED BY <1>2, <1>3, <1>4 DEF Silent

\* The caches and signals of a node are its own.
LEMMA OthersSignals ==
  ASSUME TypeOK, NEW n \in Nodes, Step(n)
  PROVE  \A m \in Nodes \ {n} : /\ writeSignal'[m] = writeSignal[m]
                                 /\ \A r \in Peers(m) : writeCache'[<<m, r>>] = writeCache[<<m, r>>]
<1>1. CASE Silent(n)
  BY <1>1, SilentMoves
<1>2. CASE Start(n)
  BY <1>2 DEF Start, TypeOK, OwnType, shared
<1>3. CASE UndeliveredEvent(n) \/ ReturnToSender(n) \/ \E d \in Nodes : Push(n, d)
  BY <1>3, CacheWithSignal
<1>4. CASE SynchronizeReadTest(n)
  <2>1. /\ UNCHANGED writeCache
        /\ \/ UNCHANGED writeSignal
           \/ \E w \in todo[n] : writeSignal' = [writeSignal EXCEPT ![n] = @ \cup {w}]
    BY <1>4 DEF SynchronizeReadTest, own, shared, TypeOK, OwnType
  <2> QED BY <2>1 DEF TypeOK, OwnType, ControlType
<1>5. CASE SynchronizeWriteTest(n)
  <2>1. /\ UNCHANGED writeCache
        /\ \/ UNCHANGED writeSignal
           \/ \E r \in todo[n] : writeSignal' = [writeSignal EXCEPT ![n] = @ \ {r}]
    BY <1>5 DEF SynchronizeWriteTest, own, shared
  <2> QED BY <2>1 DEF TypeOK, OwnType
<1>6. CASE SynchronizeWrite(n) \/ Failed(n)
  <2>1. \/ UNCHANGED <<writeCache, writeSignal>>
        \/ \E x \in Peers(n) : Write(n, x) \/ WriteFailed(n, x)
    <3>1. todo[n] \subseteq Peers(n)
      BY DEF TypeOK, ControlType, Peers
    <3> QED BY <3>1, <1>6 DEF SynchronizeWrite, Failed, shared, own
  <2> QED BY <2>1, WriteCaches
<1> QED BY <1>1, <1>2, <1>3, <1>4, <1>5, <1>6 DEF Step, NodeStep, Silent

-----------------------------------------------------------------------------
(* The signals.                                                            *)

\* A step of the writer keeps what SignalInv says about its signals.
LEMMA SignalStep ==
  ASSUME TypeOK, NEW n \in Nodes, Step(n), NEW r \in Peers(n), PairSignal(n, r)
  PROVE  PairSignal(n, r)'
<1> USE DEF PairSignal
<1>1. CASE Silent(n)
  <2>1. ~Visit(n, r, "writing")
    BY <1>1, SilentMoves DEF Visit, At
  <2> QED BY <1>1, <2>1, SilentMoves DEF Cached
<1>2. CASE Start(n)
  <2>1. pc[n] = "down" /\ ~Visit(n, r, "writing")
    BY <1>2 DEF Start, Visit, At
  <2>2. ~Cached(<<n, r>>)
    BY <2>1 DEF QuietLabels, ConstructLabels
  <2>3. UNCHANGED writeCache /\ writeSignal'[n] = {}
    BY <1>2 DEF Start, shared, TypeOK, OwnType
  <2> QED BY <2>2, <2>3 DEF Cached
<1>3. CASE UndeliveredEvent(n) \/ ReturnToSender(n) \/ \E d \in Nodes : Push(n, d)
  <2>1. pc[n] \in {"run", "reading", "write"} /\ pc' = pc
    BY <1>3 DEF UndeliveredEvent, ReturnToSender, Push, Visit, Done, At
  <2>2. ~Visit(n, r, "writing") /\ pc'[n] \notin QuietLabels
    BY <2>1 DEF Visit, At, QuietLabels, Unlocking, ConstructLabels
  <2>3. writeCache'[<<n, r>>] = writeCache[<<n, r>>] \/ r \in writeSignal'[n]
    BY <1>3, CacheWithSignal
  <2>4. writeSignal[n] \subseteq writeSignal'[n]
    BY <1>3, CacheWithSignal
  <2> QED BY <2>2, <2>3, <2>4 DEF Cached
<1>4. CASE SynchronizeReadTest(n)
  <2>1. pc[n] = "read" /\ pc'[n] \in {"reading", "readCheck"} /\ UNCHANGED writeCache
    BY <1>4, Moves DEF SynchronizeReadTest, Visit, At, TypeOK, shared
  <2>2. \/ UNCHANGED writeSignal
        \/ \E w \in todo[n] : writeSignal' = [writeSignal EXCEPT ![n] = @ \cup {w}]
    BY <1>4 DEF SynchronizeReadTest, own, TypeOK, OwnType
  <2>3. writeSignal[n] \subseteq writeSignal'[n]
    BY <2>2 DEF TypeOK, OwnType
  <2>4. ~Visit(n, r, "writing") /\ pc'[n] \notin QuietLabels
    BY <2>1 DEF Visit, At, QuietLabels, Unlocking, ConstructLabels
  <2> QED BY <2>1, <2>3, <2>4 DEF Cached
<1>5. CASE SynchronizeWriteTest(n)
  <2>1. PICK x \in todo[n] : SynchronizeWriteTest(n)!1!(x)
    BY <1>5 DEF SynchronizeWriteTest
  <2>2. pc[n] = "write" /\ pc'[n] \in {"write", "writing"} /\ UNCHANGED writeCache
    BY <1>5, Moves DEF SynchronizeWriteTest, Visit, At, TypeOK, shared
  <2>3. ~Visit(n, r, "writing") /\ pc'[n] \notin QuietLabels
    BY <2>2 DEF Visit, At, QuietLabels, Unlocking, ConstructLabels
  <2>4. CASE writeSignal' = writeSignal
    BY <2>2, <2>3, <2>4 DEF Cached
  <2>5. CASE writeSignal' = [writeSignal EXCEPT ![n] = @ \ {x}] /\ Goto(n, "writing")
    <3>1. Visit(n, x, "writing")'
      BY <2>1, <2>5, Moves DEF Visit, At, TypeOK, IsFirst
    <3>2. r # x => (r \in writeSignal'[n] <=> r \in writeSignal[n])
      BY <2>5 DEF TypeOK, OwnType
    <3> QED BY <2>2, <2>3, <3>1, <3>2 DEF Cached
  <2> QED BY <2>1, <2>4, <2>5
<1>6. CASE SynchronizeWrite(n) \/ Failed(n)
  <2>1. CASE UNCHANGED <<writeCache, writeSignal>> /\ Done(n, "write")
             /\ pc'[n] \in {"lock", "unlock"}
    BY <2>1 DEF Cached, Done, At, Visit, QuietLabels, Unlocking, ConstructLabels
  <2>2. ASSUME NEW x \in Peers(n), Write(n, x) \/ WriteFailed(n, x),
               pc'[n] \in {"write", "failRelease"}, Visit(n, r, "writing") => r = x
        PROVE  PairSignal(n, r)'
    <3>1. CASE r = x
      <4>1. ~Cached(<<n, r>>)'
        BY <2>2, <3>1, WriteCaches DEF Cached
      <4> QED BY <2>2, <4>1 DEF QuietLabels, Unlocking, ConstructLabels
    <3>2. CASE r # x
      <4>1. writeCache'[<<n, r>>] = writeCache[<<n, r>>] \/ r \in writeSignal'[n]
        BY <2>2, <3>2, WriteCaches
      <4>2. writeSignal[n] \subseteq writeSignal'[n]
        BY <2>2, WriteCaches
      <4> QED BY <2>2, <3>2, <4>1, <4>2 DEF Cached, QuietLabels, Unlocking, ConstructLabels
    <3> QED BY <3>1, <3>2
  <2>3. \/ UNCHANGED <<writeCache, writeSignal>> /\ Done(n, "write") /\ pc'[n] \in {"lock", "unlock"}
        \/ \E x \in todo[n] : /\ Visit(n, x, "writing") \/ Visit(n, x, "failing")
                              /\ Write(n, x) \/ WriteFailed(n, x)
                              /\ pc'[n] \in {"write", "failRelease"}
    BY <1>6, Moves DEF SynchronizeWrite, Failed, TypeOK, shared, own
  <2>4. todo[n] \subseteq Peers(n)
    BY DEF TypeOK, ControlType, Peers
  <2>5. \A x \in todo[n] : (Visit(n, x, "writing") \/ Visit(n, x, "failing"))
                             => (Visit(n, r, "writing") => r = x)
    BY First DEF Visit, At, TypeOK
  <2> QED BY <2>1, <2>2, <2>3, <2>4, <2>5
<1> QED BY <1>1, <1>2, <1>3, <1>4, <1>5, <1>6 DEF Step, NodeStep, Silent

-----------------------------------------------------------------------------
(* isWriterActive.                                                         *)

\* Only the constructor and the destructor of a node write its isWriterActive.
LEMMA WriterActiveStays ==
  ASSUME NEW n \in Nodes, Step(n), ~ConstructorWrite(n), ~DestructorWrite(n)
  PROVE  UNCHANGED isWriterActive
<1>1. CASE \/ ConstructorRead(n) \/ DestructorRead(n) \/ DestructorLoop(n) \/ Deactivate(n)
           \/ Start(n) \/ Stop(n)
  BY <1>1 DEF ConstructorRead, DestructorRead, DestructorLoop, Deactivate, Start, Stop, words
<1>2. CASE \/ BeginSynchronize(n) \/ SynchronizeReadTest(n) \/ ReadEvent(n)
           \/ UndeliveredEvent(n) \/ ReadEnd(n) \/ SynchronizeReadCheck(n)
           \/ SynchronizeWriteTest(n) \/ SynchronizeWrite(n) \/ ReturnToSender(n)
           \/ \E d \in Nodes : Push(n, d)
  BY <1>2 DEF BeginSynchronize, SynchronizeReadTest, ReadEvent, UndeliveredEvent, ReadEnd,
     SynchronizeReadCheck, SynchronizeWriteTest, SynchronizeWrite, ReturnToSender, Push, words
<1>3. CASE \/ Unlock(n) \/ Lock(n) \/ FailedActive(n) \/ FailedLocked(n) \/ FailedCAS(n)
           \/ Failed(n) \/ FailedRelease(n)
  BY <1>3 DEF Unlock, Lock, FailedActive, FailedLocked, FailedCAS, Failed, FailedRelease, words
<1> QED BY <1>1, <1>2, <1>3 DEF Step, NodeStep

\* The last loop of ~Node starts anew, and is left for the next construction only.
LEMMA ResignedSince ==
  ASSUME TypeOK, NEW n \in Nodes, Step(n), ~DestructorWrite(n), NEW r \in Peers(n),
         Resigned(n, r)'
  PROVE  Resigned(n, r) /\ ~ConstructorWrite(n)
<1> USE DEF Resigned
<1>1. ~ConstructorWrite(n) /\ ~ConstructorRead(n) /\ ~Start(n)
  BY DEF ConstructorWrite, ConstructorRead, Start, TypeOK, ControlType, Unlocking, Goto,
     Foreach, Continue
<1>2. ~DestructorLoop(n)
  BY Moves DEF DestructorLoop, TypeOK, Unlocking, Goto
<1>3. CASE Deactivate(n)
  BY <1>3, <1>1 DEF Deactivate, At
<1>4. CASE Silent(n) /\ ~Deactivate(n)
  BY <1>1, <1>2, <1>4, LoudMoves DEF Silent, QuietLabels, Unlocking, ConstructLabels
<1>5. CASE UndeliveredEvent(n) \/ ReturnToSender(n) \/ \E d \in Nodes : Push(n, d)
  BY <1>5 DEF UndeliveredEvent, ReturnToSender, Push, Visit, Done, At, Unlocking
<1>6. CASE SynchronizeReadTest(n) \/ SynchronizeWriteTest(n)
  <2>1. pc'[n] \in {"reading", "readCheck", "write", "writing"}
    BY <1>6 DEF SynchronizeReadTest, SynchronizeWriteTest, Goto, Continue, TypeOK, ControlType
  <2> QED BY <2>1 DEF Unlocking
<1>7. CASE SynchronizeWrite(n) \/ Failed(n)
  <2>1. pc'[n] \in {"write", "lock", "unlock", "failRelease"}
    BY <1>7 DEF SynchronizeWrite, Failed, Goto, Continue, TypeOK, ControlType
  <2> QED BY <2>1 DEF Unlocking
<1> QED BY <1>1, <1>3, <1>4, <1>5, <1>6, <1>7 DEF Step, NodeStep, Silent

\* A step of the writer keeps what SignalInv says about its isWriterActive.
LEMMA ResignedStep ==
  ASSUME TypeOK, NEW n \in Nodes, Step(n), NEW r \in Peers(n), PairResigned(n, r)
  PROVE  PairResigned(n, r)'
<1>1. CASE ~DestructorWrite(n)
  BY <1>1, ResignedSince, WriterActiveStays DEF PairResigned
<1>2. CASE DestructorWrite(n)
  <2> SUFFICES ASSUME Resigned(n, r)' PROVE ~isWriterActive'[<<n, r>>]
    BY DEF PairResigned
  <2>0. <<n, r>> \in Pairs /\ isWriterActive \in [Pairs -> BOOLEAN]
    BY PairOf DEF Peers, TypeOK, WordsType
  <2>1. ASSUME NEW x \in todo[n], Visit(n, x, "dtorWrite"), Goto(n, "dtorLocked"),
               isWriterActive' = [isWriterActive EXCEPT ![<<n, x>>] = FALSE]
        PROVE  ~isWriterActive'[<<n, r>>]
    <3>1. CASE r = x
      BY <3>1, <2>0, <2>1
    <3>2. CASE r # x
      <4>1. pc[n] = "dtorWrite" /\ pc'[n] = "dtorLocked" /\ todo'[n] = todo[n]
        BY <2>1, Moves DEF Visit, At, TypeOK
      <4>2. ~IsFirst(r, todo[n])
        BY <2>1, <3>2, First DEF Visit, TypeOK
      <4>3. Resigned(n, r)
        BY <4>1, <4>2 DEF Resigned, Unlocking
      <4>4. isWriterActive'[<<n, r>>] = isWriterActive[<<n, r>>]
        BY <2>0, <2>1, <3>2
      <4> QED BY <4>3, <4>4 DEF PairResigned
    <3> QED BY <3>1, <3>2
  <2>2. ASSUME UNCHANGED isWriterActive, NEW x \in todo[n],
               NEW l \in Unlocking \ {"dtorWrite"}, Visit(n, x, l),
               \/ \E k \in Unlocking : Goto(n, k)
               \/ Continue(n, x, "dtorWrite")
        PROVE  ~isWriterActive'[<<n, r>>]
    <3>1. /\ pc[n] = l /\ IsFirst(x, todo[n])
          /\ \/ todo'[n] = todo[n] /\ pc'[n] \in Unlocking
             \/ todo'[n] = todo[n] \ {x} /\ pc'[n] = "dtorWrite"
      BY <2>2, Moves DEF Visit, At, TypeOK
    <3>2. pc'[n] \notin {"deactivate", "down"}
      BY <3>1 DEF Unlocking
    <3>3. r \notin todo[n] \/ r = x \/ IsFirst(r, todo[n])
      BY <3>1, <3>2 DEF Resigned
    <3> QED BY <2>2, <3>1, <3>3 DEF Resigned, PairResigned
  <2>3. ASSUME UNCHANGED isWriterActive, Done(n, "dtorWrite")
        PROVE  ~isWriterActive'[<<n, r>>]
    BY <2>3 DEF Done, At, Resigned, PairResigned, Unlocking
  <2> QED BY <1>2, <2>1, <2>2, <2>3 DEF DestructorWrite, Unlocking, words
<1> QED BY <1>1, <1>2

\* And a step of another node does.
LEMMA OthersActive ==
  ASSUME TypeOK, NEW n \in Nodes, Step(n), NEW m \in Nodes \ {n}, NEW r \in Peers(m)
  PROVE  isWriterActive'[<<m, r>>] = isWriterActive[<<m, r>>]
<1>1. \/ UNCHANGED isWriterActive
      \/ \E x \in Nodes, b \in BOOLEAN : isWriterActive' = [isWriterActive EXCEPT ![<<n, x>>] = b]
  <2>1. todo[n] \subseteq Nodes
    BY DEF TypeOK, ControlType
  <2> QED BY <2>1, WriterActiveStays DEF ConstructorWrite, DestructorWrite, words
<1> QED BY <1>1, PairOf DEF TypeOK, WordsType, Peers

-----------------------------------------------------------------------------
(* The theorems.                                                           *)

\* Nothing is cached and no node is a writer at the start.
LEMMA SignalInit == Init => SignalInv
<1> SUFFICES ASSUME Init, NEW w \in Nodes, NEW r \in Peers(w)
             PROVE  PairSignal(w, r) /\ PairResigned(w, r)
  BY DEF SignalInv
<1>1. <<w, r>> \in Pairs
  BY PairOf DEF Peers
<1> QED BY <1>1 DEF Init, PairSignal, PairResigned, Cached

\* SignalInv is inductive, given the types.
LEMMA SignalNext == TypeOK /\ SignalInv /\ [Next]_vars => SignalInv'
<1> SUFFICES ASSUME TypeOK, SignalInv, [Next]_vars PROVE SignalInv'
  OBVIOUS
<1>1. CASE UNCHANGED vars
  BY <1>1 DEF vars, SignalInv, PairSignal, PairResigned, Cached, Resigned, Visit, At
<1>2. ASSUME NEW n \in Nodes, Step(n), NEW w \in Nodes, NEW r \in Peers(w)
      PROVE  (PairSignal(w, r) /\ PairResigned(w, r))'
  <2>1. CASE w = n
    BY <1>2, <2>1, OthersSignals, SignalStep, ResignedStep DEF SignalInv
  <2>2. CASE w # n
    <3>1. /\ writeSignal'[w] = writeSignal[w] /\ writeCache'[<<w, r>>] = writeCache[<<w, r>>]
          /\ isWriterActive'[<<w, r>>] = isWriterActive[<<w, r>>]
          /\ pc'[w] = pc[w] /\ todo'[w] = todo[w]
      BY <1>2, <2>2, OthersSignals, OthersActive, OthersStay
    <3> QED BY <3>1 DEF SignalInv, PairSignal, PairResigned, Cached, Resigned, Visit, At
  <2> QED BY <2>1, <2>2
<1> QED BY <1>1, <1>2 DEF Next, SignalInv

\* A signal is kept, and what a destroyed node leaves behind is in order.
LEMMA SignalConsequences ==
  ASSUME TypeOK, LockInv, SignalInv
  PROVE  SignalKept /\ CleanWhenDown
<1> SUFFICES ASSUME NEW w \in Nodes, NEW r \in Peers(w)
             PROVE  /\ Cached(<<w, r>>) => r \in writeSignal[w] \/ Visit(w, r, "writing")
                    /\ At(w, "down") => /\ ~isWriteLocked[<<w, r>>] /\ ~isWriterActive[<<w, r>>]
                                       /\ ~Cached(<<w, r>>)
                    /\ At(r, "down") => /\ ~isReaderActive[<<w, r>>]
                                       /\ readerCAS[<<w, r>>] # "ON"
  BY DEF SignalKept, CleanWhenDown, Pairs, Peers, Cached
<1>1. PairSignal(w, r) /\ PairResigned(w, r) /\ PairLock(w, r)
  BY DEF SignalInv, LockInv
<1>2. At(w, "down") => Resigned(w, r) /\ GaveUp(w, r) /\ pc[w] \in QuietLabels
                       /\ ~Visit(w, r, "writing")
  BY DEF At, Visit, Resigned, GaveUp, QuietLabels, ConstructLabels
<1>3. At(r, "down") => ~IsOn(w, r) /\ ~IsActive(w, r)
  BY DEF At, Visit, IsOn, IsActive, InLoop, ReadLabels, FlushLabels
<1> QED BY <1>1, <1>2, <1>3 DEF PairSignal, PairResigned, PairLock

\* The invariant of the signals and of isWriterActive, for any number of nodes
THEOREM SignalInvariant == Spec => []SignalInv
BY TypeCorrect, SignalInit, SignalNext, PTL DEF Spec

\* What waits in a cache, an event or a request to look for events turned down, has a
\* signal or is being written, for any number of nodes, starts and events (writeSignal of
\* Node, which the constructor resets).
THEOREM SignalsKept == Spec => []SignalKept
BY TypeCorrect, Invariant, SignalInvariant, SignalConsequences, PTL DEF Inv

\* Whatever its peers do meanwhile, a node that has been destroyed has nothing cached, no
\* lock and no role (~Node), and so can be constructed again.
THEOREM CleanOnceDown == Spec => []CleanWhenDown
BY TypeCorrect, Invariant, SignalInvariant, SignalConsequences, PTL DEF Inv

-----------------------------------------------------------------------------
(* Events: chains and what a channel keeps true.                           *)

\* Increasing, and so no event twice
Ascending(s) == \A i, j \in DOMAIN s : i < j => s[i] < s[j]

\* What the channel of a pair keeps true of its queue q, the events turned down t, the
\* fates f and the events without a source o: NoOvertaking and EventsAccounted follow.
Accounted(q, t, f, o) ==
  /\ \A e : InChain(q, e) \/ InChain(t, e) <=> e \in DOMAIN f /\ f[e] = "pending"
  /\ \A e : ~(InChain(q, e) /\ InChain(t, e))
  /\ IsInjective(t)
  /\ Ascending(q)
  /\ \A e \in DOMAIN f : f[e] = "delivered" => \A x : InChain(q, x) => e < x
  /\ \A e \in DOMAIN f : f[e] = "discarded" => e \in o

\* Sequences of the same length and the same elements are the same.
LEMMA SameSeq ==
  ASSUME NEW S, NEW s \in Seq(S), NEW t \in Seq(S), Len(s) = Len(t),
         \A i \in 1 .. Len(s) : s[i] = t[i]
  PROVE  s = t
BY SeqEqual

\* An ascending chain holds no event twice.
LEMMA AscendingInjective ==
  ASSUME NEW s \in Seq(Nat), Ascending(s)
  PROVE  IsInjective(s)
<1>1. Len(s) \in Nat /\ DOMAIN s = 1 .. Len(s) /\ \A i \in 1 .. Len(s) : s[i] \in Nat
  BY LenProperties, ElementOfSeq
<1> QED BY <1>1 DEF Ascending, IsInjective

\* It stays ascending with a greater event at its end ...
LEMMA AscendingAppend ==
  ASSUME NEW s \in Seq(Nat), NEW a \in Nat, Ascending(s), \A b : InChain(s, b) => b < a
  PROVE  Ascending(Append(s, a))
<1>1. /\ Len(s) \in Nat /\ DOMAIN s = 1 .. Len(s)
      /\ DOMAIN Append(s, a) = 1 .. Len(s) + 1
      /\ \A i \in 1 .. Len(s) : Append(s, a)[i] = s[i]
      /\ Append(s, a)[Len(s) + 1] = a
  BY AppendProperties, LenProperties
<1> QED BY <1>1 DEF Ascending, InChain

\* ... and without its first event, which is the least.
LEMMA AscendingTail ==
  ASSUME NEW s \in Seq(Nat), Ascending(s), s # << >>
  PROVE  /\ Ascending(Tail(s))
         /\ \A b : InChain(Tail(s), b) => Head(s) < b
<1>1. /\ Len(s) \in Nat \ {0} /\ DOMAIN s = 1 .. Len(s)
      /\ \A i \in 1 .. Len(s) : s[i] \in Nat
  BY EmptySeq, LenProperties, ElementOfSeq
<1>2. Head(s) = s[1] /\ Tail(s) \in Seq(Nat) /\ Len(Tail(s)) = Len(s) - 1
  BY <1>1, HeadTailProperties
<1>3. \A i \in 1 .. Len(s) - 1 : Tail(s)[i] = s[i + 1]
  BY <1>1, HeadTailProperties
<1>4. DOMAIN Tail(s) = 1 .. Len(s) - 1
  BY <1>2, LenProperties
<1> DEFINE t == Tail(s)
<1>5. DOMAIN t = 1 .. Len(s) - 1 /\ \A i \in 1 .. Len(s) - 1 : t[i] = s[i + 1]
  BY <1>3, <1>4
<1> HIDE DEF t
<1>6. Ascending(t)
  <2> SUFFICES ASSUME NEW i \in 1 .. Len(s) - 1, NEW j \in 1 .. Len(s) - 1, i < j
               PROVE  t[i] < t[j]
    BY <1>5 DEF Ascending
  <2>1. i + 1 \in 1 .. Len(s) /\ j + 1 \in 1 .. Len(s) /\ i + 1 < j + 1 BY <1>1
  <2> QED BY <1>1, <1>5, <2>1 DEF Ascending
<1>7. ASSUME NEW i \in 1 .. Len(s) - 1 PROVE s[1] < t[i]
  <2>1. i + 1 \in 1 .. Len(s) /\ 1 \in 1 .. Len(s) /\ 1 < i + 1 BY <1>1
  <2> QED BY <1>1, <1>5, <2>1 DEF Ascending
<1> QED BY <1>2, <1>5, <1>6, <1>7 DEF InChain, t

\* The part of a chain from c on
LEMMA Suffix ==
  ASSUME NEW s \in Seq(Nat), NEW c \in Nat \ {0}, c <= Len(s) + 1
  PROVE  /\ SubSeq(s, c, Len(s)) \in Seq(Nat)
         /\ Len(SubSeq(s, c, Len(s))) = Len(s) + 1 - c
         /\ \A i \in 1 .. Len(s) + 1 - c : SubSeq(s, c, Len(s))[i] = s[c - 1 + i]
<1>1. Len(s) \in Nat /\ c \in Int /\ Len(s) \in Int /\ \A i \in c .. Len(s) : s[i] \in Nat
  BY LenProperties, ElementOfSeq
<1> QED BY <1>1, SubSeqProperties

\* The part of a chain up to k
LEMMA Prefix ==
  ASSUME NEW s \in Seq(Nat), NEW k \in 0 .. Len(s)
  PROVE  /\ SubSeq(s, 1, k) \in Seq(Nat)
         /\ Len(SubSeq(s, 1, k)) = k
         /\ \A i \in 1 .. k : SubSeq(s, 1, k)[i] = s[i]
<1>1. Len(s) \in Nat /\ 1 \in Int /\ k \in Int /\ \A i \in 1 .. k : s[i] \in Nat
  BY LenProperties, ElementOfSeq
<1> QED BY <1>1, SubSeqProperties

\* The whole chain and nothing are such parts.
LEMMA WholeSuffix ==
  ASSUME NEW s \in Seq(Nat)
  PROVE  SubSeq(s, 1, Len(s)) = s /\ SubSeq(s, Len(s) + 1, Len(s)) = << >>
<1>1. Len(s) \in Nat
  BY LenProperties
<1>2. SubSeq(s, 1, Len(s)) = s
  BY <1>1, Prefix, SameSeq
<1>3. Len(SubSeq(s, Len(s) + 1, Len(s))) = 0 /\ SubSeq(s, Len(s) + 1, Len(s)) \in Seq(Nat)
  BY <1>1, Suffix
<1> QED BY <1>2, <1>3, EmptySeq

\* Erasing an event moves up the ones behind it.
LEMMA EraseChain ==
  ASSUME NEW s \in Seq(Nat), NEW c \in 1 .. Len(s)
  PROVE  /\ Erase(s, c) \in Seq(Nat)
         /\ Len(Erase(s, c)) = Len(s) - 1
         /\ \A i \in 1 .. Len(s) - 1 : Erase(s, c)[i] = IF i < c THEN s[i] ELSE s[i + 1]
<1>1. Len(s) \in Nat /\ c - 1 \in 0 .. Len(s) /\ c + 1 \in Nat \ {0} /\ c + 1 <= Len(s) + 1
  BY LenProperties
<1> DEFINE u == SubSeq(s, 1, c - 1)
           v == SubSeq(s, c + 1, Len(s))
<1>2. /\ u \in Seq(Nat) /\ Len(u) = c - 1
      /\ \A i \in 1 .. c - 1 : u[i] = s[i]
  BY <1>1, Prefix
<1>3. /\ v \in Seq(Nat) /\ Len(v) = Len(s) - c
      /\ \A i \in 1 .. Len(s) - c : v[i] = s[c + i]
  <2> DEFINE d == c + 1
  <2>1. /\ v \in Seq(Nat) /\ Len(v) = Len(s) + 1 - d
        /\ \A i \in 1 .. Len(s) + 1 - d : v[i] = s[d - 1 + i]
    <3> HIDE DEF d
    <3> SUFFICES v = SubSeq(s, d, Len(s)) /\ d \in Nat \ {0} /\ d <= Len(s) + 1
      BY Suffix
    <3> QED BY <1>1 DEF d
  <2> QED BY <1>1, <2>1
<1> HIDE DEF u, v
<1>4. Erase(s, c) = u \o v
  BY DEF Erase, u, v
<1> DEFINE t == u \o v
<1>5. /\ t \in Seq(Nat) /\ Len(t) = Len(u) + Len(v)
      /\ \A i \in 1 .. Len(u) + Len(v) : t[i] = IF i <= Len(u) THEN u[i] ELSE v[i - Len(u)]
  BY <1>2, <1>3, ConcatProperties
<1> HIDE DEF t
<1>6. Len(t) = Len(s) - 1
  BY <1>1, <1>2, <1>3, <1>5
<1>7. ASSUME NEW i \in 1 .. Len(s) - 1 PROVE t[i] = IF i < c THEN s[i] ELSE s[i + 1]
  <2>0. i \in 1 .. Len(u) + Len(v) BY <1>1, <1>2, <1>3
  <2>1. CASE i < c
    <3>1. i <= Len(u) /\ i \in 1 .. c - 1 BY <1>1, <1>2, <2>1
    <3>2. t[i] = u[i] BY <1>5, <2>0, <3>1
    <3> QED BY <1>2, <2>1, <3>1, <3>2
  <2>2. CASE ~(i < c)
    <3>1. ~(i <= Len(u)) /\ i - Len(u) \in 1 .. Len(s) - c /\ c + (i - Len(u)) = i + 1
      BY <1>1, <1>2, <2>2
    <3>2. t[i] = v[i - Len(u)] BY <1>5, <2>0, <3>1
    <3>3. v[i - Len(u)] = s[i + 1] BY <1>3, <3>1
    <3> QED BY <2>2, <3>2, <3>3
  <2> QED BY <2>1, <2>2
<1> QED BY <1>4, <1>5, <1>6, <1>7 DEF t

\* An ascending chain stays ascending, and loses the event erased.
LEMMA EraseAscending ==
  ASSUME NEW s \in Seq(Nat), NEW c \in 1 .. Len(s), Ascending(s)
  PROVE  /\ Ascending(Erase(s, c))
         /\ \A i \in DOMAIN Erase(s, c) : Erase(s, c)[i] # s[c]
<1>1. Len(s) \in Nat /\ DOMAIN s = 1 .. Len(s) /\ \A i \in 1 .. Len(s) : s[i] \in Nat
  BY LenProperties, ElementOfSeq
<1> DEFINE t == Erase(s, c)
<1>2. /\ DOMAIN t = 1 .. Len(s) - 1
      /\ \A i \in 1 .. Len(s) - 1 : t[i] = IF i < c THEN s[i] ELSE s[i + 1]
  BY EraseChain, LenProperties
<1> HIDE DEF t
<1>3. Ascending(t)
  <2> SUFFICES ASSUME NEW i \in 1 .. Len(s) - 1, NEW j \in 1 .. Len(s) - 1, i < j
               PROVE  t[i] < t[j]
    BY <1>2 DEF Ascending
  <2> DEFINE k == IF i < c THEN i ELSE i + 1
             l == IF j < c THEN j ELSE j + 1
  <2>1. k \in 1 .. Len(s) /\ l \in 1 .. Len(s) /\ k < l BY <1>1
  <2>2. t[i] = s[k] /\ t[j] = s[l] BY <1>2
  <2> QED BY <1>1, <2>1, <2>2 DEF Ascending
<1>4. IsInjective(s)
  BY AscendingInjective
<1>5. ASSUME NEW i \in 1 .. Len(s) - 1 PROVE t[i] # s[c]
  <2> DEFINE k == IF i < c THEN i ELSE i + 1
  <2>1. k \in 1 .. Len(s) /\ k # c BY <1>1
  <2>2. t[i] = s[k] BY <1>2
  <2> QED BY <1>1, <1>4, <2>1, <2>2 DEF IsInjective
<1> QED BY <1>2, <1>3, <1>5 DEF t

\* Taking the first event of a suffix, by moving on or by erasing it
LEMMA SuffixTail ==
  ASSUME NEW s \in Seq(Nat), NEW c \in 1 .. Len(s)
  PROVE  /\ SubSeq(s, c, Len(s)) # << >>
         /\ Head(SubSeq(s, c, Len(s))) = s[c]
         /\ Tail(SubSeq(s, c, Len(s))) = SubSeq(s, c + 1, Len(s))
         /\ Tail(SubSeq(s, c, Len(s))) = SubSeq(Erase(s, c), c, Len(Erase(s, c)))
<1>1. Len(s) \in Nat /\ c \in Nat \ {0} /\ c <= Len(s) + 1
  BY LenProperties
<1> DEFINE u == SubSeq(s, c, Len(s))
           d == c + 1
           v == SubSeq(s, d, Len(s))
           t == Erase(s, c)
           x == SubSeq(t, c, Len(t))
<1>2. /\ u \in Seq(Nat) /\ Len(u) = Len(s) + 1 - c
      /\ \A i \in 1 .. Len(s) + 1 - c : u[i] = s[c - 1 + i]
  BY <1>1, Suffix
<1>3. /\ v \in Seq(Nat) /\ Len(v) = Len(s) + 1 - d
      /\ \A i \in 1 .. Len(s) + 1 - d : v[i] = s[d - 1 + i]
  <2>1. d \in Nat \ {0} /\ d <= Len(s) + 1 BY <1>1
  <2> HIDE DEF d
  <2> QED BY <2>1, Suffix
<1>4. /\ t \in Seq(Nat) /\ Len(t) = Len(s) - 1
      /\ \A i \in 1 .. Len(s) - 1 : t[i] = IF i < c THEN s[i] ELSE s[i + 1]
  BY EraseChain
<1> HIDE DEF u, v, t
<1>5. /\ x \in Seq(Nat) /\ Len(x) = Len(t) + 1 - c
      /\ \A i \in 1 .. Len(t) + 1 - c : x[i] = t[c - 1 + i]
  <2>1. c <= Len(t) + 1 BY <1>1, <1>4
  <2> QED BY <1>1, <1>4, <2>1, Suffix
<1> HIDE DEF x
<1>6. u # << >>
  BY <1>1, <1>2, EmptySeq
<1> DEFINE y == Tail(u)
<1>7. /\ Head(u) = u[1] /\ y \in Seq(Nat) /\ Len(y) = Len(u) - 1
      /\ \A i \in 1 .. Len(u) - 1 : y[i] = u[i + 1]
  BY <1>2, <1>6, HeadTailProperties
<1> HIDE DEF y
<1>8. Head(u) = s[c]
  <2>1. 1 \in 1 .. Len(s) + 1 - c /\ c - 1 + 1 = c BY <1>1
  <2> QED BY <1>2, <1>7, <2>1
<1>9. Len(y) = Len(s) - c /\ Len(v) = Len(s) - c /\ Len(x) = Len(s) - c
  <2>1. Len(y) = Len(s) - c BY <1>1, <1>2, <1>7
  <2>2. Len(v) = Len(s) - c BY <1>1, <1>3
  <2>3. Len(x) = Len(s) - c BY <1>1, <1>4, <1>5
  <2> QED BY <2>1, <2>2, <2>3
<1>10. ASSUME NEW i \in 1 .. Len(s) - c PROVE y[i] = s[c + i] /\ v[i] = s[c + i] /\ x[i] = s[c + i]
  <2>1. i \in 1 .. Len(u) - 1 /\ i + 1 \in 1 .. Len(s) + 1 - c /\ c - 1 + (i + 1) = c + i
    BY <1>1, <1>2
  <2>2. y[i] = s[c + i] BY <1>2, <1>7, <2>1
  <2>3. i \in 1 .. Len(s) + 1 - d /\ d - 1 + i = c + i BY <1>1
  <2>4. v[i] = s[c + i] BY <1>3, <2>3
  <2>5. i \in 1 .. Len(t) + 1 - c BY <1>1, <1>4
  <2>6. c - 1 + i \in 1 .. Len(s) - 1 /\ ~(c - 1 + i < c) /\ (c - 1 + i) + 1 = c + i
    BY <1>1
  <2>7. x[i] = s[c + i] BY <1>4, <1>5, <2>5, <2>6
  <2> QED BY <2>2, <2>4, <2>7
<1>11. y = v
  <2>1. Len(y) = Len(v) /\ \A i \in 1 .. Len(y) : y[i] = v[i] BY <1>9, <1>10
  <2> QED BY <1>3, <1>7, <2>1, SameSeq
<1>12. y = x
  <2>1. Len(y) = Len(x) /\ \A i \in 1 .. Len(y) : y[i] = x[i] BY <1>9, <1>10
  <2> QED BY <1>5, <1>7, <2>1, SameSeq
<1> QED BY <1>6, <1>8, <1>11, <1>12 DEF u, v, t, x, y

\* Two chains in a row: a new last event, the first one gone, and the two parts
LEMMA ConcatAppend ==
  ASSUME NEW s \in Seq(Nat), NEW t \in Seq(Nat), NEW a \in Nat
  PROVE  s \o Append(t, a) = Append(s \o t, a)
<1>1. Len(s) \in Nat /\ Len(t) \in Nat
  BY LenProperties
<1>2. /\ s \o t \in Seq(Nat) /\ Len(s \o t) = Len(s) + Len(t)
      /\ \A i \in 1 .. Len(s) + Len(t) : (s \o t)[i] = IF i <= Len(s) THEN s[i] ELSE t[i - Len(s)]
  BY ConcatProperties
<1>3. /\ Append(t, a) \in Seq(Nat) /\ Len(Append(t, a)) = Len(t) + 1
      /\ \A i \in 1 .. Len(t) : Append(t, a)[i] = t[i]
      /\ Append(t, a)[Len(t) + 1] = a
  BY AppendProperties
<1> DEFINE u == Append(t, a)
           x == s \o t
<1>4. /\ s \o u \in Seq(Nat) /\ Len(s \o u) = Len(s) + Len(u)
      /\ \A i \in 1 .. Len(s) + Len(u) : (s \o u)[i] = IF i <= Len(s) THEN s[i] ELSE u[i - Len(s)]
  BY <1>3, ConcatProperties
<1>5. /\ Append(x, a) \in Seq(Nat) /\ Len(Append(x, a)) = Len(x) + 1
      /\ \A i \in 1 .. Len(x) : Append(x, a)[i] = x[i]
      /\ Append(x, a)[Len(x) + 1] = a
  BY <1>2, AppendProperties
<1> HIDE DEF u, x
<1>6. Len(s \o u) = Len(Append(x, a))
  BY <1>1, <1>2, <1>3, <1>4, <1>5 DEF u, x
<1>7. ASSUME NEW i \in 1 .. Len(s \o u) PROVE (s \o u)[i] = Append(x, a)[i]
  <2>1. CASE i <= Len(s)
    BY <1>1, <1>2, <1>4, <1>5, <2>1 DEF x
  <2>2. CASE ~(i <= Len(s)) /\ i <= Len(s) + Len(t)
    <3>1. i - Len(s) \in 1 .. Len(t) BY <1>1, <2>2
    <3> QED BY <1>1, <1>2, <1>3, <1>4, <1>5, <2>2, <3>1 DEF x, u
  <2>3. CASE ~(i <= Len(s) + Len(t))
    <3>1. Len(s \o u) = Len(s) + Len(t) + 1 BY <1>1, <1>3, <1>4 DEF u
    <3>4. i = Len(s) + Len(t) + 1 BY <1>1, <2>3, <3>1
    <3>2. ~(i <= Len(s)) /\ i - Len(s) = Len(t) + 1 BY <1>1, <3>4
    <3> QED BY <1>2, <1>3, <1>4, <1>5, <3>4, <3>2 DEF x, u
  <2> QED BY <2>1, <2>2, <2>3
<1> QED BY <1>4, <1>5, <1>6, <1>7, SameSeq DEF u, x

\* Taking the first event of two chains in a row takes it of the first one.
LEMMA ConcatTail ==
  ASSUME NEW s \in Seq(Nat), NEW t \in Seq(Nat), s # << >>
  PROVE  /\ s \o t # << >>
         /\ Head(s \o t) = Head(s)
         /\ Tail(s \o t) = Tail(s) \o t
<1>1. Len(s) \in Nat \ {0} /\ Len(t) \in Nat
  BY LenProperties, EmptySeq
<1> DEFINE x == s \o t
           y == Tail(s)
<1>2. /\ x \in Seq(Nat) /\ Len(x) = Len(s) + Len(t)
      /\ \A i \in 1 .. Len(s) + Len(t) : x[i] = IF i <= Len(s) THEN s[i] ELSE t[i - Len(s)]
  BY ConcatProperties
<1>3. /\ Head(s) = s[1] /\ y \in Seq(Nat) /\ Len(y) = Len(s) - 1
      /\ \A i \in 1 .. Len(s) - 1 : y[i] = s[i + 1]
  BY <1>1, HeadTailProperties
<1> HIDE DEF x, y
<1>4. x # << >>
  BY <1>1, <1>2, EmptySeq
<1>5. /\ Head(x) = x[1] /\ Tail(x) \in Seq(Nat) /\ Len(Tail(x)) = Len(x) - 1
      /\ \A i \in 1 .. Len(x) - 1 : Tail(x)[i] = x[i + 1]
  BY <1>2, <1>4, HeadTailProperties
<1>6. /\ y \o t \in Seq(Nat) /\ Len(y \o t) = Len(y) + Len(t)
      /\ \A i \in 1 .. Len(y) + Len(t) : (y \o t)[i] = IF i <= Len(y) THEN y[i] ELSE t[i - Len(y)]
  BY <1>3, ConcatProperties
<1>7. Head(x) = Head(s)
  BY <1>1, <1>2, <1>3, <1>5
<1>8. Len(Tail(x)) = Len(y \o t)
  BY <1>1, <1>2, <1>3, <1>5, <1>6
<1>9. ASSUME NEW i \in 1 .. Len(Tail(x)) PROVE Tail(x)[i] = (y \o t)[i]
  <2>0. Tail(x)[i] = x[i + 1] /\ i + 1 \in 1 .. Len(s) + Len(t) BY <1>1, <1>2, <1>5
  <2>1. CASE i <= Len(y)
    <3>1. i \in 1 .. Len(s) - 1 /\ i + 1 <= Len(s) BY <1>1, <1>3, <2>1
    <3>2. x[i + 1] = s[i + 1] /\ y[i] = s[i + 1] BY <1>2, <1>3, <2>0, <3>1
    <3>3. i \in 1 .. Len(y) + Len(t) BY <1>1, <1>3, <3>1
    <3> QED BY <1>6, <2>0, <2>1, <3>2, <3>3
  <2>2. CASE ~(i <= Len(y))
    <3>1. ~(i + 1 <= Len(s)) /\ (i + 1) - Len(s) = i - Len(y) BY <1>1, <1>3, <2>2
    <3> QED BY <1>1, <1>2, <1>3, <1>6, <1>8, <2>0, <2>2, <3>1
  <2> QED BY <2>1, <2>2
<1>10. Tail(x) = y \o t
  BY <1>5, <1>6, <1>8, <1>9, SameSeq
<1> QED BY <1>4, <1>7, <1>10 DEF x, y

\* Two chains in a row can be taken apart again.
LEMMA ConcatParts ==
  ASSUME NEW s \in Seq(Nat), NEW t \in Seq(Nat)
  PROVE  /\ s \o t \in Seq(Nat) /\ Len(s) \in 0 .. Len(s \o t)
         /\ SubSeq(s \o t, 1, Len(s)) = s
         /\ SubSeq(s \o t, Len(s) + 1, Len(s \o t)) = t
         /\ s \o << >> = s /\ << >> \o s = s
<1>1. Len(s) \in Nat /\ Len(t) \in Nat
  BY LenProperties
<1> DEFINE x == s \o t
<1>2. /\ x \in Seq(Nat) /\ Len(x) = Len(s) + Len(t)
      /\ \A i \in 1 .. Len(s) + Len(t) : x[i] = IF i <= Len(s) THEN s[i] ELSE t[i - Len(s)]
  BY ConcatProperties
<1> HIDE DEF x
<1>3. SubSeq(x, 1, Len(s)) = s
  <2>1. Len(s) \in 0 .. Len(x) BY <1>1, <1>2
  <2>2. /\ SubSeq(x, 1, Len(s)) \in Seq(Nat) /\ Len(SubSeq(x, 1, Len(s))) = Len(s)
        /\ \A i \in 1 .. Len(s) : SubSeq(x, 1, Len(s))[i] = x[i]
    BY <1>2, <2>1, Prefix
  <2>3. \A i \in 1 .. Len(s) : SubSeq(x, 1, Len(s))[i] = s[i] BY <1>1, <1>2, <2>2
  <2> QED BY <2>2, <2>3, SameSeq
<1>4. SubSeq(x, Len(s) + 1, Len(x)) = t
  <2> DEFINE y == SubSeq(x, Len(s) + 1, Len(x))
  <2>1. Len(s) + 1 \in Nat \ {0} /\ Len(s) + 1 <= Len(x) + 1 BY <1>1, <1>2
  <2>2. /\ y \in Seq(Nat) /\ Len(y) = Len(x) + 1 - (Len(s) + 1)
        /\ \A i \in 1 .. Len(x) + 1 - (Len(s) + 1) : y[i] = x[(Len(s) + 1) - 1 + i]
    BY <1>2, <2>1, Suffix
  <2> HIDE DEF y
  <2>3. Len(y) = Len(t) BY <1>1, <1>2, <2>2
  <2>4. ASSUME NEW i \in 1 .. Len(t) PROVE y[i] = t[i]
    <3>1. y[i] = x[Len(s) + i] BY <1>1, <1>2, <2>2
    <3>2. Len(s) + i \in 1 .. Len(s) + Len(t) /\ ~(Len(s) + i <= Len(s)) /\ Len(s) + i - Len(s) = i
      BY <1>1
    <3> QED BY <1>2, <3>1, <3>2
  <2>5. y = t BY <2>2, <2>3, <2>4, SameSeq
  <2> QED BY <2>5 DEF y
<1>5. Len(s) \in 0 .. Len(x)
  BY <1>1, <1>2
<1>6. s \o << >> = s /\ << >> \o s = s
  BY ConcatEmptySeq
<1> QED BY <1>2, <1>3, <1>4, <1>5, <1>6 DEF x

-----------------------------------------------------------------------------
(* The channel keeps account of its events.                                *)

\* A new event is the greatest.
LEMMA AccountedSend ==
  ASSUME NEW q \in Seq(Nat), NEW t \in Seq(Nat), NEW f \in Seq(Fates), NEW o,
         Accounted(q, t, f, o)
  PROVE  Accounted(Append(q, Len(f) + 1), t, Append(f, "pending"), o)
<1> DEFINE a == Len(f) + 1
           g == Append(f, "pending")
<1>1. Len(f) \in Nat /\ DOMAIN f = 1 .. Len(f) /\ a \in Nat
  BY LenProperties
<1>2. /\ DOMAIN g = 1 .. a /\ g[a] = "pending"
      /\ \A e \in 1 .. Len(f) : g[e] = f[e]
  BY <1>1, AppendProperties, LenProperties DEF Fates
<1> HIDE DEF g
<1>3. \A e : InChain(q, e) \/ InChain(t, e) => e \in 1 .. Len(f)
  BY <1>1 DEF Accounted
<1>4. ~InChain(q, a) /\ ~InChain(t, a) /\ \A e \in 1 .. Len(f) : e # a
  BY <1>1, <1>3
<1>5. \A e : InChain(Append(q, a), e) <=> InChain(q, e) \/ e = a
  BY <1>1, AppendChain
<1>6. Ascending(Append(q, a))
  <2>1. \A b : InChain(q, b) => b < a
    <3> SUFFICES ASSUME NEW b \in 1 .. Len(f) PROVE b < a
      BY <1>3
    <3> QED BY <1>1
  <2> QED BY <1>1, <2>1, AscendingAppend DEF Accounted
<1>7. \A e \in 1 .. a : e = a \/ (e \in 1 .. Len(f) /\ e < a)
  BY <1>1
<1> HIDE DEF a
<1>8. \A e : InChain(Append(q, a), e) \/ InChain(t, e) <=> e \in DOMAIN g /\ g[e] = "pending"
  <2>1. \A e : InChain(q, e) \/ InChain(t, e) <=> e \in 1 .. Len(f) /\ f[e] = "pending"
    BY <1>1 DEF Accounted
  <2>2. \A e : e \in 1 .. a <=> e = a \/ e \in 1 .. Len(f)
    BY <1>1, <1>7 DEF a
  <2> QED BY <1>2, <1>5, <2>1, <2>2
<1>9. \A e : ~(InChain(Append(q, a), e) /\ InChain(t, e))
  BY <1>4, <1>5 DEF Accounted
<1>10. \A e \in DOMAIN g : g[e] = "delivered" => \A x : InChain(Append(q, a), x) => e < x
  BY <1>1, <1>2, <1>5, <1>7 DEF Accounted
<1>11. \A e \in DOMAIN g : g[e] = "discarded" => e \in o
  BY <1>1, <1>2, <1>7 DEF Accounted
<1> QED BY <1>6, <1>8, <1>9, <1>10, <1>11 DEF Accounted, a, g

\* The oldest event is delivered.
LEMMA AccountedDeliver ==
  ASSUME NEW q \in Seq(Nat), NEW t \in Seq(Nat), NEW f \in Seq(Fates), NEW o,
         Accounted(q, t, f, o), q # << >>
  PROVE  Accounted(Tail(q), t, [f EXCEPT ![Head(q)] = "delivered"], o)
<1> DEFINE h == Head(q)
           g == [f EXCEPT ![h] = "delivered"]
<1>1. /\ h \in Nat /\ InChain(q, h)
      /\ \A b : InChain(q, b) <=> InChain(Tail(q), b) \/ b = h
  BY HeadChain
<1>2. Ascending(Tail(q)) /\ \A b : InChain(Tail(q), b) => h < b
  BY AscendingTail DEF Accounted
<1>3. ~InChain(Tail(q), h)
  BY <1>1, <1>2
<1>4. /\ DOMAIN g = DOMAIN f /\ h \in DOMAIN f /\ g[h] = "delivered"
      /\ \A e \in DOMAIN f : e # h => g[e] = f[e]
  BY <1>1 DEF Accounted
<1> HIDE DEF h, g
<1>5. \A e : InChain(Tail(q), e) \/ InChain(t, e) <=> e \in DOMAIN g /\ g[e] = "pending"
  BY <1>1, <1>3, <1>4 DEF Accounted
<1>6. \A e : ~(InChain(Tail(q), e) /\ InChain(t, e))
  BY <1>1 DEF Accounted
<1>7. \A e \in DOMAIN g : g[e] = "delivered" => \A x : InChain(Tail(q), x) => e < x
  BY <1>1, <1>2, <1>4 DEF Accounted
<1>8. \A e \in DOMAIN g : g[e] = "discarded" => e \in o
  BY <1>4 DEF Accounted
<1> QED BY <1>2, <1>5, <1>6, <1>7, <1>8 DEF Accounted, h, g

\* The oldest event is turned down.
LEMMA AccountedReject ==
  ASSUME NEW q \in Seq(Nat), NEW t \in Seq(Nat), NEW f, NEW o,
         Accounted(q, t, f, o), q # << >>
  PROVE  Accounted(Tail(q), Append(t, Head(q)), f, o)
<1> DEFINE h == Head(q)
           u == Append(t, h)
<1>1. /\ h \in Nat /\ InChain(q, h)
      /\ \A b : InChain(q, b) <=> InChain(Tail(q), b) \/ b = h
  BY HeadChain
<1>2. Ascending(Tail(q)) /\ \A b : InChain(Tail(q), b) => h < b
  BY AscendingTail DEF Accounted
<1>3. ~InChain(Tail(q), h)
  BY <1>1, <1>2
<1>4. /\ \A b : InChain(u, b) <=> InChain(t, b) \/ b = h
      /\ IsInjective(t) /\ ~InChain(t, h) => IsInjective(u)
  BY <1>1, AppendChain
<1>5. IsInjective(u)
  BY <1>1, <1>4 DEF Accounted
<1> HIDE DEF h, u
<1>6. \A e : InChain(Tail(q), e) \/ InChain(u, e) <=> e \in DOMAIN f /\ f[e] = "pending"
  BY <1>1, <1>4 DEF Accounted
<1>7. \A e : ~(InChain(Tail(q), e) /\ InChain(u, e))
  BY <1>1, <1>3, <1>4 DEF Accounted
<1>8. \A e \in DOMAIN f : f[e] = "delivered" => \A x : InChain(Tail(q), x) => e < x
  BY <1>1 DEF Accounted
<1> QED BY <1>2, <1>5, <1>6, <1>7, <1>8 DEF Accounted, h, u

\* An event that was delivered is sent back after all.
LEMMA AccountedRecall ==
  ASSUME NEW q \in Seq(Nat), NEW t \in Seq(Nat), NEW f \in Seq(Fates), NEW o,
         Accounted(q, t, f, o), NEW e \in DOMAIN f, f[e] = "delivered"
  PROVE  Accounted(q, Append(t, e), [f EXCEPT ![e] = "pending"], o)
<1> DEFINE g == [f EXCEPT ![e] = "pending"]
           u == Append(t, e)
<1>1. e \in Nat
  BY LenProperties
<1>2. /\ \A b : InChain(u, b) <=> InChain(t, b) \/ b = e
      /\ IsInjective(t) /\ ~InChain(t, e) => IsInjective(u)
  BY <1>1, AppendChain
<1>3. ~InChain(q, e) /\ ~InChain(t, e)
  BY DEF Accounted
<1>4. DOMAIN g = DOMAIN f /\ g[e] = "pending" /\ \A x \in DOMAIN f : x # e => g[x] = f[x]
  OBVIOUS
<1> HIDE DEF g, u
<1>5. \A x : InChain(q, x) \/ InChain(u, x) <=> x \in DOMAIN g /\ g[x] = "pending"
  BY <1>2, <1>4 DEF Accounted
<1>6. \A x : ~(InChain(q, x) /\ InChain(u, x))
  BY <1>2, <1>3 DEF Accounted
<1>7. IsInjective(u) /\ Ascending(q)
  BY <1>2, <1>3 DEF Accounted
<1>8. \A y \in DOMAIN g : g[y] = "delivered" => \A x : InChain(q, x) => y < x
  BY <1>4 DEF Accounted
<1>9. \A y \in DOMAIN g : g[y] = "discarded" => y \in o
  BY <1>4 DEF Accounted
<1> QED BY <1>5, <1>6, <1>7, <1>8, <1>9 DEF Accounted, g, u

\* g is f once the events of S went back.
WentBack(f, S, o, g) ==
  /\ g \in Seq(Fates) /\ Len(g) = Len(f)
  /\ \A e \in DOMAIN f : g[e] = IF e \notin S THEN f[e]
                                ELSE IF e \in o THEN "discarded" ELSE "returned"

\* The events turned down and the first k of the queue go back.
LEMMA AccountedBack ==
  ASSUME NEW q \in Seq(Nat), NEW t \in Seq(Nat), NEW f \in Seq(Fates), NEW o,
         Accounted(q, t, f, o), NEW k \in 0 .. Len(q), NEW S, NEW g,
         \A e : e \in S <=> InChain(t, e) \/ InChain(SubSeq(q, 1, k), e),
         WentBack(f, S, o, g)
  PROVE  /\ SubSeq(q, k + 1, Len(q)) \in Seq(Nat)
         /\ Accounted(SubSeq(q, k + 1, Len(q)), << >>, g, o)
<1> DEFINE a == SubSeq(q, 1, k)
           b == SubSeq(q, k + 1, Len(q))
<1>1. /\ Len(q) \in Nat /\ DOMAIN q = 1 .. Len(q) /\ Len(f) \in Nat /\ DOMAIN f = 1 .. Len(f)
      /\ DOMAIN g = DOMAIN f /\ \A i \in 1 .. Len(q) : q[i] \in Nat
  BY LenProperties, ElementOfSeq DEF WentBack
<1>2. /\ DOMAIN a = 1 .. k
      /\ \A i \in 1 .. k : a[i] = q[i]
  BY Prefix, LenProperties
<1>3. /\ b \in Seq(Nat) /\ DOMAIN b = 1 .. Len(q) - k
      /\ \A i \in 1 .. Len(q) - k : b[i] = q[k + i]
  <2> DEFINE d == k + 1
             c == SubSeq(q, d, Len(q))
  <2>1. d \in Nat \ {0} /\ d <= Len(q) + 1 BY <1>1
  <2>2. /\ c \in Seq(Nat) /\ Len(c) = Len(q) + 1 - d
        /\ \A i \in 1 .. Len(q) + 1 - d : c[i] = q[d - 1 + i]
    <3> HIDE DEF d
    <3> QED BY <2>1, Suffix
  <2>3. DOMAIN c = 1 .. Len(c) BY <2>2, LenProperties
  <2> HIDE DEF c
  <2>6. Len(q) \in Nat /\ k \in Nat BY <1>1
  <2>4. Len(q) + 1 - d = Len(q) - k /\ \A i \in 1 .. Len(q) - k : d - 1 + i = k + i
    BY ONLY <2>6
  <2>5. /\ c \in Seq(Nat) /\ DOMAIN c = 1 .. Len(q) - k
        /\ \A i \in 1 .. Len(q) - k : c[i] = q[k + i]
    BY <2>2, <2>3, <2>4
  <2> QED BY <2>5 DEF c
<1> HIDE DEF a, b
<1>4. \A e : InChain(q, e) <=> InChain(a, e) \/ InChain(b, e)
  <2>1. \A e : InChain(a, e) \/ InChain(b, e) => InChain(q, e)
    <3>1. \A i \in 1 .. k : i \in 1 .. Len(q) BY <1>1
    <3>2. \A i \in 1 .. Len(q) - k : k + i \in 1 .. Len(q) BY <1>1
    <3> QED BY <1>1, <1>2, <1>3, <3>1, <3>2 DEF InChain
  <2>2. ASSUME NEW i \in 1 .. Len(q) PROVE InChain(a, q[i]) \/ InChain(b, q[i])
    <3>1. CASE i <= k
      BY <1>1, <1>2, <3>1 DEF InChain
    <3>2. CASE ~(i <= k)
      <4>1. i - k \in 1 .. Len(q) - k /\ k + (i - k) = i BY <1>1, <3>2
      <4>2. b[i - k] = q[i] BY <1>3, <4>1
      <4> QED BY <1>3, <4>1, <4>2 DEF InChain
    <3> QED BY <3>1, <3>2
  <2> QED BY <1>1, <2>1, <2>2 DEF InChain
<1>5. Ascending(b)
  <2> SUFFICES ASSUME NEW i \in 1 .. Len(q) - k, NEW j \in 1 .. Len(q) - k, i < j
               PROVE  b[i] < b[j]
    BY <1>3 DEF Ascending
  <2>1. k + i \in 1 .. Len(q) /\ k + j \in 1 .. Len(q) /\ k + i < k + j BY <1>1
  <2> QED BY <1>1, <1>3, <2>1 DEF Ascending, Accounted
<1>6. \A e : ~(InChain(a, e) /\ InChain(b, e))
  <2> SUFFICES ASSUME NEW i \in 1 .. k, NEW j \in 1 .. Len(q) - k, a[i] = b[j] PROVE FALSE
    BY <1>2, <1>3 DEF InChain
  <2>1. i \in 1 .. Len(q) /\ k + j \in 1 .. Len(q) /\ i < k + j BY <1>1
  <2>2. q[i] = q[k + j] BY <1>2, <1>3
  <2>3. q[i] < q[k + j] BY <1>1, <2>1 DEF Ascending, Accounted
  <2> QED BY <1>1, <2>1, <2>2, <2>3
<1>7. \A e \in DOMAIN f : g[e] = IF e \notin S THEN f[e]
                                 ELSE IF e \in o THEN "discarded" ELSE "returned"
  BY DEF WentBack
<1>8. \A e : e \in S <=> InChain(t, e) \/ InChain(a, e)
  BY DEF a
<1>9. ASSUME NEW e PROVE InChain(b, e) <=> e \in DOMAIN g /\ g[e] = "pending"
  <2>1. InChain(b, e) => e \in DOMAIN f /\ e \notin S /\ f[e] = "pending"
    BY <1>4, <1>6, <1>8 DEF Accounted
  <2>2. e \in DOMAIN f /\ e \notin S /\ f[e] = "pending" => InChain(b, e)
    BY <1>4, <1>8 DEF Accounted
  <2> QED BY <1>1, <1>7, <2>1, <2>2
<1>10. \A e \in DOMAIN g : g[e] = "delivered" => \A x : InChain(b, x) => e < x
  BY <1>1, <1>4, <1>7 DEF Accounted
<1>11. \A e \in DOMAIN g : g[e] = "discarded" => e \in o
  BY <1>1, <1>7 DEF Accounted
<1>12. Accounted(b, << >>, g, o)
  BY <1>5, <1>9, <1>10, <1>11, EmptyChain DEF Accounted
<1> QED BY <1>3, <1>12 DEF b

\* So they do, and an event comes back at once.
LEMMA AccountedReturned ==
  ASSUME NEW q \in Seq(Nat), NEW t, NEW f \in Seq(Fates), NEW o, Accounted(q, t, f, o)
  PROVE  Accounted(q, t, Append(f, "returned"), o)
<1> DEFINE g == Append(f, "returned")
<1>1. /\ Len(f) \in Nat /\ DOMAIN f = 1 .. Len(f) /\ DOMAIN g = 1 .. Len(f) + 1
      /\ g[Len(f) + 1] = "returned" /\ \A e \in 1 .. Len(f) : g[e] = f[e]
  BY AppendProperties, LenProperties DEF Fates
<1> HIDE DEF g
<1>2. \A e \in 1 .. Len(f) + 1 : e \in 1 .. Len(f) \/ e = Len(f) + 1
  BY <1>1
<1>3. 1 .. Len(f) \subseteq 1 .. Len(f) + 1
  BY <1>1
<1>4. \A e : InChain(q, e) \/ InChain(t, e) <=> e \in DOMAIN g /\ g[e] = "pending"
  BY <1>1, <1>2, <1>3 DEF Accounted
<1>5. \A e \in DOMAIN g : g[e] = "delivered" => \A x : InChain(q, x) => e < x
  BY <1>1, <1>2 DEF Accounted
<1>6. \A e \in DOMAIN g : g[e] = "discarded" => e \in o
  BY <1>1, <1>2 DEF Accounted
<1> QED BY <1>4, <1>5, <1>6 DEF Accounted, g

\* The source of every event is gone.
LEMMA AccountedAbandon ==
  ASSUME NEW q, NEW t, NEW f, NEW o, Accounted(q, t, f, o)
  PROVE  Accounted(q, t, f, DOMAIN f)
BY DEF Accounted

-----------------------------------------------------------------------------
(* The state of a pair.                                                    *)

Queue(p)    == InFlight(p) \o writeCache[p].chain
Rejected(p) == readWriteLocked[p].undelivered
Orphans(p)  == {e \in DOMAIN fate[p] : SourceGone(p, e)}

ChannelInv(p) == Accounted(Queue(p), Rejected(p), fate[p], Orphans(p))

\* Sequences with the same positions are of the same length.
LEMMA SameDomain ==
  ASSUME NEW S, NEW T, NEW s \in Seq(S), NEW t \in Seq(T), DOMAIN s = DOMAIN t
  PROVE  Len(s) = Len(t)
<1>1. /\ Len(s) \in Nat /\ Len(t) \in Nat
      /\ DOMAIN s = 1 .. Len(s) /\ DOMAIN t = 1 .. Len(t)
  BY LenProperties
<1>2. CASE Len(s) < Len(t)
  <2>1. Len(t) \in 1 .. Len(t) /\ Len(t) \notin 1 .. Len(s) BY <1>1, <1>2
  <2> QED BY <1>1, <2>1
<1>3. CASE Len(t) < Len(s)
  <2>1. Len(s) \in 1 .. Len(s) /\ Len(s) \notin 1 .. Len(t) BY <1>1, <1>3
  <2> QED BY <1>1, <2>1
<1>4. Len(s) \in Nat /\ Len(t) \in Nat BY <1>1
<1> QED BY ONLY <1>2, <1>3, <1>4

\* The types of what belongs to a pair
LEMMA PairTypes ==
  ASSUME TypeOK, NEW p \in Pairs
  PROVE  /\ InFlight(p) \in Seq(Nat) /\ writeCache[p].chain \in Seq(Nat)
         /\ Queue(p) \in Seq(Nat) /\ Rejected(p) \in Seq(Nat)
         /\ readWriteLocked[p] \in ReadWriteLocked /\ readWriteLocked[p].chain \in Seq(Nat)
         /\ fate[p] \in Seq(Fates) /\ born[p] \in Seq(Nat)
         /\ p[1] \in Nodes /\ p[2] \in Nodes /\ p[1] # p[2] /\ p = <<p[1], p[2]>>
<1>1. p[1] \in Nodes /\ p[2] \in Nodes /\ p[1] # p[2] /\ p = <<p[1], p[2]>>
  BY DEF Pairs
<1>2. /\ writeCache[p].chain \in Seq(Nat) /\ Rejected(p) \in Seq(Nat)
      /\ readWriteLocked[p] \in ReadWriteLocked /\ readWriteLocked[p].chain \in Seq(Nat)
      /\ fate[p] \in Seq(Fates) /\ born[p] \in Seq(Nat)
  BY DEF TypeOK, SharedType, WriteCache, ReadWriteLocked, Rejected
<1> DEFINE s == readWriteLocked[p].chain
           c == cursor[p[2]]
<1>3. c \in Nat \ {0}
  BY <1>1 DEF TypeOK, OwnType
<1>4. SubSeq(s, c, Len(s)) \in Seq(Nat)
  <2> HIDE DEF s, c
  <2>1. Len(s) \in Nat /\ \A i \in 1 .. Len(s) : s[i] \in Nat
    BY <1>2, LenProperties, ElementOfSeq DEF s
  <2>2. c \in Int /\ Len(s) \in Int /\ \A i \in c .. Len(s) : s[i] \in Nat
    BY <1>3, <2>1
  <2> QED BY <2>2, SubSeqProperties
<1>5. InFlight(p) \in Seq(Nat)
  BY <1>2, <1>4, EmptySeq DEF InFlight
<1>6. Queue(p) \in Seq(Nat)
  BY <1>2, <1>5, ConcatProperties DEF Queue
<1> QED BY <1>1, <1>2, <1>5, <1>6

\* What an event channel does keeps the account of its events.
LEMMA ChannelStep ==
  ASSUME TypeOK, NEW p \in Pairs, ChannelInv(p), Channel(p)!ChanNext
  PROVE  ChannelInv(p)'
<1>0. PICK q \in Seq(Nat), t \in Seq(Nat), f \in Seq(Fates), o \in {Orphans(p)} :
         q = Queue(p) /\ t = Rejected(p) /\ f = fate[p]
  BY PairTypes
<1>1. Accounted(q, t, f, o)
  BY <1>0 DEF ChannelInv
<1>2. SUFFICES Accounted(Queue(p)', Rejected(p)', fate'[p], Orphans(p)')
  BY DEF ChannelInv
<1> USE DEF Queue, Rejected, Orphans
<1>3. CASE Channel(p)!Send
  <2>1. /\ Queue(p)' = Append(q, Len(f) + 1) /\ Rejected(p)' = t
        /\ fate'[p] = Append(f, "pending") /\ Orphans(p)' = o
    BY <1>0, <1>3 DEF Channel!Send
  <2> QED BY <1>1, <2>1, AccountedSend
<1>4. CASE Channel(p)!Deliver
  <2>1. /\ q # << >> /\ Queue(p)' = Tail(q) /\ Rejected(p)' = t
        /\ fate'[p] = [f EXCEPT ![Head(q)] = "delivered"] /\ Orphans(p)' = o
    BY <1>0, <1>4 DEF Channel!Deliver
  <2>2. Accounted(Tail(q), t, [f EXCEPT ![Head(q)] = "delivered"], o)
    BY <1>1, <2>1, AccountedDeliver
  <2> QED BY <2>1, <2>2
<1>5. CASE Channel(p)!Reject
  <2>1. /\ q # << >> /\ Queue(p)' = Tail(q) /\ Rejected(p)' = Append(t, Head(q))
        /\ fate'[p] = f /\ Orphans(p)' = o
    BY <1>0, <1>5 DEF Channel!Reject
  <2> QED BY <1>1, <2>1, AccountedReject
<1>6. CASE Channel(p)!Recall
  <2>1. PICK e \in DOMAIN f :
          /\ f[e] = "delivered" /\ Queue(p)' = q /\ Rejected(p)' = Append(t, e)
          /\ fate'[p] = [f EXCEPT ![e] = "pending"] /\ Orphans(p)' = o
    BY <1>0, <1>6 DEF Channel!Recall
  <2>2. Accounted(q, Append(t, e), [f EXCEPT ![e] = "pending"], o)
    BY <1>1, <2>1, AccountedRecall
  <2> QED BY <2>1, <2>2
<1>7. CASE Channel(p)!GiveBack
  <2> DEFINE S(k) == Channel(p)!Elements(t) \cup Channel(p)!Elements(SubSeq(q, 1, k))
             g(k) == [e \in DOMAIN f |-> IF e \notin S(k) THEN f[e]
                                         ELSE IF e \in o THEN "discarded" ELSE "returned"]
             b(k) == SubSeq(q, k + 1, Len(q))
  <2>1. PICK k \in 0 .. Len(q) :
          /\ Rejected(p)' = << >> /\ Orphans(p)' = o
          /\ \/ fate'[p] = g(k) /\ Queue(p)' = b(k)
             \/ fate'[p] = Append(g(k), "pending") /\ Queue(p)' = Append(b(k), Len(f) + 1)
             \/ fate'[p] = Append(g(k), "returned") /\ Queue(p)' = b(k)
    BY <1>0, <1>7 DEF Channel!GiveBack, Channel!SentBack
  <2>2. \A e : e \in S(k) <=> InChain(t, e) \/ InChain(SubSeq(q, 1, k), e)
    BY DEF Channel!Elements, InChain
  <2>3. WentBack(f, S(k), o, g(k))
    <3> HIDE DEF S
    <3>1. Len(f) \in Nat /\ DOMAIN f = 1 .. Len(f) /\ \A e \in DOMAIN f : f[e] \in Fates
      BY LenProperties, ElementOfSeq
    <3>2. g(k) \in [1 .. Len(f) -> Fates]
      BY <3>1 DEF Fates
    <3>3. g(k) \in Seq(Fates) /\ DOMAIN g(k) = DOMAIN f
      BY <3>1, <3>2, FunctionIsSeq
    <3>4. \A e \in DOMAIN f : g(k)[e] = IF e \notin S(k) THEN f[e]
                                        ELSE IF e \in o THEN "discarded" ELSE "returned"
      OBVIOUS
    <3> HIDE DEF g
    <3>5. Len(g(k)) = Len(f)
      BY <3>3, SameDomain
    <3> QED BY <3>3, <3>4, <3>5 DEF WentBack
  <2> HIDE DEF S, g
  <2>4. b(k) \in Seq(Nat) /\ Accounted(b(k), << >>, g(k), o)
    BY <1>1, <2>2, <2>3, AccountedBack
  <2>5. g(k) \in Seq(Fates) /\ Len(g(k)) = Len(f) /\ << >> \in Seq(Nat)
    BY <2>3, EmptySeq DEF WentBack
  <2> HIDE DEF b
  <2>6. Accounted(Append(b(k), Len(f) + 1), << >>, Append(g(k), "pending"), o)
    BY <2>4, <2>5, AccountedSend
  <2>7. Accounted(b(k), << >>, Append(g(k), "returned"), o)
    BY <2>4, <2>5, AccountedReturned
  <2> QED BY <2>1, <2>4, <2>6, <2>7
<1>8. CASE Channel(p)!Abandon
  <2>1. /\ Queue(p)' = q /\ Rejected(p)' = t /\ fate'[p] = f /\ Orphans(p)' = DOMAIN f
    BY <1>0, <1>8 DEF Channel!Abandon
  <2> QED BY <1>1, <2>1, AccountedAbandon
<1> QED BY <1>3, <1>4, <1>5, <1>6, <1>7, <1>8 DEF Channel!ChanNext

\* Three chains in a row
LEMMA ConcatThree ==
  ASSUME NEW a \in Seq(Nat), NEW b \in Seq(Nat), NEW c \in Seq(Nat)
  PROVE  (a \o b) \o c = a \o (b \o c)
BY ConcatAssociative

\* Every event is accounted for and none has been overtaken.
LEMMA Accounts ==
  ASSUME TypeOK, \A p \in Pairs : ChannelInv(p)
  PROVE  EventsAccounted /\ NoOvertaking
<1> SUFFICES ASSUME NEW p \in Pairs
             PROVE  LET held == readWriteLocked[p].undelivered \o InFlight(p) \o writeCache[p].chain
                    IN /\ Pending(held) = {e \in DOMAIN fate[p] : IsPending(p, e)}
                       /\ \A i, j \in DOMAIN held : held[i] = held[j] => i = j
                       /\ \A e \in DOMAIN fate[p] : fate[p][e] = "discarded" => SourceGone(p, e)
                       /\ \A f \in DOMAIN fate[p] : \A e \in 1 .. f - 1 :
                            fate[p][f] = "delivered" /\ IsPending(p, e)
                              => e \in Pending(readWriteLocked[p].undelivered)
  BY DEF EventsAccounted, NoOvertaking
<1>1. /\ Queue(p) \in Seq(Nat) /\ Rejected(p) \in Seq(Nat) /\ InFlight(p) \in Seq(Nat)
      /\ writeCache[p].chain \in Seq(Nat) /\ fate[p] \in Seq(Fates)
  BY PairTypes
<1>2. Accounted(Queue(p), Rejected(p), fate[p], Orphans(p))
  BY DEF ChannelInv
<1> DEFINE held == Rejected(p) \o InFlight(p) \o writeCache[p].chain
<1>3. held = Rejected(p) \o Queue(p)
  <2> HIDE DEF Queue
  <2>1. PICK a \in Seq(Nat), b \in Seq(Nat), c \in Seq(Nat) :
          a = Rejected(p) /\ b = InFlight(p) /\ c = writeCache[p].chain
    BY <1>1
  <2>2. (a \o b) \o c = a \o (b \o c)
    BY ConcatThree
  <2> QED BY <2>1, <2>2 DEF Queue
<1>4. /\ held \in Seq(Nat)
      /\ \A b : InChain(held, b) <=> InChain(Rejected(p), b) \/ InChain(Queue(p), b)
      /\ IsInjective(Rejected(p)) /\ IsInjective(Queue(p))
           /\ (\A b : ~(InChain(Rejected(p), b) /\ InChain(Queue(p), b))) => IsInjective(held)
  <2> HIDE DEF held
  <2> QED BY <1>1, <1>3, ConcatChain
<1>5. IsInjective(held)
  <2> HIDE DEF held
  <2> QED BY <1>1, <1>2, <1>4, AscendingInjective DEF Accounted
<1>6. \A e : e \in Pending(held) <=> InChain(held, e)
  BY DEF Pending, InChain
<1> HIDE DEF held
<1>7. Pending(held) = {e \in DOMAIN fate[p] : IsPending(p, e)}
  BY <1>2, <1>4, <1>6 DEF Accounted, IsPending
<1>8. \A i, j \in DOMAIN held : held[i] = held[j] => i = j
  BY <1>5 DEF IsInjective
<1>9. \A e \in DOMAIN fate[p] : fate[p][e] = "discarded" => SourceGone(p, e)
  BY <1>2 DEF Accounted, Orphans
<1>10. ASSUME NEW f \in DOMAIN fate[p], NEW e \in 1 .. f - 1,
              fate[p][f] = "delivered", IsPending(p, e)
       PROVE  e \in Pending(readWriteLocked[p].undelivered)
  <2>1. Len(fate[p]) \in Nat /\ DOMAIN fate[p] = 1 .. Len(fate[p])
    BY <1>1, LenProperties
  <2>2. e \in DOMAIN fate[p] /\ e < f /\ ~(f < e)
    BY <2>1
  <2>3. ~InChain(Queue(p), e)
    BY <1>2, <1>10, <2>2 DEF Accounted
  <2>4. InChain(Rejected(p), e)
    BY <1>2, <1>10, <2>2, <2>3 DEF Accounted, IsPending
  <2> QED BY <2>4 DEF InChain, Pending, Rejected
<1> QED BY <1>7, <1>8, <1>9, <1>10 DEF held, Rejected

Reading(w, r) == Visit(r, w, "reading")

\* Nobody has the locked part of <<w, r>> and nobody has read it.
Idle(w, r) ==
  /\ ~isWriteLocked[<<w, r>>]
  /\ ~readWriteLocked[<<w, r>>].delivered
  /\ r \notin writeNodes[w]

\* What a reader has behind it has been delivered, and the cursor is in the chain.
ReadInv(w, r) ==
  LET p     == <<w, r>>
      chain == readWriteLocked[p].chain
  IN
  /\ Ascending(chain)
  /\ readWriteLocked[p].delivered =>
       \A i \in DOMAIN chain : (Reading(w, r) => i < cursor[r]) =>
         chain[i] \in DOMAIN fate[p] /\ fate[p][chain[i]] = "delivered"
  /\ Reading(w, r) => cursor[r] <= Len(chain) + 1

\* Events that nobody is going to read or to take back were pushed by a node that is gone
\* (~Node removes its locks).
LeftInv(w, r) ==
  LET chain == readWriteLocked[<<w, r>>].chain IN
  Idle(w, r) => \A i \in DOMAIN chain : SourceGone(<<w, r>>, chain[i])

\* Every event was pushed by this or an earlier construction.
BornInv(w, r) ==
  LET p == <<w, r>> IN
  /\ Len(born[p]) = Len(fate[p])
  /\ \A e \in DOMAIN born[p] : born[p][e] <= starts[w]

BlockInv(w, r) == ReadInv(w, r) /\ LeftInv(w, r) /\ BornInv(w, r)

\* read() starts at the first event.
CursorInv == \A n \in Nodes : pc[n] # "reading" => cursor[n] = 1

EventInv == /\ CursorInv
            /\ \A w \in Nodes : \A r \in Peers(w) : ChannelInv(<<w, r>>) /\ BlockInv(w, r)

-----------------------------------------------------------------------------
(* Steps that leave the events of a pair alone.                            *)

Untouched(p) ==
  /\ readWriteLocked'[p].chain = readWriteLocked[p].chain
  /\ readWriteLocked'[p].delivered = readWriteLocked[p].delivered
  /\ readWriteLocked'[p].undelivered = readWriteLocked[p].undelivered
  /\ writeCache'[p].chain = writeCache[p].chain
  /\ born'[p] = born[p] /\ fate'[p] = fate[p]

SameSource(w) ==
  /\ starts'[w] = starts[w] /\ leaving'[w] = leaving[w]
  /\ (pc[w] # "down" /\ pc'[w] # "down") \/ pc'[w] = pc[w]

\* What a step is to do to a pair
PairStep(w, r) ==
  /\ [Channel(<<w, r>>)!ChanNext]_(Channel(<<w, r>>)!chanVars)
  /\ BlockInv(w, r)'

\* With the same events, sources and life, the events without a source are the same.
LEMMA SameOrphans ==
  ASSUME NEW w \in Nodes, NEW r \in Peers(w), SameSource(w),
         born'[<<w, r>>] = born[<<w, r>>], DOMAIN fate'[<<w, r>>] = DOMAIN fate[<<w, r>>]
  PROVE  /\ Orphans(<<w, r>>)' = Orphans(<<w, r>>)
         /\ \A e : SourceGone(<<w, r>>, e)' <=> SourceGone(<<w, r>>, e)
BY DEF SameSource, Orphans, SourceGone

\* The events in flight, by who has the locked part
LEMMA InFlightIs ==
  ASSUME NEW w \in Nodes, NEW r \in Peers(w)
  PROVE  LET p == <<w, r>>
             rw == readWriteLocked[p]
         IN
         /\ ~rw.delivered => InFlight(p) = rw.chain
         /\ rw.delivered /\ Reading(w, r) => InFlight(p) = SubSeq(rw.chain, cursor[r], Len(rw.chain))
         /\ rw.delivered /\ ~Reading(w, r) => InFlight(p) = << >>
BY DEF InFlight, Reading

\* A step that touches no event of the pair, and ends no life of its writer, is none of the
\* channel's.
LEMMA Quiet ==
  ASSUME NEW w \in Nodes, NEW r \in Peers(w), BlockInv(w, r),
         Untouched(<<w, r>>), SameSource(w),
         Reading(w, r)' <=> Reading(w, r), Reading(w, r) => cursor'[r] = cursor[r],
         Idle(w, r)' => Idle(w, r) \/ leaving'[w]
  PROVE  PairStep(w, r)
<1> DEFINE p == <<w, r>>
<1>1. InFlight(p)' = InFlight(p)
  BY DEF InFlight, Untouched, Reading
<1>2. /\ Orphans(p)' = Orphans(p)
      /\ \A e : SourceGone(p, e)' <=> SourceGone(p, e)
  BY SameOrphans DEF Untouched
<1>3. UNCHANGED Channel(p)!chanVars
  BY <1>1, <1>2 DEF Channel!chanVars, Untouched, Orphans
<1>4. ReadInv(w, r)'
  BY DEF BlockInv, ReadInv, Untouched
<1>5. leaving'[w] => \A e : SourceGone(p, e)'
  BY DEF SourceGone
<1>6. LeftInv(w, r)'
  BY <1>2, <1>5 DEF BlockInv, LeftInv, Untouched
<1>7. BornInv(w, r)'
  BY DEF BlockInv, BornInv, Untouched, SameSource
<1> QED BY <1>3, <1>4, <1>6, <1>7 DEF PairStep, BlockInv

-----------------------------------------------------------------------------
(* What the reader does to the events of a pair.                           *)

\* A step that is no construction or destruction keeps who the sources are.
LEMMA LivesOn ==
  ASSUME TypeOK, NEW n \in Nodes, NEW m \in Nodes, Step(n), UNCHANGED <<starts, leaving>>,
         m = n => pc[n] # "down" /\ pc'[n] # "down"
  PROVE  SameSource(m)
<1>1. m # n => pc'[m] = pc[m]
  BY OthersStay
<1> QED BY <1>1 DEF SameSource

\* read() finds the events it was left.
LEMMA ReadBegins ==
  ASSUME Inv, EventInv, NEW n \in Nodes, NEW w \in Peers(n), Step(n), Visit(n, w, "read"),
         isWriteLocked[<<w, n>>],
         readWriteLocked' = [readWriteLocked EXCEPT ![<<w, n>>].delivered = TRUE],
         Goto(n, "reading"), UNCHANGED <<writeCache, born, fate, cursor, starts, leaving>>
  PROVE  PairStep(w, n)
<1> DEFINE p == <<w, n>>
           rw == readWriteLocked[p]
<1>1. TypeOK /\ Phase(n) /\ PairDelivered(w, n) /\ w \in Nodes /\ n \in Peers(w) /\ p \in Pairs
  BY PairOf DEF Inv, PhaseInv, DeliveredInv, Peers
<1>2. ~ReaderHolds(w, n)
  BY <1>1, First DEF ReaderHolds, Phase, Visit, At, TypeOK
<1>3. ~rw.delivered /\ ~Reading(w, n)
  BY <1>1, <1>2 DEF PairDelivered, ReaderHolds, Reading
<1>4. cursor[n] = 1
  BY DEF EventInv, CursorInv, Visit, At
<1>5. Reading(w, n)'
  BY <1>1, Moves DEF Reading, Visit, At, IsFirst, TypeOK
<1>6. /\ rw \in ReadWriteLocked /\ rw.chain \in Seq(Nat)
      /\ readWriteLocked'[p] = [rw EXCEPT !.delivered = TRUE]
  BY <1>1, PairTypes DEF TypeOK, SharedType
<1>7. /\ readWriteLocked'[p].chain = rw.chain /\ readWriteLocked'[p].delivered
      /\ readWriteLocked'[p].undelivered = rw.undelivered
  BY <1>6 DEF ReadWriteLocked
<1>8. InFlight(p) = rw.chain
  BY <1>3, InFlightIs, <1>1
<1>9. InFlight(p)' = SubSeq(rw.chain, 1, Len(rw.chain))
  BY <1>4, <1>5, <1>7 DEF InFlight, Reading
<1>10. InFlight(p)' = InFlight(p)
  BY <1>6, <1>8, <1>9, WholeSuffix
<1>11. SameSource(w)
  BY <1>1, LivesOn, Moves DEF Visit, At, TypeOK
<1>12. UNCHANGED Channel(p)!chanVars
  BY <1>1, <1>7, <1>10, <1>11, SameOrphans DEF Channel!chanVars, Orphans
<1>13. BlockInv(w, n)
  BY <1>1 DEF EventInv
<1>14. Len(rw.chain) \in Nat /\ DOMAIN rw.chain = 1 .. Len(rw.chain)
  BY <1>6, LenProperties
<1>15. ReadInv(w, n)'
  <2>1. \A i \in DOMAIN rw.chain : ~(i < 1)
    BY <1>14
  <2> QED BY <1>4, <1>5, <1>7, <1>13, <1>14, <2>1 DEF BlockInv, ReadInv
<1>16. LeftInv(w, n)'
  BY <1>7 DEF LeftInv, Idle
<1>17. BornInv(w, n)'
  BY <1>13 DEF BlockInv, BornInv
<1> QED BY <1>12, <1>15, <1>16, <1>17 DEF PairStep, BlockInv

\* The next event is in the chain and in the queue.
LEMMA NextEvent ==
  ASSUME Inv, EventInv, NEW r \in Nodes, NEW w \in Peers(r), Visit(r, w, "reading"),
         cursor[r] <= Len(readWriteLocked[<<w, r>>].chain)
  PROVE  LET p == <<w, r>>
             s == readWriteLocked[p].chain
             c == cursor[r]
         IN
         /\ TypeOK /\ w \in Nodes /\ r \in Peers(w) /\ p \in Pairs /\ BlockInv(w, r)
         /\ s \in Seq(Nat) /\ c \in 1 .. Len(s) /\ DOMAIN s = 1 .. Len(s)
         /\ Reading(w, r) /\ readWriteLocked[p].delivered
         /\ InFlight(p) # << >> /\ Head(InFlight(p)) = s[c]
         /\ Tail(InFlight(p)) = SubSeq(s, c + 1, Len(s))
         /\ Tail(InFlight(p)) = SubSeq(Erase(s, c), c, Len(Erase(s, c)))
         /\ Queue(p) # << >> /\ Head(Queue(p)) = s[c]
         /\ Tail(Queue(p)) = Tail(InFlight(p)) \o writeCache[p].chain
         /\ s[c] \in DOMAIN fate[p]
<1> DEFINE p == <<w, r>>
           s == readWriteLocked[p].chain
           c == cursor[r]
<1>1. TypeOK /\ PairDelivered(w, r) /\ w \in Nodes /\ r \in Peers(w) /\ p \in Pairs
      /\ BlockInv(w, r) /\ ChannelInv(p)
  BY PairOf DEF Inv, DeliveredInv, Peers, EventInv
<1>2. Reading(w, r) /\ readWriteLocked[p].delivered
  BY <1>1 DEF Reading, ReaderHolds, PairDelivered
<1>3. s \in Seq(Nat) /\ InFlight(p) \in Seq(Nat) /\ writeCache[p].chain \in Seq(Nat)
  BY <1>1, PairTypes
<1>4. Len(s) \in Nat /\ DOMAIN s = 1 .. Len(s) /\ c \in 1 .. Len(s)
  BY <1>1, <1>3, LenProperties DEF TypeOK, OwnType
<1>5. InFlight(p) = SubSeq(s, c, Len(s))
  BY <1>1, <1>2, InFlightIs
<1> HIDE DEF s, c
<1>6. /\ InFlight(p) # << >> /\ Head(InFlight(p)) = s[c]
      /\ Tail(InFlight(p)) = SubSeq(s, c + 1, Len(s))
      /\ Tail(InFlight(p)) = SubSeq(Erase(s, c), c, Len(Erase(s, c)))
  BY <1>3, <1>4, <1>5, SuffixTail
<1>7. /\ Queue(p) # << >> /\ Head(Queue(p)) = s[c]
      /\ Tail(Queue(p)) = Tail(InFlight(p)) \o writeCache[p].chain
  BY <1>3, <1>6, ConcatTail DEF Queue
<1>8. InChain(Queue(p), s[c])
  BY <1>1, <1>7, PairTypes, HeadChain
<1>9. s[c] \in DOMAIN fate[p]
  BY <1>1, <1>8 DEF ChannelInv, Accounted
<1> QED BY <1>1, <1>2, <1>3, <1>4, <1>6, <1>7, <1>9 DEF s, c

\* A handler has the next event.
LEMMA EventRead ==
  ASSUME Inv, EventInv, NEW n \in Nodes, NEW w \in Peers(n), Step(n), Visit(n, w, "reading"),
         cursor[n] <= Len(readWriteLocked[<<w, n>>].chain),
         fate' = [fate EXCEPT ![<<w, n>>][readWriteLocked[<<w, n>>].chain[cursor[n]]] = "delivered"],
         cursor' = [cursor EXCEPT ![n] = @ + 1],
         UNCHANGED <<readWriteLocked, writeCache, born, pc, todo, starts, leaving>>
  PROVE  PairStep(w, n)
<1> DEFINE p == <<w, n>>
           s == readWriteLocked[p].chain
           c == cursor[n]
<1>1. /\ TypeOK /\ w \in Nodes /\ n \in Peers(w) /\ p \in Pairs /\ BlockInv(w, n)
      /\ s \in Seq(Nat) /\ c \in 1 .. Len(s) /\ DOMAIN s = 1 .. Len(s)
      /\ Reading(w, n) /\ readWriteLocked[p].delivered
      /\ Tail(InFlight(p)) = SubSeq(s, c + 1, Len(s))
      /\ Queue(p) # << >> /\ Head(Queue(p)) = s[c]
      /\ Tail(Queue(p)) = Tail(InFlight(p)) \o writeCache[p].chain
      /\ s[c] \in DOMAIN fate[p]
  BY NextEvent
<1>2. cursor'[n] = c + 1 /\ Reading(w, n)'
  BY <1>1 DEF TypeOK, OwnType, Reading, Visit, At
<1>3. fate'[p] = [fate[p] EXCEPT ![s[c]] = "delivered"]
  BY <1>1 DEF TypeOK, SharedType
<1>4. InFlight(p)' = Tail(InFlight(p))
  BY <1>1, <1>2 DEF InFlight, Reading
<1>5. SameSource(w)
  BY <1>1, LivesOn DEF Visit, At
<1>6. Orphans(p)' = Orphans(p)
  BY <1>1, <1>3, <1>5, SameOrphans
<1>7. Channel(p)!Deliver
  BY <1>1, <1>3, <1>4, <1>6 DEF Channel!Deliver, Queue, Orphans
<1>8. ReadInv(w, n)'
  <2>1. Ascending(s) /\ \A i \in DOMAIN s : i < c => s[i] \in DOMAIN fate[p] /\ fate[p][s[i]] = "delivered"
    BY <1>1 DEF BlockInv, ReadInv
  <2>2. s \in Seq(Nat) /\ c \in 1 .. Len(s) /\ Len(s) \in Nat /\ DOMAIN s = 1 .. Len(s)
    BY <1>1, LenProperties
  <2> HIDE DEF s, c
  <2>3. c + 1 <= Len(s) + 1 /\ \A i \in DOMAIN s : i < c + 1 => i < c \/ i = c
    BY ONLY <2>2
  <2>4. DOMAIN fate'[p] = DOMAIN fate[p] /\ fate'[p][s[c]] = "delivered"
        /\ \A x \in DOMAIN fate[p] : fate[p][x] = "delivered" => fate'[p][x] = "delivered"
    BY <1>1, <1>3
  <2>5. \A i \in DOMAIN s : i < c + 1 => s[i] \in DOMAIN fate'[p] /\ fate'[p][s[i]] = "delivered"
    <3>1. s[c] \in DOMAIN fate[p]
      BY <1>1
    <3> QED BY ONLY <2>1, <2>3, <2>4, <3>1
  <2>6. readWriteLocked'[p].chain = s
    BY DEF s
  <2> QED BY ONLY <1>2, <2>1, <2>3, <2>5, <2>6 DEF ReadInv, p
<1>9. LeftInv(w, n)'
  BY <1>1 DEF LeftInv, Idle
<1>10. BornInv(w, n)'
  <2>1. Len(fate'[p]) = Len(fate[p])
    <3>1. fate[p] \in Seq(Fates) /\ "delivered" \in Fates
      BY <1>1, PairTypes DEF Fates
    <3>2. fate'[p] \in Seq(Fates) /\ DOMAIN fate'[p] = DOMAIN fate[p]
      BY <1>3, <3>1, ExceptType
    <3> QED BY <3>1, <3>2, SameDomain
  <2> QED BY <1>1, <2>1 DEF BlockInv, BornInv
<1> QED BY <1>7, <1>8, <1>9, <1>10 DEF PairStep, BlockInv, Channel!ChanNext

\* undeliveredEvent moves an event from one chain of its block to the other.
LEMMA TurnedDown ==
  ASSUME TypeOK, NEW n \in Nodes, NEW w \in Peers(n), NEW i, TurnDown(n, w, i)
  PROVE  LET p == <<w, n>>
             rw == readWriteLocked[p]
         IN /\ readWriteLocked'[p].chain = Erase(rw.chain, i)
            /\ readWriteLocked'[p].undelivered = Append(rw.undelivered, rw.chain[i])
            /\ readWriteLocked'[p].delivered = rw.delivered
            /\ \A q \in Pairs : /\ q # p => readWriteLocked'[q] = readWriteLocked[q]
                                /\ writeCache'[q].chain = writeCache[q].chain
<1> DEFINE p == <<w, n>>
           rw == readWriteLocked[p]
           e == Erase(rw.chain, i)
           a == Append(rw.undelivered, rw.chain[i])
<1>1. p \in Pairs /\ rw \in ReadWriteLocked
  BY PairOf DEF TypeOK, SharedType, Peers
<1>2. readWriteLocked' = [readWriteLocked EXCEPT ![p] = [rw EXCEPT !.chain = e, !.undelivered = a]]
  BY <1>1 DEF TurnDown, TypeOK, SharedType
<1>3. /\ readWriteLocked'[p] = [rw EXCEPT !.chain = e, !.undelivered = a]
      /\ \A q \in Pairs : q # p => readWriteLocked'[q] = readWriteLocked[q]
  BY <1>1, <1>2 DEF TypeOK, SharedType
<1> HIDE DEF e, a
<1>4. /\ readWriteLocked'[p].chain = e /\ readWriteLocked'[p].undelivered = a
      /\ readWriteLocked'[p].delivered = rw.delivered
  BY <1>1, <1>3 DEF ReadWriteLocked
<1>5. \A q \in Pairs : writeCache'[q].chain = writeCache[q].chain
  <2>1. \A q \in Pairs : writeCache[q] \in WriteCache
    BY DEF TypeOK, SharedType
  <2>2. writeCache' = [writeCache EXCEPT ![<<n, w>>].check = TRUE]
    BY DEF TurnDown
  <2>3. SUFFICES ASSUME NEW q \in Pairs PROVE writeCache'[q].chain = writeCache[q].chain
    OBVIOUS
  <2>4. CASE q = <<n, w>>
    <3>1. writeCache'[q] = [writeCache[q] EXCEPT !.check = TRUE]
      BY <2>2, <2>4 DEF TypeOK, SharedType
    <3> QED BY <2>1, <3>1 DEF WriteCache
  <2>5. CASE q # <<n, w>>
    BY <2>2, <2>5 DEF TypeOK, SharedType
  <2> QED BY <2>4, <2>5
<1> QED BY <1>3, <1>4, <1>5 DEF e, a

\* The next event is turned down.
LEMMA EventTurnedDown ==
  ASSUME Inv, EventInv, NEW n \in Nodes, NEW w \in Peers(n), Step(n), Visit(n, w, "reading"),
         cursor[n] <= Len(readWriteLocked[<<w, n>>].chain), TurnDown(n, w, cursor[n]),
         UNCHANGED <<born, fate, cursor, pc, todo, starts, leaving>>
  PROVE  PairStep(w, n)
<1> DEFINE p == <<w, n>>
           s == readWriteLocked[p].chain
           c == cursor[n]
           t == Erase(s, c)
<1>1. /\ TypeOK /\ w \in Nodes /\ n \in Peers(w) /\ p \in Pairs /\ BlockInv(w, n)
      /\ s \in Seq(Nat) /\ c \in 1 .. Len(s) /\ DOMAIN s = 1 .. Len(s)
      /\ Reading(w, n) /\ readWriteLocked[p].delivered
      /\ Tail(InFlight(p)) = SubSeq(t, c, Len(t))
      /\ Queue(p) # << >> /\ Head(Queue(p)) = s[c]
      /\ Tail(Queue(p)) = Tail(InFlight(p)) \o writeCache[p].chain
  BY NextEvent
<1>2. /\ readWriteLocked'[p].chain = t
      /\ readWriteLocked'[p].undelivered = Append(readWriteLocked[p].undelivered, s[c])
      /\ readWriteLocked'[p].delivered
      /\ writeCache'[p].chain = writeCache[p].chain
  <2>1. TurnDown(n, w, c)
    OBVIOUS
  <2> HIDE DEF c
  <2> QED BY <1>1, <2>1, TurnedDown
<1>3. Reading(w, n)'
  BY <1>1 DEF Reading, Visit, At
<1>4. InFlight(p)' = Tail(InFlight(p))
  BY <1>1, <1>2, <1>3 DEF InFlight, Reading
<1>5. SameSource(w)
  BY <1>1, LivesOn DEF Visit, At
<1>6. Orphans(p)' = Orphans(p)
  BY <1>1, <1>5, SameOrphans
<1>7. Channel(p)!Reject
  BY <1>1, <1>2, <1>4, <1>6 DEF Channel!Reject, Queue, Orphans
<1>8. ReadInv(w, n)'
  <2>1. Ascending(s) /\ \A i \in DOMAIN s : i < c => s[i] \in DOMAIN fate[p] /\ fate[p][s[i]] = "delivered"
    BY <1>1 DEF BlockInv, ReadInv
  <2>2. /\ t \in Seq(Nat) /\ Len(t) = Len(s) - 1
        /\ \A i \in 1 .. Len(s) - 1 : t[i] = IF i < c THEN s[i] ELSE s[i + 1]
    BY <1>1, EraseChain
  <2>3. Ascending(t)
    BY <1>1, <2>1, EraseAscending
  <2>4. s \in Seq(Nat) /\ Len(s) \in Nat /\ DOMAIN s = 1 .. Len(s) /\ c \in 1 .. Len(s)
    BY <1>1, LenProperties
  <2> HIDE DEF t, s, c
  <2>5. DOMAIN t = 1 .. Len(s) - 1
    BY <2>2, LenProperties
  <2>6. c <= Len(t) + 1 /\ \A i \in DOMAIN t : i \in 1 .. Len(s) - 1 /\ i \in DOMAIN s
    BY ONLY <2>2, <2>4, <2>5
  <2>7. \A i \in DOMAIN t : i < c => t[i] = s[i] /\ i \in DOMAIN s
    BY ONLY <2>2, <2>6
  <2>8. cursor'[n] = c /\ fate' = fate
    BY DEF c
  <2>9. readWriteLocked'[p].chain = t
    BY <1>2
  <2>10. \A i \in DOMAIN t : i < c => t[i] \in DOMAIN fate'[p] /\ fate'[p][t[i]] = "delivered"
    BY ONLY <2>1, <2>7, <2>8
  <2> QED BY ONLY <1>3, <2>3, <2>6, <2>8, <2>9, <2>10 DEF ReadInv, p
<1>9. LeftInv(w, n)'
  BY <1>2 DEF LeftInv, Idle
<1>10. BornInv(w, n)'
  BY <1>1 DEF BlockInv, BornInv
<1> QED BY <1>7, <1>8, <1>9, <1>10 DEF PairStep, BlockInv, Channel!ChanNext

\* read() returns when every event has been taken.
LEMMA ReadEnds ==
  ASSUME Inv, EventInv, NEW n \in Nodes, NEW w \in Peers(n), Step(n), Visit(n, w, "reading"),
         cursor[n] > Len(readWriteLocked[<<w, n>>].chain), Goto(n, "readCheck"),
         UNCHANGED <<readWriteLocked, writeCache, born, fate, starts, leaving>>
  PROVE  PairStep(w, n)
<1> DEFINE p == <<w, n>>
           s == readWriteLocked[p].chain
<1>1. TypeOK /\ PairDelivered(w, n) /\ w \in Nodes /\ n \in Peers(w) /\ p \in Pairs
      /\ BlockInv(w, n)
  BY PairOf DEF Inv, DeliveredInv, Peers, EventInv
<1>2. Reading(w, n) /\ readWriteLocked[p].delivered
  BY <1>1 DEF Reading, ReaderHolds, PairDelivered
<1>3. s \in Seq(Nat) /\ Len(s) \in Nat /\ DOMAIN s = 1 .. Len(s)
  BY <1>1, PairTypes, LenProperties
<1>4. cursor[n] = Len(s) + 1
  BY <1>1, <1>2, <1>3 DEF BlockInv, ReadInv, TypeOK, OwnType
<1>5. InFlight(p) = << >>
  BY <1>1, <1>2, <1>3, <1>4, InFlightIs, WholeSuffix
<1>6. ~Reading(w, n)' /\ pc[n] # "down" /\ pc'[n] # "down"
  BY <1>1, Moves DEF Reading, Visit, At, TypeOK
<1>7. InFlight(p)' = << >>
  BY <1>2, <1>6 DEF InFlight, Reading
<1>8. SameSource(w)
  BY <1>1, <1>6, LivesOn
<1>9. UNCHANGED Channel(p)!chanVars
  BY <1>1, <1>5, <1>7, <1>8, SameOrphans DEF Channel!chanVars, Orphans
<1>10. ReadInv(w, n)'
  <2>1. \A i \in DOMAIN s : i < cursor[n]
    BY <1>3, <1>4
  <2> QED BY <1>1, <1>2, <1>6, <2>1 DEF BlockInv, ReadInv
<1>11. LeftInv(w, n)'
  BY <1>2 DEF LeftInv, Idle
<1>12. BornInv(w, n)'
  BY <1>1 DEF BlockInv, BornInv
<1> QED BY <1>9, <1>10, <1>11, <1>12 DEF PairStep, BlockInv

\* An event that was delivered is sent back between the barriers.
LEMMA EventRecalled ==
  ASSUME Inv, EventInv, NEW n \in Nodes, NEW w \in Peers(n), Step(n), pc[n] = "write",
         w \in readNodes[n], NEW i \in DOMAIN readWriteLocked[<<w, n>>].chain, TurnDown(n, w, i),
         fate' = [fate EXCEPT ![<<w, n>>][readWriteLocked[<<w, n>>].chain[i]] = "pending"],
         UNCHANGED <<born, cursor, pc, todo, starts, leaving>>
  PROVE  PairStep(w, n)
<1> DEFINE p == <<w, n>>
           s == readWriteLocked[p].chain
           t == Erase(s, i)
           e == s[i]
<1>1. TypeOK /\ PairDelivered(w, n) /\ w \in Nodes /\ n \in Peers(w) /\ p \in Pairs
      /\ BlockInv(w, n)
  BY PairOf DEF Inv, DeliveredInv, Peers, EventInv
<1>2. ~Reading(w, n) /\ ~Reading(w, n)' /\ readWriteLocked[p].delivered
  BY <1>1 DEF Reading, ReaderHolds, PairDelivered, Visit, At
<1>3. s \in Seq(Nat) /\ Len(s) \in Nat /\ DOMAIN s = 1 .. Len(s) /\ i \in 1 .. Len(s)
      /\ fate[p] \in Seq(Fates)
  BY <1>1, PairTypes, LenProperties
<1>4. /\ Ascending(s)
      /\ \A j \in DOMAIN s : s[j] \in DOMAIN fate[p] /\ fate[p][s[j]] = "delivered"
  BY <1>1, <1>2 DEF BlockInv, ReadInv
<1>5. /\ readWriteLocked'[p].chain = t
      /\ readWriteLocked'[p].undelivered = Append(readWriteLocked[p].undelivered, e)
      /\ readWriteLocked'[p].delivered
      /\ writeCache'[p].chain = writeCache[p].chain
  BY <1>1, <1>2, TurnedDown
<1>6. fate'[p] = [fate[p] EXCEPT ![e] = "pending"]
  BY <1>1 DEF TypeOK, SharedType
<1>7. InFlight(p) = << >> /\ InFlight(p)' = << >>
  BY <1>2, <1>5 DEF InFlight, Reading
<1>8. SameSource(w)
  BY <1>1, LivesOn
<1>9. Orphans(p)' = Orphans(p)
  BY <1>1, <1>6, <1>8, SameOrphans
<1>10. Channel(p)!Recall
  <2>1. e \in DOMAIN fate[p] /\ fate[p][e] = "delivered"
    BY <1>3, <1>4
  <2> HIDE DEF e
  <2> QED BY <1>5, <1>6, <1>7, <1>9, <2>1 DEF Channel!Recall, Orphans
<1>11. ReadInv(w, n)'
  <2>1. /\ t \in Seq(Nat) /\ Len(t) = Len(s) - 1
        /\ \A j \in 1 .. Len(s) - 1 : t[j] = IF j < i THEN s[j] ELSE s[j + 1]
    BY <1>3, EraseChain
  <2>2. Ascending(t) /\ \A j \in DOMAIN t : t[j] # e
    BY <1>3, <1>4, EraseAscending
  <2> HIDE DEF t, e
  <2>3. DOMAIN t = 1 .. Len(s) - 1
    BY <2>1, LenProperties
  <2>4. ASSUME NEW j \in DOMAIN t PROVE t[j] \in DOMAIN fate[p] /\ fate[p][t[j]] = "delivered"
    <3>1. j \in 1 .. Len(s) /\ j + 1 \in 1 .. Len(s) BY <1>3, <2>3
    <3>2. t[j] = s[j] \/ t[j] = s[j + 1] BY <2>1, <2>3
    <3> QED BY <1>3, <1>4, <3>1, <3>2
  <2>5. ASSUME NEW j \in DOMAIN t PROVE t[j] \in DOMAIN fate'[p] /\ fate'[p][t[j]] = "delivered"
    BY <1>6, <2>2, <2>4
  <2> QED BY <1>2, <1>5, <2>2, <2>5 DEF ReadInv
<1>12. LeftInv(w, n)'
  BY <1>5 DEF LeftInv, Idle
<1>13. BornInv(w, n)'
  <2>1. Len(fate'[p]) = Len(fate[p])
    <3>1. fate'[p] \in Seq(Fates) /\ DOMAIN fate'[p] = DOMAIN fate[p]
      BY <1>3, <1>6, ExceptType DEF Fates
    <3> QED BY <1>3, <3>1, SameDomain
  <2> QED BY <1>1, <2>1 DEF BlockInv, BornInv
<1> QED BY <1>10, <1>11, <1>12, <1>13 DEF PairStep, BlockInv, Channel!ChanNext

-----------------------------------------------------------------------------
(* What the writer does to the events of a pair.                           *)

\* A channel keeps its account in every step.
LEMMA ChannelKept ==
  ASSUME TypeOK, NEW p \in Pairs, ChannelInv(p),
         [Channel(p)!ChanNext]_(Channel(p)!chanVars)
  PROVE  ChannelInv(p)'
<1>1. CASE Channel(p)!ChanNext
  BY <1>1, ChannelStep
<1>2. CASE UNCHANGED Channel(p)!chanVars
  BY <1>2 DEF Channel!chanVars, ChannelInv, Queue, Rejected, Orphans
<1> QED BY <1>1, <1>2

\* One more event, which the source is there to hear of, leaves the others' sources as they
\* are.
LEMMA OneMore ==
  ASSUME TypeOK, NEW w \in Nodes, NEW r \in Peers(w), BornInv(w, r), SameSource(w),
         ~leaving[w], pc[w] # "down",
         born'[<<w, r>>] = Append(born[<<w, r>>], starts[w]),
         fate'[<<w, r>>] \in Seq(Fates), Len(fate'[<<w, r>>]) = Len(fate[<<w, r>>]) + 1
  PROVE  /\ Orphans(<<w, r>>)' = Orphans(<<w, r>>)
         /\ \A e \in DOMAIN fate[<<w, r>>] :
              SourceGone(<<w, r>>, e)' <=> SourceGone(<<w, r>>, e)
         /\ BornInv(w, r)'
<1> DEFINE p == <<w, r>>
<1>1. p \in Pairs /\ fate[p] \in Seq(Fates) /\ born[p] \in Seq(Nat) /\ starts[w] \in Nat
  BY PairOf, PairTypes DEF Peers, TypeOK, LifeType
<1>2. PICK k \in Nat, a \in Nat, s \in Nat, b \in Seq(Nat) :
        k = Len(fate[p]) /\ a = k + 1 /\ s = starts[w] /\ b = born[p]
  BY <1>1, LenProperties
<1>3. /\ DOMAIN fate[p] = 1 .. k /\ DOMAIN b = 1 .. k /\ Len(b) = k
      /\ DOMAIN fate'[p] = 1 .. a
  BY <1>1, <1>2, LenProperties DEF BornInv
<1>4. /\ DOMAIN born'[p] = 1 .. a /\ born'[p][a] = s /\ Len(born'[p]) = a
      /\ \A e \in 1 .. k : born'[p][e] = b[e]
  <2>1. born'[p] = Append(b, s)
    BY <1>2
  <2>2. /\ Append(b, s) \in Seq(Nat) /\ Len(Append(b, s)) = k + 1 /\ Append(b, s)[k + 1] = s
        /\ \A e \in 1 .. k : Append(b, s)[e] = b[e]
    <3>1. b \in Seq(Nat) /\ s \in Nat /\ Len(b) = k
      BY <1>2, <1>3
    <3> QED BY ONLY <3>1, AppendProperties
  <2>3. DOMAIN Append(b, s) = 1 .. a
    BY <1>2, <2>2, LenProperties
  <2> QED BY <1>2, <2>1, <2>2, <2>3
<1>5. /\ \A e \in 1 .. a : e \in 1 .. k \/ e = a
      /\ 1 .. k \subseteq 1 .. a
  BY <1>2
<1>6. starts'[w] = s /\ ~leaving'[w] /\ pc'[w] # "down"
  BY <1>2 DEF SameSource
<1>7. \A e \in 1 .. k : b[e] <= s
  BY <1>2, <1>3 DEF BornInv
<1>8. \A e \in 1 .. k : SourceGone(p, e)' <=> SourceGone(p, e)
  BY <1>2, <1>4, <1>6 DEF SourceGone
<1>9. ~SourceGone(p, a)'
  BY <1>2, <1>4, <1>6 DEF SourceGone
<1>10. Orphans(p)' = Orphans(p)
  <2>1. Orphans(p)' = {e \in 1 .. a : SourceGone(p, e)'}
    BY <1>3 DEF Orphans
  <2>2. Orphans(p) = {e \in 1 .. k : SourceGone(p, e)}
    BY <1>3 DEF Orphans
  <2>3. \A e : e \in {x \in 1 .. a : SourceGone(p, x)'} <=> e \in {x \in 1 .. k : SourceGone(p, x)}
    BY ONLY <1>5, <1>8, <1>9
  <2> QED BY <2>1, <2>2, <2>3
<1>11. BornInv(w, r)'
  <2>1. SUFFICES ASSUME NEW e \in 1 .. a PROVE born'[p][e] <= s
    BY <1>2, <1>4, <1>6 DEF BornInv
  <2>2. CASE e \in 1 .. k
    BY ONLY <1>4, <1>7, <2>2
  <2>3. CASE e = a
    BY ONLY <1>2, <1>4, <2>3
  <2> QED BY <1>5, <2>2, <2>3
<1> QED BY <1>3, <1>8, <1>10, <1>11

\* A push to r, by an actor or by a handler that hears of an event that came back
PushedTo(w, r) ==
  LET p == <<w, r>> IN
  /\ ~leaving[w]
  /\ born'[p] = Append(born[p], starts[w])
  /\ fate'[p] = Append(fate[p], "pending")
  /\ writeCache'[p].chain = Append(writeCache[p].chain, Len(fate[p]) + 1)
  /\ readWriteLocked'[p] = readWriteLocked[p]

\* The channel sends the event.
LEMMA EventPushed ==
  ASSUME TypeOK, NEW w \in Nodes, NEW r \in Peers(w), ChannelInv(<<w, r>>), BlockInv(w, r),
         PushedTo(w, r), SameSource(w), pc[w] # "down",
         Reading(w, r)' <=> Reading(w, r), Reading(w, r) => cursor'[r] = cursor[r],
         Idle(w, r)' => Idle(w, r)
  PROVE  PairStep(w, r)
<1> DEFINE p == <<w, r>>
           f == fate[p]
           s == readWriteLocked[p].chain
<1>1. /\ p \in Pairs /\ f \in Seq(Fates) /\ s \in Seq(Nat) /\ InFlight(p) \in Seq(Nat)
      /\ writeCache[p].chain \in Seq(Nat)
  BY PairOf, PairTypes DEF Peers
<1>2. /\ Len(f) \in Nat /\ DOMAIN f = 1 .. Len(f)
      /\ fate'[p] \in Seq(Fates) /\ Len(fate'[p]) = Len(f) + 1
      /\ \A e \in 1 .. Len(f) : fate'[p][e] = f[e]
      /\ DOMAIN fate'[p] = 1 .. Len(f) + 1
  BY <1>1, AppendProperties, LenProperties DEF PushedTo, Fates
<1>3. /\ Orphans(p)' = Orphans(p)
      /\ \A e \in DOMAIN f : SourceGone(p, e)' <=> SourceGone(p, e)
      /\ BornInv(w, r)'
  BY <1>2, OneMore DEF PushedTo, BlockInv
<1>4. InFlight(p)' = InFlight(p)
  BY DEF InFlight, PushedTo, Reading
<1>5. Queue(p)' = Append(Queue(p), Len(f) + 1)
  <2>1. Queue(p)' = InFlight(p) \o Append(writeCache[p].chain, Len(f) + 1)
    BY <1>4 DEF Queue, PushedTo
  <2>2. Len(f) + 1 \in Nat
    BY <1>2
  <2> HIDE DEF f
  <2> QED BY <1>1, <2>1, <2>2, ConcatAppend DEF Queue
<1>6. Channel(p)!Send
  BY <1>3, <1>5 DEF Channel!Send, PushedTo, Queue, Orphans
<1>7. ReadInv(w, r)'
  <2>1. \A e \in DOMAIN f : e \in DOMAIN fate'[p] /\ fate'[p][e] = f[e]
    <3> HIDE DEF f
    <3>1. 1 .. Len(f) \subseteq 1 .. Len(f) + 1
      BY <1>2
    <3> QED BY <1>2, <3>1
  <2> QED BY <2>1 DEF BlockInv, ReadInv, PushedTo
<1>8. LeftInv(w, r)'
  <2>1. SUFFICES ASSUME Idle(w, r), NEW i \in DOMAIN s, NEW e, e = s[i]
                 PROVE  SourceGone(p, e)'
    BY DEF LeftInv, PushedTo
  <2>2. InFlight(p) = s
    BY <2>1, InFlightIs DEF Idle
  <2>3. InChain(InFlight(p), s[i])
    BY <2>1, <2>2 DEF InChain
  <2>4. InChain(Queue(p), s[i])
    BY <1>1, <2>3, ConcatChain DEF Queue
  <2>5. s[i] \in DOMAIN f
    BY <2>4 DEF ChannelInv, Accounted
  <2>6. SourceGone(p, s[i])
    BY <2>1 DEF BlockInv, LeftInv
  <2> QED BY <1>3, <2>1, <2>5, <2>6
<1> QED BY <1>3, <1>6, <1>7, <1>8 DEF PairStep, BlockInv, Channel!ChanNext

\* fate of a pair whose events of back are dispatched and those of drop thrown away
LEMMA DispatchedBack ==
  ASSUME TypeOK, NEW p \in Pairs, NEW back, NEW drop, pc[p[1]] # "down",
         \A e \in drop : SourceGone(p, e)
  PROVE  LET g == Dispatched(p, back, drop)
         IN /\ g = Channel(p)!SentBack(back \cup drop)
            /\ g \in Seq(Fates) /\ Len(g) = Len(fate[p])
<1> DEFINE g == Dispatched(p, back, drop)
           G(e) == IF e \notin back \cup drop THEN fate[p][e]
                   ELSE IF e \in Orphans(p) THEN "discarded" ELSE "returned"
<1>1. fate[p] \in Seq(Fates)
  BY PairTypes
<1>2. g \in Seq(Fates) /\ DOMAIN g = DOMAIN fate[p]
  BY DispatchedType DEF TypeOK, Dispatched
<1>3. Len(g) = Len(fate[p])
  <2> HIDE DEF g
  <2> QED BY <1>1, <1>2, SameDomain
<1>4. \A e \in DOMAIN fate[p] :
        (IF e \in back /\ born[p][e] = starts[p[1]] /\ ~leaving[p[1]] THEN "returned"
         ELSE IF e \in back \cup drop THEN "discarded" ELSE fate[p][e]) = G(e)
  BY DEF Orphans, SourceGone
<1>5. g = [e \in DOMAIN fate[p] |-> G(e)]
  BY <1>4 DEF Dispatched
<1>6. Channel(p)!SentBack(back \cup drop) = [e \in DOMAIN fate[p] |-> G(e)]
  BY DEF Channel!SentBack, Orphans
<1> QED BY <1>2, <1>3, <1>5, <1>6

\* Events go back to their source, and perhaps a new one is pushed.
LEMMA GivenBack ==
  ASSUME TypeOK, NEW w \in Nodes, NEW r \in Peers(w), BornInv(w, r), SameSource(w),
         pc[w] # "down", NEW k \in 0 .. Len(Queue(<<w, r>>)), NEW back, NEW drop,
         \A e : e \in back \cup drop <=> \/ InChain(Rejected(<<w, r>>), e)
                                         \/ InChain(SubSeq(Queue(<<w, r>>), 1, k), e),
         \A e \in drop : SourceGone(<<w, r>>, e),
         Rejected(<<w, r>>)' = << >>,
         LET p    == <<w, r>>
             g    == Dispatched(p, back, drop)
             rest == SubSeq(Queue(p), k + 1, Len(Queue(p)))
         IN \/ born'[p] = born[p] /\ fate'[p] = g /\ Queue(p)' = rest
            \/ /\ back # {} /\ ~leaving[w] /\ born'[p] = Append(born[p], starts[w])
               /\ \/ fate'[p] = Append(g, "pending")
                       /\ Queue(p)' = Append(rest, Len(fate[p]) + 1)
                  \/ fate'[p] = Append(g, "returned") /\ Queue(p)' = rest
  PROVE  /\ [Channel(<<w, r>>)!ChanNext]_(Channel(<<w, r>>)!chanVars)
         /\ BornInv(w, r)'
<1> DEFINE p    == <<w, r>>
           q    == Queue(p)
           t    == Rejected(p)
           g    == Dispatched(p, back, drop)
           rest == SubSeq(q, k + 1, Len(q))
           S    == Channel(p)!Elements(t) \cup Channel(p)!Elements(SubSeq(q, 1, k))
<1>1. /\ p \in Pairs /\ fate[p] \in Seq(Fates) /\ born[p] \in Seq(Nat) /\ p[1] = w
      /\ q \in Seq(Nat) /\ t \in Seq(Nat) /\ Len(fate[p]) \in Nat
  BY PairOf, PairTypes, LenProperties DEF Peers
<1>2. S = back \cup drop
  <2>1. \A e : e \in S <=> InChain(t, e) \/ InChain(SubSeq(q, 1, k), e)
    BY DEF Channel!Elements, InChain
  <2> QED BY <2>1
<1>3. g = Channel(p)!SentBack(S) /\ g \in Seq(Fates) /\ Len(g) = Len(fate[p])
  <2>1. pc[p[1]] # "down" /\ \A e \in drop : SourceGone(p, e)
    BY <1>1
  <2> HIDE DEF p, S
  <2>2. LET h == Dispatched(p, back, drop)
        IN /\ h = Channel(p)!SentBack(back \cup drop)
           /\ h \in Seq(Fates) /\ Len(h) = Len(fate[p])
    BY <1>1, <2>1, DispatchedBack
  <2> QED BY <1>2, <2>2
<1>4. CASE born'[p] = born[p] /\ fate'[p] = g /\ Queue(p)' = rest
  <2>1. DOMAIN fate'[p] = DOMAIN fate[p]
    BY <1>1, <1>3, <1>4, LenProperties
  <2>2. Orphans(p)' = Orphans(p)
    BY <1>4, <2>1, SameOrphans
  <2>3. BornInv(w, r)'
    BY <1>3, <1>4 DEF BornInv, SameSource
  <2>4. CASE S # {}
    <3>1. Channel(p)!GiveBack
      BY <1>3, <1>4, <2>2, <2>4 DEF Channel!GiveBack, Queue, Orphans, Rejected
    <3> QED BY <2>3, <3>1 DEF Channel!ChanNext
  <2>5. CASE S = {}
    <3>1. t = << >>
      <4>1. t # << >> => InChain(t, Head(t))
        BY <1>1, HeadChain
      <4> QED BY <1>2, <2>5, <4>1
    <3>2. k = 0
      <4>1. k \in Nat /\ DOMAIN SubSeq(q, 1, k) = 1 .. k
        BY <1>1, Prefix, LenProperties
      <4>2. k # 0 => 1 \in 1 .. k
        BY <4>1
      <4>3. k # 0 => InChain(SubSeq(q, 1, k), SubSeq(q, 1, k)[1])
        BY <4>1, <4>2 DEF InChain
      <4> QED BY <1>2, <2>5, <4>3
    <3>3. rest = q
      BY <1>1, <3>2, WholeSuffix
    <3>4. g = fate[p]
      <4>1. g = [e \in DOMAIN fate[p] |-> fate[p][e]]
        BY <1>3, <2>5 DEF Channel!SentBack
      <4> QED BY <1>1, <4>1, LenProperties
    <3>5. UNCHANGED Channel(p)!chanVars
      BY <1>4, <2>2, <3>1, <3>3, <3>4 DEF Channel!chanVars, Queue, Rejected, Orphans
    <3> QED BY <2>3, <3>5
  <2> QED BY <2>4, <2>5
<1>5. CASE /\ back # {} /\ ~leaving[w] /\ born'[p] = Append(born[p], starts[w])
           /\ \/ fate'[p] = Append(g, "pending") /\ Queue(p)' = Append(rest, Len(fate[p]) + 1)
              \/ fate'[p] = Append(g, "returned") /\ Queue(p)' = rest
  <2>1. fate'[p] \in Seq(Fates) /\ Len(fate'[p]) = Len(fate[p]) + 1
    <3>1. fate'[p] = Append(g, "pending") \/ fate'[p] = Append(g, "returned")
      BY <1>5
    <3>2. g \in Seq(Fates) /\ "pending" \in Fates /\ "returned" \in Fates
      BY <1>3 DEF Fates
    <3> HIDE DEF g, p
    <3>3. Append(g, "pending") \in Seq(Fates) /\ Append(g, "returned") \in Seq(Fates)
          /\ Len(Append(g, "pending")) = Len(g) + 1 /\ Len(Append(g, "returned")) = Len(g) + 1
      BY ONLY <3>2, AppendProperties
    <3> QED BY <1>3, <3>1, <3>3
  <2>2. Orphans(p)' = Orphans(p) /\ BornInv(w, r)'
    BY <1>5, <2>1, OneMore
  <2>3. S # {}
    BY <1>2, <1>5
  <2>4. Channel(p)!GiveBack
    BY <1>3, <1>5, <2>2, <2>3 DEF Channel!GiveBack, Queue, Orphans, Rejected
  <2> QED BY <2>2, <2>4 DEF Channel!ChanNext
<1> QED BY <1>4, <1>5

\* What a push of a handler adds to the history and to the cache
LEMMA PushedPair ==
  ASSUME TypeOK, NEW n \in Nodes, NEW d \in Nodes, NEW q \in Pairs,
         NEW f \in [Pairs -> Seq(Fates)], NEW first
  PROVE  /\ q = <<n, d>> =>
              /\ PushedBorn(n, d)[q] = Append(born[q], starts[n])
              /\ PushedFate(n, d, f, first)[q] = Append(f[q], first)
              /\ PushedCache(n, d)[q].chain = Append(writeCache[q].chain, Len(fate[q]) + 1)
         /\ q # <<n, d>> =>
              /\ PushedBorn(n, d)[q] = born[q]
              /\ PushedFate(n, d, f, first)[q] = f[q]
              /\ PushedCache(n, d)[q] = writeCache[q]
<1>1. q = <<n, d>> => d # n
  BY DEF Pairs
<1>2. writeCache[q] \in WriteCache
  BY DEF TypeOK, SharedType
<1>3. CASE q = <<n, d>>
  <2> DEFINE c == Append(writeCache[q].chain, Len(fate[q]) + 1)
  <2>1. PushedCache(n, d)[q] = [writeCache[q] EXCEPT !.chain = c]
    BY <1>1, <1>3 DEF PushedCache, TypeOK, SharedType
  <2>2. PushedCache(n, d)[q].chain = c
    <3> HIDE DEF c
    <3> QED BY <1>2, <2>1 DEF WriteCache
  <2> QED BY <1>1, <1>3, <2>2 DEF PushedBorn, PushedFate, TypeOK, SharedType
<1>4. CASE q # <<n, d>>
  BY <1>4 DEF PushedBorn, PushedFate, PushedCache, TypeOK, SharedType
<1> QED BY <1>3, <1>4

SamePair(p) ==
  /\ readWriteLocked'[p] = readWriteLocked[p] /\ writeCache'[p].chain = writeCache[p].chain
  /\ born'[p] = born[p] /\ fate'[p] = fate[p]

\* What write() or writeFailed() dispatches or throws away
BackOf(p, failed) ==
  LET rw == readWriteLocked[p] IN
  IF ~failed THEN Pending(rw.undelivered)
  ELSE Pending(IF rw.delivered THEN rw.undelivered ELSE rw.chain) \cup Pending(writeCache[p].chain)

DropOf(p, failed) ==
  IF failed \/ readWriteLocked[p].delivered THEN {} ELSE Pending(readWriteLocked[p].chain)

\* What write() and writeFailed() do to the pairs of the writer n
LEMMA WriteEffect ==
  ASSUME TypeOK, NEW n \in Nodes, NEW x \in Peers(n), NEW failed \in BOOLEAN,
         IF failed THEN WriteFailed(n, x) ELSE Write(n, x)
  PROVE  LET p    == <<n, x>>
             back == BackOf(p, failed)
             g    == Dispatched(p, back, DropOf(p, failed))
             rw   == readWriteLocked'[p]
             new  == Append(writeCache[p].chain, Len(fate[p]) + 1)
         IN
         /\ ~rw.delivered /\ writeCache'[p].chain = << >>
         /\ ~failed \/ readWriteLocked[p].delivered => rw.undelivered = << >>
         /\ failed /\ ~readWriteLocked[p].delivered =>
              rw.undelivered = readWriteLocked[p].undelivered
         /\ failed => rw.chain = << >>
         /\ ~failed /\ x \notin writeNodes'[n] => rw.chain = << >>
         /\ \/ /\ born'[p] = born[p] /\ fate'[p] = g
               /\ ~failed => rw.chain = writeCache[p].chain
            \/ /\ back # {} /\ ~leaving[n] /\ born'[p] = Append(born[p], starts[n])
               /\ fate'[p] = Append(g, IF failed THEN "returned" ELSE "pending")
               /\ ~failed => rw.chain = new
         /\ \A r \in Peers(n) \ {x} : PushedTo(n, r) \/ SamePair(<<n, r>>)
         /\ \A w \in Nodes \ {n} : \A r \in Peers(w) : SamePair(<<w, r>>)
<1> DEFINE p    == <<n, x>>
           back == BackOf(p, failed)
           g    == Dispatched(p, back, DropOf(p, failed))
           rw   == readWriteLocked'[p]
           new  == Append(writeCache[p].chain, Len(fate[p]) + 1)
           sent == [fate EXCEPT ![p] = g]
<1>0. p \in Pairs
  BY PairOf DEF Peers
<1>1. PICK d \in Nodes :
        /\ d # n => back # {} /\ ~leaving[n]
        /\ born' = PushedBorn(n, d)
        /\ fate' = PushedFate(n, d, sent, IF failed /\ d = x THEN "returned" ELSE "pending")
        /\ writeCache' = [PushedCache(n, d) EXCEPT ![p] = [check |-> FALSE, chain |-> << >>]]
        /\ ~rw.delivered
        /\ rw.chain = IF failed THEN << >> ELSE PushedCache(n, d)[p].chain
        /\ rw.undelivered = IF failed /\ ~readWriteLocked[p].delivered
                              THEN readWriteLocked[p].undelivered ELSE << >>
        /\ \A q \in Pairs : q # p => readWriteLocked'[q] = readWriteLocked[q]
        /\ ~failed /\ x \notin writeNodes'[n] => PushedCache(n, d)[p].chain = << >>
  <2>1. CASE failed
    <3>1. sent = [fate EXCEPT ![p] = Dispatched(p, back, {})]
          /\ back = Pending(IF readWriteLocked[p].delivered THEN readWriteLocked[p].undelivered
                                                            ELSE readWriteLocked[p].chain)
                      \cup Pending(writeCache[p].chain)
      BY <2>1 DEF DropOf, BackOf
    <3> HIDE DEF sent, back
    <3>2. PICK d \in Nodes :
            /\ MayPush(n, d, back)
            /\ born' = PushedBorn(n, d)
            /\ fate' = PushedFate(n, d, sent, IF d = x THEN "returned" ELSE "pending")
            /\ readWriteLocked' = [readWriteLocked EXCEPT ![p] =
                 [delivered |-> FALSE, check |-> FALSE, chain |-> << >>,
                  undelivered |-> IF readWriteLocked[p].delivered
                                    THEN << >> ELSE readWriteLocked[p].undelivered]]
            /\ writeCache' = [PushedCache(n, d) EXCEPT
                 ![p] = [check |-> FALSE, chain |-> << >>]]
      BY <2>1, <3>1 DEF WriteFailed
    <3>3. /\ ~rw.delivered /\ rw.chain = << >>
          /\ rw.undelivered = IF readWriteLocked[p].delivered
                                THEN << >> ELSE readWriteLocked[p].undelivered
          /\ \A q \in Pairs : q # p => readWriteLocked'[q] = readWriteLocked[q]
      BY <1>0, <3>2 DEF TypeOK, SharedType
    <3>4. d # n => back # {} /\ ~leaving[n]
      BY <3>2 DEF MayPush
    <3> HIDE DEF rw
    <3> QED BY <2>1, <3>2, <3>3, <3>4
  <2>2. CASE ~failed
    <3>1. PICK d \in Nodes :
            LET cache == PushedCache(n, d)
                told  == {y \in {x} : cache[p].check \/ cache[p].chain # << >>}
            IN
            /\ MayPush(n, d, back)
            /\ born' = PushedBorn(n, d)
            /\ fate' = PushedFate(n, d, sent, "pending")
            /\ readWriteLocked' = [readWriteLocked EXCEPT ![p] =
                 [delivered |-> FALSE, check |-> cache[p].check,
                  chain |-> cache[p].chain, undelivered |-> << >>]]
            /\ writeCache' = [cache EXCEPT ![p] = [check |-> FALSE, chain |-> << >>]]
            /\ writeNodes' = [writeNodes EXCEPT ![n] = @ \cup told]
      BY <2>2 DEF Write, BackOf, DropOf
    <3>2. x \notin writeNodes'[n] => PushedCache(n, d)[p].chain = << >>
      BY <3>1 DEF TypeOK, OwnType
    <3>3. /\ ~rw.delivered /\ rw.chain = PushedCache(n, d)[p].chain /\ rw.undelivered = << >>
          /\ \A q \in Pairs : q # p => readWriteLocked'[q] = readWriteLocked[q]
      BY <1>0, <3>1 DEF TypeOK, SharedType
    <3>4. d # n => back # {} /\ ~leaving[n]
      BY <3>1 DEF MayPush
    <3> HIDE DEF rw, sent, back
    <3> QED BY <2>2, <3>1, <3>2, <3>3, <3>4
  <2> QED BY <2>1, <2>2
<1> DEFINE first == IF failed /\ d = x THEN "returned" ELSE "pending"
<1>2. p \in Pairs /\ sent \in [Pairs -> Seq(Fates)]
  BY PairOf, DispatchedType DEF Peers, TypeOK, SharedType
<1>3. PushedCache(n, d) \in [Pairs -> WriteCache]
  <2>1. "pending" \in Fates
    BY DEF Fates
  <2> HIDE DEF sent
  <2> QED BY <1>2, <2>1, PushedType
<1>4. writeCache'[p].chain = << >> /\ \A q \in Pairs : q # p => writeCache'[q] = PushedCache(n, d)[q]
  BY <1>1, <1>2, <1>3
<1>6. sent[p] = g /\ \A q \in Pairs : q # p => sent[q] = fate[q]
  BY <1>2 DEF TypeOK, SharedType
<1> HIDE DEF sent
<1>7. ASSUME NEW q \in Pairs
      PROVE  /\ q = <<n, d>> =>
                   /\ born'[q] = Append(born[q], starts[n])
                   /\ fate'[q] = Append(sent[q], first)
                   /\ PushedCache(n, d)[q].chain = Append(writeCache[q].chain, Len(fate[q]) + 1)
             /\ q # <<n, d>> =>
                   /\ born'[q] = born[q] /\ fate'[q] = sent[q]
                   /\ PushedCache(n, d)[q] = writeCache[q]
  <2>1. born' = PushedBorn(n, d) /\ fate' = PushedFate(n, d, sent, first)
    BY <1>1
  <2> HIDE DEF first
  <2>2. /\ q = <<n, d>> =>
              /\ PushedBorn(n, d)[q] = Append(born[q], starts[n])
              /\ PushedFate(n, d, sent, first)[q] = Append(sent[q], first)
              /\ PushedCache(n, d)[q].chain = Append(writeCache[q].chain, Len(fate[q]) + 1)
        /\ q # <<n, d>> =>
              /\ PushedBorn(n, d)[q] = born[q]
              /\ PushedFate(n, d, sent, first)[q] = sent[q]
              /\ PushedCache(n, d)[q] = writeCache[q]
    <3>1. TypeOK /\ n \in Nodes /\ d \in Nodes /\ q \in Pairs /\ sent \in [Pairs -> Seq(Fates)]
      BY <1>2
    <3> QED BY ONLY <3>1, PushedPair
  <2>3. born'[q] = PushedBorn(n, d)[q] /\ fate'[q] = PushedFate(n, d, sent, first)[q]
    BY <2>1
  <2> QED BY ONLY <2>2, <2>3
<1>8. \/ /\ born'[p] = born[p] /\ fate'[p] = g
         /\ ~failed => rw.chain = writeCache[p].chain
      \/ /\ back # {} /\ ~leaving[n] /\ born'[p] = Append(born[p], starts[n])
         /\ fate'[p] = Append(g, IF failed THEN "returned" ELSE "pending")
         /\ ~failed => rw.chain = new
  <2>1. CASE d = x
    <3>1. d # n
      BY <2>1 DEF Peers
    <3> HIDE DEF g, back
    <3> QED BY <1>1, <1>2, <1>6, <1>7, <2>1, <3>1
  <2>2. CASE d # x
    <3> HIDE DEF g, back
    <3> QED BY <1>1, <1>2, <1>6, <1>7, <2>2
  <2> QED BY <2>1, <2>2
<1>9. ASSUME NEW r \in Peers(n) \ {x}
      PROVE  PushedTo(n, r) \/ SamePair(<<n, r>>)
  <2>1. <<n, r>> \in Pairs /\ <<n, r>> # p
    BY PairOf DEF Peers
  <2>2. CASE d = r
    <3>1. d # n /\ first = "pending"
      BY <1>1, <2>2 DEF Peers
    <3> QED BY <1>1, <1>4, <1>6, <1>7, <2>1, <2>2, <3>1 DEF PushedTo
  <2>3. CASE d # r
    BY <1>1, <1>4, <1>6, <1>7, <2>1, <2>3 DEF SamePair
  <2> QED BY <2>2, <2>3
<1>10. ASSUME NEW w \in Nodes \ {n}, NEW r \in Peers(w)
       PROVE  SamePair(<<w, r>>)
  <2>1. <<w, r>> \in Pairs /\ <<w, r>> # p /\ <<w, r>> # <<n, d>>
    BY PairOf DEF Peers
  <2> QED BY <1>1, <1>4, <1>6, <1>7, <2>1 DEF SamePair
<1> QED BY <1>1, <1>4, <1>8, <1>9, <1>10

\* write() gives the events back that were turned down, and throws away those that nobody
\* read; writeFailed() gives them all back.
LEMMA EventsBack ==
  ASSUME Inv, EventInv, NEW n \in Nodes, NEW x \in Peers(n), NEW failed \in BOOLEAN,
         Step(n), IF failed THEN WriteFailed(n, x) ELSE Write(n, x),
         pc[n] # "down", pc'[n] # "down", UNCHANGED <<starts, leaving>>,
         ~Reading(n, x), ~failed => ~isWriteLocked[<<n, x>>] /\ x \notin writeNodes[n]
  PROVE  PairStep(n, x)
<1> DEFINE p    == <<n, x>>
           q    == Queue(p)
           t    == Rejected(p)
           back == BackOf(p, failed)
           drop == DropOf(p, failed)
           g    == Dispatched(p, back, drop)
           s    == readWriteLocked[p].chain
           u    == writeCache[p].chain
           k    == IF failed THEN Len(q) ELSE Len(InFlight(p))
           rest == SubSeq(q, k + 1, Len(q))
<1>1. /\ TypeOK /\ PairDelivered(n, x) /\ BlockInv(n, x) /\ ChannelInv(p) /\ p \in Pairs
      /\ s \in Seq(Nat) /\ u \in Seq(Nat) /\ q \in Seq(Nat) /\ t \in Seq(Nat)
      /\ InFlight(p) \in Seq(Nat) /\ Len(fate[p]) \in Nat
  BY PairOf, PairTypes, LenProperties DEF Inv, DeliveredInv, EventInv, Peers
<1>2. InFlight(p) = IF readWriteLocked[p].delivered THEN << >> ELSE s
  BY <1>1, InFlightIs
<1>3. ~readWriteLocked[p].delivered => t = << >>
  BY <1>1 DEF PairDelivered, Rejected
<1>4. /\ k \in 0 .. Len(q)
      /\ SubSeq(q, 1, k) = IF failed THEN q ELSE InFlight(p)
      /\ rest = IF failed THEN << >> ELSE u
  <2>1. /\ q = InFlight(p) \o u /\ Len(q) \in Nat /\ Len(q) \in 0 .. Len(q)
    BY <1>1, LenProperties DEF Queue
  <2>2. CASE failed
    <3> HIDE DEF q
    <3> QED BY <1>1, <2>1, <2>2, WholeSuffix
  <2>3. CASE ~failed
    <3> DEFINE v == InFlight(p)
    <3>1. q = v \o u /\ v \in Seq(Nat)
      BY <1>1, <2>1
    <3> HIDE DEF q, u, v
    <3>2. /\ Len(v) \in 0 .. Len(v \o u) /\ SubSeq(v \o u, 1, Len(v)) = v
          /\ SubSeq(v \o u, Len(v) + 1, Len(v \o u)) = u
      BY <1>1, <3>1, ConcatParts
    <3> QED BY <2>3, <3>1, <3>2 DEF v
  <2> QED BY <2>2, <2>3
<1>5. \A e : e \in back \cup drop <=> InChain(t, e) \/ InChain(SubSeq(q, 1, k), e)
  <2>1. \A e, c : e \in Pending(c) <=> InChain(c, e)
    BY DEF Pending, InChain
  <2>2. \A e : ~InChain(<< >>, e)
    BY EmptyChain
  <2>3. \A e : InChain(q, e) <=> InChain(InFlight(p), e) \/ InChain(u, e)
    BY <1>1, ConcatChain DEF Queue
  <2>4. CASE failed
    <3>1. \A e : InChain(SubSeq(q, 1, k), e) <=> InChain(InFlight(p), e) \/ InChain(u, e)
      BY <1>4, <2>3, <2>4
    <3>2. \A e : e \in back \cup drop <=>
            \/ InChain(IF readWriteLocked[p].delivered THEN t ELSE s, e) \/ InChain(u, e)
      BY <2>1, <2>4 DEF BackOf, DropOf, Rejected
    <3> HIDE DEF q, back, drop, k, u, t, s
    <3> QED BY <1>2, <1>3, <2>2, <3>1, <3>2
  <2>5. CASE ~failed
    <3>1. \A e : InChain(SubSeq(q, 1, k), e) <=> InChain(InFlight(p), e)
      BY <1>4, <2>5
    <3>2. \A e : e \in back \cup drop <=>
            InChain(t, e) \/ (~readWriteLocked[p].delivered /\ InChain(s, e))
      BY <2>1, <2>5 DEF BackOf, DropOf, Rejected
    <3> HIDE DEF q, back, drop, k, u, t, s
    <3> QED BY <1>2, <2>2, <3>1, <3>2
  <2> QED BY <2>4, <2>5
<1>6. \A e \in drop : SourceGone(p, e)
  <2>1. SUFFICES ASSUME ~failed, ~readWriteLocked[p].delivered, NEW i \in DOMAIN s
                 PROVE  SourceGone(p, s[i])
    BY DEF DropOf, Pending
  <2>2. Idle(n, x)
    BY <2>1 DEF Idle
  <2> QED BY <1>1, <2>1, <2>2 DEF BlockInv, LeftInv
<1>7. SameSource(n)
  BY <1>1, LivesOn
<1>8. /\ ~readWriteLocked'[p].delivered /\ writeCache'[p].chain = << >>
      /\ Rejected(p)' = << >>
      /\ failed \/ x \notin writeNodes'[n] => readWriteLocked'[p].chain = << >>
      /\ \/ /\ born'[p] = born[p] /\ fate'[p] = g
            /\ ~failed => readWriteLocked'[p].chain = u
         \/ /\ back # {} /\ ~leaving[n] /\ born'[p] = Append(born[p], starts[n])
            /\ fate'[p] = Append(g, IF failed THEN "returned" ELSE "pending")
            /\ ~failed => readWriteLocked'[p].chain = Append(u, Len(fate[p]) + 1)
  <2>1. LET rw == readWriteLocked'[p]
        IN
         /\ ~rw.delivered /\ writeCache'[p].chain = << >>
         /\ ~failed \/ readWriteLocked[p].delivered => rw.undelivered = << >>
         /\ failed /\ ~readWriteLocked[p].delivered =>
              rw.undelivered = readWriteLocked[p].undelivered
         /\ failed => rw.chain = << >>
         /\ ~failed /\ x \notin writeNodes'[n] => rw.chain = << >>
         /\ \/ /\ born'[p] = born[p] /\ fate'[p] = g
               /\ ~failed => rw.chain = writeCache[p].chain
            \/ /\ back # {} /\ ~leaving[n] /\ born'[p] = Append(born[p], starts[n])
               /\ fate'[p] = Append(g, IF failed THEN "returned" ELSE "pending")
               /\ ~failed => rw.chain = Append(u, Len(fate[p]) + 1)
    BY <1>1, WriteEffect
  <2> HIDE DEF g, back
  <2> QED BY <1>3, <2>1 DEF Rejected
<1>9. TypeOK'
  BY <1>1, TypeStep DEF Next
<1>10. InFlight(p)' = readWriteLocked'[p].chain /\ Queue(p)' = readWriteLocked'[p].chain
  <2>1. readWriteLocked'[p].chain \in Seq(Nat)
    BY <1>1, <1>9 DEF TypeOK, SharedType, ReadWriteLocked
  <2>2. InFlight(p)' = readWriteLocked'[p].chain
    BY <1>8 DEF InFlight
  <2> DEFINE v == readWriteLocked'[p].chain
  <2>3. v \in Seq(Nat) /\ << >> \in Seq(Nat) /\ Queue(p)' = v \o << >>
    BY <1>8, <2>1, <2>2, EmptySeq DEF Queue
  <2> HIDE DEF v
  <2>4. v \o << >> = v
    BY <2>3, ConcatParts
  <2> QED BY <2>2, <2>3, <2>4 DEF v
<1>11. /\ [Channel(p)!ChanNext]_(Channel(p)!chanVars)
       /\ BornInv(n, x)'
  <2>1. BornInv(n, x)
    BY <1>1 DEF BlockInv
  <2>2. \/ born'[p] = born[p] /\ fate'[p] = g /\ Queue(p)' = rest
        \/ /\ back # {} /\ ~leaving[n] /\ born'[p] = Append(born[p], starts[n])
           /\ \/ fate'[p] = Append(g, "pending")
                   /\ Queue(p)' = Append(rest, Len(fate[p]) + 1)
              \/ fate'[p] = Append(g, "returned") /\ Queue(p)' = rest
    <3> HIDE DEF g, back, rest, u
    <3> QED BY <1>4, <1>8, <1>10
  <2> HIDE DEF back, drop, k
  <2> QED BY <1>1, <1>4, <1>5, <1>6, <1>7, <1>8, <2>1, <2>2, GivenBack
<1>12. Ascending(readWriteLocked'[p].chain)
  <2>1. ChannelInv(p)'
    BY <1>1, <1>11, ChannelKept
  <2> QED BY <1>10, <2>1 DEF ChannelInv, Accounted
<1>13. ~Reading(n, x)'
  <2>1. pc'[x] = pc[x] /\ todo'[x] = todo[x]
    BY <1>1, OthersStay DEF Peers
  <2> QED BY <2>1 DEF Reading, Visit, At
<1>14. ReadInv(n, x)'
  BY <1>8, <1>12, <1>13 DEF ReadInv
<1>15. LeftInv(n, x)'
  <2>1. Idle(n, x)' => readWriteLocked'[p].chain = << >>
    BY <1>8 DEF Idle
  <2>2. DOMAIN (<< >>) = {}
    OBVIOUS
  <2> QED BY <2>1, <2>2 DEF LeftInv
<1> QED BY <1>11, <1>14, <1>15 DEF PairStep, BlockInv

-----------------------------------------------------------------------------
(* What a step does to the pairs.                                          *)

\* The steps that touch no event and no cursor, and do not begin or end a life
Plain(n) ==
  \/ ConstructorWrite(n) \/ ConstructorRead(n) \/ BeginSynchronize(n)
  \/ SynchronizeReadCheck(n) \/ SynchronizeWriteTest(n) \/ Unlock(n) \/ Lock(n)
  \/ FailedActive(n) \/ FailedLocked(n) \/ FailedCAS(n) \/ FailedRelease(n)
  \/ DestructorRead(n) \/ DestructorLoop(n) \/ DestructorWrite(n)

\* They touch nothing the events depend on, and start or end neither a read nor a life.
LEMMA PlainSteps ==
  ASSUME TypeOK, NEW n \in Nodes, Plain(n)
  PROVE  /\ UNCHANGED <<writeCache, readWriteLocked, born, fate, cursor, starts, leaving>>
         /\ pc[n] \notin {"down", "reading"} /\ pc'[n] \notin {"down", "reading"}
<1>1. UNCHANGED <<writeCache, readWriteLocked, born, fate, cursor, starts, leaving>>
  BY DEF Plain, ConstructorWrite, ConstructorRead, BeginSynchronize, SynchronizeReadCheck,
     SynchronizeWriteTest, Unlock, Lock, FailedActive, FailedLocked, FailedCAS,
     FailedRelease, DestructorRead, DestructorLoop, DestructorWrite, shared, own, life
<1>2. pc[n] \notin {"down", "reading"}
  BY DEF Plain, ConstructorWrite, ConstructorRead, BeginSynchronize, SynchronizeReadCheck,
     SynchronizeWriteTest, Unlock, Lock, FailedActive, FailedLocked, FailedCAS,
     FailedRelease, DestructorRead, DestructorLoop, DestructorWrite, Visit, Done, At
<1>3. pc'[n] \notin {"down", "reading"}
  <2> USE DEF TypeOK, ControlType, Goto, Foreach, Continue
  <2>1. CASE ConstructorWrite(n) \/ ConstructorRead(n) \/ BeginSynchronize(n)
    BY <2>1 DEF ConstructorWrite, ConstructorRead, BeginSynchronize
  <2>2. CASE SynchronizeReadCheck(n) \/ SynchronizeWriteTest(n)
    BY <2>2 DEF SynchronizeReadCheck, SynchronizeWriteTest
  <2>3. CASE Unlock(n) \/ Lock(n)
    BY <2>3 DEF Unlock, Lock, At
  <2>4. CASE FailedActive(n) \/ FailedLocked(n) \/ FailedCAS(n) \/ FailedRelease(n)
    BY <2>4 DEF FailedActive, FailedLocked, FailedCAS, FailedRelease
  <2>5. CASE DestructorRead(n) \/ DestructorLoop(n)
    BY <2>5 DEF DestructorRead, DestructorLoop
  <2>6. CASE DestructorWrite(n)
    BY <2>6 DEF DestructorWrite
  <2> QED BY <2>1, <2>2, <2>3, <2>4, <2>5, <2>6 DEF Plain
<1> QED BY <1>1, <1>2, <1>3

\* The histories of a pair belong to its two nodes, and that of what was pushed to the
\* writer alone.
LEMMA OthersEvents ==
  ASSUME TypeOK, NEW n \in Nodes, Step(n), NEW w \in Nodes \ {n}, NEW r \in Peers(w)
  PROVE  /\ born'[<<w, r>>] = born[<<w, r>>] /\ starts'[w] = starts[w]
         /\ cursor'[w] = cursor[w]
         /\ \/ fate'[<<w, r>>] = fate[<<w, r>>]
            \/ r = n /\ (ReadEvent(n) \/ ReturnToSender(n))
<1>1. <<w, r>> \in Pairs
  BY PairOf DEF Peers
<1>2. CASE Plain(n)
  BY <1>2, PlainSteps
<1>3. CASE SynchronizeReadTest(n) \/ UndeliveredEvent(n)
  BY <1>3 DEF SynchronizeReadTest, UndeliveredEvent, shared, own, life
<1>4. CASE ReadEnd(n)
  BY <1>4 DEF ReadEnd, shared, own, life, TypeOK, OwnType
<1>5. CASE Stop(n) \/ Deactivate(n)
  BY <1>5 DEF Stop, Deactivate, shared, own, life
<1>6. CASE Start(n)
  BY <1>6 DEF Start, shared, TypeOK, LifeType
<1>7. CASE ReadEvent(n)
  <2>1. UNCHANGED <<born, starts>> /\ cursor'[w] = cursor[w]
    BY <1>7 DEF ReadEvent, life, TypeOK, OwnType
  <2>2. \E x, y : fate' = [fate EXCEPT ![<<x, n>>] = y]
    BY <1>7 DEF ReadEvent
  <2> QED BY <1>1, <1>7, <2>1, <2>2 DEF TypeOK, SharedType
<1>8. CASE ReturnToSender(n)
  <2>1. UNCHANGED <<born, starts, cursor>>
    BY <1>8 DEF ReturnToSender, life
  <2>2. \E x, y : fate' = [fate EXCEPT ![<<x, n>>] = y]
    BY <1>8 DEF ReturnToSender
  <2> QED BY <1>1, <1>8, <2>1, <2>2 DEF TypeOK, SharedType
<1>9. CASE \E d \in Nodes : Push(n, d)
  <2>1. PICK d \in Nodes : Push(n, d)
    BY <1>9
  <2>2. <<w, r>> # <<n, d>>
    OBVIOUS
  <2>3. UNCHANGED <<starts, cursor>>
    BY <2>1 DEF Push, life
  <2>4. /\ born' = [born EXCEPT ![<<n, d>>] = Append(@, starts[n])]
        /\ fate' = [fate EXCEPT ![<<n, d>>] = Append(@, "pending")]
    BY <2>1 DEF Push
  <2> QED BY <1>1, <2>2, <2>3, <2>4 DEF TypeOK, SharedType
<1>10. CASE SynchronizeWrite(n) \/ Failed(n)
  <2>1. UNCHANGED <<starts, cursor>>
    BY <1>10 DEF SynchronizeWrite, Failed, life, own
  <2>2. CASE UNCHANGED <<born, fate>>
    BY <2>1, <2>2
  <2>3. CASE \E x \in Peers(n) : Write(n, x) \/ WriteFailed(n, x)
    <3>1. PICK x \in Peers(n), failed \in BOOLEAN : IF failed THEN WriteFailed(n, x) ELSE Write(n, x)
      BY <2>3
    <3>2. SamePair(<<w, r>>)
      BY <3>1, WriteEffect
    <3> QED BY <2>1, <3>2 DEF SamePair
  <2>4. todo[n] \subseteq Peers(n)
    BY DEF TypeOK, ControlType, Peers
  <2> QED BY <1>10, <2>2, <2>3, <2>4 DEF SynchronizeWrite, Failed, shared
<1> QED BY <1>2, <1>3, <1>4, <1>5, <1>6, <1>7, <1>8, <1>9, <1>10 DEF Step, NodeStep, Plain

\* A third node does not touch the events of a pair.
LEMMA ElsewhereEvents ==
  ASSUME Inv, EventInv, NEW n \in Nodes, Step(n), NEW w \in Nodes, NEW r \in Peers(w),
         n # w, n # r
  PROVE  PairStep(w, r)
<1> DEFINE p == <<w, r>>
<1>1. TypeOK /\ BlockInv(w, r) /\ p \in Pairs
  BY PairOf DEF Inv, EventInv, Peers
<1>2. isWriteLocked'[p] = isWriteLocked[p] /\ readWriteLocked'[p] = readWriteLocked[p]
  BY <1>1, Elsewhere DEF SameWords
<1>3. /\ pc'[w] = pc[w] /\ leaving'[w] = leaving[w] /\ writeNodes'[w] = writeNodes[w]
      /\ pc'[r] = pc[r] /\ todo'[r] = todo[r]
  BY <1>1, OthersStay DEF Peers
<1>4. /\ born'[p] = born[p] /\ fate'[p] = fate[p] /\ starts'[w] = starts[w]
      /\ writeCache'[p] = writeCache[p]
  BY <1>1, OthersEvents, OthersSignals
<1>5. cursor'[r] = cursor[r]
  <2>1. w \in Peers(r) /\ r \in Nodes \ {n}
    BY DEF Peers
  <2> QED BY <1>1, <2>1, OthersEvents
<1>6. Untouched(p) /\ SameSource(w)
  BY <1>2, <1>3, <1>4 DEF Untouched, SameSource
<1>7. /\ Reading(w, r)' <=> Reading(w, r)
      /\ Idle(w, r)' <=> Idle(w, r)
  BY <1>2, <1>3 DEF Reading, Visit, At, Idle
<1> QED BY <1>1, <1>5, <1>6, <1>7, Quiet

\* No step of the reader leaves events alone that somebody had.
LEMMA ReaderIdle ==
  ASSUME Inv, NEW r \in Nodes, NEW w \in Peers(r), Step(r)
  PROVE  Idle(w, r)' => Idle(w, r)
<1> DEFINE p == <<w, r>>
<1>1. TypeOK /\ PairDelivered(w, r) /\ w \in Nodes /\ w # r /\ p \in Pairs
      /\ readWriteLocked[p] \in ReadWriteLocked
  BY PairOf DEF Inv, DeliveredInv, Peers, TypeOK, SharedType
<1>2. writeNodes'[w] = writeNodes[w]
  BY <1>1, OthersStay
<1>3. ReaderMove(w, r)
  <2>1. Phase(r) /\ Phase(r)'
    BY <1>1, PhaseStep DEF Inv, PhaseInv
  <2> QED BY <1>1, <2>1, ReaderSide
<1>4. ReaderHolds(w, r) => readWriteLocked[p].delivered
  BY <1>1 DEF PairDelivered
<1>5. readWriteLocked'[p] = [readWriteLocked[p] EXCEPT !.delivered = TRUE]
        => readWriteLocked'[p].delivered
  BY <1>1 DEF ReadWriteLocked
<1> QED BY <1>2, <1>3, <1>4, <1>5 DEF Idle, ReaderMove, SameWords

\* A step of the reader r reads an event of w, turns one down, begins or ends with them, or
\* leaves them alone.
LEMMA ReaderEvents ==
  ASSUME Inv, EventInv, NEW r \in Nodes, NEW w \in Peers(r), Step(r)
  PROVE  PairStep(w, r)
<1> DEFINE p == <<w, r>>
<1>1. /\ TypeOK /\ w \in Nodes /\ w # r /\ r \in Peers(w) /\ p \in Pairs /\ BlockInv(w, r)
      /\ todo[r] \subseteq Peers(r)
  BY PairOf DEF Inv, Peers, EventInv, TypeOK, ControlType
<1>2. /\ pc'[w] = pc[w] /\ leaving'[w] = leaving[w] /\ starts'[w] = starts[w]
      /\ born'[p] = born[p] /\ writeCache'[p] = writeCache[p]
  BY <1>1, OthersStay, OthersEvents, OthersSignals
<1>3. SameSource(w)
  BY <1>2 DEF SameSource
<1>4. ASSUME readWriteLocked'[p] = readWriteLocked[p], fate'[p] = fate[p],
             Reading(w, r)' <=> Reading(w, r), Reading(w, r) => cursor'[r] = cursor[r]
      PROVE  PairStep(w, r)
  <2>1. Untouched(p)
    BY <1>2, <1>4 DEF Untouched
  <2>2. Idle(w, r)' => Idle(w, r)
    BY ReaderIdle
  <2> QED BY <1>1, <1>3, <1>4, <2>1, <2>2, Quiet
<1>5. fate'[p] = fate[p] \/ ReadEvent(r) \/ ReturnToSender(r)
  BY <1>1, OthersEvents
<1>6. CASE ReadEvent(r)
  <2>1. PICK x \in Peers(r) :
          /\ Visit(r, x, "reading")
          /\ cursor[r] <= Len(readWriteLocked[<<x, r>>].chain)
          /\ fate' = [fate EXCEPT ![<<x, r>>][readWriteLocked[<<x, r>>].chain[cursor[r]]]
                                    = "delivered"]
    BY <1>1, <1>6 DEF ReadEvent
  <2>2. /\ cursor' = [cursor EXCEPT ![r] = @ + 1]
        /\ UNCHANGED <<readWriteLocked, writeCache, born, pc, todo, starts, leaving>>
    BY <1>6 DEF ReadEvent, life
  <2>3. CASE x = w
    BY <1>1, <2>1, <2>2, <2>3, EventRead
  <2>4. CASE x # w
    <3>1. ~Reading(w, r) /\ ~Reading(w, r)'
      BY <1>1, <2>1, <2>2, <2>4, First DEF Reading, Visit, At, TypeOK
    <3>2. fate'[p] = fate[p]
      BY <1>1, <2>1, <2>4 DEF TypeOK, SharedType
    <3> QED BY <1>4, <2>2, <3>1, <3>2
  <2> QED BY <2>3, <2>4
<1>7. CASE UndeliveredEvent(r)
  <2>1. PICK x \in Peers(r) :
          /\ Visit(r, x, "reading")
          /\ cursor[r] <= Len(readWriteLocked[<<x, r>>].chain)
          /\ TurnDown(r, x, cursor[r])
    BY <1>1, <1>7 DEF UndeliveredEvent
  <2>2. UNCHANGED <<born, fate, cursor, pc, todo, starts, leaving>>
    BY <1>7 DEF UndeliveredEvent, life
  <2>3. CASE x = w
    BY <1>1, <2>1, <2>2, <2>3, EventTurnedDown
  <2>4. CASE x # w
    <3>1. ~Reading(w, r) /\ ~Reading(w, r)'
      BY <1>1, <2>1, <2>2, <2>4, First DEF Reading, Visit, At, TypeOK
    <3>2. readWriteLocked'[p] = readWriteLocked[p]
      BY <1>1, <2>1, <2>4, TurnDownPair
    <3> QED BY <1>4, <2>2, <3>1, <3>2
  <2> QED BY <2>3, <2>4
<1>8. CASE ReturnToSender(r)
  <2>1. PICK x \in Peers(r) : \E i \in DOMAIN readWriteLocked[<<x, r>>].chain :
          /\ x \in readNodes[r]
          /\ TurnDown(r, x, i)
          /\ fate' = [fate EXCEPT ![<<x, r>>][readWriteLocked[<<x, r>>].chain[i]] = "pending"]
    BY <1>8 DEF ReturnToSender
  <2>2. UNCHANGED <<born, cursor, pc, todo, starts, leaving>> /\ pc[r] = "write"
    BY <1>8 DEF ReturnToSender, life, Done, At
  <2>3. CASE x = w
    BY <1>1, <2>1, <2>2, <2>3, EventRecalled
  <2>4. CASE x # w
    <3>1. ~Reading(w, r) /\ ~Reading(w, r)'
      BY <2>2 DEF Reading, Visit, At
    <3>2. readWriteLocked'[p] = readWriteLocked[p]
      BY <1>1, <2>1, <2>4, TurnDownPair
    <3>3. fate'[p] = fate[p]
      BY <1>1, <2>1, <2>4 DEF TypeOK, SharedType
    <3> QED BY <1>4, <2>2, <3>1, <3>2, <3>3
  <2> QED BY <2>3, <2>4
<1>9. CASE ReadEnd(r)
  <2>1. PICK x \in Peers(r) :
          /\ Visit(r, x, "reading")
          /\ cursor[r] > Len(readWriteLocked[<<x, r>>].chain)
    BY <1>1, <1>9 DEF ReadEnd
  <2>2. /\ UNCHANGED <<readWriteLocked, writeCache, born, fate, starts, leaving>>
        /\ Goto(r, "readCheck")
    BY <1>9 DEF ReadEnd, life, shared
  <2>3. CASE x = w
    BY <1>1, <2>1, <2>2, <2>3, ReadEnds
  <2>4. CASE x # w
    <3>1. ~Reading(w, r) /\ ~Reading(w, r)'
      BY <1>1, <2>1, <2>2, <2>4, First, Moves DEF Reading, Visit, At, TypeOK
    <3> QED BY <1>4, <2>2, <3>1
  <2> QED BY <2>3, <2>4
<1>10. CASE SynchronizeReadTest(r)
  <2>1. /\ UNCHANGED <<writeCache, born, fate, cursor, starts, leaving>>
        /\ pc[r] = "read" /\ ~Reading(w, r)
    BY <1>10 DEF SynchronizeReadTest, life, shared, own, Visit, At, Reading
  <2>2. CASE /\ Visit(r, w, "read") /\ isWriteLocked[p]
             /\ readWriteLocked' = [readWriteLocked EXCEPT ![p].delivered = TRUE]
             /\ Goto(r, "reading")
    BY <1>1, <2>1, <2>2, ReadBegins
  <2>3. CASE \E x \in Peers(r) \ {w} :
               /\ Visit(r, x, "read")
               /\ readWriteLocked' = [readWriteLocked EXCEPT ![<<x, r>>].delivered = TRUE]
               /\ Goto(r, "reading")
    <3>1. PICK x \in Peers(r) \ {w} :
               /\ Visit(r, x, "read")
               /\ readWriteLocked' = [readWriteLocked EXCEPT ![<<x, r>>].delivered = TRUE]
               /\ Goto(r, "reading")
      BY <2>3
    <3>2. ~Reading(w, r)'
      BY <1>1, <3>1, First, Moves DEF Reading, Visit, At, TypeOK, IsFirst
    <3>3. readWriteLocked'[p] = readWriteLocked[p]
      BY <1>1, <3>1 DEF TypeOK, SharedType
    <3> QED BY <1>4, <2>1, <3>2, <3>3
  <2>4. CASE UNCHANGED readWriteLocked /\ Goto(r, "readCheck")
    <3>1. ~Reading(w, r)'
      BY <1>1, <2>4, Moves DEF Reading, Visit, At, TypeOK
    <3> QED BY <1>4, <2>1, <2>4, <3>1
  <2> QED BY <1>1, <1>10, <2>2, <2>3, <2>4 DEF SynchronizeReadTest, shared
<1>11. CASE Plain(r)
  <2>1. ~Reading(w, r) /\ ~Reading(w, r)'
    BY <1>1, <1>11, PlainSteps DEF Reading, Visit, At
  <2>2. UNCHANGED <<readWriteLocked, fate>>
    BY <1>1, <1>11, PlainSteps
  <2> QED BY <1>4, <2>1, <2>2
<1>12. CASE \/ Start(r) \/ Stop(r) \/ Deactivate(r) \/ SynchronizeWrite(r) \/ Failed(r)
            \/ \E d \in Nodes : Push(r, d)
  <2>1. readWriteLocked'[p] = readWriteLocked[p]
    BY <1>1, <1>12, ReaderUntouched
  <2>2. UNCHANGED cursor
    BY <1>12 DEF Start, Stop, Deactivate, SynchronizeWrite, Failed, Push, own
  <2>3. Reading(w, r)' <=> Reading(w, r)
    <3>1. \/ UNCHANGED <<pc, todo>>
          \/ pc[r] # "reading" /\ pc'[r] # "reading"
      <4>1. CASE Start(r) \/ Stop(r) \/ Deactivate(r)
        BY <1>1, <4>1, Moves DEF Start, Stop, Deactivate, At, TypeOK
      <4>2. CASE SynchronizeWrite(r) \/ Failed(r)
        <5>1. pc[r] # "reading"
          BY <4>2 DEF SynchronizeWrite, Failed, Visit, Done, At
        <5>2. pc'[r] # "reading"
          <6> USE DEF TypeOK, ControlType, Goto, Continue
          <6> QED BY <1>1, <4>2 DEF SynchronizeWrite, Failed
        <5> QED BY <5>1, <5>2
      <4>3. CASE \E d \in Nodes : Push(r, d)
        BY <4>3 DEF Push
      <4> QED BY <1>12, <4>1, <4>2, <4>3
    <3> QED BY <3>1 DEF Reading, Visit, At
  <2>4. CASE fate'[p] = fate[p]
    BY <1>4, <2>1, <2>2, <2>3, <2>4
  <2> QED BY <1>5, <1>6, <1>8, <2>4
<1> QED BY <1>6, <1>7, <1>8, <1>9, <1>10, <1>11, <1>12 DEF Step, NodeStep, Plain

\* Events that may be read are in the history.
LEMMA IdleEvents ==
  ASSUME TypeOK, NEW w \in Nodes, NEW r \in Peers(w), ChannelInv(<<w, r>>),
         ~readWriteLocked[<<w, r>>].delivered
  PROVE  LET p == <<w, r>>
             s == readWriteLocked[p].chain
         IN \A i \in DOMAIN s : s[i] \in DOMAIN fate[p]
<1> DEFINE p == <<w, r>>
           s == readWriteLocked[p].chain
<1>1. p \in Pairs /\ s \in Seq(Nat) /\ writeCache[p].chain \in Seq(Nat)
  BY PairOf, PairTypes DEF Peers
<1>2. InFlight(p) = s
  BY InFlightIs
<1>3. SUFFICES ASSUME NEW i \in DOMAIN s PROVE s[i] \in DOMAIN fate[p]
  OBVIOUS
<1>4. InChain(s, s[i])
  BY DEF InChain
<1>5. InChain(Queue(p), s[i])
  BY <1>1, <1>2, <1>4, ConcatChain DEF Queue
<1> QED BY <1>5 DEF ChannelInv, Accounted

\* A life of the writer begins or ends: nobody is left to hear of its earlier events.
LEMMA LifeEvents ==
  ASSUME Inv, EventInv, NEW w \in Nodes, NEW r \in Peers(w), Step(w),
         Start(w) \/ Stop(w) \/ Deactivate(w)
  PROVE  PairStep(w, r)
<1> DEFINE p == <<w, r>>
           s == readWriteLocked[p].chain
<1>1. /\ TypeOK /\ Phase(w) /\ BlockInv(w, r) /\ ChannelInv(p) /\ p \in Pairs
      /\ born[p] \in Seq(Nat) /\ fate[p] \in Seq(Fates) /\ starts[w] \in Nat
  BY PairOf, PairTypes DEF Inv, PhaseInv, EventInv, Peers, TypeOK, LifeType
<1>2. UNCHANGED <<writeCache, readWriteLocked, born, fate, cursor>>
  BY DEF Start, Stop, Deactivate, shared, own
<1>3. pc'[r] = pc[r] /\ todo'[r] = todo[r]
  BY <1>1, OthersStay DEF Peers
<1>4. Reading(w, r)' <=> Reading(w, r)
  BY <1>3 DEF Reading, Visit, At
<1>5. InFlight(p)' = InFlight(p)
  BY <1>2, <1>4 DEF InFlight, Reading
<1>6. DOMAIN born[p] = DOMAIN fate[p]
  BY <1>1, LenProperties DEF BlockInv, BornInv
<1>7. \A e \in DOMAIN fate[p] : SourceGone(p, e)'
  <2>1. CASE Start(w)
    <3>1. starts'[w] = starts[w] + 1
      BY <1>1, <2>1 DEF Start, TypeOK, LifeType
    <3>2. SUFFICES ASSUME NEW e \in DOMAIN born[p] PROVE born[p][e] # starts'[w]
      BY <1>2, <1>6 DEF SourceGone
    <3>3. born[p][e] <= starts[w] /\ born[p][e] \in Nat
      BY <1>1, <3>2, LenProperties, ElementOfSeq DEF BlockInv, BornInv
    <3> QED BY <1>1, <3>1, <3>3
  <2>2. CASE Stop(w)
    BY <1>1, <2>2 DEF Stop, SourceGone, TypeOK, LifeType
  <2>3. CASE Deactivate(w)
    BY <1>1, <2>3, Moves DEF Deactivate, SourceGone, TypeOK
  <2> QED BY <2>1, <2>2, <2>3
<1>8. Orphans(p)' = DOMAIN fate[p]
  BY <1>2, <1>7 DEF Orphans
<1>9. [Channel(p)!ChanNext]_(Channel(p)!chanVars)
  <2>1. Queue(p)' = Queue(p) /\ Rejected(p)' = Rejected(p) /\ fate'[p] = fate[p]
    BY <1>2, <1>5 DEF Queue, Rejected
  <2>2. CASE Stop(w)
    <3>1. Channel(p)!Abandon
      BY <1>8, <2>1 DEF Channel!Abandon, Queue, Rejected, Orphans
    <3> QED BY <3>1 DEF Channel!ChanNext
  <2>3. CASE Start(w) \/ Deactivate(w)
    <3>1. pc[w] = "down" \/ leaving[w]
      BY <1>1, <2>3 DEF Start, Deactivate, At, Phase, ConstructLabels, ReadLabels, FlushLabels
    <3>2. Orphans(p) = DOMAIN fate[p]
      BY <3>1 DEF Orphans, SourceGone
    <3> QED BY <1>8, <2>1, <3>2 DEF Channel!chanVars, Queue, Rejected, Orphans
  <2> QED BY <2>2, <2>3
<1>10. ReadInv(w, r)'
  BY <1>1, <1>2, <1>4 DEF BlockInv, ReadInv
<1>11. LeftInv(w, r)'
  <2>1. SUFFICES ASSUME ~readWriteLocked[p].delivered, NEW i \in DOMAIN s, NEW e, e = s[i]
                 PROVE  SourceGone(p, e)'
    BY <1>2 DEF LeftInv, Idle
  <2>2. e \in DOMAIN fate[p]
    BY <1>1, <2>1, IdleEvents
  <2> QED BY <1>7, <2>2
<1>12. BornInv(w, r)'
  <2>1. starts'[w] = starts[w] \/ starts'[w] = starts[w] + 1
    BY <1>1 DEF Start, Stop, Deactivate, life, TypeOK, LifeType
  <2>2. SUFFICES ASSUME NEW e \in DOMAIN born[p] PROVE born[p][e] <= starts'[w]
    BY <1>1, <1>2 DEF BlockInv, BornInv
  <2>3. born[p][e] <= starts[w] /\ born[p][e] \in Nat
    BY <1>1, <2>2, LenProperties, ElementOfSeq DEF BlockInv, BornInv
  <2> QED BY <1>1, <2>1, <2>3
<1> QED BY <1>9, <1>10, <1>11, <1>12 DEF PairStep, BlockInv

\* The steps of the writer that touch no event do not leave any alone before ~Node.
LEMMA WriterIdle ==
  ASSUME Inv, NEW w \in Nodes, NEW r \in Peers(w), Step(w),
         \/ Plain(w) \/ SynchronizeReadTest(w) \/ ReadEvent(w) \/ UndeliveredEvent(w)
         \/ ReadEnd(w) \/ ReturnToSender(w) \/ \E d \in Nodes : Push(w, d)
  PROVE  Idle(w, r)' => Idle(w, r) \/ leaving'[w]
<1> DEFINE p == <<w, r>>
<1>1. TypeOK /\ Phase(w) /\ p \in Pairs /\ r \in Nodes /\ r # w
  BY PairOf DEF Inv, PhaseInv, Peers
<1>2. SUFFICES /\ readWriteLocked'[p].delivered = readWriteLocked[p].delivered
               /\ \/ leaving'[w] \/ isWriteLocked'[p]
                  \/ /\ isWriteLocked'[p] = isWriteLocked[p]
                     /\ r \in writeNodes[w] => r \in writeNodes'[w]
  BY DEF Idle
<1>3. CASE \/ SynchronizeReadTest(w) \/ ReadEvent(w) \/ UndeliveredEvent(w)
           \/ ReadEnd(w) \/ ReturnToSender(w) \/ \E d \in Nodes : Push(w, d)
  <2>1. SameWords(p) /\ readWriteLocked'[p] = readWriteLocked[p]
    BY <1>1, <1>3, WriterUntouched
  <2>2. UNCHANGED writeNodes
    BY <1>3 DEF SynchronizeReadTest, ReadEvent, UndeliveredEvent, ReadEnd, ReturnToSender,
       Push, own
  <2> QED BY <2>1, <2>2 DEF SameWords
<1>4. CASE Plain(w)
  <2>1. readWriteLocked'[p] = readWriteLocked[p] /\ leaving' = leaving
    BY <1>1, <1>4, PlainSteps
  <2>2. CASE Lock(w)
    <3>1. CASE UNCHANGED <<isWriteLocked, writeNodes>>
      BY <2>1, <3>1
    <3>2. CASE \E x \in writeNodes[w] :
                 /\ isWriteLocked' = [isWriteLocked EXCEPT ![<<w, x>>] = TRUE]
                 /\ writeNodes' = [writeNodes EXCEPT ![w] = @ \ {x}]
      <4>1. PICK x \in writeNodes[w] :
                 /\ isWriteLocked' = [isWriteLocked EXCEPT ![<<w, x>>] = TRUE]
                 /\ writeNodes' = [writeNodes EXCEPT ![w] = @ \ {x}]
        BY <3>2
      <4>2. CASE x = r
        BY <1>1, <2>1, <4>1, <4>2 DEF TypeOK, WordsType
      <4>3. CASE x # r
        BY <1>1, <2>1, <4>1, <4>3 DEF TypeOK, WordsType, OwnType
      <4> QED BY <4>2, <4>3
    <3> QED BY <2>2, <3>1, <3>2 DEF Lock, words, own
  <2>3. CASE Unlock(w)
    <3>1. UNCHANGED writeNodes
      BY <2>3 DEF Unlock, own
    <3>2. UNCHANGED isWriteLocked \/ \E x, v : isWriteLocked' = [isWriteLocked EXCEPT ![<<x, w>>] = v]
      BY <2>3 DEF Unlock, words
    <3> QED BY <1>1, <2>1, <3>1, <3>2 DEF TypeOK, WordsType
  <2>4. CASE DestructorWrite(w)
    <3>1. leaving[w]
      <4>1. pc[w] \in Unlocking
        BY <2>4 DEF DestructorWrite, Unlocking, Visit, Done, At
      <4> QED BY <1>1, <4>1 DEF Unlocking, Phase, ConstructLabels, ReadLabels, FlushLabels
    <3> QED BY <2>1, <3>1
  <2>5. CASE SynchronizeReadCheck(w) \/ DestructorLoop(w)
    <3>1. pc[w] \in {"readCheck", "read", "dtorLoop"} /\ UNCHANGED isWriteLocked
      BY <2>5 DEF SynchronizeReadCheck, DestructorLoop, Visit, Done, At, words
    <3>2. writeNodes[w] = {}
      BY <1>1, <3>1 DEF Phase
    <3> QED BY <2>1, <3>1, <3>2
  <2>6. CASE \/ ConstructorWrite(w) \/ ConstructorRead(w) \/ BeginSynchronize(w)
             \/ SynchronizeWriteTest(w) \/ FailedActive(w) \/ FailedLocked(w)
             \/ FailedCAS(w) \/ FailedRelease(w) \/ DestructorRead(w)
    <3>1. UNCHANGED <<isWriteLocked, writeNodes>>
      BY <2>6 DEF ConstructorWrite, ConstructorRead, BeginSynchronize, SynchronizeWriteTest,
         FailedActive, FailedLocked, FailedCAS, FailedRelease, DestructorRead, words, own
    <3> QED BY <2>1, <3>1
  <2> QED BY <1>4, <2>2, <2>3, <2>4, <2>5, <2>6 DEF Plain
<1> QED BY <1>3, <1>4

\* A step of the writer w pushes an event to r, has some dispatched back, begins or ends a
\* life, or leaves the events of the pair alone.
LEMMA WriterEvents ==
  ASSUME Inv, EventInv, NEW w \in Nodes, NEW r \in Peers(w), Step(w)
  PROVE  PairStep(w, r)
<1> DEFINE p == <<w, r>>
<1>1. /\ TypeOK /\ Phase(w) /\ PairLock(w, r) /\ r # w /\ r \in Nodes /\ p \in Pairs
      /\ BlockInv(w, r) /\ ChannelInv(p) /\ todo[w] \subseteq Peers(w)
  BY PairOf DEF Inv, PhaseInv, LockInv, Peers, EventInv, TypeOK, ControlType
<1>2. /\ pc'[r] = pc[r] /\ todo'[r] = todo[r] /\ cursor'[r] = cursor[r]
  <2>1. w \in Peers(r) /\ r \in Nodes \ {w}
    BY <1>1 DEF Peers
  <2> QED BY <1>1, <2>1, OthersStay, OthersEvents
<1>3. Reading(w, r)' <=> Reading(w, r)
  BY <1>2 DEF Reading, Visit, At
<1>4. ASSUME SamePair(p), SameSource(w), Idle(w, r)' => Idle(w, r) \/ leaving'[w]
      PROVE  PairStep(w, r)
  <2>1. Untouched(p)
    BY <1>4 DEF Untouched, SamePair
  <2> QED BY <1>1, <1>2, <1>3, <1>4, <2>1, Quiet
<1>5. CASE Start(w) \/ Stop(w) \/ Deactivate(w)
  BY <1>5, LifeEvents
<1>6. CASE Plain(w)
  <2>1. SamePair(p) /\ SameSource(w)
    BY <1>1, <1>6, PlainSteps DEF SamePair, SameSource
  <2>2. Idle(w, r)' => Idle(w, r) \/ leaving'[w]
    BY <1>6, WriterIdle
  <2> QED BY <1>4, <2>1, <2>2
<1>7. CASE \/ SynchronizeReadTest(w) \/ ReadEvent(w) \/ UndeliveredEvent(w)
           \/ ReadEnd(w) \/ ReturnToSender(w)
  <2>1. readWriteLocked'[p] = readWriteLocked[p]
    BY <1>1, <1>7, WriterUntouched
  <2>2. UNCHANGED <<born, starts, leaving>>
    BY <1>7 DEF SynchronizeReadTest, ReadEvent, UndeliveredEvent, ReadEnd, ReturnToSender,
       life, shared
  <2>3. writeCache'[p].chain = writeCache[p].chain
    <3>1. CASE UNCHANGED writeCache
      BY <3>1
    <3>2. CASE \E x \in Peers(w) : \E i : TurnDown(w, x, i)
      BY <1>1, <3>2, TurnedDown
    <3> QED BY <1>1, <1>7, <3>1, <3>2 DEF SynchronizeReadTest, ReadEvent, UndeliveredEvent,
            ReadEnd, ReturnToSender, shared
  <2>4. fate'[p] = fate[p]
    <3>1. CASE UNCHANGED fate
      BY <3>1
    <3>2. CASE \E x, y : fate' = [fate EXCEPT ![<<x, w>>] = y]
      BY <1>1, <3>2 DEF TypeOK, SharedType
    <3> QED BY <1>7, <3>1, <3>2 DEF SynchronizeReadTest, ReadEvent, UndeliveredEvent,
            ReadEnd, ReturnToSender, shared
  <2>5. SameSource(w)
    <3>1. pc[w] # "down"
      BY <1>7 DEF SynchronizeReadTest, ReadEvent, UndeliveredEvent, ReadEnd, ReturnToSender,
         Visit, Done, At
    <3>2. pc'[w] # "down"
      <4>1. CASE SynchronizeReadTest(w) \/ ReadEnd(w)
        BY <1>1, <4>1, Moves DEF SynchronizeReadTest, ReadEnd, TypeOK
      <4>2. CASE ReadEvent(w) \/ UndeliveredEvent(w) \/ ReturnToSender(w)
        BY <3>1, <4>2 DEF ReadEvent, UndeliveredEvent, ReturnToSender
      <4> QED BY <1>7, <4>1, <4>2
    <3> QED BY <2>2, <3>1, <3>2 DEF SameSource
  <2>6. Idle(w, r)' => Idle(w, r) \/ leaving'[w]
    BY <1>7, WriterIdle
  <2> QED BY <1>4, <2>1, <2>2, <2>3, <2>4, <2>5, <2>6 DEF SamePair
<1>8. CASE \E d \in Nodes : Push(w, d)
  <2>1. PICK d \in Nodes : Push(w, d)
    BY <1>8
  <2>2. /\ pc[w] # "down" /\ ~leaving[w] /\ UNCHANGED <<pc, starts, leaving, readWriteLocked>>
        /\ SameSource(w)
    BY <2>1 DEF Push, SameSource, life
  <2>3. Idle(w, r)' => Idle(w, r)
    BY <1>8, <2>2, WriterIdle
  <2>4. /\ born' = [born EXCEPT ![<<w, d>>] = Append(@, starts[w])]
        /\ fate' = [fate EXCEPT ![<<w, d>>] = Append(@, "pending")]
        /\ writeCache' = [writeCache EXCEPT ![<<w, d>>].chain = Append(@, Len(fate[<<w, d>>]) + 1)]
    BY <2>1 DEF Push
  <2>5. CASE d = r
    <3> DEFINE c == Append(writeCache[p].chain, Len(fate[p]) + 1)
    <3>1. writeCache[p] \in WriteCache /\ writeCache'[p] = [writeCache[p] EXCEPT !.chain = c]
      BY <1>1, <2>4, <2>5 DEF TypeOK, SharedType
    <3>2. writeCache'[p].chain = c
      <4> HIDE DEF c
      <4> QED BY <3>1 DEF WriteCache
    <3>3. PushedTo(w, r)
      BY <1>1, <2>2, <2>4, <2>5, <3>2 DEF PushedTo, TypeOK, SharedType
    <3> QED BY <1>1, <1>2, <1>3, <2>2, <2>3, <3>3, EventPushed
  <2>6. CASE d # r
    <3>1. SamePair(p)
      BY <1>1, <2>2, <2>4, <2>6 DEF SamePair, TypeOK, SharedType
    <3> QED BY <1>4, <2>2, <2>3, <3>1
  <2> QED BY <2>5, <2>6
<1>9. CASE SynchronizeWrite(w) \/ Failed(w)
  <2>1. UNCHANGED <<starts, leaving>> /\ pc[w] # "down"
    BY <1>9 DEF SynchronizeWrite, Failed, life, Visit, Done, At
  <2>2. pc'[w] # "down"
    <3> USE DEF TypeOK, ControlType, Goto, Continue
    <3> QED BY <1>1, <1>9 DEF SynchronizeWrite, Failed
  <2>3. SameSource(w)
    BY <2>1, <2>2 DEF SameSource
  <2>4. ASSUME NEW x \in Peers(w), NEW failed \in BOOLEAN,
               IF failed THEN WriteFailed(w, x) ELSE Write(w, x),
               \/ Visit(w, x, "writing") /\ UNCHANGED words
               \/ Visit(w, x, "failing") /\ failed,
               failed => UNCHANGED writeNodes,
               \A q \in Pairs : q # <<w, x>> => isWriteLocked'[q] = isWriteLocked[q]
        PROVE  PairStep(w, r)
    <3>1. CASE x = r
      <4>1. ~Reading(w, r)
        <5>1. ExclusiveAccess
          BY InvExclusive
        <5> QED BY <1>1, <2>4, <3>1, <5>1 DEF ExclusiveAccess, ReaderHolds, WriterHolds, Writing,
                Reading
      <4>2. ~failed => ~isWriteLocked[p] /\ r \notin writeNodes[w]
        <5>1. SUFFICES ASSUME Visit(w, r, "writing")
                       PROVE  ~isWriteLocked[p] /\ r \notin writeNodes[w]
          BY <2>4, <3>1
        <5>2. r \in todo[w] /\ pc[w] = "writing"
          BY <1>1, <5>1, First DEF Visit, At, TypeOK
        <5> QED BY <1>1, <5>1, <5>2 DEF PairLock, Writing, Phase
      <4> QED BY <2>1, <2>2, <2>4, <3>1, <4>1, <4>2, EventsBack
    <3>2. CASE x # r
      <4>1. PushedTo(w, r) \/ SamePair(p)
        BY <1>1, <2>4, <3>2, WriteEffect
      <4>2. Idle(w, r)' => Idle(w, r)
        <5>1. isWriteLocked'[p] = isWriteLocked[p]
          BY <1>1, <2>4, <3>2
        <5>2. r \in writeNodes[w] => r \in writeNodes'[w]
          <6>1. CASE failed
            BY <2>4, <6>1
          <6>2. CASE ~failed
            <7>1. Write(w, x)
              BY <2>4, <6>2
            <7>2. \E t : writeNodes' = [writeNodes EXCEPT ![w] = writeNodes[w] \cup t]
              BY <7>1 DEF Write
            <7> QED BY <1>1, <7>2 DEF TypeOK, OwnType
          <6> QED BY <6>1, <6>2
        <5>3. readWriteLocked'[p] = readWriteLocked[p]
          BY <4>1 DEF PushedTo, SamePair
        <5> QED BY <5>1, <5>2, <5>3 DEF Idle
      <4> QED BY <1>1, <1>2, <1>3, <1>4, <2>1, <2>3, <4>1, <4>2, EventPushed
    <3> QED BY <3>1, <3>2
  <2>5. CASE SynchronizeWrite(w)
    <3>1. UNCHANGED words
      BY <2>5 DEF SynchronizeWrite
    <3>2. UNCHANGED isWriteLocked
      BY <3>1 DEF words
    <3>3. CASE UNCHANGED shared /\ UNCHANGED writeNodes
      <4>1. SamePair(p) /\ (Idle(w, r)' => Idle(w, r))
        BY <3>2, <3>3 DEF SamePair, Idle, shared
      <4> QED BY <1>4, <2>3, <4>1
    <3>4. CASE \E x \in Peers(w) : \E failed \in BOOLEAN :
                 /\ IF failed THEN WriteFailed(w, x) ELSE Write(w, x)
                 /\ Visit(w, x, "writing")
                 /\ failed => UNCHANGED writeNodes
      <4>1. PICK x \in Peers(w), failed \in BOOLEAN :
                 /\ IF failed THEN WriteFailed(w, x) ELSE Write(w, x)
                 /\ Visit(w, x, "writing")
                 /\ failed => UNCHANGED writeNodes
        BY <3>4
      <4>2. \A q \in Pairs : q # <<w, x>> => isWriteLocked'[q] = isWriteLocked[q]
        BY <3>2
      <4>3. \/ Visit(w, x, "writing") /\ UNCHANGED words
            \/ Visit(w, x, "failing") /\ failed
        BY <3>1, <4>1
      <4>4. IF failed THEN WriteFailed(w, x) ELSE Write(w, x)
        BY <4>1
      <4> QED BY ONLY <2>4, <4>1, <4>2, <4>3, <4>4
    <3> QED BY <1>1, <2>5, <3>3, <3>4 DEF SynchronizeWrite, own
  <2>6. CASE Failed(w)
    <3>1. PICK x \in Peers(w) :
            /\ Visit(w, x, "failing") /\ WriteFailed(w, x)
            /\ isWriteLocked' = [isWriteLocked EXCEPT ![<<w, x>>] = FALSE]
      BY <1>1, <2>6 DEF Failed
    <3>2. UNCHANGED writeNodes
      BY <2>6 DEF Failed
    <3>3. \A q \in Pairs : q # <<w, x>> => isWriteLocked'[q] = isWriteLocked[q]
      BY <1>1, <3>1 DEF TypeOK, WordsType
    <3> QED BY <2>4, <3>1, <3>2, <3>3
  <2> QED BY <1>9, <2>5, <2>6
<1> QED BY <1>5, <1>6, <1>7, <1>8, <1>9 DEF Step, NodeStep, Plain

-----------------------------------------------------------------------------
(* The invariant of the events.                                            *)

\* Only read() moves the cursor, and it leaves it at the first event.
LEMMA CursorStep ==
  ASSUME TypeOK, CursorInv, NEW n \in Nodes, Step(n)
  PROVE  CursorInv'
<1>1. SUFFICES ASSUME NEW m \in Nodes, pc'[m] # "reading" PROVE cursor'[m] = 1
  BY DEF CursorInv
<1>2. CASE m # n
  <2>1. n \in Peers(m) /\ m \in Nodes \ {n}
    BY <1>2 DEF Peers
  <2>2. cursor'[m] = cursor[m] /\ pc'[m] = pc[m]
    BY <1>2, <2>1, OthersEvents, OthersStay
  <2> QED BY <1>1, <2>2 DEF CursorInv
<1>3. CASE m = n
  <2>1. CASE Plain(n)
    BY <1>3, <2>1, PlainSteps DEF CursorInv
  <2>2. CASE ReadEvent(n) \/ UndeliveredEvent(n)
    BY <1>1, <1>3, <2>2 DEF ReadEvent, UndeliveredEvent, Visit, At
  <2>3. CASE ReadEnd(n)
    BY <1>3, <2>3 DEF ReadEnd, TypeOK, OwnType
  <2>4. CASE \/ SynchronizeReadTest(n) \/ ReturnToSender(n) \/ Start(n) \/ Stop(n)
             \/ Deactivate(n) \/ SynchronizeWrite(n) \/ Failed(n)
    <3>1. UNCHANGED cursor
      BY <2>4 DEF SynchronizeReadTest, ReturnToSender, Start, Stop, Deactivate,
         SynchronizeWrite, Failed, own
    <3>2. pc[n] # "reading"
      BY <2>4 DEF SynchronizeReadTest, ReturnToSender, Start, Stop, Deactivate,
         SynchronizeWrite, Failed, Visit, Done, At
    <3> QED BY <1>3, <3>1, <3>2 DEF CursorInv
  <2>5. CASE \E d \in Nodes : Push(n, d)
    BY <1>1, <1>3, <2>5 DEF Push, CursorInv, own
  <2> QED BY <2>1, <2>2, <2>3, <2>4, <2>5 DEF Step, NodeStep, Plain
<1> QED BY <1>2, <1>3

\* There are no events before the first node is started.
LEMMA EventInit ==
  Init => EventInv /\ \A p \in Pairs : Channel(p)!ChanInit
<1> SUFFICES ASSUME Init PROVE EventInv /\ \A p \in Pairs : Channel(p)!ChanInit
  OBVIOUS
<1>1. CursorInv
  BY DEF Init, CursorInv
<1>2. ASSUME NEW w \in Nodes, NEW r \in Peers(w)
      PROVE  /\ ChannelInv(<<w, r>>) /\ BlockInv(w, r)
             /\ Channel(<<w, r>>)!ChanInit
  <2> DEFINE p == <<w, r>>
  <2>1. p \in Pairs
    BY PairOf DEF Peers
  <2>2. /\ fate[p] = << >> /\ born[p] = << >> /\ writeCache[p].chain = << >>
        /\ readWriteLocked[p].chain = << >> /\ readWriteLocked[p].undelivered = << >>
        /\ ~readWriteLocked[p].delivered /\ pc[r] = "down"
    BY <2>1 DEF Init, Peers
  <2>3. DOMAIN << >> = {} /\ Len(<< >>) = 0 /\ << >> \o << >> = << >>
    BY EmptySeq, ConcatEmptySeq
  <2>4. InFlight(p) = << >> /\ Queue(p) = << >> /\ Rejected(p) = << >> /\ Orphans(p) = {}
    BY <2>2, <2>3 DEF InFlight, Queue, Rejected, Orphans
  <2>5. Channel(p)!ChanInit
    BY <2>2, <2>4 DEF Channel!ChanInit, Queue, Rejected, Orphans
  <2>6. ChannelInv(p)
    BY <2>2, <2>3, <2>4 DEF ChannelInv, Accounted, InChain, IsInjective, Ascending
  <2>7. ~Reading(w, r)
    BY <2>2 DEF Reading, Visit, At
  <2>8. BlockInv(w, r)
    BY <2>2, <2>3, <2>7 DEF BlockInv, ReadInv, LeftInv, BornInv, Ascending
  <2> QED BY <2>5, <2>6, <2>8
<1> QED BY <1>1, <1>2 DEF EventInv, Pairs, Peers

\* A step does to each pair what its channel may do.
LEMMA EventStep ==
  ASSUME Inv, EventInv, [Next]_vars
  PROVE  /\ EventInv'
         /\ \A p \in Pairs : [Channel(p)!ChanNext]_(Channel(p)!chanVars)
<1>1. CASE Next
  <2>1. PICK n \in Nodes : Step(n)
    BY <1>1 DEF Next
  <2>2. TypeOK
    BY DEF Inv
  <2>3. ASSUME NEW w \in Nodes, NEW r \in Peers(w)
        PROVE  PairStep(w, r) /\ ChannelInv(<<w, r>>)'
    <3>1. <<w, r>> \in Pairs /\ r \in Nodes /\ w \in Peers(r) /\ ChannelInv(<<w, r>>)
      BY PairOf DEF Peers, EventInv
    <3>2. PairStep(w, r)
      <4>1. CASE n = w
        BY <2>1, <4>1, WriterEvents
      <4>2. CASE n = r
        BY <2>1, <3>1, <4>2, ReaderEvents
      <4>3. CASE n # w /\ n # r
        BY <2>1, <4>3, ElsewhereEvents
      <4> QED BY <4>1, <4>2, <4>3
    <3> QED BY <2>2, <3>1, <3>2, ChannelKept DEF PairStep
  <2>4. CursorInv'
    BY <2>1, <2>2, CursorStep DEF EventInv
  <2> QED BY <2>3, <2>4 DEF EventInv, PairStep, Pairs, Peers
<1>2. CASE UNCHANGED vars
  <2>1. CursorInv'
    BY <1>2 DEF vars, EventInv, CursorInv
  <2>2. ASSUME NEW w \in Nodes, NEW r \in Peers(w)
        PROVE  PairStep(w, r) /\ ChannelInv(<<w, r>>)'
    <3>1. <<w, r>> \in Pairs /\ ChannelInv(<<w, r>>) /\ BlockInv(w, r) /\ TypeOK
      BY PairOf DEF Peers, EventInv, Inv
    <3>2. /\ Untouched(<<w, r>>) /\ SameSource(w)
          /\ Reading(w, r)' <=> Reading(w, r)
          /\ Idle(w, r)' <=> Idle(w, r)
          /\ cursor' = cursor
      BY <1>2 DEF vars, Untouched, SameSource, Reading, Visit, At, Idle
    <3>3. PairStep(w, r)
      BY <3>1, <3>2, Quiet
    <3> QED BY <3>1, <3>3, ChannelKept DEF PairStep
  <2> QED BY <2>1, <2>2 DEF EventInv, PairStep, Pairs, Peers
<1> QED BY <1>1, <1>2

\* The invariant of the events of every pair, for any number of nodes, starts and events
THEOREM EventInvariant == Spec => []EventInv
<1>1. Init => EventInv
  BY EventInit
<1>2. Inv /\ EventInv /\ [Next]_vars => EventInv'
  BY EventStep
<1> QED BY <1>1, <1>2, Invariant, PTL DEF Spec

\* Between any two of any number of nodes, the blocks, flags and chains handed over are a
\* channel: what SynchronizeRead, read, SynchronizeWrite, writeFailed, the constructor and
\* the destructor of Node do to the events of a pair is to send, deliver, turn down, recall,
\* give back or abandon, and nothing else.
THEOREM ChannelImplemented == Spec => ImplementsChannel
<1> DEFINE A == \A p \in Pairs : Channel(p)!ChanInit
           N == \A p \in Pairs : [Channel(p)!ChanNext]_(Channel(p)!chanVars)
<1>1. Init => A
  BY EventInit
<1>2. Inv /\ EventInv /\ [Next]_vars => N
  BY EventStep
<1>3. ImplementsChannel <=> A /\ [][N]_vars
  BY DEF ImplementsChannel
<1> HIDE DEF A, N
<1>4. Spec => A /\ [][N]_vars
  BY <1>1, <1>2, Invariant, EventInvariant, PTL DEF Spec
<1> QED BY <1>3, <1>4

\* No event is lost, doubled or dropped while its source could hear of it, whoever is
\* started, stopped or restarted in between (AsyncNodesHandle::write and writeFailed,
\* ReaderSharedHandle::read).
THEOREM EventsAreAccounted == Spec => []EventsAccounted
<1>1. Inv /\ EventInv => EventsAccounted
  BY Accounts DEF Inv, EventInv, Pairs, Peers
<1> QED BY <1>1, Invariant, EventInvariant, PTL

\* No event is delivered before an earlier one of its pair that is still to be
\* (ReaderSharedHandle::read, which takes the chains first to last).
THEOREM NoneOvertaken == Spec => []NoOvertaking
<1>1. Inv /\ EventInv => NoOvertaking
  BY Accounts DEF Inv, EventInv, Pairs, Peers
<1> QED BY <1>1, Invariant, EventInvariant, PTL
=============================================================================
