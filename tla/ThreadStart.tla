----------------------------- MODULE ThreadStart -----------------------------
(***************************************************************************)
(* How the thread of a core and the object that stands for it,             *)
(* AsyncNode::Thread (engine/internal/node.cpp), begin and part.  Both     *)
(* sides spin on flags of the object.  The creator constructs the object,  *)
(* builds a node, gives it to the thread or does not, and destroys the     *)
(* object; the thread must not touch it from then on.                      *)
(*                                                                         *)
(* The flags are plain bool with a memory barrier on both sides of each    *)
(* write, and the loops on them call threadSleep(): writes are seen in     *)
(* their order.  A thread that cannot return to its normal priority, or    *)
(* whose node throws, ends the process.                                    *)
(***************************************************************************)
EXTENDS Naturals

CONSTANTS
  SetUpFails,   \* may threadSetAffinity() or threadSetRealTime() throw at first?
  NodeFails     \* may the creator fail to build the node?

ASSUME ThreadAssumption == SetUpFails \in BOOLEAN /\ NodeFails \in BOOLEAN

VARIABLES
  creator,      \* where the creator is
  inThread,     \* where the thread is
  inThreadFlag, runFlag, inThreadExceptionFlag,
  theNode       \* *inThreadNode, on the stack of the thread

startVars == <<creator, inThread, inThreadFlag, runFlag, inThreadExceptionFlag, theNode>>

StartInit ==
  /\ creator = "new" /\ inThread = "none"
  /\ inThreadFlag = FALSE /\ runFlag = FALSE /\ inThreadExceptionFlag = FALSE
  /\ theNode = FALSE

-----------------------------------------------------------------------------
(* The creator: Thread(), run(), ~Thread()                                 *)

threadCreate ==
  /\ creator = "new"
  /\ creator' = "constructing" /\ inThread' = "setUp"
  /\ UNCHANGED <<inThreadFlag, runFlag, inThreadExceptionFlag, theNode>>

\* An object whose constructor throws is gone as well.
Constructed ==
  /\ creator = "constructing" /\ (inThreadFlag \/ inThreadExceptionFlag)
  /\ creator' = IF inThreadExceptionFlag THEN "threw" ELSE "building"
  /\ UNCHANGED <<inThread, inThreadFlag, runFlag, inThreadExceptionFlag, theNode>>

\* Engine::start() and Engine::newCore(): the node is built, or it is not.
BuildNode ==
  /\ creator = "building"
  /\ \/ creator' = "giving"
     \/ NodeFails /\ creator' = "destroying"
  /\ UNCHANGED <<inThread, inThreadFlag, runFlag, inThreadExceptionFlag, theNode>>

run ==
  \/ /\ creator = "giving"
     /\ theNode' = TRUE /\ creator' = "given"
     /\ UNCHANGED <<inThread, inThreadFlag, runFlag, inThreadExceptionFlag>>
  \/ /\ creator = "given"
     /\ runFlag' = TRUE /\ creator' = "destroying"
     /\ UNCHANGED <<inThread, inThreadFlag, inThreadExceptionFlag, theNode>>

\* Mutant of Destroy: the destructor does not wait.
DestroyAtOnce ==
  /\ creator = "destroying"
  /\ runFlag' = TRUE /\ creator' = "gone"
  /\ UNCHANGED <<inThread, inThreadFlag, inThreadExceptionFlag, theNode>>

Destroy ==
  \/ /\ creator = "destroying"
     /\ runFlag' = TRUE /\ creator' = "joining"
     /\ UNCHANGED <<inThread, inThreadFlag, inThreadExceptionFlag, theNode>>
  \/ /\ creator = "joining" /\ ~inThreadFlag
     /\ creator' = "gone"
     /\ UNCHANGED <<inThread, inThreadFlag, runFlag, inThreadExceptionFlag, theNode>>

-----------------------------------------------------------------------------
(* The thread: inThread()                                                  *)

SetUp ==
  /\ inThread = "setUp"
  /\ \/ inThreadFlag' = TRUE /\ inThread' = "spinning" /\ UNCHANGED inThreadExceptionFlag
     \/ SetUpFails /\ inThreadExceptionFlag' = TRUE /\ inThread' = "ended" /\ UNCHANGED inThreadFlag
  /\ UNCHANGED <<creator, runFlag, theNode>>

SeeRunFlag ==
  /\ inThread = "spinning" /\ runFlag
  /\ inThread' = "leaving"
  /\ UNCHANGED <<creator, inThreadFlag, runFlag, inThreadExceptionFlag, theNode>>

ClearInThreadFlag ==
  /\ inThread = "leaving"
  /\ inThreadFlag' = FALSE /\ inThread' = "left"
  /\ UNCHANGED <<creator, runFlag, inThreadExceptionFlag, theNode>>

\* Without a node it returns, with one it runs the event loop and deletes the node.
RunNode ==
  /\ inThread = "left"
  /\ inThread' = IF theNode THEN "ran" ELSE "ended"
  /\ UNCHANGED <<creator, inThreadFlag, runFlag, inThreadExceptionFlag, theNode>>

StartNext ==
  \/ threadCreate \/ Constructed \/ BuildNode \/ run \/ Destroy
  \/ SetUp \/ SeeRunFlag \/ ClearInThreadFlag \/ RunNode

StartSpec == StartInit /\ [][StartNext]_startVars

-----------------------------------------------------------------------------
(* Properties.                                                             *)

\* The thread is never left with an object that is gone, and neither side waits for a
\* flag that the other will not set any more; a node that was given is run, and where
\* none was, the thread ends without one.
NobodyLeftBehind ==
  /\ inThread \in {"setUp", "spinning", "leaving"} => creator \notin {"gone", "threw"}
  /\ inThread = "ended" /\ creator = "constructing" => inThreadExceptionFlag
  /\ inThread \in {"left", "ran", "ended"} /\ creator = "joining" => ~inThreadFlag
  /\ inThread = "spinning" /\ creator \in {"joining", "gone"} => runFlag
  /\ inThread \in {"leaving", "left", "ran"} => creator \in {"destroying", "joining", "gone"}
  /\ inThread = "ended" => ~theNode
=============================================================================
