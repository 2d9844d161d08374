-------------------------- MODULE MCEngineShutdown --------------------------
(***************************************************************************)
(* Start sequences for the runs of module EngineShutdown.                  *)
(***************************************************************************)
EXTENDS EngineShutdown

Service(c) == [core |-> c, isServiceFlag |-> TRUE]
NoService(c) == [core |-> c, isServiceFlag |-> FALSE]

\* A service on each of two cores; the regular actor comes later
TwoServices == <<Service(1), Service(2)>>

\* The second service on the core of the first, regular actors on both cores
SameCore == <<Service(1), NoService(2), Service(1)>>

\* A service on each side of the regular actor that may throw
Failing == <<Service(1), NoService(2), Service(2)>>
=============================================================================
