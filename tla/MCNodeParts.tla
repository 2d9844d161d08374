----------------------------- MODULE MCNodeParts -----------------------------
(***************************************************************************)
(* Small instances of what a node consists of besides its actors, as far as*)
(* these parts have no state in common: modules EventPages, HandlerTable,  *)
(* Callbacks, NodeAllocator, ThreadStart and Timer.  A behaviour is one of *)
(* the part that focus names; the others rest in one of their initial      *)
(* states.                                                                 *)
(***************************************************************************)
EXTENDS Timer, EventPages, HandlerTable, Callbacks, NodeAllocator, ThreadStart

CONSTANTS k1, k2, t1, t2

VARIABLE focus

\* Two timers on a core, or one on a core that may lack memory
MCHomes == {t1 :> k1 @@ t2 :> k1, t1 :> k2}
MCSettings == k1 :> {<<2, FALSE>>} @@ k2 :> {<<1, TRUE>>}

Resting(part, choice) == focus = part \/ choice

MCPartsInit ==
  /\ focus \in {"timer", "pages", "handlers", "callbacks", "allocator", "thread"}
  /\ TimerInit /\ PagesInit /\ HandlerInit /\ CallbackInit /\ AllocatorInit /\ StartInit
  /\ Resting("timer", home = CHOOSE h \in Homes : TRUE)
  /\ Resting("pages", local)
  /\ Resting("callbacks", actorEventTable = CHOOSE f \in [CallbackObjects -> EventTables] : TRUE)

Memory    == <<pagesVars, allocatorVars>>
Handling  == <<handlerVars, callbackVars>>
partsVars == <<focus, timerVars, Memory, Handling, startVars>>

MCPartsNext ==
  /\ \/ focus = "timer"     /\ TimerNext     /\ UNCHANGED <<Memory, Handling, startVars>>
     \/ focus = "pages"     /\ PagesNext     /\ UNCHANGED <<allocatorVars, timerVars, Handling, startVars>>
     \/ focus = "allocator" /\ AllocatorNext /\ UNCHANGED <<pagesVars, timerVars, Handling, startVars>>
     \/ focus = "handlers"  /\ HandlerNext   /\ UNCHANGED <<callbackVars, timerVars, Memory, startVars>>
     \/ focus = "callbacks" /\ CallbackNext  /\ UNCHANGED <<handlerVars, timerVars, Memory, startVars>>
     \/ focus = "thread"    /\ StartNext     /\ UNCHANGED <<timerVars, Memory, Handling>>
  /\ UNCHANGED focus

MCPartsSpec == MCPartsInit /\ [][MCPartsNext]_partsVars
=============================================================================
