-------------------------- MODULE MCActorLifecycle --------------------------
(* Small instances of ActorLifecycle for TLC. *)
EXTENDS ActorLifecycle, TLC

\* Actors and references are interchangeable (used by the safety runs only).
Symmetric == Permutations(Actors) \cup Permutations(Refs)
=============================================================================
