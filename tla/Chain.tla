-------------------------------- MODULE Chain --------------------------------
(***************************************************************************)
(* What the code does to the chains of actors, callbacks and other items   *)
(* (engine/internal/mdoublechain.h), when no item is in a chain twice.  A  *)
(* chain is the sequence of its items; module DoubleChain has the links.   *)
(***************************************************************************)
EXTENDS Integers, Sequences, Functions

InChain(s, a) == \E i \in DOMAIN s : s[i] = a

\* remove(): the items behind a move up; nothing happens where a is in no chain.
Without(s, a) ==
  [i \in 1 .. IF InChain(s, a) THEN Len(s) - 1 ELSE Len(s) |->
     IF \E j \in 1 .. i : s[j] = a THEN s[i + 1] ELSE s[i]]

\* What a loop over s leaves of it that removes all but the items of K; the order stays.
Kept(s, K) ==
  LET kept[n \in 0 .. Len(s)] ==
        IF n = 0 THEN << >>
        ELSE IF s[n] \in K THEN Append(kept[n - 1], s[n])
        ELSE kept[n - 1]
  IN kept[Len(s)]
=============================================================================
