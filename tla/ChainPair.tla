------------------------------ MODULE ChainPair ------------------------------
(***************************************************************************)
(* What an intrusive chain promises: a sequence of items, each of which is *)
(* in at most one chain.  Items come and go at any place, chains are       *)
(* spliced and swapped.  ForwardChain and DoubleChain implement it.        *)
(***************************************************************************)
EXTENDS Integers, Sequences, SequencesExt

CONSTANTS Items, Names

VARIABLE contents

Linked == UNION {Range(contents[c]) : c \in Names}

Add(c, item) ==
  /\ item \notin Linked
  /\ \E k \in 1 .. Len(contents[c]) + 1 : contents' = [contents EXCEPT ![c] = InsertAt(@, k, item)]

Take(c) == \E k \in DOMAIN contents[c] : contents' = [contents EXCEPT ![c] = RemoveAt(@, k)]

Splice(c, d) ==
  /\ c # d
  /\ contents' \in {[contents EXCEPT ![c] = @ \o contents[d], ![d] = << >>],
                    [contents EXCEPT ![c] = contents[d] \o @, ![d] = << >>]}

Swap(c, d) == contents' = [contents EXCEPT ![c] = contents[d], ![d] = contents[c]]

ChainPairNext ==
  \E c \in Names :
    \/ \E item \in Items : Add(c, item)
    \/ Take(c)
    \/ \E d \in Names : Splice(c, d) \/ Swap(c, d)

ChainPairSpec == contents = [c \in Names |-> << >>] /\ [][ChainPairNext]_contents
=============================================================================
