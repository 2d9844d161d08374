---------------------------- MODULE ForwardChain ----------------------------
(***************************************************************************)
(* MultiForwardChain (engine/internal/mforwardchain.h), in which events    *)
(* and pages of memory are kept: items with a link to the next one.  The   *)
(* link of the last one is not set until somebody iterates, and the tail   *)
(* of an empty chain may be anything that the chain once held.             *)
(*                                                                         *)
(* A debug build is modelled: an item that is in no chain links to itself, *)
(* and one that was just put in links to nowhere.                          *)
(***************************************************************************)
EXTENDS Integers, Sequences, FiniteSets

CONSTANTS Items, Names, None, Wild

ASSUME ForwardAssumption == {None, Wild} \cap Items = {} /\ None # Wild /\ IsFiniteSet(Items)

VARIABLES next, head, tail

forwardVars == <<next, head, tail>>

ForwardInit ==
  /\ next = [i \in Items |-> i]
  /\ head = [c \in Names |-> None] /\ tail = [c \in Names |-> None]

\* An item that may be put into a chain: the first assert of every push.
Free(item) == next[item] = item

swap(c, d) ==
  /\ head' = [head EXCEPT ![c] = head[d], ![d] = head[c]]
  /\ tail' = [tail EXCEPT ![c] = tail[d], ![d] = tail[c]]
  /\ UNCHANGED next

push_front(c, item) ==
  /\ Free(item)
  /\ next' = [next EXCEPT ![item] = IF head[c] = None THEN Wild ELSE head[c]]
  /\ head' = [head EXCEPT ![c] = item]
  /\ tail' = [tail EXCEPT ![c] = IF head[c] = None THEN item ELSE @]

push_back(c, item) ==
  /\ Free(item)
  /\ IF head[c] = None THEN next' = [next EXCEPT ![item] = Wild]
     ELSE next' = [next EXCEPT ![item] = Wild, ![tail[c]] = item]
  /\ head' = [head EXCEPT ![c] = IF @ = None THEN item ELSE @]
  /\ tail' = [tail EXCEPT ![c] = item]

\* push_front() and push_back() of another chain, whose tail stays as it is
push_front_chain(c, other) ==
  /\ c # other /\ head[other] # None
  /\ IF head[c] = None THEN swap(c, other)
     ELSE /\ next' = [next EXCEPT ![tail[other]] = head[c]]
          /\ head' = [head EXCEPT ![c] = head[other], ![other] = None]
          /\ UNCHANGED tail

push_back_chain(c, other) ==
  /\ c # other /\ head[other] # None
  /\ IF head[c] = None THEN swap(c, other)
     ELSE /\ next' = [next EXCEPT ![tail[c]] = head[other]]
          /\ tail' = [tail EXCEPT ![c] = tail[other]]
          /\ head' = [head EXCEPT ![other] = None]

pop_front(c) ==
  /\ head[c] # None
  /\ IF head[c] = tail[c]
     THEN head' = [head EXCEPT ![c] = None] /\ tail' = [tail EXCEPT ![c] = None]
     ELSE head' = [head EXCEPT ![c] = next[@]] /\ UNCHANGED tail
  /\ next' = [next EXCEPT ![head[c]] = head[c]]

\* The link of each item once begin() has closed the chain.  begin() asserts that a
\* chain without a head has no tail: that of a chain that was spliced into another
\* belongs to the other.
ClosedAt(c) == IF tail[c] = None THEN next ELSE [next EXCEPT ![tail[c]] = None]
MayBegin(c) == head[c] = None <=> tail[c] = None

\* The pairs of pointers that an iterator of c goes through, previous and current.
Positions(c) ==
  {<<None, head[c]>>} \cup {<<p, ClosedAt(c)[p]>> : p \in {i \in Items : ~Free(i) /\ ClosedAt(c)[i] \in Items \cup {None}}}

\* Those that ++ reaches from begin(), after k steps at most.
Reached(c) ==
  LET within[k \in 0 .. Cardinality(Items)] ==
        IF k = 0 THEN {<<None, head[c]>>}
        ELSE within[k - 1] \cup {p \in Positions(c) : p[1] # None /\ \E q \in within[k - 1] : q[2] = p[1]}
  IN within[Cardinality(Items)]

insert(c, item) ==
  /\ Free(item) /\ MayBegin(c)
  /\ \E at \in Reached(c) :
       /\ head' = [head EXCEPT ![c] = IF at[1] = None THEN item ELSE @]
       /\ tail' = [tail EXCEPT ![c] = IF at[2] = None THEN item ELSE @]
       /\ next' = [i \in Items |-> IF i = item THEN at[2] ELSE IF i = at[1] THEN item ELSE ClosedAt(c)[i]]

\* Mutant of erase: the tail stays where it was.
eraseKeepingTail(c) ==
  /\ MayBegin(c)
  /\ \E at \in {p \in Reached(c) : p[2] # None} :
       LET after == ClosedAt(c)[at[2]] IN
       /\ head' = [head EXCEPT ![c] = IF at[1] = None THEN after ELSE @]
       /\ next' = [i \in Items |-> IF i = at[2] THEN i ELSE IF i = at[1] THEN after ELSE ClosedAt(c)[i]]
       /\ UNCHANGED tail

erase(c) ==
  /\ MayBegin(c)
  /\ \E at \in {p \in Reached(c) : p[2] # None} :
       LET after == ClosedAt(c)[at[2]] IN
       /\ head' = [head EXCEPT ![c] = IF at[1] = None THEN after ELSE @]
       /\ tail' = [tail EXCEPT ![c] = IF at[2] = @ THEN at[1] ELSE @]
       /\ next' = [i \in Items |-> IF i = at[2] THEN i ELSE IF i = at[1] THEN after ELSE ClosedAt(c)[i]]

ForwardNext ==
  \E c \in Names :
    \/ \E item \in Items : push_front(c, item) \/ push_back(c, item) \/ insert(c, item)
    \/ pop_front(c) \/ erase(c)
    \/ \E d \in Names \ {c} : push_front_chain(c, d) \/ push_back_chain(c, d) \/ swap(c, d)

ForwardSpec == ForwardInit /\ [][ForwardNext]_forwardVars

-----------------------------------------------------------------------------
(* Properties.                                                             *)

\* What an iterator meets from the head to the tail; << None >> if it never meets it.
Contents(c) ==
  LET path[k \in 1 .. Cardinality(Items)] ==
        IF k = 1 THEN head[c] ELSE IF path[k - 1] \in Items THEN next[path[k - 1]] ELSE Wild
      ends == {k \in DOMAIN path : path[k] = tail[c]}
  IN IF head[c] = None THEN << >>
     ELSE IF ends = {} THEN << None >>
     ELSE SubSeq(path, 1, CHOOSE k \in ends : \A j \in ends : k <= j)

Sequences == INSTANCE ChainPair WITH contents <- [c \in Names |-> Contents(c)]

\* The links are a pair of sequences that change as the operations say, whatever
\* links and tails are left over from before, and an item that is in neither may
\* always be put into one.
ImplementsSequences ==
  Sequences!ChainPairSpec /\ [](\A item \in Items : Free(item) <=> item \notin Sequences!Linked)
=============================================================================
