----------------------------- MODULE DoubleChain -----------------------------
(***************************************************************************)
(* MultiDoubleChain (engine/internal/mdoublechain.h), in which actors,     *)
(* references and callbacks are kept: members with links to both sides,    *)
(* which can leave their chain from any place without a search.            *)
(*                                                                         *)
(* A debug build is modelled: a member that is in no chain links to itself.*)
(***************************************************************************)
EXTENDS Integers, Sequences, FiniteSets, SequencesExt

CONSTANTS Members, Chains, Null

ASSUME DoubleAssumption == Null \notin Members /\ IsFiniteSet(Members)

VARIABLES
  links, \* previous and next of each member
  ends   \* head and tail of each chain

doubleVars == <<links, ends>>

Self(item) == [previous |-> item, next |-> item]
Empty      == [head |-> Null, tail |-> Null]

DoubleInit == links = [i \in Members |-> Self(i)] /\ ends = [c \in Chains |-> Empty]

Unlinked(item) == links[item] = Self(item)

\* links with previous and next of two members set, where they are members
Joined(l, left, right) ==
  [i \in Members |-> [previous |-> IF i = right THEN left ELSE l[i].previous,
                      next |-> IF i = left THEN right ELSE l[i].next]]

\* item between two neighbours, either of which may be missing
Between(l, left, item, right) == Joined(Joined(l, left, item), item, right)

push_front_member(c, item) ==
  /\ Unlinked(item)
  /\ links' = Between(links, Null, item, ends[c].head)
  /\ ends' = [ends EXCEPT ![c] = [head |-> item, tail |-> IF @.head = Null THEN item ELSE @.tail]]

push_back_member(c, item) ==
  /\ Unlinked(item)
  /\ links' = Between(links, ends[c].tail, item, Null)
  /\ ends' = [ends EXCEPT ![c] = [head |-> IF @.head = Null THEN item ELSE @.head, tail |-> item]]

\* before the member at which an iterator stands; at the end, push_back()
insert_member(c, item, at) ==
  LET left == links[at].previous IN
  /\ Unlinked(item)
  /\ links' = Between(links, left, item, at)
  /\ ends' = [ends EXCEPT ![c].head = IF left = Null THEN item ELSE @]

\* Mutant of remove: the member behind keeps its link to the one that leaves.
removeHalf(c, item) ==
  LET left == links[item].previous
      right == links[item].next
  IN
  /\ links' = [[i \in Members |-> IF i = left THEN [links[i] EXCEPT !.next = right] ELSE links[i]]
                 EXCEPT ![item] = Self(item)]
  /\ ends' = [ends EXCEPT ![c] = [head |-> IF left = Null THEN right ELSE @.head,
                                  tail |-> IF right = Null THEN left ELSE @.tail]]

\* remove() and erase(); pop_front() and pop_back() of the first and the last
remove(c, item) ==
  LET left == links[item].previous
      right == links[item].next
  IN
  /\ links' = [Joined(links, left, right) EXCEPT ![item] = Self(item)]
  /\ ends' = [ends EXCEPT ![c] = [head |-> IF left = Null THEN right ELSE @.head,
                                  tail |-> IF right = Null THEN left ELSE @.tail]]

swap_chains(c, d) == ends' = [ends EXCEPT ![c] = ends[d], ![d] = ends[c]] /\ UNCHANGED links

push_chain_front(c, other) ==
  IF ends[c].head # Null /\ ends[other].tail # Null
  THEN /\ links' = Joined(links, ends[other].tail, ends[c].head)
       /\ ends' = [ends EXCEPT ![c].head = ends[other].head, ![other] = Empty]
  ELSE ends[c].head = Null /\ swap_chains(c, other)

push_chain_back(c, other) ==
  IF ends[c].tail # Null /\ ends[other].head # Null
  THEN /\ links' = Joined(links, ends[c].tail, ends[other].head)
       /\ ends' = [ends EXCEPT ![c].tail = ends[other].tail, ![other] = Empty]
  ELSE ends[c].tail = Null /\ swap_chains(c, other)

-----------------------------------------------------------------------------

\* What an iterator meets from one end on, by next or by previous.
Walk(from, side) ==
  LET path[k \in 1 .. Cardinality(Members)] ==
        IF k = 1 THEN from ELSE IF path[k - 1] = Null THEN Null ELSE side[path[k - 1]]
  IN SubSeq(path, 1, Cardinality({k \in DOMAIN path : path[k] # Null}))
Forth(c) == Walk(ends[c].head, [i \in Members |-> links[i].next])
Back(c)  == Walk(ends[c].tail, [i \in Members |-> links[i].previous])

DoubleNext ==
  \E c \in Chains :
    \/ \E item \in Members :
         \/ push_front_member(c, item) \/ push_back_member(c, item)
         \/ item \in Range(Forth(c)) /\ remove(c, item)
         \/ \E at \in Range(Forth(c)) : insert_member(c, item, at)
    \/ \E d \in Chains \ {c} : push_chain_front(c, d) \/ push_chain_back(c, d) \/ swap_chains(c, d)

DoubleSpec == DoubleInit /\ [][DoubleNext]_doubleVars

-----------------------------------------------------------------------------
(* Properties.                                                             *)

Ordered == INSTANCE ChainPair WITH Items <- Members, Names <- Chains, contents <- [c \in Chains |-> Forth(c)]

\* The links are a pair of sequences that change as the operations say; they read
\* the same from both ends, and a member that is in neither may always be put into one.
ImplementsSequencesBothWays ==
  /\ Ordered!ChainPairSpec
  /\ [](/\ \A c \in Chains : Back(c) = Reverse(Forth(c))
        /\ \A item \in Members : Unlinked(item) <=> item \notin Ordered!Linked)
=============================================================================
