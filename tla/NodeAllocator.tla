---------------------------- MODULE NodeAllocator ----------------------------
(***************************************************************************)
(* AsyncNodeAllocator (engine/internal/node.h), from which an actor and    *)
(* its node have their memory: blocks of the powers of two, one free chain *)
(* for each, cut from pages that are only given back in the end.           *)
(*                                                                         *)
(* The unit is the size of a Block, which is what heads a page and the     *)
(* least that is allocated.  A page is a number; a block a range in it.    *)
(***************************************************************************)
EXTENDS Chain, FiniteSets, SequencesExt, FiniteSetsExt

CONSTANTS
  systemPageSize,
  AllocSizes,     \* the sizes that are asked for
  MaxAllocPages,  \* bound: the pages that the system gives
  MaxLive         \* bound: allocations at a time

ASSUME AllocatorAssumption ==
  /\ systemPageSize \in Nat \ {0} /\ AllocSizes \subseteq Nat \ {0}
  /\ \E largest \in AllocSizes : \A sz \in AllocSizes : sz <= largest
  /\ MaxAllocPages \in Nat /\ MaxLive \in Nat

VARIABLES
  blockChains,  \* the free blocks of 2^i, by i
  pageChain,    \* the sizes of the pages
  live          \* what is allocated: where, and the size asked for

allocatorVars == <<blockChains, pageChain, live>>

\* 1 << n
Power[n \in Nat] == IF n = 0 THEN 1 ELSE 2 * Power[n - 1]

Largest == Max(AllocSizes)
Indices == {i \in 0 .. Largest : Power[i] < 2 * Largest}

AllocatorInit ==
  /\ blockChains = [i \in Indices |-> << >>]
  /\ pageChain = << >>
  /\ live = {}

-----------------------------------------------------------------------------

highestBit(n) == Max({i \in 0 .. n : Power[i] <= n})

\* Mutant of index: a size that is no power of two gets the one below.
indexBelow(sz) == highestBit(sz)

index(sz) == highestBit(sz) + (IF Power[highestBit(sz)] = sz THEN 0 ELSE 1)

\* What the system is asked for: whole pages for a block and the head
PageSize(i) == systemPageSize * ((Power[i] + 1 + systemPageSize - 1) \div systemPageSize)

\* The loop over a page of that size: a block as long as the one before, or the largest
\* that still fits, in the chain of its index.
NextCut(size, done) ==
  LET left == size - done.at
      j    == IF left < Power[done.i] THEN highestBit(left) ELSE done.i
  IN IF left = 0 THEN done
     ELSE [blocks |-> Append(done.blocks, [at |-> done.at, i |-> j]), at |-> done.at + Power[j], i |-> j]

\* A new page after its head, cut into blocks of 2^i, and what is left of it into
\* smaller and smaller ones: the blocks in the order in which they are cut.
Cut(i) ==
  LET cut[k \in 0 .. PageSize(i)] ==
        IF k = 0 THEN [blocks |-> << >>, at |-> 1, i |-> i] ELSE NextCut(PageSize(i), cut[k - 1])
  IN cut[PageSize(i)].blocks

BlockAt(page, at) == [page |-> page, at |-> at]

\* The chains with all blocks of a new page in front
WithPage(i) ==
  [j \in Indices |->
     LET mine == Kept(Cut(i), {b \in Range(Cut(i)) : b.i = j})
     IN Reverse([n \in DOMAIN mine |-> BlockAt(Len(pageChain) + 1, mine[n].at)]) \o blockChains[j]]

allocate(sz) ==
  LET i == index(sz) IN
  /\ Cardinality(live) < MaxLive
  /\ IF blockChains[i] # << >>
     THEN /\ blockChains' = [blockChains EXCEPT ![i] = Tail(@)]
          /\ live' = live \cup {[block |-> Head(blockChains[i]), sz |-> sz]}
          /\ UNCHANGED pageChain
     ELSE /\ Len(pageChain) < MaxAllocPages
          /\ pageChain' = Append(pageChain, PageSize(i))
          /\ blockChains' = [WithPage(i) EXCEPT ![i] = Tail(@)]
          /\ live' = live \cup {[block |-> Head(WithPage(i)[i]), sz |-> sz]}

\* deallocate(), with the size that was asked for
deallocate(a) ==
  /\ live' = live \ {a}
  /\ blockChains' = [blockChains EXCEPT ![index(a.sz)] = <<a.block>> \o @]
  /\ UNCHANGED pageChain

AllocatorNext ==
  \/ \E sz \in AllocSizes : allocate(sz)
  \/ \E a \in live : deallocate(a)

-----------------------------------------------------------------------------
(* Properties.                                                             *)

AllocatorSpec == AllocatorInit /\ [][AllocatorNext]_allocatorVars

-----------------------------------------------------------------------------
(* Properties.                                                             *)

\* The bytes of a block
Bytes(block, i) == {block.page} \X (block.at .. block.at + Power[i] - 1)

\* However the free blocks of earlier pages and of other sizes are used, what is
\* allocated is as long as was asked for, and no byte is in two blocks, in none, in a
\* head, or beyond its page.
MemoryDisjoint ==
  LET free  == UNION {UNION {Bytes(b, i) : b \in Range(blockChains[i])} : i \in Indices}
      used  == UNION {Bytes(a.block, index(a.sz)) : a \in live}
      pages == UNION {{p} \X (1 .. pageChain[p] - 1) : p \in DOMAIN pageChain}
  IN
  /\ free \cup used = pages /\ free \cap used = {}
  /\ \A i, j \in Indices : \A m \in DOMAIN blockChains[i], n \in DOMAIN blockChains[j] :
       <<i, m>> # <<j, n>> => Bytes(blockChains[i][m], i) \cap Bytes(blockChains[j][n], j) = {}
  /\ \A a, b \in live : a # b => Bytes(a.block, index(a.sz)) \cap Bytes(b.block, index(b.sz)) = {}
  /\ \A a \in live : a.sz <= Power[index(a.sz)]
=============================================================================
