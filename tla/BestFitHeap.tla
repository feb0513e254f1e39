----------------------------- MODULE BestFitHeap -----------------------------
(***************************************************************************)
(* BestFitTree: the blocks of large objects in their pages, with boundary  *)
(* tags.  Of the tree that indexes the free blocks the model keeps which   *)
(* blocks it leads to and which of these are its nodes; the others are in  *)
(* the list behind the node of their size.  The module BestFitTree has the *)
(* links.  The index is as good as unlinkBlock and remove leave it: where  *)
(* they leave a block astray, the model ends.                              *)
(*                                                                         *)
(* Addresses and sizes count units of alignof(PyBaseException), which is   *)
(* also the size of a block header.  size, previous and free are what is   *)
(* in memory: the headers of blocks that have been merged stay there until *)
(* something is written over them.                                         *)
(***************************************************************************)
EXTENDS Integers, Sequences, Functions

CONSTANTS PageUnits,  \* units in a page of the operating system
          Limit,      \* m_lowerBlockSizeLimit
          Requests,   \* the sizes that objects are allocated with
          MaxUnits,   \* bound: units the operating system provides
          Null

\* A page has room for its two headers and a block that is larger than the limit.
ASSUME SizesAssumption ==
  PageUnits \in Nat /\ Limit \in Nat /\ PageUnits > Limit + 2 /\ MaxUnits \in Nat
\* MarkAndSweep::alloc serves the sizes up to the limit from the free lists.
ASSUME RequestsAssumption == Requests \subseteq Nat /\ \A n \in Requests : n > Limit
ASSUME NullAssumption == Null \notin Nat

VARIABLES
  pages,      \* m_pages: the address of the first unit of every page
  top,        \* where the operating system places the next page
  size, previous, free,  \* of a header: size, m_previousBlock, whether its two bits are set
  index,      \* the blocks that the tree leads to
  heads,      \* those that are its nodes: of each size the first
  request,    \* the size an object was allocated with, and 0 where there is no object
  reachable,  \* the objects that the program can reach
  marked,     \* the objects whose mark bit is set
  pc,         \* "program", "sweep", "destroy", "destroyed", "overrun" or "astray"
  page, cursor \* the loops' iter and block

vars == <<pages, top, size, previous, free, index, heads, request, reachable, marked, pc, page, cursor>>
headers == <<size, previous, free, index, heads>>
mapping == <<pages, top>>
walk    == <<page, cursor>>

Addresses == 0 .. MaxUnits - 1
Objects   == {a \in Addresses : request[a] # 0}
Next(b)   == b + 1 + size[b]

\* The headers from b to the end of its page.
Chain == LET chain[b \in Addresses] == IF size[b] = 0 THEN {b} ELSE {b} \cup chain[Next(b)] IN chain
Blocks == UNION {Chain[b] : b \in Range(pages)}

Init ==
  /\ pages = <<>> /\ top = 0
  /\ size = [a \in Addresses |-> 0] /\ previous = [a \in Addresses |-> Null] /\ free = {}
  /\ index = {} /\ heads = {}
  /\ request = [a \in Addresses |-> 0] /\ reachable = {} /\ marked = {}
  /\ pc = "program" /\ page = 0 /\ cursor = Null
-----------------------------------------------------------------------------
(***************************************************************************)
(* alloc                                                                   *)
(***************************************************************************)
\* Mutant: the header counts as room.
BestFitsWithHeader(n) ==
  {b \in index : size[b] + 1 >= n /\ \A c \in index : size[c] + 1 >= n => size[b] <= size[c]}

\* lowerBound of the tree: the smallest blocks that are large enough.
BestFits(n) == {b \in index : size[b] >= n /\ \A c \in index : size[c] >= n => size[b] <= size[c]}

Twins(b, indexed) == {c \in indexed : size[c] = size[b]}

\* The list behind the node of the next smaller size.
Carried(b, indexed) ==
  {c \in indexed \ heads : size[c] < size[b] /\ \A d \in indexed : size[d] < size[b] => size[d] <= size[c]}

\* The blocks that are astray when b leaves the others that are indexed, one set for each shape
\* the tree may have.  A node with a list only changes places with the next block of the list
\* and is then in the list itself.  A node without one is removed; if it has two children, it
\* changes places with the node of the next smaller size, whose list goes with it.  A block in
\* a list is unlinked from there.
Astray(b, indexed) ==
  CASE b \notin heads -> {{}}
    [] b \in heads /\ Twins(b, indexed) # {} -> {{b}}
    [] OTHER -> {{}} \cup (IF \E c \in indexed : size[c] > size[b] THEN {Carried(b, indexed)} ELSE {})

\* Mutant: the block is always split.
DoAllocationSplitting(b, n, sizes, previouses, indexed) ==
  LET rest == b + 1 + n IN
  /\ size' = [sizes EXCEPT ![b] = n, ![rest] = sizes[b] - n - 1]
  /\ previous' = [previouses EXCEPT ![rest] = b, ![b + 1 + sizes[b]] = rest]
  /\ free' = (free \ {b}) \cup {rest}
  /\ index' = indexed \cup {rest}
  /\ heads' = (heads \cap indexed)
              \cup (IF \A c \in indexed : sizes[c] # sizes[b] - n - 1 THEN {rest} ELSE {})
  /\ request' = [request EXCEPT ![b] = n]
  /\ reachable' = reachable \cup {b}

\* doAllocation in the block b with the given headers, and insert of the rest; the
\* program has the object at once.
DoAllocation(b, n, sizes, previouses, indexed) ==
  LET rest  == b + 1 + n
      split == sizes[b] > Limit + 1 + n
  IN  /\ size' = IF split THEN [sizes EXCEPT ![b] = n, ![rest] = sizes[b] - n - 1] ELSE sizes
      /\ previous' = IF split THEN [previouses EXCEPT ![rest] = b, ![b + 1 + sizes[b]] = rest]
                     ELSE previouses
      /\ free' = (free \ {b}) \cup (IF split THEN {rest} ELSE {})
      /\ index' = indexed \cup (IF split THEN {rest} ELSE {})
      /\ heads' = (heads \cap indexed)
                  \cup (IF split /\ \A c \in indexed : sizes[c] # sizes[b] - n - 1 THEN {rest} ELSE {})
      /\ request' = [request EXCEPT ![b] = n]
      /\ reachable' = reachable \cup {b}

\* lowerBound comes to the node of the size, and the next block of its list is taken first.
Alloc(n) ==
  /\ pc = "program"
  /\ \E b \in BestFits(n) : \E astray \in Astray(b, index \ {b}) :
       /\ b \in heads => BestFits(n) = {b}
       /\ DoAllocation(b, n, size, previous, index \ ({b} \cup astray))
       /\ pc' = IF astray = {} THEN pc ELSE "astray"
  /\ UNCHANGED <<mapping, marked, walk>>

\* pageAllocBytes rounds up to whole pages.
Mapped(n) == ((n + PageUnits - 1) \div PageUnits) * PageUnits

\* The two headers are no part of what is rounded up.
TooSmall(n) == Mapped(n) - 2 < n

\* A new page.  An object that is too large for it reaches over the header at its end.
NewPage(n) ==
  LET last == top + Mapped(n) - 1 IN
  /\ pc = "program" /\ BestFits(n) = {} /\ top + Mapped(n) <= MaxUnits
  /\ pages' = Append(pages, top) /\ top' = top + Mapped(n)
  /\ DoAllocation(top, n, [size EXCEPT ![top] = Mapped(n) - 2, ![last] = 0],
                          [previous EXCEPT ![top] = Null, ![last] = top], index)
  /\ pc' = IF TooSmall(n) THEN "overrun" ELSE pc
  /\ UNCHANGED <<marked, walk>>

\* The program loses references.
Drop ==
  /\ pc = "program"
  /\ \E o \in reachable : reachable' = reachable \ {o}
  /\ UNCHANGED <<mapping, headers, request, marked, pc, walk>>
-----------------------------------------------------------------------------
(***************************************************************************)
(* sweep, one block at a time, after the marking of a collection.          *)
(***************************************************************************)
StartWalk(state) ==
  /\ pc' = state
  /\ page' = 1 /\ cursor' = IF pages = <<>> THEN Null ELSE pages[1]

Collect ==
  /\ pc = "program"
  /\ StartWalk("sweep")
  /\ marked' = reachable
  /\ UNCHANGED <<mapping, headers, request, reachable>>

At(b) == cursor = b /\ b # Null /\ size[b] # 0

SkipFree(b) ==
  /\ pc \in {"sweep", "destroy"} /\ At(b) /\ b \in free
  /\ cursor' = Next(b)
  /\ UNCHANGED <<mapping, headers, request, reachable, marked, pc, page>>

\* Mutant: the mark bit is not cleared.
SweepLiveStillMarked(b) ==
  /\ pc = "sweep" /\ At(b) /\ b \notin free /\ b \in marked
  /\ cursor' = Next(b)
  /\ UNCHANGED <<mapping, headers, request, reachable, marked, pc, page>>

SweepLive(b) ==
  /\ pc = "sweep" /\ At(b) /\ b \notin free /\ b \in marked
  /\ marked' = marked \ {b}
  /\ cursor' = Next(b)
  /\ UNCHANGED <<mapping, headers, request, reachable, pc, page>>

\* Mutants of the following: marks are ignored, the right neighbour is not merged, and
\* the block after it does not learn of the merger.
AlwaysDead(b)  == TRUE
NeverRight(b)  == FALSE
NoTag(b, first) == previous

Dead(b)        == b \notin marked
FreeRight(b)   == Next(b) \in free
Tag(b, first)  == [previous EXCEPT ![b] = first]

\* free(): the block and its free neighbours become one.  The neighbours leave the index
\* first, the left one before the right one, and the whole block is inserted.  The walk goes on
\* from the header of the block, which is inside the whole block if there was one on the left.
SweepDead(b) ==
  LET left   == previous[b] # Null /\ previous[b] \in free
      right  == FreeRight(b)
      first  == IF left THEN previous[b] ELSE b
      after  == IF right THEN Next(Next(b)) ELSE Next(b)
      lefts  == IF left THEN {previous[b]} ELSE {}
      rights == IF right THEN {Next(b)} ELSE {}
      merged == lefts \cup rights
  IN  /\ pc = "sweep" /\ At(b) /\ b \notin free /\ Dead(b)
      /\ request' = [request EXCEPT ![b] = 0]
      /\ size' = [size EXCEPT ![first] = after - first - 1]
      /\ previous' = IF left \/ right THEN Tag(after, first) ELSE previous
      /\ free' = free \cup {first}
      /\ \E l \in (IF left THEN Astray(previous[b], index \ lefts) ELSE {{}}),
            r \in (IF right THEN Astray(Next(b), index \ merged) ELSE {{}}) :
           /\ index' = ((index \ merged) \ (l \cup r)) \cup (merged \cap (l \cup r)) \cup {first}
           /\ pc' = IF l \cup r = {} THEN pc ELSE "astray"
      /\ heads' = (heads \cap (index' \ {first}))
                  \cup (IF \A c \in index' \ {first} : size[c] # size'[first] THEN {first} ELSE {})
      /\ cursor' = b + 1 + size'[b]
      /\ UNCHANGED <<mapping, reachable, marked, page>>

NextPage ==
  /\ pc \in {"sweep", "destroy"} /\ page < Len(pages) /\ size[cursor] = 0
  /\ page' = page + 1 /\ cursor' = pages[page + 1]
  /\ UNCHANGED <<mapping, headers, request, reachable, marked, pc>>

\* Mutant: only the first page is walked over.
EndWalkEarly ==
  /\ cursor # Null => size[cursor] = 0
  /\ page' = 0 /\ cursor' = Null

EndWalk ==
  /\ page >= Len(pages) /\ (cursor # Null => size[cursor] = 0)
  /\ page' = 0 /\ cursor' = Null

\* The headers inside of blocks are not looked at any more.
EndSweep ==
  /\ pc = "sweep" /\ EndWalk
  /\ pc' = "program"
  /\ size' = [a \in Addresses |-> IF a \in Blocks THEN size[a] ELSE 0]
  /\ previous' = [a \in Addresses |-> IF a \in Blocks THEN previous[a] ELSE Null]
  /\ free' = free \cap Blocks
  /\ UNCHANGED <<mapping, index, heads, request, reachable, marked>>
-----------------------------------------------------------------------------
(***************************************************************************)
(* The destructor.                                                         *)
(***************************************************************************)
BeginDestroy ==
  /\ pc = "program"
  /\ StartWalk("destroy")
  /\ reachable' = {}
  /\ UNCHANGED <<mapping, headers, request, marked>>

DestroyBlock(b) ==
  /\ pc = "destroy" /\ At(b) /\ b \notin free
  /\ request' = [request EXCEPT ![b] = 0]
  /\ cursor' = Next(b)
  /\ UNCHANGED <<mapping, headers, reachable, marked, pc, page>>

EndDestroy ==
  /\ pc = "destroy" /\ EndWalk
  /\ pc' = "destroyed"
  /\ UNCHANGED <<mapping, headers, request, reachable, marked>>

Stopped == pc \in {"destroyed", "overrun", "astray"} /\ UNCHANGED vars
-----------------------------------------------------------------------------
Step == \/ \E n \in Requests : Alloc(n) \/ NewPage(n)
        \/ Drop \/ Collect \/ NextPage \/ EndSweep \/ BeginDestroy \/ EndDestroy \/ Stopped
        \/ \E b \in Addresses : SkipFree(b) \/ SweepLive(b) \/ SweepDead(b) \/ DestroyBlock(b)

Spec == Init /\ [][Step]_vars
-----------------------------------------------------------------------------
TypeOK ==
  /\ pages \in Seq(Addresses) /\ top \in 0 .. MaxUnits
  /\ size \in [Addresses -> Nat] /\ previous \in [Addresses -> Addresses \cup {Null}]
  /\ free \subseteq Addresses /\ index \subseteq Addresses /\ heads \subseteq Addresses
  /\ request \in [Addresses -> Requests \cup {0}]
  /\ reachable \subseteq Addresses /\ marked \subseteq Addresses
  /\ pc \in {"program", "sweep", "destroy", "destroyed", "overrun", "astray"}
  /\ page \in Nat /\ cursor \in Addresses \cup {Null}

\* Whatever has been split and merged, the blocks of a page follow each other up to
\* its last unit, and every header knows the block before it: coalescing to the
\* left and the walks over a page find the headers where they are.
BlocksTile ==
  /\ \A i \in DOMAIN pages :
       (IF i = Len(pages) THEN top ELSE pages[i + 1]) - 1 \in Chain[pages[i]]
  /\ \A b \in Blocks : size[b] # 0 => previous[Next(b)] = b
  /\ \A i \in DOMAIN pages : previous[pages[i]] = Null

\* Until unlinkBlock or remove leaves a block astray for the first time, the tree leads to
\* exactly the free blocks, each large enough for its node, with one node for each size; and
\* between operations no two free blocks are neighbours: nothing remains in pieces that could
\* be handed out in one.
FreeBlocksIndexed ==
  pc # "astray" =>
    /\ index = free \cap Blocks
    /\ \A b \in index : size[b] > Limit
    /\ \A b \in index : Next(b) \notin index
    /\ heads \subseteq index
    /\ \A b \in index : \E c \in heads : Twins(b, heads) = {c}

\* The last page was made for the object, and its two headers have left too little of it.
Overruns(o) == pc = "overrun" /\ o = pages[Len(pages)] /\ TooSmall(request[o])

\* Every object lives in an allocated block of its own, and the block has room for it, but
\* for one: an object that fills the pages made for it to within two headers reaches over the
\* end.  It is the last one that is allocated here.
ObjectsHaveRoom ==
  \A o \in Objects : o \in Blocks \ free /\ (size[o] >= request[o] \/ Overruns(o))

\* A collection leaves the reachable objects, unmarked, although the walk passes
\* over headers that have been merged into larger blocks.
CollectionIsComplete ==
  [][pc = "sweep" /\ pc' = "program" => Objects = reachable /\ marked = {}]_vars

\* The destructor leaves no object undestroyed.
NothingLeftUndestroyed == pc = "destroyed" => Objects = {}

Pool == INSTANCE CellPool WITH
  objects <- Objects,
  alive   <- pc \notin {"destroy", "destroyed"}

\* An address that is handed out holds no object, and only unreachable objects are freed.  The
\* last step is the one that leaves a block astray: it could be taken in two ways later.
ImplementsPool == Pool!Spec
=============================================================================
