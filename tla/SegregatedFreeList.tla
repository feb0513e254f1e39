------------------------- MODULE SegregatedFreeList -------------------------
(***************************************************************************)
(* SegregatedFreeList: cells of one size class on pages that are never     *)
(* given back, with the free cells linked through their first word.        *)
(* sweep() and the destructor walk over every cell of every page, and they *)
(* tell a free cell from an object only by comparing it with the head of   *)
(* the free list: the list must run in the order of that walk.             *)
(*                                                                         *)
(* Cells are numbered in the order of the walk.  The loops take one step   *)
(* per cell.  Marking belongs to MarkAndSweep; here it marks exactly the   *)
(* objects that the program can reach.                                     *)
(***************************************************************************)
EXTENDS Integers

CONSTANTS PageCells,  \* cells on a page
          MaxPages,   \* bound: pages the operating system provides
          Null, Type  \* the null pointer; a pointer to an object's type

ASSUME SizesAssumption == PageCells \in Nat \ {0} /\ MaxPages \in Nat
ASSUME WordsAssumption == Null \notin Nat /\ Type \notin Nat /\ Null # Type

VARIABLES
  pages,      \* m_pages.size()
  head,       \* m_head
  word,       \* the first word of every cell: a type pointer or the next free cell
  marked,     \* the cells whose first word has the mark bit set
  objects,    \* the cells that hold an object
  reachable,  \* the objects that the program can reach
  pc,         \* "program", "sweep", "refill", "destroyFull", "destroyRest" or "destroyed"
  pending,    \* the sweep runs inside nextCell
  cursor,     \* the loops' begin
  newHead, lastFree

vars == <<pages, head, word, marked, objects, reachable, pc, pending, cursor, newHead, lastFree>>
program == <<objects, reachable>>
loop == <<pending, cursor, newHead, lastFree>>

AllCells == 0 .. PageCells * MaxPages - 1
Cells    == 0 .. PageCells * pages - 1
Free     == Cells \ objects

Init ==
  /\ pages = 0 /\ head = Null
  /\ word = [c \in AllCells |-> Null]
  /\ marked = {} /\ objects = {} /\ reachable = {}
  /\ pc = "program" /\ pending = FALSE /\ cursor = 0 /\ newHead = Null /\ lastFree = Null
-----------------------------------------------------------------------------
\* The program gets the cell and stores the type of the new object in it.
HandOut(cell) ==
  /\ objects' = objects \cup {cell}
  /\ reachable' = reachable \cup {cell}
  /\ pc' = "program"

\* nextCell with a free cell at hand, at once or after the collection.
Pop ==
  /\ pc \in {"program", "refill"} /\ head # Null
  /\ HandOut(head)
  /\ head' = word[head]
  /\ word' = [word EXCEPT ![head] = Type]
  /\ UNCHANGED <<pages, marked, loop>>

\* newPage links the cells of a zeroed page; nextCell takes the first of them.
Linked(first) == [c \in first .. first + PageCells - 1 |->
                    IF c = first + PageCells - 1 THEN Null ELSE c + 1]

\* Mutant: the page is linked from its last cell to its first.
GrowBackwards ==
  LET first == PageCells * pages
      last  == first + PageCells - 1
  IN  /\ head = Null /\ (pc = "refill" \/ (pc = "program" /\ pages = 0))
      /\ pages < MaxPages /\ pages' = pages + 1
      /\ HandOut(first)
      /\ head' = IF last = first THEN Null ELSE last
      /\ word' = [c \in AllCells |-> IF c = first THEN Type
                                     ELSE IF c \in first + 2 .. last THEN c - 1 ELSE word[c]]
      /\ UNCHANGED <<marked, loop>>

\* nextCell adds a page if there is none, or if the collection has freed no cell.
Grow ==
  LET first == PageCells * pages IN
  /\ head = Null /\ (pc = "refill" \/ (pc = "program" /\ pages = 0))
  /\ pages < MaxPages /\ pages' = pages + 1
  /\ HandOut(first)
  /\ head' = Linked(first)[first]
  /\ word' = [c \in AllCells |-> IF c = first THEN Type
                                 ELSE IF c \in DOMAIN Linked(first) THEN Linked(first)[c]
                                 ELSE word[c]]
  /\ UNCHANGED <<marked, loop>>

\* gc.collect(): called by nextCell when there is no free cell left, or by the
\* nextCell of another size class at any time.  Every object is marked or swept.
Collect(forCell) ==
  /\ pc = "program"
  /\ forCell => head = Null /\ pages # 0
  /\ marked' = reachable
  /\ pc' = "sweep" /\ pending' = forCell
  /\ cursor' = 0 /\ newHead' = Null /\ lastFree' = Null
  /\ UNCHANGED <<pages, head, word, program>>

\* The program drops references.
Drop ==
  /\ pc = "program"
  /\ \E kept \in SUBSET reachable : kept # reachable /\ reachable' = kept
  /\ UNCHANGED <<pages, head, word, marked, objects, pc, loop>>
-----------------------------------------------------------------------------
(***************************************************************************)
(* sweep()                                                                 *)
(***************************************************************************)
Sweeping == pc = "sweep" /\ cursor < PageCells * pages

\* Mutant: the list that is being built skips the cells that were free already.
SweepFreeUnlinked ==
  /\ Sweeping /\ cursor = head
  /\ head' = word[head]
  /\ cursor' = cursor + 1
  /\ UNCHANGED <<pages, word, marked, program, pc, pending, newHead, lastFree>>

SweepFree ==
  /\ Sweeping /\ cursor = head
  /\ IF lastFree = Null
     THEN newHead' = cursor /\ UNCHANGED word
     ELSE word' = [word EXCEPT ![lastFree] = cursor] /\ UNCHANGED newHead
  /\ lastFree' = cursor
  /\ head' = word[head]
  /\ cursor' = cursor + 1
  /\ UNCHANGED <<pages, marked, program, pc, pending>>

\* Mutant: the mark survives the sweep.
SweepLiveStillMarked ==
  /\ Sweeping /\ cursor # head /\ cursor \in marked
  /\ cursor' = cursor + 1
  /\ UNCHANGED <<pages, head, word, marked, program, pc, pending, newHead, lastFree>>

SweepLive ==
  /\ Sweeping /\ cursor # head /\ cursor \in marked
  /\ marked' = marked \ {cursor}
  /\ cursor' = cursor + 1
  /\ UNCHANGED <<pages, head, word, program, pc, pending, newHead, lastFree>>

\* Mutant: the cell at the cursor is destroyed before the mark is looked at.
SweepAny ==
  /\ Sweeping /\ cursor # head
  /\ objects' = objects \ {cursor}
  /\ IF newHead = Null
     THEN newHead' = cursor /\ UNCHANGED word
     ELSE word' = [word EXCEPT ![lastFree] = cursor] /\ UNCHANGED newHead
  /\ lastFree' = cursor
  /\ cursor' = cursor + 1
  /\ UNCHANGED <<pages, head, marked, reachable, pc, pending>>

SweepDead ==
  /\ Sweeping /\ cursor # head /\ cursor \notin marked
  /\ objects' = objects \ {cursor}
  /\ IF newHead = Null
     THEN newHead' = cursor /\ UNCHANGED word
     ELSE word' = [word EXCEPT ![lastFree] = cursor] /\ UNCHANGED newHead
  /\ lastFree' = cursor
  /\ cursor' = cursor + 1
  /\ UNCHANGED <<pages, head, marked, reachable, pc, pending>>

\* Mutant: the last free cell keeps the word it had.
EndSweepUnterminated ==
  /\ pc = "sweep" /\ cursor = PageCells * pages
  /\ head' = newHead
  /\ pc' = IF pending THEN "refill" ELSE "program"
  /\ UNCHANGED <<pages, word, marked, program, loop>>

EndSweep ==
  /\ pc = "sweep" /\ cursor = PageCells * pages
  /\ word' = IF lastFree = Null THEN word ELSE [word EXCEPT ![lastFree] = Null]
  /\ head' = newHead
  /\ pc' = IF pending THEN "refill" ELSE "program"
  /\ UNCHANGED <<pages, marked, program, loop>>
-----------------------------------------------------------------------------
(***************************************************************************)
(* The destructor, at the end of the program: pages before the one that    *)
(* the head lies on are taken to be full.                                  *)
(***************************************************************************)
BeginDestroy ==
  /\ pc = "program"
  /\ pc' = "destroyFull" /\ cursor' = 0 /\ reachable' = {}
  /\ UNCHANGED <<pages, head, word, marked, objects, pending, newHead, lastFree>>

\* The loop begins a page, and the head is one of its cells.
HeadOnPage == \E page \in 0 .. pages - 1 :
  cursor = PageCells * page /\ head # Null /\ head \in cursor .. cursor + PageCells - 1

DestroyCell ==
  /\ objects' = objects \ {cursor}
  /\ cursor' = cursor + 1
  /\ UNCHANGED <<pages, head, word, marked, reachable, pc, pending, newHead, lastFree>>

\* Mutant: the page that the head lies on is skipped.
FindHeadSkippingPage ==
  /\ pc = "destroyFull" /\ cursor < PageCells * pages /\ HeadOnPage
  /\ pc' = "destroyRest"
  /\ cursor' = cursor + PageCells
  /\ UNCHANGED <<pages, head, word, marked, program, pending, newHead, lastFree>>

FindHead ==
  /\ pc = "destroyFull" /\ cursor < PageCells * pages /\ HeadOnPage
  /\ pc' = "destroyRest"
  /\ UNCHANGED <<pages, head, word, marked, program, loop>>

DestroyFull == pc = "destroyFull" /\ cursor < PageCells * pages /\ ~HeadOnPage /\ DestroyCell

SkipFree ==
  /\ pc = "destroyRest" /\ cursor < PageCells * pages /\ cursor = head
  /\ head' = word[head]
  /\ cursor' = cursor + 1
  /\ UNCHANGED <<pages, word, marked, program, pc, pending, newHead, lastFree>>

DestroyRest == pc = "destroyRest" /\ cursor < PageCells * pages /\ cursor # head /\ DestroyCell

EndDestroy ==
  /\ pc \in {"destroyFull", "destroyRest"} /\ cursor = PageCells * pages
  /\ pc' = "destroyed"
  /\ UNCHANGED <<pages, head, word, marked, program, loop>>

\* The program has ended, or the bound on pages keeps nextCell from returning.
Halted ==
  /\ pc = "destroyed" \/ (pc = "refill" /\ head = Null /\ pages = MaxPages)
  /\ UNCHANGED vars
-----------------------------------------------------------------------------
Next == \/ Pop \/ Grow \/ Drop \/ \E forCell \in BOOLEAN : Collect(forCell)
        \/ SweepFree \/ SweepLive \/ SweepDead \/ EndSweep
        \/ BeginDestroy \/ FindHead \/ DestroyFull \/ SkipFree \/ DestroyRest \/ EndDestroy
        \/ Halted

Spec == Init /\ [][Next]_vars
-----------------------------------------------------------------------------
Pointers == AllCells \cup {Null}

TypeOK ==
  /\ pages \in 0 .. MaxPages
  /\ head \in Pointers /\ newHead \in Pointers /\ lastFree \in Pointers
  /\ word \in [AllCells -> Pointers \cup {Type}]
  /\ marked \subseteq objects /\ reachable \subseteq objects /\ objects \subseteq Cells
  /\ pc \in {"program", "sweep", "refill", "destroyFull", "destroyRest", "destroyed"}
  /\ pending \in BOOLEAN
  /\ cursor \in 0 .. PageCells * pages

\* n points to the first member of S beyond c.
Follows(S, c, n) ==
  \/ n = Null /\ \A x \in S : x <= c
  \/ n \in S /\ n > c /\ \A x \in S : x > c => n <= x

\* Between two operations the list links exactly the free cells, none of them
\* lost and none twice, in the order in which sweep() will meet them.
FreeListInOrder ==
  pc \in {"program", "refill"} =>
    Follows(Free, -1, head) /\ \A c \in Free : Follows(Free, c, word[c])

\* sweep() and the destructor call destroyPyObject on objects only, never on a
\* free cell, whose first word is no type.
OnlyObjectsDestroyed ==
  cursor < PageCells * pages /\ cursor # head =>
    \/ pc = "sweep" /\ (cursor \in marked \/ cursor \in objects)
    \/ pc = "destroyFull" /\ (HeadOnPage \/ cursor \in objects)
    \/ pc = "destroyRest" /\ cursor \in objects
    \/ pc \in {"program", "refill", "destroyed"}

\* After a collection nothing is marked and what is left is reachable.
CollectionIsComplete ==
  /\ pc = "refill" => objects = reachable
  /\ pc \in {"program", "refill"} => marked = {}

\* The heap grows only when every cell holds an object that can be reached.
GrowsOnlyWhenFull ==
  [][pages' # pages => Cells \subseteq reachable]_vars

\* Every object is destroyed when the program ends.
NothingLeftUndestroyed == pc = "destroyed" => objects = {}

Pool == INSTANCE CellPool WITH alive <- pc \notin {"destroyFull", "destroyRest", "destroyed"}

\* nextCell never returns a cell that holds an object, and a collection destroys
\* no object that the program can reach.
ImplementsPool == Pool!Spec
=============================================================================
