---------------------- MODULE SegregatedFreeListProofs ----------------------
(***************************************************************************)
(* Proofs about SegregatedFreeList for every page size and every number of *)
(* pages: the free list always runs in the order of the sweep, and hence   *)
(* the allocator implements CellPool.                                      *)
(***************************************************************************)
EXTENDS SegregatedFreeList, TLAPS

\* The provers for a step that names none, in turn: most need less than a second, and
\* a search that went astray is begun again.
USE SMT, Zenon, SMTT(20), SMTT(60), ZenonT(60), Z3T(60)

\* Outside a sweep nothing is marked; within one, what lies ahead is marked if it is reachable.
Marks ==
  /\ pc # "sweep" => marked = {}
  /\ pc = "sweep" => /\ marked = {c \in reachable : c >= cursor}
                     /\ \A c \in objects : c < cursor => c \in reachable
  /\ pc = "refill" => objects = reachable

\* While sweep() runs, the old list begins at the cursor or beyond it, and the new
\* one ends at the last free cell before the cursor.
SweepList ==
  pc = "sweep" =>
    /\ Follows(Free, cursor - 1, head)
    /\ \A c \in Free : c # lastFree => Follows(Free, c, word[c])
    /\ newHead = Null <=> lastFree = Null
    /\ lastFree = Null => \A c \in Free : c >= cursor
    /\ lastFree # Null => /\ lastFree \in Free /\ lastFree < cursor
                          /\ \A c \in Free : c <= lastFree \/ c >= cursor
                          /\ Follows(Free, -1, newHead)

\* The destructor has emptied the cells before the cursor.
DestroyList ==
  /\ pc \in {"destroyFull", "destroyRest"} =>
       /\ \A c \in objects : c >= cursor
       /\ \A c \in Free : c >= cursor => Follows(Free, c, word[c])
  /\ pc \in {"destroyFull", "destroyRest", "destroyed"} => reachable = {}
  /\ pc = "destroyFull" =>
       /\ head = Null \/ (head \in Free /\ head >= cursor)
       /\ \A c \in Free : c < cursor \/ (head # Null /\ c >= head)
       /\ \E page \in 0 .. pages :
            /\ PageCells * page <= cursor /\ cursor <= PageCells * (page + 1)
            /\ cursor > PageCells * page => head = Null \/ head >= PageCells * (page + 1)
  /\ pc = "destroyRest" => Follows(Free, cursor - 1, head)
  /\ pc = "destroyed" => objects = {}

IInv == TypeOK /\ FreeListInOrder /\ Marks /\ SweepList /\ DestroyList
-----------------------------------------------------------------------------
\* The arithmetic of pages, which the steps below use in this form only.
LEMMA PageArithmetic ==
  ASSUME NEW p \in Nat
  PROVE  /\ PageCells * p \in Nat
         /\ PageCells * (p + 1) = PageCells * p + PageCells
         /\ p < MaxPages => PageCells * (p + 1) <= PageCells * MaxPages
         /\ p <= MaxPages => PageCells * p <= PageCells * MaxPages
  <1>1. PageCells \in Nat /\ PageCells > 0 /\ MaxPages \in Nat
    BY SizesAssumption
  <1>2. PageCells * p \in Nat /\ PageCells * (p + 1) = PageCells * p + PageCells
    BY <1>1
  <1>3. ASSUME p <= MaxPages
        PROVE  PageCells * p <= PageCells * MaxPages
    BY <1>1, <1>3
  <1>4. ASSUME p < MaxPages
        PROVE  PageCells * (p + 1) <= PageCells * MaxPages
    BY <1>1, <1>4
  <1>5. QED
    BY <1>2, <1>3, <1>4

LEMMA InvInit == Init => IInv
  <1> SUFFICES ASSUME Init
               PROVE  IInv
    OBVIOUS
  <1>1. Cells = {} /\ Free = {}
    BY SizesAssumption DEF Init, Cells, Free
  <1>2. TypeOK
    <2>1. pages \in 0 .. MaxPages /\ cursor \in 0 .. PageCells * pages
      BY SizesAssumption DEF Init
    <2>2. pending \in BOOLEAN
      BY ZenonT(60) DEF Init
    <2>3. QED
      BY <1>1, <2>1, <2>2 DEF Init, TypeOK, Pointers
  <1>3. FreeListInOrder
    BY <1>1 DEF Init, FreeListInOrder, Follows
  <1>4. QED
    BY <1>2, <1>3 DEF IInv, Init, Marks, SweepList, DestroyList

\* What every step may use: cells are numbers, and Null is none.
LEMMA CellFacts ==
  ASSUME TypeOK
  PROVE  /\ Cells \subseteq AllCells /\ AllCells \subseteq Nat /\ Null \notin AllCells
         /\ Type \notin AllCells /\ cursor \in Nat /\ Null \notin Nat /\ Free \subseteq Nat
         /\ \A c \in Nat : c \in Cells <=> c < PageCells * pages
         /\ PageCells * pages \in Nat
         /\ Free \subseteq Cells /\ \A c \in Cells : c \in objects \/ c \in Free
  <1>1. /\ PageCells * pages \in Nat /\ PageCells * MaxPages \in Nat
        /\ PageCells * pages <= PageCells * MaxPages
    BY PageArithmetic, SizesAssumption DEF TypeOK
  <1>2. QED
    BY <1>1, WordsAssumption DEF TypeOK, Cells, AllCells, Free
-----------------------------------------------------------------------------
LEMMA PopStep == IInv /\ Pop => IInv'
  <1> SUFFICES ASSUME IInv, Pop
               PROVE  IInv'
    OBVIOUS
  <1>1. TypeOK /\ FreeListInOrder /\ Marks
    BY DEF IInv
  <1>2. head \in Free /\ head \in Cells /\ Follows(Free, -1, head)
        /\ \A c \in Free : Follows(Free, c, word[c])
    BY <1>1 DEF Pop, FreeListInOrder, Follows, Free
  <1>3. Cells' = Cells /\ Free' = Free \ {head}
    BY DEF Pop, HandOut, Cells, Free
  <1>4. TypeOK'
    <2>1. word[head] \in Pointers
      BY <1>1, <1>2, CellFacts DEF Follows, Pointers
    <2>2. word' \in [AllCells -> Pointers \cup {Type}]
      BY <1>1 DEF TypeOK, Pop
    <2>3. QED
      BY <1>1, <1>2, <1>3, <2>1, <2>2 DEF TypeOK, Pop, HandOut, loop
  <1>5. FreeListInOrder'
    <2>1. Follows(Free', -1, head')
      BY <1>1, <1>2, <1>3, CellFacts DEF Follows, Pop
    <2>2. \A c \in Free' : word'[c] = word[c] /\ c > head
      BY <1>1, <1>2, <1>3, CellFacts DEF Follows, Pop, TypeOK
    <2>3. \A c \in Free' : Follows(Free', c, word'[c])
      BY <1>1, <1>2, <1>3, <2>2, CellFacts DEF Follows
    <2>4. QED
      BY <2>1, <2>3 DEF FreeListInOrder
  <1>6. Marks' /\ SweepList' /\ DestroyList'
    BY <1>1 DEF Marks, SweepList, DestroyList, Pop, HandOut
  <1>7. QED
    BY <1>4, <1>5, <1>6 DEF IInv

LEMMA GrowStep == IInv /\ Grow => IInv'
  <1> SUFFICES ASSUME IInv, Grow
               PROVE  IInv'
    OBVIOUS
  <1> DEFINE first == PageCells * pages
             next  == first + PageCells
  <1>1. TypeOK /\ FreeListInOrder /\ Marks
    BY DEF IInv
  <1>2. /\ first \in Nat /\ PageCells \in Nat /\ PageCells > 0 /\ first < next
        /\ PageCells * pages' = next /\ next <= PageCells * MaxPages /\ PageCells * MaxPages \in Nat
    BY <1>1, PageArithmetic, SizesAssumption DEF TypeOK, Grow
  <1>3. Free = {}
    BY <1>1, CellFacts DEF Grow, FreeListInOrder, Follows
  <1>4. /\ objects' = objects \cup {first} /\ reachable' = reachable \cup {first}
        /\ Cells = 0 .. first - 1 /\ Cells' = 0 .. next - 1
        /\ objects \subseteq Cells /\ Cells \subseteq objects
    BY <1>1, <1>2, <1>3 DEF Grow, HandOut, Cells, Free, TypeOK
  <1> HIDE DEF first, next
  <1>5. Free' = first + 1 .. next - 1
    BY <1>2, <1>4 DEF Free
  <1>6. /\ \A c \in first + 1 .. next - 1 : word'[c] = IF c = next - 1 THEN Null ELSE c + 1
        /\ head' = IF first = next - 1 THEN Null ELSE first + 1
        /\ word' \in [AllCells -> Pointers \cup {Type}]
    <2>1. \A c \in first .. next - 1 : c \in AllCells
      <3>1. AllCells = 0 .. PageCells * MaxPages - 1 /\ next \in Nat
        BY <1>2 DEF AllCells, next
      <3>2. \A c \in first .. next - 1 : c \in Nat /\ c < PageCells * MaxPages
        BY <1>2, <3>1
      <3>3. QED
        BY <1>2, <3>1, <3>2
    <2>2. DOMAIN Linked(first) = first .. next - 1
      BY <1>2 DEF Linked, next, first
    <2>3. \A c \in first .. next - 1 : Linked(first)[c] = IF c = next - 1 THEN Null ELSE c + 1
      BY <1>2 DEF Linked, next
    <2>4. /\ word' = [c \in AllCells |-> IF c = first THEN Type
                                         ELSE IF c \in DOMAIN Linked(first) THEN Linked(first)[c]
                                         ELSE word[c]]
          /\ head' = Linked(first)[first]
      BY DEF Grow, first
    <2>5. \A c \in first .. next - 1 : Linked(first)[c] \in Pointers
      <3>1. \A c \in first .. next - 1 : c = next - 1 \/ c + 1 \in first .. next - 1
        BY <1>2 DEF next
      <3>2. QED
        BY <2>1, <2>3, <3>1 DEF Pointers
    <2>6. word' \in [AllCells -> Pointers \cup {Type}]
      BY <1>1, <2>2, <2>4, <2>5 DEF TypeOK
    <2>7. \A c \in first + 1 .. next - 1 : word'[c] = Linked(first)[c]
      BY <1>2, <2>1, <2>2, <2>4
    <2>8. first \in first .. next - 1 /\ \A c \in first + 1 .. next - 1 : c \in first .. next - 1
      BY <1>2 DEF next
    <2>9. QED
      BY <2>3, <2>4, <2>6, <2>7, <2>8
  <1>7. TypeOK'
    <2>1. head' \in Pointers
      <3>1. first = next - 1 \/ (first + 1 \in 0 .. PageCells * MaxPages - 1)
        BY <1>2 DEF next
      <3>2. QED
        BY <1>6, <3>1 DEF Pointers, AllCells
    <2>2. pages' \in 0 .. MaxPages
      BY <1>1, SizesAssumption DEF TypeOK, Grow
    <2>3. cursor' \in 0 .. PageCells * pages'
      BY <1>1, <1>2 DEF TypeOK, Grow, loop, first
    <2>4. objects' \subseteq Cells' /\ reachable' \subseteq objects' /\ marked' \subseteq objects'
      BY <1>1, <1>2, <1>4 DEF TypeOK, Grow
    <2>5. UNCHANGED <<pending, newHead, lastFree>> /\ pc' = "program"
      BY DEF Grow, HandOut, loop
    <2>6. QED
      BY <1>1, <1>6, <2>1, <2>2, <2>3, <2>4, <2>5 DEF TypeOK, Pointers
  <1>8. FreeListInOrder'
    <2>1. \A c \in first + 1 .. next - 1 : /\ c \in Nat /\ c > first /\ c > -1 /\ c <= next - 1
                                           /\ c # next - 1 => c + 1 \in first + 1 .. next - 1
      BY <1>2 DEF next
    <2>2. Follows(Free', -1, head')
      <3>1. CASE first = next - 1
        BY <1>2, <1>5, <1>6, <2>1, <3>1 DEF Follows
      <3>2. CASE first # next - 1
        <4>1. first + 1 \in first + 1 .. next - 1 /\ first + 1 > -1
          BY <1>2, <3>2 DEF next
        <4>2. \A c \in first + 1 .. next - 1 : first + 1 <= c
          BY <1>2
        <4>3. QED
          BY <1>5, <1>6, <3>2, <4>1, <4>2 DEF Follows
      <3>3. QED
        BY <3>1, <3>2
    <2>3. ASSUME NEW c \in Free'
          PROVE  Follows(Free', c, word'[c])
      <3>1. CASE c = next - 1
        BY <1>5, <1>6, <2>1, <3>1 DEF Follows
      <3>2. CASE c # next - 1
        <4>1. c + 1 \in Free' /\ c + 1 > c /\ word'[c] = c + 1
          BY <1>5, <1>6, <2>1, <2>3, <3>2
        <4>2. \A x \in Free' : x > c => c + 1 <= x
          BY <1>5, <2>1, <2>3
        <4>3. QED
          BY <4>1, <4>2 DEF Follows
      <3>3. QED
        BY <3>1, <3>2
    <2>4. QED
      BY <2>2, <2>3 DEF FreeListInOrder
  <1>9. Marks' /\ SweepList' /\ DestroyList'
    BY <1>1 DEF Marks, SweepList, DestroyList, Grow, HandOut
  <1>10. QED
    BY <1>7, <1>8, <1>9 DEF IInv

LEMMA CollectStep ==
  ASSUME IInv, NEW forCell \in BOOLEAN, Collect(forCell)
  PROVE  IInv'
  <1>1. TypeOK /\ FreeListInOrder
    BY DEF IInv
  <1>2. Cells' = Cells /\ Free' = Free
    BY DEF Collect, Cells, Free, program
  <1>3. TypeOK'
    <2>1. pending' \in BOOLEAN
      BY ZenonT(60) DEF Collect
    <2>2. 0 \in 0 .. PageCells * pages
      BY <1>1, CellFacts
    <2>3. QED
      BY <1>1, <1>2, <2>1, <2>2 DEF TypeOK, Collect, program, Pointers
  <1>4. SweepList'
    <2>1. Follows(Free, -1, head) /\ \A c \in Free : Follows(Free, c, word[c]) /\ c >= 0
      BY <1>1, CellFacts DEF FreeListInOrder, Collect
    <2>2. QED
      BY <1>2, <2>1 DEF SweepList, Collect
  <1>5. Marks' /\ DestroyList' /\ FreeListInOrder'
    BY <1>1, CellFacts DEF Marks, DestroyList, FreeListInOrder, Collect, program, TypeOK
  <1>6. QED
    BY <1>3, <1>4, <1>5 DEF IInv

LEMMA DropStep == IInv /\ Drop => IInv'
  <1> SUFFICES ASSUME IInv, Drop
               PROVE  IInv'
    OBVIOUS
  <1>1. Cells' = Cells /\ Free' = Free
    BY DEF Drop, Cells, Free
  <1>2. QED
    BY <1>1 DEF IInv, TypeOK, FreeListInOrder, Marks, SweepList, DestroyList, Drop, loop
-----------------------------------------------------------------------------
\* What sweep() knows at a cell.
LEMMA SweepFacts ==
  ASSUME IInv, Sweeping
  PROVE  /\ cursor \in Cells /\ cursor \in Nat /\ Free \subseteq Nat /\ Null \notin Nat
         /\ cursor + 1 \in 0 .. PageCells * pages /\ cursor + 1 - 1 = cursor
         /\ Follows(Free, cursor - 1, head)
         /\ \A c \in Free : c # lastFree => Follows(Free, c, word[c])
         /\ newHead = Null <=> lastFree = Null
         /\ lastFree = Null => \A c \in Free : c >= cursor
         /\ lastFree # Null => /\ lastFree \in Free /\ lastFree < cursor
                               /\ \A c \in Free : c <= lastFree \/ c >= cursor
                               /\ Follows(Free, -1, newHead)
         /\ \A c \in Cells : /\ c # cursor => (c >= cursor <=> c >= cursor + 1)
                             /\ c < cursor + 1 <=> (c < cursor \/ c = cursor)
         /\ marked = {c \in reachable : c >= cursor}
         /\ \A c \in objects : c < cursor => c \in reachable
  <1>1. TypeOK /\ SweepList /\ Marks /\ pc = "sweep" /\ cursor < PageCells * pages
    BY DEF IInv, Sweeping
  <1>2. cursor \in Cells /\ cursor \in Nat /\ Free \subseteq Nat /\ Null \notin Nat /\ Cells \subseteq Nat
        /\ PageCells * pages \in Nat
    BY <1>1, CellFacts
  <1>3. cursor + 1 \in 0 .. PageCells * pages /\ cursor + 1 - 1 = cursor
    BY <1>1, <1>2
  <1>4. \A c \in Cells : /\ c # cursor => (c >= cursor <=> c >= cursor + 1)
                         /\ c < cursor + 1 <=> (c < cursor \/ c = cursor)
    BY <1>2
  <1>5. QED
    BY <1>1, <1>2, <1>3, <1>4 DEF SweepList, Marks

LEMMA SweepFreeStep == IInv /\ SweepFree => IInv'
  <1> SUFFICES ASSUME IInv, SweepFree
               PROVE  IInv'
    OBVIOUS
  <1>0. Sweeping /\ TypeOK
    BY DEF IInv, SweepFree
  <1>1. cursor = head /\ pc = "sweep"
    BY DEF SweepFree, Sweeping
  <1>2. Cells' = Cells /\ Free' = Free /\ objects' = objects
    BY DEF SweepFree, Cells, Free, program
  <1>3. head \in Free /\ cursor \in Cells /\ cursor \in Nat
    BY <1>0, <1>1, SweepFacts DEF Follows
  <1>4. Follows(Free, cursor, word[cursor])
    BY <1>0, <1>1, <1>3, SweepFacts
  <1>5. word[cursor] \in Pointers
    BY <1>0, <1>4, CellFacts DEF Follows, Pointers
  <1>6. /\ cursor' = cursor + 1 /\ lastFree' = cursor /\ head' = word[cursor] /\ pc' = "sweep"
        /\ UNCHANGED <<pages, marked, objects, reachable, pending>>
        /\ IF lastFree = Null THEN newHead' = cursor /\ word' = word
           ELSE word' = [word EXCEPT ![lastFree] = cursor] /\ newHead' = newHead
    BY <1>1 DEF SweepFree, program
  <1>7. TypeOK'
    <2>1. cursor \in AllCells
      BY <1>0, <1>3, CellFacts
    <2>2. newHead' \in Pointers /\ lastFree' \in Pointers
      BY <1>0, <1>6, <2>1 DEF TypeOK, Pointers
    <2>3. word' \in [AllCells -> Pointers \cup {Type}]
      BY <1>0, <1>6, <2>1 DEF TypeOK, Pointers
    <2>4. cursor' \in 0 .. PageCells * pages
      BY <1>0, <1>6, SweepFacts
    <2>5. QED
      BY <1>0, <1>2, <1>5, <1>6, <2>2, <2>3, <2>4 DEF TypeOK
  <1>8. SweepList'
    <2>1. \A c \in Free : c # cursor => Follows(Free, c, word'[c])
      <3>1. CASE lastFree = Null
        BY <1>0, <1>6, <3>1, SweepFacts
      <3>2. CASE lastFree # Null
        <4>1. lastFree \in Free /\ lastFree < cursor /\ \A c \in Free : c <= lastFree \/ c >= cursor
          BY <1>0, <3>2, SweepFacts
        <4>2. \A c \in Free : c > lastFree => cursor <= c
          BY <1>0, <1>3, <4>1, CellFacts
        <4>3. Follows(Free, lastFree, cursor)
          BY <1>0, <1>1, <1>3, <4>1, <4>2, CellFacts DEF Follows
        <4>4. word'[lastFree] = cursor /\ \A c \in Free : c # lastFree => word'[c] = word[c]
          BY <1>0, <1>6, <3>2, <4>1, CellFacts DEF TypeOK
        <4>5. QED
          BY <1>0, <4>3, <4>4, SweepFacts
      <3>3. QED
        BY <3>1, <3>2
    <2>2. cursor # Null /\ newHead' # Null
      BY <1>0, <1>6, SweepFacts
    <2>3. \A c \in Free : c <= cursor \/ c >= cursor + 1
      BY <1>3, <1>0, CellFacts
    <2>4. Follows(Free, -1, newHead')
      <3>1. CASE lastFree = Null
        <4>1. newHead' = cursor /\ \A c \in Free : c >= cursor
          BY <1>0, <1>6, <3>1, SweepFacts
        <4>2. QED
          BY <1>0, <1>1, <1>3, <4>1, CellFacts DEF Follows
      <3>2. CASE lastFree # Null
        BY <1>0, <1>6, <3>2, SweepFacts
      <3>3. QED
        BY <3>1, <3>2
    <2>5. cursor < cursor + 1 /\ cursor \in Free
      BY <1>1, <1>3
    <2>6. QED
      <3>1. Follows(Free', cursor' - 1, head')
        <4>1. cursor' - 1 = cursor
          BY <1>0, <1>6, SweepFacts
        <4>2. QED
          BY <1>2, <1>4, <1>6, <4>1
      <3>2. \A c \in Free' : c # lastFree' => Follows(Free', c, word'[c])
        BY <1>2, <1>6, <2>1
      <3>3. lastFree' \in Free' /\ lastFree' < cursor' /\ Follows(Free', -1, newHead')
            /\ \A c \in Free' : c <= lastFree' \/ c >= cursor'
        BY <1>2, <1>6, <2>3, <2>4, <2>5
      <3>4. lastFree' # Null /\ newHead' # Null
        BY <1>6, <2>2
      <3>5. QED
        BY <3>1, <3>2, <3>3, <3>4 DEF SweepList
  <1>9. Marks'
    <2>1. cursor \notin objects /\ reachable \subseteq objects /\ objects \subseteq Cells
      BY <1>0, <1>1, <1>3 DEF Free, TypeOK
    <2>2. {c \in reachable : c >= cursor} = {c \in reachable : c >= cursor + 1}
      BY <1>0, <2>1, SweepFacts
    <2>3. \A c \in objects : c < cursor + 1 => c \in reachable
      BY <1>0, <2>1, SweepFacts
    <2>4. QED
      BY <1>0, <1>6, <2>2, <2>3, SweepFacts DEF Marks
  <1>10. DestroyList' /\ FreeListInOrder'
    BY <1>6 DEF DestroyList, FreeListInOrder
  <1>11. QED
    BY <1>7, <1>8, <1>9, <1>10 DEF IInv

LEMMA SweepLiveStep == IInv /\ SweepLive => IInv'
  <1> SUFFICES ASSUME IInv, SweepLive
               PROVE  IInv'
    OBVIOUS
  <1>0. Sweeping /\ TypeOK
    BY DEF IInv, SweepLive
  <1>1. pc = "sweep" /\ cursor # head /\ cursor \in marked
    BY DEF SweepLive, Sweeping
  <1>2. /\ Cells' = Cells /\ Free' = Free /\ cursor' = cursor + 1 /\ marked' = marked \ {cursor}
        /\ UNCHANGED <<pages, head, word, objects, reachable, pc, pending, newHead, lastFree>>
    BY DEF SweepLive, Cells, Free, program
  <1>3. cursor \in objects /\ cursor \notin Free /\ cursor \in reachable
    BY <1>0, <1>1, SweepFacts DEF TypeOK, Free
  <1>4. TypeOK'
    BY <1>0, <1>2, SweepFacts DEF TypeOK
  <1>5. \A c \in Free : c >= cursor <=> c >= cursor + 1
    BY <1>0, <1>3, SweepFacts, CellFacts
  <1>6. SweepList'
    <2>1. Follows(Free, cursor + 1 - 1, head)
      <3>1. \A c \in Free : c <= cursor - 1 <=> c <= cursor
        BY <1>0, <1>3, SweepFacts
      <3>2. \A c \in Free : c > cursor - 1 <=> c > cursor
        BY <1>0, <1>3, SweepFacts
      <3>3. QED
        BY <1>0, <3>1, <3>2, SweepFacts DEF Follows
    <2>2. lastFree # Null => lastFree < cursor + 1
      BY <1>0, SweepFacts
    <2>3. QED
      BY <1>0, <1>2, <1>5, <2>1, <2>2, SweepFacts DEF SweepList
  <1>7. Marks'
    <2>1. reachable \subseteq objects /\ objects \subseteq Cells
      BY <1>0 DEF TypeOK
    <2>2. {c \in reachable : c >= cursor} \ {cursor} = {c \in reachable : c >= cursor + 1}
      <3>1. ~(cursor >= cursor + 1)
        BY <1>0, SweepFacts
      <3>2. QED
        BY <1>0, <2>1, <3>1, SweepFacts
    <2>3. \A c \in objects : c < cursor + 1 => c \in reachable
      BY <1>0, <1>3, <2>1, SweepFacts
    <2>4. marked' = {c \in reachable : c >= cursor + 1}
      BY <1>0, <1>2, <2>2, SweepFacts
    <2>5. QED
      BY <1>1, <1>2, <2>3, <2>4 DEF Marks
  <1>8. DestroyList' /\ FreeListInOrder'
    BY <1>1, <1>2 DEF DestroyList, FreeListInOrder
  <1>9. QED
    BY <1>4, <1>6, <1>7, <1>8 DEF IInv

LEMMA SweepDeadStep == IInv /\ SweepDead => IInv'
  <1> SUFFICES ASSUME IInv, SweepDead
               PROVE  IInv'
    OBVIOUS
  <1>0. Sweeping /\ TypeOK
    BY DEF IInv, SweepDead
  <1>1. pc = "sweep" /\ cursor # head /\ cursor \notin marked
    BY DEF SweepDead, Sweeping
  <1>2. /\ objects' = objects \ {cursor} /\ lastFree' = cursor /\ cursor' = cursor + 1
        /\ IF newHead = Null THEN newHead' = cursor /\ word' = word
           ELSE word' = [word EXCEPT ![lastFree] = cursor] /\ newHead' = newHead
        /\ UNCHANGED <<pages, head, marked, reachable, pc, pending>>
    BY DEF SweepDead
  <1>3. cursor \notin Free
    <2>1. cursor > cursor - 1 /\ ~(cursor <= cursor - 1)
      BY <1>0, SweepFacts
    <2>2. \A x \in Free : x > cursor - 1 => x >= cursor
      BY <1>0, SweepFacts
    <2>3. head \in Nat => (head <= cursor /\ head > cursor - 1 => head = cursor)
      BY <1>0, SweepFacts
    <2>4. QED
      BY <1>0, <1>1, <2>1, <2>2, <2>3, SweepFacts DEF Follows
  <1>4. cursor \in objects /\ cursor \in AllCells
    BY <1>0, <1>3, SweepFacts, CellFacts
  <1>5. Cells' = Cells /\ Free' = Free \cup {cursor}
    BY <1>0, <1>2, <1>4, SweepFacts DEF Cells, Free
  <1>6. cursor \notin reachable
    BY <1>0, <1>1, SweepFacts
  <1>7. TypeOK'
    <2>1. marked \subseteq objects' /\ reachable \subseteq objects' /\ objects' \subseteq Cells
      BY <1>0, <1>1, <1>2, <1>6 DEF TypeOK
    <2>2. newHead' \in Pointers /\ lastFree' \in Pointers
      BY <1>0, <1>2, <1>4 DEF TypeOK, Pointers
    <2>3. word' \in [AllCells -> Pointers \cup {Type}]
      BY <1>0, <1>2, <1>4 DEF TypeOK, Pointers
    <2>4. cursor' \in 0 .. PageCells * pages
      BY <1>0, <1>2, SweepFacts
    <2>5. QED
      BY <1>0, <1>2, <1>5, <2>1, <2>2, <2>3, <2>4 DEF TypeOK
  <1>8. SweepList'
    <2>1. \A c \in Free : c < cursor \/ c > cursor
      BY <1>0, <1>3, SweepFacts
    <2>2. Follows(Free', cursor' - 1, head')
      <3>1. \A c \in Free : (c <= cursor - 1 <=> c <= cursor) /\ (c > cursor - 1 <=> c > cursor)
        BY <1>0, <2>1, SweepFacts
      <3>2. cursor <= cursor /\ ~(cursor > cursor) /\ cursor' - 1 = cursor
        BY <1>0, <1>2, SweepFacts
      <3>3. QED
        BY <1>0, <1>2, <1>5, <3>1, <3>2, SweepFacts DEF Follows
    <2>3. \A c \in Free : c # lastFree => Follows(Free', c, word[c])
      <3>1. SUFFICES ASSUME NEW c \in Free, c # lastFree
                     PROVE  Follows(Free', c, word[c])
        OBVIOUS
      <3>2. Follows(Free, c, word[c])
        BY <1>0, <3>1, SweepFacts
      <3>3. CASE c > cursor
        <4>1. cursor <= c /\ ~(cursor > c)
          BY <1>0, <3>3, SweepFacts
        <4>2. QED
          BY <1>5, <3>2, <4>1 DEF Follows
      <3>4. CASE c < cursor
        <4>1. lastFree \in Free /\ lastFree < cursor /\ c <= lastFree
          BY <1>0, <3>1, <3>4, SweepFacts
        <4>2. lastFree > c
          BY <1>0, <3>1, <4>1, SweepFacts
        <4>3. word[c] \in Free /\ word[c] > c /\ word[c] <= lastFree /\ \A x \in Free : x > c => word[c] <= x
          <5>1. ~(lastFree <= c)
            BY <1>0, <4>1, <4>2, SweepFacts
          <5>2. QED
            BY <3>2, <4>1, <4>2, <5>1 DEF Follows
        <4>4. word[c] <= cursor
          BY <1>0, <4>1, <4>3, SweepFacts
        <4>5. QED
          BY <1>5, <4>3, <4>4 DEF Follows
      <3>5. QED
        BY <2>1, <3>3, <3>4
    <2>4. \A c \in Free' : c # lastFree' => Follows(Free', c, word'[c])
      <3>1. CASE lastFree = Null
        BY <1>0, <1>2, <1>5, <2>3, <3>1, SweepFacts
      <3>2. CASE lastFree # Null
        <4>1. lastFree \in Free /\ lastFree < cursor /\ (\A c \in Free : c <= lastFree \/ c >= cursor)
              /\ newHead # Null
          BY <1>0, <3>2, SweepFacts
        <4>2. cursor > lastFree /\ \A c \in Free' : c > lastFree => cursor <= c
          BY <1>0, <1>5, <4>1, SweepFacts
        <4>3. Follows(Free', lastFree, cursor)
          BY <1>5, <4>2 DEF Follows
        <4>4. word'[lastFree] = cursor /\ \A c \in Free : c # lastFree => word'[c] = word[c]
          BY <1>0, <1>2, <4>1, CellFacts DEF TypeOK
        <4>5. QED
          BY <1>2, <1>5, <2>3, <4>3, <4>4
      <3>3. QED
        BY <3>1, <3>2
    <2>5. Follows(Free', -1, newHead')
      <3>1. CASE lastFree = Null
        <4>1. newHead' = cursor /\ cursor > -1 /\ \A c \in Free' : cursor <= c
          BY <1>0, <1>2, <1>5, <3>1, SweepFacts
        <4>2. QED
          BY <1>5, <4>1 DEF Follows
      <3>2. CASE lastFree # Null
        <4>1. newHead' = newHead /\ Follows(Free, -1, newHead) /\ lastFree \in Free /\ lastFree < cursor
              /\ newHead # Null
          BY <1>0, <1>2, <3>2, SweepFacts
        <4>2. newHead \in Free /\ newHead > -1 /\ newHead <= lastFree /\ \A x \in Free : x > -1 => newHead <= x
          BY <1>0, <4>1, SweepFacts DEF Follows
        <4>3. newHead <= cursor
          BY <1>0, <4>1, <4>2, SweepFacts
        <4>4. QED
          BY <1>5, <4>1, <4>2, <4>3 DEF Follows
      <3>3. QED
        BY <3>1, <3>2
    <2>6. lastFree' # Null /\ newHead' # Null
      BY <1>0, <1>2, SweepFacts
    <2>7. lastFree' \in Free' /\ lastFree' < cursor' /\ \A c \in Free' : c <= lastFree' \/ c >= cursor'
      BY <1>0, <1>2, <1>5, SweepFacts
    <2>8. QED
      BY <2>2, <2>4, <2>5, <2>6, <2>7 DEF SweepList
  <1>9. Marks'
    <2>1. reachable \subseteq objects /\ objects \subseteq Cells
      BY <1>0 DEF TypeOK
    <2>2. {c \in reachable : c >= cursor} = {c \in reachable : c >= cursor + 1}
      BY <1>0, <1>6, <2>1, SweepFacts
    <2>3. \A c \in objects : c # cursor /\ c < cursor + 1 => c \in reachable
      BY <1>0, <2>1, SweepFacts
    <2>4. marked' = {c \in reachable' : c >= cursor'}
      BY <1>0, <1>2, <2>2, SweepFacts
    <2>5. QED
      BY <1>1, <1>2, <2>3, <2>4 DEF Marks
  <1>10. DestroyList' /\ FreeListInOrder'
    BY <1>1, <1>2 DEF DestroyList, FreeListInOrder
  <1>11. QED
    BY <1>7, <1>8, <1>9, <1>10 DEF IInv

LEMMA EndSweepStep == IInv /\ EndSweep => IInv'
  <1> SUFFICES ASSUME IInv, EndSweep
               PROVE  IInv'
    OBVIOUS
  <1>0. TypeOK /\ SweepList /\ Marks /\ pc = "sweep" /\ cursor = PageCells * pages
    BY DEF IInv, EndSweep
  <1>1. /\ head' = newHead /\ pc' \in {"refill", "program"}
        /\ word' = IF lastFree = Null THEN word ELSE [word EXCEPT ![lastFree] = Null]
        /\ UNCHANGED <<pages, marked, objects, reachable, pending, cursor, newHead, lastFree>>
    BY DEF EndSweep, program, loop
  <1>2. Cells' = Cells /\ Free' = Free
    BY <1>1 DEF Cells, Free
  <1>3. \A c \in Cells : ~(c >= cursor) /\ c < cursor
    BY <1>0, CellFacts
  <1>4. TypeOK'
    <2>1. word' \in [AllCells -> Pointers \cup {Type}]
      BY <1>0, <1>1 DEF TypeOK, Pointers
    <2>2. QED
      BY <1>0, <1>1, <1>2, <2>1 DEF TypeOK
  <1>5. Follows(Free, -1, newHead)
    <2>1. CASE lastFree = Null
      <3>1. newHead = Null /\ Free = {}
        BY <1>0, <1>3, <2>1, CellFacts DEF SweepList
      <3>2. QED
        BY <3>1 DEF Follows
    <2>2. CASE lastFree # Null
      BY <1>0, <2>2 DEF SweepList
    <2>3. QED
      BY <2>1, <2>2
  <1>6. ASSUME NEW c \in Free
        PROVE  Follows(Free, c, word'[c])
    <2>1. lastFree # Null
      BY <1>0, <1>3, <1>6, CellFacts DEF SweepList
    <2>2. lastFree \in Free /\ \A x \in Free : x <= lastFree
      BY <1>0, <1>3, <2>1, CellFacts DEF SweepList
    <2>3. word'[c] = IF c = lastFree THEN Null ELSE word[c]
      BY <1>0, <1>1, <1>6, <2>1, CellFacts DEF TypeOK
    <2>4. CASE c = lastFree
      BY <2>2, <2>3, <2>4 DEF Follows
    <2>5. CASE c # lastFree
      BY <1>0, <2>3, <2>5 DEF SweepList
    <2>6. QED
      BY <2>4, <2>5
  <1>7. FreeListInOrder'
    BY <1>1, <1>2, <1>5, <1>6 DEF FreeListInOrder
  <1>8. Marks'
    <2>1. marked = {} /\ objects = reachable
      BY <1>0, <1>3 DEF Marks, TypeOK
    <2>2. QED
      BY <1>1, <2>1 DEF Marks
  <1>9. SweepList' /\ DestroyList'
    BY <1>1 DEF SweepList, DestroyList
  <1>10. QED
    BY <1>4, <1>7, <1>8, <1>9 DEF IInv
-----------------------------------------------------------------------------
\* What the destructor knows at a cell.
LEMMA DestroyFacts ==
  ASSUME IInv, pc \in {"destroyFull", "destroyRest"}, cursor < PageCells * pages
  PROVE  /\ cursor \in Cells /\ cursor \in Nat /\ Free \subseteq Nat /\ Null \notin Nat
         /\ cursor + 1 \in 0 .. PageCells * pages /\ (cursor + 1) - 1 = cursor
         /\ cursor < cursor + 1 /\ cursor > cursor - 1 /\ ~(cursor <= cursor - 1)
         /\ \A c \in objects : c >= cursor /\ (c # cursor => c >= cursor + 1)
         /\ \A c \in Free : c >= cursor => Follows(Free, c, word[c])
         /\ \A c \in Free : /\ c >= cursor + 1 => c >= cursor
                            /\ c >= cursor + 1 <=> c > cursor
                            /\ c > cursor - 1 <=> c >= cursor
                            /\ c <= cursor - 1 <=> c < cursor
                            /\ c < cursor \/ c = cursor \/ c > cursor
         /\ reachable = {} /\ marked = {}
  <1>1. TypeOK /\ DestroyList /\ Marks
    BY DEF IInv
  <1>2. cursor \in Cells /\ cursor \in Nat /\ Free \subseteq Nat /\ Null \notin Nat /\ Cells \subseteq Nat
        /\ PageCells * pages \in Nat /\ objects \subseteq Nat
    BY <1>1, CellFacts DEF TypeOK
  <1>3. cursor + 1 \in 0 .. PageCells * pages /\ (cursor + 1) - 1 = cursor
        /\ cursor < cursor + 1 /\ cursor > cursor - 1 /\ ~(cursor <= cursor - 1)
    BY <1>1, <1>2
  <1>4. \A c \in objects : c >= cursor /\ (c # cursor => c >= cursor + 1)
    BY <1>1, <1>2 DEF DestroyList
  <1>5. \A c \in Free : /\ c >= cursor + 1 => c >= cursor
                        /\ c >= cursor + 1 <=> c > cursor
                        /\ c > cursor - 1 <=> c >= cursor
                        /\ c <= cursor - 1 <=> c < cursor
                        /\ c < cursor \/ c = cursor \/ c > cursor
    BY <1>2
  <1>6. reachable = {} /\ marked = {} /\ \A c \in Free : c >= cursor => Follows(Free, c, word[c])
    BY <1>1 DEF DestroyList, Marks
  <1>7. QED
    BY <1>2, <1>3, <1>4, <1>5, <1>6

\* destroyFull: a page that the head does not lie on holds objects only, and if
\* the head lies on the page then it comes first among the free cells.
LEMMA FullFacts ==
  ASSUME IInv, pc = "destroyFull", cursor < PageCells * pages
  PROVE  /\ HeadOnPage => Follows(Free, cursor - 1, head)
         /\ ~HeadOnPage => /\ cursor \in objects
                           /\ head = Null \/ (head \in Free /\ head >= cursor + 1)
                           /\ \A c \in Free : c < cursor \/ (head # Null /\ c >= head)
                           /\ \E page \in 0 .. pages :
                                /\ PageCells * page <= cursor + 1
                                /\ cursor + 1 <= PageCells * (page + 1)
                                /\ head = Null \/ head >= PageCells * (page + 1)
  <1>1. TypeOK /\ DestroyList
    BY DEF IInv
  <1>2. /\ head = Null \/ (head \in Free /\ head >= cursor)
        /\ \A c \in Free : c < cursor \/ (head # Null /\ c >= head)
    BY <1>1 DEF DestroyList
  <1>3. HeadOnPage => Follows(Free, cursor - 1, head)
    <2>1. SUFFICES ASSUME HeadOnPage
                   PROVE  Follows(Free, cursor - 1, head)
      OBVIOUS
    <2>2. head # Null
      BY <2>1 DEF HeadOnPage
    <2>3. head \in Free /\ head > cursor - 1 /\ \A x \in Free : x > cursor - 1 => head <= x
      BY <1>2, <2>2, DestroyFacts
    <2>4. QED
      BY <2>3 DEF Follows
  <1>4. ASSUME ~HeadOnPage
        PROVE  \E page \in 0 .. pages :
                 /\ PageCells * page <= cursor + 1 /\ cursor + 1 <= PageCells * (page + 1)
                 /\ head = Null \/ head >= PageCells * (page + 1)
    <2>1. PICK page \in 0 .. pages :
            /\ PageCells * page <= cursor /\ cursor <= PageCells * (page + 1)
            /\ cursor > PageCells * page => head = Null \/ head >= PageCells * (page + 1)
      BY <1>1 DEF DestroyList
    <2>2. /\ page \in Nat /\ page + 1 \in Nat /\ pages \in Nat /\ cursor \in Nat
          /\ PageCells \in Nat /\ PageCells > 0
      BY <1>1, DestroyFacts, SizesAssumption DEF TypeOK
    <2>3. /\ PageCells * page \in Nat /\ PageCells * (page + 1) = PageCells * page + PageCells
          /\ PageCells * ((page + 1) + 1) = PageCells * (page + 1) + PageCells
      BY <2>2, PageArithmetic
    <2>4. CASE cursor = PageCells * page
      <3>1. page # pages
        BY <2>4
      <3>2. page \in 0 .. pages - 1
        BY <2>2, <3>1
      <3>3. head = Null \/ ~(head \in cursor .. cursor + PageCells - 1)
        BY <1>4, <2>4, <3>2 DEF HeadOnPage
      <3>4. head = Null \/ head >= PageCells * (page + 1)
        BY <1>2, <2>2, <2>3, <2>4, <3>3, DestroyFacts
      <3>5. PageCells * page <= cursor + 1 /\ cursor + 1 <= PageCells * (page + 1)
        BY <2>2, <2>3, <2>4
      <3>6. QED
        BY <3>4, <3>5
    <2>5. CASE cursor > PageCells * page /\ cursor < PageCells * (page + 1)
      <3>1. PageCells * page <= cursor + 1 /\ cursor + 1 <= PageCells * (page + 1)
        BY <2>2, <2>3, <2>5
      <3>2. QED
        BY <2>1, <2>5, <3>1
    <2>6. CASE cursor = PageCells * (page + 1)
      <3>1. page # pages /\ page + 1 # pages
        BY <2>2, <2>3, <2>6
      <3>2. page + 1 \in 0 .. pages - 1 /\ page + 1 \in 0 .. pages
        BY <2>2, <3>1
      <3>3. head = Null \/ ~(head \in cursor .. cursor + PageCells - 1)
        BY <1>4, <2>6, <3>2 DEF HeadOnPage
      <3>4. head = Null \/ head >= PageCells * ((page + 1) + 1)
        BY <1>2, <2>2, <2>3, <2>6, <3>3, DestroyFacts
      <3>5. PageCells * (page + 1) <= cursor + 1 /\ cursor + 1 <= PageCells * ((page + 1) + 1)
        BY <2>2, <2>3, <2>6
      <3>6. QED
        BY <3>2, <3>4, <3>5
    <2>7. QED
      BY <2>1, <2>2, <2>3, <2>4, <2>5, <2>6
  <1>5. ASSUME ~HeadOnPage
        PROVE  head = Null \/ (head \in Free /\ head >= cursor + 1)
    <2>1. CASE head # Null
      <3>1. head \in Free /\ head \in Nat /\ cursor \in Nat
        BY <1>2, <2>1, DestroyFacts
      <3>2. PICK page \in 0 .. pages : cursor + 1 <= PageCells * (page + 1)
                                       /\ head >= PageCells * (page + 1)
        BY <1>4, <1>5, <2>1
      <3>3. page + 1 \in Nat
        BY <1>1, <3>2 DEF TypeOK
      <3>4. PageCells * (page + 1) \in Nat
        BY <3>3, PageArithmetic
      <3>5. QED
        BY <3>1, <3>2, <3>4
    <2>2. QED
      BY <2>1
  <1>6. ASSUME ~HeadOnPage
        PROVE  cursor \in objects
    <2>1. cursor \notin Free
      BY <1>2, <1>5, <1>6, DestroyFacts
    <2>2. QED
      BY <1>1, <2>1, DestroyFacts, CellFacts
  <1>7. QED
    BY <1>2, <1>3, <1>4, <1>5, <1>6

LEMMA BeginDestroyStep == IInv /\ BeginDestroy => IInv'
  <1> SUFFICES ASSUME IInv, BeginDestroy
               PROVE  IInv'
    OBVIOUS
  <1>1. TypeOK /\ FreeListInOrder /\ Marks
    BY DEF IInv
  <1>2. Cells' = Cells /\ Free' = Free
    BY DEF BeginDestroy, Cells, Free
  <1>3. TypeOK'
    <2>1. 0 \in 0 .. PageCells * pages
      BY <1>1, CellFacts
    <2>2. marked = {}
      BY <1>1 DEF BeginDestroy, Marks
    <2>3. QED
      BY <1>1, <1>2, <2>1, <2>2 DEF TypeOK, BeginDestroy
  <1>4. DestroyList'
    <2>1. /\ \A c \in objects : c >= 0
          /\ \A c \in Free : Follows(Free, c, word[c]) /\ c > -1
          /\ Follows(Free, -1, head)
      BY <1>1, CellFacts DEF BeginDestroy, FreeListInOrder, TypeOK
    <2>2. head = Null \/ (head \in Free /\ head >= 0 /\ \A c \in Free : c >= head)
      BY <1>1, <2>1, CellFacts DEF Follows
    <2>3. head = Null => Free = {}
      BY <1>1, <2>1, CellFacts DEF Follows
    <2>4. \A c \in Free : head # Null /\ c >= head
      BY <2>2, <2>3
    <2>5. 0 \in 0 .. pages /\ PageCells * 0 <= 0 /\ 0 <= PageCells * (0 + 1) /\ ~(0 > PageCells * 0)
      BY <1>1, SizesAssumption DEF TypeOK
    <2>6. QED
      BY <1>2, <2>1, <2>2, <2>4, <2>5 DEF DestroyList, BeginDestroy
  <1>5. Marks' /\ SweepList' /\ FreeListInOrder'
    BY <1>1 DEF Marks, SweepList, FreeListInOrder, BeginDestroy
  <1>6. QED
    BY <1>3, <1>4, <1>5 DEF IInv

LEMMA FindHeadStep == IInv /\ FindHead => IInv'
  <1> SUFFICES ASSUME IInv, FindHead
               PROVE  IInv'
    OBVIOUS
  <1>1. TypeOK /\ DestroyList /\ Marks /\ pc = "destroyFull" /\ pc' = "destroyRest"
    BY DEF IInv, FindHead
  <1>2. /\ Cells' = Cells /\ Free' = Free
        /\ UNCHANGED <<pages, head, word, marked, objects, reachable, pending, cursor, newHead, lastFree>>
    BY DEF FindHead, Cells, Free, program, loop
  <1>3. Follows(Free, cursor - 1, head)
    BY <1>1, FullFacts DEF FindHead
  <1>4. DestroyList'
    BY <1>1, <1>2, <1>3 DEF DestroyList
  <1>5. TypeOK' /\ Marks' /\ SweepList' /\ FreeListInOrder'
    BY <1>1, <1>2 DEF TypeOK, Marks, SweepList, FreeListInOrder
  <1>6. QED
    BY <1>4, <1>5 DEF IInv

\* The part of a destructor's step that empties the cell at the cursor.
LEMMA DestroyCellFacts ==
  ASSUME IInv, pc \in {"destroyFull", "destroyRest"}, cursor < PageCells * pages,
         cursor \in objects, DestroyCell
  PROVE  /\ TypeOK' /\ Marks' /\ SweepList' /\ FreeListInOrder'
         /\ Free' = Free \cup {cursor} /\ cursor \notin Free
         /\ \A c \in objects' : c >= cursor'
         /\ \A c \in Free' : c >= cursor' => Follows(Free', c, word'[c])
  <1>1. TypeOK /\ Marks /\ cursor \notin Free
    BY DEF IInv, Free
  <1>2. /\ objects' = objects \ {cursor} /\ cursor' = cursor + 1 /\ Cells' = Cells
        /\ UNCHANGED <<pages, head, word, marked, reachable, pc, pending, newHead, lastFree>>
    BY DEF DestroyCell, Cells
  <1>3. Free' = Free \cup {cursor}
    BY <1>1, <1>2, DestroyFacts DEF Free
  <1>4. TypeOK'
    <2>1. marked \subseteq objects' /\ reachable \subseteq objects' /\ objects' \subseteq Cells
      BY <1>1, <1>2, DestroyFacts DEF TypeOK
    <2>2. cursor' \in 0 .. PageCells * pages
      BY <1>2, DestroyFacts
    <2>3. QED
      BY <1>1, <1>2, <2>1, <2>2 DEF TypeOK
  <1>5. \A c \in objects' : c >= cursor'
    BY <1>2, DestroyFacts
  <1>6. ASSUME NEW c \in Free', c >= cursor'
        PROVE  Follows(Free', c, word'[c])
    <2>1. cursor \in Nat /\ ~(cursor >= cursor + 1)
      BY DestroyFacts
    <2>2. c \in Free /\ c > cursor /\ c \in Nat
      BY <1>2, <1>3, <1>6, <2>1, DestroyFacts
    <2>3. Follows(Free, c, word[c])
      BY <2>2, DestroyFacts
    <2>4. cursor <= c /\ ~(cursor > c)
      BY <2>1, <2>2
    <2>5. QED
      BY <1>2, <1>3, <2>3, <2>4 DEF Follows
  <1>7. Marks' /\ SweepList' /\ FreeListInOrder'
    BY <1>1, <1>2 DEF Marks, SweepList, FreeListInOrder
  <1>8. QED
    BY <1>1, <1>3, <1>4, <1>5, <1>6, <1>7

LEMMA DestroyFullStep == IInv /\ DestroyFull => IInv'
  <1> SUFFICES ASSUME IInv, DestroyFull
               PROVE  IInv'
    OBVIOUS
  <1>1. TypeOK /\ DestroyList /\ pc = "destroyFull" /\ cursor < PageCells * pages /\ ~HeadOnPage
        /\ DestroyCell
    BY DEF IInv, DestroyFull
  <1>2. /\ cursor' = cursor + 1
        /\ UNCHANGED <<pages, head, word, marked, reachable, pc, pending, newHead, lastFree>>
    BY <1>1 DEF DestroyCell
  <1>3. cursor \in objects
    BY <1>1, FullFacts
  <1>4. /\ TypeOK' /\ Marks' /\ SweepList' /\ FreeListInOrder' /\ Free' = Free \cup {cursor}
        /\ \A c \in objects' : c >= cursor'
        /\ \A c \in Free' : c >= cursor' => Follows(Free', c, word'[c])
    BY <1>1, <1>3, DestroyCellFacts
  <1>5. head' = Null \/ (head' \in Free' /\ head' >= cursor')
    BY <1>1, <1>2, <1>4, FullFacts
  <1>6. \A c \in Free' : c < cursor' \/ (head' # Null /\ c >= head')
    <2>1. \A c \in Free : c < cursor => c < cursor + 1
      BY <1>1, DestroyFacts
    <2>2. \A c \in Free : c < cursor \/ (head # Null /\ c >= head)
      BY <1>1, FullFacts
    <2>3. cursor < cursor + 1
      BY <1>1, DestroyFacts
    <2>4. QED
      BY <1>2, <1>4, <2>1, <2>2, <2>3
  <1>7. \E page \in 0 .. pages' : /\ PageCells * page <= cursor' /\ cursor' <= PageCells * (page + 1)
                                  /\ head' = Null \/ head' >= PageCells * (page + 1)
    BY <1>1, <1>2, FullFacts
  <1>8. DestroyList'
    BY <1>1, <1>2, <1>4, <1>5, <1>6, <1>7 DEF DestroyList
  <1>9. QED
    BY <1>4, <1>8 DEF IInv

LEMMA SkipFreeStep == IInv /\ SkipFree => IInv'
  <1> SUFFICES ASSUME IInv, SkipFree
               PROVE  IInv'
    OBVIOUS
  <1>1. TypeOK /\ DestroyList /\ Marks /\ pc = "destroyRest" /\ cursor < PageCells * pages /\ cursor = head
    BY DEF IInv, SkipFree
  <1>2. /\ head' = word[cursor] /\ cursor' = cursor + 1 /\ Cells' = Cells /\ Free' = Free
        /\ UNCHANGED <<pages, word, marked, objects, reachable, pc, pending, newHead, lastFree>>
    BY <1>1 DEF SkipFree, Cells, Free, program
  <1>3. cursor \in Free /\ cursor >= cursor
    BY <1>1, DestroyFacts DEF DestroyList, Follows
  <1>4. Follows(Free, cursor, word[cursor])
    BY <1>1, <1>3, DestroyFacts
  <1>5. TypeOK'
    <2>1. word[cursor] \in Pointers
      BY <1>1, <1>4, CellFacts DEF Follows, Pointers
    <2>2. cursor' \in 0 .. PageCells * pages
      BY <1>1, <1>2, DestroyFacts
    <2>3. QED
      BY <1>1, <1>2, <2>1, <2>2 DEF TypeOK
  <1>6. DestroyList'
    <2>1. cursor \notin objects
      BY <1>3 DEF Free
    <2>2. \A c \in objects : c >= cursor + 1
      BY <1>1, <2>1, DestroyFacts
    <2>3. \A c \in Free : c >= cursor + 1 => Follows(Free, c, word[c])
      BY <1>1, DestroyFacts
    <2>4. cursor' - 1 = cursor
      BY <1>1, <1>2, DestroyFacts
    <2>5. reachable = {}
      BY <1>1 DEF DestroyList
    <2>6. QED
      BY <1>1, <1>2, <1>4, <2>2, <2>3, <2>4, <2>5 DEF DestroyList
  <1>7. Marks' /\ SweepList' /\ FreeListInOrder'
    BY <1>1, <1>2 DEF Marks, SweepList, FreeListInOrder
  <1>8. QED
    BY <1>5, <1>6, <1>7 DEF IInv

\* In the loop's second half, a cell that is not the head holds an object.
LEMMA RestFacts ==
  ASSUME IInv, pc = "destroyRest", cursor < PageCells * pages, cursor # head
  PROVE  cursor \in objects
  <1>1. TypeOK /\ Follows(Free, cursor - 1, head)
    BY DEF IInv, DestroyList
  <1>2. ASSUME cursor \in Free
        PROVE  FALSE
    <2>1. head \in Free /\ head > cursor - 1 /\ head <= cursor
      BY <1>1, <1>2, DestroyFacts DEF Follows
    <2>2. QED
      BY <2>1, DestroyFacts
  <1>3. QED
    BY <1>1, <1>2, DestroyFacts, CellFacts

LEMMA DestroyRestStep == IInv /\ DestroyRest => IInv'
  <1> SUFFICES ASSUME IInv, DestroyRest
               PROVE  IInv'
    OBVIOUS
  <1>1. TypeOK /\ DestroyList /\ pc = "destroyRest" /\ cursor < PageCells * pages /\ cursor # head
        /\ DestroyCell
    BY DEF IInv, DestroyRest
  <1>2. /\ cursor' = cursor + 1
        /\ UNCHANGED <<pages, head, word, marked, reachable, pc, pending, newHead, lastFree>>
    BY <1>1 DEF DestroyCell
  <1>3. cursor \in objects
    BY <1>1, RestFacts
  <1>4. /\ TypeOK' /\ Marks' /\ SweepList' /\ FreeListInOrder' /\ Free' = Free \cup {cursor}
        /\ cursor \notin Free
        /\ \A c \in objects' : c >= cursor'
        /\ \A c \in Free' : c >= cursor' => Follows(Free', c, word'[c])
    BY <1>1, <1>3, DestroyCellFacts
  <1>5. Follows(Free', cursor' - 1, head')
    <2>1. Follows(Free, cursor - 1, head)
      BY <1>1 DEF DestroyList
    <2>2. \A c \in Free : (c <= cursor - 1 <=> c <= cursor) /\ (c > cursor - 1 <=> c > cursor)
      BY <1>1, <1>4, DestroyFacts
    <2>3. cursor <= cursor /\ ~(cursor > cursor) /\ cursor' - 1 = cursor
      BY <1>1, <1>2, DestroyFacts
    <2>4. QED
      BY <1>2, <1>4, <2>1, <2>2, <2>3 DEF Follows
  <1>6. DestroyList'
    BY <1>1, <1>2, <1>4, <1>5 DEF DestroyList
  <1>7. QED
    BY <1>4, <1>6 DEF IInv

LEMMA EndDestroyStep == IInv /\ EndDestroy => IInv'
  <1> SUFFICES ASSUME IInv, EndDestroy
               PROVE  IInv'
    OBVIOUS
  <1>1. TypeOK /\ DestroyList /\ Marks /\ pc \in {"destroyFull", "destroyRest"}
        /\ pc' = "destroyed" /\ cursor = PageCells * pages
    BY DEF IInv, EndDestroy
  <1>2. /\ Cells' = Cells /\ Free' = Free
        /\ UNCHANGED <<pages, head, word, marked, objects, reachable, pending, cursor, newHead, lastFree>>
    BY DEF EndDestroy, Cells, Free, program, loop
  <1>3. objects = {}
    <2>1. \A c \in objects : c \in Cells /\ c \in Nat /\ c < PageCells * pages /\ c >= cursor
      BY <1>1, CellFacts DEF TypeOK, DestroyList
    <2>2. QED
      BY <1>1, <2>1, CellFacts
  <1>4. reachable = {} /\ marked = {}
    BY <1>1 DEF DestroyList, Marks
  <1>5. TypeOK'
    BY <1>1, <1>2 DEF TypeOK
  <1>6. Marks' /\ SweepList' /\ FreeListInOrder' /\ DestroyList'
    BY <1>1, <1>2, <1>3, <1>4 DEF Marks, SweepList, FreeListInOrder, DestroyList
  <1>7. QED
    BY <1>5, <1>6 DEF IInv
-----------------------------------------------------------------------------
LEMMA InvStep == IInv /\ [Next]_vars => IInv'
  <1> SUFFICES ASSUME IInv, [Next]_vars
               PROVE  IInv'
    OBVIOUS
  <1>1. CASE UNCHANGED vars
    BY <1>1, ZenonT(150) DEF vars, IInv, TypeOK, FreeListInOrder, Marks, SweepList, DestroyList, Cells, Free
  <1>2. CASE Next
    <2>1. CASE Halted
      BY <1>1, <2>1 DEF Halted
    <2>2. ASSUME NEW forCell \in BOOLEAN, Collect(forCell)
          PROVE  IInv'
      BY <2>2, CollectStep
    <2>3. QED
      BY <1>2, <2>1, <2>2, PopStep, GrowStep, DropStep, SweepFreeStep, SweepLiveStep,
         SweepDeadStep, EndSweepStep, BeginDestroyStep, FindHeadStep, DestroyFullStep,
         SkipFreeStep, DestroyRestStep, EndDestroyStep DEF Next
  <1>3. QED
    BY <1>1, <1>2

\* The invariant the other theorems rest on.
THEOREM Invariance == Spec => []IInv
  <1>1. QED
    BY InvInit, InvStep, PTL DEF Spec

\* Every variable keeps its type; in particular no operation of the allocator takes
\* a type pointer for a link of the free list.
THEOREM TypeCorrect == Spec => []TypeOK
  <1>1. IInv => TypeOK
    BY DEF IInv
  <1>2. QED
    BY <1>1, Invariance, PTL

\* nextCell and newPage keep the free list in the order of the sweep, and sweep()
\* rebuilds it in that order, on any number of pages of any size.
THEOREM FreeListSorted == Spec => []FreeListInOrder
  <1>1. IInv => FreeListInOrder
    BY DEF IInv
  <1>2. QED
    BY <1>1, Invariance, PTL

LEMMA InvDestroys == IInv => OnlyObjectsDestroyed
  <1>1. SUFFICES ASSUME IInv
                 PROVE  OnlyObjectsDestroyed
    OBVIOUS
  <1>2. SUFFICES ASSUME cursor < PageCells * pages, cursor # head
                 PROVE  \/ pc = "sweep" /\ (cursor \in marked \/ cursor \in objects)
                        \/ pc = "destroyFull" /\ (HeadOnPage \/ cursor \in objects)
                        \/ pc = "destroyRest" /\ cursor \in objects
                        \/ pc \in {"program", "refill", "destroyed"}
    BY DEF OnlyObjectsDestroyed
  <1>3. CASE pc = "sweep"
    <2>1. Sweeping /\ TypeOK
      BY <1>1, <1>2, <1>3 DEF Sweeping, IInv
    <2>2. ASSUME cursor \in Free
          PROVE  FALSE
      <3>1. ~(cursor <= cursor - 1) /\ cursor > cursor - 1
        BY <1>1, <2>1, SweepFacts
      <3>2. head \in Free /\ head > cursor - 1 /\ head <= cursor
        BY <1>1, <2>1, <2>2, <3>1, SweepFacts DEF Follows
      <3>3. QED
        BY <1>1, <1>2, <2>1, <3>2, SweepFacts
    <2>3. cursor \in objects
      BY <1>1, <2>1, <2>2, SweepFacts, CellFacts
    <2>4. QED
      BY <1>3, <2>3
  <1>4. CASE pc = "destroyFull"
    BY <1>1, <1>2, <1>4, FullFacts
  <1>5. CASE pc = "destroyRest"
    BY <1>1, <1>2, <1>5, RestFacts
  <1>6. pc \in {"program", "sweep", "refill", "destroyFull", "destroyRest", "destroyed"}
    BY <1>1 DEF IInv, TypeOK
  <1>7. QED
    BY <1>3, <1>4, <1>5, <1>6

\* sweep() and the destructor never take a free cell for an object.
THEOREM DestroysObjectsOnly == Spec => []OnlyObjectsDestroyed
  <1>1. QED
    BY InvDestroys, Invariance, PTL

\* A collection leaves exactly the reachable objects, and none of them marked.
THEOREM CollectsEverything == Spec => []CollectionIsComplete
  <1>1. IInv => CollectionIsComplete
    BY DEF IInv, Marks, CollectionIsComplete
  <1>2. QED
    BY <1>1, Invariance, PTL

\* The destructor leaves no object behind.
THEOREM DestroysEverything == Spec => []NothingLeftUndestroyed
  <1>1. IInv => NothingLeftUndestroyed
    BY DEF IInv, DestroyList, NothingLeftUndestroyed
  <1>2. QED
    BY <1>1, Invariance, PTL

\* newPage is called only when every cell there is holds an object in use.
THEOREM GrowsWhenFull == Spec => GrowsOnlyWhenFull
  <1>1. ASSUME IInv, [Next]_vars
        PROVE  [pages' # pages => Cells \subseteq reachable]_vars
    <2>1. ASSUME pages' # pages
          PROVE  Cells \subseteq reachable
      <3>1. Grow
        BY <1>1, <2>1 DEF Next, vars, Pop, Drop, Collect, SweepFree, SweepLive, SweepDead, EndSweep,
                          BeginDestroy, FindHead, DestroyFull, SkipFree, DestroyRest, EndDestroy,
                          DestroyCell, Halted, HandOut
      <3>2. TypeOK /\ FreeListInOrder /\ Marks
        BY <1>1 DEF IInv
      <3>3. CASE pages = 0
        BY <3>2, <3>3, CellFacts, SizesAssumption DEF Cells
      <3>4. CASE pages # 0
        <4>1. pc = "refill" /\ head = Null
          BY <3>1, <3>4 DEF Grow
        <4>2. Free = {}
          BY <3>2, <4>1, CellFacts DEF FreeListInOrder, Follows
        <4>3. QED
          BY <3>2, <4>1, <4>2 DEF Free, Marks
      <3>5. QED
        BY <3>3, <3>4
    <2>2. QED
      BY <2>1
  <1>2. QED
    BY <1>1, Invariance, PTL DEF Spec, GrowsOnlyWhenFull
-----------------------------------------------------------------------------
Alive == pc \notin {"destroyFull", "destroyRest", "destroyed"}

\* The allocator implements CellPool: nextCell never hands out a cell in use, and
\* no cell is taken from the program while it can reach the object in it.
THEOREM RefinesPool == Spec => ImplementsPool
  <1>1. Init => Pool!Init
    BY DEF Init, Pool!Init
  <1>2. ASSUME IInv, [Next]_vars
        PROVE  [Pool!Next]_Pool!vars
    <2>1. ASSUME UNCHANGED <<objects, reachable>>, Alive' = Alive
          PROVE  UNCHANGED Pool!vars
      BY <2>1 DEF Alive, Pool!vars
    <2>2. ASSUME NEW c \in objects', c \notin objects, objects' = objects \cup {c},
                 reachable' = reachable \cup {c}, pc \in {"program", "refill"}, pc' = "program"
          PROVE  Pool!Next
      BY <2>2 DEF Pool!Next, Pool!Allocate
    <2>3. ASSUME NEW c \in objects, c \notin reachable, objects' = objects \ {c},
                 reachable' = reachable, pc' = pc
          PROVE  Pool!Next
      BY <2>3 DEF Pool!Next, Pool!Reclaim
    <2>4. CASE Pop
      <3>1. head \notin objects
        BY <1>2, <2>4 DEF IInv, FreeListInOrder, Follows, Free, Pop
      <3>2. QED
        BY <2>2, <2>4, <3>1 DEF Pop, HandOut
    <2>5. CASE Grow
      <3>1. PageCells * pages \notin objects
        <4>1. \A c \in Cells : c \in Nat /\ c < PageCells * pages
          BY <1>2, CellFacts DEF IInv
        <4>2. objects \subseteq Cells /\ PageCells * pages \in Nat
          BY <1>2, CellFacts DEF IInv, TypeOK
        <4>3. QED
          BY <4>1, <4>2
      <3>2. QED
        BY <2>2, <2>5, <3>1 DEF Grow, HandOut
    <2>6. CASE Drop
      <3>1. reachable' \subseteq reachable /\ pc = "program" /\ pc' = "program" /\ objects' = objects
        BY <2>6 DEF Drop
      <3>2. QED
        BY <3>1 DEF Pool!Next, Pool!Forget
    <2>7. ASSUME NEW forCell \in BOOLEAN, Collect(forCell)
          PROVE  UNCHANGED Pool!vars
      BY <2>1, <2>7 DEF Collect, program, Alive
    <2>8. CASE SweepFree \/ SweepLive \/ EndSweep
      BY <2>1, <2>8 DEF SweepFree, SweepLive, EndSweep, Sweeping, program, Alive
    <2>9. CASE SweepDead
      <3>1. Sweeping
        BY <2>9 DEF SweepDead
      <3>2. cursor \in objects /\ cursor \notin reachable
        <4>1. OnlyObjectsDestroyed
          BY <1>2, InvDestroys
        <4>2. QED
          BY <1>2, <2>9, <3>1, <4>1, SweepFacts DEF SweepDead, Sweeping, OnlyObjectsDestroyed
      <3>3. QED
        BY <2>3, <2>9, <3>2 DEF SweepDead
    <2>10. CASE BeginDestroy
      <3>1. pc = "program" /\ pc' = "destroyFull" /\ reachable' = {} /\ objects' = objects
        BY <2>10 DEF BeginDestroy
      <3>2. QED
        BY <3>1 DEF Pool!Next, Pool!Destroy
    <2>11. CASE FindHead \/ SkipFree \/ EndDestroy
      BY <2>1, <2>11 DEF FindHead, SkipFree, EndDestroy, program, loop, Alive
    <2>12. CASE DestroyFull \/ DestroyRest
      <3>1. cursor \in objects /\ cursor \notin reachable
        BY <1>2, <2>12, FullFacts, RestFacts, DestroyFacts DEF DestroyFull, DestroyRest
      <3>2. QED
        BY <2>3, <2>12, <3>1 DEF DestroyFull, DestroyRest, DestroyCell
    <2>13. CASE Halted \/ UNCHANGED vars
      BY <2>1, <2>13 DEF Halted, vars, Alive
    <2>14. QED
      BY <1>2, <2>4, <2>5, <2>6, <2>7, <2>8, <2>9, <2>10, <2>11, <2>12, <2>13 DEF Next
  <1>3. QED
    BY <1>1, <1>2, Invariance, PTL DEF Spec, ImplementsPool, Pool!Spec
=============================================================================
