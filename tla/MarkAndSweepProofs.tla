------------------------- MODULE MarkAndSweepProofs -------------------------
(***************************************************************************)
(* Proofs about MarkAndSweep for every heap, every set of globals and      *)
(* every program: the work list holds each object at most once, no marked  *)
(* object is forgotten, and a collection leaves exactly what can be        *)
(* reached.                                                                *)
(***************************************************************************)
EXTENDS MarkAndSweep, ProofLemmas

\* The provers for a step that names none, in turn: most need less than a second, and
\* a search that went astray is begun again.
USE SMT, Zenon, SMTT(20), SMTT(60), ZenonT(60), Z3T(60)

\* Collecting, up to the sweep.
Marking == pc \in {"roots", "collections", "mark"}

\* Outside a sweep the heap holds whatever its objects, the collections and the
\* roots refer to, and cells that hold no object refer to nothing.
Heap ==
  /\ pc \in {"program", "list"} \/ Marking => Closed(alive)
  /\ \A c \in Cells \ alive : fields[c] = <<>>

\* Between collections no mark is left, and the unfinished list is on the stack.
Between ==
  /\ pc \in {"program", "list"} => marked = {}
  /\ pc = "list" \/ (Collecting /\ resume = "list") => stack # <<>>

\* What the loops have not come to can be reached, and what they have passed is
\* marked: first the roots, then the references of the global collections.
Loops ==
  /\ Marking => /\ Range(todo) \cap Cells \subseteq Reachable
                /\ Roots \subseteq marked \cup Range(todo)
  /\ pc \in {"roots", "collections"} => marked \subseteq Range(workList)
  /\ pc = "collections" =>
       \A o \in Globals : Range(fields[o]) \cap Cells \subseteq marked \cup Range(todo)

\* The sweep has freed what cannot be reached before the cursor and cleared the
\* marks there; beyond it, exactly what can be reached is marked.
Sweep ==
  pc = "sweep" =>
    /\ marked = Reachable \cap cursor
    /\ Reachable \subseteq alive /\ alive \subseteq Reachable \cup cursor

IInv == TypeOK /\ Heap /\ Between /\ Loops /\ NoMarkedObjectForgotten /\ WorkListIsSet /\ Sweep
-----------------------------------------------------------------------------
\* Reachable is the least closed set of cells.
LEMMA ReachableLeast ==
  /\ Reachable \subseteq Cells
  /\ Closed(Reachable)
  /\ \A S \in SUBSET Cells : Closed(S) => Reachable \subseteq S
  <1>1. Reachable \subseteq Cells
    BY DEF Reachable
  <1>2. \A S \in SUBSET Cells : Closed(S) => Reachable \subseteq S
    BY DEF Reachable
  <1>3. Roots \subseteq Reachable
    BY DEF Reachable, Roots, Closed
  <1>4. ASSUME NEW o \in Reachable \cup Globals, NEW c \in Range(fields[o]) \cap Cells
        PROVE  c \in Reachable
    <2>1. ASSUME NEW S \in SUBSET Cells, Closed(S)
          PROVE  c \in S
      <3>1. o \in S \cup Globals
        BY <1>2, <2>1
      <3>2. QED
        BY <1>4, <2>1, <3>1 DEF Closed
    <2>2. QED
      BY <2>1 DEF Reachable
  <1>5. QED
    BY <1>1, <1>2, <1>3, <1>4 DEF Closed

\* A step that leaves the program alone leaves what it can reach.
LEMMA SameProgram ==
  ASSUME UNCHANGED program
  PROVE  Reachable' = Reachable /\ Roots' = Roots /\ \A S : Closed(S)' <=> Closed(S)
  BY DEF program, Reachable, Roots, Closed

LEMMA InvInit == Init => IInv
  <1> SUFFICES ASSUME Init
               PROVE  IInv
    OBVIOUS
  <1>1. Range(<<>>) = {}
    BY RangeEmpty
  <1>2. TypeOK
    BY DEF Init, TypeOK, Objects
  <1>3. Roots = {}
    BY <1>1, NamesAssumption DEF Init, Roots
  <1>4. \A o \in Objects : fields[o] = <<>>
    BY DEF Init
  <1>5. Closed({})
    BY <1>1, <1>3, <1>4 DEF Closed, Objects
  <1>6. Heap /\ Between /\ Loops /\ NoMarkedObjectForgotten /\ WorkListIsSet /\ Sweep
    BY <1>4, <1>5 DEF Init, Heap, Between, Loops, NoMarkedObjectForgotten, WorkListIsSet, Sweep,
                      Marking, Collecting, Objects
  <1>7. QED
    BY <1>2, <1>6 DEF IInv
-----------------------------------------------------------------------------
(***************************************************************************)
(* The program.                                                            *)
(***************************************************************************)
\* What a step of the program may use: what it knows is in the heap.
LEMMA ProgramFacts ==
  ASSUME IInv, pc \in {"program", "list"}
  PROVE  /\ TypeOK /\ Closed(alive) /\ Reachable \subseteq alive
         /\ \A c \in Cells \ alive : fields[c] = <<>>
         /\ marked = {} /\ (pc = "list" => stack # <<>>)
         /\ Known \subseteq alive \cup Globals /\ Known \subseteq Objects
  <1>1. /\ TypeOK /\ Closed(alive) /\ marked = {} /\ (pc = "list" => stack # <<>>)
        /\ \A c \in Cells \ alive : fields[c] = <<>>
    BY DEF IInv, Heap, Between
  <1>2. Reachable \subseteq alive
    BY <1>1, ReachableLeast DEF TypeOK
  <1>3. QED
    BY <1>1, <1>2 DEF Known, TypeOK, Objects

\* It is enough that a step of the program keeps types, heap and marks.
LEMMA ProgramStep ==
  ASSUME pc' \in {"program", "list"}, TypeOK', marked' = {}, Closed(alive)',
         \A c \in Cells \ alive' : fields'[c] = <<>>,
         pc' = "list" => stack' # <<>>
  PROVE  IInv'
  <1>1. Heap' /\ Between'
    BY DEF Heap, Between, Marking, Collecting
  <1>2. Loops' /\ NoMarkedObjectForgotten' /\ WorkListIsSet' /\ Sweep'
    BY DEF Loops, NoMarkedObjectForgotten, WorkListIsSet, Sweep, Marking
  <1>3. QED
    BY <1>1, <1>2 DEF IInv

LEMMA NewStep == \A c \in Cells : IInv /\ (New(c) \/ NewList(c)) => IInv'
  <1> SUFFICES ASSUME NEW c \in Cells, IInv, New(c) \/ NewList(c)
               PROVE  IInv'
    OBVIOUS
  <1>1. pc = "program" /\ pc' \in {"program", "list"} /\ marked' = marked /\ fields' = fields
        /\ stack' = Append(stack, c) /\ handle' = handle
        /\ c \notin alive /\ alive' = alive \cup {c}
    BY DEF New, NewList, Allocate, marking
  <1>2. /\ TypeOK /\ Closed(alive) /\ marked = {}
        /\ \A d \in Cells \ alive : fields[d] = <<>>
    BY <1>1, ProgramFacts
  <1>3. stack' \in Seq(Objects) /\ Range(stack') = Range(stack) \cup {c} /\ stack' # <<>>
    <2>1. stack \in Seq(Objects) /\ c \in Objects
      BY <1>2 DEF TypeOK, Objects
    <2>2. QED
      BY <1>1, <2>1, RangeAppend, AppendProperties
  <1>4. TypeOK'
    <2>1. tuple' \in [Objects -> Cells \cup {Constant, Dangling, Missing, NoList}]
      BY <1>2 DEF TypeOK, New, NewList
    <2>2. QED
      BY <1>1, <1>2, <1>3, <2>1 DEF TypeOK, New, NewList, marking, Objects
  <1>5. Closed(alive)'
    <2>1. Roots' \subseteq alive'
      BY <1>1, <1>2, <1>3 DEF Roots, Closed
    <2>2. ASSUME NEW o \in alive' \cup Globals
          PROVE  Range(fields'[o]) \cap Cells \subseteq alive'
      <3>1. o = c => Range(fields[o]) = {}
        BY <1>1, <1>2, RangeEmpty
      <3>2. QED
        BY <1>1, <1>2, <3>1 DEF Closed
    <2>3. QED
      BY <2>1, <2>2 DEF Closed
  <1>6. QED
    BY <1>1, <1>2, <1>3, <1>4, <1>5, ProgramStep

\* Storing references to what is known, or none, keeps the heap closed.
LEMMA StoreKeepsHeap ==
  ASSUME IInv, pc \in {"program", "list"},
         NEW o \in alive \cup Globals, NEW new \in Seq(Objects),
         fields' = [fields EXCEPT ![o] = new],
         Range(new) \subseteq Range(fields[o]) \cup Known,
         alive \subseteq alive', alive' \subseteq Cells,
         Range(stack') \subseteq Range(stack), handle' = handle
  PROVE  /\ fields' \in [Objects -> Seq(Objects)]
         /\ Closed(alive)'
         /\ \A c \in Cells \ alive' : fields'[c] = <<>>
  <1>1. /\ TypeOK /\ Closed(alive) /\ Known \subseteq alive \cup Globals
        /\ \A c \in Cells \ alive : fields[c] = <<>>
    BY ProgramFacts
  <1>2. o \in Objects /\ fields \in [Objects -> Seq(Objects)] /\ Globals \cap Cells = {}
    BY <1>1, NamesAssumption DEF TypeOK, Objects
  <1>3. Roots' \subseteq alive'
    BY <1>1 DEF Roots, Closed
  <1>4. ASSUME NEW p \in alive' \cup Globals
        PROVE  Range(fields'[p]) \cap Cells \subseteq alive'
    <2>1. p \in Objects
      BY DEF Objects
    <2>2. CASE p = o
      <3>1. fields'[p] = new
        BY <1>2, <2>2
      <3>2. Range(fields[o]) \cap Cells \subseteq alive
        BY <1>1 DEF Closed
      <3>3. QED
        BY <1>1, <1>2, <3>1, <3>2
    <2>3. CASE p # o
      <3>1. fields'[p] = fields[p]
        BY <1>2, <2>1, <2>3
      <3>2. CASE p \in alive \cup Globals
        BY <1>1, <3>1, <3>2 DEF Closed
      <3>3. CASE p \notin alive \cup Globals
        BY <1>1, <3>1, <3>3, RangeEmpty
      <3>4. QED
        BY <3>2, <3>3
    <2>4. QED
      BY <2>2, <2>3
  <1>5. Closed(alive)'
    BY <1>3, <1>4 DEF Closed
  <1>6. \A c \in Cells \ alive' : fields'[c] = <<>>
    BY <1>1, <1>2 DEF Objects
  <1>7. QED
    BY <1>2, <1>5, <1>6

LEMMA NewListItemsStep == \A c \in Cells : IInv /\ NewListItems(c) => IInv'
  <1> SUFFICES ASSUME NEW c \in Cells, IInv, NewListItems(c)
               PROVE  IInv'
    OBVIOUS
  <1>1. pc = "list" /\ pc' = "program" /\ marked' = marked /\ UNCHANGED <<stack, handle>>
        /\ alive' = alive \cup {c}
    BY DEF NewListItems, Allocate, marking
  <1>2. /\ TypeOK /\ marked = {} /\ stack # <<>> /\ Known \subseteq Objects /\ Closed(alive)
    BY <1>1, ProgramFacts
  <1> DEFINE list == Last(stack)
  <1>3. PICK item \in Known : fields' = [fields EXCEPT ![list] = <<item>>]
    BY DEF NewListItems
  <1>4. list \in Objects /\ list \in Range(stack)
    <2>1. stack \in Seq(Objects)
      BY <1>2 DEF TypeOK
    <2>2. QED
      BY <1>2, <2>1, FrontLast
  <1>5. list \in alive \cup Globals
    BY <1>2, <1>4 DEF Closed, Roots, Objects
  <1>6. <<item>> \in Seq(Objects) /\ Range(<<item>>) = {item}
    BY <1>2, <1>3 DEF Range
  <1>7. alive' \subseteq Cells
    BY <1>1, <1>2 DEF TypeOK
  <1> HIDE DEF list
  <1>8. /\ fields' \in [Objects -> Seq(Objects)] /\ Closed(alive)'
        /\ \A d \in Cells \ alive' : fields'[d] = <<>>
    BY <1>1, <1>3, <1>5, <1>6, <1>7, StoreKeepsHeap
  <1>9. tuple' \in [Objects -> Cells \cup {Constant, Dangling, Missing, NoList}]
    BY <1>2 DEF TypeOK, NewListItems
  <1>10. TypeOK'
    BY <1>1, <1>2, <1>7, <1>8, <1>9 DEF TypeOK, NewListItems, marking
  <1>11. QED
    BY <1>1, <1>2, <1>8, <1>10, ProgramStep

LEMMA ListResizeStep == \A c \in Cells : IInv /\ ListResize(c) => IInv'
  <1> SUFFICES ASSUME NEW c \in Cells, IInv, ListResize(c)
               PROVE  IInv'
    OBVIOUS
  <1>1. pc = "program" /\ pc' = pc /\ marked' = marked /\ UNCHANGED <<stack, handle>>
        /\ alive' = alive \cup {c}
    BY DEF ListResize, Allocate, marking
  <1>2. /\ TypeOK /\ marked = {} /\ Known \subseteq Objects /\ Closed(alive)
        /\ Reachable \subseteq alive
    BY <1>1, ProgramFacts
  <1>3. PICK list \in Reachable \cup Globals, item \in Known :
          /\ fields' = [fields EXCEPT ![list] = Append(@, item)]
          /\ tuple' = [tuple EXCEPT ![list] = c]
    BY DEF ListResize
  <1>4. list \in alive \cup Globals /\ list \in Objects
    BY <1>2 DEF TypeOK, Objects
  <1>5. fields[list] \in Seq(Objects) /\ item \in Objects
    BY <1>2, <1>3, <1>4 DEF TypeOK
  <1>6. Append(fields[list], item) \in Seq(Objects)
        /\ Range(Append(fields[list], item)) = Range(fields[list]) \cup {item}
    BY <1>5, RangeAppend, AppendProperties
  <1>7. alive' \subseteq Cells
    BY <1>1, <1>2 DEF TypeOK
  <1>8. /\ fields' \in [Objects -> Seq(Objects)] /\ Closed(alive)'
        /\ \A d \in Cells \ alive' : fields'[d] = <<>>
    BY <1>1, <1>3, <1>4, <1>6, <1>7, StoreKeepsHeap
  <1>9. tuple' \in [Objects -> Cells \cup {Constant, Dangling, Missing, NoList}]
    BY <1>2, <1>3 DEF TypeOK
  <1>10. TypeOK'
    BY <1>1, <1>2, <1>7, <1>8, <1>9 DEF TypeOK, ListResize, marking
  <1>11. QED
    BY <1>1, <1>2, <1>8, <1>10, ProgramStep

LEMMA StoreStep == IInv /\ Store => IInv'
  <1> SUFFICES ASSUME IInv, Store
               PROVE  IInv'
    OBVIOUS
  <1>1. pc = "program" /\ UNCHANGED <<pc, marked, stack, handle, alive>>
    BY DEF Store, marking
  <1>2. /\ TypeOK /\ marked = {} /\ Known \subseteq Objects /\ Closed(alive)
        /\ Reachable \subseteq alive
    BY <1>1, ProgramFacts
  <1>3. PICK o \in Reachable \cup Globals :
          \/ \E value \in Known : fields' = [fields EXCEPT ![o] = Append(@, value)]
          \/ fields' = [fields EXCEPT ![o] = <<>>]
    BY DEF Store
  <1>4. o \in alive \cup Globals /\ o \in Objects /\ fields[o] \in Seq(Objects)
    BY <1>2 DEF TypeOK, Objects
  <1>5. PICK new \in Seq(Objects) : /\ fields' = [fields EXCEPT ![o] = new]
                                   /\ Range(new) \subseteq Range(fields[o]) \cup Known
    <2>1. CASE \E value \in Known : fields' = [fields EXCEPT ![o] = Append(@, value)]
      <3>1. PICK value \in Known : fields' = [fields EXCEPT ![o] = Append(@, value)]
        BY <2>1
      <3>2. value \in Objects
        BY <1>2
      <3>3. Append(fields[o], value) \in Seq(Objects)
            /\ Range(Append(fields[o], value)) = Range(fields[o]) \cup {value}
        BY <1>4, <3>2, RangeAppend, AppendProperties
      <3>4. QED
        BY <3>1, <3>3
    <2>2. CASE fields' = [fields EXCEPT ![o] = <<>>]
      <3>1. <<>> \in Seq(Objects) /\ Range(<<>>) = {}
        BY RangeEmpty
      <3>2. QED
        BY <2>2, <3>1
    <2>3. QED
      BY <1>3, <2>1, <2>2
  <1>6. /\ fields' \in [Objects -> Seq(Objects)] /\ Closed(alive)'
        /\ \A d \in Cells \ alive' : fields'[d] = <<>>
    BY <1>1, <1>2, <1>4, <1>5, StoreKeepsHeap DEF TypeOK
  <1>7. TypeOK'
    BY <1>1, <1>2, <1>6 DEF TypeOK, Store, marking
  <1>8. QED
    BY <1>1, <1>2, <1>6, <1>7, ProgramStep

\* Roots that are known or were roots before keep the heap closed.
LEMMA MoveStep == IInv /\ (StoreGlobal \/ Move) => IInv'
  <1> SUFFICES ASSUME IInv, StoreGlobal \/ Move
               PROVE  IInv'
    OBVIOUS
  <1>1. pc = "program" /\ UNCHANGED <<pc, marked, fields, alive, tuple>>
    BY DEF StoreGlobal, Move, marking
  <1>2. /\ TypeOK /\ marked = {} /\ Known \subseteq Objects /\ Closed(alive)
        /\ Known \subseteq alive \cup Globals
        /\ \A c \in Cells \ alive : fields[c] = <<>>
    BY <1>1, ProgramFacts
  <1>3. /\ handle' \in Known \cup {handle} /\ stack' \in Seq(Objects)
        /\ Range(stack') \subseteq Range(stack) \cup Known
    <2>1. CASE StoreGlobal
      BY <1>2, <2>1 DEF StoreGlobal, TypeOK
    <2>2. ASSUME NEW value \in Known, stack' = Append(stack, value)
          PROVE  stack' \in Seq(Objects) /\ Range(stack') \subseteq Range(stack) \cup Known
      <3>1. value \in Objects /\ stack \in Seq(Objects)
        BY <1>2 DEF TypeOK
      <3>2. QED
        BY <2>2, <3>1, RangeAppend, AppendProperties
    <2>3. ASSUME NEW i \in DOMAIN stack, stack' = RemoveAt(stack, i)
          PROVE  stack' \in Seq(Objects) /\ Range(stack') \subseteq Range(stack) \cup Known
      BY <1>2, <2>3, RangeRemoveAt DEF TypeOK
    <2>4. CASE Move
      BY <2>2, <2>3, <2>4 DEF Move
    <2>5. QED
      BY <2>1, <2>4
  <1>4. Roots' \subseteq alive
    BY <1>2, <1>3, NamesAssumption DEF Roots, Closed
  <1>5. Closed(alive)'
    BY <1>1, <1>2, <1>4 DEF Closed
  <1>6. TypeOK'
    BY <1>1, <1>2, <1>3 DEF TypeOK, StoreGlobal, Move, marking
  <1>7. QED
    BY <1>1, <1>2, <1>5, <1>6, ProgramStep
-----------------------------------------------------------------------------
(***************************************************************************)
(* The collector.                                                          *)
(***************************************************************************)
\* What a collection may use up to the sweep.
LEMMA MarkingFacts ==
  ASSUME IInv, Marking
  PROVE  /\ TypeOK /\ Heap /\ Between /\ Loops /\ Closed(alive)
         /\ Roots \subseteq marked \cup Range(todo)
         /\ Range(todo) \cap Cells \subseteq Reachable
         /\ Range(workList) \subseteq marked /\ marked \subseteq Reachable
         /\ \A i, j \in DOMAIN workList : workList[i] = workList[j] => i = j
         /\ Reachable \subseteq alive
  <1>1. /\ TypeOK /\ Heap /\ Between /\ Loops /\ Closed(alive)
        /\ Roots \subseteq marked \cup Range(todo)
        /\ Range(todo) \cap Cells \subseteq Reachable
    BY DEF IInv, Heap, Loops
  <1>2. /\ Range(workList) \subseteq marked /\ marked \subseteq Reachable
        /\ \A i, j \in DOMAIN workList : workList[i] = workList[j] => i = j
    BY DEF IInv, WorkListIsSet, Marking
  <1>3. QED
    BY <1>1, <1>2, ReachableLeast DEF TypeOK

LEMMA CollectStep == IInv /\ Collect => IInv'
  <1> SUFFICES ASSUME IInv, Collect
               PROVE  IInv'
    OBVIOUS
  <1>1. /\ pc \in {"program", "list"} /\ pc' = "roots" /\ resume' = pc /\ workList' = <<>>
        /\ UNCHANGED <<alive, tuple, fields, stack, handle, program, marked, cursor>>
    BY DEF Collect, program
  <1>2. /\ TypeOK /\ Closed(alive) /\ marked = {} /\ (pc = "list" => stack # <<>>)
        /\ \A c \in Cells \ alive : fields[c] = <<>>
    BY <1>1, ProgramFacts
  <1>3. Reachable' = Reachable /\ Roots' = Roots /\ \A S : Closed(S)' <=> Closed(S)
    BY <1>1, SameProgram
  <1>4. todo' \in Seq(Objects) /\ Range(todo') \cap Cells = Roots
    <2> DEFINE last == IF handle = Null THEN <<>> ELSE <<handle>>
    <2>1. stack \in Seq(Objects) /\ handle \in Objects \cup {Null}
      BY <1>2 DEF TypeOK
    <2>2. last \in Seq(Objects) /\ Range(last) = IF handle = Null THEN {} ELSE {handle}
      <3>1. CASE handle = Null
        BY <3>1, RangeEmpty
      <3>2. CASE handle # Null
        BY <2>1, <3>2 DEF Range
      <3>3. QED
        BY <3>1, <3>2
    <2> HIDE DEF last
    <2>3. todo' = stack \o last
      BY DEF Collect, last
    <2>4. todo' \in Seq(Objects) /\ Range(todo') = Range(stack) \cup Range(last)
      BY <2>1, <2>2, <2>3, ConcatProperties, RangeConcatenation
    <2>5. QED
      BY <2>2, <2>4, NamesAssumption DEF Roots
  <1>5. TypeOK'
    BY <1>1, <1>2, <1>4 DEF TypeOK
  <1>6. Heap' /\ Between'
    BY <1>1, <1>2, <1>3 DEF Heap, Between, Marking, Collecting
  <1>7. Loops'
    BY <1>1, <1>2, <1>3, <1>4, ReachableLeast, RangeEmpty DEF Loops, Marking, Closed, Roots
  <1>8. NoMarkedObjectForgotten' /\ WorkListIsSet' /\ Sweep'
    BY <1>1, <1>2, RangeEmpty DEF NoMarkedObjectForgotten, WorkListIsSet, Sweep
  <1>9. QED
    BY <1>5, <1>6, <1>7, <1>8 DEF IInv

LEMMA VisitStep == IInv /\ Visit => IInv'
  <1> SUFFICES ASSUME IInv, Visit
               PROVE  IInv'
    OBVIOUS
  <1> DEFINE o == Head(todo)
  <1>1. /\ Marking /\ pc \in {"roots", "collections", "mark"} /\ todo # <<>> /\ todo' = Tail(todo)
        /\ UNCHANGED <<alive, tuple, fields, stack, handle, program, pc, resume, cursor>>
    BY DEF Visit, program, Marking
  <1>2. /\ TypeOK /\ Heap /\ Between /\ Loops /\ Closed(alive)
        /\ Roots \subseteq marked \cup Range(todo)
        /\ Range(todo) \cap Cells \subseteq Reachable
        /\ Range(workList) \subseteq marked /\ marked \subseteq Reachable
        /\ \A i, j \in DOMAIN workList : workList[i] = workList[j] => i = j
    BY <1>1, MarkingFacts
  <1>3. Reachable' = Reachable /\ Roots' = Roots /\ \A S : Closed(S)' <=> Closed(S)
    BY <1>1, SameProgram
  <1>4. /\ todo' \in Seq(Objects) /\ Range(todo) = {o} \cup Range(todo')
    <2>1. todo \in Seq(Objects)
      BY <1>2 DEF TypeOK
    <2>2. QED
      BY <1>1, <2>1, RangeHeadTail
  <1>5. IF o \in Cells \ marked
        THEN marked' = marked \cup {o} /\ workList' = Append(workList, o)
        ELSE UNCHANGED <<marked, workList>>
    BY DEF Visit
  <1>6. workList \in Seq(Cells)
    BY <1>2 DEF TypeOK
  <1> HIDE DEF o
  <1>7. /\ marked \subseteq marked' /\ marked' \subseteq Cells
        /\ o \in Cells => o \in marked'
        /\ marked' \subseteq Reachable
    BY <1>2, <1>4, <1>5 DEF TypeOK
  <1>8. /\ workList' \in Seq(Cells) /\ Range(workList') = Range(workList) \cup (marked' \ marked)
        /\ \A i, j \in DOMAIN workList' : workList'[i] = workList'[j] => i = j
    <2>1. CASE o \in Cells \ marked
      <3>1. workList' = Append(workList, o) /\ marked' = marked \cup {o}
        BY <1>5, <2>1
      <3>2. workList' \in Seq(Cells) /\ Range(workList') = Range(workList) \cup {o}
        BY <1>6, <2>1, <3>1, RangeAppend, AppendProperties
      <3>3. Len(workList) \in Nat /\ DOMAIN workList = 1 .. Len(workList)
        BY <1>6
      <3>4. /\ DOMAIN workList' = 1 .. Len(workList) + 1 /\ workList'[Len(workList) + 1] = o
            /\ \A i \in 1 .. Len(workList) : workList'[i] = workList[i]
        BY <1>6, <2>1, <3>1, <3>2, AppendProperties
      <3>5. \A i \in 1 .. Len(workList) : workList[i] # o
        BY <1>2, <2>1, <3>3 DEF Range
      <3>6. \A i \in 1 .. Len(workList) + 1 : i \in 1 .. Len(workList) \/ i = Len(workList) + 1
        BY <3>3
      <3>7. \A i, j \in DOMAIN workList' : workList'[i] = workList'[j] => i = j
        BY <1>2, <3>3, <3>4, <3>5, <3>6
      <3>8. QED
        BY <2>1, <3>1, <3>2, <3>7
    <2>2. CASE o \notin Cells \ marked
      BY <1>2, <1>5, <1>6, <2>2
    <2>3. QED
      BY <2>1, <2>2
  <1>9. \A S \in SUBSET Cells : S \subseteq marked \cup Range(todo) => S \subseteq marked' \cup Range(todo')
    BY <1>4, <1>7
  <1>10. TypeOK'
    BY <1>1, <1>2, <1>4, <1>7, <1>8 DEF TypeOK
  <1>11. Heap' /\ Between'
    BY <1>1, <1>2, <1>3 DEF Heap, Between, Marking, Collecting
  <1>12. Loops'
    <2>1. /\ Range(todo') \cap Cells \subseteq Reachable'
          /\ Roots' \subseteq marked' \cup Range(todo')
      <3>1. Roots \in SUBSET Cells
        BY DEF Roots
      <3>2. QED
        BY <1>2, <1>3, <1>4, <1>9, <3>1
    <2>2. pc' \in {"roots", "collections"} => marked' \subseteq Range(workList')
      BY <1>1, <1>2, <1>8 DEF Loops
    <2>3. pc' = "collections" =>
            \A p \in Globals : Range(fields'[p]) \cap Cells \subseteq marked' \cup Range(todo')
      BY <1>1, <1>2, <1>9 DEF Loops
    <2>4. QED
      BY <2>1, <2>2, <2>3 DEF Loops
  <1>13. NoMarkedObjectForgotten'
    <2> SUFFICES ASSUME pc = "mark", NEW p \in (marked' \ Range(workList')) \cup Globals
                 PROVE  Range(fields[p]) \cap Cells \subseteq marked' \cup Range(todo')
      BY <1>1 DEF NoMarkedObjectForgotten
    <2>1. p \in (marked \ Range(workList)) \cup Globals
      BY <1>8
    <2>2. Range(fields[p]) \cap Cells \subseteq marked \cup Range(todo)
      BY <2>1 DEF IInv, NoMarkedObjectForgotten
    <2>3. QED
      BY <1>9, <2>2
  <1>14. WorkListIsSet' /\ Sweep'
    BY <1>1, <1>2, <1>3, <1>7, <1>8 DEF WorkListIsSet, Sweep
  <1>15. QED
    BY <1>10, <1>11, <1>12, <1>13, <1>14 DEF IInv

\* A step between two loops of the marking: nothing is left to visit, and the
\* next loop's references are in todo'.
LEMMA LoopStep ==
  ASSUME IInv, Marking, Marking', todo = <<>>, UNCHANGED <<alive, program, resume, marked>>,
         TypeOK', Range(todo') \cap Cells \subseteq Reachable,
         pc' \in {"roots", "collections"} => marked \subseteq Range(workList'),
         pc' = "collections" =>
           \A o \in Globals : Range(fields[o]) \cap Cells \subseteq marked \cup Range(todo'),
         pc' = "mark" =>
           \A o \in (marked \ Range(workList')) \cup Globals :
             Range(fields[o]) \cap Cells \subseteq marked \cup Range(todo'),
         Range(workList') \subseteq Range(workList),
         \A i, j \in DOMAIN workList' : workList'[i] = workList'[j] => i = j
  PROVE  IInv'
  <1>1. /\ TypeOK /\ Heap /\ Between /\ Closed(alive)
        /\ Roots \subseteq marked
        /\ Range(workList) \subseteq marked /\ marked \subseteq Reachable
    BY MarkingFacts, RangeEmpty
  <1>2. Reachable' = Reachable /\ Roots' = Roots /\ Closed(alive)' /\ fields' = fields /\ stack' = stack
    BY <1>1, SameProgram DEF program
  <1>3. Heap' /\ Between'
    BY <1>1, <1>2 DEF Heap, Between, Marking, Collecting
  <1>4. Loops' /\ NoMarkedObjectForgotten'
    BY <1>1, <1>2 DEF Loops, NoMarkedObjectForgotten
  <1>5. WorkListIsSet' /\ Sweep'
    BY <1>1, <1>2 DEF WorkListIsSet, Sweep, Marking
  <1>6. QED
    BY <1>3, <1>4, <1>5 DEF IInv

LEMMA BeginCollectionsStep == IInv /\ BeginCollections => IInv'
  <1> SUFFICES ASSUME IInv, BeginCollections
               PROVE  IInv'
    OBVIOUS
  <1> DEFINE globals == SetToSeq(Globals)
             lists == [i \in DOMAIN globals |-> fields[globals[i]]]
  <1>1. /\ Marking /\ Marking' /\ pc = "roots" /\ pc' = "collections" /\ todo = <<>>
        /\ UNCHANGED <<alive, tuple, program, resume, marked, workList, cursor>>
    BY DEF BeginCollections, Marking
  <1>2. /\ TypeOK /\ Loops /\ marked \subseteq Range(workList)
        /\ \A i, j \in DOMAIN workList : workList[i] = workList[j] => i = j
    BY <1>1, MarkingFacts DEF Loops
  <1>3. globals \in Seq(Globals) /\ Range(globals) = Globals
    BY GlobalsAssumption, SetToSeqProperties
  <1>4. Len(globals) \in Nat /\ DOMAIN globals = 1 .. Len(globals)
    BY <1>3
  <1>5. /\ \A i \in 1 .. Len(globals) : globals[i] \in Globals
        /\ \A o \in Globals : \E i \in 1 .. Len(globals) : o = globals[i]
    BY <1>3, <1>4 DEF Range
  <1>6. todo' = FlattenSeq(lists)
    BY DEF BeginCollections
  <1> HIDE DEF globals
  <1>7. lists \in [1 .. Len(globals) -> Seq(Objects)]
    BY <1>2, <1>4, <1>5 DEF TypeOK, Objects
  <1>8. \A i \in 1 .. Len(globals) : lists[i] = fields[globals[i]]
    BY <1>4
  <1> HIDE DEF lists
  <1>9. todo' \in Seq(Objects) /\ Range(todo') = UNION {Range(lists[i]) : i \in 1 .. Len(globals)}
    BY <1>4, <1>6, <1>7, FlattenSeqProperties
  <1>10. \A o \in Globals : Range(fields[o]) \subseteq Range(todo')
    BY <1>5, <1>8, <1>9
  <1>11. Range(todo') \cap Cells \subseteq Reachable
    BY <1>5, <1>8, <1>9, ReachableLeast DEF Closed
  <1>12. TypeOK'
    BY <1>1, <1>2, <1>9 DEF TypeOK, program
  <1>13. QED
    BY <1>1, <1>2, <1>10, <1>11, <1>12, LoopStep

LEMMA BeginMarkStep == IInv /\ BeginMark => IInv'
  <1> SUFFICES ASSUME IInv, BeginMark
               PROVE  IInv'
    OBVIOUS
  <1>1. /\ Marking /\ Marking' /\ pc = "collections" /\ pc' = "mark" /\ todo = <<>> /\ todo' = todo
        /\ UNCHANGED <<alive, tuple, program, resume, marked, workList, cursor>>
    BY DEF BeginMark, Marking, marking
  <1>2. /\ TypeOK /\ Loops /\ marked \subseteq Range(workList) /\ Range(todo) \cap Cells \subseteq Reachable
        /\ \A i, j \in DOMAIN workList : workList[i] = workList[j] => i = j
    BY <1>1, MarkingFacts DEF Loops
  <1>3. \A o \in Globals : Range(fields[o]) \cap Cells \subseteq marked \cup Range(todo')
    BY <1>1, <1>2 DEF Loops
  <1>4. TypeOK'
    BY <1>1, <1>2 DEF TypeOK, program
  <1>5. QED
    BY <1>1, <1>2, <1>3, <1>4, LoopStep

LEMMA IntrospectStep == IInv /\ Introspect => IInv'
  <1> SUFFICES ASSUME IInv, Introspect
               PROVE  IInv'
    OBVIOUS
  <1> DEFINE o == Last(workList)
  <1>1. /\ Marking /\ Marking' /\ pc = "mark" /\ pc' = "mark" /\ todo = <<>> /\ workList # <<>>
        /\ todo' = fields[o] /\ workList' = Front(workList)
        /\ UNCHANGED <<alive, tuple, program, pc, resume, marked, cursor>>
    BY DEF Introspect, Marking
  <1>2. /\ TypeOK /\ Range(workList) \subseteq marked /\ marked \subseteq Reachable
        /\ \A i, j \in DOMAIN workList : workList[i] = workList[j] => i = j
    BY <1>1, MarkingFacts
  <1>3. workList \in Seq(Cells)
    BY <1>2 DEF TypeOK
  <1>4. /\ o \in Cells /\ workList' \in Seq(Cells)
        /\ Len(workList) \in Nat /\ Len(workList') = Len(workList) - 1
        /\ \A i \in 1 .. Len(workList) - 1 : workList'[i] = workList[i]
        /\ Range(workList) = Range(workList') \cup {o}
    BY <1>1, <1>3, FrontLast
  <1> HIDE DEF o
  <1>5. \A i, j \in DOMAIN workList' : workList'[i] = workList'[j] => i = j
    <2>1. DOMAIN workList' = 1 .. Len(workList) - 1 /\ DOMAIN workList = 1 .. Len(workList)
      BY <1>3, <1>4
    <2>2. QED
      BY <1>2, <1>4, <2>1
  <1>6. todo' \in Seq(Objects)
    BY <1>1, <1>2, <1>4 DEF TypeOK, Objects
  <1>7. Range(todo') \cap Cells \subseteq Reachable
    BY <1>1, <1>2, <1>4, ReachableLeast DEF Closed
  <1>8. ASSUME NEW p \in (marked \ Range(workList')) \cup Globals
        PROVE  Range(fields[p]) \cap Cells \subseteq marked \cup Range(todo')
    <2>1. CASE p = o
      BY <1>1, <2>1
    <2>2. CASE p # o
      <3>1. p \in (marked \ Range(workList)) \cup Globals
        BY <1>4, <2>2
      <3>2. Range(fields[p]) \cap Cells \subseteq marked \cup Range(todo)
        BY <1>1, <3>1 DEF IInv, NoMarkedObjectForgotten
      <3>3. QED
        BY <1>1, <3>2, RangeEmpty
    <2>3. QED
      BY <2>1, <2>2
  <1>9. TypeOK'
    BY <1>1, <1>2, <1>4, <1>6 DEF TypeOK, program
  <1>10. Range(workList') \subseteq Range(workList)
    BY <1>4
  <1>11. QED
    BY <1>1, <1>5, <1>7, <1>8, <1>9, <1>10, LoopStep

\* A process that dies leaves the heap as it is.
LEMMA IntrospectFailsStep == IInv /\ IntrospectFails => IInv'
  <1> SUFFICES ASSUME IInv, IntrospectFails
               PROVE  IInv'
    OBVIOUS
  <1>1. pc' = "corrupt" /\ UNCHANGED <<alive, tuple, fields, stack, handle, resume, marked, todo, workList, cursor>>
    BY DEF IntrospectFails, program, marking
  <1>2. TypeOK' /\ \A c \in Cells \ alive : fields[c] = <<>>
    BY <1>1 DEF IInv, TypeOK, Heap
  <1>3. QED
    BY <1>1, <1>2 DEF IInv, Heap, Between, Loops, NoMarkedObjectForgotten, WorkListIsSet, Sweep,
                      Marking, Collecting
-----------------------------------------------------------------------------
\* The marking is over: exactly what can be reached is marked.
LEMMA BeginSweepStep == IInv /\ BeginSweep => IInv'
  <1> SUFFICES ASSUME IInv, BeginSweep
               PROVE  IInv'
    OBVIOUS
  <1>1. /\ Marking /\ pc = "mark" /\ todo = <<>> /\ workList = <<>> /\ pc' = "sweep" /\ cursor' = Cells
        /\ UNCHANGED <<alive, tuple, program, resume, marked, todo, workList>>
    BY DEF BeginSweep, Marking, marking
  <1>2. /\ TypeOK /\ Heap /\ Between /\ marked \subseteq Reachable /\ Reachable \subseteq alive
        /\ Roots \subseteq marked
    BY <1>1, MarkingFacts, RangeEmpty
  <1>3. Reachable' = Reachable
    BY <1>1, SameProgram
  <1>4. marked = Reachable
    <2>1. \A o \in marked \cup Globals : Range(fields[o]) \cap Cells \subseteq marked
      BY <1>1, RangeEmpty DEF IInv, NoMarkedObjectForgotten
    <2>2. Closed(marked)
      BY <1>2, <2>1 DEF Closed
    <2>3. QED
      BY <1>2, <2>2, ReachableLeast DEF TypeOK
  <1>5. TypeOK'
    BY <1>1, <1>2 DEF TypeOK, program
  <1>6. Sweep'
    BY <1>1, <1>2, <1>3, <1>4 DEF Sweep, TypeOK
  <1>7. Heap' /\ Between'
    BY <1>1, <1>2 DEF Heap, Between, Marking, Collecting, program
  <1>8. Loops' /\ NoMarkedObjectForgotten' /\ WorkListIsSet'
    BY <1>1 DEF Loops, NoMarkedObjectForgotten, WorkListIsSet, Marking
  <1>9. QED
    BY <1>5, <1>6, <1>7, <1>8 DEF IInv

\* What a step of the sweep may use.
LEMMA SweepFacts ==
  ASSUME IInv, pc = "sweep"
  PROVE  /\ TypeOK /\ Heap /\ Between /\ marked = Reachable \cap cursor
         /\ Reachable \subseteq alive /\ alive \subseteq Reachable \cup cursor
         /\ \A c \in Cells \ alive : fields[c] = <<>>
  BY DEF IInv, Sweep, Heap

\* It is enough that a step of the sweep keeps types, the empty cells and Sweep.
LEMMA SweepStep ==
  ASSUME IInv, pc = "sweep", pc' = "sweep", UNCHANGED <<resume, stack>>, TypeOK', Sweep',
         \A c \in Cells \ alive' : fields'[c] = <<>>
  PROVE  IInv'
  <1>1. Heap' /\ Between'
    BY DEF IInv, Heap, Between, Marking, Collecting
  <1>2. Loops' /\ NoMarkedObjectForgotten' /\ WorkListIsSet'
    BY DEF Loops, NoMarkedObjectForgotten, WorkListIsSet, Marking
  <1>3. QED
    BY <1>1, <1>2 DEF IInv

LEMMA SweepFreeStep == \A c \in Cells : IInv /\ (SweepFree(c) \/ SweepLive(c)) => IInv'
  <1> SUFFICES ASSUME NEW c \in Cells, IInv, SweepFree(c) \/ SweepLive(c)
               PROVE  IInv'
    OBVIOUS
  <1>1. /\ pc = "sweep" /\ pc' = "sweep" /\ UNCHANGED <<alive, tuple, program, resume, todo, workList>>
        /\ cursor' = cursor \ {c}
        /\ \/ c \notin alive /\ marked' = marked
           \/ c \in alive \cap marked /\ marked' = marked \ {c}
    BY DEF SweepFree, SweepLive, At, marking
  <1>2. /\ TypeOK /\ marked = Reachable \cap cursor
        /\ Reachable \subseteq alive /\ alive \subseteq Reachable \cup cursor
        /\ \A d \in Cells \ alive : fields[d] = <<>>
    BY <1>1, SweepFacts
  <1>3. Reachable' = Reachable
    BY <1>1, SameProgram
  <1>4. marked' = Reachable \cap cursor' /\ alive \subseteq Reachable \cup cursor'
    BY <1>1, <1>2
  <1>5. TypeOK'
    BY <1>1, <1>2 DEF TypeOK, program
  <1>6. Sweep'
    BY <1>1, <1>2, <1>3, <1>4 DEF Sweep
  <1>7. QED
    BY <1>1, <1>2, <1>5, <1>6, SweepStep DEF program

\* Freeing an object that cannot be reached changes nothing for the program.
LEMMA SweepDeadKeeps ==
  ASSUME IInv, NEW c \in Cells, SweepDead(c)
  PROVE  /\ pc = "sweep" /\ pc' = "sweep"
         /\ UNCHANGED <<stack, handle, resume, marked, todo, workList>>
         /\ c \in cursor /\ c \in alive \ marked /\ alive' = alive \ {c} /\ cursor' = cursor \ {c}
         /\ fields' \in [Objects -> Seq(Objects)] /\ fields'[c] = <<>>
         /\ \A o \in Objects \ {c} : fields'[o] = fields[o]
         /\ Reachable' = Reachable /\ c \notin Reachable \cup Globals
  <1>1. /\ pc = "sweep" /\ pc' = "sweep" /\ UNCHANGED <<stack, handle, resume, marked, todo, workList>>
        /\ c \in cursor /\ c \in alive \ marked /\ alive' = alive \ {c} /\ cursor' = cursor \ {c}
        /\ fields' = [fields EXCEPT ![c] = <<>>]
    BY DEF SweepDead, At, marking
  <1>2. /\ TypeOK /\ marked = Reachable \cap cursor
        /\ Reachable \subseteq alive /\ alive \subseteq Reachable \cup cursor
        /\ \A d \in Cells \ alive : fields[d] = <<>>
    BY <1>1, SweepFacts
  <1>3. c \notin Reachable /\ c \notin Globals /\ c \in Objects
    BY <1>1, <1>2, NamesAssumption DEF Objects
  <1>4. /\ fields' \in [Objects -> Seq(Objects)] /\ fields'[c] = <<>>
        /\ \A o \in Objects \ {c} : fields'[o] = fields[o]
    BY <1>1, <1>2, <1>3 DEF TypeOK
  <1>5. Roots' = Roots
    BY <1>1 DEF Roots
  <1>6. PICK R \in SUBSET Cells : R = Reachable
    BY ReachableLeast
  <1>7. Closed(R)
    BY <1>6, ReachableLeast
  <1>8. \A o \in R \cup Globals : o \in Objects /\ fields'[o] = fields[o]
    BY <1>3, <1>4, <1>6 DEF Objects
  <1>9. Reachable' \subseteq R
    <2>1. Closed(R)'
      BY <1>5, <1>7, <1>8 DEF Closed
    <2>2. QED
      BY <2>1 DEF Reachable
  <1>10. R \subseteq Reachable'
    <2>1. ASSUME NEW S \in SUBSET Cells, Closed(S)'
          PROVE  R \subseteq S
      <3>1. Roots \subseteq S \cap R
        BY <1>5, <1>7, <2>1 DEF Closed
      <3>2. \A o \in (S \cap R) \cup Globals : Range(fields[o]) \cap Cells \subseteq S \cap R
        BY <1>7, <1>8, <2>1 DEF Closed
      <3>3. Closed(S \cap R)
        BY <3>1, <3>2 DEF Closed
      <3>4. QED
        BY <1>6, <3>3, ReachableLeast
    <2>2. QED
      BY <2>1 DEF Reachable
  <1>11. Reachable' = Reachable
    BY <1>6, <1>9, <1>10
  <1>12. QED
    BY <1>1, <1>3, <1>4, <1>11

LEMMA SweepDeadStep == \A c \in Cells : IInv /\ SweepDead(c) => IInv'
  <1> SUFFICES ASSUME NEW c \in Cells, IInv, SweepDead(c)
               PROVE  IInv'
    OBVIOUS
  <1>1. /\ pc = "sweep" /\ pc' = "sweep" /\ UNCHANGED <<stack, handle, resume, marked, todo, workList>>
        /\ c \in cursor /\ c \in alive \ marked /\ alive' = alive \ {c} /\ cursor' = cursor \ {c}
        /\ fields' \in [Objects -> Seq(Objects)] /\ fields'[c] = <<>>
        /\ \A o \in Objects \ {c} : fields'[o] = fields[o]
        /\ Reachable' = Reachable
    BY SweepDeadKeeps
  <1>2. /\ TypeOK /\ marked = Reachable \cap cursor
        /\ Reachable \subseteq alive /\ alive \subseteq Reachable \cup cursor
        /\ \A d \in Cells \ alive : fields[d] = <<>>
    BY <1>1, SweepFacts
  <1>3. TypeOK'
    <2>1. tuple' \in [Objects -> Cells \cup {Constant, Dangling, Missing, NoList}]
      BY <1>2 DEF SweepDead, TypeOK
    <2>2. QED
      BY <1>1, <1>2, <2>1 DEF TypeOK
  <1>4. Sweep'
    BY <1>1, <1>2 DEF Sweep
  <1>5. \A d \in Cells \ alive' : fields'[d] = <<>>
    BY <1>1, <1>2 DEF Objects
  <1>6. QED
    BY <1>1, <1>3, <1>4, <1>5, SweepStep

\* The whole heap has been swept: what is left is what can be reached.
LEMMA SweepEnds ==
  ASSUME IInv, EndSweep
  PROVE  /\ alive = Reachable /\ marked = {} /\ pc' = resume
         /\ UNCHANGED <<alive, tuple, program, resume, marked, todo, workList, cursor>>
  <1>1. /\ pc = "sweep" /\ cursor = {} /\ pc' = resume
        /\ UNCHANGED <<alive, tuple, program, resume, marked, todo, workList, cursor>>
    BY DEF EndSweep, marking
  <1>2. QED
    BY <1>1, SweepFacts

LEMMA EndSweepStep == IInv /\ EndSweep => IInv'
  <1> SUFFICES ASSUME IInv, EndSweep
               PROVE  IInv'
    OBVIOUS
  <1>1. /\ alive = Reachable /\ marked = {} /\ pc' = resume /\ pc = "sweep"
        /\ UNCHANGED <<alive, tuple, program, resume, marked, todo, workList, cursor>>
    BY SweepEnds DEF EndSweep
  <1>2. TypeOK /\ Between /\ \A c \in Cells \ alive : fields[c] = <<>>
    BY <1>1, SweepFacts
  <1>3. TypeOK' /\ pc' \in {"program", "list"}
    BY <1>1, <1>2 DEF TypeOK, program
  <1>4. Closed(alive)'
    <2>1. Closed(alive)
      BY <1>1, ReachableLeast
    <2>2. QED
      BY <1>1, <2>1 DEF Closed, Roots, program
  <1>5. pc' = "list" => stack' # <<>>
    BY <1>1, <1>2 DEF Between, Collecting, program
  <1>6. QED
    BY <1>1, <1>2, <1>3, <1>4, <1>5, ProgramStep DEF program
-----------------------------------------------------------------------------
LEMMA InvStutter == IInv /\ UNCHANGED vars => IInv'
  <1> SUFFICES ASSUME IInv, UNCHANGED vars
               PROVE  IInv'
    OBVIOUS
  <1>1. UNCHANGED <<alive, fields, tuple, stack, handle, pc, resume, marked, todo, workList, cursor>>
    BY DEF vars
  <1>2. Reachable' = Reachable /\ Roots' = Roots /\ Closed(alive)' = Closed(alive)
    BY <1>1 DEF Reachable, Roots, Closed
  <1>3. QED
    BY <1>1, <1>2 DEF IInv, TypeOK, Heap, Between, Loops, NoMarkedObjectForgotten, WorkListIsSet,
                      Sweep, Marking, Collecting

LEMMA InvStep == IInv /\ [Next]_vars => IInv'
  <1> SUFFICES ASSUME IInv, [Next]_vars
               PROVE  IInv'
    OBVIOUS
  <1>1. CASE Program
    BY <1>1, NewStep, NewListItemsStep, ListResizeStep, StoreStep, MoveStep, CollectStep DEF Program
  <1>2. CASE Collector
    BY <1>2, VisitStep, BeginCollectionsStep, BeginMarkStep, IntrospectStep, IntrospectFailsStep,
       BeginSweepStep, EndSweepStep, SweepFreeStep, SweepDeadStep DEF Collector
  <1>3. CASE Halted \/ UNCHANGED vars
    BY <1>3, InvStutter DEF Halted
  <1>4. QED
    BY <1>1, <1>2, <1>3 DEF Next

\* The inductive invariant of the heap and the collection.
THEOREM Invariant == Spec => []IInv
  <1>1. QED
    BY InvInit, InvStep, PTL DEF Spec

\* Type correctness.
THEOREM TypeCorrect == Spec => []TypeOK
  <1>1. IInv => TypeOK
    BY DEF IInv
  <1>2. QED
    BY <1>1, Invariant, PTL

\* While the work list is drained, the references of every object that is marked
\* and no longer on the list have been marked or are being visited.
THEOREM NothingForgotten == Spec => []NoMarkedObjectForgotten
  <1>1. IInv => NoMarkedObjectForgotten
    BY DEF IInv
  <1>2. QED
    BY <1>1, Invariant, PTL

\* The work list never holds an object twice, and only objects to be kept.
THEOREM EachOnceOnTheWorkList == Spec => []WorkListIsSet
  <1>1. IInv => WorkListIsSet
    BY DEF IInv
  <1>2. QED
    BY <1>1, Invariant, PTL

\* A collection that ends has freed what cannot be reached, and nothing else,
\* has left the rest untouched and has cleared every mark.
THEOREM CollectionIsExact == Spec => CollectsExactly
  <1> DEFINE A == pc = "sweep" /\ pc' \in {"program", "list"} =>
                    alive = Reachable /\ marked = {} /\ UNCHANGED program
  <1>1. ASSUME IInv, Next, pc = "sweep", pc' \in {"program", "list"}
        PROVE  alive = Reachable /\ marked = {} /\ UNCHANGED program
    <2>1. EndSweep
      BY <1>1 DEF Next, Program, Collector, Halted, vars, New, NewList, NewListItems, ListResize,
                  Store, StoreGlobal, Move, Collect, Visit, BeginCollections, BeginMark, Introspect,
                  IntrospectFails, BeginSweep, SweepFree, SweepLive, SweepDead
    <2>2. QED
      BY <1>1, <2>1, SweepEnds
  <1>2. IInv /\ [Next]_vars => [A]_vars
    BY <1>1
  <1>3. QED
    BY <1>2, Invariant, PTL DEF Spec, CollectsExactly

\* In each of its steps a collection leaves the program the same objects to reach, with
\* the same references, and takes none of them.  What it does take is the tuple of a list,
\* if its cell is freed: the list's items are the same objects, but where they were stored
\* is gone.
OnlyTuplesTaken ==
  [][Collecting => /\ Reachable' = Reachable /\ UNCHANGED <<stack, handle>>
                   /\ Reachable \subseteq alive' /\ alive' \subseteq alive
                   /\ \A o \in Reachable \cup Globals :
                        /\ fields'[o] = fields[o]
                        /\ tuple'[o] = IF tuple[o] \in alive \ alive' THEN Dangling ELSE tuple[o]]_vars

\* The collector runs between two instructions of the program and changes nothing that the
\* program can see, but for the tuples of lists: each one that is freed is lost to all lists.
THEOREM CollectionTakesOnlyTuples == Spec => OnlyTuplesTaken
  <1> DEFINE Kept == /\ Reachable' = Reachable /\ UNCHANGED <<stack, handle>>
                     /\ Reachable \subseteq alive' /\ alive' \subseteq alive
                     /\ \A o \in Reachable \cup Globals :
                          /\ fields'[o] = fields[o]
                          /\ tuple'[o] = IF tuple[o] \in alive \ alive' THEN Dangling ELSE tuple[o]
  <1>1. ASSUME IInv, Next, Collecting
        PROVE  Kept
    <2>0. Reachable \subseteq alive
      <3>1. CASE pc = "sweep"
        BY <1>1, <3>1 DEF IInv, Sweep
      <3>2. CASE Marking
        BY <1>1, <3>2, ReachableLeast DEF IInv, Heap, TypeOK
      <3>3. QED
        BY <1>1, <3>1, <3>2 DEF Collecting, Marking
    <2>1. CASE UNCHANGED <<alive, tuple, program>>
      BY <2>0, <2>1, SameProgram DEF program
    <2>2. ASSUME NEW c \in Cells, SweepDead(c)
          PROVE  Kept
      <3>1. /\ UNCHANGED <<stack, handle>> /\ Reachable' = Reachable /\ c \notin Reachable \cup Globals
            /\ \A o \in Objects \ {c} : fields'[o] = fields[o]
            /\ c \in alive /\ alive' = alive \ {c}
        BY <1>1, <2>2, SweepDeadKeeps
      <3>2. \A o \in Reachable \cup Globals : o \in Objects /\ o # c
        BY <3>1, ReachableLeast DEF Objects
      <3>3. \A o \in Reachable \cup Globals : fields'[o] = fields[o]
        BY <3>1, <3>2
      <3>4. alive \ alive' = {c}
        BY <3>1
      <3>5. \A o \in Reachable \cup Globals : tuple'[o] = IF tuple[o] \in alive \ alive' THEN Dangling ELSE tuple[o]
        BY <2>2, <3>2, <3>4 DEF SweepDead
      <3>6. QED
        BY <2>0, <3>1, <3>3, <3>5
    <2>3. UNCHANGED <<alive, tuple, program>> \/ \E c \in Cells : SweepDead(c)
      BY <1>1 DEF Next, Program, Collector, Halted, vars, program, Collecting, New, NewList,
                  NewListItems, ListResize, Store, StoreGlobal, Move, Collect, Visit,
                  BeginCollections, BeginMark, Introspect, IntrospectFails, BeginSweep,
                  SweepFree, SweepLive, EndSweep
    <2>4. QED
      BY <2>1, <2>2, <2>3
  <1>2. IInv /\ [Next]_vars => [Collecting => Kept]_vars
    BY <1>1
  <1>3. QED
    BY <1>2, Invariant, PTL DEF Spec, OnlyTuplesTaken
=============================================================================
