---------------------------- MODULE MarkAndSweep ----------------------------
(***************************************************************************)
(* MarkAndSweep: the stop-the-world collector of the runtime library, over *)
(* the object graph of a compiled program.                                 *)
(*                                                                         *)
(* Of an object the model keeps the references that introspectObject hands *)
(* to its callback, in order - items of a tuple, list or dict, and slots - *)
(* and the one it follows without handing it on: the tuple in which a list *)
(* keeps its items.  Types are never on the heap (the code generator does  *)
(* not create classes yet), stack objects are never created (so that the   *)
(* bounds of collectStackRoots are empty), and cells are numbered in the   *)
(* order of the sweeps over the size classes.                              *)
(***************************************************************************)
EXTENDS Integers, FiniteSets, SequencesExt

CONSTANTS Cells,     \* the cells of all size classes
          Globals,   \* the mutable collections among the program's globals
          Constant,  \* a tuple of the executable
          Dangling,  \* a pointer to a cell that has been swept
          Missing,   \* the null pointer a list holds before its first tuple
          NoList,    \* in place of the tuple, in objects that are no lists
          Null,      \* the null pointer in a handle
          MaxReferences \* bound: references on the stack, in objects and in the handle

ASSUME CellsAssumption == Cells \subseteq Nat /\ IsFiniteSet(Cells)
ASSUME GlobalsAssumption == IsFiniteSet(Globals)
ASSUME NamesAssumption ==
  /\ Globals \cap Cells = {} /\ Null \notin Cells \cup Globals
  /\ {Constant, Dangling, Missing, NoList} \cap Cells = {}
  /\ Cardinality({Constant, Dangling, Missing, NoList}) = 4
ASSUME BoundAssumption == MaxReferences \in Nat

VARIABLES
  alive,     \* the cells that hold an object
  fields,    \* the references introspectObject visits, of every object
  tuple,     \* m_tuple of every object that is a list
  stack,     \* the references in stack maps and registers
  handle,    \* the value of a global variable
  pc,        \* "program", "list", "roots", "collections", "mark", "sweep" or "corrupt"
  resume,    \* where the program goes on after the collection
  marked,    \* the objects whose mark bit is set
  todo,      \* the references the running loop has not come to
  workList,  \* roots, and then workList
  cursor     \* the cells the sweep has not come to

vars == <<alive, fields, tuple, stack, handle, pc, resume, marked, todo, workList, cursor>>
program == <<fields, stack, handle>>
marking == <<marked, todo, workList>>

Objects == Cells \cup Globals

\* The objects of the heap the program can use: those in every set that has the
\* roots and whatever its members, and the global collections, refer to.
Roots     == (Range(stack) \cup {handle}) \cap Cells
Closed(S) == Roots \subseteq S /\ \A o \in S \cup Globals : Range(fields[o]) \cap Cells \subseteq S
Reachable == {c \in Cells : \A S \in SUBSET Cells : Closed(S) => c \in S}
-----------------------------------------------------------------------------
Init ==
  /\ alive = {}
  /\ fields = [o \in Objects |-> <<>>]
  /\ tuple = [o \in Objects |-> IF o \in Globals THEN Constant ELSE NoList]
  /\ stack = <<>> /\ handle = Null
  /\ pc = "program" /\ resume = "program"
  /\ marked = {} /\ todo = <<>> /\ workList = <<>> /\ cursor = {}

(***************************************************************************)
(* The program, compiled by PylirToLLVMIR.                                 *)
(***************************************************************************)
References == Len(stack) + (IF handle = Null THEN 0 ELSE 1)
              + FoldFunction(LAMBDA f, n : Len(f) + n, 0, fields)
Room == References < MaxReferences

Known == Reachable \cup Globals

\* pylir_gc_alloc, the memset and the store of the type: no collection in between.
Allocate(cell) == cell \in Cells \ alive /\ alive' = alive \cup {cell}

New(cell) ==
  /\ pc = "program" /\ Room
  /\ Allocate(cell)
  /\ stack' = Append(stack, cell)
  /\ UNCHANGED <<fields, tuple, handle, pc, resume, marking, cursor>>

\* A list that is not empty: its size is stored before its tuple is allocated.
NewList(cell) ==
  /\ pc = "program" /\ Room
  /\ Allocate(cell)
  /\ stack' = Append(stack, cell)
  /\ tuple' = [tuple EXCEPT ![cell] = Missing]
  /\ pc' = "list"
  /\ UNCHANGED <<fields, handle, resume, marking, cursor>>

NewListItems(cell) ==
  /\ pc = "list" /\ Room
  /\ Allocate(cell)
  /\ tuple' = [tuple EXCEPT ![Last(stack)] = cell]
  /\ \E item \in Known : fields' = [fields EXCEPT ![Last(stack)] = <<item>>]
  /\ pc' = "program"
  /\ UNCHANGED <<stack, handle, resume, marking, cursor>>

\* The list has reached the capacity of its tuple; the items move to a larger one.
ListResize(cell) ==
  /\ pc = "program" /\ Room
  /\ Allocate(cell)
  /\ \E list \in Reachable \cup Globals, item \in Known :
       /\ tuple[list] # NoList
       /\ tuple' = [tuple EXCEPT ![list] = cell]
       /\ fields' = [fields EXCEPT ![list] = Append(@, item)]
  /\ UNCHANGED <<stack, handle, pc, resume, marking, cursor>>

\* The program adds a reference to an object, or drops them all.
Store ==
  /\ pc = "program"
  /\ \E o \in Reachable \cup Globals :
       \/ /\ Room
          /\ \E value \in Known : fields' = [fields EXCEPT ![o] = Append(@, value)]
       \/ fields[o] # <<>> /\ fields' = [fields EXCEPT ![o] = <<>>]
  /\ UNCHANGED <<alive, tuple, stack, handle, pc, resume, marking, cursor>>

StoreGlobal ==
  /\ pc = "program" /\ (handle = Null => Room)
  /\ handle' \in Known \ {handle}
  /\ UNCHANGED <<alive, fields, tuple, stack, pc, resume, marking, cursor>>

\* A reference comes into a register or stack slot, or one is overwritten.
Move ==
  /\ pc = "program"
  /\ \/ Room /\ \E value \in Known : stack' = Append(stack, value)
     \/ \E i \in DOMAIN stack : stack' = RemoveAt(stack, i)
  /\ UNCHANGED <<alive, fields, tuple, handle, pc, resume, marking, cursor>>
-----------------------------------------------------------------------------
(***************************************************************************)
(* collect()                                                               *)
(***************************************************************************)
Collect ==
  /\ pc \in {"program", "list"}
  /\ pc' = "roots" /\ resume' = pc
  /\ todo' = stack \o (IF handle = Null THEN <<>> ELSE <<handle>>)
  /\ workList' = <<>>
  /\ UNCHANGED <<alive, tuple, program, marked, cursor>>

\* Mutants: the test of the mark bit, or that of isGlobal, is forgotten.
VisitAgain ==
  LET o == Head(todo) IN
  /\ pc \in {"roots", "collections", "mark"} /\ todo # <<>>
  /\ todo' = Tail(todo)
  /\ IF o \in Cells
     THEN marked' = marked \cup {o} /\ workList' = Append(workList, o)
     ELSE UNCHANGED <<marked, workList>>
  /\ UNCHANGED <<alive, tuple, program, pc, resume, cursor>>

VisitGlobals ==
  LET o == Head(todo) IN
  /\ pc \in {"roots", "collections", "mark"} /\ todo # <<>>
  /\ todo' = Tail(todo)
  /\ IF o \in Objects \ marked
     THEN marked' = marked \cup {o} /\ workList' = Append(workList, o)
     ELSE UNCHANGED <<marked, workList>>
  /\ UNCHANGED <<alive, tuple, program, pc, resume, cursor>>

\* The test the three loops share: objects of the executable are not marked, and
\* an object that is marked has been seen.
Visit ==
  LET o == Head(todo) IN
  /\ pc \in {"roots", "collections", "mark"} /\ todo # <<>>
  /\ todo' = Tail(todo)
  /\ IF o \in Cells \ marked
     THEN marked' = marked \cup {o} /\ workList' = Append(workList, o)
     ELSE UNCHANGED <<marked, workList>>
  /\ UNCHANGED <<alive, tuple, program, pc, resume, cursor>>

\* Mutant: the collections among the globals are not introspected.
SkipCollections ==
  /\ pc = "roots" /\ todo = <<>>
  /\ pc' = "collections"
  /\ UNCHANGED <<alive, tuple, program, resume, marking, cursor>>

BeginCollections ==
  /\ pc = "roots" /\ todo = <<>>
  /\ pc' = "collections"
  /\ todo' = FlattenSeq([i \in DOMAIN SetToSeq(Globals) |-> fields[SetToSeq(Globals)[i]]])
  /\ UNCHANGED <<alive, tuple, program, resume, marked, workList, cursor>>

BeginMark ==
  /\ pc = "collections" /\ todo = <<>>
  /\ pc' = "mark"
  /\ UNCHANGED <<alive, tuple, program, resume, marking, cursor>>

Introspect ==
  /\ pc = "mark" /\ todo = <<>> /\ workList # <<>>
  /\ tuple[Last(workList)] # Missing
  /\ todo' = fields[Last(workList)]
  /\ workList' = Front(workList)
  /\ UNCHANGED <<alive, tuple, program, pc, resume, marked, cursor>>

\* The list has no tuple yet, or the memory of its tuple may have been reused.
IntrospectFails ==
  /\ todo = <<>>
  /\ \/ pc = "roots" /\ \E list \in Globals : tuple[list] = Dangling
     \/ pc = "mark" /\ workList # <<>> /\ tuple[Last(workList)] \in {Missing, Dangling}
  /\ pc' = "corrupt"
  /\ UNCHANGED <<alive, tuple, program, resume, marking, cursor>>

BeginSweep ==
  /\ pc = "mark" /\ todo = <<>> /\ workList = <<>>
  /\ pc' = "sweep" /\ cursor' = Cells
  /\ UNCHANGED <<alive, tuple, program, resume, marking>>

\* The next cell of the next size class.
At(c) == pc = "sweep" /\ c \in cursor /\ \A d \in cursor : c <= d

SweepFree(c) ==
  /\ At(c) /\ c \notin alive
  /\ cursor' = cursor \ {c}
  /\ UNCHANGED <<alive, tuple, program, pc, resume, marking>>

\* Mutant: the mark bit is not cleared.
SweepLiveStillMarked(c) ==
  /\ At(c) /\ c \in alive \cap marked
  /\ cursor' = cursor \ {c}
  /\ UNCHANGED <<alive, tuple, program, pc, resume, marking>>

SweepLive(c) ==
  /\ At(c) /\ c \in alive \cap marked
  /\ marked' = marked \ {c}
  /\ cursor' = cursor \ {c}
  /\ UNCHANGED <<alive, tuple, program, pc, resume, todo, workList>>

SweepDead(c) ==
  /\ At(c) /\ c \in alive \ marked
  /\ alive' = alive \ {c}
  /\ fields' = [fields EXCEPT ![c] = <<>>]
  /\ tuple' = [o \in Objects |-> IF tuple[o] = c THEN Dangling ELSE IF o = c THEN NoList ELSE tuple[o]]
  /\ cursor' = cursor \ {c}
  /\ UNCHANGED <<stack, handle, pc, resume, marking>>

EndSweep ==
  /\ pc = "sweep" /\ cursor = {}
  /\ pc' = resume
  /\ UNCHANGED <<alive, tuple, program, resume, marking, cursor>>

\* The process has died, or cannot allocate anything more in a full heap.
Halted == /\ \/ pc = "corrupt"
             \/ pc = "list" /\ (alive = Cells \/ ~Room)
          /\ UNCHANGED vars
-----------------------------------------------------------------------------
Program == \/ \E c \in Cells : New(c) \/ NewList(c) \/ NewListItems(c) \/ ListResize(c)
           \/ Store \/ StoreGlobal \/ Move \/ Collect

Collector == \/ Visit \/ BeginCollections \/ BeginMark \/ Introspect \/ IntrospectFails
             \/ BeginSweep \/ EndSweep
             \/ \E c \in Cells : SweepFree(c) \/ SweepLive(c) \/ SweepDead(c)

Next == Program \/ Collector \/ Halted

Spec == Init /\ [][Next]_vars

\* collect() is a call that nothing else interrupts.
FairSpec == Spec /\ WF_vars(Collector)
-----------------------------------------------------------------------------
Collecting == pc \in {"roots", "collections", "mark", "sweep"}

TypeOK ==
  /\ alive \subseteq Cells /\ marked \subseteq Cells /\ cursor \subseteq Cells
  /\ fields \in [Objects -> Seq(Objects)]
  /\ tuple \in [Objects -> Cells \cup {Constant, Dangling, Missing, NoList}]
  /\ stack \in Seq(Objects) /\ handle \in Objects \cup {Null}
  /\ pc \in {"program", "list", "roots", "collections", "mark", "sweep", "corrupt"}
  /\ resume \in {"program", "list"}
  /\ todo \in Seq(Objects) /\ workList \in Seq(Cells)

\* An object's mark is set when it enters the work list, and never again: so it
\* enters once, and the references of every marked object outside the work list
\* have been visited, or are about to be by the loop that runs.
NoMarkedObjectForgotten ==
  pc = "mark" =>
    \A o \in (marked \ Range(workList)) \cup Globals :
      Range(fields[o]) \cap Cells \subseteq marked \cup Range(todo)

\* The work list holds marked objects of the heap, each once: it stays within
\* the number of objects however the graph is linked.
WorkListIsSet ==
  pc \in {"roots", "collections", "mark"} =>
    /\ Range(workList) \subseteq marked /\ marked \subseteq Reachable
    /\ \A i, j \in DOMAIN workList : workList[i] = workList[j] => i = j

\* A collection that runs to its end leaves the objects that the collector can
\* find, and these only, with their references and without marks: a mark that is
\* left over would keep the object from being visited by the next collection.
\* The tuple of a list is not among the references that the collector follows.
CollectsExactly ==
  [][pc = "sweep" /\ pc' \in {"program", "list"} =>
       alive = Reachable /\ marked = {} /\ UNCHANGED program]_vars

\* Every collection ends.
CollectionEnds == Collecting ~> ~Collecting

\* src/README.md:38 has the statepoints "to support 100% accurate Garbage Collection",
\* so a list that the program can reach must not lose the tuple with its items.
ListsKeepTheirItems ==
  \A list \in Reachable \cup Globals : tuple[list] # Dangling
=============================================================================
