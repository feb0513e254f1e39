# A verification development for Pylir

Pylir is an ahead-of-time compiler for Python. The driver reads the main file,
generates Python-dialect MLIR for it and, concurrently, for every module it imports;
optimizer passes lower that to LLVM IR, which is emitted as an object file and linked
with a runtime library that holds the object model, the exception handling routines
and a mark-and-sweep garbage collector.

This directory holds TLA+ modules translated from the C++ sources, the TLC
configurations that check them on small instances, and TLAPS proofs of the properties
of seven of them for all instances. `PROJECT.json` relates every definition to the
lines of source it stands for.

## 1. Inventory

For every part: its state, its operations, whom it talks to, what makes it hard, and
what makes it correct. "Modelled" names the module, "planned" the one section 9 lists.

### Driver (`src/src/pylir/Main`)

* **Import driver** (`CompilerInvocation.cpp`). State: the set of loaded modules, the
  list of futures, the vectors of documents, syntax trees and source buffers, three
  mutexes. `codegenPythonToMLIR` generates code for the main module; the code generator
  calls `moduleLoadCallback` for every import, which starts a task on MLIR's thread pool
  (or stores a deferred one). Tasks call back in turn. The main thread then walks the
  list of futures while tasks append to it, and links. Hard: data shared under two
  different mutexes or none, cyclic imports, failure of one of many tasks, pointers to
  the locals of tasks that may have returned. Correct: every module that can be reached
  is compiled once, nobody waits forever, nothing is left behind after a failure, and the
  outcome does not depend on the scheduling. *Modelled and proved: ImportProgram, ImportSession,
  ModuleImport.*
* **Output file** (`executeAction`, `ensureOutputStream`, `finalizeOutputStream`). State:
  an optional temporary file and stream, the action. Hard: every early return has to keep
  or discard the file. *Planned: OutputFile.*
* **Diagnostics** (`Diagnostics/DiagnosticsManager.*`, `Main/DiagnosticsVerifier.*`).
  State: per document an errors-occurred flag, one callback mutex, the verifier's map of
  expected messages. *Modelled as far as tasks interact through it, in ModuleImport.*
* **Toolchains and command line**. They compose argument vectors and look for installed
  compilers. No state to speak of. *Not modelled.*

### Front end

* **Lexer** (`Lexer/Lexer.cpp`). State: the indentation stack, the depth of brackets, a
  queue of tokens. Correct: INDENT and DEDENT match. *Planned: Indentation.*
* **Parser** (`Parser/*.cpp`). Recursive descent; state: the token position and the scopes
  of names. *Not modelled; scope resolution is a candidate.*
* **Code generator** (`CodeGen/CodeGen.cpp`). State: the insertion point, scopes, the
  current loop and exception handler, and the stack of finally blocks that `return`, `break`
  and `continue` unwind. Hard: a finally clause is generated anew for every way into it, and
  each copy has its own loop, handler and remaining clauses. Correct: the code runs like
  Python. *Modelled: Python, and modelled and proved: TryStatements (control flow). The order of imports and errors is in
  ImportProgram; planned: ImportResolution for the qualifiers and paths. Expressions and
  classes are emitted by one builder call after another: not modelled.*

### Optimizer (`Optimizer`)

* **SSABuilder** builds SSA form for blocks that may still gain predecessors. State: the open
  blocks, a table of definitions for each variable. Hard: arguments are added on suspicion
  and removed again while others refer to them. Correct: a read gives what the variable holds.
  *Modelled: SSABuilder.*
* **Inliner, TrialInliner, Monomorph** have work lists and a call graph or call stack of
  their own. Correct: they end, and each function is in a state that a rollback restores.
  *Planned: TrialInlining, Monomorph scheduling.*
* **Linker** merges modules by symbol. *Planned with ImportResolution.*
* **Dialects, conversion to LLVM, statepoint placement.** Rewriting pattern by pattern.
  *Not modelled, except the allocation sequences the collector depends on.*

### Runtime library (`Runtime`)

* **Garbage collector** (`MarkAndSweep.cpp`, `Stack.cpp`, `Globals.cpp`). State: mark bits in
  the objects' type pointers, a work list; roots from stack maps, handles and global
  collections. `collect()` runs inside any allocation. Hard: every allocation is a point
  where the graph must be in order; cycles; mark bits left over. Correct: exactly what
  the program can reach survives, unmarked. *Modelled and proved: MarkAndSweep.*
* **Segregated free lists** (`SegregatedFreeList.*`). Four size classes; pages of equal
  cells, the free ones linked through their first word. Sweep and destructor tell a free
  cell from an object only by comparing it with the list's head. *Modelled and proved:
  CellPool, SegregatedFreeList.*
* **Best-fit tree** (`BestFitTree.*`). Objects over 128 bytes: blocks with boundary tags,
  coalesced when freed, the free ones in an AVL tree by size with lists of equal sizes.
  *Modelled and proved: BestFitTree (the index), BestFitHeap
  (the blocks in their pages).*
* **Exception handling** (`ExceptionHandling.cpp`). The two-phase personality function,
  which caches in phase one what it needs in phase two. *Planned.*
* **Objects and hash table** (`Objects.*`, `Support/HashTable.hpp`). An open-addressing table
  over a vector of values in order of insertion. Hard: an entry's place depends on all that
  was inserted and removed before. Correct: it is a map that iterates in order of insertion.
  *Modelled: OrderedMap; modelled and proved: HashTable. Objects have accessors only and are not modelled.*

### Support library, third-party code

Text conversion, big integers, variants: pure functions with unit tests. `3rdParty` and
the Unicode tables are vendored or generated. *Not modelled.*

## 2. Imports: ImportProgram, ImportSession, ModuleImport

**ImportProgram** describes source trees: what code generation meets in each unit, in order
(an import by the module it resolves to, or a statement with an error), and whether the
file cannot be read or parsed. `Reach` is the set of modules that can be reached.
**ImportSession** is the promise: one step from running to success with exactly the
reachable modules linked, or to failure, and which of the two is a function of the tree.

**ModuleImport** is the protocol. Every unit (the main file or a module) has a program
counter; the main thread's also covers the joining loop. Correspondence:

| code | actions |
| --- | --- |
| `moduleLoadCallback` up to the duplicate check, and the insertion into `loaded` | `DuplicateRequest`, `Request` |
| `pool.async` or `std::async(deferred)` | `Submit` |
| `futures.emplace_back`, end of the lock | `Push` |
| a pool thread takes a task; `get()` runs a deferred one | `StartPooled`, `StartDeferred` |
| `sys::fs::status`, `readNativeFile`, closing of the handle | `ReadFile`, `CrashOnReport` |
| `addDocument`, the parser, code generation | `BeginAddDocument`, `EndAddDocument`, `Parse`, `CodegenError`, `Return` |
| `SubDiagnosticsManagerBase::report` | `EnterCallback`, `LeaveCallback` |
| the loop over the futures, `linkModules` | `MainCodegenDone`, `Get`, `Advance`, `Link` |

Lock operations are separate steps wherever something of another thread can come between.
`dsOwner`, `srcOwner` and `cbOwner` are the three mutexes. A report through a document
manager whose task has returned is undefined behaviour: the model either goes on
(`ReadFile`) or crashes (`CrashOnReport`).

*Run `imports`* (MCModuleImport): four shapes of source trees over three modules - cycles,
self-imports, repeated imports, errors before imports, a lower-numbered module requested
after a higher one - times every choice of at most two faulty files, both threading modes,
two workers. Three modules are needed for a cycle that does not include the first import,
and two workers for tasks to overlap with each other and the main thread at once.

* `LastFutureIsQuiet`: the walk over the list is not under the mutex that guards it. It is
  sound because at the last node no task is left that could append.
* `NoModuleMissed`: when the walk ends, exactly the reachable modules were compiled, each once.
* `ModulesReclaimed`: failure leaves no `ModuleOp` alive, success links every live one.
* `DeterministicOutput`: the link order and dependency file do not depend on scheduling.
* `OnlyDuplicatesLeak`: duplicate requests leave their file handle open, nothing else does.
* `OutcomeIsDeterministic`: refinement of ImportSession.
* `Terminates`: no deadlock on mutexes or futures, under weak fairness of each thread. That
  is what the operating system's scheduler provides: no thread that can run is put off forever,
  and no lock is held across a wait.

Two more properties are stated in the module, do not hold, and are checked by no run:
`CallbackIsExclusive` (the verifier's callback, under the callback mutex, and its
`addDocument`, under the source mutex, work on one map at the same time, against what
`DiagnosticsManager.hpp` says of callbacks) and `ReportsReachLiveManager` (a task reports a
read error to the document manager of a requester that has returned).

## 3. The collector and its allocators

**CellPool** promises of an allocator of equal cells: it hands out cells that hold no object, and
takes back only objects that the program cannot reach. **SegregatedFreeList** is the code:
`Pop`, `Grow` and `Collect` are the three ways through `nextCell`; `SweepFree`, `SweepLive`, `SweepDead` and
`EndSweep` are the rounds of `sweep()`; `FindHead`, `DestroyFull`, `SkipFree`, `DestroyRest` and `EndDestroy`
those of the destructor. A cell's first word is a type or the next free cell, as in the code,
and `Drop` is the program's loss of a reference. Marking is done by
MarkAndSweep; here exactly the reachable objects are marked when a sweep starts.

*Run `free_list`*: two pages of three cells, so that the head can be on either page, in the
middle of a page, or absent, and sweeps free none, some and all cells of a page.
`FreeListInOrder` is the invariant everything rests on; `OnlyObjectsDestroyed` says no free cell's
link is read as a type; `CollectionIsComplete`, `NothingLeftUndestroyed` and
`ImplementsPool` are the promises. That a page is added only when no cell is left, `GrowsOnlyWhenFull`, is proved and checked by no run.

**MarkAndSweep** is `collect()` over an object graph: `Collect` gathers the roots, `Visit` is one round
of the three loops that test, mark and enqueue, `BeginCollections` introspects the global
collections, `Introspect` takes an object from the work list, the `Sweep*` actions go over the cells of all
size classes. The program creates objects and lists, stores references, drops them, and calls
the collector at every allocation - among them the one between storing a new
list's size and its tuple (`NewListItems`), and the one in the middle of `ListResize`.
Types are always constants, because the code generator does not create classes at run time.

*Run `collector`*: three cells, one global collection, at most three references at once: enough for
cycles, shared objects, an object held by a global only, and a list with its tuple.
`NoMarkedObjectForgotten` is the invariant of marking, `WorkListIsSet` bounds the work list,
`CollectsExactly` says what a finished collection leaves, `CollectionEnds` that it finishes; the only
fairness is that the collector, a plain call, keeps running. *Run `list_items_swept`* shows that the
tuple of a reachable list is swept: `introspectObject` visits the items but not their storage.
(The action `IntrospectFails` is the crash of a collection that meets a list without a tuple.)

**BestFitTree** is the index of free blocks: `LowerBound`, the three cases of `insert`, one action
for a round of each rebalancing loop, `SwapNode`, `remove`, the two ways `alloc` takes a block, and
`unlinkBlock`. Blocks enter and leave in any order; the sizes are chosen at the start. Where a
link leads to a block that has left, the program's data decides what happens, and the model ends
(`Ended`); it also ends where a null pointer is followed (`RotatesNull`).

*Run `best_fit`*: six blocks, all of different sizes or two of each. `BestFit` compares every
possible descent with its definition over the set of free blocks; `LinksAgree` relates all pairs of
links. *Run `tree_balance`* shows that the assertions in `verifyTree` do not hold after a removal with a
rotation (with five or six blocks this leads to the null pointer above). The properties of
`best_fit` speak of the time before such a defect bites: where a link leads to a block that has left, they claim nothing.
This happens in two ways, and the run reaches both. When two blocks of one size have come in, `unlinkBlock` of the one that is the node
exchanges the two ("instead of a remove and then a reinsert") and leaves the block in the list of its size, although
`free()` inserts it again under its new size: it can be found in two ways. And `remove` of a node with two children takes
the list of its predecessor along. `StraysAreInLists` speaks of these states too: only a list leads to the block that has left, and which one;
the tree never does. It is what `Astray` of BestFitHeap relies on.

**BestFitHeap** is what the tree is for: pages cut into blocks with boundary tags. `size`, `previous`
and `free` are the headers in memory, also those that a merger has left inside a larger block, because
`sweep()` reads the next block from such a header after `free()`. Of the tree the model keeps which blocks it leads to
(`index`) and which of these are its nodes (`heads`), the others being in the list behind the node of their size; that
`lowerBound` finds the best fit is the property `BestFit` of BestFitTree. A block goes astray in two ways: `unlinkBlock`
leaves a node that has a list in that list, and `remove` drops the list of the node that it exchanges with
a node with two children. `Astray` says which blocks these are for every shape the tree may have, in `SweepDead` and in `Alloc`.
What the code does with such a block depends on the tree's links - it may hand one block out in two ways, or
never again - and the model ends with that step (`pc` is "astray"). The null pointer that wrong balances lead to
(`RotatesNull`) is in BestFitTree only.

`Alloc` and `NewPage` are the ways through `alloc`, with the split. A new page may be too small for its object (`TooSmall`), since
`pageAllocBytes` rounds up before the two headers are taken off; the object is allocated all the same, and the model ends, since it
reaches over the header at the end of the page (`pc` is "overrun"). `SkipFree`, `SweepLive`, `SweepDead` (with
the whole of `free()`) and `NextPage` are the rounds of `sweep()`, `DestroyBlock` those of the destructor.
`EndSweep` also forgets the headers inside blocks, which nothing reads after the walk.

*Run `best_fit_heap`*: two pages of ten units or one of twenty, and requests of one, five, nine and twelve units
with the limit at zero, so that up to four blocks fit on a page, a block merges to the left, to the right and on both sides, and a
rest is either split off or too small; nine units overrun, and twelve need two pages. Blocks go astray within these bounds by `unlinkBlock` and by
`remove`, both in `SweepDead`; a list that is dropped in `Alloc` needs more blocks than these. `BlocksTile`: the blocks
follow each other to the sentinel and each knows the one before, in every state. `FreeBlocksIndexed`: until a block is astray, the index is
exactly the free blocks, with one node for each size, and no two of them are neighbours; afterwards it claims nothing. `ObjectsHaveRoom`: every
object has an allocated block with room for it, with one exception that the run reaches: the object of a page that is too small.
`CollectionIsComplete`, `NothingLeftUndestroyed` and the refinement of CellPool are what an allocator owes its users; they are claimed up to and
including the step that leaves a block astray, and no collection goes on after it.

## 4. The hash table: OrderedMap, HashTable

**OrderedMap** is what a dictionary needs: entries in the order of their insertion, each key once.
**HashTable** is `Support/HashTable.hpp`, one action for each of `insert`, `insert_or_assign`, `erase` and
`clear`. `values` is the vector `m_values` and `buckets` the array of (index, hash) pairs; index
zero stands for `EMPTY_INDEX`, and positions in `values` start at one. `Distance` is
`distanceFromIdealBucket` as it is written: zero at home, and otherwise not the distance but the
bucket count plus or minus something. `DoInsert` walks like `doInsert`, a bucket at a time (`Visited`), exchanging entries on
the way; `Rehashed` carries the entries over from the first one at home (`Heads`); `Shifted` is the move of
`erase` around the end of the array and `Without` the correction of the indices.
`EraseWithoutBuckets` and `Clear` end in states where the next access is undefined. So does a rehash that finds no entry at
home: `insertionRehash` then starts behind the last bucket, and `status` is "overrun". With hashes 0 for the keys 1 to 3 and 1 for
4 to 9, inserting 1, 2, 4, 3, erasing 1, 2, 4, inserting 5 to 9 and 4, and then 1 leads there; no run has nine keys. A lookup has no
action: `Found` and `FoundAt` are what `find` would answer in any state.

*Run `hash_table`*: five keys with two values, in tables of two, four and eight buckets. Only the order of
hashes modulo the table size matters, and 6, 7, 0 give runs that go around the end and meet. With
removals the hashes are 3 and 7, whose runs never meet in a table of eight. `FindsEveryKey` relates
both arrays, `SomeBucketIsEmpty` is what makes every search end, `ImplementsMap` is the refinement of OrderedMap.
The restriction is there because without it `FindsEveryKey` fails: *run `hash_probing`* allows all hashes
with all removals, and finds that the removal of a key can hide another one.
The arithmetic also limits a run without removals: a sixth key with the same hash in a
table of eight would not be found, which five keys do not reach.

Comparison of keys is atomic here. In a dictionary `equal` may run a Python `__eq__` that changes the
same table; that interleaving is not modelled.

## 5. Control flow: Python, TryStatements, TryPrograms

**Python** says what statements mean, as a machine over the syntax tree (the constructors correspond to
`Parser/Syntax.hpp`): `python.now` is a suite, an expression that is about to be evaluated (a
*point*), or the completion of a statement, and `python.stack` the statements around it. Nothing in it comes from the
code generator. What an expression gives is chosen anew each time from the point's outcomes.

**TryStatements** is what `CodeGen` makes of the same syntax tree. The members that determine how a statement is
generated (`m_currentLoop`, `m_finallyBlocks`, `m_currentExceptBlock`) are an environment, and a
basic block is the code from it on: a sequence of items, each a statement or a test with the environment it
is generated in. So a finally clause generated five times is five items in different environments, and
generation and run are interleaved lazily: the code of a path is generated when the path is taken.

| code | definitions |
| --- | --- |
| `visit(TryStmt)`: pushing the clause, the suite, `else`, `enterFinallyCode` | `EnterTry`, `TryCode`, `EnterFinally` |
| `visit(TryStmt)` from `implementBlock(exceptionHandler)` on | `Excepts`, `CodeObserve` |
| `executeFinallyBlocks` | `Left`, `FinallyOutside`, `ExecuteFinallyBlocks` |
| `visit(ReturnStmt)`, `visit(SingleTokenStmt)` | `Jump` |
| `visit(WhileStmt)`, `visitForConstruct`, `visit(IfStmt)` | `TestItem`, `CodeOfBody`, `CodeOfRaise`, `CodeObserve` |
| `raiseException`, and the exception path of calls | `RaiseException` |
| `implementFunction` | `FunctionCode`, `CodeLeave` |

`Observe` is the step in which both sides are at the same point and get the same outcome; `Follow` lets Python catch
up. If the two are at different points, or end differently, `AgreesWithPython` is violated.

*Run `try_statements`*: loops with a try statement of all clauses inside and a handler around, iterations, nested loops with
three clauses, calls, clauses that are nothing but a jump, and the function `foo` that the comment in
`executeFinallyBlocks` describes, with every jump in every place. `HandlersEnclose` is the structural
reason why exceptions in finally clauses go to the right handler. `ReachesNextStatement` is the comment's other
concern, that a `return` in a finally clause does not lead back into the clause; it assumes that the
code keeps running (weak fairness of `CodeStep`: a single thread of plain instructions), and nothing about outcomes.

*Run `try_python`* has six functions for which the generated code is not Python, each of which violates `AgreesWithPython` by itself:
an exception that no clause takes, or that comes from `next`, is raised out of the function past an enclosing handler; an exception in a handler
skips the finally clause of the same statement; one in an else clause is caught by the statement's own handlers;
a `return` without a value in a loop skips the clauses around the loop; the body of a local function runs the
clauses around its definition; `break` in a clause that a `return` runs leaves the wrong loop. The functions of the
passing run avoid these six forms. `with`, generators, and the unbinding of
exception names (`TODO`s in the source) are not modelled.

**TryPrograms** says what avoiding them means. A context (`Contexts`) is what a statement may do where it stands: raise an
exception, raise one that no handler of the function takes, leave a loop, return with or without a value. Each construct gives its parts
contexts of their own, and every restriction stands for one of the six deviations:

| definition | what it excludes | code |
| --- | --- | --- |
| `SuiteCtx` | an exception that no clause takes, inside of another handler | `CodeGen.cpp:1469` |
| `Rule` of `for` | one from `next`, inside of a handler | `CodeGen.cpp:1212` |
| `HandlerCtx` | an exception in a handler, if there is a finally clause | `CodeGen.cpp:1353` |
| `ElseCtx` | one in an else clause | `CodeGen.cpp:1316` |
| `LoopCtx` (`bare`) | a `return` without a value in a loop with finally clauses around | `CodeGen.cpp:176` |
| `Rule` of functions | a call right behind its definition in a try statement with a finally clause | `CodeGen.hpp:424` |
| `LoopCtx` (`value`), `plain` | a `return` in a loop, if a finally clause around jumps or returns without a value | `CodeGen.cpp:2256` |

`Legal` gives every context its statements, and `Regular` says that each of them keeps to `Rule` by what it consists of. That is a condition
on one level of a statement at a time, with no recursion in it, so that proofs can use it. TLC evaluates it at the
start of both runs: the programs of `try_statements` are regular (`RegularPrograms`), with each finally clause, handler and loop they have, and each
of the six deviations is not (`IrregularDeviations`). `LegalOf` collects what has to be legal, the statements of a program with
the contexts they stand in.

## 6. Variables: SSABuilder

**SSABuilder** is `Optimizer/Transforms/Util/SSABuilder.cpp` on functions that are built operation by operation: a script says which
block is opened, branched from, read, written or sealed, in the order in which the code generator does it
(`markOpenBlock`, branch operations, `readIdentifier`, `writeIdentifier`, the scope exits that seal). `ir` has the blocks' arguments, the
branches with their operands, the definitions of each variable, the open blocks, and the value that every read was
given. Replacing a value everywhere (`replaceAllUsesWith`, which the `ValueTracker`s of the tables follow) is
part of `Erase`. `readIdentifier` also splits the block to test for an unbound variable; the rest of the block then has one
predecessor, and the model keeps both halves as one block.

When the script is done, the function is run: `RunOperation` and `TakeBranch` execute it along every path, with the values on one
side and an ordinary memory of variables on the other. `ReadsTheVariable` compares them at every read.

*Run `ssa_builder`*: a choice of two or of three in a loop, a choice in a choice in a loop, a loop in a loop, and a handler to which every
block of a loop can come, with combinations of assignments and copies of two variables in the blocks. `MaxSteps` bounds a run to twelve
blocks: more than two rounds of the longest loop, so that values of the round before last would show. MLIR lists the uses of a value and the
predecessors of a block in an order of its own; the run takes both directions. `TypeOK` also says the form is minimal.

`tryRemoveTrivialBlockArgument` holds a list of arguments to visit while it removes others. An argument on the list may be erased before its
turn, and then destroyed memory is used. Nothing is defined from there on, so the model ends (`revisited`), and the properties
speak of the functions, and of the orders of uses, for which that does not happen. The run has both ways to it:

* an argument can be on the list twice and be removed on the first visit, where two of three branches pass the same for it (`Chained` in MCSSABuilder):
  `v = w; while a: (if b: v = w elif c: pass); use(v); v = w`;
* or it is removed from within the visit of another one on the list, with the uses listed from the newest on (`Inner`):
  `v = w; while a: (if b: if c: v = w); use(v); v = w`.

`NoErasedArgumentKept` says that this is the only way: what replaces an argument, what the tables record, what branches pass and what
is sealed is never an erased argument. The repository states nothing about which functions can be built, so no run claims the contrary of the above.

## 7. What is proved

TLAPS proves, for every value of the constants that satisfies the named assumptions. None of the
properties is inductive; each module of proofs has an invariant `IInv` that is, and that implies them.

* **ModuleImportProofs** (assumptions: modules are numbers other than the main unit; programs
  are well-typed trees; at least one worker): `TypeOK`, `LastFutureIsQuiet`, `NoModuleMissed`, `ModulesReclaimed`,
  `DeterministicOutput`, `OnlyDuplicatesLeak`, and that ModuleImport
  implements ImportSession: everything the run checks but liveness. The invariant `IInv` adds: who holds
  each mutex is at the matching point of its code; a module is loaded exactly if it is listed
  or about to be; a task exists for each listed module; futures before `position` are of
  finished tasks; and - what `NoModuleMissed` needs - every import that a unit has come
  past is loaded. At the last node all tasks but none are done, so nobody appends, so the list is
  closed under imports; it holds only what is reachable because each request comes from a unit
  that is. The invariant is a disjunction with the crashed states, in which nothing moves.
  `ModulesReclaimed` follows from the main thread alone creating and destroying the linked modules once it has
  all futures. For `DeterministicOutput` the lemma `SortingPermutation` says that a strictly ordered set has only
  one sorted sequence, and `QualifierOrderProperties` that the order `linkModules` sorts by is one.
  For `OnlyDuplicatesLeak` the invariant counts: the open handles are the statements met so far, less the modules loaded, plus
  those whose file has not been read.
* **SegregatedFreeListProofs** (assumptions: positive page size, and null and type words are no
  cells): all six properties of the run, and `GrowsOnlyWhenFull`. The inductive invariant describes the list between operations
  (each free cell links to the next free cell in page order), in the middle of a sweep (the part before the
  cursor is a new list that ends in `lastFree`, the part after it is the old one), and in
  the middle of a destruction (the prefix is empty).
* **MarkAndSweepProofs** (assumptions: finitely many cells and global collections, whose names differ, and a
  bound on the program's references): `TypeOK`, `NoMarkedObjectForgotten`, `WorkListIsSet`, `CollectsExactly`, and - a
  consequence of it that the program sees - that each step of a collection
  leaves the program its roots and the references of all that is reachable, and takes nothing but the tuples of lists, those
  whose cell it frees (`CollectionTakesOnlyTuples`; that it does take them is the finding of `list_items_swept`).
  `IInv` says that `collect()` starts without marks, that the roots not yet visited and the work list together lead to
  every reachable object that has no mark, and that the sweep has removed the marks behind its cursor only. When the work
  list is empty the marked objects are closed under references and contain the roots; `Reachable` is the least
  such set (`ReachableLeast`), hence included, and only what is reachable was ever marked.
* **BestFitHeapProofs** (assumptions: a page with room for its two headers and a block above the limit, requests above the limit of the segregated
  lists, null is no address): all seven properties of the run, among them the refinement of CellPool. `Headers` says in
  which addresses a header can be trusted: from every page's first address on, sizes lead to the page's end, and each
  header knows its predecessor (`Tiles`). Splitting and merging are lemmas about this structure.
  `Rooted` says that each size in the index has one node; it is kept by leaving, entering and changing sizes elsewhere. What is
  proved of the index and of CellPool has the limits of the properties: up to the step that leaves a block astray; `ObjectsHaveRoom` has its one exception. `Walk` is the delicate part:
  `free()` may merge the block that `sweep()` is at into the one before it, after which the cursor stands
  inside a block; the invariant keeps the old header there (`Merged`), so that its size still leads to the next block, and
  the sweep meets every block once. `Live` ties the objects to the marks ahead of the cursor.
* **BestFitTreeProofs** (assumptions: sizes are natural numbers, null is no block): `TypeOK`, `BestFit` and `LinksAgree` of
  the run, for any set of blocks and sizes. The pointers are compared with a picture that the program does not
  have (`Sound`): every header has a key and an interval of keys, every block of a list a rank.
  `Shape` and `Spans` say that the children divide a header's interval at its key, that no key is where a child
  is missing, and that intervals are nested or apart; keys are in the order of the sizes. The first part shows, for the pointers
  alone, that such a picture survives a rotation, a new leaf (all keys are doubled to make room), cutting out a header with one child
  at most, and headers that change places; the mirror image is had by negating the keys. The second part shows that `Rotate`,
  `FixUp`, `SwapNode`, `Detach` write those pointers, whatever the order of the aliases in them: in `SwapNode` the two blocks
  may be parent and child. `LowerBoundFinds` goes by induction on the length of the interval, which is why the descent ends without
  an assumption that the blocks are finitely many.
  The invariant: between operations there is a picture (`Orderly`); while an insertion climbs, also
  the balance of the current block names a child that it has (`Growing`); while a removal goes on, the block that leaves has exchanged
  places with its predecessor, so the order holds for all others only, it has one child at most, and the block the loop has
  reached spans its key (`Leaving`) - or a rotation could give the leaving block a second child, which `Detach` would lose.
  Nothing is assumed of the balances but that a block in the tree is not marked allocated: the proofs
  hold although removals leave wrong balances (`tree_balance`). A null pointer that they lead to ends the model (`RotatesNull`), and
  so does a link to a block that has left (`Usable` is a premise, as in the properties).
* **HashTableProofs** (assumptions: programs are hash functions of the keys with sets of keys that are erased): `TypeOK` and
  `SomeBucketIsEmpty` for every hash function, those that `hash_probing` breaks included; that each value has its entry, with its key's hash, in
  exactly one bucket until the buckets are freed (`EntriesPlaced`); and that the table is an OrderedMap as long as lookups find what
  is there (`MapIfFound`), so that a wrong lookup is all that can go wrong. The argument never uses a distance.
  `Holds` says that the entries in the buckets are a given set, each once. `doInsert` always carries one entry that the table lacks
  (`Carrying`) and meets an empty bucket since it goes around a table that has one; `Rehashed` is a sum of such
  insertions; `Shifted` moves a run back by one over the entry that goes (`MovedBack`), and `Without` is one-to-one on the indices that are
  left. `IInv` adds that there are more buckets than values, which `Fits` keeps because the quotient is an integer.
  Remainders are proved from the definition of division: n steps from anywhere reach each bucket once (`AroundOnce`, `AroundReaches`).
* **TryStatementsProofs** (assumption: `Regular`): `AgreesWithPython` and `HandlersEnclose` for every regular program, with statements nested to any
  depth and suites of any length. The proof is a simulation. `Follows` says that Python gets by itself (`Reaches`) to a state that is
  related to the code (`Related`): for every frame on Python's stack there is a level (`Nested`), with the environment the code of that level was
  generated in, the context it stands in, and the code behind it (`rest`), and the code is the first level's with what is being done in
  front (`Fits`). A completion is related to the code that a jump or an exception has become (`Abrupt`): the finally clauses still to be left, in
  order, and the target. The heart is that leaving a try statement takes the clause off both sides: `LeavesOwnFirst` (the first copy of
  `executeFinallyBlocks` is the innermost clause, and the other copies are those of the environment around it), `JumpOut`, `RaiseOut` and `ClauseOut`.
  A copy for a `return` out of a loop is generated in a loop that is not its own; `PlainAbrupt` shows that this does no harm where the context is plain.
  One step of the code is several of Python and some steps of Python are none of the code: `Settles` shows, by a measure on frames (`MeasureDecreases`),
  that Python comes to where the next step of the code is its own, with nothing said about its own loops ending.
  `HandlersEnclose` is about data that is nested without end (environments in handlers in environments, and in the code that is kept in them). No induction over it
  is needed: `Encloses` says that there is a set of environments that is `Closed` - what a member holds is in the set again - and that contains those of the
  code. Every construct adds the few environments it makes.
* **ProofLemmas** has what these proofs share. Since a theorem with an operator parameter cannot be used, induction over
  numbers is stated for sets: `NatMin` (a set of naturals has a least member) and `NatSetInduction`. `TailRecursion`
  says that a tail recursion whose rank decreases has a solution; `LowerBound` is one.

Only model-checked:

* Liveness (`Terminates`, `CollectionEnds`, `ReachesNextStatement`): beyond the prover.
* `FindsEveryKey` (HashTable), and with it `ImplementsMap` without the premise of `MapIfFound`: they hold for the programs of `hash_table`
  and fail for others (`hash_probing`), so there is no theorem for all hash functions.
* `StraysAreInLists` (BestFitTree): the invariant says nothing of the order of blocks after one has gone astray.
* That programs which are not regular deviate: for six of them `try_python` shows it. `Regular` goes by the form of a statement alone, so it also
  excludes programs that agree, such as one whose only irregular statement stands behind a `return`.
* SSABuilder: reading a variable and removing an argument are RECURSIVE operators, of which TLAPS can prove nothing.
* The four runs that expect a violation: what does not hold cannot be proved.

## 8. Bounds

`MaxPages` (SegregatedFreeList) and `MaxUnits` (BestFitHeap) are the memory the system provides, `MaxReferences` the references a
program holds at once, `BadFiles` the faulty files of a tree, `Workers` the pool's threads, `MaxSize` (HashTable) the entries of a table,
`MaxSteps` (SSABuilder) the blocks a run goes through. `Programs` and `Scripts` are the
families of inputs that MCHashTable, MCTryStatements and MCSSABuilder build; they are finite, and
TryStatements has no other bound. Cells, modules, blocks, keys and requests are finite sets. No run disables the check for deadlock:
where the system stops, a stuttering action says so (`Terminated`, `Halted`, `Ended`, `Stopped`).

## 9. Plan

To prove next:

1. `FindsEveryKey` under a condition on `Programs` that rules out what `hash_probing` shows, from an invariant on the order of
   the entries in a run of buckets; with `MapIfFound` it gives `ImplementsMap`.
2. `StraysAreInLists`, from what `SwapFields` and `DetachFields` say of the links.

To model next:

1. **OutputFile**: the early returns of `executeAction` and the temporary file.
2. **ExceptionHandling**: the personality function's two phases, under TryStatements' calls.
3. **ImportResolution** with the linker: relative imports, packages, symbols defined twice.
4. **Indentation** of the lexer, **TrialInlining** and **Monomorph**.
5. The allocators under the collector, with CellPool as the interface.

## 10. Not modelled

Toolchains and the command line, the dialects, the conversion to LLVM and the placement of statepoints (rewriting
pattern by pattern, with MLIR and LLVM doing the work), the support library (pure functions with unit tests), and everything vendored or
generated, which is most of the repository's lines.
