---------------------------- MODULE ModuleImport ----------------------------
(***************************************************************************)
(* CompilerInvocation::codegenPythonToMLIR: code generation of the main    *)
(* module requests modules through moduleLoadCallback; every request that  *)
(* is not a duplicate becomes a task of the MLIR thread pool (or, with     *)
(* -Xsingle-threaded, a deferred future) that reads, parses and generates  *)
(* code for the module and issues requests of its own.  The main thread    *)
(* then walks the list of futures, to which tasks still append, and links. *)
(*                                                                         *)
(* The mutexes are dsOwner (dataStructureMutex), srcOwner (sourceDSMutex)  *)
(* and cbOwner (DiagnosticsManager::m_diagCallbackMutex).                  *)
(***************************************************************************)
EXTENDS ImportProgram, FiniteSets, SequencesExt

CONSTANTS Workers,  \* threads of the pool
          None      \* no unit: an unlocked mutex, no requester

ASSUME WorkersAssumption == Workers \in Nat \ {0} /\ None \notin Units

VARIABLES
  program,    \* the source tree, chosen once
  multi,      \* m_mlirContext->isMultithreadingEnabled()
  pc,         \* where each unit is
  todo,       \* the code the unit's code generator has not come to yet
  parent,     \* the unit whose DiagnosticsDocManager the task's request carries
  errors,     \* the units whose DiagnosticsDocManager has m_errorsOccurred set
  loaded,     \* StringSet loaded
  futures,    \* the list of futures, by qualifier
  pool,       \* the thread pool's queue
  dsOwner, srcOwner, cbOwner,
  documents,  \* the units whose text is in m_documents
  module,     \* the ModuleOp a unit has produced: "none", "live" or "erased"
  handles,    \* the number of file handles that requests have left open
  position,   \* how far the main thread has come in futures
  draining,   \* the main module had errors: futures are only waited for
  outcome,    \* "running", "failure", "success" or "crash"
  linkOrder   \* the imported modules in the order linkModules gets them

vars == <<program, multi, pc, todo, parent, errors, loaded, futures, pool, dsOwner, srcOwner,
          cbOwner, documents, module, handles, position, draining, outcome, linkOrder>>
inputs  == <<program, multi>>
request == <<parent, loaded, futures, pool, handles>>
mutexes == <<dsOwner, srcOwner, cbOwner>>
join    == <<position, draining, outcome, linkOrder>>

States == {"idle", "queued", "deferred", "open", "addDocument", "inAddDocument", "parse",
           "codegen", "submit", "push", "report", "callback", "get", "advance", "end", "done",
           "crashed"}

\* The task of m occupies a thread of the pool.
Running == {m \in Modules : pc[m] \notin {"idle", "queued", "deferred", "done", "crashed"}}

Goto(u, state) == pc' = [pc EXCEPT ![u] = state]
-----------------------------------------------------------------------------
Init ==
  /\ program \in Programs
  /\ multi \in BOOLEAN
  /\ pc = [u \in Units |-> IF u = Main THEN "codegen" ELSE "idle"]
  /\ todo = program.code
  /\ parent = [m \in Modules |-> None]
  /\ errors = {}
  /\ loaded = {} /\ futures = <<>> /\ pool = <<>>
  /\ dsOwner = None /\ srcOwner = None /\ cbOwner = None
  /\ documents = {Main}
  /\ module = [u \in Units |-> "none"]
  /\ handles = 0
  /\ position = 1 /\ draining = FALSE /\ outcome = "running" /\ linkOrder = <<>>

(***************************************************************************)
(* moduleLoadCallback, called by the code generator of unit u for its next *)
(* import.  importModules has opened the file; a duplicate request returns *)
(* from the callback without closing it.                                   *)
(***************************************************************************)
Importing(u) == pc[u] = "codegen" /\ todo[u] # <<>> /\ Head(todo[u]) # Error

DuplicateRequest(u) ==
  /\ Importing(u) /\ dsOwner = None
  /\ Head(todo[u]) \in loaded
  /\ handles' = handles + 1
  /\ todo' = [todo EXCEPT ![u] = Tail(@)]
  /\ UNCHANGED <<inputs, pc, parent, errors, loaded, futures, pool, mutexes, documents,
                 module, join>>

\* Mutant: the request does not carry the document manager.
RequestWithoutManager(u) ==
  /\ Importing(u) /\ dsOwner = None
  /\ Head(todo[u]) \notin loaded
  /\ dsOwner' = u
  /\ loaded' = loaded \cup {Head(todo[u])}
  /\ handles' = handles + 1
  /\ Goto(u, "submit")
  /\ UNCHANGED <<inputs, todo, parent, errors, futures, pool, srcOwner, cbOwner, documents, module, join>>

Request(u) ==
  /\ Importing(u) /\ dsOwner = None
  /\ Head(todo[u]) \notin loaded
  /\ dsOwner' = u
  /\ loaded' = loaded \cup {Head(todo[u])}
  /\ parent' = [parent EXCEPT ![Head(todo[u])] = u]
  /\ handles' = handles + 1
  /\ Goto(u, "submit")
  /\ UNCHANGED <<inputs, todo, errors, futures, pool, srcOwner, cbOwner, documents, module, join>>

\* ThreadPool::async makes the task available to the workers at once, before
\* its future is in the list; std::async(std::launch::deferred) only stores it.
Submit(u) ==
  LET m == Head(todo[u]) IN
  /\ pc[u] = "submit"
  /\ pc' = [pc EXCEPT ![u] = "push", ![m] = IF multi THEN "queued" ELSE "deferred"]
  /\ pool' = IF multi THEN Append(pool, m) ELSE pool
  /\ UNCHANGED <<inputs, todo, parent, errors, loaded, futures, mutexes, documents, module,
                 handles, join>>

\* Mutant: the callback forgets to unlock.
PushKeepingLock(u) ==
  /\ pc[u] = "push"
  /\ futures' = Append(futures, Head(todo[u]))
  /\ todo' = [todo EXCEPT ![u] = Tail(@)]
  /\ Goto(u, "codegen")
  /\ UNCHANGED <<inputs, parent, errors, loaded, pool, mutexes, documents, module, handles, join>>

Push(u) ==
  /\ pc[u] = "push"
  /\ futures' = Append(futures, Head(todo[u]))
  /\ dsOwner' = None
  /\ todo' = [todo EXCEPT ![u] = Tail(@)]
  /\ Goto(u, "codegen")
  /\ UNCHANGED <<inputs, parent, errors, loaded, pool, srcOwner, cbOwner, documents, module,
                 handles, join>>
-----------------------------------------------------------------------------
(***************************************************************************)
(* The task of module m.                                                   *)
(***************************************************************************)
StartPooled(m) ==
  /\ pc[m] = "queued" /\ pool # <<>> /\ Head(pool) = m
  /\ Cardinality(Running) < Workers
  /\ pool' = Tail(pool)
  /\ Goto(m, "open")
  /\ UNCHANGED <<inputs, todo, parent, errors, loaded, futures, mutexes, documents, module,
                 handles, join>>

\* shared_future::get of a deferred future runs the task on the main thread.
StartDeferred(m) ==
  /\ pc[m] = "deferred"
  /\ pc[Main] = "get" /\ futures[position] = m
  /\ Goto(m, "open")
  /\ UNCHANGED <<inputs, todo, request, errors, mutexes, documents, module, join>>

\* Mutant: the handle is not closed on the error path.
ReadFileLeakingOnError(m) ==
  LET failed == program.fault[m] = "access" IN
  /\ pc[m] = "open"
  /\ handles' = IF failed THEN handles ELSE handles - 1
  /\ Goto(m, IF failed THEN "report" ELSE "addDocument")
  /\ errors' = IF failed THEN errors \cup {parent[m]} ELSE errors
  /\ UNCHANGED <<inputs, todo, parent, loaded, futures, pool, mutexes, documents, module, join>>

\* sys::fs::status and readNativeFile; the scope exit closes the handle on every
\* way out.  A failure is reported through the requester's document manager.
ReadFile(m) ==
  LET failed == program.fault[m] = "access" IN
  /\ pc[m] = "open"
  /\ handles' = handles - 1
  /\ Goto(m, IF failed THEN "report" ELSE "addDocument")
  /\ errors' = IF failed THEN errors \cup {parent[m]} ELSE errors
  /\ UNCHANGED <<inputs, todo, parent, loaded, futures, pool, mutexes, documents, module, join>>

\* The manager of a task that has returned is gone: the report goes through a
\* dangling pointer, which need not crash (ReadFile) but can.
CrashOnReport(m) ==
  /\ pc[m] = "open" /\ program.fault[m] = "access" /\ pc[parent[m]] = "done"
  /\ pc' = [u \in Units |-> "crashed"]
  /\ outcome' = "crash"
  /\ UNCHANGED <<inputs, todo, request, errors, mutexes, documents, module, position, draining,
                 linkOrder>>

\* addDocument under sourceDSMutex; it also lets the DiagnosticsVerifier collect
\* the diagnostics the document expects.
BeginAddDocument(m) ==
  /\ pc[m] = "addDocument" /\ srcOwner = None
  /\ srcOwner' = m
  /\ Goto(m, "inAddDocument")
  /\ UNCHANGED <<inputs, todo, request, errors, dsOwner, cbOwner, documents, module, join>>

EndAddDocument(m) ==
  /\ pc[m] = "inAddDocument"
  /\ documents' = documents \cup {m}
  /\ srcOwner' = None
  /\ Goto(m, "parse")
  /\ UNCHANGED <<inputs, todo, request, errors, dsOwner, cbOwner, module, join>>

\* Parser::parseFileInput; a tree without errors is appended to m_fileInputs
\* under sourceDSMutex and handed to the code generator.
Parse(m) ==
  /\ pc[m] = "parse"
  /\ IF program.fault[m] = "syntax"
     THEN Goto(m, "report") /\ errors' = errors \cup {m}
     ELSE srcOwner = None /\ Goto(m, "codegen") /\ UNCHANGED errors
  /\ UNCHANGED <<inputs, todo, request, mutexes, documents, module, join>>

CodegenError(u) ==
  /\ pc[u] = "codegen" /\ todo[u] # <<>> /\ Head(todo[u]) = Error
  /\ errors' = errors \cup {u}
  /\ todo' = [todo EXCEPT ![u] = Tail(@)]
  /\ Goto(u, "report")
  /\ UNCHANGED <<inputs, request, mutexes, documents, module, join>>

\* SubDiagnosticsManagerBase::report runs the callback under its mutex.
EnterCallback(u) ==
  /\ pc[u] = "report" /\ cbOwner = None
  /\ cbOwner' = u
  /\ Goto(u, "callback")
  /\ UNCHANGED <<inputs, todo, request, errors, dsOwner, srcOwner, documents, module, join>>

LeaveCallback(u) ==
  /\ pc[u] = "callback"
  /\ cbOwner' = None
  /\ Goto(u, IF program.fault[u] = "none" THEN "codegen" ELSE "done")
  /\ UNCHANGED <<inputs, todo, request, errors, dsOwner, srcOwner, documents, module, join>>

CodegenDone(u) == pc[u] = "codegen" /\ todo[u] = <<>>

\* Mutant: the module is returned in spite of errors.
ReturnDespiteErrors(m) ==
  /\ CodegenDone(m)
  /\ module' = [module EXCEPT ![m] = "live"]
  /\ Goto(m, "done")
  /\ UNCHANGED <<inputs, todo, request, errors, mutexes, documents, join>>

\* The task returns its module, or nullptr if its document manager saw errors.
Return(m) ==
  /\ CodegenDone(m)
  /\ module' = [module EXCEPT ![m] = IF m \in errors THEN "erased" ELSE "live"]
  /\ Goto(m, "done")
  /\ UNCHANGED <<inputs, todo, request, errors, mutexes, documents, join>>
-----------------------------------------------------------------------------
(***************************************************************************)
(* The main thread, once its own code generation is done.                  *)
(***************************************************************************)
MainCodegenDone ==
  /\ CodegenDone(Main)
  /\ module' = [module EXCEPT ![Main] = "live"]
  /\ draining' = (Main \in errors)
  /\ Goto(Main, IF futures = <<>> THEN "end" ELSE "get")
  /\ UNCHANGED <<inputs, todo, request, errors, mutexes, documents, position, outcome, linkOrder>>

\* Mutant: the future is not waited for.
GetWithoutWaiting ==
  LET m == futures[position] IN
  /\ pc[Main] = "get"
  /\ module' = IF draining /\ module[m] = "live" THEN [module EXCEPT ![m] = "erased"] ELSE module
  /\ Goto(Main, "advance")
  /\ UNCHANGED <<inputs, todo, request, errors, mutexes, documents, join>>

\* future.get() blocks until the task has returned.
Get ==
  LET m == futures[position] IN
  /\ pc[Main] = "get" /\ pc[m] = "done"
  /\ module' = IF draining /\ module[m] = "live" THEN [module EXCEPT ![m] = "erased"] ELSE module
  /\ Goto(Main, "advance")
  /\ UNCHANGED <<inputs, todo, request, errors, mutexes, documents, join>>

\* ++iter and the comparison with end(), without dataStructureMutex.
Advance ==
  /\ pc[Main] = "advance"
  /\ IF position = Len(futures)
     THEN Goto(Main, "end") /\ UNCHANGED position
     ELSE Goto(Main, "get") /\ position' = position + 1
  /\ UNCHANGED <<inputs, todo, request, errors, mutexes, documents, module, draining, outcome,
                 linkOrder>>

\* std::sort over the imported modules, by qualifier.
QualifierOrder(list) ==
  LET p == CHOOSE p \in [DOMAIN list -> DOMAIN list] :
             IsInjective(p) /\ \A i, j \in DOMAIN list : i < j => list[p[i]] <= list[p[j]]
  IN  [i \in DOMAIN list |-> list[p[i]]]

\* Mutants: the modules are linked in the order of the requests; those of a
\* failed compilation are not destroyed.
LinkUnsorted ==
  LET ok == ~draining /\ \A i \in DOMAIN futures : module[futures[i]] = "live" IN
  /\ pc[Main] = "end"
  /\ outcome' = IF ok THEN "success" ELSE "failure"
  /\ linkOrder' = IF ok THEN futures ELSE <<>>
  /\ module' = IF ok THEN module
               ELSE [u \in Units |-> IF module[u] = "live" /\ u \in Range(futures) \cup {Main}
                                     THEN "erased" ELSE module[u]]
  /\ Goto(Main, "done")
  /\ UNCHANGED <<inputs, todo, request, errors, mutexes, documents, position, draining>>

LinkLeaking ==
  LET ok == ~draining /\ \A i \in DOMAIN futures : module[futures[i]] = "live" IN
  /\ pc[Main] = "end"
  /\ outcome' = IF ok THEN "success" ELSE "failure"
  /\ linkOrder' = IF ok THEN QualifierOrder(futures) ELSE <<>>
  /\ Goto(Main, "done")
  /\ UNCHANGED <<inputs, todo, request, errors, mutexes, documents, module, position, draining>>

\* Any nullptr fails the compilation and the destructors erase what there is;
\* otherwise the imported modules are sorted by qualifier and linked.
Link ==
  LET ok == ~draining /\ \A i \in DOMAIN futures : module[futures[i]] = "live" IN
  /\ pc[Main] = "end"
  /\ outcome' = IF ok THEN "success" ELSE "failure"
  /\ linkOrder' = IF ok THEN QualifierOrder(futures) ELSE <<>>
  /\ module' = IF ok THEN module
               ELSE [u \in Units |-> IF module[u] = "live" /\ u \in Range(futures) \cup {Main}
                                     THEN "erased" ELSE module[u]]
  /\ Goto(Main, "done")
  /\ UNCHANGED <<inputs, todo, request, errors, mutexes, documents, position, draining>>
-----------------------------------------------------------------------------
CodegenStep(u) == \/ DuplicateRequest(u) \/ Request(u) \/ Submit(u) \/ Push(u)
                  \/ CodegenError(u) \/ EnterCallback(u) \/ LeaveCallback(u)

TaskStep(m) == \/ StartPooled(m) \/ StartDeferred(m) \/ ReadFile(m) \/ CrashOnReport(m)
               \/ BeginAddDocument(m) \/ EndAddDocument(m) \/ Parse(m) \/ Return(m)

MainStep == MainCodegenDone \/ Get \/ Advance \/ Link

Terminated == pc[Main] \in {"done", "crashed"} /\ UNCHANGED vars

Next == \/ \E u \in Units : CodegenStep(u)
        \/ \E m \in Modules : TaskStep(m)
        \/ MainStep
        \/ Terminated

\* The operating system schedules every thread, and each mutex is held for a few steps only.
Fairness == /\ \A u \in Units : WF_vars(CodegenStep(u))
            /\ \A m \in Modules : WF_vars(TaskStep(m))
            /\ WF_vars(MainStep)

Spec == Init /\ [][Next]_vars
FairSpec == Spec /\ Fairness
-----------------------------------------------------------------------------
TypeOK ==
  /\ program \in Programs /\ multi \in BOOLEAN
  /\ pc \in [Units -> States]
  /\ todo \in [Units -> Seq(Modules \cup {Error})]
  /\ parent \in [Modules -> Units \cup {None}]
  /\ errors \subseteq Units /\ loaded \subseteq Modules /\ documents \subseteq Units
  /\ futures \in Seq(Modules) /\ pool \in Seq(Modules)
  /\ {dsOwner, srcOwner, cbOwner} \subseteq Units \cup {None}
  /\ module \in [Units -> {"none", "live", "erased"}]
  /\ handles \in Int /\ position \in Nat \ {0} /\ draining \in BOOLEAN
  /\ outcome \in {"running", "failure", "success", "crash"}

\* The main thread compares an iterator with end() and follows the link of a list
\* node without dataStructureMutex.  That is a data race only at the last node,
\* and there no task is left that could append another one.
LastFutureIsQuiet ==
  pc[Main] = "end" \/ (pc[Main] = "advance" /\ position = Len(futures)) =>
    \A m \in Modules : pc[m] \in {"idle", "done"}

\* When the loop over the futures ends, every module that is reachable through
\* import statements has been compiled, each of them once and no other.
NoModuleMissed ==
  pc[Main] = "end" => /\ Range(futures) = Reach(program)
                      /\ \A i, j \in DOMAIN futures : futures[i] = futures[j] => i = j
                      /\ \A m \in Reach(program) : pc[m] = "done"

\* A failed compilation leaves no ModuleOp behind, whether it fails in the main
\* module or in an import ("to not leak the memory of the modules"), and one that
\* succeeds links every module that exists.
ModulesReclaimed ==
  /\ outcome = "failure" => \A u \in Units : module[u] # "live"
  /\ outcome = "success" => {u \in Units : module[u] = "live"} = Range(linkOrder) \cup {Main}

\* The order of the linked modules does not depend on the order in which their
\* requests were made, and the dependency file lists all of them.
DeterministicOutput ==
  outcome = "success" =>
    /\ \A i, j \in DOMAIN linkOrder : i < j => linkOrder[i] < linkOrder[j]
    /\ documents = Range(linkOrder) \cup {Main}

\* Only requests that find their module already loaded leave a file open.
OnlyDuplicatesLeak ==
  LET requests(u) == {u} \X {i \in DOMAIN program.code[u] : program.code[u][i] # Error}
      issuers     == {u \in Reach(program) \cup {Main} : program.fault[u] = "none"}
  IN  /\ handles >= 0
      /\ pc[Main] = "done" =>
           handles = Cardinality(UNION {requests(u) : u \in issuers}) - Cardinality(loaded)

Session == INSTANCE ImportSession WITH
  outcome <- IF outcome = "crash" THEN "running" ELSE outcome,
  linked  <- IF outcome = "success" THEN Range(futures) ELSE {}

\* Success or failure, and the set of linked modules, are a function of the
\* sources: no interleaving of the tasks and neither threading mode changes them.
OutcomeIsDeterministic == Session!Spec

\* The compilation ends: nobody waits forever for a mutex or a future.
Terminates == <>(pc[Main] \in {"done", "crashed"})

\* DiagnosticsManager.hpp: the callback runs under a mutex "and hence do[es] not
\* need to take care of being threadsafe".  DiagnosticsVerifier's callback and its
\* addDocument work on the same map.
CallbackIsExclusive ==
  \A u, m \in Units : ~(pc[u] = "callback" /\ pc[m] = "inAddDocument")

\* DiagnosticsManager.hpp: the errors of a source file "first go through a
\* corresponding" document manager, whose errorsOccurred() tells whether the file
\* had any.  So none may be reported to it once its compilation has returned.
ReportsReachLiveManager == [][\A m \in Modules :
  pc[m] = "open" /\ pc'[m] = "report" => pc[parent[m]] # "done"]_vars
=============================================================================
