------------------------- MODULE ModuleImportProofs -------------------------
(***************************************************************************)
(* Proofs about ModuleImport for every set of modules, every source tree   *)
(* and every number of workers: the main thread's unlocked walk over the   *)
(* list of futures misses no module, and the detailed protocol implements  *)
(* ImportSession.                                                          *)
(***************************************************************************)
EXTENDS ModuleImport, ProofLemmas

\* The provers for a step that names none, in turn: most need less than a second, and
\* a search that went astray is begun again.
USE SMT, Zenon, SMTT(20), SMTT(60), ZenonT(60), Z3T(60)

\* u holds dataStructureMutex inside the callback.
Holder(u) == pc[u] \in {"submit", "push"}

\* The main thread has its own code generation behind it.
Joining == pc[Main] \in {"get", "advance", "end", "done"}

\* Tasks and the main thread stay within their own code.
Places ==
  /\ pc[Main] \in {"codegen", "submit", "push", "report", "callback", "get", "advance", "end", "done"}
  /\ \A m \in Modules : pc[m] \notin {"get", "advance", "end", "crashed"}

\* The callback's critical section: one holder, whose module is neither
\* listed nor, before it is submitted, started.
Callback ==
  \A u \in Units : Holder(u) =>
    /\ dsOwner = u
    /\ todo[u] # <<>> /\ Head(todo[u]) \in loaded \ Range(futures)
    /\ pc[u] = "submit" <=> pc[Head(todo[u])] = "idle"
    /\ u \in Modules => u \in Range(futures)

\* A module that was requested is in the list, or is about to be.
Listed ==
  /\ Range(futures) \subseteq loaded
  /\ \A m \in Modules : m \in loaded \/ pc[m] = "idle"
  /\ \A m \in Range(futures) : pc[m] # "idle"
  /\ \A m \in loaded : parent[m] \in Units
  /\ \A m \in loaded \ Range(futures) : \E u \in Units : Holder(u) /\ Head(todo[u]) = m

\* No module is listed twice.
Distinct == \A i, j \in DOMAIN futures : futures[i] = futures[j] => i = j

\* The main thread's place in the list: all tasks before it have returned.
Joined ==
  /\ pc[Main] \in {"get", "advance"} =>
       /\ position \in DOMAIN futures
       /\ \A i \in 1 .. position - 1 : pc[futures[i]] = "done"
  /\ pc[Main] = "advance" => pc[futures[position]] = "done"
  /\ ~Joining => position = 1
  /\ pc[Main] \in {"end", "done"} =>
       /\ loaded \subseteq Range(futures)
       /\ \A m \in Modules : pc[m] \in {"idle", "done"}

\* What has been requested is reachable, and what was met has been requested.
Reached ==
  /\ loaded \subseteq Reach(program)
  /\ \A u \in Units : Range(todo[u]) \subseteq Range(program.code[u])
  /\ \A u \in Units : Imported(program, u) \subseteq loaded \cup Range(todo[u])
  /\ \A u \in Units : pc[u] \in {"codegen", "submit", "push"} => program.fault[u] = "none"
  /\ \A m \in Modules : pc[m] \in {"addDocument", "inAddDocument", "parse"} =>
                          program.fault[m] # "access"
  /\ \A m \in Modules : pc[m] = "done" /\ program.fault[m] = "none" => todo[m] = <<>>
  /\ Joining => todo[Main] = <<>>

\* Errors and missing modules mean an unsound source tree, and conversely.
Verdict ==
  /\ Sound(program) => errors = {} /\ ~draining
  /\ \A u \in Units : Error \in Range(program.code[u]) =>
        Error \in Range(todo[u]) \/ u \in errors
  /\ \A m \in Modules : module[m] = "live" => pc[m] = "done" /\ Clean(program, m)
  /\ \A m \in Modules : Sound(program) /\ pc[m] = "done" => module[m] = "live"
  /\ Joining /\ ~draining => Error \notin Range(program.code[Main])
  /\ outcome = "running" <=> pc[Main] # "done"
  /\ outcome # "crash"

Crashed == pc = [u \in Units |-> "crashed"] /\ outcome = "crash"

Alive == Places /\ Callback /\ Listed /\ Distinct /\ Joined /\ Reached /\ Verdict

IInv == TypeOK /\ (Crashed \/ Alive)
-----------------------------------------------------------------------------
\* What the assumption about Programs says of the tree that was chosen.
LEMMA ProgramType ==
  ASSUME TypeOK
  PROVE  /\ program.code \in [Units -> Seq(Modules \cup {Error})]
         /\ program.fault \in [Units -> Faults]
         /\ program.fault[Main] = "none"
  BY ProgramsAssumption DEF TypeOK
-----------------------------------------------------------------------------
LEMMA TypeInit == Init => TypeOK
  <1> SUFFICES ASSUME Init
               PROVE  TypeOK
    OBVIOUS
  <1>1. program \in Programs /\ todo \in [Units -> Seq(Modules \cup {Error})]
    BY ProgramsAssumption DEF Init
  <1>2. pc \in [Units -> States]
    BY DEF Init, States
  <1>3. futures \in Seq(Modules) /\ pool \in Seq(Modules)
    BY DEF Init
  <1>4. /\ parent \in [Modules -> Units \cup {None}]
        /\ module \in [Units -> {"none", "live", "erased"}]
        /\ {dsOwner, srcOwner, cbOwner} \subseteq Units \cup {None}
    BY DEF Init
  <1>5. /\ errors \subseteq Units /\ loaded \subseteq Modules /\ documents \subseteq Units
        /\ handles \in Int /\ position \in Nat \ {0} /\ outcome = "running"
    BY DEF Init, Units
  <1>6. multi \in BOOLEAN /\ draining \in BOOLEAN
    BY ZenonT(60) DEF Init
  <1>7. QED
    BY <1>1, <1>2, <1>3, <1>4, <1>5, <1>6 DEF TypeOK

LEMMA TypeStep == IInv /\ [Next]_vars => TypeOK'
  <1> SUFFICES ASSUME IInv, [Next]_vars
               PROVE  TypeOK'
    OBVIOUS
  <1> USE DEF TypeOK, States, Goto, inputs, request, mutexes, join, Units
  <1>0. TypeOK
    BY DEF IInv
  <1>1. ASSUME NEW u \in Units, DuplicateRequest(u)
        PROVE  TypeOK'
    <2>1. todo[u] # <<>> /\ todo[u] \in Seq(Modules \cup {Error})
      BY <1>0, <1>1 DEF DuplicateRequest, Importing
    <2>2. Tail(todo[u]) \in Seq(Modules \cup {Error})
      BY <2>1
    <2>3. QED
      BY <1>0, <1>1, <2>2 DEF DuplicateRequest, Importing
  <1>2. ASSUME NEW u \in Units, Request(u)
        PROVE  TypeOK'
    <2>1. todo[u] # <<>> /\ todo[u] \in Seq(Modules \cup {Error}) /\ Head(todo[u]) # Error
      BY <1>0, <1>2 DEF Request, Importing
    <2>2. Head(todo[u]) \in Modules
      BY <2>1
    <2>3. QED
      BY <1>0, <1>2, <2>2 DEF Request
  <1>3. ASSUME NEW u \in Units, Submit(u)
        PROVE  TypeOK'
    <2>1. Head(todo[u]) \in Modules
      BY <1>0, <1>3 DEF IInv, Crashed, Alive, Callback, Holder, Submit
    <2>2. Append(pool, Head(todo[u])) \in Seq(Modules)
      BY <1>0, <2>1
    <2>3. QED
      BY <1>0, <1>3, <2>1, <2>2 DEF Submit
  <1>4. ASSUME NEW u \in Units, Push(u)
        PROVE  TypeOK'
    <2>1. Head(todo[u]) \in Modules /\ todo[u] # <<>>
      BY <1>0, <1>4 DEF IInv, Crashed, Alive, Callback, Holder, Push
    <2>2. Append(futures, Head(todo[u])) \in Seq(Modules)
      BY <1>0, <2>1
    <2>3. Tail(todo[u]) \in Seq(Modules \cup {Error})
      BY <1>0, <2>1
    <2>4. QED
      BY <1>0, <1>4, <2>2, <2>3 DEF Push
  <1>5. ASSUME NEW u \in Units, CodegenError(u)
        PROVE  TypeOK'
    <2>1. Tail(todo[u]) \in Seq(Modules \cup {Error})
      BY <1>0, <1>5 DEF CodegenError
    <2>2. QED
      BY <1>0, <1>5, <2>1 DEF CodegenError
  <1>6. ASSUME NEW u \in Units, EnterCallback(u) \/ LeaveCallback(u)
        PROVE  TypeOK'
    <2>1. CASE EnterCallback(u)
      BY <1>0, <2>1 DEF EnterCallback
    <2>2. CASE LeaveCallback(u)
      BY <1>0, <2>2 DEF LeaveCallback
    <2>3. QED
      BY <1>6, <2>1, <2>2
  <1>7. ASSUME NEW m \in Modules, StartPooled(m)
        PROVE  TypeOK'
    <2>1. Tail(pool) \in Seq(Modules)
      BY <1>0, <1>7 DEF StartPooled
    <2>2. QED
      BY <1>0, <1>7, <2>1 DEF StartPooled
  <1>8. ASSUME NEW m \in Modules, StartDeferred(m)
        PROVE  TypeOK'
    BY <1>0, <1>8 DEF StartDeferred
  <1>9. ASSUME NEW m \in Modules, ReadFile(m)
        PROVE  TypeOK'
    <2>1. parent[m] \in Units
      BY <1>0, <1>9 DEF IInv, Crashed, Alive, Listed, ReadFile
    <2>2. QED
      BY <1>0, <1>9, <2>1 DEF ReadFile
  <1>10. ASSUME NEW m \in Modules, CrashOnReport(m)
         PROVE  TypeOK'
    BY <1>0, <1>10 DEF CrashOnReport
  <1>11. ASSUME NEW m \in Modules,
                BeginAddDocument(m) \/ EndAddDocument(m) \/ Parse(m) \/ Return(m)
         PROVE  TypeOK'
    <2>1. CASE BeginAddDocument(m)
      BY <1>0, <2>1 DEF BeginAddDocument
    <2>2. CASE EndAddDocument(m)
      BY <1>0, <2>2 DEF EndAddDocument
    <2>3. CASE Parse(m)
      BY <1>0, <2>3, ZenonT(60) DEF Parse
    <2>4. CASE Return(m)
      BY <1>0, <2>4 DEF Return
    <2>5. QED
      BY <1>11, <2>1, <2>2, <2>3, <2>4
  <1>12. CASE MainCodegenDone
    BY <1>0, <1>12 DEF MainCodegenDone
  <1>13. CASE Get
    BY <1>0, <1>13 DEF Get
  <1>14. CASE Advance
    BY <1>0, <1>14 DEF Advance
  <1>15. CASE Link
    BY <1>0, <1>15 DEF Link
  <1>16. CASE UNCHANGED vars
    BY <1>0, <1>16 DEF vars
  <1>17. QED
    BY <1>1, <1>2, <1>3, <1>4, <1>5, <1>6, <1>7, <1>8, <1>9, <1>10, <1>11, <1>12, <1>13, <1>14,
       <1>15, <1>16
    DEF Next, CodegenStep, TaskStep, MainStep, Terminated
-----------------------------------------------------------------------------
\* A step of u outside the critical section leaves it and the list alone.
LEMMA QuietStep ==
  ASSUME TypeOK, Callback, Listed, NEW u \in Units,
         pc[u] \notin {"idle", "submit", "push"}, pc'[u] \notin {"idle", "submit", "push"},
         \A v \in Units \ {u} : pc'[v] = pc[v] /\ todo'[v] = todo[v],
         UNCHANGED <<loaded, futures, dsOwner, parent>>
  PROVE  Callback' /\ Listed'
  <1> USE DEF TypeOK, Units, Holder
  <1>1. \A v \in Units : Holder(v)' <=> Holder(v)
    OBVIOUS
  <1>2. \A v \in Units : pc'[v] = "idle" <=> pc[v] = "idle"
    OBVIOUS
  <1>3. \A v \in Units : Holder(v) => v # u /\ todo'[v] = todo[v] /\ pc'[v] = pc[v]
    OBVIOUS
  <1>4. \A v \in Units : Holder(v) => Head(todo[v]) \in Units
    BY DEF Callback
  <1>5. Callback'
    BY <1>1, <1>2, <1>3, <1>4 DEF Callback
  <1>6. Listed'
    <2> HIDE DEF TypeOK, Holder, Units
    <2>1. \A m \in loaded \ Range(futures) : \E v \in Units : Holder(v)' /\ Head(todo'[v]) = m
      BY <1>1, <1>3 DEF Listed
    <2>2. loaded \subseteq Units /\ Modules \subseteq Units
      BY DEF TypeOK, Units
    <2>3. \A m \in Modules : m \in loaded \/ pc'[m] = "idle"
      BY <1>2, <2>2 DEF Listed
    <2>4. \A m \in Range(futures) : pc'[m] # "idle"
      BY <1>2, <2>2 DEF Listed
    <2>5. QED
      BY <2>1, <2>3, <2>4 DEF Listed
  <1>7. QED
    BY <1>5, <1>6

LEMMA RequestStep ==
  ASSUME TypeOK, Places, Callback, Listed, NEW u \in Units, Request(u)
  PROVE  Callback' /\ Listed'
  <1> USE DEF TypeOK, Units, Holder, Goto
  <1> DEFINE x == Head(todo[u])
  <1>1. \A v \in Units : ~Holder(v)
    BY WorkersAssumption DEF Callback, Request
  <1>2. x \in Modules /\ x \notin loaded /\ pc[x] = "idle" /\ x # u
    <2>1. todo[u] # <<>> /\ todo[u] \in Seq(Modules \cup {Error}) /\ Head(todo[u]) # Error
      BY DEF Request, Importing
    <2>2. QED
      BY <2>1 DEF Listed, Request, Importing
  <1>3. u \in Modules => u \in Range(futures)
    BY <1>1 DEF Listed, Request, Importing
  <1>4. /\ \A v \in Units : Holder(v)' <=> v = u
        /\ pc'[u] = "submit" /\ \A v \in Units \ {u} : pc'[v] = pc[v]
        /\ UNCHANGED <<todo, futures>> /\ loaded' = loaded \cup {x} /\ dsOwner' = u
    BY <1>1 DEF Request
  <1>5. Callback'
    <2>1. x \notin Range(futures) /\ todo[u] # <<>>
      BY <1>2 DEF Listed, Request, Importing
    <2>2. QED
      BY <1>2, <1>3, <1>4, <2>1 DEF Callback
  <1>6. Listed'
    <2>1. \A m \in loaded' : parent'[m] \in Units
      BY <1>2 DEF Request, Listed
    <2>2. loaded \subseteq Range(futures)
      BY <1>1 DEF Listed
    <2>3. \A m \in Range(futures) : pc'[m] # "idle"
      BY <1>4, ZenonT(60) DEF Listed
    <2>4. \A m \in Modules : m \in loaded' \/ pc'[m] = "idle"
      <3>1. \A m \in Modules : m # u => pc'[m] = pc[m]
        BY <1>4
      <3>2. loaded \subseteq loaded' /\ (u \in Modules => u \in loaded')
        BY <1>3, <1>4 DEF Listed
      <3>3. QED
        BY <3>1, <3>2 DEF Listed
    <2> HIDE DEF TypeOK, Units
    <2>5. \A m \in loaded' \ Range(futures') : \E v \in Units : Holder(v)' /\ Head(todo'[v]) = m
      <3>1. Holder(u)' /\ Head(todo'[u]) = x
        BY <1>4
      <3>2. \A m \in loaded' \ Range(futures') : m = x
        BY <1>4, <2>2
      <3>3. QED
        BY <3>1, <3>2
    <2>6. QED
      BY <1>4, <2>1, <2>2, <2>3, <2>4, <2>5 DEF Listed
  <1>7. QED
    BY <1>5, <1>6

LEMMA SubmitStep ==
  ASSUME TypeOK, Places, Callback, Listed, NEW u \in Units, Submit(u)
  PROVE  Callback' /\ Listed'
  <1> USE DEF TypeOK, Units, Holder
  <1> DEFINE x == Head(todo[u])
  <1>1. x \in Modules /\ pc[x] = "idle" /\ x # u /\ x \in loaded
    BY DEF Callback, Submit
  <1>2. /\ pc'[u] = "push" /\ pc'[x] \in {"queued", "deferred"}
        /\ \A v \in Units \ {u, x} : pc'[v] = pc[v]
        /\ UNCHANGED <<todo, futures, loaded, dsOwner, parent>>
    <2>1. u # x /\ pc \in [Units -> States]
      BY <1>1
    <2>2. pc'[x] = IF multi THEN "queued" ELSE "deferred"
      BY <1>1, <2>1 DEF Submit
    <2>3. QED
      BY <1>1, <2>1, <2>2 DEF Submit, mutexes
  <1>3. \A v \in Units : Holder(v) => v = u
    BY DEF Callback, Submit
  <1>4. \A v \in Units : Holder(v)' <=> v = u
    BY <1>1, <1>2, <1>3
  <1>5. Callback'
    BY <1>1, <1>2, <1>3, <1>4 DEF Callback, Submit
  <1>6. Listed'
    <2>1. \A v \in Units : Holder(v) <=> v = u
      BY <1>3 DEF Submit
    <2>2. \A m \in Units : m # x => (pc'[m] = "idle" <=> pc[m] = "idle")
      BY <1>2, <1>1, <2>1
    <2> HIDE DEF TypeOK, Holder
    <2>3. \A m \in Modules : m \in loaded \/ pc'[m] = "idle"
      BY <1>1, <2>2 DEF Listed
    <2>4. \A m \in Range(futures) : pc'[m] # "idle"
      BY <1>1, <1>2, <2>2 DEF Listed, TypeOK
    <2>5. \A m \in loaded \ Range(futures) : \E v \in Units : Holder(v)' /\ Head(todo'[v]) = m
      BY <2>1, <1>2, <1>4 DEF Listed
    <2>6. QED
      BY <1>2, <2>3, <2>4, <2>5 DEF Listed
  <1>7. QED
    BY <1>5, <1>6

LEMMA PushStep ==
  ASSUME TypeOK, Places, Callback, Listed, NEW u \in Units, Push(u)
  PROVE  Callback' /\ Listed'
  <1> USE DEF TypeOK, Units, Holder, Goto
  <1> DEFINE x == Head(todo[u])
  <1>1. x \in Modules /\ pc[x] # "idle" /\ x \in loaded
    BY DEF Callback, Push
  <1>2. \A v \in Units : Holder(v) <=> v = u
    BY DEF Callback, Push
  <1>3. /\ pc'[u] = "codegen" /\ \A v \in Units \ {u} : pc'[v] = pc[v]
        /\ UNCHANGED <<loaded, parent>>
    BY DEF Push
  <1>4. \A v \in Units : ~Holder(v)'
    BY <1>2, <1>3
  <1>5. Range(futures') = Range(futures) \cup {x}
    BY <1>1, RangeAppend DEF Push
  <1>6. Callback'
    BY <1>4 DEF Callback
  <1>7. \A m \in loaded : m \in Range(futures')
    BY <1>2, <1>5, ZenonT(150) DEF Listed
  <1>8. \A m \in Units : pc'[m] = "idle" => pc[m] = "idle"
    BY <1>3
  <1>9. Listed'
    <2>1. Range(futures') \subseteq loaded' /\ loaded' \subseteq Range(futures')
      BY <1>1, <1>3, <1>5, <1>7 DEF Listed
    <2>2. \A m \in Range(futures') : pc[m] # "idle" /\ m \in Units
      BY <1>1, <1>5 DEF Listed
    <2>3. \A m \in Modules : m \in loaded \/ pc'[m] = "idle"
      BY <1>2, <1>3 DEF Listed
    <2> HIDE DEF TypeOK, Holder, Units
    <2>4. QED
      BY <2>1, <2>2, <2>3, <1>3, <1>8 DEF Listed
  <1>10. QED
    BY <1>6, <1>9
-----------------------------------------------------------------------------
LEMMA CallbackListedStep ==
  ASSUME TypeOK, Alive, Next
  PROVE  Crashed' \/ (Callback' /\ Listed')
  <1> USE DEF Alive
  <1>1. ASSUME NEW u \in Units,
               DuplicateRequest(u) \/ CodegenError(u) \/ EnterCallback(u) \/ LeaveCallback(u)
        PROVE  Callback' /\ Listed'
    <2>1. /\ pc[u] \notin {"idle", "submit", "push"} /\ pc'[u] \notin {"idle", "submit", "push"}
          /\ \A v \in Units \ {u} : pc'[v] = pc[v] /\ todo'[v] = todo[v]
          /\ UNCHANGED <<loaded, futures, dsOwner, parent>>
      BY <1>1 DEF TypeOK, DuplicateRequest, CodegenError, EnterCallback, LeaveCallback, Importing,
                  Goto, request, mutexes
    <2>2. QED
      BY <2>1, QuietStep
  <1>2. ASSUME NEW m \in Modules,
               \/ StartPooled(m) \/ StartDeferred(m) \/ ReadFile(m) \/ BeginAddDocument(m)
               \/ EndAddDocument(m) \/ Parse(m) \/ Return(m)
        PROVE  Callback' /\ Listed'
    <2>1. /\ pc[m] \notin {"idle", "submit", "push"} /\ pc'[m] \notin {"idle", "submit", "push"}
          /\ \A v \in Units \ {m} : pc'[v] = pc[v] /\ todo'[v] = todo[v]
          /\ UNCHANGED <<loaded, futures, dsOwner, parent>>
      <3> USE DEF TypeOK, Goto, request, mutexes, Units
      <3>1. CASE StartPooled(m)
        BY <3>1 DEF StartPooled
      <3>2. CASE StartDeferred(m)
        BY <3>2 DEF StartDeferred
      <3>3. CASE ReadFile(m)
        BY <3>3 DEF ReadFile
      <3>4. CASE BeginAddDocument(m)
        BY <3>4 DEF BeginAddDocument
      <3>5. CASE EndAddDocument(m)
        BY <3>5 DEF EndAddDocument
      <3>6. CASE Parse(m)
        BY <3>6 DEF Parse
      <3>7. CASE Return(m)
        BY <3>7 DEF Return, CodegenDone
      <3>8. QED
        BY <1>2, <3>1, <3>2, <3>3, <3>4, <3>5, <3>6, <3>7
    <2>2. QED
      BY <2>1, QuietStep DEF Units
  <1>3. CASE MainStep
    <2>1. /\ pc[Main] \notin {"idle", "submit", "push"} /\ pc'[Main] \notin {"idle", "submit", "push"}
          /\ \A v \in Units \ {Main} : pc'[v] = pc[v] /\ todo'[v] = todo[v]
          /\ UNCHANGED <<loaded, futures, dsOwner, parent>>
      <3> USE DEF TypeOK, Goto, request, mutexes, Units
      <3>1. CASE MainCodegenDone
        BY <3>1 DEF MainCodegenDone, CodegenDone
      <3>2. CASE Get
        BY <3>2 DEF Get
      <3>3. CASE Advance
        BY <3>3 DEF Advance
      <3>4. CASE Link
        BY <3>4 DEF Link
      <3>5. QED
        BY <1>3, <3>1, <3>2, <3>3, <3>4 DEF MainStep
    <2>2. QED
      BY <2>1, QuietStep DEF Units
  <1>4. ASSUME NEW m \in Modules, CrashOnReport(m)
        PROVE  Crashed'
    BY <1>4 DEF CrashOnReport, Crashed
  <1>5. CASE Terminated
    BY <1>5 DEF Terminated, vars, Callback, Listed, Holder
  <1>6. QED
    BY <1>1, <1>2, <1>3, <1>4, <1>5, RequestStep, SubmitStep, PushStep
    DEF Next, CodegenStep, TaskStep

\* How a step moves the units: a task that has returned stays where it is, and
\* an idle one leaves only by being submitted.
LEMMA PlacesStep ==
  ASSUME TypeOK, Alive, Next
  PROVE  \/ Crashed'
         \/ /\ Places'
            /\ \A m \in Modules : pc[m] = "done" => pc'[m] = "done"
            /\ (\A m \in Modules : pc[m] \in {"idle", "done"}) /\ Joining => pc' = pc \/ MainStep
  <1> USE DEF TypeOK, Alive, Places, Goto, Units, States, Joining
  <1>1. ASSUME NEW u \in Units, DuplicateRequest(u) \/ Request(u)
        PROVE  Places' /\ pc[u] = "codegen"
               /\ \A m \in Modules : pc[m] = "done" => pc'[m] = "done"
    BY <1>1 DEF DuplicateRequest, Request, Importing
  <1>2. ASSUME NEW u \in Units, Submit(u)
        PROVE  Places' /\ pc[u] = "submit"
               /\ \A m \in Modules : pc[m] = "done" => pc'[m] = "done"
    <2>1. Head(todo[u]) \in Modules /\ pc[Head(todo[u])] = "idle"
      BY <1>2 DEF Callback, Holder, Submit
    <2>2. QED
      BY <1>2, <2>1, UnitsAssumption DEF Submit
  <1>3. ASSUME NEW u \in Units, Push(u)
        PROVE  Places' /\ pc[u] = "push"
               /\ \A m \in Modules : pc[m] = "done" => pc'[m] = "done"
    BY <1>3 DEF Push
  <1>4. ASSUME NEW u \in Units, CodegenError(u) \/ EnterCallback(u) \/ LeaveCallback(u)
        PROVE  Places' /\ pc[u] \in {"codegen", "report", "callback"}
               /\ \A m \in Modules : pc[m] = "done" => pc'[m] = "done"
    <2>1. program.fault[Main] = "none"
      BY ProgramType
    <2>2. CASE CodegenError(u)
      BY <2>2 DEF CodegenError
    <2>3. CASE EnterCallback(u)
      BY <2>3 DEF EnterCallback
    <2>4. CASE LeaveCallback(u)
      BY <2>1, <2>4 DEF LeaveCallback
    <2>5. QED
      BY <1>4, <2>2, <2>3, <2>4
  <1>5. ASSUME NEW m \in Modules, TaskStep(m)
        PROVE  \/ Crashed'
               \/ Places' /\ pc[m] \notin {"idle", "done"}
                  /\ \A x \in Modules : pc[x] = "done" => pc'[x] = "done"
    <2> USE UnitsAssumption
    <2>1. CASE StartPooled(m)
      BY <2>1 DEF StartPooled
    <2>2. CASE StartDeferred(m)
      BY <2>2 DEF StartDeferred
    <2>3. CASE ReadFile(m)
      BY <2>3 DEF ReadFile
    <2>4. CASE CrashOnReport(m)
      BY <2>4 DEF CrashOnReport, Crashed
    <2>5. CASE BeginAddDocument(m)
      BY <2>5 DEF BeginAddDocument
    <2>6. CASE EndAddDocument(m)
      BY <2>6 DEF EndAddDocument
    <2>7. CASE Parse(m)
      BY <2>7 DEF Parse
    <2>8. CASE Return(m)
      BY <2>8 DEF Return, CodegenDone
    <2>9. QED
      BY <1>5, <2>1, <2>2, <2>3, <2>4, <2>5, <2>6, <2>7, <2>8 DEF TaskStep
  <1>6. ASSUME MainStep
        PROVE  Places' /\ \A m \in Modules : pc[m] = "done" => pc'[m] = "done"
    <2> USE UnitsAssumption
    <2>1. CASE MainCodegenDone
      BY <2>1 DEF MainCodegenDone, CodegenDone
    <2>2. CASE Get
      <3>1. pc' = [pc EXCEPT ![Main] = "advance"]
        BY <2>2, ZenonT(60) DEF Get
      <3>2. QED
        BY <3>1
    <2>3. CASE Advance
      <3>1. pc' = [pc EXCEPT ![Main] = "end"] \/ pc' = [pc EXCEPT ![Main] = "get"]
        BY <2>3, ZenonT(60) DEF Advance
      <3>2. QED
        BY <3>1
    <2>4. CASE Link
      <3>1. pc' = [pc EXCEPT ![Main] = "done"]
        BY <2>4, ZenonT(60) DEF Link
      <3>2. QED
        BY <3>1
    <2>5. QED
      BY <1>6, <2>1, <2>2, <2>3, <2>4 DEF MainStep
  <1>7. CASE Terminated
    BY <1>7 DEF Terminated, vars
  <1> HIDE DEF TypeOK, Places, States, Goto, Alive
  <1>8. QED
    BY <1>1, <1>2, <1>3, <1>4, <1>5, <1>6, <1>7 DEF Next, CodegenStep, Terminated, vars
-----------------------------------------------------------------------------
\* What the steps other than the main thread's own do to what it walks over.
LEMMA OtherSteps ==
  ASSUME TypeOK, Alive, Next, ~MainStep
  PROVE  \/ Crashed'
         \/ /\ UNCHANGED <<position, draining, outcome>>
            /\ Joining \/ Joining' => pc'[Main] = pc[Main]
            /\ futures' = futures \/ \E x \in Modules : futures' = Append(futures, x)
  <1> USE DEF TypeOK, Alive, Goto, Units, Joining, join, request, States
  <1>1. ASSUME NEW u \in Units, CodegenStep(u)
        PROVE  /\ UNCHANGED <<position, draining, outcome>>
               /\ Joining \/ Joining' => pc'[Main] = pc[Main]
               /\ futures' = futures \/ \E x \in Modules : futures' = Append(futures, x)
    <2>1. CASE DuplicateRequest(u) \/ Request(u)
      BY <2>1, UnitsAssumption DEF DuplicateRequest, Request, Importing
    <2>2. CASE Submit(u) \/ Push(u)
      <3>1. Head(todo[u]) \in Modules
        BY <2>2 DEF Callback, Holder, Submit, Push
      <3>2. CASE Submit(u)
        BY <3>1, <3>2, UnitsAssumption DEF Submit
      <3>3. CASE Push(u)
        BY <3>1, <3>3, UnitsAssumption DEF Push
      <3>4. QED
        BY <2>2, <3>2, <3>3
    <2>3. CASE CodegenError(u) \/ EnterCallback(u)
      BY <2>3 DEF CodegenError, EnterCallback
    <2>4. CASE LeaveCallback(u)
      BY <2>4, ProgramType DEF LeaveCallback
    <2>5. QED
      BY <1>1, <2>1, <2>2, <2>3, <2>4 DEF CodegenStep
  <1>2. ASSUME NEW m \in Modules, TaskStep(m)
        PROVE  \/ Crashed'
               \/ /\ UNCHANGED <<position, draining, outcome, futures>>
                  /\ pc'[Main] = pc[Main]
    <2> USE UnitsAssumption
    <2>1. CASE StartPooled(m)
      BY <2>1 DEF StartPooled
    <2>2. CASE StartDeferred(m)
      BY <2>2 DEF StartDeferred
    <2>3. CASE ReadFile(m)
      BY <2>3 DEF ReadFile
    <2>4. CASE CrashOnReport(m)
      BY <2>4 DEF CrashOnReport, Crashed
    <2>5. CASE BeginAddDocument(m)
      BY <2>5 DEF BeginAddDocument
    <2>6. CASE EndAddDocument(m)
      BY <2>6 DEF EndAddDocument
    <2>7. CASE Parse(m)
      BY <2>7 DEF Parse
    <2>8. CASE Return(m)
      BY <2>8 DEF Return
    <2>9. QED
      BY <1>2, <2>1, <2>2, <2>3, <2>4, <2>5, <2>6, <2>7, <2>8 DEF TaskStep
  <1>3. CASE Terminated
    BY <1>3 DEF Terminated, vars
  <1> HIDE DEF TypeOK, Alive, Goto, Units, States
  <1>4. QED
    BY <1>1, <1>2, <1>3 DEF Next

LEMMA JoinedStep ==
  ASSUME TypeOK, TypeOK', Alive, Next
  PROVE  Crashed' \/ Joined'
  <1> SUFFICES ASSUME ~Crashed'
               PROVE  Joined'
    OBVIOUS
  <1>1. futures \in Seq(Modules) /\ position \in Nat \ {0} /\ Range(futures) \subseteq Modules
        /\ DOMAIN futures = 1 .. Len(futures)
    BY DEF TypeOK, Range
  <1>2. \A m \in Modules : pc[m] = "done" => pc'[m] = "done"
    BY PlacesStep
  <1>3. CASE ~MainStep
    <2>1. /\ position' = position
          /\ Joining \/ Joining' => pc'[Main] = pc[Main]
          /\ futures' = futures \/ \E x \in Modules : futures' = Append(futures, x)
      BY <1>3, OtherSteps
    <2>2. \A i \in DOMAIN futures : i \in DOMAIN futures' /\ futures'[i] = futures[i]
                                     /\ futures[i] \in Modules
      BY <1>1, <2>1
    <2>3. pc'[Main] \in {"get", "advance"} =>
            /\ position' \in DOMAIN futures'
            /\ \A i \in 1 .. position' - 1 : pc'[futures'[i]] = "done"
      <3>1. SUFFICES ASSUME pc'[Main] \in {"get", "advance"}
                     PROVE  /\ position \in DOMAIN futures'
                            /\ \A i \in 1 .. position - 1 : pc'[futures'[i]] = "done"
        BY <2>1
      <3>2. pc[Main] \in {"get", "advance"}
        BY <2>1, <3>1 DEF Joining
      <3>3. position \in DOMAIN futures /\ \A i \in 1 .. position - 1 : pc[futures[i]] = "done"
        BY <3>2 DEF Alive, Joined
      <3>4. \A i \in 1 .. position - 1 : i \in DOMAIN futures
        BY <3>3, <1>1
      <3>5. QED
        BY <3>3, <3>4, <2>2, <1>2
    <2>4. pc'[Main] = "advance" => pc'[futures'[position']] = "done"
      <3>1. SUFFICES ASSUME pc'[Main] = "advance"
                     PROVE  pc'[futures'[position]] = "done"
        BY <2>1
      <3>2. pc[Main] = "advance"
        BY <2>1, <3>1 DEF Joining
      <3>3. position \in DOMAIN futures /\ pc[futures[position]] = "done"
        BY <3>2 DEF Alive, Joined
      <3>4. QED
        BY <3>3, <2>2, <1>2
    <2>5. pc'[Main] \in {"end", "done"} =>
            /\ loaded' \subseteq Range(futures')
            /\ \A m \in Modules : pc'[m] \in {"idle", "done"}
      <3>1. SUFFICES ASSUME pc'[Main] \in {"end", "done"}
                     PROVE  /\ loaded' \subseteq Range(futures')
                            /\ \A m \in Modules : pc'[m] \in {"idle", "done"}
        OBVIOUS
      <3>2. Joining /\ pc[Main] \in {"end", "done"}
        BY <2>1, <3>1 DEF Joining
      <3>3. \A m \in Modules : pc[m] \in {"idle", "done"}
        BY <3>2 DEF Alive, Joined
      <3>4. pc' = pc
        BY <3>2, <3>3, <1>3, PlacesStep
      <3>5. \A u \in Units : ~Holder(u)'
        BY <3>2, <3>3, <3>4 DEF Holder, Units
      <3>6. Listed'
        BY CallbackListedStep
      <3>7. QED
        BY <3>3, <3>4, <3>5, <3>6 DEF Listed
    <2>6. ~Joining' => position' = 1
      BY <2>1 DEF Alive, Joined, Joining
    <2>7. QED
      BY <2>3, <2>4, <2>5, <2>6 DEF Joined
  <1>4. ASSUME pc'[Main] = "end", \A i \in DOMAIN futures : pc[futures[i]] = "done",
               futures' = futures
        PROVE  Joined'
    <2>1. Listed' /\ Callback'
      BY CallbackListedStep
    <2>2. \A m \in Range(futures) : m \in Modules /\ pc'[m] = "done"
      BY <1>1, <1>2, <1>4 DEF Range
    <2>3. \A u \in Units : ~Holder(u)'
      BY <2>1, <2>2, <1>4 DEF Holder, Callback, Units
    <2>4. loaded' \subseteq Range(futures')
      BY <2>1, <2>3 DEF Listed
    <2>5. \A m \in Modules : pc'[m] \in {"idle", "done"}
      BY <2>1, <2>2, <2>4, <1>4 DEF Listed
    <2>6. QED
      BY <1>4, <2>4, <2>5 DEF Joined, Joining
  <1>5. CASE MainCodegenDone
    <2>1. futures' = futures /\ position' = position /\ pc \in [Units -> States]
          /\ pc' = [pc EXCEPT ![Main] = IF futures = <<>> THEN "end" ELSE "get"]
      BY <1>5, ZenonT(60) DEF MainCodegenDone, request, Goto, TypeOK
    <2>2. position = 1
      BY <1>5 DEF MainCodegenDone, CodegenDone, Alive, Joined, Joining
    <2>3. QED
      BY <2>1, <2>2, <1>1, <1>4, UnitsAssumption DEF Joined, Units
  <1>6. CASE Get
    <2>1. futures' = futures /\ position' = position /\ pc[futures[position]] = "done"
          /\ pc[Main] = "get" /\ pc' = [pc EXCEPT ![Main] = "advance"]
      BY <1>6, ZenonT(60) DEF Get, request, join, Goto
    <2>2. /\ position \in DOMAIN futures
          /\ \A i \in 1 .. position - 1 : pc[futures[i]] = "done"
      BY <2>1 DEF Alive, Joined
    <2>3. \A i \in 1 .. position : futures[i] \in Modules
      BY <2>2, <1>1
    <2>4. pc'[Main] = "advance"
      BY <2>1 DEF TypeOK, Units
    <2>5. QED
      BY <2>1, <2>2, <2>3, <2>4, <1>1, <1>2 DEF Joined, Joining
  <1>7. CASE Advance
    <2>1. futures' = futures /\ pc[Main] = "advance" /\ pc \in [Units -> States]
      BY <1>7, ZenonT(60) DEF Advance, request, TypeOK
    <2>2. /\ position \in DOMAIN futures /\ pc[futures[position]] = "done"
          /\ \A i \in 1 .. position - 1 : pc[futures[i]] = "done"
      BY <2>1 DEF Alive, Joined
    <2>3. \A i \in 1 .. position : futures[i] \in Modules /\ pc'[futures[i]] = "done"
      BY <2>2, <1>1, <1>2
    <2>4. CASE position = Len(futures)
      <3>1. pc' = [pc EXCEPT ![Main] = "end"]
        BY <1>7, <2>4 DEF Advance, Goto
      <3>2. \A i \in DOMAIN futures : i = position \/ i \in 1 .. position - 1
        BY <2>4, <1>1
      <3>3. pc'[Main] = "end"
        BY <2>1, <3>1 DEF Units
      <3>4. QED
        BY <1>4, <2>1, <2>2, <3>2, <3>3
    <2>5. CASE position # Len(futures)
      <3>1. pc' = [pc EXCEPT ![Main] = "get"] /\ position' = position + 1
        BY <1>7, <2>5 DEF Advance, Goto
      <3>2. position + 1 \in DOMAIN futures /\ (position + 1) - 1 = position
        BY <2>2, <2>5, <1>1
      <3>3. pc'[Main] = "get"
        BY <2>1, <3>1 DEF Units
      <3>4. QED
        BY <2>1, <2>3, <3>1, <3>2, <3>3 DEF Joined, Joining
    <2>6. QED
      BY <2>4, <2>5
  <1>8. CASE Link
    <2>1. UNCHANGED <<futures, loaded>> /\ pc[Main] = "end" /\ pc' = [pc EXCEPT ![Main] = "done"]
          /\ pc \in [Units -> States]
      BY <1>8, ZenonT(60) DEF Link, request, Goto, TypeOK
    <2>2. loaded \subseteq Range(futures) /\ \A m \in Modules : pc[m] \in {"idle", "done"}
      BY <2>1 DEF Alive, Joined
    <2>3. pc'[Main] = "done" /\ \A m \in Modules : pc'[m] = pc[m]
      BY <2>1, UnitsAssumption DEF Units
    <2>4. QED
      BY <2>1, <2>2, <2>3 DEF Joined, Joining
  <1>9. QED
    BY <1>3, <1>5, <1>6, <1>7, <1>8 DEF MainStep
-----------------------------------------------------------------------------
LEMMA ReachImported ==
  ASSUME NEW p, NEW u \in Reach(p) \cup {Main}, NEW m \in Modules, m \in Imported(p, u)
  PROVE  m \in Reach(p)
  BY DEF Reach, Closed

\* A unit that has started is reachable, so a fault in it is one of the tree.
LEMMA StartedReachable ==
  ASSUME TypeOK, Alive, NEW u \in Units, pc[u] # "idle"
  PROVE  /\ u \in Reach(program) \cup {Main}
         /\ ~Clean(program, u) => ~Sound(program)
  BY DEF Alive, Listed, Reached, Sound, Units

\* One unit consumes the head of its code, and requests it if it is an import.
LEMMA ReachedConsume ==
  ASSUME TypeOK, Alive, NEW u \in Units, pc[u] \in {"codegen", "push"}, todo[u] # <<>>,
         program' = program, todo' = [todo EXCEPT ![u] = Tail(@)],
         loaded' = loaded, Head(todo[u]) = Error \/ Head(todo[u]) \in loaded,
         \A v \in Units \ {u} : pc'[v] = pc[v], pc'[u] \in {"codegen", "report"},
         Joining' <=> Joining
  PROVE  Reached'
  <1> USE DEF Alive
  <1>1. \A v \in Units : todo[v] \in Seq(Modules \cup {Error}) /\ todo \in [Units -> Seq(Modules \cup {Error})]
    BY DEF TypeOK
  <1>2. Range(todo[u]) = {Head(todo[u])} \cup Range(Tail(todo[u]))
    BY <1>1, RangeHeadTail
  <1>3. todo'[u] = Tail(todo[u]) /\ \A v \in Units \ {u} : todo'[v] = todo[v]
    BY <1>1
  <1>4. \A v \in Units : Range(todo'[v]) \subseteq Range(program'.code[v])
    BY <1>2, <1>3 DEF Reached
  <1>5. \A v \in Units : Imported(program', v) \subseteq loaded' \cup Range(todo'[v])
    <2>1. Error \notin Imported(program, u)
      BY DEF Imported
    <2>2. Imported(program, u) \subseteq loaded \cup Range(todo'[u])
      BY <1>2, <1>3, <2>1 DEF Reached
    <2>3. QED
      BY <1>3, <2>2 DEF Reached
  <1>6. program.fault[u] = "none"
    BY DEF Reached
  <1>7. Joining' => u # Main
    BY DEF Joining, Places, Joined
  <1> HIDE DEF Alive
  <1>8. Reached
    BY DEF Alive
  <1>9. Main \in Units /\ Modules \subseteq Units
    BY DEF Units
  <1>10. QED
    BY <1>3, <1>4, <1>5, <1>6, <1>7, <1>8, <1>9 DEF Reached

LEMMA ReachedStep ==
  ASSUME TypeOK, Alive, Next
  PROVE  Crashed' \/ Reached'
  <1> SUFFICES ASSUME ~Crashed'
               PROVE  Reached'
    OBVIOUS
  <1> USE DEF Joining
  <1>0. Reached /\ Places /\ Callback /\ Listed /\ Main \in Units /\ Modules \subseteq Units
        /\ pc \in [Units -> States] /\ Main \notin Modules /\ program.fault[Main] = "none"
    BY UnitsAssumption, ProgramType DEF Alive, Units, TypeOK
  <1>1. ASSUME NEW u \in Units, DuplicateRequest(u)
        PROVE  Reached'
    BY <1>0, <1>1, ReachedConsume DEF DuplicateRequest, Importing, inputs
  <1>2. ASSUME NEW u \in Units, Request(u)
        PROVE  Reached'
    <2> DEFINE x == Head(todo[u])
    <2>1. x \in Modules /\ x \in Range(todo[u]) /\ todo[u] # <<>> /\ x # Error
      BY <1>2, RangeHeadTail DEF TypeOK, Request, Importing
    <2>2. u \in Reach(program) \cup {Main} /\ program.fault[u] = "none"
      BY <1>0, <1>2, StartedReachable DEF Request, Importing, Reached
    <2>3. x \in Reach(program)
      BY <1>0, <2>1, <2>2, ReachImported DEF Reached, Imported
    <2>4. /\ UNCHANGED <<program, todo>> /\ loaded' = loaded \cup {x}
          /\ pc'[u] = "submit" /\ \A v \in Units \ {u} : pc'[v] = pc[v]
      BY <1>0, <1>2 DEF Request, Goto, inputs
    <2>5. QED
      BY <1>0, <2>2, <2>3, <2>4 DEF Reached
  <1>3. ASSUME NEW u \in Units, Submit(u)
        PROVE  Reached'
    <2> DEFINE x == Head(todo[u])
    <2>1. x \in Modules /\ pc[x] = "idle" /\ pc[u] = "submit"
      BY <1>0, <1>3 DEF Callback, Holder, Submit, TypeOK
    <2>2. /\ UNCHANGED <<program, todo, loaded>>
          /\ pc' = [pc EXCEPT ![u] = "push", ![x] = IF multi THEN "queued" ELSE "deferred"]
      BY <1>3, ZenonT(60) DEF Submit, inputs
    <2>3. /\ pc'[u] = "push" /\ pc'[x] \in {"queued", "deferred"}
          /\ \A v \in Units \ {u, x} : pc'[v] = pc[v]
      BY <1>0, <2>1, <2>2
    <2>4. QED
      BY <1>0, <2>1, <2>2, <2>3, ZenonT(60) DEF Reached
  <1>4. ASSUME NEW u \in Units, Push(u)
        PROVE  Reached'
    <2>1. todo[u] # <<>> /\ Head(todo[u]) \in loaded
      BY <1>0, <1>4 DEF Callback, Holder, Push
    <2>2. QED
      BY <1>0, <1>4, <2>1, ReachedConsume DEF Push, Goto, inputs
  <1>5. ASSUME NEW u \in Units, CodegenError(u)
        PROVE  Reached'
    BY <1>0, <1>5, ReachedConsume DEF CodegenError, Goto, inputs, request
  <1>6. ASSUME NEW u \in Units, EnterCallback(u) \/ LeaveCallback(u)
        PROVE  Reached'
    <2>1. CASE EnterCallback(u)
      BY <1>0, <2>1 DEF EnterCallback, Goto, inputs, request, Reached
    <2>2. CASE LeaveCallback(u)
      BY <1>0, <2>2 DEF LeaveCallback, Goto, inputs, request, Reached
    <2>3. QED
      BY <1>6, <2>1, <2>2
  <1>7. ASSUME NEW m \in Modules, TaskStep(m)
        PROVE  Reached'
    <2> USE <1>0 DEF Goto, inputs, request, Reached
    <2>1. CASE StartPooled(m)
      BY <2>1 DEF StartPooled
    <2>2. CASE StartDeferred(m)
      BY <2>2 DEF StartDeferred
    <2>3. CASE ReadFile(m)
      BY <2>3 DEF ReadFile
    <2>4. CASE CrashOnReport(m)
      BY <2>4 DEF CrashOnReport, Crashed
    <2>5. CASE BeginAddDocument(m)
      BY <2>5 DEF BeginAddDocument
    <2>6. CASE EndAddDocument(m)
      BY <2>6 DEF EndAddDocument
    <2>7. CASE Parse(m)
      <3>1. program.fault[m] \in Faults
        BY ProgramType
      <3>2. QED
        BY <2>7, <3>1 DEF Parse, Faults
    <2>8. CASE Return(m)
      BY <2>8 DEF Return, CodegenDone
    <2>9. QED
      BY <1>7, <2>1, <2>2, <2>3, <2>4, <2>5, <2>6, <2>7, <2>8 DEF TaskStep
  <1>8. CASE MainStep
    <2>1. /\ UNCHANGED <<program, todo, loaded>>
          /\ pc[Main] \in {"get", "advance", "end"} \/ todo[Main] = <<>>
      BY <1>8, ZenonT(60) DEF MainStep, MainCodegenDone, CodegenDone, Get, Advance, Link, inputs, request
    <2>2. /\ \A v \in Modules : pc'[v] = pc[v]
          /\ pc'[Main] \notin {"codegen", "submit", "push"}
      <3>1. CASE MainCodegenDone
        <4>1. pc' = [pc EXCEPT ![Main] = "end"] \/ pc' = [pc EXCEPT ![Main] = "get"]
          BY <3>1, ZenonT(60) DEF MainCodegenDone, Goto
        <4>2. QED
          BY <4>1, <1>0
      <3>2. CASE Get
        <4>1. pc' = [pc EXCEPT ![Main] = "advance"]
          BY <3>2, ZenonT(60) DEF Get, Goto
        <4>2. QED
          BY <4>1, <1>0
      <3>3. CASE Advance
        <4>1. pc' = [pc EXCEPT ![Main] = "end"] \/ pc' = [pc EXCEPT ![Main] = "get"]
          BY <3>3, ZenonT(60) DEF Advance, Goto
        <4>2. QED
          BY <4>1, <1>0
      <3>4. CASE Link
        <4>1. pc' = [pc EXCEPT ![Main] = "done"]
          BY <3>4, ZenonT(60) DEF Link, Goto
        <4>2. QED
          BY <4>1, <1>0
      <3>5. QED
        BY <1>8, <3>1, <3>2, <3>3, <3>4 DEF MainStep
    <2>3. todo[Main] = <<>>
      BY <1>0, <2>1 DEF Reached
    <2>4. \A u \in Units : u = Main \/ u \in Modules
      BY DEF Units
    <2>5. QED
      BY <1>0, <2>1, <2>2, <2>3, <2>4 DEF Reached
  <1>9. CASE Terminated
    BY <1>0, <1>9 DEF Terminated, vars, Reached
  <1>10. QED
    BY <1>1, <1>2, <1>3, <1>4, <1>5, <1>6, <1>7, <1>8, <1>9 DEF Next, CodegenStep
-----------------------------------------------------------------------------
\* A step that completes no unit of a sound tree, and takes Error off a unit's
\* code only by recording it.
LEMMA VerdictKept ==
  ASSUME TypeOK, Alive, UNCHANGED <<program, draining, module, outcome>>,
         errors \subseteq errors', Sound(program) => errors' = errors,
         \A m \in Modules : pc[m] = "done" => pc'[m] = "done",
         \A m \in Modules : Sound(program) /\ pc'[m] = "done" => pc[m] = "done",
         Joining' <=> Joining, pc'[Main] = "done" <=> pc[Main] = "done",
         \A u \in Units : Error \in Range(todo[u]) => Error \in Range(todo'[u]) \/ u \in errors'
  PROVE  Verdict'
  <1>1. Verdict
    BY DEF Alive
  <1>2. \A u \in Units : Error \in Range(program.code[u]) =>
          Error \in Range(todo'[u]) \/ u \in errors'
    BY <1>1 DEF Verdict
  <1>3. QED
    BY <1>1, <1>2 DEF Verdict

LEMMA VerdictStep ==
  ASSUME TypeOK, Alive, Next
  PROVE  Crashed' \/ Verdict'
  <1> SUFFICES ASSUME ~Crashed'
               PROVE  Verdict'
    OBVIOUS
  <1>0. /\ Reached /\ Places /\ Callback /\ Listed /\ Joined /\ Verdict
        /\ Main \in Units /\ Modules \subseteq Units /\ Main \notin Modules
        /\ pc \in [Units -> States] /\ todo \in [Units -> Seq(Modules \cup {Error})]
    BY UnitsAssumption DEF Alive, Units, TypeOK
  <1>1. ~MainStep => UNCHANGED <<draining, outcome>> /\ (Joining \/ Joining' => pc'[Main] = pc[Main])
    BY OtherSteps
  <1>2. \A m \in Modules : pc[m] = "done" => pc'[m] = "done"
    BY PlacesStep
  \* A unit takes the head off its code.
  <1>3. ASSUME NEW u \in Units, todo[u] # <<>>, todo' = [todo EXCEPT ![u] = Tail(@)],
               Head(todo[u]) # Error \/ u \in errors', errors \subseteq errors'
        PROVE  \A v \in Units : Error \in Range(todo[v]) => Error \in Range(todo'[v]) \/ v \in errors'
    <2>1. Range(todo[u]) = {Head(todo[u])} \cup Range(Tail(todo[u]))
      BY <1>0, <1>3, RangeHeadTail
    <2>2. todo'[u] = Tail(todo[u]) /\ \A v \in Units \ {u} : todo'[v] = todo[v]
      BY <1>0, <1>3
    <2>3. QED
      BY <1>3, <2>1, <2>2
  <1>4. ASSUME NEW u \in Units, CodegenStep(u), ~MainStep
        PROVE  Verdict'
    <2>1. UNCHANGED <<program, module>> /\ pc[u] \notin {"idle", "done"}
      BY <1>4, ZenonT(60) DEF CodegenStep, DuplicateRequest, Request, Submit, Push, CodegenError,
         EnterCallback, LeaveCallback, Importing, inputs
    <2>2. \A v \in Units : Error \in Range(todo[v]) => Error \in Range(todo'[v]) \/ v \in errors'
      <3>1. CASE DuplicateRequest(u)
        BY <3>1, <1>3 DEF DuplicateRequest, Importing
      <3>2. CASE Request(u) \/ Submit(u) \/ EnterCallback(u) \/ LeaveCallback(u)
        <4>1. todo' = todo
          BY <3>2, ZenonT(60) DEF Request, Submit, EnterCallback, LeaveCallback
        <4>2. QED
          BY <4>1
      <3>3. CASE Push(u)
        <4>1. todo[u] # <<>> /\ Head(todo[u]) \in Modules
          BY <3>3, <1>0 DEF Push, Callback, Holder, TypeOK
        <4>2. QED
          BY <3>3, <4>1, <1>3, UnitsAssumption DEF Push
      <3>4. CASE CodegenError(u)
        BY <3>4, <1>3 DEF CodegenError
      <3>5. QED
        BY <1>4, <3>1, <3>2, <3>3, <3>4 DEF CodegenStep
    <2>3. errors \subseteq errors' /\ (Sound(program) => errors' = errors)
      <3>1. CASE CodegenError(u)
        <4>1. Error \in Range(program.code[u])
          <5>1. todo[u] # <<>> /\ Head(todo[u]) = Error /\ todo[u] \in Seq(Modules \cup {Error})
            BY <3>1, <1>0 DEF CodegenError
          <5>2. Error \in Range(todo[u])
            BY <5>1, RangeHeadTail
          <5>3. QED
            BY <5>2, <1>0 DEF Reached
        <4>2. ~Sound(program)
          BY <4>1, <2>1, StartedReachable DEF Clean
        <4>3. QED
          BY <3>1, <4>2 DEF CodegenError
      <3>2. CASE ~CodegenError(u)
        BY <1>4, <3>2, ZenonT(60) DEF CodegenStep, DuplicateRequest, Request, Submit, Push,
           EnterCallback, LeaveCallback
      <3>3. QED
        BY <3>1, <3>2
    <2>4. \A m \in Modules : Sound(program) /\ pc'[m] = "done" => pc[m] = "done"
      <3>1. CASE LeaveCallback(u)
        <4>1. Sound(program) => program.fault[u] = "none"
          BY <2>1, StartedReachable DEF Clean
        <4>2. QED
          BY <3>1, <4>1, <1>0 DEF LeaveCallback, Goto
      <3>2. CASE ~LeaveCallback(u) /\ ~Submit(u)
        <4>1. \/ pc' = pc
              \/ \E s \in {"submit", "codegen", "report", "callback"} : pc' = [pc EXCEPT ![u] = s]
          BY <1>4, <3>2 DEF CodegenStep, DuplicateRequest, Request, Push, CodegenError,
             EnterCallback, Goto
        <4>2. QED
          BY <4>1, <1>0
      <3>3. CASE Submit(u)
        <4>1. \E s \in {"queued", "deferred"} :
                 pc' = [pc EXCEPT ![u] = "push", ![Head(todo[u])] = s]
          BY <3>3 DEF Submit
        <4>2. QED
          BY <4>1, <1>0
      <3>4. QED
        BY <3>1, <3>2, <3>3
    <2>5. Joining' <=> Joining
      BY <1>1, <1>4 DEF Joining
    <2>6. pc'[Main] = "done" <=> pc[Main] = "done"
      BY <1>1, <1>4 DEF Joining
    <2>7. QED
      BY <1>1, <1>2, <1>4, <2>1, <2>2, <2>3, <2>4, <2>5, <2>6, VerdictKept
  <1>5. ASSUME NEW m \in Modules, TaskStep(m), ~Return(m), ~MainStep
        PROVE  Verdict'
    <2>1. \/ Crashed'
          \/ UNCHANGED <<program, module, todo>> /\ pc[m] \notin {"idle", "done"}
      BY <1>5, ZenonT(60) DEF TaskStep, StartPooled, StartDeferred, ReadFile, CrashOnReport,
         BeginAddDocument, EndAddDocument, Parse, inputs, Crashed
    <2>2. errors \subseteq errors' /\ (Sound(program) => errors' = errors)
      <3>1. Sound(program) => program.fault[m] = "none"
        BY <1>0, <2>1, StartedReachable DEF Clean
      <3>2. CASE ReadFile(m)
        BY <3>1, <3>2 DEF ReadFile
      <3>3. CASE Parse(m)
        BY <3>1, <3>3 DEF Parse
      <3>4. CASE ~ReadFile(m) /\ ~Parse(m)
        BY <1>5, <3>4, ZenonT(60) DEF TaskStep, StartPooled, StartDeferred, CrashOnReport,
           BeginAddDocument, EndAddDocument
      <3>5. QED
        BY <3>2, <3>3, <3>4
    <2>3. \A x \in Modules : pc'[x] = "done" => pc[x] = "done"
      <3>1. \E s \in States \ {"done"} : pc' = [pc EXCEPT ![m] = s]
        BY <1>5 DEF TaskStep, StartPooled, StartDeferred, ReadFile, CrashOnReport, Crashed,
           BeginAddDocument, EndAddDocument, Parse, Goto, States
      <3>2. QED
        BY <3>1, <1>0
    <2>4. (Joining' <=> Joining) /\ (pc'[Main] = "done" <=> pc[Main] = "done")
      BY <1>1, <1>5 DEF Joining
    <2>5. QED
      BY <1>1, <1>2, <1>5, <2>1, <2>2, <2>3, <2>4, VerdictKept
  <1>6. ASSUME NEW m \in Modules, Return(m), ~MainStep
        PROVE  Verdict'
    <2>1. /\ UNCHANGED <<program, todo, errors>> /\ pc' = [pc EXCEPT ![m] = "done"]
          /\ module' = [module EXCEPT ![m] = IF m \in errors THEN "erased" ELSE "live"]
          /\ module \in [Units -> {"none", "live", "erased"}]
          /\ pc[m] = "codegen" /\ todo[m] = <<>>
      BY <1>6 DEF Return, CodegenDone, inputs, request, Goto, TypeOK
    <2>2. m \notin errors => Clean(program, m)
      <3>1. program.fault[m] = "none"
        BY <1>0, <2>1 DEF Reached
      <3>2. Error \notin Range(todo[m])
        BY <2>1, RangeEmpty
      <3>3. QED
        BY <1>0, <3>1, <3>2 DEF Verdict, Clean
    <2>3. /\ module'[m] = IF m \in errors THEN "erased" ELSE "live"
          /\ \A x \in Modules \ {m} : module'[x] = module[x] /\ pc'[x] = pc[x]
          /\ pc'[m] = "done"
      BY <1>0, <2>1
    <2>4. \A x \in Modules : module'[x] = "live" => pc'[x] = "done" /\ Clean(program, x)
      BY <1>0, <2>2, <2>3 DEF Verdict
    <2>5. \A x \in Modules : Sound(program) /\ pc'[x] = "done" => module'[x] = "live"
      BY <1>0, <2>2, <2>3 DEF Verdict
    <2>6. (Joining' <=> Joining) /\ (pc'[Main] = "done" <=> pc[Main] = "done")
      BY <1>1, <1>6 DEF Joining
    <2>7. QED
      BY <1>0, <1>1, <1>6, <2>1, <2>4, <2>5, <2>6 DEF Verdict
  <1>7. CASE MainCodegenDone
    <2>1. /\ UNCHANGED <<program, todo, errors, outcome>> /\ pc[Main] = "codegen" /\ todo[Main] = <<>>
          /\ module' = [module EXCEPT ![Main] = "live"] /\ draining' = (Main \in errors)
          /\ pc' = [pc EXCEPT ![Main] = IF futures = <<>> THEN "end" ELSE "get"]
      BY <1>7, ZenonT(60) DEF MainCodegenDone, CodegenDone, inputs, request, Goto
    <2>2. module \in [Units -> {"none", "live", "erased"}]
      BY DEF TypeOK
    <2>3. \A m \in Modules : module'[m] = module[m] /\ pc'[m] = pc[m]
      BY <1>0, <2>1, <2>2
    <2>4. pc'[Main] \in {"end", "get"}
      BY <1>0, <2>1
    <2>5. Main \notin errors => Error \notin Range(program.code[Main])
      BY <1>0, <2>1, RangeEmpty DEF Verdict
    <2>6. /\ Sound(program) => errors' = {} /\ ~draining'
          /\ Joining' /\ ~draining' => Error \notin Range(program.code[Main])
      <3>1. Sound(program) => errors = {}
        BY <1>0 DEF Verdict
      <3>2. QED
        BY <2>1, <2>5, <3>1, ZenonT(60)
    <2>7. QED
      BY <1>0, <2>1, <2>3, <2>4, <2>6 DEF Verdict
  <1>8. CASE Get
    <2>1. /\ UNCHANGED <<program, todo, errors, outcome, draining>> /\ pc[Main] = "get"
          /\ module' = IF draining /\ module[futures[position]] = "live"
                       THEN [module EXCEPT ![futures[position]] = "erased"] ELSE module
          /\ pc' = [pc EXCEPT ![Main] = "advance"]
      BY <1>8, ZenonT(60) DEF Get, inputs, request, join, Goto
    <2>2. module \in [Units -> {"none", "live", "erased"}]
      BY DEF TypeOK
    <2>3. \A m \in Modules : module'[m] = "live" => module[m] = "live"
      BY <1>0, <2>1, <2>2
    <2>4. Sound(program) => module' = module
      <3>1. Sound(program) => ~draining
        BY <1>0, ZenonT(60) DEF Verdict
      <3>2. QED
        BY <2>1, <3>1
    <2>5. \A m \in Modules : pc'[m] = pc[m]
      BY <1>0, <2>1
    <2>6. pc'[Main] = "advance" /\ Joining
      BY <1>0, <2>1 DEF Joining
    <2>7. QED
      BY <1>0, <2>1, <2>3, <2>4, <2>5, <2>6 DEF Verdict
  <1>9. CASE Advance
    <2>1. /\ UNCHANGED <<program, todo, errors, outcome, draining, module>> /\ pc[Main] = "advance"
          /\ \E s \in {"end", "get"} : pc' = [pc EXCEPT ![Main] = s]
      BY <1>9 DEF Advance, inputs, request, Goto
    <2>2. /\ \A m \in Modules : pc'[m] = pc[m]
          /\ pc'[Main] \in {"end", "get"}
      BY <1>0, <2>1
    <2>3. QED
      BY <1>0, <2>1, <2>2, VerdictKept DEF Joining
  <1>10. CASE Link
    <2> DEFINE ok == ~draining /\ \A i \in DOMAIN futures : module[futures[i]] = "live"
               cleared == [u \in Units |-> IF module[u] = "live" /\ u \in Range(futures) \cup {Main}
                                           THEN "erased" ELSE module[u]]
    <2>1. /\ UNCHANGED <<program, todo, errors, draining>> /\ pc[Main] = "end"
          /\ outcome' = IF ok THEN "success" ELSE "failure"
          /\ module' = IF ok THEN module ELSE cleared
          /\ pc' = [pc EXCEPT ![Main] = "done"]
      BY <1>10, ZenonT(60) DEF Link, inputs, request, Goto
    <2>2. Sound(program) => ok
      <3>1. SUFFICES ASSUME Sound(program)
                     PROVE  ~draining /\ \A i \in DOMAIN futures : module[futures[i]] = "live"
        OBVIOUS
      <3>2. ~draining
        BY <1>0, <3>1, ZenonT(60) DEF Verdict
      <3>3. ASSUME NEW i \in DOMAIN futures
            PROVE  module[futures[i]] = "live"
        <4>1. futures[i] \in Range(futures) /\ futures[i] \in Modules
          BY <3>3 DEF Range, TypeOK
        <4>2. pc[futures[i]] = "done"
          BY <1>0, <2>1, <4>1 DEF Listed, Joined
        <4>3. QED
          BY <1>0, <3>1, <4>1, <4>2 DEF Verdict
      <3>4. QED
        BY <3>2, <3>3, ZenonT(60)
    <2>3. \A m \in Modules : module'[m] = "live" => module[m] = "live"
      <3>1. CASE module' = module
        BY <3>1
      <3>2. CASE module' = cleared
        BY <3>2, <1>0
      <3>3. QED
        BY <2>1, <3>1, <3>2, ZenonT(60)
    <2>4. Sound(program) => module' = module
      BY <2>1, <2>2, ZenonT(60)
    <2>5. outcome' \in {"success", "failure"}
      BY <2>1, ZenonT(60)
    <2>6. pc'[Main] = "done" /\ Joining /\ \A m \in Modules : pc'[m] = pc[m]
      BY <1>0, <2>1 DEF Joining
    <2> HIDE DEF ok, cleared
    <2>7. QED
      BY <1>0, <2>1, <2>3, <2>4, <2>5, <2>6 DEF Verdict
  <1>11. CASE Terminated
    <2>1. UNCHANGED vars
      BY <1>11 DEF Terminated
    <2>2. QED
      BY <1>0, <2>1 DEF vars, Verdict, Joining
  <1>12. QED
    BY <1>4, <1>5, <1>6, <1>7, <1>8, <1>9, <1>10, <1>11 DEF Next, MainStep, TaskStep
-----------------------------------------------------------------------------
LEMMA DistinctStep ==
  ASSUME TypeOK, Alive, Next
  PROVE  Crashed' \/ Distinct'
  <1>1. Distinct /\ Callback
    BY DEF Alive
  <1>2. futures' = futures \/ \E u \in Units : Push(u)
    BY ZenonT(60) DEF Next, CodegenStep, TaskStep, MainStep, DuplicateRequest, Request, Submit,
       CodegenError, EnterCallback, LeaveCallback, StartPooled, StartDeferred, ReadFile,
       CrashOnReport, BeginAddDocument, EndAddDocument, Parse, Return, MainCodegenDone, Get,
       Advance, Link, Terminated, vars, request
  <1>3. CASE futures' = futures
    BY <1>1, <1>3 DEF Distinct
  <1>4. ASSUME NEW u \in Units, Push(u)
        PROVE  Distinct'
    <2> DEFINE x == Head(todo[u])
    <2>1. x \in loaded \ Range(futures) /\ x \in Modules /\ futures \in Seq(Modules)
      BY <1>1, <1>4 DEF Callback, Holder, Push, TypeOK
    <2>2. futures' = Append(futures, x)
      BY <1>4 DEF Push
    <2>3. /\ DOMAIN futures = 1 .. Len(futures) /\ DOMAIN futures' = 1 .. Len(futures) + 1
          /\ futures'[Len(futures) + 1] = x /\ \A i \in 1 .. Len(futures) : futures'[i] = futures[i]
          /\ Len(futures) \in Nat
      BY <2>1, <2>2
    <2>4. \A i \in 1 .. Len(futures) : futures[i] # x
      BY <2>1, <2>3 DEF Range
    <2>5. QED
      BY <1>1, <2>3, <2>4 DEF Distinct
  <1>5. QED
    BY <1>2, <1>3, <1>4

-----------------------------------------------------------------------------
LEMMA InvInit == Init => Alive
  <1> SUFFICES ASSUME Init
               PROVE  Alive
    OBVIOUS
  <1>0. /\ pc = [u \in Units |-> IF u = Main THEN "codegen" ELSE "idle"]
        /\ Main \in Units /\ Modules \subseteq Units /\ Main \notin Modules
        /\ futures = <<>> /\ loaded = {} /\ todo = program.code /\ TypeOK
    BY UnitsAssumption, TypeInit DEF Init, Units
  <1>1. pc[Main] = "codegen" /\ \A m \in Modules : pc[m] = "idle"
    BY <1>0
  <1>2. Places
    BY <1>1 DEF Places
  <1>3. \A u \in Units : ~Holder(u)
    BY <1>0 DEF Holder
  <1>4. Callback /\ Listed
    BY <1>0, <1>1, <1>3, RangeEmpty DEF Callback, Listed
  <1>5. Joined
    BY <1>1 DEF Joined, Joining, Init
  <1>6. \A u \in Units : u = Main \/ u \in Modules
    BY DEF Units
  <1>7. Reached
    BY <1>0, <1>1, <1>6, ProgramType DEF Reached, Imported, Joining
  <1>8. Verdict
    <2>1. draining = FALSE /\ errors = {} /\ outcome = "running"
          /\ module = [u \in Units |-> "none"]
      BY DEF Init
    <2>2. \A u \in Units : Error \in Range(program.code[u]) => Error \in Range(todo[u])
      BY <1>0
    <2>3. \A m \in Modules : module[m] = "none"
      BY <1>0, <2>1
    <2>4. ~Joining
      BY <1>1 DEF Joining
    <2>5. QED
      BY <1>1, <2>1, <2>2, <2>3, <2>4, ZenonT(60) DEF Verdict
  <1>9. QED
    BY <1>0, <1>2, <1>4, <1>5, <1>7, <1>8 DEF Alive, Distinct

\* After a crash nothing moves.
LEMMA CrashedStep ==
  ASSUME Crashed, [Next]_vars
  PROVE  UNCHANGED vars
  <1>1. \A u \in Units : pc[u] = "crashed"
    BY DEF Crashed
  <1>2. ASSUME NEW u \in Units, CodegenStep(u)
        PROVE  FALSE
    BY <1>1, <1>2 DEF CodegenStep, DuplicateRequest, Request, Submit, Push, CodegenError,
       EnterCallback, LeaveCallback, Importing
  <1>3. ASSUME NEW m \in Modules, TaskStep(m)
        PROVE  FALSE
    <2>1. pc[m] = "crashed"
      BY <1>1 DEF Units
    <2>2. QED
      BY <1>3, <2>1 DEF TaskStep, StartPooled, StartDeferred, ReadFile, CrashOnReport,
         BeginAddDocument, EndAddDocument, Parse, Return, CodegenDone
  <1>4. ~MainStep
    <2>1. pc[Main] = "crashed"
      BY <1>1 DEF Units
    <2>2. ~MainCodegenDone /\ ~Get /\ ~Advance
      BY <2>1 DEF MainCodegenDone, Get, Advance, CodegenDone
    <2>3. ~Link
      <3>1. pc[Main] # "end"
        BY <2>1
      <3>2. QED
        BY <3>1, ZenonT(60) DEF Link
    <2>4. QED
      BY <2>2, <2>3 DEF MainStep
  <1>5. QED
    BY <1>2, <1>3, <1>4 DEF Next, Terminated

LEMMA InvStep == IInv /\ [Next]_vars => IInv'
  <1> SUFFICES ASSUME IInv, [Next]_vars
               PROVE  IInv'
    OBVIOUS
  <1>1. TypeOK /\ TypeOK'
    BY TypeStep DEF IInv
  <1>2. CASE Crashed
    <2>1. UNCHANGED <<pc, outcome>>
      BY <1>2, CrashedStep DEF vars
    <2>2. QED
      BY <1>1, <1>2, <2>1 DEF IInv, Crashed
  <1>3. CASE Alive /\ Next
    BY <1>1, <1>3, CallbackListedStep, PlacesStep, DistinctStep, JoinedStep, ReachedStep,
       VerdictStep
    DEF IInv, Alive
  <1>4. CASE Alive /\ UNCHANGED vars
    <2>1. UNCHANGED <<program, pc, todo, parent, errors, loaded, futures, dsOwner, module, position,
                      draining, outcome>>
      BY <1>4 DEF vars
    <2>2. Places' /\ Callback' /\ Listed'
      BY <1>4, <2>1 DEF Alive, Places, Callback, Listed, Holder
    <2>3. Distinct' /\ Joined' /\ Reached' /\ Verdict'
      BY <1>4, <2>1 DEF Alive, Distinct, Joined, Joining, Reached, Verdict
    <2>4. QED
      BY <1>1, <2>2, <2>3 DEF IInv, Alive
  <1>5. QED
    BY <1>2, <1>3, <1>4 DEF IInv

\* The inductive invariant holds in every reachable state.
THEOREM Invariance == Spec => []IInv
  <1>1. Init => IInv
    BY TypeInit, InvInit DEF IInv
  <1>2. QED
    BY <1>1, InvStep, PTL DEF Spec

\* Every variable stays within its type, whatever the sources and the scheduling.
THEOREM TypeCorrect == Spec => []TypeOK
  <1>1. IInv => TypeOK
    BY DEF IInv
  <1>2. QED
    BY <1>1, Invariance, PTL

\* The race of the main thread's unlocked iteration with a task's push_back is
\* excluded: at the last future every task has returned or was never requested.
THEOREM QuietAtLast == Spec => []LastFutureIsQuiet
  <1>1. IInv => LastFutureIsQuiet
    <2> SUFFICES ASSUME IInv, pc[Main] = "end" \/ (pc[Main] = "advance" /\ position = Len(futures)),
                        NEW m \in Modules
                 PROVE  pc[m] \in {"idle", "done"}
      BY DEF LastFutureIsQuiet
    <2>1. Main \in Units
      BY DEF Units
    <2>2. Alive
      BY <2>1 DEF IInv, Crashed
    <2>3. CASE pc[Main] = "end"
      BY <2>2, <2>3 DEF Alive, Joined
    <2>4. CASE pc[Main] = "advance" /\ position = Len(futures)
      <3>1. futures \in Seq(Modules) /\ position \in DOMAIN futures
        BY <2>2, <2>4 DEF IInv, TypeOK, Alive, Joined
      <3>2. ASSUME NEW x \in Range(futures)
            PROVE  pc[x] = "done" /\ x \in Modules
        <4>1. PICK i \in DOMAIN futures : x = futures[i]
          BY <3>2 DEF Range
        <4>2. i = position \/ i \in 1 .. position - 1
          BY <3>1, <2>4
        <4>3. QED
          BY <2>2, <2>4, <3>1, <4>1, <4>2 DEF Alive, Joined
      <3>3. \A u \in Units : ~Holder(u)
        <4>1. ASSUME NEW u \in Units, Holder(u)
              PROVE  FALSE
          <5>1. u # Main
            BY <2>4, <4>1 DEF Holder
          <5>2. u \in Range(futures)
            BY <2>2, <4>1, <5>1 DEF Alive, Callback, Units
          <5>3. QED
            BY <3>2, <4>1, <5>2 DEF Holder
        <4>2. QED
          BY <4>1
      <3>4. loaded \subseteq Range(futures)
        BY <2>2, <3>3 DEF Alive, Listed
      <3>5. QED
        BY <2>2, <3>2, <3>4 DEF Alive, Listed
    <2>5. QED
      BY <2>3, <2>4
  <1>2. QED
    BY <1>1, Invariance, PTL
\* Once the main thread is through with the list, the modules requested are those
\* that are reachable: whatever a compiled unit imports has been requested.
LEMMA AllReached ==
  ASSUME TypeOK, Alive, pc[Main] \in {"end", "done"}
  PROVE  /\ loaded = Reach(program) /\ Range(futures) = Reach(program)
         /\ \A m \in Reach(program) : pc[m] = "done"
  <1>1. Reached /\ Listed /\ Joined /\ Joining /\ loaded \subseteq Modules
    BY DEF Alive, TypeOK, Joining
  <1>2. \A m \in loaded : pc[m] = "done"
    BY <1>1 DEF Listed, Joined
  <1>3. ASSUME NEW u \in loaded \cup {Main}
        PROVE  Imported(program, u) \subseteq loaded
    <2>1. u \in Units
      BY <1>1 DEF Units
    <2>2. CASE program.fault[u] = "none"
      <3>1. todo[u] = <<>>
        BY <1>1, <1>2, <2>2 DEF Reached
      <3>2. QED
        BY <1>1, <2>1, <3>1, RangeEmpty DEF Reached
    <2>3. CASE program.fault[u] # "none"
      BY <2>3 DEF Imported
    <2>4. QED
      BY <2>2, <2>3
  <1>4. Closed(program, loaded)
    BY <1>3 DEF Closed
  <1>5. Reach(program) \subseteq loaded
    BY <1>1, <1>4 DEF Reach
  <1>6. loaded \subseteq Reach(program) /\ loaded = Range(futures)
    BY <1>1 DEF Reached, Listed, Joined
  <1>7. QED
    BY <1>2, <1>5, <1>6

\* Every module reachable through imports is compiled exactly once, and no other.
THEOREM NothingMissed == Spec => []NoModuleMissed
  <1>1. IInv => NoModuleMissed
    <2> SUFFICES ASSUME IInv, pc[Main] = "end"
                 PROVE  /\ Range(futures) = Reach(program)
                        /\ \A i, j \in DOMAIN futures : futures[i] = futures[j] => i = j
                        /\ \A m \in Reach(program) : pc[m] = "done"
      BY DEF NoModuleMissed
    <2>1. TypeOK /\ Alive
      BY DEF IInv, Crashed, Units
    <2>2. Distinct
      BY <2>1 DEF Alive
    <2>3. QED
      BY <2>1, <2>2, AllReached DEF Distinct
  <1>2. QED
    BY <1>1, Invariance, PTL

LEMMA SameProgram ==
  ASSUME NEW p
  PROVE  Session!Reach(p) = Reach(p) /\ Session!Sound(p) = Sound(p)
  <1>1. Session!Units = Units
    BY DEF Session!Units, Units
  <1>2. \A u : Session!Imported(p, u) = Imported(p, u)
    BY DEF Session!Imported, Imported, Session!Range, Range
  <1>3. \A S : Session!Closed(p, S) = Closed(p, S)
    BY <1>2 DEF Session!Closed, Closed
  <1>4. Session!Reach(p) = Reach(p)
    BY <1>3 DEF Session!Reach, Reach
  <1>5. \A u : Session!Clean(p, u) = Clean(p, u)
    BY DEF Session!Clean, Clean, Session!Range, Range
  <1>6. QED
    BY <1>4, <1>5 DEF Session!Sound, Sound

\* The protocol implements ImportSession: whether the compilation succeeds, and
\* with which modules, depends on the sources alone.
THEOREM ImplementsSession == Spec => OutcomeIsDeterministic
  <1>1. Init => Session!Init
    BY DEF Init, Session!Init
  <1>2. IInv /\ [Next]_vars => [Session!Finish]_(Session!vars)
    <2> SUFFICES ASSUME IInv, [Next]_vars
                 PROVE  [Session!Finish]_(Session!vars)
      OBVIOUS
    <2>1. CASE Crashed \/ UNCHANGED vars
      <3>1. UNCHANGED vars
        BY <2>1, CrashedStep
      <3>2. QED
        BY <3>1 DEF vars, Session!vars
    <2>2. ASSUME Alive, Next, ~Link
          PROVE  UNCHANGED Session!vars
      <3>1. program' = program
        BY <2>2, ZenonT(60) DEF Next, CodegenStep, TaskStep, MainStep, DuplicateRequest, Request, Submit,
           Push, CodegenError, EnterCallback, LeaveCallback, StartPooled, StartDeferred, ReadFile,
           CrashOnReport, BeginAddDocument, EndAddDocument, Parse, Return, MainCodegenDone, Get,
           Advance, Terminated, vars, inputs
      <3>2. outcome' = outcome \/ (outcome = "running" /\ outcome' = "crash")
        <4>1. CASE Crashed'
          <5>1. CASE outcome = "running"
            BY <4>1, <5>1 DEF Crashed
          <5>2. CASE outcome # "running"
            <6>1. Joining /\ \A m \in Modules : pc[m] \in {"idle", "done"}
              BY <2>2, <5>2 DEF Alive, Verdict, Joined, Joining
            <6>2. \A m \in Modules : ~CrashOnReport(m)
              BY <6>1 DEF CrashOnReport
            <6>3. outcome' = outcome
              BY <2>2, <6>2, ZenonT(60) DEF Next, CodegenStep, TaskStep, MainStep, DuplicateRequest,
                 Request, Submit, Push, CodegenError, EnterCallback, LeaveCallback, StartPooled,
                 StartDeferred, ReadFile, BeginAddDocument, EndAddDocument, Parse, Return,
                 MainCodegenDone, Get, Advance, Terminated, vars, join
            <6>4. QED
              BY <6>3
          <5>3. QED
            BY <5>1, <5>2
        <4>2. CASE ~Crashed' /\ ~MainStep
          BY <2>2, <4>2, OtherSteps DEF IInv
        <4>3. CASE MainStep
          BY <2>2, <4>3, ZenonT(60) DEF MainStep, MainCodegenDone, Get, Advance, join
        <4>4. QED
          BY <4>1, <4>2, <4>3
      <3>3. outcome = "success" => futures' = futures
        <4>1. SUFFICES ASSUME outcome = "success", futures' # futures
                       PROVE  FALSE
          OBVIOUS
        <4>2. Joining /\ pc[Main] = "done" /\ \A m \in Modules : pc[m] \in {"idle", "done"}
          BY <2>2, <4>1 DEF Alive, Verdict, Joined, Joining
        <4>3. PICK u \in Units : Push(u)
          BY <2>2, <4>1, ZenonT(60) DEF Next, CodegenStep, TaskStep, MainStep, DuplicateRequest,
             Request, Submit, CodegenError, EnterCallback, LeaveCallback, StartPooled,
             StartDeferred, ReadFile, CrashOnReport, BeginAddDocument, EndAddDocument, Parse,
             Return, MainCodegenDone, Get, Advance, Terminated, vars, request
        <4>4. QED
          BY <4>2, <4>3 DEF Push, Units
      <3>4. QED
        BY <3>1, <3>2, <3>3 DEF Session!vars
    <2>3. ASSUME Alive, Link
          PROVE  Session!Finish
      <3> DEFINE ok == ~draining /\ \A i \in DOMAIN futures : module[futures[i]] = "live"
      <3>1. /\ UNCHANGED <<program, futures>> /\ pc[Main] = "end"
            /\ outcome' = IF ok THEN "success" ELSE "failure"
        BY <2>3, ZenonT(60) DEF Link, inputs, request
      <3>2. outcome = "running" /\ TypeOK
        BY <2>3, <3>1 DEF Alive, Verdict, IInv
      <3>3. Range(futures) = Reach(program)
        BY <2>3, <3>1, <3>2, AllReached
      <3>4. ok => Sound(program)
        <4>1. SUFFICES ASSUME ~draining, \A i \in DOMAIN futures : module[futures[i]] = "live",
                              NEW u \in Reach(program) \cup {Main}
                       PROVE  Clean(program, u)
          BY ZenonT(60) DEF Sound
        <4>2. Verdict /\ program.fault[Main] = "none" /\ Joining
          BY <2>3, <3>1, <3>2, ProgramType DEF Alive, Joining
        <4>3. CASE u = Main
          <5>1. Error \notin Range(program.code[Main])
            BY <4>1, <4>2, ZenonT(60) DEF Verdict
          <5>2. QED
            BY <4>2, <4>3, <5>1 DEF Clean
        <4>4. CASE u \in Reach(program)
          <5>1. PICK i \in DOMAIN futures : u = futures[i]
            BY <3>3, <4>4 DEF Range
          <5>2. module[u] = "live" /\ u \in Modules
            BY <4>1, <4>4, <5>1 DEF Reach
          <5>3. QED
            BY <4>2, <5>2 DEF Verdict
        <4>5. QED
          BY <4>3, <4>4
      <3>5. Sound(program) => ok
        <4>1. SUFFICES ASSUME Sound(program)
                       PROVE  ~draining /\ \A i \in DOMAIN futures : module[futures[i]] = "live"
          OBVIOUS
        <4>2. Verdict
          BY <2>3 DEF Alive
        <4>3. ~draining
          BY <4>1, <4>2, ZenonT(60) DEF Verdict
        <4>4. ASSUME NEW i \in DOMAIN futures
              PROVE  module[futures[i]] = "live"
          <5>1. futures[i] \in Reach(program)
            BY <3>3, <4>4 DEF Range
          <5>2. futures[i] \in Modules /\ pc[futures[i]] = "done"
            BY <2>3, <3>1, <3>2, <5>1, AllReached DEF Reach
          <5>3. QED
            BY <4>1, <4>2, <5>2 DEF Verdict
        <4>5. QED
          BY <4>3, <4>4, ZenonT(60)
      <3>6. QED
        BY <3>1, <3>2, <3>3, <3>4, <3>5, SameProgram DEF Session!Finish
    <2>4. QED
      BY <2>1, <2>2, <2>3 DEF IInv
  <1>3. QED
    BY <1>1, <1>2, Invariance, PTL DEF Spec, OutcomeIsDeterministic, Session!Spec

-----------------------------------------------------------------------------
(***************************************************************************)
(* The modules and texts that a finished compilation has.                  *)
(***************************************************************************)
\* The text of m is in m_documents: it has been read, and nothing kept it out.
Texts ==
  /\ Main \in documents
  /\ \A m \in Modules : m \in documents => pc[m] # "idle"
  /\ \A m \in Modules :
       m \in documents \/ program.fault[m] = "access"
         \/ pc[m] \in {"idle", "queued", "deferred", "open", "addDocument", "inAddDocument"}

\* The main module lives from its code generation to the end, and what Link has
\* done with the modules stays done.
Results ==
  /\ pc[Main] \in {"get", "advance", "end"} => module[Main] = "live"
  /\ outcome = "failure" => \A u \in Units : module[u] # "live"
  /\ outcome = "success" => /\ module[Main] = "live"
                            /\ \A m \in Range(futures) : module[m] = "live"
                            /\ linkOrder = QualifierOrder(futures)

\* After the end nothing moves.
LEMMA FinishedStep ==
  ASSUME TypeOK, Alive, pc[Main] = "done", Next
  PROVE  UNCHANGED vars
  <1>1. \A u \in Units : pc[u] \in {"idle", "done"}
    BY DEF Alive, Joined, Units
  <1>2. ASSUME NEW u \in Units, CodegenStep(u)
        PROVE  FALSE
    BY <1>1, <1>2 DEF CodegenStep, DuplicateRequest, Request, Submit, Push, CodegenError,
       EnterCallback, LeaveCallback, Importing
  <1>3. ASSUME NEW m \in Modules, TaskStep(m)
        PROVE  FALSE
    <2>1. pc[m] \in {"idle", "done"}
      BY <1>1 DEF Units
    <2>2. QED
      BY <1>3, <2>1 DEF TaskStep, StartPooled, StartDeferred, ReadFile, CrashOnReport,
         BeginAddDocument, EndAddDocument, Parse, Return, CodegenDone
  <1>4. ~MainStep
    <2>1. ~MainCodegenDone /\ ~Get /\ ~Advance
      BY DEF MainCodegenDone, Get, Advance, CodegenDone
    <2>2. pc[Main] # "end"
      OBVIOUS
    <2>3. ~Link
      BY <2>2, ZenonT(60) DEF Link
    <2>4. QED
      BY <2>1, <2>3 DEF MainStep
  <1>5. QED
    BY <1>2, <1>3, <1>4 DEF Next, Terminated

LEMMA TextsStep ==
  ASSUME TypeOK, Alive, Texts, Next
  PROVE  Crashed' \/ Texts'
  <1> SUFFICES ASSUME ~Crashed'
               PROVE  Texts'
    OBVIOUS
  <1>0. /\ Main \in Units /\ Modules \subseteq Units /\ Main \notin Modules
        /\ pc \in [Units -> States] /\ todo \in [Units -> Seq(Modules \cup {Error})]
        /\ \A m \in Modules : program.fault[m] \in Faults
    BY UnitsAssumption, ProgramType DEF Units, TypeOK
  \* Most steps add no text and take a unit that has one to where it keeps it.
  <1>1. ASSUME UNCHANGED <<program, documents>>, NEW u \in Units, NEW state, pc' = [pc EXCEPT ![u] = state],
               pc[u] # "idle", state # "idle",
               \/ state \in {"queued", "deferred", "open", "addDocument", "inAddDocument"}
               \/ pc[u] \notin {"idle", "queued", "deferred", "open", "addDocument", "inAddDocument"}
               \/ program.fault[u] = "access"
        PROVE  Texts'
    BY <1>0, <1>1 DEF Texts
  <1>2. ASSUME NEW u \in Units, CodegenStep(u)
        PROVE  Texts'
    <2>1. CASE DuplicateRequest(u)
      BY <2>1 DEF DuplicateRequest, inputs, Texts
    <2>2. CASE Request(u)
      BY <1>1, <2>2 DEF Request, Importing, inputs, Goto
    <2>3. CASE Push(u)
      BY <1>1, <2>3 DEF Push, inputs, Goto
    <2>4. CASE CodegenError(u)
      BY <1>1, <2>4 DEF CodegenError, inputs, Goto
    <2>5. CASE EnterCallback(u)
      BY <1>1, <2>5 DEF EnterCallback, inputs, Goto
    <2>6. CASE LeaveCallback(u)
      BY <1>1, <2>6 DEF LeaveCallback, inputs, Goto
    <2>7. CASE Submit(u)
      <3> DEFINE x == Head(todo[u])
      <3>1. x \in Modules /\ pc[x] = "idle" /\ pc[u] = "submit"
        BY <2>7, <1>0 DEF Alive, Callback, Holder, Submit, TypeOK
      <3>2. /\ UNCHANGED <<program, documents>>
            /\ pc' = [pc EXCEPT ![u] = "push", ![x] = IF multi THEN "queued" ELSE "deferred"]
        BY <2>7, ZenonT(60) DEF Submit, inputs
      <3> HIDE DEF x
      <3>3. /\ pc'[u] = "push" /\ pc'[x] \in {"queued", "deferred"}
            /\ \A v \in Units \ {u, x} : pc'[v] = pc[v]
        BY <1>0, <3>1, <3>2
      <3>4. QED
        BY <1>0, <3>1, <3>2, <3>3 DEF Texts
    <2>8. QED
      BY <1>2, <2>1, <2>2, <2>3, <2>4, <2>5, <2>6, <2>7 DEF CodegenStep
  <1>3. ASSUME NEW m \in Modules, TaskStep(m)
        PROVE  Texts'
    <2>1. CASE StartPooled(m)
      BY <1>0, <1>1, <2>1 DEF StartPooled, inputs, Goto
    <2>2. CASE StartDeferred(m)
      BY <1>0, <1>1, <2>2 DEF StartDeferred, inputs, Goto
    <2>3. CASE ReadFile(m)
      <3>1. CASE program.fault[m] = "access"
        BY <1>0, <1>1, <2>3, <3>1 DEF ReadFile, inputs, Goto
      <3>2. CASE program.fault[m] # "access"
        BY <1>0, <1>1, <2>3, <3>2 DEF ReadFile, inputs, Goto
      <3>3. QED
        BY <3>1, <3>2
    <2>4. CASE CrashOnReport(m)
      BY <2>4 DEF CrashOnReport, Crashed
    <2>5. CASE BeginAddDocument(m)
      BY <1>0, <1>1, <2>5 DEF BeginAddDocument, inputs, Goto
    <2>6. CASE EndAddDocument(m)
      <3>1. /\ pc[m] = "inAddDocument" /\ program' = program /\ documents' = documents \cup {m}
            /\ pc' = [pc EXCEPT ![m] = "parse"]
        BY <2>6 DEF EndAddDocument, inputs, Goto
      <3>2. QED
        BY <1>0, <3>1 DEF Texts
    <2>7. CASE Parse(m)
      <3>1. CASE program.fault[m] = "syntax"
        BY <1>0, <1>1, <2>7, <3>1 DEF Parse, inputs, Goto
      <3>2. CASE program.fault[m] # "syntax"
        BY <1>0, <1>1, <2>7, <3>2 DEF Parse, inputs, Goto
      <3>3. QED
        BY <3>1, <3>2
    <2>8. CASE Return(m)
      BY <1>0, <1>1, <2>8 DEF Return, CodegenDone, inputs, Goto
    <2>9. QED
      BY <1>3, <2>1, <2>2, <2>3, <2>4, <2>5, <2>6, <2>7, <2>8 DEF TaskStep
  <1>4. CASE MainStep
    <2>1. /\ UNCHANGED <<program, documents>>
          /\ \E state \in {"get", "advance", "end", "done"} : pc' = [pc EXCEPT ![Main] = state]
      BY <1>4, ZenonT(60) DEF MainStep, MainCodegenDone, Get, Advance, Link, inputs, Goto
    <2>2. \A m \in Modules : pc'[m] = pc[m]
      BY <1>0, <2>1
    <2>3. QED
      BY <2>1, <2>2 DEF Texts
  <1>5. CASE Terminated
    BY <1>5 DEF Terminated, vars, Texts
  <1>6. QED
    BY <1>2, <1>3, <1>4, <1>5 DEF Next

LEMMA ResultsStep ==
  ASSUME TypeOK, Alive, Results, Next
  PROVE  Crashed' \/ Results'
  <1> SUFFICES ASSUME ~Crashed'
               PROVE  Results'
    OBVIOUS
  <1>0. /\ Main \in Units /\ Modules \subseteq Units /\ Main \notin Modules
        /\ pc \in [Units -> States] /\ module \in [Units -> {"none", "live", "erased"}]
        /\ futures \in Seq(Modules)
    BY UnitsAssumption DEF Units, TypeOK
  <1>1. CASE pc[Main] = "done"
    <2>1. UNCHANGED vars
      BY <1>1, FinishedStep
    <2>2. QED
      BY <2>1 DEF vars, Results, QualifierOrder
  <1>2. ASSUME pc[Main] # "done"
        PROVE  outcome = "running"
    BY <1>2 DEF Alive, Verdict
  <1>3. ASSUME outcome = "running", outcome' = "running", module'[Main] = module[Main],
               pc'[Main] \in {"get", "advance", "end"} => pc[Main] \in {"get", "advance", "end"}
        PROVE  Results'
    BY <1>3 DEF Results
  <1>4. CASE pc[Main] # "done" /\ ~MainStep /\ ~Terminated
    <2>1. outcome' = "running" /\ (Joining \/ Joining' => pc'[Main] = pc[Main])
      BY <1>2, <1>4, OtherSteps
    <2>2. pc'[Main] \in {"get", "advance", "end"} => pc[Main] \in {"get", "advance", "end"}
      BY <2>1 DEF Joining
    <2>3. module'[Main] = module[Main]
      <3>1. ASSUME NEW m \in Modules, Return(m)
            PROVE  module'[Main] = module[Main]
        BY <1>0, <3>1 DEF Return
      <3>2. CASE \A m \in Modules : ~Return(m)
        <4>1. module' = module
          BY <1>4, <3>2, ZenonT(60) DEF Next, CodegenStep, TaskStep, DuplicateRequest, Request, Submit,
             Push, CodegenError, EnterCallback, LeaveCallback, StartPooled, StartDeferred, ReadFile,
             CrashOnReport, BeginAddDocument, EndAddDocument, Parse
        <4>2. QED
          BY <4>1
      <3>3. QED
        BY <3>1, <3>2
    <2>4. QED
      BY <1>2, <1>3, <1>4, <2>1, <2>2, <2>3
  <1>5. CASE MainCodegenDone
    <2>1. /\ outcome' = outcome /\ pc[Main] = "codegen" /\ module' = [module EXCEPT ![Main] = "live"]
      BY <1>5, ZenonT(60) DEF MainCodegenDone, CodegenDone
    <2>2. module'[Main] = "live" /\ outcome' = "running"
      BY <1>0, <1>2, <2>1
    <2>3. QED
      BY <2>2 DEF Results
  <1>6. CASE Get
    <2>1. /\ outcome' = outcome /\ pc[Main] = "get"
          /\ module' = module \/ module' = [module EXCEPT ![futures[position]] = "erased"]
      BY <1>6 DEF Get, join
    <2>2. futures[position] \in Modules
      BY <1>0, <2>1 DEF Alive, Joined
    <2>3. module'[Main] = module[Main]
      BY <1>0, <2>1, <2>2
    <2>4. QED
      BY <1>2, <1>3, <2>1, <2>3
  <1>7. CASE Advance
    <2>1. outcome' = outcome /\ pc[Main] = "advance" /\ module' = module
      BY <1>7, ZenonT(60) DEF Advance
    <2>2. QED
      BY <1>2, <1>3, <2>1
  <1>8. CASE Link
    <2> DEFINE ok == ~draining /\ \A i \in DOMAIN futures : module[futures[i]] = "live"
    <2>1. /\ pc[Main] = "end" /\ futures' = futures /\ pc' = [pc EXCEPT ![Main] = "done"]
          /\ outcome' = IF ok THEN "success" ELSE "failure"
          /\ linkOrder' = IF ok THEN QualifierOrder(futures) ELSE <<>>
          /\ module' = IF ok THEN module
                       ELSE [u \in Units |-> IF module[u] = "live" /\ u \in Range(futures) \cup {Main}
                                             THEN "erased" ELSE module[u]]
      BY <1>8, ZenonT(60) DEF Link, request, Goto
    <2>2. pc'[Main] = "done" /\ module[Main] = "live"
      BY <1>0, <2>1 DEF Results
    <2>3. \A u \in Units : module[u] = "live" => u \in Range(futures) \cup {Main}
      BY <1>0, <2>1 DEF Alive, Verdict, Joined, Listed, Units
    <2>4. CASE ok
      <3>1. outcome' = "success" /\ linkOrder' = QualifierOrder(futures) /\ module' = module
        BY <2>1, <2>4, ZenonT(60)
      <3>2. \A m \in Range(futures) : module[m] = "live"
        BY <2>4 DEF Range
      <3>3. QualifierOrder(futures)' = QualifierOrder(futures)
        BY <2>1 DEF QualifierOrder
      <3>4. QED
        BY <2>1, <2>2, <3>1, <3>2, <3>3 DEF Results
    <2>5. CASE ~ok
      <3>1. outcome' = "failure"
            /\ module' = [u \in Units |-> IF module[u] = "live" /\ u \in Range(futures) \cup {Main}
                                          THEN "erased" ELSE module[u]]
        BY <2>1, <2>5, ZenonT(60)
      <3>2. \A u \in Units : module'[u] # "live"
        BY <2>3, <3>1
      <3>3. QED
        BY <2>2, <3>1, <3>2 DEF Results
    <2>6. QED
      BY <2>4, <2>5
  <1>9. CASE Terminated
    BY <1>9 DEF Terminated, vars, Results, QualifierOrder
  <1>10. QED
    BY <1>1, <1>4, <1>5, <1>6, <1>7, <1>8, <1>9 DEF MainStep

\* The order of the qualifiers is an order of the same modules, without ties.
LEMMA QualifierOrderProperties ==
  ASSUME NEW s \in Seq(Nat), \A i, j \in DOMAIN s : s[i] = s[j] => i = j
  PROVE  /\ Range(QualifierOrder(s)) = Range(s)
         /\ \A i, j \in DOMAIN QualifierOrder(s) :
              i < j => QualifierOrder(s)[i] < QualifierOrder(s)[j]
  <1> DEFINE n == Len(s)
             Sorting(p) == /\ p \in [DOMAIN s -> DOMAIN s] /\ IsInjective(p)
                           /\ \A i, j \in DOMAIN s : i < j => s[p[i]] <= s[p[j]]
             perm == CHOOSE p \in [DOMAIN s -> DOMAIN s] :
                       IsInjective(p) /\ \A i, j \in DOMAIN s : i < j => s[p[i]] <= s[p[j]]
  <1>1. n \in Nat /\ DOMAIN s = 1 .. n /\ s \in [1 .. n -> Nat]
    OBVIOUS
  <1>2. \E p : Sorting(p)
    <2>1. \E p \in [1 .. n -> 1 .. n] :
             IsInjective(p) /\ \A i, j \in 1 .. n : i < j => s[p[i]] <= s[p[j]]
      BY <1>1, SortingPermutation
    <2>2. QED
      BY <1>1, <2>1
  <1>3. Sorting(perm)
    BY <1>2
  <1>4. QualifierOrder(s) = [i \in DOMAIN s |-> s[perm[i]]]
    BY DEF QualifierOrder
  <1> HIDE DEF perm
  <1>5. perm \in Injection(1 .. n, 1 .. n)
    BY <1>1, <1>3 DEF Injection
  <1>6. perm \in Surjection(1 .. n, 1 .. n)
    BY <1>1, <1>5, FS_Interval, FS_Injection
  <1>7. \A i \in 1 .. n : \E j \in 1 .. n : perm[j] = i
    BY <1>6 DEF Surjection
  <1>8. Range(QualifierOrder(s)) = Range(s)
    <2>1. \A i \in 1 .. n : perm[i] \in 1 .. n
      BY <1>1, <1>3
    <2>2. /\ DOMAIN QualifierOrder(s) = 1 .. n
          /\ \A i \in 1 .. n : QualifierOrder(s)[i] = s[perm[i]]
      BY <1>1, <1>4
    <2>3. ASSUME NEW x
          PROVE  x \in Range(QualifierOrder(s)) <=> \E i \in 1 .. n : x = s[perm[i]]
      <3> HIDE DEF n, Sorting
      <3>1. x \in Range(QualifierOrder(s)) <=> \E i \in 1 .. n : x = QualifierOrder(s)[i]
        BY <2>2, ZenonT(60) DEF Range
      <3>2. QED
        BY <2>2, <3>1
    <2>4. \A x : x \in Range(s) <=> \E i \in 1 .. n : x = s[i]
      BY <1>1 DEF Range
    <2>5. ASSUME NEW x \in Range(s)
          PROVE  x \in Range(QualifierOrder(s))
      <3>1. PICK i \in 1 .. n : x = s[i]
        BY <2>4
      <3>2. PICK j \in 1 .. n : perm[j] = i
        BY <1>7
      <3>3. x = s[perm[j]]
        BY <3>1, <3>2
      <3>4. QED
        BY <2>3, <3>3
    <2>6. ASSUME NEW x \in Range(QualifierOrder(s))
          PROVE  x \in Range(s)
      <3>1. PICK i \in 1 .. n : x = s[perm[i]]
        BY <2>3
      <3>2. perm[i] \in 1 .. n
        BY <2>1
      <3>3. QED
        BY <2>4, <3>1, <3>2
    <2>7. QED
      BY <2>5, <2>6
  <1>9. ASSUME NEW i \in 1 .. n, NEW j \in 1 .. n, i < j
        PROVE  s[perm[i]] < s[perm[j]]
    <2>1. perm[i] \in 1 .. n /\ perm[j] \in 1 .. n /\ s[perm[i]] <= s[perm[j]]
      BY <1>1, <1>3, <1>9
    <2>2. perm[i] # perm[j]
      BY <1>3, <1>9 DEF IsInjective
    <2>3. s[perm[i]] # s[perm[j]] /\ s[perm[i]] \in Nat /\ s[perm[j]] \in Nat
      BY <1>1, <2>1, <2>2
    <2>4. \A a, b \in Nat : a <= b /\ a # b => a < b
      OBVIOUS
    <2>5. QED
      BY <2>1, <2>3, <2>4, ZenonT(60)
  <1>10. QED
    BY <1>1, <1>4, <1>8, <1>9

\* What a finished compilation has of its own holds from the start to the end.
LEMMA FinishedInvariance == Spec => [](Crashed \/ (Texts /\ Results))
  <1>1. Init => Texts /\ Results
    <2> SUFFICES ASSUME Init
                 PROVE  Texts /\ Results
      OBVIOUS
    <2>1. /\ pc = [u \in Units |-> IF u = Main THEN "codegen" ELSE "idle"]
          /\ Main \in Units /\ Modules \subseteq Units /\ Main \notin Modules
          /\ documents = {Main} /\ outcome = "running"
      BY UnitsAssumption DEF Init, Units
    <2>2. pc[Main] = "codegen" /\ \A m \in Modules : pc[m] = "idle"
      BY <2>1
    <2>3. QED
      BY <2>1, <2>2 DEF Texts, Results
  <1>2. IInv /\ (Crashed \/ (Texts /\ Results)) /\ [Next]_vars => (Crashed \/ (Texts /\ Results))'
    <2> SUFFICES ASSUME IInv, Crashed \/ (Texts /\ Results), [Next]_vars
                 PROVE  (Crashed \/ (Texts /\ Results))'
      OBVIOUS
    <2>1. CASE Crashed
      <3>1. UNCHANGED <<pc, outcome>>
        BY <2>1, CrashedStep DEF vars
      <3>2. QED
        BY <2>1, <3>1 DEF Crashed
    <2>2. CASE Texts /\ Results /\ UNCHANGED vars
      BY <2>2 DEF vars, Texts, Results, QualifierOrder
    <2>3. CASE Alive /\ Texts /\ Results /\ Next
      BY <2>3, TextsStep, ResultsStep DEF IInv
    <2>4. QED
      BY <2>1, <2>2, <2>3 DEF IInv
  <1>3. QED
    BY <1>1, <1>2, Invariance, PTL DEF Spec

\* In a compilation that was not cut short by a crash, and has ended.
LEMMA FinishedFacts ==
  ASSUME IInv, Crashed \/ (Texts /\ Results), outcome \in {"success", "failure"}
  PROVE  /\ TypeOK /\ Alive /\ Texts /\ Results /\ loaded \subseteq Range(futures)
         /\ \A m \in Modules : pc[m] \in {"idle", "done"} /\ (pc[m] # "idle" => m \in Range(futures))
  <1>1. TypeOK /\ Alive /\ Texts /\ Results
    BY DEF IInv, Crashed
  <1>2. pc[Main] = "done"
    BY <1>1 DEF Alive, Verdict
  <1>3. QED
    BY <1>1, <1>2 DEF Alive, Joined, Listed

\* A failed compilation has erased every module it made, and one that succeeds
\* links every module that exists.
THEOREM NothingLeaks == Spec => []ModulesReclaimed
  <1>1. IInv /\ (Crashed \/ (Texts /\ Results)) => ModulesReclaimed
    <2> SUFFICES ASSUME IInv, Crashed \/ (Texts /\ Results), outcome \in {"success", "failure"}
                 PROVE  ModulesReclaimed
      BY DEF ModulesReclaimed
    <2>1. /\ TypeOK /\ Alive /\ Texts /\ Results /\ loaded \subseteq Range(futures)
          /\ \A m \in Modules : pc[m] # "idle" => m \in Range(futures)
      BY FinishedFacts
    <2>2. CASE outcome = "failure"
      BY <2>1, <2>2 DEF Results, ModulesReclaimed
    <2>3. CASE outcome = "success"
      <3>1. /\ futures \in Seq(Nat) /\ futures \in Seq(Modules)
            /\ \A i, j \in DOMAIN futures : futures[i] = futures[j] => i = j
        <4>1. futures \in Seq(Modules) /\ Modules \subseteq Nat
          BY <2>1, UnitsAssumption DEF TypeOK, Units
        <4>2. futures \in Seq(Nat)
          BY <4>1, SeqMonotonic
        <4>3. Distinct
          BY <2>1 DEF Alive
        <4>4. QED
          BY <4>1, <4>2, <4>3 DEF Distinct
      <3>2. Range(linkOrder) = Range(futures)
        BY <2>1, <2>3, <3>1, QualifierOrderProperties DEF Results
      <3>3. Range(futures) \subseteq Modules
        BY <3>1 DEF Range
      <3>4. \A u \in Units : module[u] = "live" => u \in Range(futures) \cup {Main}
        BY <2>1 DEF Alive, Verdict, Units
      <3>5. QED
        BY <2>1, <2>3, <3>2, <3>3, <3>4 DEF Results, ModulesReclaimed, Units
    <2>4. QED
      BY <2>2, <2>3
  <1>2. QED
    BY <1>1, Invariance, FinishedInvariance, PTL

\* The linked modules are in the order of their qualifiers, however the tasks were
\* scheduled, and the dependency file lists them and the main file.
THEOREM OutputIsDeterministic == Spec => []DeterministicOutput
  <1>1. IInv /\ (Crashed \/ (Texts /\ Results)) => DeterministicOutput
    <2> SUFFICES ASSUME IInv, Crashed \/ (Texts /\ Results), outcome = "success"
                 PROVE  DeterministicOutput
      BY DEF DeterministicOutput
    <2>1. /\ TypeOK /\ Alive /\ Texts /\ Results /\ loaded \subseteq Range(futures)
          /\ \A m \in Modules : pc[m] \in {"idle", "done"} /\ (pc[m] # "idle" => m \in Range(futures))
      BY FinishedFacts
    <2>2. /\ futures \in Seq(Nat) /\ futures \in Seq(Modules)
          /\ \A i, j \in DOMAIN futures : futures[i] = futures[j] => i = j
      <3>1. futures \in Seq(Modules) /\ Modules \subseteq Nat
        BY <2>1, UnitsAssumption DEF TypeOK, Units
      <3>2. futures \in Seq(Nat)
        BY <3>1, SeqMonotonic
      <3>3. Distinct
        BY <2>1 DEF Alive
      <3>4. QED
        BY <3>1, <3>2, <3>3 DEF Distinct
    <2>3. /\ Range(linkOrder) = Range(futures)
          /\ \A i, j \in DOMAIN linkOrder : i < j => linkOrder[i] < linkOrder[j]
      BY <2>1, <2>2, QualifierOrderProperties DEF Results
    <2>4. Range(futures) \subseteq Modules
      BY <2>2 DEF Range
    <2>5. ASSUME NEW m \in Range(futures)
          PROVE  m \in documents
      <3>1. m \in Modules /\ module[m] = "live"
        BY <2>1, <2>4 DEF Results
      <3>2. pc[m] = "done" /\ program.fault[m] = "none"
        BY <2>1, <3>1 DEF Alive, Verdict, Clean
      <3>3. QED
        BY <2>1, <3>1, <3>2 DEF Texts
    <2>6. ASSUME NEW m \in documents
          PROVE  m \in Range(futures) \cup {Main}
      BY <2>1 DEF TypeOK, Texts, Units
    <2>7. documents = Range(linkOrder) \cup {Main}
      BY <2>1, <2>3, <2>5, <2>6 DEF Texts
    <2>8. QED
      BY <2>3, <2>7 DEF DeterministicOutput
  <1>2. QED
    BY <1>1, Invariance, FinishedInvariance, PTL
-----------------------------------------------------------------------------
(***************************************************************************)
(* The file handles: one for every request, closed by the task if the      *)
(* request was not a duplicate.                                            *)
(***************************************************************************)
\* How many of u's statements have not yet been met; the statement of the request
\* that is under way has been.
Ahead(u) == IF Holder(u) THEN Len(todo[u]) - 1 ELSE Len(todo[u])

Requested == {r \in Units \X Nat : /\ r[2] \in 1 .. Len(program.code[r[1]]) - Ahead(r[1])
                                   /\ program.code[r[1]][r[2]] # Error}

\* The task of m has not come to the end of reading its file.
BeforeRead(m) == pc[m] \in {"idle", "queued", "deferred", "open"}

Unread == {m \in loaded : BeforeRead(m)}

\* What a unit has not met yet is the end of its code.
RestOfCode ==
  /\ \A u \in Units : /\ Len(todo[u]) <= Len(program.code[u])
                      /\ \A i \in 1 .. Len(todo[u]) :
                           todo[u][i] = program.code[u][Len(program.code[u]) - Len(todo[u]) + i]
  /\ \A u \in Units : program.fault[u] # "none" \/ pc[u] = "idle" => todo[u] = program.code[u]

Counts ==
  /\ IsFiniteSet(Requested) /\ IsFiniteSet(loaded)
  /\ handles = Cardinality(Requested) - Cardinality(loaded) + Cardinality(Unread)
  /\ handles >= Cardinality(Unread)

\* The units' code, and the main unit.
LEMMA CodeFacts ==
  ASSUME TypeOK
  PROVE  /\ Main \in Units /\ Modules \subseteq Units /\ Main \notin Modules
         /\ pc \in [Units -> States] /\ todo \in [Units -> Seq(Modules \cup {Error})]
         /\ \A u \in Units : /\ Len(todo[u]) \in Nat /\ Len(program.code[u]) \in Nat
                             /\ todo[u] \in Seq(Modules \cup {Error})
                             /\ program.code[u] \in Seq(Modules \cup {Error})
                             /\ DOMAIN program.code[u] = 1 .. Len(program.code[u])
  <1>1. /\ Main \in Units /\ Modules \subseteq Units /\ Main \notin Modules
        /\ pc \in [Units -> States] /\ todo \in [Units -> Seq(Modules \cup {Error})]
        /\ program.code \in [Units -> Seq(Modules \cup {Error})]
    BY UnitsAssumption, ProgramType DEF Units, TypeOK
  <1>2. ASSUME NEW u \in Units
        PROVE  /\ Len(todo[u]) \in Nat /\ Len(program.code[u]) \in Nat
               /\ todo[u] \in Seq(Modules \cup {Error})
               /\ program.code[u] \in Seq(Modules \cup {Error})
               /\ DOMAIN program.code[u] = 1 .. Len(program.code[u])
    <2>1. todo[u] \in Seq(Modules \cup {Error}) /\ program.code[u] \in Seq(Modules \cup {Error})
      BY <1>1
    <2>2. QED
      BY <2>1, LenProperties
  <1>3. QED
    BY <1>1, <1>2

\* A unit that meets its next statement.
LEMMA RestConsumed ==
  ASSUME TypeOK, Alive, RestOfCode, NEW u \in Units, pc[u] \in {"codegen", "push"}, todo[u] # <<>>,
         program' = program, todo' = [todo EXCEPT ![u] = Tail(@)],
         \A v \in Units \ {u} : pc'[v] = pc[v], pc'[u] # "idle"
  PROVE  RestOfCode'
  <1>1. /\ todo'[u] = Tail(todo[u]) /\ \A v \in Units \ {u} : todo'[v] = todo[v]
        /\ Len(todo[u]) \in Nat /\ Len(todo[u]) > 0
    BY CodeFacts
  <1>2. /\ Len(todo'[u]) = Len(todo[u]) - 1
        /\ \A i \in 1 .. Len(todo[u]) - 1 : todo'[u][i] = todo[u][i + 1]
    BY <1>1, CodeFacts
  <1>3. /\ Len(todo[u]) <= Len(program.code[u]) /\ Len(program.code[u]) \in Nat
        /\ \A i \in 1 .. Len(todo[u]) :
             todo[u][i] = program.code[u][Len(program.code[u]) - Len(todo[u]) + i]
    BY CodeFacts DEF RestOfCode
  <1>4. ASSUME NEW i \in 1 .. Len(todo'[u])
        PROVE  todo'[u][i] = program.code[u][Len(program.code[u]) - Len(todo'[u]) + i]
    <2> DEFINE before == Len(todo[u])
               after  == Len(todo'[u])
               all    == Len(program.code[u])
    <2>0. before \in Nat /\ after = before - 1 /\ all \in Nat /\ i \in 1 .. after
      BY <1>1, <1>2, <1>3
    <2>1. i + 1 \in 1 .. Len(todo[u]) /\ i \in 1 .. Len(todo[u]) - 1
      BY <1>1, <1>2
    <2>2. all - before + (i + 1) = all - after + i
      <3> HIDE DEF before, after, all
      <3>1. QED
        BY <2>0
    <2>3. todo'[u][i] = todo[u][i + 1]
      BY <1>2, <2>1
    <2>4. QED
      BY <1>3, <2>1, <2>2, <2>3
  <1>5. Len(todo'[u]) <= Len(program.code[u])
    BY <1>1, <1>2, <1>3
  <1>6. program.fault[u] = "none"
    BY DEF Alive, Reached
  <1>7. ASSUME NEW v \in Units, program.fault[v] # "none" \/ pc'[v] = "idle"
        PROVE  todo'[v] = program.code[v]
    <2>1. v # u
      BY <1>6, <1>7
    <2>2. QED
      BY <1>1, <1>7, <2>1 DEF RestOfCode
  <1>8. ASSUME NEW v \in Units
        PROVE  /\ Len(todo'[v]) <= Len(program'.code[v])
               /\ \A i \in 1 .. Len(todo'[v]) :
                    todo'[v][i] = program'.code[v][Len(program'.code[v]) - Len(todo'[v]) + i]
    <2>1. program'.code[v] = program.code[v]
      OBVIOUS
    <2>2. /\ Len(todo'[v]) <= Len(program.code[v])
          /\ \A i \in 1 .. Len(todo'[v]) :
               todo'[v][i] = program.code[v][Len(program.code[v]) - Len(todo'[v]) + i]
      <3>1. CASE v = u
        BY <1>4, <1>5, <3>1
      <3>2. CASE v # u
        <4>1. todo'[v] = todo[v]
          BY <1>1, <3>2
        <4>2. QED
          BY <4>1, ZenonT(150) DEF RestOfCode
      <3>3. QED
        BY <3>1, <3>2
    <2>3. QED
      BY <2>1, <2>2, ZenonT(60)
  <1>9. \A v \in Units : program'.fault[v] # "none" \/ pc'[v] = "idle" => todo'[v] = program'.code[v]
    BY <1>7
  <1>10. QED
    BY <1>8, <1>9, ZenonT(60) DEF RestOfCode

\* The place of the statement that u meets next.
LEMMA RequestedNext ==
  ASSUME TypeOK, RestOfCode, NEW u \in Units, ~Holder(u), todo[u] # <<>>, program' = program,
         Ahead(u)' = Ahead(u) - 1, \A v \in Units \ {u} : Ahead(v)' = Ahead(v),
         NEW n, n = Len(program.code[u]) - Len(todo[u]) + 1
  PROVE  /\ <<u, n>> \notin Requested
         /\ Head(todo[u]) = Error => Requested' = Requested
         /\ Head(todo[u]) # Error => Requested' = Requested \cup {<<u, n>>}
  <1>1. /\ Len(program.code[u]) \in Nat /\ Len(todo[u]) \in Nat /\ Len(todo[u]) > 0
        /\ Len(todo[u]) <= Len(program.code[u]) /\ Ahead(u) = Len(todo[u])
    BY CodeFacts DEF RestOfCode, Ahead
  <1>2. Head(todo[u]) = program.code[u][n]
    <2>1. Head(todo[u]) = todo[u][1]
      BY CodeFacts
    <2>2. 1 \in 1 .. Len(todo[u])
      BY <1>1
    <2>3. QED
      BY <2>1, <2>2 DEF RestOfCode
  <1>3. n \in Nat
    BY <1>1
  <1>4. <<u, n>> \notin Requested
    <2>1. n \notin 1 .. Len(program.code[u]) - Ahead(u)
      BY <1>1
    <2>2. QED
      BY <2>1 DEF Requested
  <1>5. ASSUME NEW v \in Units, NEW i \in Nat
        PROVE  i \in 1 .. Len(program.code[v]) - Ahead(v)' <=>
                 i \in 1 .. Len(program.code[v]) - Ahead(v) \/ <<v, i>> = <<u, n>>
    <2>1. CASE v = u
      <3> DEFINE before == Ahead(u)
                 after  == Ahead(u)'
                 all    == Len(program.code[u])
      <3>1. before \in Nat /\ all \in Nat /\ after = before - 1 /\ n = all - before + 1 /\ before <= all
        BY <1>1
      <3> HIDE DEF before, after, all
      <3>2. i \in 1 .. all - after <=> i \in 1 .. all - before \/ i = n
        BY <3>1
      <3>3. QED
        BY <2>1, <3>2 DEF before, after, all
    <2>2. CASE v # u
      BY <2>2
    <2>3. QED
      BY <2>1, <2>2
  <1>6. ASSUME NEW r \in Units \X Nat
        PROVE  r \in Requested' <=>
                 r \in Requested \/ (r = <<u, n>> /\ Head(todo[u]) # Error)
    <2>1. PICK v \in Units, i \in Nat : r = <<v, i>>
      OBVIOUS
    <2>2. r \in Requested' <=> i \in 1 .. Len(program.code[v]) - Ahead(v)' /\ program.code[v][i] # Error
      BY <2>1 DEF Requested
    <2>3. r \in Requested <=> i \in 1 .. Len(program.code[v]) - Ahead(v) /\ program.code[v][i] # Error
      BY <2>1 DEF Requested
    <2>4. r = <<u, n>> <=> v = u /\ i = n
      BY <2>1
    <2>5. <<v, i>> = <<u, n>> <=> v = u /\ i = n
      OBVIOUS
    <2>6. QED
      BY <1>2, <1>5, <2>2, <2>3, <2>4, <2>5
  <1>7. Requested \subseteq Units \X Nat /\ Requested' \subseteq Units \X Nat /\ <<u, n>> \in Units \X Nat
    BY <1>3 DEF Requested
  <1> HIDE DEF Requested
  <1>8. QED
    BY <1>4, <1>6, <1>7

\* A step that meets no statement and reads no file.
LEMMA CountsKept ==
  ASSUME TypeOK, RestOfCode, Counts, UNCHANGED <<program, todo, loaded, handles>>,
         \A u \in Units : Holder(u)' <=> Holder(u), \A m \in Modules : BeforeRead(m)' <=> BeforeRead(m),
         \A u \in Units : pc'[u] = "idle" => pc[u] = "idle"
  PROVE  RestOfCode' /\ Counts'
  <1>1. RestOfCode'
    BY DEF RestOfCode
  <1>2. \A u \in Units : Ahead(u)' = Ahead(u)
    BY DEF Ahead
  <1>3. Requested' = Requested
    BY <1>2 DEF Requested
  <1>4. Unread' = Unread
    BY DEF Unread, TypeOK
  <1>5. QED
    BY <1>1, <1>3, <1>4 DEF Counts

LEMMA CountsStep ==
  ASSUME TypeOK, Alive, RestOfCode, Counts, Next
  PROVE  (Crashed' /\ handles' = handles) \/ (RestOfCode' /\ Counts')
  <1> SUFFICES ASSUME ~(Crashed' /\ handles' = handles)
               PROVE  RestOfCode' /\ Counts'
    OBVIOUS
  <1>0. /\ Main \in Units /\ Modules \subseteq Units /\ Main \notin Modules
        /\ pc \in [Units -> States] /\ todo \in [Units -> Seq(Modules \cup {Error})]
        /\ loaded \subseteq Modules
        /\ \A m \in Modules : m \in loaded \/ pc[m] = "idle"
    BY CodeFacts DEF TypeOK, Alive, Listed
  <1>01. /\ Unread \subseteq loaded /\ IsFiniteSet(Unread) /\ IsFiniteSet(loaded) /\ IsFiniteSet(Requested)
         /\ Cardinality(Unread) \in Nat /\ Cardinality(loaded) \in Nat /\ Cardinality(Requested) \in Nat
    <2>1. Unread \subseteq loaded
      BY DEF Unread
    <2>2. QED
      BY <2>1, FS_Subset, FS_CardinalityType DEF Counts
  <1>1. ASSUME UNCHANGED <<program, todo, loaded, handles>>, NEW u \in Units, NEW state,
               pc' = [pc EXCEPT ![u] = state],
               \/ /\ {pc[u], state} \cap {"submit", "push", "idle", "queued", "deferred", "open"} = {}
               \/ /\ {pc[u], state} \subseteq {"queued", "deferred", "open"}
        PROVE  RestOfCode' /\ Counts'
    <2>1. pc'[u] = state /\ \A v \in Units \ {u} : pc'[v] = pc[v]
      BY <1>0, <1>1
    <2>2. \A v \in Units : Holder(v)' <=> Holder(v)
      BY <1>1, <2>1 DEF Holder
    <2>3. \A m \in Modules : BeforeRead(m)' <=> BeforeRead(m)
      BY <1>0, <1>1, <2>1 DEF BeforeRead
    <2>4. \A v \in Units : pc'[v] = "idle" => pc[v] = "idle"
      BY <1>1, <2>1
    <2>5. QED
      BY <1>1, <2>2, <2>3, <2>4, CountsKept
  <1>2. ASSUME NEW u \in Units, DuplicateRequest(u)
        PROVE  RestOfCode' /\ Counts'
    <2>1. /\ pc[u] = "codegen" /\ todo[u] # <<>> /\ Head(todo[u]) # Error
          /\ UNCHANGED <<program, pc, loaded>> /\ handles' = handles + 1
          /\ todo' = [todo EXCEPT ![u] = Tail(@)]
      BY <1>2 DEF DuplicateRequest, Importing, inputs
    <2>2. RestOfCode'
      BY <2>1, RestConsumed
    <2>3. ~Holder(u) /\ \A v \in Units : Holder(v)' <=> Holder(v)
      BY <2>1 DEF Holder
    <2>4. Ahead(u)' = Ahead(u) - 1 /\ \A v \in Units \ {u} : Ahead(v)' = Ahead(v)
      BY <1>0, <2>1, <2>3 DEF Ahead
    <2> DEFINE r == <<u, Len(program.code[u]) - Len(todo[u]) + 1>>
    <2>5. r \notin Requested /\ Requested' = Requested \cup {r}
      BY <2>1, <2>3, <2>4, RequestedNext
    <2> HIDE DEF r
    <2>6. IsFiniteSet(Requested') /\ Cardinality(Requested') = Cardinality(Requested) + 1
      BY <1>01, <2>5, FS_AddElement
    <2>7. Unread' = Unread
      BY <2>1 DEF Unread, BeforeRead
    <2>8. QED
      BY <1>01, <2>1, <2>2, <2>6, <2>7 DEF Counts
  <1>3. ASSUME NEW u \in Units, Request(u)
        PROVE  RestOfCode' /\ Counts'
    <2> DEFINE x == Head(todo[u])
               r == <<u, Len(program.code[u]) - Len(todo[u]) + 1>>
    <2>1. /\ pc[u] = "codegen" /\ todo[u] # <<>> /\ x # Error /\ x \notin loaded
          /\ UNCHANGED <<program, todo>> /\ handles' = handles + 1
          /\ loaded' = loaded \cup {x} /\ pc' = [pc EXCEPT ![u] = "submit"]
      BY <1>3 DEF Request, Importing, inputs, Goto
    <2>2. x \in Modules /\ pc[x] = "idle" /\ x # u
      <3>1. x \in Modules
        BY <1>0, <2>1, RangeHeadTail
      <3>2. QED
        BY <1>0, <2>1, <3>1
    <2>3. /\ ~Holder(u) /\ pc'[u] = "submit" /\ \A v \in Units \ {u} : pc'[v] = pc[v]
      BY <1>0, <2>1 DEF Holder
    <2>4. Ahead(u)' = Ahead(u) - 1 /\ \A v \in Units \ {u} : Ahead(v)' = Ahead(v)
      BY <2>1, <2>3 DEF Ahead, Holder
    <2>5. r \notin Requested /\ Requested' = Requested \cup {r}
      BY <2>1, <2>3, <2>4, RequestedNext
    <2> HIDE DEF r, x
    <2>6. IsFiniteSet(Requested') /\ Cardinality(Requested') = Cardinality(Requested) + 1
      BY <1>01, <2>5, FS_AddElement
    <2>7. IsFiniteSet(loaded') /\ Cardinality(loaded') = Cardinality(loaded) + 1
      BY <1>01, <2>1, FS_AddElement
    <2>8. x \notin Unread /\ Unread' = Unread \cup {x}
      BY <1>0, <2>1, <2>2, <2>3 DEF Unread, BeforeRead
    <2>9. Cardinality(Unread') = Cardinality(Unread) + 1
      BY <1>01, <2>8, FS_AddElement
    <2>10. RestOfCode'
      BY <2>1, <2>3 DEF RestOfCode
    <2>11. QED
      BY <1>01, <2>1, <2>6, <2>7, <2>9, <2>10 DEF Counts
  <1>4. ASSUME NEW u \in Units, Submit(u)
        PROVE  RestOfCode' /\ Counts'
    <2> DEFINE x == Head(todo[u])
    <2>1. x \in Modules /\ pc[x] = "idle" /\ pc[u] = "submit"
      BY <1>4, <1>0 DEF Alive, Callback, Holder, Submit, TypeOK
    <2>2. /\ UNCHANGED <<program, todo, loaded, handles>>
          /\ pc' = [pc EXCEPT ![u] = "push", ![x] = IF multi THEN "queued" ELSE "deferred"]
      BY <1>4, ZenonT(60) DEF Submit, inputs
    <2> HIDE DEF x
    <2>3. /\ pc'[u] = "push" /\ pc'[x] \in {"queued", "deferred"}
          /\ \A v \in Units \ {u, x} : pc'[v] = pc[v]
      BY <1>0, <2>1, <2>2
    <2>4. \A v \in Units : Holder(v)' <=> Holder(v)
      BY <2>1, <2>3 DEF Holder
    <2>5. \A m \in Modules : BeforeRead(m)' <=> BeforeRead(m)
      BY <1>0, <2>1, <2>3 DEF BeforeRead
    <2>6. \A v \in Units : pc'[v] = "idle" => pc[v] = "idle"
      BY <2>1, <2>3
    <2>7. QED
      BY <2>2, <2>4, <2>5, <2>6, CountsKept
  <1>5. ASSUME NEW u \in Units, Push(u)
        PROVE  RestOfCode' /\ Counts'
    <2>1. /\ pc[u] = "push" /\ UNCHANGED <<program, loaded, handles>>
          /\ todo' = [todo EXCEPT ![u] = Tail(@)] /\ pc' = [pc EXCEPT ![u] = "codegen"]
      BY <1>5 DEF Push, inputs, Goto
    <2>2. todo[u] # <<>>
      BY <2>1 DEF Alive, Callback, Holder
    <2>3. pc'[u] = "codegen" /\ \A v \in Units \ {u} : pc'[v] = pc[v]
      BY <1>0, <2>1
    <2>4. RestOfCode'
      BY <2>1, <2>2, <2>3, RestConsumed
    <2>5. \A v \in Units : Ahead(v)' = Ahead(v)
      <3>1. Len(todo'[u]) = Len(todo[u]) - 1
        BY <1>0, <2>1, <2>2
      <3>2. \A v \in Units \ {u} : todo'[v] = todo[v]
        BY <1>0, <2>1
      <3>3. QED
        BY <2>1, <2>3, <3>1, <3>2 DEF Ahead, Holder
    <2>6. Requested' = Requested
      BY <2>1, <2>5 DEF Requested
    <2>7. Unread' = Unread
      BY <1>0, <2>1, <2>3 DEF Unread, BeforeRead
    <2>8. QED
      BY <2>1, <2>4, <2>6, <2>7 DEF Counts
  <1>6. ASSUME NEW u \in Units, CodegenError(u)
        PROVE  RestOfCode' /\ Counts'
    <2>1. /\ pc[u] = "codegen" /\ todo[u] # <<>> /\ Head(todo[u]) = Error
          /\ UNCHANGED <<program, loaded, handles>>
          /\ todo' = [todo EXCEPT ![u] = Tail(@)] /\ pc' = [pc EXCEPT ![u] = "report"]
      BY <1>6 DEF CodegenError, inputs, request, Goto
    <2>2. pc'[u] = "report" /\ \A v \in Units \ {u} : pc'[v] = pc[v]
      BY <1>0, <2>1
    <2>3. RestOfCode'
      BY <2>1, <2>2, RestConsumed
    <2>4. ~Holder(u) /\ \A v \in Units : Holder(v)' <=> Holder(v)
      BY <2>1, <2>2 DEF Holder
    <2>5. Ahead(u)' = Ahead(u) - 1 /\ \A v \in Units \ {u} : Ahead(v)' = Ahead(v)
      BY <1>0, <2>1, <2>4 DEF Ahead
    <2>6. Requested' = Requested
      BY <2>1, <2>4, <2>5, RequestedNext
    <2>7. Unread' = Unread
      BY <1>0, <2>1, <2>2 DEF Unread, BeforeRead
    <2>8. QED
      BY <2>1, <2>3, <2>6, <2>7 DEF Counts
  <1>7. ASSUME NEW m \in Modules, ReadFile(m)
        PROVE  RestOfCode' /\ Counts'
    <2>1. /\ pc[m] = "open" /\ UNCHANGED <<program, todo, loaded>> /\ handles' = handles - 1
          /\ \E state \in {"report", "addDocument"} : pc' = [pc EXCEPT ![m] = state]
      BY <1>7, ZenonT(60) DEF ReadFile, inputs, Goto
    <2>2. pc'[m] \in {"report", "addDocument"} /\ \A v \in Units \ {m} : pc'[v] = pc[v]
      BY <1>0, <2>1
    <2>3. m \in Unread /\ Unread' = Unread \ {m}
      BY <1>0, <2>1, <2>2 DEF Unread, BeforeRead
    <2>4. Cardinality(Unread') = Cardinality(Unread) - 1
      BY <1>01, <2>3, FS_RemoveElement
    <2>5. \A v \in Units : Ahead(v)' = Ahead(v)
      BY <2>1, <2>2 DEF Ahead, Holder
    <2>6. Requested' = Requested
      BY <2>1, <2>5 DEF Requested
    <2>7. RestOfCode'
      BY <2>1, <2>2 DEF RestOfCode
    <2>8. QED
      BY <1>01, <2>1, <2>4, <2>6, <2>7 DEF Counts
  <1>8. ASSUME NEW u \in Units, EnterCallback(u) \/ LeaveCallback(u)
        PROVE  RestOfCode' /\ Counts'
    <2>1. CASE EnterCallback(u)
      BY <1>1, <2>1 DEF EnterCallback, inputs, request, Goto
    <2>2. CASE LeaveCallback(u)
      <3>1. CASE program.fault[u] = "none"
        BY <1>1, <2>2, <3>1 DEF LeaveCallback, inputs, request, Goto
      <3>2. CASE program.fault[u] # "none"
        BY <1>1, <2>2, <3>2 DEF LeaveCallback, inputs, request, Goto
      <3>3. QED
        BY <3>1, <3>2
    <2>3. QED
      BY <1>8, <2>1, <2>2
  <1>9. ASSUME NEW m \in Modules, TaskStep(m)
        PROVE  RestOfCode' /\ Counts'
    <2>1. CASE StartPooled(m)
      BY <1>0, <1>1, <2>1 DEF StartPooled, inputs, Goto
    <2>2. CASE StartDeferred(m)
      BY <1>0, <1>1, <2>2 DEF StartDeferred, inputs, request, Goto
    <2>3. CASE ReadFile(m)
      BY <1>7, <2>3
    <2>4. CASE CrashOnReport(m)
      BY <2>4 DEF CrashOnReport, Crashed, request
    <2>5. CASE BeginAddDocument(m)
      BY <1>0, <1>1, <2>5 DEF BeginAddDocument, inputs, request, Goto
    <2>6. CASE EndAddDocument(m)
      BY <1>0, <1>1, <2>6 DEF EndAddDocument, inputs, request, Goto
    <2>7. CASE Parse(m)
      <3>1. CASE program.fault[m] = "syntax"
        BY <1>0, <1>1, <2>7, <3>1 DEF Parse, inputs, request, Goto
      <3>2. CASE program.fault[m] # "syntax"
        BY <1>0, <1>1, <2>7, <3>2 DEF Parse, inputs, request, Goto
      <3>3. QED
        BY <3>1, <3>2
    <2>8. CASE Return(m)
      BY <1>0, <1>1, <2>8 DEF Return, CodegenDone, inputs, request, Goto
    <2>9. QED
      BY <1>9, <2>1, <2>2, <2>3, <2>4, <2>5, <2>6, <2>7, <2>8 DEF TaskStep
  <1>10. CASE MainStep
    <2>1. /\ UNCHANGED <<program, todo, loaded, handles>>
          /\ pc[Main] \in {"codegen", "get", "advance", "end"}
          /\ \E state \in {"get", "advance", "end", "done"} : pc' = [pc EXCEPT ![Main] = state]
      BY <1>10, ZenonT(60) DEF MainStep, MainCodegenDone, CodegenDone, Get, Advance, Link, inputs, request, Goto
    <2>2. PICK state \in {"get", "advance", "end", "done"} : pc' = [pc EXCEPT ![Main] = state]
      BY <2>1
    <2>3. QED
      BY <1>0, <1>1, <2>1, <2>2, ZenonT(150)
  <1>11. CASE Terminated
    <2>1. UNCHANGED <<program, todo, loaded, handles, pc>>
      BY <1>11 DEF Terminated, vars
    <2>2. QED
      BY <2>1, CountsKept DEF Holder, BeforeRead
  <1>12. QED
    BY <1>2, <1>3, <1>4, <1>5, <1>6, <1>8, <1>9, <1>10, <1>11 DEF Next, CodegenStep

\* No file is closed that was not open.
LEMMA CountsNatural == Counts => handles >= 0
  <1> SUFFICES ASSUME Counts
               PROVE  handles >= 0
    OBVIOUS
  <1>1. IsFiniteSet(Unread)
    <2>1. Unread \subseteq loaded
      BY DEF Unread
    <2>2. QED
      BY <2>1, FS_Subset DEF Counts
  <1>2. Cardinality(Unread) \in Nat /\ Cardinality(loaded) \in Nat /\ Cardinality(Requested) \in Nat
    BY <1>1, FS_CardinalityType DEF Counts
  <1>3. QED
    BY <1>2 DEF Counts

\* The handles are counted from the start to the end; after a crash only that there
\* is no negative number of them remains.
LEMMA CountInvariance == Spec => []((Crashed /\ handles >= 0) \/ (RestOfCode /\ Counts))
  <1>1. IInv /\ Init => RestOfCode /\ Counts
    <2> SUFFICES ASSUME IInv, Init
                 PROVE  RestOfCode /\ Counts
      OBVIOUS
    <2>1. /\ todo = program.code /\ loaded = {} /\ handles = 0
          /\ pc = [u \in Units |-> IF u = Main THEN "codegen" ELSE "idle"]
      BY DEF Init
    <2>2. TypeOK
      BY DEF IInv
    <2>3. \A u \in Units : Len(todo[u]) \in Nat /\ Len(program.code[u]) = Len(todo[u])
      BY <2>1, <2>2, CodeFacts
    <2>4. RestOfCode
      BY <2>1, <2>3 DEF RestOfCode
    <2>5. \A u \in Units : Ahead(u) = Len(todo[u])
      BY <2>1 DEF Ahead, Holder
    <2>6. Requested = {}
      <3>1. \A u \in Units : 1 .. Len(program.code[u]) - Ahead(u) = {}
        BY <2>3, <2>5
      <3>2. QED
        BY <3>1 DEF Requested
    <2>7. Unread = {}
      BY <2>1 DEF Unread
    <2>8. QED
      BY <2>1, <2>4, <2>6, <2>7, FS_EmptySet DEF Counts
  <1>2. IInv /\ ((Crashed /\ handles >= 0) \/ (RestOfCode /\ Counts)) /\ [Next]_vars
          => ((Crashed /\ handles >= 0) \/ (RestOfCode /\ Counts))'
    <2> SUFFICES ASSUME IInv, (Crashed /\ handles >= 0) \/ (RestOfCode /\ Counts), [Next]_vars
                 PROVE  ((Crashed /\ handles >= 0) \/ (RestOfCode /\ Counts))'
      OBVIOUS
    <2>1. CASE Crashed
      <3>0. handles >= 0
        BY CountsNatural
      <3>1. UNCHANGED <<pc, outcome, handles>>
        BY <2>1, CrashedStep DEF vars
      <3>2. QED
        BY <2>1, <3>0, <3>1 DEF Crashed
    <2>2. CASE RestOfCode /\ Counts /\ UNCHANGED vars
      <3>1. TypeOK /\ UNCHANGED <<program, todo, loaded, handles, pc>>
        BY <2>2 DEF IInv, vars
      <3>2. QED
        BY <2>2, <3>1, CountsKept DEF Holder, BeforeRead
    <2>3. CASE Alive /\ RestOfCode /\ Counts /\ Next
      <3>1. (Crashed' /\ handles' = handles) \/ (RestOfCode' /\ Counts')
        BY <2>3, CountsStep DEF IInv
      <3>2. handles >= 0
        BY <2>3, CountsNatural
      <3>3. QED
        BY <3>1, <3>2
    <2>4. QED
      BY <2>1, <2>2, <2>3 DEF IInv
  <1>3. QED
    BY <1>1, <1>2, Invariance, PTL DEF Spec

\* Every import statement that found its module loaded leaves its file open, and no
\* other one does.
THEOREM OthersAreClosed == Spec => []OnlyDuplicatesLeak
  <1>1. IInv /\ ((Crashed /\ handles >= 0) \/ (RestOfCode /\ Counts)) => OnlyDuplicatesLeak
    <2> DEFINE requests(u) == {u} \X {i \in DOMAIN program.code[u] : program.code[u][i] # Error}
               issuers     == {u \in Reach(program) \cup {Main} : program.fault[u] = "none"}
    <2> SUFFICES ASSUME IInv, Crashed \/ (RestOfCode /\ Counts), pc[Main] = "done"
                 PROVE  handles = Cardinality(UNION {requests(u) : u \in issuers}) - Cardinality(loaded)
      BY CountsNatural DEF OnlyDuplicatesLeak
    <2>1. /\ TypeOK /\ Alive /\ RestOfCode /\ Counts /\ Reach(program) \subseteq Modules
          /\ Main \in Units /\ Modules \subseteq Units
      BY CodeFacts DEF IInv, Crashed, Reach
    <2>2. /\ \A m \in Modules : pc[m] \in {"idle", "done"}
          /\ \A m \in loaded : pc[m] = "done"
          /\ \A m \in Reach(program) : pc[m] = "done"
      <3>1. \A m \in Modules : pc[m] \in {"idle", "done"}
        BY <2>1 DEF Alive, Joined
      <3>2. \A m \in loaded : pc[m] = "done"
        BY <2>1, <3>1 DEF Alive, Joined, Listed, TypeOK
      <3>3. QED
        BY <2>1, <3>1, <3>2, AllReached
    <2>3. Unread = {}
      BY <2>2 DEF Unread, BeforeRead
    <2>4. ASSUME NEW u \in Units
          PROVE  /\ u \in issuers => Ahead(u) = 0
                 /\ u \notin issuers => Ahead(u) = Len(program.code[u])
      <3>1. ~Holder(u) /\ Ahead(u) = Len(todo[u])
        BY <2>2 DEF Holder, Ahead, Units
      <3>2. u \in issuers => todo[u] = <<>>
        BY <2>1, <2>2 DEF Alive, Reached, Joining
      <3>3. u \notin issuers => program.fault[u] # "none" \/ pc[u] = "idle"
        <4>1. u \in Modules /\ pc[u] # "idle" => u \in Reach(program)
          BY <2>1, StartedReachable, UnitsAssumption
        <4>2. QED
          BY <4>1 DEF Units
      <3>4. u \notin issuers => todo[u] = program.code[u]
        BY <2>1, <3>3 DEF RestOfCode
      <3>5. QED
        BY <3>1, <3>2, <3>4
    <2>5. Requested = UNION {requests(u) : u \in issuers}
      <3>1. ASSUME NEW r \in Requested
            PROVE  r \in UNION {requests(u) : u \in issuers}
        <4>1. PICK u \in Units, i \in Nat : r = <<u, i>>
          BY DEF Requested
        <4>2. i \in 1 .. Len(program.code[u]) - Ahead(u) /\ program.code[u][i] # Error
          BY <4>1 DEF Requested
        <4>3. Len(program.code[u]) \in Nat /\ DOMAIN program.code[u] = 1 .. Len(program.code[u])
          BY <2>1, CodeFacts
        <4>4. u \in issuers
          BY <2>4, <4>2, <4>3
        <4>5. r \in requests(u)
          BY <2>4, <4>1, <4>2, <4>3, <4>4
        <4>6. QED
          BY <4>4, <4>5
      <3>2. ASSUME NEW u \in issuers, NEW r \in requests(u)
            PROVE  r \in Requested
        <4>1. u \in Units
          BY <2>1
        <4>2. PICK i \in DOMAIN program.code[u] : r = <<u, i>> /\ program.code[u][i] # Error
          BY <3>2
        <4>3. Len(program.code[u]) \in Nat /\ DOMAIN program.code[u] = 1 .. Len(program.code[u])
          BY <2>1, <4>1, CodeFacts
        <4>4. i \in Nat /\ i \in 1 .. Len(program.code[u]) - Ahead(u)
          BY <2>4, <4>1, <4>2, <4>3
        <4>5. QED
          BY <4>1, <4>2, <4>4 DEF Requested
      <3>3. QED
        BY <3>1, <3>2
    <2>6. Cardinality(Unread) = 0 /\ Cardinality(loaded) \in Nat /\ Cardinality(Requested) \in Nat
      BY <2>1, <2>3, FS_EmptySet, FS_CardinalityType DEF Counts
    <2>7. QED
      BY <2>1, <2>5, <2>6 DEF Counts
  <1>2. QED
    BY <1>1, Invariance, CountInvariance, PTL
=============================================================================
