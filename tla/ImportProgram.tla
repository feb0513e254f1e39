---------------------------- MODULE ImportProgram ----------------------------
(***************************************************************************)
(* The source trees a compilation is run on.  A tree is a record: code is  *)
(* what code generation meets in each unit, in order - imports, by the     *)
(* qualifier they resolve to, and statements it reports an error for - and *)
(* fault is what is wrong with the unit's file.  Of a qualifier only its   *)
(* place in the alphabetical order matters, so units are numbers; Main is  *)
(* the empty qualifier of the file given on the command line.              *)
(***************************************************************************)
EXTENDS Integers, Sequences, Functions

CONSTANTS Modules,  \* the qualifiers that import statements can resolve to
          Main,     \* the main file, which has been read and parsed already
          Error,    \* a statement the code generator reports an error for
          Programs  \* the source trees considered

Units  == Modules \cup {Main}
Faults == {"none", "access", "syntax"}

ASSUME UnitsAssumption == Units \subseteq Nat /\ Main \notin Modules /\ Error \notin Modules
ASSUME ProgramsAssumption ==
    /\ Programs \subseteq [code : [Units -> Seq(Modules \cup {Error})], fault : [Units -> Faults]]
    /\ \A p \in Programs : p.fault[Main] = "none"

\* The code generator runs on the units that were read and parsed, and an error
\* does not keep it from the imports that follow.
Imported(p, u) == IF p.fault[u] = "none" THEN Range(p.code[u]) \ {Error} ELSE {}

\* S contains whatever Main or a member of S imports.
Closed(p, S) == \A u \in S \cup {Main} : Imported(p, u) \subseteq S

Reach(p) == {m \in Modules : \A S \in SUBSET Modules : Closed(p, S) => m \in S}

Clean(p, u) == p.fault[u] = "none" /\ Error \notin Range(p.code[u])
Sound(p)    == \A u \in Reach(p) \cup {Main} : Clean(p, u)
=============================================================================
