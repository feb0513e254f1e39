--------------------------- MODULE MCModuleImport ---------------------------
(***************************************************************************)
(* Small source trees for ModuleImport.  Module 1 is builtins, which the   *)
(* main module (0) imports before anything else.                           *)
(***************************************************************************)
EXTENDS ModuleImport

CONSTANT BadFiles \* how many files of a tree may be faulty, at most

Shapes == {
  \* a cycle between two modules, both imported by the main module
  <<  <<1, 3, 2>>, <<>>,  <<3>>,    <<2, Error, 1>> >>,
  \* a chain that returns to builtins, with an error in the main module
  <<  <<1, Error>>, <<2>>, <<3>>,   <<1>>           >>,
  \* repeated imports, and a module that imports itself
  <<  <<1, 3, 3>>, <<>>,  <<1>>, <<3, 2>>           >>,
  \* an import after an error
  <<  <<1, 2>>,    <<>>,  <<Error, 3>>, <<>>        >> }

MCPrograms ==
  { [code |-> [u \in 0..3 |-> shape[u + 1]], fault |-> f] :
    shape \in Shapes,
    f \in {g \in [0..3 -> {"none", "access", "syntax"}] :
             g[0] = "none" /\ Cardinality({u \in 0..3 : g[u] # "none"}) <= BadFiles} }
=============================================================================
