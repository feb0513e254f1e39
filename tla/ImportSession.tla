---------------------------- MODULE ImportSession ----------------------------
(***************************************************************************)
(* What a compilation promises about imports, whatever the scheduling:     *)
(* exactly the modules reachable through import statements are linked to   *)
(* the main module, or the compilation fails, and which of the two depends *)
(* on the sources alone.                                                   *)
(***************************************************************************)
EXTENDS ImportProgram

VARIABLES program, outcome, linked

vars == <<program, outcome, linked>>

Init == /\ program \in Programs
        /\ outcome = "running"
        /\ linked = {}

Finish == /\ outcome = "running"
          /\ outcome' = IF Sound(program) THEN "success" ELSE "failure"
          /\ linked' = IF Sound(program) THEN Reach(program) ELSE {}
          /\ UNCHANGED program

Spec == Init /\ [][Finish]_vars
=============================================================================
