---------------------------- MODULE MCBestFitTree ----------------------------
(***************************************************************************)
(* Blocks for BestFitTree: block n has size n, or two share each size.     *)
(***************************************************************************)
EXTENDS BestFitTree

Distinct == [b \in Blocks |-> b]
Pairs    == [b \in Blocks |-> (b + 1) \div 2]
MCSizes  == {Distinct, Pairs}
=============================================================================
