------------------------------ MODULE CellPool ------------------------------
(***************************************************************************)
(* What an allocator of equally sized cells promises to the program: a     *)
(* cell it hands out holds no object, and until it is destroyed it takes   *)
(* back only cells whose object the program can no longer reach.           *)
(***************************************************************************)
VARIABLES objects,    \* the cells that hold an object
          reachable,  \* those the program can still reach
          alive       \* the allocator has not been destroyed

vars == <<objects, reachable, alive>>

Init == objects = {} /\ reachable = {} /\ alive = TRUE

Allocate == /\ alive
            /\ \E c \in objects' : /\ c \notin objects
                                   /\ objects' = objects \cup {c}
                                   /\ reachable' = reachable \cup {c}
            /\ UNCHANGED alive

Forget == alive /\ reachable' \subseteq reachable /\ UNCHANGED <<objects, alive>>

Reclaim == /\ \E c \in objects : /\ alive => c \notin reachable
                                 /\ objects' = objects \ {c}
           /\ UNCHANGED <<reachable, alive>>

Destroy == alive /\ alive' = FALSE /\ reachable' = {} /\ UNCHANGED objects

Next == Allocate \/ Forget \/ Reclaim \/ Destroy

Spec == Init /\ [][Next]_vars
=============================================================================
