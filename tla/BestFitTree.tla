----------------------------- MODULE BestFitTree -----------------------------
(***************************************************************************)
(* BestFitTree: the AVL tree in which the allocator of large objects keeps *)
(* its free blocks by size.  Blocks of one size form a list, multiNext and *)
(* multiPrevious, whose first block alone is part of the tree.             *)
(*                                                                         *)
(* The rest of alloc() and free() decides which blocks enter the tree and  *)
(* leave it (splitting and coalescing); here any block that is not in the  *)
(* tree may enter, and any that is in it may be asked to leave.            *)
(***************************************************************************)
EXTENDS Integers, FiniteSets

CONSTANTS Blocks,    \* block headers
          Sizes,     \* the choices of a size for every block
          Requests,  \* the sizes alloc() is called with
          Null       \* the null pointer

ASSUME SizesAssumption == Sizes \subseteq [Blocks -> Nat] /\ Requests \subseteq Nat
ASSUME NullAssumption == Null \notin Blocks

VARIABLES
  tree,     \* m_root, and of every header its node and its two balance bits
  size,     \* of every block, chosen once
  free,     \* the free blocks
  pc,       \* "idle", "insertRebalance", "removeRebalance", "detach" or "aborted"
  current,  \* the loop variable of the rebalancing
  removed   \* the block remove() is about

vars == <<tree, size, free, pc, current, removed>>

Pointer  == Blocks \cup {Null}
Sides    == {"left", "right"}
NodeType == [left : Pointer, right : Pointer, parent : Pointer, next : Pointer, previous : Pointer]
NewNode  == [left |-> Null, right |-> Null, parent |-> Null, next |-> Null, previous |-> Null]

Other(side) == IF side = "left" THEN "right" ELSE "left"

\* header->getNode().member = value, if there is a header.
Set(t, header, member, value) ==
  IF header = Null THEN t ELSE [t EXCEPT !.node[header][member] = value]

\* Mutant: the block is not marked as allocated.
LeaveUnmarked(t, b) == [t EXCEPT !.node[b] = NewNode]

\* The block is allocated, or the inside of a larger one: its node is overwritten.
Leave(t, b) == [t EXCEPT !.node[b] = NewNode, !.balance[b] = "allocated"]

SetBalance(t, header, value) == [t EXCEPT !.balance[header] = value]

\* The parent's link to old, or m_root, now leads to new.
Relink(t, parent, old, new) ==
  IF parent = Null THEN [t EXCEPT !.root = new]
  ELSE Set(t, parent, IF t.node[parent].left = old THEN "left" ELSE "right", new)

Side(t, parent, child) == IF t.node[parent].left = child THEN "left" ELSE "right"
-----------------------------------------------------------------------------
(***************************************************************************)
(* Rotations.  side is the direction of the (last) rotation.               *)
(***************************************************************************)
\* Mutants: the inner subtree, or its link to the parent, is forgotten.
RotateLosingInner(t, side, top) ==
  LET parent == t.node[top].parent
      child  == t.node[top][Other(side)]
      t1 == Set(Set(t, child, "parent", parent), top, Other(side), Null)
  IN  Relink(Set(Set(t1, child, side, top), top, "parent", child), parent, top, child)

RotateUnlinked(t, side, top) ==
  LET parent == t.node[top].parent
      child  == t.node[top][Other(side)]
      t1 == Set(Set(t, child, "parent", parent), top, Other(side), t.node[child][side])
  IN  Relink(Set(Set(t1, child, side, top), top, "parent", child), parent, top, child)

Rotate(t, side, top) ==
  LET parent == t.node[top].parent
      child  == t.node[top][Other(side)]
      inner  == t.node[child][side]
      t1 == Set(Set(t, child, "parent", parent), top, Other(side), inner)
      t2 == Set(Set(t1, inner, "parent", top), child, side, top)
  IN  Relink(Set(t2, top, "parent", child), parent, top, child)

\* leftRotate and rightRotate
SingleRotate(t, side, parent, child) ==
  LET even == t.balance[child] = "equal"
      t1   == Rotate(t, side, parent)
  IN  SetBalance(SetBalance(t1, parent, IF even THEN Other(side) ELSE "equal"),
                 child, IF even THEN side ELSE "equal")

\* rightLeftRotate and leftRightRotate
DoubleRotate(t, side, parent, child) ==
  LET top == t.node[child][side]
      t1  == Rotate(Rotate(t, Other(side), child), side, parent)
      t2  == SetBalance(t1, parent, IF t.balance[top] = "right" THEN side ELSE "equal")
      t3  == SetBalance(t2, child, IF t.balance[top] = "left" THEN Other(side) ELSE "equal")
  IN  SetBalance(t3, top, "equal")

\* Mutant: the link from the parent, or m_root, still leads to the former block.
FixUpBelow(t, header, former) ==
  LET own == t.node[header]
      t1  == [t EXCEPT !.node[header] =
                [m \in DOMAIN own |-> IF own[m] = header THEN former ELSE own[m]]]
      n   == t1.node[header]
      t2  == Set(Set(t1, n.next, "previous", header), n.previous, "next", header)
  IN  Set(Set(t2, n.left, "parent", header), n.right, "parent", header)

\* swapNode, first the exchange and then the repair of the pointers to a header.
FixUp(t, header, former) ==
  LET own == t.node[header]
      t1  == [t EXCEPT !.node[header] =
                [m \in DOMAIN own |-> IF own[m] = header THEN former ELSE own[m]]]
      n   == t1.node[header]
      t2  == Set(Set(t1, n.next, "previous", header), n.previous, "next", header)
      t3  == Set(Set(t2, n.left, "parent", header), n.right, "parent", header)
  IN  IF n.previous # Null THEN t2 ELSE Relink(t3, n.parent, former, header)

SwapNode(t, lhs, rhs) ==
  LET t1 == [t EXCEPT !.node[lhs] = t.node[rhs], !.node[rhs] = t.node[lhs],
                      !.balance[lhs] = t.balance[rhs], !.balance[rhs] = t.balance[lhs]]
  IN  FixUp(FixUp(t1, lhs, rhs), rhs, lhs)
-----------------------------------------------------------------------------
(***************************************************************************)
(* lowerBound: the pair of the best fit and the last node of the descent.  *)
(***************************************************************************)
LowerBound(request) ==
  LET descend[at \in Pointer \X Pointer \X Pointer] ==
        LET header == at[1]
        IN  IF header = Null THEN <<at[2], at[3]>>
            ELSE IF size[header] < request THEN descend[<<tree.node[header].right, at[2], header>>]
            ELSE IF size[header] > request THEN descend[<<tree.node[header].left, header, header>>]
            ELSE <<header, header>>
  IN  descend[<<tree.root, Null, Null>>]

Init ==
  /\ tree = [root |-> Null, node |-> [b \in Blocks |-> NewNode],
             balance |-> [b \in Blocks |-> "allocated"]]
  /\ size \in Sizes /\ free = {}
  /\ pc = "idle" /\ current = Null /\ removed = Null

\* The node of a block that has left holds whatever the program has written there:
\* the model ends where an operation could follow a link to such a block.
LinkedBlocks(b) == {tree.node[b][m] : m \in DOMAIN NewNode} \ {Null}
Usable == \A b \in free : LinkedBlocks(b) \subseteq free
Ready  == pc = "idle" /\ Usable

\* emplaceNode
Emplaced(b) == [tree EXCEPT !.node[b] = NewNode, !.balance[b] = "equal"]

InsertFirst(b) ==
  /\ Ready /\ b \notin free /\ tree.root = Null
  /\ tree' = [Emplaced(b) EXCEPT !.root = b]
  /\ free' = free \cup {b}
  /\ UNCHANGED <<size, pc, current, removed>>

\* A block of the same size is second in the list.
InsertTwin(b) ==
  LET parent == LowerBound(size[b])[2]
      t1     == Set(Emplaced(b), b, "next", tree.node[parent].next)
      t2     == Set(Set(t1, tree.node[parent].next, "previous", b), parent, "next", b)
  IN  /\ Ready /\ b \notin free /\ tree.root # Null
      /\ size[parent] = size[b]
      /\ tree' = Set(t2, b, "previous", parent)
      /\ free' = free \cup {b}
      /\ UNCHANGED <<size, pc, current, removed>>

InsertLeaf(b) ==
  LET parent == LowerBound(size[b])[2]
      side   == IF size[parent] > size[b] THEN "left" ELSE "right"
  IN  /\ Ready /\ b \notin free /\ tree.root # Null
      /\ size[parent] # size[b]
      /\ tree' = Set(Set(Emplaced(b), parent, side, b), b, "parent", parent)
      /\ free' = free \cup {b}
      /\ pc' = "insertRebalance" /\ current' = b
      /\ UNCHANGED <<size, removed>>

\* One round of the loop in insertRebalance.
InsertRebalance ==
  LET parent == tree.node[current].parent
      side   == Side(tree, parent, current)
  IN  /\ pc = "insertRebalance"
      /\ IF current = tree.root
         THEN pc' = "idle" /\ current' = Null /\ UNCHANGED tree
         ELSE \/ /\ tree.balance[parent] = "equal"
                 /\ tree' = SetBalance(tree, parent, side)
                 /\ current' = parent /\ UNCHANGED pc
              \/ /\ tree.balance[parent] = Other(side)
                 /\ tree' = SetBalance(tree, parent, "equal")
                 /\ pc' = "idle" /\ current' = Null
              \/ /\ tree.balance[parent] = side
                 /\ tree' = IF tree.balance[current] = Other(side)
                            THEN DoubleRotate(tree, Other(side), parent, current)
                            ELSE SingleRotate(tree, Other(side), parent, current)
                 /\ pc' = "idle" /\ current' = Null
      /\ UNCHANGED <<size, free, removed>>
-----------------------------------------------------------------------------
(***************************************************************************)
(* remove: a block with two children first changes places with its         *)
(* predecessor.                                                            *)
(***************************************************************************)
Predecessor(b) ==
  LET rightmost[h \in Blocks] == IF tree.node[h].right = Null THEN h ELSE rightmost[tree.node[h].right]
  IN  rightmost[tree.node[b].left]

StartRemove(b) ==
  /\ tree' = IF tree.node[b].left # Null /\ tree.node[b].right # Null
             THEN SwapNode(tree, b, Predecessor(b)) ELSE tree
  /\ pc' = "removeRebalance" /\ current' = b /\ removed' = b

\* alloc: the second block of the list if there is one, else the block itself.
Take(request) ==
  LET result == LowerBound(request)[1]
      twin   == tree.node[result].next
      rest   == tree.node[twin].next
  IN  /\ Ready /\ result # Null
      /\ IF twin # Null
         THEN /\ tree' = Leave(Set(Set(tree, result, "next", rest), rest, "previous", result), twin)
              /\ free' = free \ {twin}
              /\ UNCHANGED <<pc, current, removed>>
         ELSE StartRemove(result) /\ free' = free \ {result}
      /\ UNCHANGED size

\* free: unlinkBlock, for a neighbour that the freed block is merged with.
Unlink(b) ==
  LET previous == tree.node[b].previous
      next     == tree.node[b].next
  IN  /\ Ready /\ b \in free
      /\ free' = free \ {b}
      /\ IF previous # Null
         THEN /\ tree' = Leave(Set(Set(tree, previous, "next", next), next, "previous", previous), b)
              /\ UNCHANGED <<pc, current, removed>>
         ELSE IF next # Null
         THEN tree' = SwapNode(tree, next, b) /\ UNCHANGED <<pc, current, removed>>
         ELSE StartRemove(b)
      /\ UNCHANGED size

\* One round of the loop in removeRebalance, for a block that is not the root.
\* sibling is the child of parent that is not current.
Rebalancing == pc = "removeRebalance" /\ current # tree.root

StopsAtParent ==
  LET parent == tree.node[current].parent IN
  /\ Rebalancing /\ tree.balance[parent] = "equal"
  /\ tree' = SetBalance(tree, parent, Other(Side(tree, parent, current)))
  /\ pc' = "detach"
  /\ UNCHANGED <<size, free, current, removed>>

Shrinks ==
  LET parent == tree.node[current].parent IN
  /\ Rebalancing /\ tree.balance[parent] = Side(tree, parent, current)
  /\ tree' = SetBalance(tree, parent, "equal")
  /\ current' = parent
  /\ UNCHANGED <<size, pc, free, removed>>

Rotatable(sibling, side) ==
  sibling # Null /\ (tree.balance[sibling] = side => tree.node[sibling][side] # Null)

RotatesOnRemove ==
  LET parent  == tree.node[current].parent
      side    == Side(tree, parent, current)
      sibling == tree.node[parent][Other(side)]
      balance == tree.balance[sibling]
  IN  /\ Rebalancing /\ tree.balance[parent] = Other(side)
      /\ Rotatable(sibling, side)
      /\ tree' = IF balance = side THEN DoubleRotate(tree, side, parent, sibling)
                                   ELSE SingleRotate(tree, side, parent, sibling)
      /\ IF balance = "equal"
         THEN pc' = "detach" /\ UNCHANGED current
         ELSE current' = parent /\ UNCHANGED pc
      /\ UNCHANGED <<size, free, removed>>

\* A balance says that there is a node to rotate where there is none.
RotatesNull ==
  LET parent == tree.node[current].parent
      side   == Side(tree, parent, current)
      sibling == tree.node[parent][Other(side)]
  IN  /\ Rebalancing /\ tree.balance[parent] = Other(side)
      /\ ~Rotatable(sibling, side)
      /\ pc' = "aborted"
      /\ UNCHANGED <<tree, size, free, current, removed>>

ReachesRoot ==
  /\ pc = "removeRebalance" /\ current = tree.root
  /\ pc' = "detach"
  /\ UNCHANGED <<tree, size, free, current, removed>>

\* The only child, if any, takes the place of the block.
Detach ==
  LET n     == tree.node[removed]
      child == IF n.left # Null THEN n.left ELSE n.right
  IN  /\ pc = "detach"
      /\ tree' = Leave(Relink(Set(tree, child, "parent", n.parent), n.parent, removed, child), removed)
      /\ pc' = "idle" /\ current' = Null /\ removed' = Null
      /\ UNCHANGED <<size, free>>
-----------------------------------------------------------------------------
Rebalance == \/ InsertRebalance \/ StopsAtParent \/ Shrinks \/ RotatesOnRemove \/ RotatesNull
             \/ ReachesRoot \/ Detach

\* A null pointer has been dereferenced, or a block that has left would be used.
Ended == (pc = "aborted" \/ (pc = "idle" /\ ~Usable)) /\ UNCHANGED vars

Next == \/ \E b \in Blocks : InsertFirst(b) \/ InsertTwin(b) \/ InsertLeaf(b) \/ Unlink(b)
        \/ \E request \in Requests : Take(request)
        \/ Rebalance
        \/ Ended

Spec == Init /\ [][Next]_vars
-----------------------------------------------------------------------------
\* The balance bits also tell free blocks from allocated ones, which is what free()
\* relies on when it looks at the neighbours.
TypeOK ==
  /\ tree \in [root : Pointer, node : [Blocks -> NodeType],
               balance : [Blocks -> {"allocated", "equal", "left", "right"}]]
  /\ size \in Sizes /\ free \subseteq Blocks
  /\ pc \in {"idle", "insertRebalance", "removeRebalance", "detach", "aborted"}
  /\ current \in Pointer /\ removed \in Pointer
  /\ Ready => free = {b \in Blocks : tree.balance[b] # "allocated"}

\* lowerBound finds the smallest free block that is large enough, or none if
\* there is none: the search tree holds every free block at its place, whatever
\* rotations, exchanges and removals have done to it, and no other block.
BestFit ==
  Ready => \A request \in Requests :
    LET fits  == {b \in free : size[b] >= request}
        found == LowerBound(request)[1]
    IN  IF fits = {} THEN found = Null
        ELSE found \in fits /\ \A b \in fits : size[found] <= size[b]

\* Every link has its counterpart, so that a block can be taken out from anywhere.
LinksAgree ==
  Ready =>
    /\ tree.root # Null => tree.node[tree.root].parent = Null
    /\ \A b \in free :
         LET n == tree.node[b] IN
         /\ \A side \in Sides : n[side] # Null => tree.node[n[side]].parent = b
         /\ n.parent # Null => b \in {tree.node[n.parent][side] : side \in Sides}
         /\ n.next # Null => tree.node[n.next].previous = b /\ size[n.next] = size[b]
         /\ n.previous # Null => tree.node[n.previous].next = b

\* unlinkBlock leaves a block that it has exchanged with the next one of its size in the list
\* behind that one, and remove takes along the list of the predecessor.  So links to a block
\* that has left remain, but in lists only: in the one of its own size, or at the front of the
\* one of the next smaller size.  The tree itself has none.
StraysAreInLists ==
  pc = "idle" =>
    /\ tree.root \in free \cup {Null}
    /\ \A b \in free :
         LET n == tree.node[b] IN
         /\ {n.left, n.right, n.parent} \subseteq free \cup {Null}
         /\ \A gone \in {n.next, n.previous} \ (free \cup {Null}) :
              \/ size[gone] = size[b]
              \/ /\ gone = n.previous /\ size[gone] > size[b]
                 /\ \A c \in free : size[c] < size[gone] => size[c] <= size[b]

\* verifyTree asserts that the balance of every node is the difference between
\* the heights of its subtrees.
Balanced ==
  LET height[b \in Pointer] ==
        IF b = Null THEN 0
        ELSE 1 + (IF height[tree.node[b].left] > height[tree.node[b].right]
                  THEN height[tree.node[b].left] ELSE height[tree.node[b].right])
  IN  pc = "idle" /\ free # {} =>
        \A b \in free :
          height[tree.node[b].right] - height[tree.node[b].left] =
            (CASE tree.balance[b] = "left" -> -1 [] tree.balance[b] = "equal" -> 0
               [] tree.balance[b] = "right" -> 1)
=============================================================================
