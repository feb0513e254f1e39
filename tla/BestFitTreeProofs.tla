------------------------- MODULE BestFitTreeProofs --------------------------
(***************************************************************************)
(* The free blocks stay a search tree of their sizes, and lowerBound finds *)
(* the best fit in it.                                                     *)
(*                                                                         *)
(* A state is compared with a picture of it that the program does not      *)
(* have: a key and an interval of keys for every header of the tree, and a *)
(* rank for every block in a list.  Each operation on the pointers has a   *)
(* lemma that says what it writes, and one that says which picture fits    *)
(* afterwards; the invariant says that there is one that fits.  Heights    *)
(* and the exact balances have no part in it.                              *)
(***************************************************************************)
EXTENDS BestFitTree, ProofLemmas

\* The provers for a step that names none, in turn: most need less than a second, and
\* a search that went astray is begun again.
USE SMT, Zenon, SMTT(20), SMTT(60), ZenonT(60), Z3T(60)

-----------------------------------------------------------------------------
(***************************************************************************)
(* What rotating, growing, cutting and renaming do to a binary search tree *)
(* that is given by its pointers, as functions of the blocks.              *)
(***************************************************************************)
\* The pointers of a binary tree with the nodes H.
Shape(root, near, far, parent, H) ==
  /\ near \in [Blocks -> Pointer] /\ far \in [Blocks -> Pointer] /\ parent \in [Blocks -> Pointer]
  /\ H \subseteq Blocks /\ root \in H \cup {Null}
  /\ root = Null => H = {}
  /\ root # Null => parent[root] = Null
  /\ \A x \in H : /\ near[x] # Null => near[x] \in H /\ parent[near[x]] = x
                  /\ far[x] # Null => far[x] \in H /\ parent[far[x]] = x
                  /\ near[x] # Null => near[x] # far[x]
                  /\ parent[x] = Null => x = root
                  /\ parent[x] # Null => parent[x] \in H /\ x \in {near[parent[x]], far[parent[x]]}

\* Two nodes of a search tree: one lies in a subtree of the other, or their spans
\* have nothing in common.
Laminar(key, lo, hi, x, y) ==
  \/ lo[y] <= lo[x] /\ hi[x] <= key[y]
  \/ key[y] <= lo[x] /\ hi[x] <= hi[y]
  \/ lo[x] <= lo[y] /\ hi[y] <= key[x]
  \/ key[x] <= lo[y] /\ hi[y] <= hi[x]
  \/ hi[x] <= lo[y] \/ hi[y] <= lo[x]

\* The tree is a search tree for key, and lo and hi are the bounds of the keys below a
\* node: where a child is missing, there is no key between the bounds.
Spans(root, near, far, H, key, lo, hi) ==
  /\ \A x \in H : key[x] \in Int /\ lo[x] \in Int /\ hi[x] \in Int /\ lo[x] < key[x] /\ key[x] < hi[x]
  /\ \A x \in H : near[x] # Null => lo[near[x]] = lo[x] /\ hi[near[x]] = key[x]
  /\ \A x \in H : far[x] # Null => lo[far[x]] = key[x] /\ hi[far[x]] = hi[x]
  /\ \A x, y \in H : near[x] = Null => ~(lo[x] < key[y] /\ key[y] < key[x])
  /\ \A x, y \in H : far[x] = Null => ~(key[x] < key[y] /\ key[y] < hi[x])
  /\ \A x, y \in H : x # y => Laminar(key, lo, hi, x, y)
  /\ \A x \in H : lo[root] <= lo[x] /\ hi[x] <= hi[root]

\* top makes room for its far child.
Rotated(root, near, far, parent, H, top, child, root2, near2, far2, parent2) ==
  /\ root2 = IF root = top THEN child ELSE root
  /\ near2 \in [Blocks -> Pointer] /\ far2 \in [Blocks -> Pointer] /\ parent2 \in [Blocks -> Pointer]
  /\ \A x \in H : near2[x] = IF x = child THEN top ELSE IF near[x] = top THEN child ELSE near[x]
  /\ \A x \in H : far2[x] = IF x = top THEN near[child] ELSE IF far[x] = top THEN child ELSE far[x]
  /\ \A x \in H : parent2[x] = IF x = child THEN parent[top] ELSE IF x = top THEN child
                                    ELSE IF x = near[child] THEN top ELSE parent[x]

\* A rotation leaves a binary tree.
LEMMA RotatedShape ==
  ASSUME NEW root, NEW near, NEW far, NEW parent, NEW H, Shape(root, near, far, parent, H),
         NEW top \in H, NEW child, child = far[top], child # Null,
         near[child] # top, far[child] # top, near[top] # top,
         NEW root2, NEW near2, NEW far2, NEW parent2,
         Rotated(root, near, far, parent, H, top, child, root2, near2, far2, parent2)
  PROVE  Shape(root2, near2, far2, parent2, H)
  <1>1. child \in H /\ child # top /\ parent[child] = top /\ child # root /\ near[top] # child
    BY NullAssumption DEF Shape
  <1>2. near[child] # Null => /\ near[child] \in H /\ parent[near[child]] = child
                              /\ near[child] # child /\ near[child] # root /\ near[child] # top
                              /\ near[child] # far[child]
    BY <1>1, NullAssumption DEF Shape
  <1>3. parent[top] # Null => /\ parent[top] # child /\ parent[top] # top /\ parent[top] \in H
                              /\ top \in {near[parent[top]], far[parent[top]]}
    BY <1>1, NullAssumption DEF Shape
  <1>4. \A x \in H : near[x] = top \/ far[x] = top => x = parent[top]
    BY NullAssumption DEF Shape
  <1>5. /\ H \subseteq Blocks /\ Null \notin H
        /\ \A x \in H : /\ near[x] # Null => near[x] \in H /\ parent[near[x]] = x
                        /\ far[x] # Null => far[x] \in H /\ parent[far[x]] = x
    BY NullAssumption DEF Shape
  <1>6. /\ near2[child] = top /\ far2[top] = near[child]
        /\ parent2[child] = parent[top] /\ parent2[top] = child
        /\ near[child] # Null => parent2[near[child]] = top
    BY <1>1, <1>2, <1>5 DEF Rotated
  <1>7. \A x \in H : /\ x # child /\ near[x] = top => near2[x] = child
                     /\ x # child /\ near[x] # top => near2[x] = near[x]
                     /\ x # top /\ far[x] = top => far2[x] = child
                     /\ x # top /\ far[x] # top => far2[x] = far[x]
                     /\ x # child /\ x # top /\ x # near[child] => parent2[x] = parent[x]
    BY <1>5 DEF Rotated
  <1>8. ASSUME NEW x \in H, near2[x] # Null
        PROVE  near2[x] \in H /\ parent2[near2[x]] = x
    <2>1. CASE x = child
      BY <1>1, <1>6, <2>1
    <2>2. CASE x # child /\ near[x] = top
      BY <1>1, <1>4, <1>6, <1>7, <2>2
    <2>3. CASE x # child /\ near[x] # top
      <3>1. near2[x] = near[x] /\ near[x] \in H /\ parent[near[x]] = x
        BY <1>5, <1>7, <1>8, <2>3
      <3>2. near[x] # child
        BY <1>1, <3>1
      <3>3. near[x] # near[child]
        BY <1>2, <2>3, <3>1, <1>5
      <3>4. QED
        BY <1>7, <2>3, <3>1, <3>2, <3>3
    <2>4. QED
      BY <2>1, <2>2, <2>3
  <1>9. ASSUME NEW x \in H, far2[x] # Null
        PROVE  far2[x] \in H /\ parent2[far2[x]] = x
    <2>1. CASE x = top
      BY <1>2, <1>6, <1>9, <2>1
    <2>2. CASE x # top /\ far[x] = top
      BY <1>1, <1>4, <1>6, <1>7, <2>2
    <2>3. CASE x # top /\ far[x] # top
      <3>1. far2[x] = far[x] /\ far[x] \in H /\ parent[far[x]] = x
        BY <1>5, <1>7, <1>9, <2>3
      <3>2. far[x] # child
        BY <1>1, <2>3, <3>1
      <3>3. far[x] # near[child]
        BY <1>2, <2>3, <3>1, <1>5
      <3>4. QED
        BY <1>7, <2>3, <3>1, <3>2, <3>3
    <2>4. QED
      BY <2>1, <2>2, <2>3
  <1>10. ASSUME NEW x \in H, near2[x] # Null
         PROVE  near2[x] # far2[x]
    <2>1. CASE x = child
      BY <1>1, <1>6, <1>7, <2>1, NullAssumption
    <2>2. CASE x = top
      BY <1>1, <1>2, <1>4, <1>6, <1>7, <1>10, <2>2 DEF Shape
    <2>3. CASE x # child /\ x # top
      BY <1>1, <1>4, <1>5, <1>7, <1>10, <2>3 DEF Shape
    <2>4. QED
      BY <2>1, <2>2, <2>3
  <1>11. ASSUME NEW x \in H, parent2[x] = Null
         PROVE  x = root2
    <2>1. CASE x = child
      BY <1>6, <1>11, <2>1 DEF Shape, Rotated
    <2>2. CASE x # child
      BY <1>1, <1>2, <1>3, <1>5, <1>6, <1>7, <1>11, <2>2 DEF Shape, Rotated
    <2>3. QED
      BY <2>1, <2>2
  <1>12. ASSUME NEW x \in H, parent2[x] # Null
         PROVE  parent2[x] \in H /\ x \in {near2[parent2[x]], far2[parent2[x]]}
    <2>1. CASE x = child
      BY <1>1, <1>3, <1>6, <1>7, <1>12, <2>1
    <2>2. CASE x = top
      BY <1>1, <1>6, <2>2
    <2>3. CASE x = near[child] /\ x # top
      BY <1>1, <1>2, <1>5, <1>6, <2>3
    <2>4. CASE x # child /\ x # top /\ x # near[child]
      <3>1. parent2[x] = parent[x] /\ parent[x] \in H /\ x \in {near[parent[x]], far[parent[x]]}
        BY <1>7, <1>12, <2>4 DEF Shape
      <3>2. QED
        BY <1>1, <1>6, <1>7, <2>4, <3>1
    <2>5. QED
      BY <2>1, <2>2, <2>3, <2>4
  <1>13. /\ root2 \in H \cup {Null} /\ root2 # Null /\ parent2[root2] = Null
         /\ root # Null
    BY <1>1, <1>2, <1>5, <1>6, <1>7 DEF Shape, Rotated
  <1>14. QED
    BY <1>8, <1>9, <1>10, <1>11, <1>12, <1>13 DEF Shape, Rotated

\* The relation has no direction.
LEMMA LaminarSymmetric ==
  ASSUME NEW key, NEW lo, NEW hi, NEW x, NEW y, Laminar(key, lo, hi, x, y)
  PROVE  Laminar(key, lo, hi, y, x)
  BY DEF Laminar

RotatedBounds(H, key, lo, hi, top, child, lo2, hi2) ==
  /\ \A x \in H : lo2[x] = IF x = child THEN lo[top] ELSE lo[x]
  /\ \A x \in H : hi2[x] = IF x = child THEN hi[top] ELSE IF x = top THEN key[child] ELSE hi[x]

\* A rotation keeps the keys in order.
LEMMA RotatedSpans ==
  ASSUME NEW root, NEW near, NEW far, NEW parent, NEW H, Shape(root, near, far, parent, H),
         NEW key, NEW lo, NEW hi, Spans(root, near, far, H, key, lo, hi),
         NEW top \in H, NEW child, child = far[top], child # Null,
         NEW root2, NEW near2, NEW far2, NEW parent2,
         Rotated(root, near, far, parent, H, top, child, root2, near2, far2, parent2),
         NEW lo2, NEW hi2, RotatedBounds(H, key, lo, hi, top, child, lo2, hi2)
  PROVE  Spans(root2, near2, far2, H, key, lo2, hi2)
  <1>1. /\ \A x \in H : key[x] \in Int /\ lo[x] \in Int /\ hi[x] \in Int /\ lo[x] < key[x] /\ key[x] < hi[x]
        /\ child \in H /\ lo[child] = key[top] /\ hi[child] = hi[top]
        /\ H \subseteq Blocks /\ Null \notin H
    BY NullAssumption DEF Shape, Spans
  <1>2. child # top
    BY <1>1
  <1>3. /\ lo2[child] = lo[top] /\ hi2[child] = hi[top]
        /\ lo2[top] = lo[top] /\ hi2[top] = key[child]
        /\ \A x \in H : x # child => lo2[x] = lo[x]
        /\ \A x \in H : x # child /\ x # top => hi2[x] = hi[x]
    BY <1>1, <1>2 DEF RotatedBounds
  <1>4. \A x \in H : /\ key[x] \in Int /\ lo2[x] \in Int /\ hi2[x] \in Int
                     /\ lo2[x] < key[x] /\ key[x] < hi2[x]
    <2>1. ASSUME NEW x \in H
          PROVE  /\ key[x] \in Int /\ lo2[x] \in Int /\ hi2[x] \in Int
                 /\ lo2[x] < key[x] /\ key[x] < hi2[x]
      BY <1>1, <1>3
    <2>2. QED
      BY <2>1
  \* The children.
  <1>5. \A x \in H : near[x] # Null => /\ near[x] \in H /\ parent[near[x]] = x
                                       /\ lo[near[x]] = lo[x] /\ hi[near[x]] = key[x]
    BY DEF Shape, Spans
  <1>6. \A x \in H : far[x] # Null => /\ far[x] \in H /\ parent[far[x]] = x
                                      /\ lo[far[x]] = key[x] /\ hi[far[x]] = hi[x]
    BY DEF Shape, Spans
  <1>7. /\ near2[child] = top /\ far2[top] = near[child]
        /\ \A x \in H : x # child => near2[x] = IF near[x] = top THEN child ELSE near[x]
        /\ \A x \in H : x # top => far2[x] = IF far[x] = top THEN child ELSE far[x]
    BY <1>1, <1>2 DEF Rotated
  <1>8. near[top] # top /\ near[top] # child
    <2>1. near[top] = top \/ near[top] = child => /\ lo[near[top]] = lo[top] /\ hi[near[top]] = key[top]
      BY <1>1, <1>5
    <2>2. lo[child] # lo[top] /\ hi[top] # key[top]
      BY <1>1
    <2>3. QED
      BY <2>1, <2>2
  <1>9. ASSUME NEW x \in H, near2[x] # Null
        PROVE  lo2[near2[x]] = lo2[x] /\ hi2[near2[x]] = key[x]
    <2>1. CASE x = child
      BY <1>3, <1>7, <2>1
    <2>2. CASE x # child /\ near[x] = top
      <3>1. lo[top] = lo[x] /\ hi[top] = key[x]
        BY <1>1, <1>5, <2>2
      <3>2. near2[x] = child
        BY <1>7, <2>2
      <3>3. QED
        BY <1>3, <2>2, <3>1, <3>2
    <2>3. CASE x # child /\ near[x] # top
      <3>1. near2[x] = near[x] /\ near[x] \in H
        BY <1>5, <1>7, <1>9, <2>3
      <3>2. near[x] # child
        <4>1. parent[child] = top
          BY <1>1, <1>6
        <4>2. QED
          BY <1>5, <1>8, <1>9, <3>1, <4>1
      <3>3. QED
        BY <1>3, <1>5, <1>9, <2>3, <3>1, <3>2
    <2>4. QED
      BY <2>1, <2>2, <2>3
  <1>10. ASSUME NEW x \in H, far2[x] # Null
         PROVE  lo2[far2[x]] = key[x] /\ hi2[far2[x]] = hi2[x]
    <2>1. CASE x = top
      <3>1. far2[x] = near[child] /\ near[child] # Null
        BY <1>7, <1>10, <2>1
      <3>2. near[child] \in H /\ lo[near[child]] = key[top] /\ hi[near[child]] = key[child]
        BY <1>1, <1>5, <3>1
      <3>3. near[child] # child /\ near[child] # top
        BY <1>1, <3>2
      <3>4. QED
        BY <1>3, <2>1, <3>1, <3>2, <3>3
    <2>2. CASE x # top /\ far[x] = top
      <3>1. lo[top] = key[x] /\ hi[top] = hi[x]
        BY <1>1, <1>6, <2>2
      <3>2. x # child
        BY <1>1, <3>1
      <3>3. far2[x] = child
        BY <1>7, <2>2
      <3>4. QED
        BY <1>3, <2>2, <3>1, <3>2, <3>3
    <2>3. CASE x # top /\ far[x] # top
      <3>1. far2[x] = far[x] /\ far[x] \in H
        BY <1>6, <1>7, <1>10, <2>3
      <3>2. far[x] # child
        BY <1>6, <1>10, <2>3, <3>1
      <3>3. QED
        BY <1>1, <1>3, <1>6, <1>10, <2>3, <3>1, <3>2
    <2>4. QED
      BY <2>1, <2>2, <2>3
  \* The holes.
  <1>11. ASSUME NEW x \in H, NEW y \in H, near2[x] = Null
         PROVE  ~(lo2[x] < key[y] /\ key[y] < key[x])
    <2>1. x # child /\ near[x] = Null
      BY <1>1, <1>7, <1>11, NullAssumption DEF Shape
    <2>2. QED
      BY <1>3, <2>1 DEF Spans
  <1>12. ASSUME NEW x \in H, NEW y \in H, far2[x] = Null
         PROVE  ~(key[x] < key[y] /\ key[y] < hi2[x])
    <2>1. CASE x = top
      <3>1. near[child] = Null /\ hi2[x] = key[child] /\ key[x] = lo[child]
        BY <1>1, <1>3, <1>7, <1>12, <2>1
      <3>2. QED
        BY <1>1, <3>1 DEF Spans
    <2>2. CASE x # top
      <3>1. far[x] = Null /\ hi2[x] = hi[x]
        BY <1>1, <1>3, <1>7, <1>12, <2>2, NullAssumption DEF Shape
      <3>2. QED
        BY <3>1 DEF Spans
    <2>3. QED
      BY <2>1, <2>2
  \* Subtrees.
  <1>13. ASSUME NEW x \in H, NEW y \in H, x # y
         PROVE  Laminar(key, lo2, hi2, x, y)
    <2>1. Laminar(key, lo2, hi2, top, child) /\ Laminar(key, lo2, hi2, child, top)
      BY <1>1, <1>3 DEF Laminar
    <2>2. ASSUME NEW z \in H, z # top, z # child
          PROVE  /\ Laminar(key, lo2, hi2, z, top) /\ Laminar(key, lo2, hi2, top, z)
                 /\ Laminar(key, lo2, hi2, z, child) /\ Laminar(key, lo2, hi2, child, z)
      <3>1. Laminar(key, lo, hi, z, top) /\ Laminar(key, lo, hi, z, child)
        BY <1>1, <2>2 DEF Spans
      <3>2. /\ lo[z] < key[z] /\ key[z] < hi[z] /\ lo[top] < key[top] /\ key[top] < hi[top]
            /\ key[top] < key[child] /\ key[child] < hi[top]
            /\ lo2[z] = lo[z] /\ hi2[z] = hi[z]
        BY <1>1, <1>3, <2>2
      <3>3. /\ lo[z] \in Int /\ key[z] \in Int /\ hi[z] \in Int /\ lo[top] \in Int
            /\ key[top] \in Int /\ hi[top] \in Int /\ key[child] \in Int
        BY <1>1
      <3>4. Laminar(key, lo2, hi2, z, top) /\ Laminar(key, lo2, hi2, z, child)
        BY <1>1, <1>3, <3>1, <3>2, <3>3 DEF Laminar
      <3>5. QED
        BY <3>4, LaminarSymmetric
    <2>3. CASE x \notin {top, child} /\ y \notin {top, child}
      <3>1. Laminar(key, lo, hi, x, y)
        BY <1>13 DEF Spans
      <3>2. lo2[x] = lo[x] /\ hi2[x] = hi[x] /\ lo2[y] = lo[y] /\ hi2[y] = hi[y]
        BY <1>3, <2>3
      <3>3. QED
        BY <3>1, <3>2 DEF Laminar
    <2>4. CASE x \in {top, child}
      BY <1>13, <2>1, <2>2, <2>4
    <2>5. CASE y \in {top, child}
      BY <1>13, <2>1, <2>2, <2>5
    <2>6. QED
      BY <2>3, <2>4, <2>5
  <1>14. \A x \in H : lo2[root2] <= lo2[x] /\ hi2[x] <= hi2[root2]
    <2>0. root \in H /\ root # child /\ \A x \in H : lo[root] <= lo[x] /\ hi[x] <= hi[root]
      <3>1. root \in H /\ \A x \in H : lo[root] <= lo[x] /\ hi[x] <= hi[root]
        BY DEF Shape, Spans
      <3>2. QED
        BY <1>1, <3>1
    <2>1. lo2[root2] = lo[root] /\ hi2[root2] = hi[root]
      BY <1>3, <2>0 DEF Rotated
    <2>2. ASSUME NEW x \in H
          PROVE  lo[root] <= lo2[x] /\ hi2[x] <= hi[root]
      BY <1>1, <1>3, <2>0
    <2>3. QED
      BY <2>1, <2>2
  <1>15. QED
    BY <1>4, <1>9, <1>10, <1>11, <1>12, <1>13, <1>14 DEF Spans

\* The other side.
Negative(f) == [x \in Blocks |-> -f[x]]

\* Left and right may change places.
LEMMA MirroredShape ==
  ASSUME NEW root, NEW near, NEW far, NEW parent, NEW H, Shape(root, near, far, parent, H)
  PROVE  Shape(root, far, near, parent, H)
  BY DEF Shape

\* So they may with the order of the keys turned round.
LEMMA MirroredSpans ==
  ASSUME NEW root, NEW near, NEW far, NEW parent, NEW H, Shape(root, near, far, parent, H),
         NEW key, NEW lo, NEW hi, Spans(root, near, far, H, key, lo, hi)
  PROVE  Spans(root, far, near, H, Negative(key), Negative(hi), Negative(lo))
  <1>1. /\ \A x \in H : key[x] \in Int /\ lo[x] \in Int /\ hi[x] \in Int /\ lo[x] < key[x] /\ key[x] < hi[x]
        /\ \A x \in H : near[x] # Null => near[x] \in H /\ lo[near[x]] = lo[x] /\ hi[near[x]] = key[x]
        /\ \A x \in H : far[x] # Null => far[x] \in H /\ lo[far[x]] = key[x] /\ hi[far[x]] = hi[x]
        /\ H \subseteq Blocks
        /\ H # {} => root \in H
    BY DEF Shape, Spans
  <1> DEFINE k == Negative(key)
             l == Negative(hi)
             h == Negative(lo)
  <1>2. \A x \in H : k[x] = -key[x] /\ l[x] = -hi[x] /\ h[x] = -lo[x]
    BY <1>1 DEF Negative
  <1> HIDE DEF k, l, h
  <1>3. ASSUME NEW x \in H
        PROVE  /\ k[x] \in Int /\ l[x] \in Int /\ h[x] \in Int /\ l[x] < k[x] /\ k[x] < h[x]
               /\ far[x] # Null => l[far[x]] = l[x] /\ h[far[x]] = k[x]
               /\ near[x] # Null => l[near[x]] = k[x] /\ h[near[x]] = h[x]
               /\ l[root] <= l[x] /\ h[x] <= h[root]
    <2>1. root \in H /\ lo[root] <= lo[x] /\ hi[x] <= hi[root]
      BY <1>1 DEF Spans
    <2>2. l[root] <= l[x] /\ h[x] <= h[root]
      BY <1>1, <1>2, <2>1
    <2>3. k[x] \in Int /\ l[x] \in Int /\ h[x] \in Int /\ l[x] < k[x] /\ k[x] < h[x]
      BY <1>1, <1>2
    <2>4. far[x] # Null => l[far[x]] = l[x] /\ h[far[x]] = k[x]
      BY <1>1, <1>2
    <2>5. near[x] # Null => l[near[x]] = k[x] /\ h[near[x]] = h[x]
      BY <1>1, <1>2
    <2>6. QED
      BY <2>2, <2>3, <2>4, <2>5
  <1>4. ASSUME NEW x \in H, NEW y \in H
        PROVE  /\ far[x] = Null => ~(l[x] < k[y] /\ k[y] < k[x])
               /\ near[x] = Null => ~(k[x] < k[y] /\ k[y] < h[x])
    <2>1. /\ far[x] = Null => ~(key[x] < key[y] /\ key[y] < hi[x])
          /\ near[x] = Null => ~(lo[x] < key[y] /\ key[y] < key[x])
      BY DEF Spans
    <2>2. QED
      BY <1>1, <1>2, <2>1
  <1>5. ASSUME NEW x \in H, NEW y \in H, x # y
        PROVE  Laminar(k, l, h, x, y)
    <2>1. Laminar(key, lo, hi, x, y)
      BY <1>5 DEF Spans
    <2>2. QED
      BY <1>1, <1>2, <2>1 DEF Laminar
  <1>6. Spans(root, far, near, H, k, l, h)
    BY <1>3, <1>4, <1>5 DEF Spans
  <1>7. QED
    BY <1>6 DEF k, l, h

\* A leaf where a child was missing.
LEMMA GrownShape ==
  ASSUME NEW root, NEW near, NEW far, NEW parent, NEW H, Shape(root, near, far, parent, H),
         NEW p \in H, near[p] = Null, NEW b \in Blocks \ H, near[b] = Null, far[b] = Null
  PROVE  Shape(root, [near EXCEPT ![p] = b], far, [parent EXCEPT ![b] = p], H \cup {b})
  <1>1. /\ H \subseteq Blocks /\ root \in H /\ parent[root] = Null /\ b # p /\ b # Null /\ p # Null
        /\ far[p] # b
    BY NullAssumption DEF Shape
  <1> DEFINE near2 == [near EXCEPT ![p] = b]
             parent2 == [parent EXCEPT ![b] = p]
  <1>2. /\ near2 \in [Blocks -> Pointer] /\ parent2 \in [Blocks -> Pointer] /\ far \in [Blocks -> Pointer]
        /\ near2[p] = b /\ \A x \in Blocks : x # p => near2[x] = near[x]
        /\ parent2[b] = p /\ \A x \in Blocks : x # b => parent2[x] = parent[x]
    BY <1>1 DEF Shape, Pointer
  <1> HIDE DEF near2, parent2
  <1>3. \A x \in H : /\ near[x] # Null => near[x] \in H /\ parent[near[x]] = x /\ near[x] # far[x]
                     /\ far[x] # Null => far[x] \in H /\ parent[far[x]] = x
                     /\ parent[x] = Null => x = root
                     /\ parent[x] # Null => parent[x] \in H /\ x \in {near[parent[x]], far[parent[x]]}
    BY DEF Shape
  <1>4. ASSUME NEW x \in H
        PROVE  /\ near2[x] # Null => near2[x] \in H \cup {b} /\ parent2[near2[x]] = x /\ near2[x] # far[x]
               /\ far[x] # Null => far[x] \in H /\ parent2[far[x]] = x
    BY <1>1, <1>2, <1>3
  <1>5. ASSUME NEW x \in H
        PROVE  /\ parent2[x] = Null => x = root
               /\ parent2[x] # Null => parent2[x] \in H /\ x \in {near2[parent2[x]], far[parent2[x]]}
    <2>1. parent2[x] = parent[x]
      BY <1>1, <1>2
    <2>2. parent[x] # Null => parent[x] \in H /\ x \in {near[parent[x]], far[parent[x]]}
      BY <1>3
    <2>3. parent[x] # Null /\ x = near[parent[x]] => near2[parent[x]] = x
      BY <1>1, <1>2, <2>2, NullAssumption
    <2>4. parent[x] # Null => x \in {near2[parent[x]], far[parent[x]]}
      BY <2>2, <2>3
    <2>5. parent[x] = Null => x = root
      BY <1>3
    <2>6. QED
      BY <2>1, <2>2, <2>4, <2>5
  <1>6. near2[b] = Null /\ far[b] = Null /\ parent2[b] = p /\ b = near2[p]
    BY <1>1, <1>2
  <1>7. parent2[root] = Null
    BY <1>1, <1>2
  <1>8. Shape(root, near2, far, parent2, H \cup {b})
    BY <1>1, <1>2, <1>4, <1>5, <1>6, <1>7 DEF Shape
  <1>9. QED
    BY <1>8 DEF near2, parent2

GrownKeys(H, key, lo, hi, p, b, key2, lo2, hi2) ==
  /\ key2[b] = 2 * key[p] - 1 /\ lo2[b] = 2 * lo[p] /\ hi2[b] = 2 * key[p]
  /\ \A x \in H : key2[x] = 2 * key[x] /\ lo2[x] = 2 * lo[x] /\ hi2[x] = 2 * hi[x]

\* A leaf that takes a missing near child is placed right before its parent.
LEMMA GrownSpans ==
  ASSUME NEW root, NEW near, NEW far, NEW parent, NEW H, Shape(root, near, far, parent, H),
         NEW key, NEW lo, NEW hi, Spans(root, near, far, H, key, lo, hi),
         NEW p \in H, near[p] = Null, NEW b \in Blocks \ H, near[b] = Null, far[b] = Null,
         NEW key2, NEW lo2, NEW hi2, GrownKeys(H, key, lo, hi, p, b, key2, lo2, hi2)
  PROVE  Spans(root, [near EXCEPT ![p] = b], far, H \cup {b}, key2, lo2, hi2)
  <1> USE DEF GrownKeys
  <1>1. /\ \A x \in H : key[x] \in Int /\ lo[x] \in Int /\ hi[x] \in Int /\ lo[x] < key[x] /\ key[x] < hi[x]
        /\ \A x \in H : near[x] # Null => near[x] \in H /\ lo[near[x]] = lo[x] /\ hi[near[x]] = key[x]
        /\ \A x \in H : far[x] # Null => far[x] \in H /\ lo[far[x]] = key[x] /\ hi[far[x]] = hi[x]
        /\ H \subseteq Blocks /\ root \in H /\ b # p /\ b # Null
        /\ \A x \in H : lo[root] <= lo[x] /\ hi[x] <= hi[root]
    BY NullAssumption DEF Shape, Spans
  <1> DEFINE near2 == [near EXCEPT ![p] = b]
  <1>2. near2[p] = b /\ \A x \in Blocks : x # p => near2[x] = near[x]
    BY <1>1 DEF Shape
  <1> HIDE DEF near2
  <1>3. /\ key[p] \in Int /\ lo[p] \in Int /\ hi[p] \in Int /\ lo[p] < key[p] /\ key[p] < hi[p]
    BY <1>1
  <1>4. ASSUME NEW x \in H
        PROVE  /\ key2[x] \in Int /\ lo2[x] \in Int /\ hi2[x] \in Int /\ lo2[x] < key2[x] /\ key2[x] < hi2[x]
               /\ lo2[root] <= lo2[x] /\ hi2[x] <= hi2[root]
               /\ near2[x] # Null => lo2[near2[x]] = lo2[x] /\ hi2[near2[x]] = key2[x]
               /\ far[x] # Null => lo2[far[x]] = key2[x] /\ hi2[far[x]] = hi2[x]
    <2>1. key[x] \in Int /\ lo[x] \in Int /\ hi[x] \in Int /\ lo[x] < key[x] /\ key[x] < hi[x]
      BY <1>1
    <2>2. /\ key2[x] \in Int /\ lo2[x] \in Int /\ hi2[x] \in Int /\ lo2[x] < key2[x] /\ key2[x] < hi2[x]
      BY <2>1
    <2>3. /\ lo[root] <= lo[x] /\ hi[x] <= hi[root] /\ lo[root] \in Int /\ hi[root] \in Int
      BY <1>1
    <2>4. lo2[root] <= lo2[x] /\ hi2[x] <= hi2[root]
      BY <1>1, <2>1, <2>3
    <2>5. near2[x] # Null => lo2[near2[x]] = lo2[x] /\ hi2[near2[x]] = key2[x]
      BY <1>1, <1>2
    <2>6. far[x] # Null => lo2[far[x]] = key2[x] /\ hi2[far[x]] = hi2[x]
      BY <1>1
    <2>7. QED
      BY <2>2, <2>4, <2>5, <2>6
  <1>5. /\ key2[b] \in Int /\ lo2[b] \in Int /\ hi2[b] \in Int /\ lo2[b] < key2[b] /\ key2[b] < hi2[b]
        /\ near2[b] = Null
    BY <1>1, <1>2, <1>3
  <1>6. lo2[root] <= lo2[b] /\ hi2[b] <= hi2[root]
    <2>1. lo[root] <= lo[p] /\ hi[p] <= hi[root] /\ lo[root] \in Int /\ hi[root] \in Int
      BY <1>1
    <2>2. QED
      BY <1>1, <1>3, <2>1
  \* Where the leaf lies in relation to the others.
  <1>7. ASSUME NEW x \in H
        PROVE  /\ Laminar(key2, lo2, hi2, x, b)
               /\ x # p /\ near[x] = Null => ~(lo2[x] < key2[b] /\ key2[b] < key2[x])
               /\ far[x] = Null => ~(key2[x] < key2[b] /\ key2[b] < hi2[x])
    <2>1. /\ key[x] \in Int /\ lo[x] \in Int /\ hi[x] \in Int /\ lo[x] < key[x] /\ key[x] < hi[x]
          /\ key2[x] = 2 * key[x] /\ lo2[x] = 2 * lo[x] /\ hi2[x] = 2 * hi[x]
      BY <1>1
    <2>2. CASE x = p
      BY <1>3, <1>5, <2>1, <2>2 DEF Laminar
    <2>3. CASE x # p
      <3>1. ~(lo[p] < key[x] /\ key[x] < key[p])
        BY DEF Spans
      <3>2. Laminar(key, lo, hi, x, p)
        BY <2>3 DEF Spans
      <3>3. /\ near[x] = Null => ~(lo[x] < key[p] /\ key[p] < key[x])
            /\ far[x] = Null => ~(key[x] < key[p] /\ key[p] < hi[x])
        BY DEF Spans
      <3>4. \/ key[p] <= lo[x] \/ hi[x] <= lo[p]
            \/ lo[x] <= lo[p] /\ hi[p] <= key[x] /\ near[x] # Null
            \/ key[x] <= lo[p] /\ hi[p] <= hi[x] /\ far[x] # Null
        BY <1>3, <2>1, <3>1, <3>2, <3>3 DEF Laminar
      <3>5. CASE key[p] <= lo[x] \/ hi[x] <= lo[p]
        BY <1>3, <1>5, <2>1, <3>5 DEF Laminar
      <3>6. CASE lo[x] <= lo[p] /\ hi[p] <= key[x] /\ near[x] # Null
        BY <1>3, <1>5, <2>1, <3>6 DEF Laminar
      <3>7. CASE key[x] <= lo[p] /\ hi[p] <= hi[x] /\ far[x] # Null
        BY <1>3, <1>5, <2>1, <3>7 DEF Laminar
      <3>8. QED
        BY <3>4, <3>5, <3>6, <3>7
    <2>4. QED
      BY <2>2, <2>3
  <1>8. ASSUME NEW x \in H, NEW y \in H
        PROVE  /\ x # y => Laminar(key2, lo2, hi2, x, y)
               /\ near2[x] = Null => ~(lo2[x] < key2[y] /\ key2[y] < key2[x])
               /\ far[x] = Null => ~(key2[x] < key2[y] /\ key2[y] < hi2[x])
               /\ ~(lo2[b] < key2[y] /\ key2[y] < key2[b])
               /\ ~(key2[b] < key2[y] /\ key2[y] < hi2[b])
    <2>1. /\ key[x] \in Int /\ lo[x] \in Int /\ hi[x] \in Int /\ key[y] \in Int /\ lo[y] \in Int /\ hi[y] \in Int
          /\ key2[x] = 2 * key[x] /\ lo2[x] = 2 * lo[x] /\ hi2[x] = 2 * hi[x]
          /\ key2[y] = 2 * key[y] /\ lo2[y] = 2 * lo[y] /\ hi2[y] = 2 * hi[y]
      BY <1>1
    <2>2. /\ x # y => Laminar(key, lo, hi, x, y)
          /\ near[x] = Null => ~(lo[x] < key[y] /\ key[y] < key[x])
          /\ far[x] = Null => ~(key[x] < key[y] /\ key[y] < hi[x])
          /\ ~(lo[p] < key[y] /\ key[y] < key[p])
      BY DEF Spans
    <2>3. x # y => Laminar(key2, lo2, hi2, x, y)
      BY <2>1, <2>2 DEF Laminar
    <2>4. near2[x] = Null => near[x] = Null
      BY <1>1, <1>2
    <2>5. QED
      BY <1>3, <2>1, <2>2, <2>3, <2>4
  <1>9. /\ \A x \in H \cup {b} : /\ key2[x] \in Int /\ lo2[x] \in Int /\ hi2[x] \in Int
                                 /\ lo2[x] < key2[x] /\ key2[x] < hi2[x]
                                 /\ lo2[root] <= lo2[x] /\ hi2[x] <= hi2[root]
        /\ \A x \in H \cup {b} : near2[x] # Null => lo2[near2[x]] = lo2[x] /\ hi2[near2[x]] = key2[x]
        /\ \A x \in H \cup {b} : far[x] # Null => lo2[far[x]] = key2[x] /\ hi2[far[x]] = hi2[x]
    BY <1>4, <1>5, <1>6
  <1>10. ASSUME NEW x \in H \cup {b}, NEW y \in H \cup {b}
         PROVE  /\ x # y => Laminar(key2, lo2, hi2, x, y)
                /\ near2[x] = Null => ~(lo2[x] < key2[y] /\ key2[y] < key2[x])
                /\ far[x] = Null => ~(key2[x] < key2[y] /\ key2[y] < hi2[x])
    <2>1. CASE x \in H /\ y \in H
      BY <1>8, <2>1
    <2>2. CASE x \in H /\ y = b
      <3>1. x = p => near2[x] # Null
        BY <1>1, <1>2
      <3>2. x # p => near2[x] = near[x]
        BY <1>1, <1>2, <2>2
      <3>3. QED
        BY <1>7, <2>2, <3>1, <3>2
    <2>3. CASE x = b /\ y \in H
      <3>1. Laminar(key2, lo2, hi2, b, y)
        BY <1>7, <2>3, LaminarSymmetric
      <3>2. QED
        BY <1>8, <2>3, <3>1
    <2>4. CASE x = b /\ y = b
      BY <1>5, <2>4
    <2>5. QED
      BY <2>1, <2>2, <2>3, <2>4
  <1>11. Spans(root, near2, far, H \cup {b}, key2, lo2, hi2)
    BY <1>9, <1>10 DEF Spans
  <1>12. QED
    BY <1>11 DEF near2
\* The only child of x takes its place.
Detached(root, near, far, parent, H, x, root2, near2, far2, parent2) ==
  /\ root2 = IF root = x THEN near[x] ELSE root
  /\ near2 \in [Blocks -> Pointer] /\ far2 \in [Blocks -> Pointer] /\ parent2 \in [Blocks -> Pointer]
  /\ \A y \in H \ {x} : near2[y] = IF near[y] = x THEN near[x] ELSE near[y]
  /\ \A y \in H \ {x} : far2[y] = IF far[y] = x THEN near[x] ELSE far[y]
  /\ \A y \in H \ {x} : parent2[y] = IF y = near[x] THEN parent[x] ELSE parent[y]

\* Cutting out a node with one child at most leaves a binary tree.
LEMMA DetachedShape ==
  ASSUME NEW root, NEW near, NEW far, NEW parent, NEW H, Shape(root, near, far, parent, H),
         NEW x \in H, far[x] = Null, near[x] # x, parent[x] # x,
         root = x /\ near[x] = Null => H = {x},
         NEW root2, NEW near2, NEW far2, NEW parent2,
         Detached(root, near, far, parent, H, x, root2, near2, far2, parent2)
  PROVE  Shape(root2, near2, far2, parent2, H \ {x})
  <1> DEFINE c == near[x]
  <1>1. /\ H \subseteq Blocks /\ Null \notin H
        /\ \A y \in H : /\ near[y] # Null => near[y] \in H /\ parent[near[y]] = y /\ near[y] # far[y]
                        /\ far[y] # Null => far[y] \in H /\ parent[far[y]] = y
                        /\ parent[y] = Null => y = root
                        /\ parent[y] # Null => parent[y] \in H /\ y \in {near[parent[y]], far[parent[y]]}
        /\ root \in H /\ parent[root] = Null
    BY NullAssumption DEF Shape
  <1>2. /\ \A y \in H \ {x} : near2[y] = IF near[y] = x THEN c ELSE near[y]
        /\ \A y \in H \ {x} : far2[y] = IF far[y] = x THEN c ELSE far[y]
        /\ \A y \in H \ {x} : parent2[y] = IF y = c THEN parent[x] ELSE parent[y]
    BY <1>1 DEF Detached
  <1>3. c # Null => c \in H \ {x} /\ parent[c] = x /\ c # root /\ parent2[c] = parent[x]
    BY <1>1, <1>2
  <1> HIDE DEF c
  <1>4. ASSUME NEW y \in H \ {x}, near2[y] # Null
        PROVE  near2[y] \in H \ {x} /\ parent2[near2[y]] = y /\ near2[y] # far2[y]
    <2>1. CASE near[y] = x
      <3>1. near2[y] = c /\ parent[x] = y /\ far[y] # x
        BY <1>1, <1>2, <2>1
      <3>2. far[y] # c
        BY <1>1, <1>3, <1>4, <3>1
      <3>3. QED
        BY <1>2, <1>3, <1>4, <3>1, <3>2
    <2>2. CASE near[y] # x
      <3>1. near2[y] = near[y] /\ near[y] \in H \ {x} /\ parent[near[y]] = y /\ near[y] # far[y]
        BY <1>1, <1>2, <1>4, <2>2
      <3>2. near[y] # c
        BY <1>3, <1>4, <3>1
      <3>3. QED
        BY <1>2, <3>1, <3>2
    <2>3. QED
      BY <2>1, <2>2
  <1>5. ASSUME NEW y \in H \ {x}, far2[y] # Null
        PROVE  far2[y] \in H \ {x} /\ parent2[far2[y]] = y
    <2>1. CASE far[y] = x
      BY <1>1, <1>2, <1>3, <1>5, <2>1
    <2>2. CASE far[y] # x
      <3>1. far2[y] = far[y] /\ far[y] \in H \ {x} /\ parent[far[y]] = y
        BY <1>1, <1>2, <1>5, <2>2
      <3>2. far[y] # c
        BY <1>3, <1>5, <3>1
      <3>3. QED
        BY <1>2, <3>1, <3>2
    <2>3. QED
      BY <2>1, <2>2
  <1>6. ASSUME NEW y \in H \ {x}
        PROVE  /\ parent2[y] = Null => y = root2
               /\ parent2[y] # Null => /\ parent2[y] \in H \ {x}
                                       /\ y \in {near2[parent2[y]], far2[parent2[y]]}
    <2>1. CASE y = c
      <3>1. parent2[y] = parent[x] /\ c # Null
        BY <1>1, <1>2, <2>1
      <3>2. parent[x] = Null => root = x /\ root2 = c
        BY <1>1 DEF Detached, c
      <3>3. parent[x] # Null => parent[x] \in H \ {x} /\ x \in {near[parent[x]], far[parent[x]]}
        BY <1>1
      <3>4. QED
        BY <1>2, <2>1, <3>1, <3>2, <3>3
    <2>2. CASE y # c
      <3>1. parent2[y] = parent[y]
        BY <1>2, <2>2
      <3>2. parent[y] = Null => y = root /\ root # x
        BY <1>1
      <3>3. parent[y] # Null => parent[y] \in H /\ y \in {near[parent[y]], far[parent[y]]}
        BY <1>1
      <3>4. parent[y] # x
        BY <1>1, <2>2, <3>3 DEF c
      <3>5. root # x => root2 = root
        BY DEF Detached
      <3>6. QED
        BY <1>2, <3>1, <3>2, <3>3, <3>4, <3>5
    <2>3. QED
      BY <2>1, <2>2
  <1>7. /\ root2 \in (H \ {x}) \cup {Null} /\ (root2 = Null => H \ {x} = {})
        /\ root2 # Null => parent2[root2] = Null
    <2>1. CASE root = x
      BY <1>1, <1>3, <2>1 DEF Detached, c
    <2>2. CASE root # x
      <3>1. root2 = root /\ root # Null
        BY <1>1, <2>2 DEF Detached
      <3>2. root # c
        BY <1>1, <1>3
      <3>3. QED
        BY <1>1, <1>2, <2>2, <3>1, <3>2
    <2>3. QED
      BY <2>1, <2>2
  <1>8. QED
    BY <1>1, <1>4, <1>5, <1>6, <1>7 DEF Shape, Detached

\* The bounds of a node without a far child: no other bound or key is between its key
\* and its upper bound.
LEMMA FarGap ==
  ASSUME NEW root, NEW near, NEW far, NEW H, NEW key, NEW lo, NEW hi,
         Spans(root, near, far, H, key, lo, hi), NEW x \in H, far[x] = Null,
         NEW z \in H, z # x
  PROVE  /\ key[z] # key[x]
         /\ key[z] > key[x] => key[z] >= hi[x]
         /\ hi[z] > key[x] => hi[z] >= hi[x]
         /\ lo[z] >= key[x] => lo[z] >= hi[x]
  <1>1. /\ key[x] \in Int /\ lo[x] \in Int /\ hi[x] \in Int /\ lo[x] < key[x] /\ key[x] < hi[x]
        /\ key[z] \in Int /\ lo[z] \in Int /\ hi[z] \in Int /\ lo[z] < key[z] /\ key[z] < hi[z]
    BY DEF Spans
  <1>2. ~(key[x] < key[z] /\ key[z] < hi[x])
    BY DEF Spans
  <1>3. Laminar(key, lo, hi, x, z)
    BY DEF Spans
  <1>4. QED
    BY <1>1, <1>2, <1>3 DEF Laminar

DetachedBounds(H, key, hi, x, hi2) == \A y \in H : hi2[y] = IF hi[y] = key[x] THEN hi[x] ELSE hi[y]

\* The keys of the others stay in order.
LEMMA DetachedSpans ==
  ASSUME NEW root, NEW near, NEW far, NEW parent, NEW H, Shape(root, near, far, parent, H),
         NEW key, NEW lo, NEW hi, Spans(root, near, far, H, key, lo, hi),
         NEW x \in H, far[x] = Null, H # {x},
         NEW root2, NEW near2, NEW far2, NEW parent2,
         Detached(root, near, far, parent, H, x, root2, near2, far2, parent2),
         NEW hi2, DetachedBounds(H, key, hi, x, hi2)
  PROVE  Spans(root2, near2, far2, H \ {x}, key, lo, hi2)
  <1> USE DEF DetachedBounds
  <1> DEFINE c == near[x]
  <1>1. /\ \A y \in H : key[y] \in Int /\ lo[y] \in Int /\ hi[y] \in Int /\ lo[y] < key[y] /\ key[y] < hi[y]
        /\ \A y \in H : near[y] # Null => near[y] \in H /\ lo[near[y]] = lo[y] /\ hi[near[y]] = key[y]
        /\ \A y \in H : far[y] # Null => far[y] \in H /\ lo[far[y]] = key[y] /\ hi[far[y]] = hi[y]
        /\ H \subseteq Blocks /\ Null \notin H
    BY NullAssumption DEF Shape, Spans
  <1>2. \A y \in H \ {x} : /\ key[y] # key[x]
                           /\ key[y] > key[x] => key[y] >= hi[x]
                           /\ hi[y] > key[x] => hi[y] >= hi[x]
                           /\ lo[y] >= key[x] => lo[y] >= hi[x]
    BY FarGap
  <1>3. /\ \A y \in H \ {x} : near2[y] = IF near[y] = x THEN c ELSE near[y]
        /\ \A y \in H \ {x} : far2[y] = IF far[y] = x THEN c ELSE far[y]
    BY <1>1 DEF Detached
  <1>4. c # Null => c \in H \ {x} /\ lo[c] = lo[x] /\ hi[c] = key[x] /\ hi2[c] = hi[x]
    <2>1. c # Null => c \in H /\ lo[c] = lo[x] /\ hi[c] = key[x]
      BY <1>1
    <2>2. c # Null => c # x
      BY <1>1, <2>1
    <2>3. QED
      BY <2>1, <2>2
  <1> HIDE DEF c
  <1>5. ASSUME NEW y \in H \ {x}
        PROVE  /\ hi2[y] \in Int /\ key[y] < hi2[y]
               /\ hi[y] = key[x] => hi2[y] = hi[x]
               /\ hi[y] # key[x] => hi2[y] = hi[y]
    <2>1. /\ hi[y] = key[x] => hi2[y] = hi[x]
          /\ hi[y] # key[x] => hi2[y] = hi[y]
      OBVIOUS
    <2>2. key[y] \in Int /\ hi[y] \in Int /\ key[y] < hi[y] /\ key[x] \in Int /\ hi[x] \in Int /\ key[x] < hi[x]
      BY <1>1
    <2>3. QED
      BY <2>1, <2>2
  <1>6. ASSUME NEW y \in H \ {x}, near2[y] # Null
        PROVE  lo[near2[y]] = lo[y] /\ hi2[near2[y]] = key[y]
    <2>1. CASE near[y] = x
      <3>1. lo[x] = lo[y] /\ hi[x] = key[y] /\ near2[y] = c
        BY <1>1, <1>3, <2>1
      <3>2. QED
        BY <1>4, <1>6, <3>1
    <2>2. CASE near[y] # x
      <3>1. near2[y] = near[y] /\ near[y] \in H \ {x} /\ lo[near[y]] = lo[y] /\ hi[near[y]] = key[y]
        BY <1>1, <1>3, <1>6, <2>2
      <3>2. key[y] # key[x]
        BY <1>2
      <3>3. QED
        BY <1>5, <3>1, <3>2
    <2>3. QED
      BY <2>1, <2>2
  <1>7. ASSUME NEW y \in H \ {x}, far2[y] # Null
        PROVE  lo[far2[y]] = key[y] /\ hi2[far2[y]] = hi2[y]
    <2>1. CASE far[y] = x
      <3>1. lo[x] = key[y] /\ hi[x] = hi[y] /\ far2[y] = c
        BY <1>1, <1>3, <2>1
      <3>2. hi[y] # key[x]
        BY <1>1, <3>1
      <3>3. QED
        BY <1>4, <1>5, <1>7, <3>1, <3>2
    <2>2. CASE far[y] # x
      <3>1. far2[y] = far[y] /\ far[y] \in H \ {x} /\ lo[far[y]] = key[y] /\ hi[far[y]] = hi[y]
        BY <1>1, <1>3, <1>7, <2>2
      <3>2. QED
        BY <1>5, <3>1
    <2>3. QED
      BY <2>1, <2>2
  <1>8. ASSUME NEW y \in H \ {x}, NEW z \in H \ {x}
        PROVE  /\ near2[y] = Null => ~(lo[y] < key[z] /\ key[z] < key[y])
               /\ far2[y] = Null => ~(key[y] < key[z] /\ key[z] < hi2[y])
    <2>1. /\ key[y] \in Int /\ lo[y] \in Int /\ hi[y] \in Int /\ key[z] \in Int /\ key[x] \in Int
          /\ lo[x] \in Int /\ hi[x] \in Int
      BY <1>1
    <2>2. near[y] = Null => ~(lo[y] < key[z] /\ key[z] < key[y])
      BY DEF Spans
    <2>3. far[y] = Null => ~(key[y] < key[z] /\ key[z] < hi[y])
      BY DEF Spans
    <2>4. c = Null => ~(lo[x] < key[z] /\ key[z] < key[x])
      BY DEF Spans, c
    <2>5. key[z] # key[x] /\ (key[z] > key[x] => key[z] >= hi[x])
      BY <1>2
    <2>6. near[y] = x => lo[x] = lo[y] /\ hi[x] = key[y]
      BY <1>1
    <2>7. far[y] = x => lo[x] = key[y] /\ hi[x] = hi[y]
      BY <1>1
    <2>8. near2[y] = Null => near[y] = Null \/ (near[y] = x /\ c = Null)
      BY <1>3
    <2>9. far2[y] = Null => far[y] = Null \/ (far[y] = x /\ c = Null)
      BY <1>3
    <2>10. near2[y] = Null => ~(lo[y] < key[z] /\ key[z] < key[y])
      BY <2>1, <2>2, <2>4, <2>5, <2>6, <2>8
    <2>11. far2[y] = Null => ~(key[y] < key[z] /\ key[z] < hi2[y])
      <3>1. ASSUME far[y] = Null
            PROVE  ~(key[y] < key[z] /\ key[z] < hi2[y])
        BY <1>5, <2>1, <2>3, <2>5, <3>1
      <3>2. ASSUME far[y] = x, c = Null
            PROVE  ~(key[y] < key[z] /\ key[z] < hi2[y])
        <4>1. hi2[y] = hi[x] /\ lo[x] = key[y]
          BY <1>1, <1>5, <2>7, <3>2
        <4>2. QED
          BY <2>1, <2>4, <2>5, <3>2, <4>1
      <3>3. QED
        BY <2>9, <3>1, <3>2
    <2>12. QED
      BY <2>10, <2>11
  <1>9. ASSUME NEW y \in H \ {x}, NEW z \in H \ {x}, y # z
        PROVE  Laminar(key, lo, hi2, y, z)
    <2>1. Laminar(key, lo, hi, y, z)
      BY <1>9 DEF Spans
    <2>2. /\ key[y] \in Int /\ lo[y] \in Int /\ hi[y] \in Int /\ key[z] \in Int /\ lo[z] \in Int /\ hi[z] \in Int
          /\ key[x] \in Int /\ hi[x] \in Int /\ key[x] < hi[x]
      BY <1>1
    <2>3. /\ key[y] # key[x] /\ (key[y] > key[x] => key[y] >= hi[x])
          /\ (hi[y] > key[x] => hi[y] >= hi[x]) /\ (lo[y] >= key[x] => lo[y] >= hi[x])
      BY <1>2
    <2>4. /\ key[z] # key[x] /\ (key[z] > key[x] => key[z] >= hi[x])
          /\ (hi[z] > key[x] => hi[z] >= hi[x]) /\ (lo[z] >= key[x] => lo[z] >= hi[x])
      BY <1>2
    <2>5. /\ hi[y] = key[x] => hi2[y] = hi[x]
          /\ hi[y] # key[x] => hi2[y] = hi[y]
          /\ hi[z] = key[x] => hi2[z] = hi[x]
          /\ hi[z] # key[x] => hi2[z] = hi[z]
      BY <1>5
    <2>6. hi2[y] \in Int /\ hi2[z] \in Int
      BY <1>5
    <2>7. QED
      BY <2>1, <2>2, <2>3, <2>4, <2>5, <2>6 DEF Laminar
  <1>10. ASSUME NEW y \in H \ {x}
         PROVE  lo[root2] <= lo[y] /\ hi2[y] <= hi2[root2]
    <2>1. /\ root \in H /\ lo[root] <= lo[y] /\ hi[y] <= hi[root] /\ hi[x] <= hi[root]
      BY DEF Shape, Spans
    <2>2. hi2[y] <= hi[root]
      BY <1>1, <1>5, <2>1
    <2>3. CASE root # x
      <3>1. root2 = root /\ hi[root] # key[x]
        BY <1>1, <2>1, <2>3 DEF Detached
      <3>2. QED
        BY <1>5, <2>1, <2>2, <2>3, <3>1
    <2>4. CASE root = x
      <3>1. root2 = c
        BY <2>4 DEF Detached, c
      <3>2. c # Null
        <4>1. c = Null => ~(lo[x] < key[y] /\ key[y] < key[x]) /\ ~(key[x] < key[y] /\ key[y] < hi[x])
          BY DEF Spans, c
        <4>2. /\ lo[x] \in Int /\ key[x] \in Int /\ hi[x] \in Int /\ lo[y] \in Int /\ key[y] \in Int /\ hi[y] \in Int
              /\ lo[y] < key[y] /\ key[y] < hi[y]
          BY <1>1
        <4>3. key[y] # key[x]
          BY <1>2
        <4>4. QED
          BY <2>1, <2>4, <4>1, <4>2, <4>3
      <3>3. QED
        BY <1>4, <2>1, <2>2, <2>4, <3>1, <3>2
    <2>5. QED
      BY <2>3, <2>4
  <1>11. QED
    BY <1>1, <1>5, <1>6, <1>7, <1>8, <1>9, <1>10 DEF Spans

\* The nodes change their names.
Renaming(sw, H) ==
  /\ sw \in [Pointer -> Pointer] /\ sw[Null] = Null
  /\ \A x \in Pointer : sw[sw[x]] = x
  /\ \A x \in H : sw[x] \in H

Renamed(sw, root, near, far, parent, H, root2, near2, far2, parent2) ==
  /\ root2 = sw[root]
  /\ near2 \in [Blocks -> Pointer] /\ far2 \in [Blocks -> Pointer] /\ parent2 \in [Blocks -> Pointer]
  /\ \A x \in H : near2[x] = sw[near[sw[x]]] /\ far2[x] = sw[far[sw[x]]] /\ parent2[x] = sw[parent[sw[x]]]

\* Nodes that change places leave a binary tree.
LEMMA RenamedShape ==
  ASSUME NEW root, NEW near, NEW far, NEW parent, NEW H, Shape(root, near, far, parent, H),
         NEW sw, Renaming(sw, H), NEW root2, NEW near2, NEW far2, NEW parent2,
         Renamed(sw, root, near, far, parent, H, root2, near2, far2, parent2)
  PROVE  Shape(root2, near2, far2, parent2, H)
  <1>1. /\ H \subseteq Blocks /\ Null \notin H /\ H \subseteq Pointer /\ Null \in Pointer
        /\ near \in [Blocks -> Pointer] /\ far \in [Blocks -> Pointer] /\ parent \in [Blocks -> Pointer]
        /\ root \in H \cup {Null} /\ (root = Null => H = {}) /\ (root # Null => parent[root] = Null)
    BY NullAssumption DEF Shape, Pointer
  <1>2. /\ \A x \in Pointer : sw[x] \in Pointer /\ sw[sw[x]] = x
        /\ sw[Null] = Null /\ \A x \in H : sw[x] \in H
    BY DEF Renaming
  <1>3. \A x \in Pointer : sw[x] = Null => x = Null
    BY <1>1, <1>2
  <1>4. ASSUME NEW x \in H
        PROVE  /\ near2[x] # Null => near2[x] \in H /\ parent2[near2[x]] = x /\ near2[x] # far2[x]
               /\ far2[x] # Null => far2[x] \in H /\ parent2[far2[x]] = x
    <2> DEFINE y == sw[x]
    <2>1. y \in H /\ sw[y] = x /\ near[y] \in Pointer /\ far[y] \in Pointer
      BY <1>1, <1>2
    <2>2. near2[x] = sw[near[y]] /\ far2[x] = sw[far[y]]
      BY DEF Renamed
    <2>3. /\ near[y] # Null => near[y] \in H /\ parent[near[y]] = y /\ near[y] # far[y]
          /\ far[y] # Null => far[y] \in H /\ parent[far[y]] = y
      BY <2>1 DEF Shape
    <2> HIDE DEF y
    <2>4. near2[x] # Null => near2[x] \in H /\ parent2[near2[x]] = x
      <3>1. ASSUME near2[x] # Null
            PROVE  near[y] # Null
        BY <1>2, <2>2, <3>1
      <3>2. ASSUME near[y] # Null
            PROVE  sw[near[y]] \in H /\ parent2[sw[near[y]]] = sw[parent[near[y]]]
        <4>1. near[y] \in H /\ sw[near[y]] \in H /\ sw[sw[near[y]]] = near[y]
          BY <1>1, <1>2, <2>3, <3>2
        <4>2. QED
          BY <4>1 DEF Renamed
      <3>3. QED
        BY <2>1, <2>2, <2>3, <3>1, <3>2
    <2>5. far2[x] # Null => far2[x] \in H /\ parent2[far2[x]] = x
      <3>1. ASSUME far2[x] # Null
            PROVE  far[y] # Null
        BY <1>2, <2>2, <3>1
      <3>2. ASSUME far[y] # Null
            PROVE  sw[far[y]] \in H /\ parent2[sw[far[y]]] = sw[parent[far[y]]]
        <4>1. far[y] \in H /\ sw[far[y]] \in H /\ sw[sw[far[y]]] = far[y]
          BY <1>1, <1>2, <2>3, <3>2
        <4>2. QED
          BY <4>1 DEF Renamed
      <3>3. QED
        BY <2>1, <2>2, <2>3, <3>1, <3>2
    <2>6. near2[x] # Null => near2[x] # far2[x]
      <3>1. near[y] = sw[near2[x]] /\ far[y] = sw[far2[x]]
        BY <1>2, <2>1, <2>2
      <3>2. near2[x] # Null => near[y] # Null
        BY <1>2, <2>2
      <3>3. QED
        BY <2>3, <3>1, <3>2
    <2>7. QED
      BY <2>4, <2>5, <2>6
  <1>5. ASSUME NEW x \in H
        PROVE  /\ parent2[x] = Null => x = root2
               /\ parent2[x] # Null => parent2[x] \in H /\ x \in {near2[parent2[x]], far2[parent2[x]]}
    <2> DEFINE y == sw[x]
    <2>1. y \in H /\ sw[y] = x /\ parent[y] \in Pointer /\ parent2[x] = sw[parent[y]]
      BY <1>1, <1>2 DEF Renamed
    <2> HIDE DEF y
    <2>2. parent2[x] = Null => parent[y] = Null
      BY <1>3, <2>1
    <2>3. parent[y] = Null => y = root
      BY <2>1 DEF Shape
    <2>4. root2 = sw[root]
      BY DEF Renamed
    <2>5. ASSUME parent2[x] # Null
          PROVE  parent2[x] \in H /\ x \in {near2[parent2[x]], far2[parent2[x]]}
      <3> DEFINE q == parent[y]
      <3>1. q # Null
        BY <1>2, <2>1, <2>5
      <3>2. q \in H /\ y \in {near[q], far[q]}
        BY <2>1, <3>1 DEF Shape
      <3> HIDE DEF q
      <3>3. sw[q] \in H /\ sw[sw[q]] = q
        BY <1>1, <1>2, <3>2
      <3>4. near2[sw[q]] = sw[near[q]] /\ far2[sw[q]] = sw[far[q]]
        BY <3>3 DEF Renamed
      <3>5. QED
        BY <2>1, <3>2, <3>3, <3>4 DEF q
    <2>6. QED
      BY <2>1, <2>2, <2>3, <2>4, <2>5
  <1>6. /\ root2 \in H \cup {Null} /\ (root2 = Null => H = {})
        /\ root2 # Null => parent2[root2] = Null
    <2>1. CASE root = Null
      BY <1>1, <1>2, <2>1 DEF Renamed
    <2>2. CASE root \in H
      <3>1. root2 = sw[root] /\ sw[root] \in H /\ sw[sw[root]] = root
        BY <1>1, <1>2, <2>2 DEF Renamed
      <3>2. parent2[root2] = sw[parent[root]]
        BY <3>1 DEF Renamed
      <3>3. QED
        BY <1>1, <1>2, <2>2, <3>1, <3>2
    <2>3. QED
      BY <1>1, <2>1, <2>2
  <1>7. near2 \in [Blocks -> Pointer] /\ far2 \in [Blocks -> Pointer] /\ parent2 \in [Blocks -> Pointer]
    BY DEF Renamed
  <1>8. QED
    BY <1>1, <1>4, <1>5, <1>6, <1>7 DEF Shape

RenamedKeys(sw, H, key, lo, hi, key2, lo2, hi2) ==
  \A x \in H : key2[x] = key[sw[x]] /\ lo2[x] = lo[sw[x]] /\ hi2[x] = hi[sw[x]]

\* The keys stay at the places, not at the nodes.
LEMMA RenamedSpans ==
  ASSUME NEW root, NEW near, NEW far, NEW parent, NEW H, Shape(root, near, far, parent, H),
         NEW key, NEW lo, NEW hi, Spans(root, near, far, H, key, lo, hi),
         NEW sw, Renaming(sw, H), NEW root2, NEW near2, NEW far2, NEW parent2,
         Renamed(sw, root, near, far, parent, H, root2, near2, far2, parent2),
         NEW key2, NEW lo2, NEW hi2, RenamedKeys(sw, H, key, lo, hi, key2, lo2, hi2)
  PROVE  Spans(root2, near2, far2, H, key2, lo2, hi2)
  <1> USE DEF RenamedKeys
  <1>1. /\ H \subseteq Blocks /\ Null \notin H /\ H \subseteq Pointer /\ Null \in Pointer
        /\ near \in [Blocks -> Pointer] /\ far \in [Blocks -> Pointer]
        /\ H # {} => root \in H
    BY NullAssumption DEF Shape, Pointer
  <1>2. /\ \A x \in Pointer : sw[x] \in Pointer /\ sw[sw[x]] = x
        /\ sw[Null] = Null /\ \A x \in H : sw[x] \in H
    BY DEF Renaming
  <1>3. ASSUME NEW x \in H
        PROVE  /\ key2[x] \in Int /\ lo2[x] \in Int /\ hi2[x] \in Int /\ lo2[x] < key2[x] /\ key2[x] < hi2[x]
               /\ lo2[root2] <= lo2[x] /\ hi2[x] <= hi2[root2]
    <2> DEFINE y == sw[x]
    <2>1. y \in H /\ key2[x] = key[y] /\ lo2[x] = lo[y] /\ hi2[x] = hi[y]
      BY <1>2
    <2> HIDE DEF y
    <2>2. root \in H /\ lo2[root2] = lo[root] /\ hi2[root2] = hi[root]
      <3>1. root \in H
        BY <1>1
      <3>2. root2 = sw[root] /\ root2 \in H /\ sw[root2] = root
        BY <1>1, <1>2, <3>1 DEF Renamed
      <3>3. QED
        BY <3>1, <3>2
    <2>3. /\ key[y] \in Int /\ lo[y] \in Int /\ hi[y] \in Int /\ lo[y] < key[y] /\ key[y] < hi[y]
          /\ lo[root] <= lo[y] /\ hi[y] <= hi[root]
      BY <2>1 DEF Spans
    <2>4. QED
      BY <2>1, <2>2, <2>3
  <1>4. ASSUME NEW x \in H
        PROVE  /\ near2[x] # Null => lo2[near2[x]] = lo2[x] /\ hi2[near2[x]] = key2[x]
               /\ far2[x] # Null => lo2[far2[x]] = key2[x] /\ hi2[far2[x]] = hi2[x]
               /\ near2[x] = Null <=> near[sw[x]] = Null
               /\ far2[x] = Null <=> far[sw[x]] = Null
    <2> DEFINE y == sw[x]
    <2>1. y \in H /\ key2[x] = key[y] /\ lo2[x] = lo[y] /\ hi2[x] = hi[y]
      BY <1>2
    <2>2. near2[x] = sw[near[y]] /\ far2[x] = sw[far[y]]
      BY DEF Renamed
    <2>3. near[y] \in Pointer /\ far[y] \in Pointer
      BY <1>1, <2>1
    <2>4. (near2[x] = Null <=> near[y] = Null) /\ (far2[x] = Null <=> far[y] = Null)
      BY <1>2, <2>2, <2>3
    <2> HIDE DEF y
    <2>5. ASSUME near[y] # Null
          PROVE  lo2[near2[x]] = lo2[x] /\ hi2[near2[x]] = key2[x]
      <3>1. near[y] \in H /\ lo[near[y]] = lo[y] /\ hi[near[y]] = key[y]
        BY <2>1, <2>5 DEF Shape, Spans
      <3>2. near2[x] \in H /\ sw[near2[x]] = near[y]
        BY <1>1, <1>2, <2>2, <3>1
      <3>3. lo2[near2[x]] = lo[near[y]] /\ hi2[near2[x]] = hi[near[y]]
        BY <3>2
      <3>4. QED
        BY <2>1, <3>1, <3>3
    <2>6. ASSUME far[y] # Null
          PROVE  lo2[far2[x]] = key2[x] /\ hi2[far2[x]] = hi2[x]
      <3>1. far[y] \in H /\ lo[far[y]] = key[y] /\ hi[far[y]] = hi[y]
        BY <2>1, <2>6 DEF Shape, Spans
      <3>2. far2[x] \in H /\ sw[far2[x]] = far[y]
        BY <1>1, <1>2, <2>2, <3>1
      <3>3. lo2[far2[x]] = lo[far[y]] /\ hi2[far2[x]] = hi[far[y]]
        BY <3>2
      <3>4. QED
        BY <2>1, <3>1, <3>3
    <2>7. QED
      BY <2>4, <2>5, <2>6 DEF y
  <1>5. ASSUME NEW x \in H, NEW z \in H
        PROVE  /\ near2[x] = Null => ~(lo2[x] < key2[z] /\ key2[z] < key2[x])
               /\ far2[x] = Null => ~(key2[x] < key2[z] /\ key2[z] < hi2[x])
               /\ x # z => Laminar(key2, lo2, hi2, x, z)
    <2> DEFINE y == sw[x]
               w == sw[z]
    <2>1. y \in H /\ key2[x] = key[y] /\ lo2[x] = lo[y] /\ hi2[x] = hi[y]
      BY <1>2
    <2>2. w \in H /\ key2[z] = key[w] /\ lo2[z] = lo[w] /\ hi2[z] = hi[w]
      BY <1>2
    <2>3. (near2[x] = Null <=> near[y] = Null) /\ (far2[x] = Null <=> far[y] = Null)
      BY <1>4
    <2>4. x # z => y # w
      BY <1>1, <1>2
    <2> HIDE DEF y, w
    <2>5. x # z => Laminar(key2, lo2, hi2, x, z)
      <3>1. ASSUME x # z
            PROVE  Laminar(key, lo, hi, y, w)
        BY <2>1, <2>2, <2>4, <3>1 DEF Spans
      <3>2. QED
        BY <2>1, <2>2, <3>1 DEF Laminar
    <2>6. QED
      BY <2>1, <2>2, <2>3, <2>5 DEF Spans
  <1>6. QED
    BY <1>3, <1>4, <1>5 DEF Spans

-----------------------------------------------------------------------------
(***************************************************************************)
(* The operations on the nodes, field by field.                            *)
(***************************************************************************)
Fields   == {"left", "right", "parent", "next", "previous"}
Balances == {"allocated", "equal", "left", "right"}
TreeType == [root : Pointer, node : [Blocks -> NodeType], balance : [Blocks -> Balances]]

\* The pointers of a node.
LEMMA FieldTypes ==
  ASSUME NEW t \in TreeType, NEW x \in Blocks, NEW f \in Fields
  PROVE  t.node[x] \in NodeType /\ t.node[x][f] \in Pointer
  <1>1. t.node[x] \in NodeType
    BY DEF TreeType
  <1>2. QED
    BY <1>1 DEF NodeType, Fields

\* A new node points nowhere.
LEMMA NewNodeType == NewNode \in NodeType /\ \A f \in Fields : NewNode[f] = Null
  BY DEF NewNode, NodeType, Pointer, Fields

\* There are two sides.
LEMMA SideFields == /\ Sides \subseteq Fields /\ Sides \subseteq Balances
                    /\ \A side \in Sides : Other(side) \in Sides /\ Other(side) # side /\ Other(Other(side)) = side
                    /\ \A side, f \in Sides : f = side \/ f = Other(side)
  BY DEF Sides, Fields, Balances, Other

\* A tree that differs from t in its nodes.
LEMMA NodeUpdate ==
  ASSUME NEW t \in TreeType, NEW h \in Blocks, NEW n \in NodeType
  PROVE  /\ [t EXCEPT !.node[h] = n] \in TreeType
         /\ [t EXCEPT !.node[h] = n].root = t.root
         /\ [t EXCEPT !.node[h] = n].balance = t.balance
         /\ [t EXCEPT !.node[h] = n].node[h] = n
         /\ \A x \in Blocks \ {h} : [t EXCEPT !.node[h] = n].node[x] = t.node[x]
  BY DEF TreeType

\* Writing one pointer of a node.
LEMMA FieldUpdate ==
  ASSUME NEW n \in NodeType, NEW f \in Fields, NEW v \in Pointer
  PROVE  /\ [n EXCEPT ![f] = v] \in NodeType
         /\ \A g \in Fields : [n EXCEPT ![f] = v][g] = IF g = f THEN v ELSE n[g]
  <1>1. CASE f = "left"
    BY <1>1 DEF NodeType, Fields
  <1>2. CASE f = "right"
    BY <1>2 DEF NodeType, Fields
  <1>3. CASE f = "parent"
    BY <1>3 DEF NodeType, Fields
  <1>4. CASE f = "next"
    BY <1>4 DEF NodeType, Fields
  <1>5. CASE f = "previous"
    BY <1>5 DEF NodeType, Fields
  <1>6. QED
    BY <1>1, <1>2, <1>3, <1>4, <1>5 DEF Fields

\* u is t but for one member of one header.
IsSet(t, u, h, f, v) ==
  /\ u \in TreeType /\ u.root = t.root /\ u.balance = t.balance
  /\ \A x \in Blocks : \A g \in Fields : u.node[x][g] = IF x = h /\ g = f THEN v ELSE t.node[x][g]

\* u is t with the balance v at h.
IsBalanced(t, u, h, v) ==
  /\ u \in TreeType /\ u.root = t.root /\ u.node = t.node
  /\ \A x \in Blocks : u.balance[x] = IF x = h THEN v ELSE t.balance[x]

\* u is t with a new node at h, which is marked allocated.
IsLeft(t, u, h) ==
  /\ u \in TreeType /\ u.root = t.root
  /\ \A x \in Blocks : u.balance[x] = IF x = h THEN "allocated" ELSE t.balance[x]
  /\ \A x \in Blocks : \A g \in Fields : u.node[x][g] = IF x = h THEN Null ELSE t.node[x][g]

\* u is t with child in the place of its parent top, and inner between them.
IsRotated(t, u, side, top, child, inner, parent) ==
  /\ u \in TreeType
  /\ u.root = IF parent = Null THEN child ELSE t.root
  /\ u.balance = t.balance
  /\ \A x \in Blocks : \A g \in {"next", "previous"} : u.node[x][g] = t.node[x][g]
  /\ \A x \in Blocks : u.node[x].parent =
       IF x = child THEN parent ELSE IF x = top THEN child ELSE IF x = inner THEN top
       ELSE t.node[x].parent
  /\ \A x \in Blocks : \A s \in Sides : u.node[x][s] =
       IF x = child /\ s = side THEN top ELSE IF x = top /\ s = Other(side) THEN inner
       ELSE IF x = parent /\ s = Side(t, parent, top) THEN child ELSE t.node[x][s]

\* Set writes one pointer, and nothing through a null pointer.
LEMMA SetFields ==
  ASSUME NEW t \in TreeType, NEW h \in Pointer, NEW f \in Fields, NEW v \in Pointer
  PROVE  IsSet(t, Set(t, h, f, v), h, f, v)
  <1>1. CASE h = Null
    <2>1. Set(t, h, f, v) = t
      BY <1>1 DEF Set
    <2>2. QED
      BY <1>1, <2>1, NullAssumption DEF IsSet
  <1>2. CASE h # Null
    <2> DEFINE n == [t.node[h] EXCEPT ![f] = v]
               u == [t EXCEPT !.node[h] = n]
    <2>1. h \in Blocks
      BY <1>2 DEF Pointer
    <2>2. n \in NodeType /\ \A g \in Fields : n[g] = IF g = f THEN v ELSE t.node[h][g]
      BY <2>1, FieldTypes, FieldUpdate
    <2>3. Set(t, h, f, v) = u
      BY <1>2, <2>1 DEF Set, TreeType
    <2> HIDE DEF n
    <2>4. /\ u \in TreeType /\ u.root = t.root /\ u.balance = t.balance /\ u.node[h] = n
          /\ \A x \in Blocks \ {h} : u.node[x] = t.node[x]
      BY <2>1, <2>2, NodeUpdate
    <2> HIDE DEF u
    <2>5. ASSUME NEW x \in Blocks, NEW g \in Fields
          PROVE  u.node[x][g] = IF x = h /\ g = f THEN v ELSE t.node[x][g]
      BY <2>2, <2>4
    <2>6. QED
      BY <2>3, <2>4, <2>5 DEF IsSet
  <1>3. QED
    BY <1>1, <1>2

\* A child is on one of the two sides.
LEMMA SideType ==
  ASSUME NEW t, NEW p, NEW c
  PROVE  Side(t, p, c) \in Sides
  BY DEF Side, Sides

\* Relink writes the link of the parent, or the root.
LEMMA RelinkFields ==
  ASSUME NEW t \in TreeType, NEW p \in Pointer, NEW old, NEW new \in Pointer
  PROVE  /\ Relink(t, p, old, new) \in TreeType
         /\ Relink(t, p, old, new).root = IF p = Null THEN new ELSE t.root
         /\ Relink(t, p, old, new).balance = t.balance
         /\ \A x \in Blocks : \A g \in Fields :
              Relink(t, p, old, new).node[x][g] = IF x = p /\ g = Side(t, p, old) THEN new ELSE t.node[x][g]
  <1>1. CASE p = Null
    <2>1. Relink(t, p, old, new) = [t EXCEPT !.root = new]
      BY <1>1 DEF Relink
    <2>2. /\ [t EXCEPT !.root = new] \in TreeType /\ [t EXCEPT !.root = new].root = new
          /\ [t EXCEPT !.root = new].balance = t.balance
          /\ [t EXCEPT !.root = new].node = t.node
      BY DEF TreeType
    <2>3. QED
      BY <1>1, <2>1, <2>2, NullAssumption
  <1>2. CASE p # Null
    <2>1. Relink(t, p, old, new) = Set(t, p, Side(t, p, old), new)
      BY <1>2 DEF Relink, Side
    <2>2. Side(t, p, old) \in Fields
      BY SideType, SideFields
    <2>3. QED
      BY <1>2, <2>1, <2>2, SetFields DEF IsSet
  <1>3. QED
    BY <1>1, <1>2

\* SetBalance writes the bits of one block.
LEMMA SetBalanceFields ==
  ASSUME NEW t \in TreeType, NEW h \in Blocks, NEW v \in Balances
  PROVE  /\ SetBalance(t, h, v) \in TreeType
         /\ SetBalance(t, h, v).root = t.root /\ SetBalance(t, h, v).node = t.node
         /\ \A x \in Blocks : SetBalance(t, h, v).balance[x] = IF x = h THEN v ELSE t.balance[x]
  BY DEF SetBalance, TreeType

\* The same in a word.
LEMMA SetBalanceIs ==
  ASSUME NEW t \in TreeType, NEW h \in Blocks, NEW v \in Balances
  PROVE  IsBalanced(t, SetBalance(t, h, v), h, v)
  BY SetBalanceFields DEF IsBalanced

\* A block that leaves has a new node and is marked allocated.
LEMMA LeaveFields ==
  ASSUME NEW t \in TreeType, NEW h \in Blocks
  PROVE  /\ Leave(t, h) \in TreeType /\ Leave(t, h).root = t.root
         /\ \A x \in Blocks : Leave(t, h).balance[x] = IF x = h THEN "allocated" ELSE t.balance[x]
         /\ \A x \in Blocks : \A g \in Fields :
              Leave(t, h).node[x][g] = IF x = h THEN Null ELSE t.node[x][g]
  <1> DEFINE u == [t EXCEPT !.node[h] = NewNode]
  <1>1. /\ u \in TreeType /\ u.root = t.root /\ u.balance = t.balance /\ u.node[h] = NewNode
        /\ \A x \in Blocks \ {h} : u.node[x] = t.node[x]
    BY NewNodeType, NodeUpdate
  <1>2. Leave(t, h) = SetBalance(u, h, "allocated")
    BY DEF Leave, SetBalance
  <1> HIDE DEF u
  <1>3. "allocated" \in Balances
    BY DEF Balances
  <1>4. QED
    BY <1>1, <1>2, <1>3, SetBalanceFields, NewNodeType

\* The same in a word.
LEMMA LeaveIs ==
  ASSUME NEW t \in TreeType, NEW h \in Blocks
  PROVE  IsLeft(t, Leave(t, h), h)
  BY LeaveFields DEF IsLeft

\* What a rotation writes: child comes above top, and inner changes its parent.
LEMMA RotateFields ==
  ASSUME NEW t \in TreeType, NEW side \in Sides, NEW top \in Blocks, NEW child, NEW inner, NEW parent,
         child = t.node[top][Other(side)], child # Null, inner = t.node[child][side],
         parent = t.node[top].parent,
         child # top, inner \notin {top, child}, parent \notin {top, child}
  PROVE  /\ Rotate(t, side, top) \in TreeType
         /\ Rotate(t, side, top).root = IF parent = Null THEN child ELSE t.root
         /\ Rotate(t, side, top).balance = t.balance
         /\ \A x \in Blocks : \A g \in {"next", "previous"} : Rotate(t, side, top).node[x][g] = t.node[x][g]
         /\ \A x \in Blocks : Rotate(t, side, top).node[x].parent =
              IF x = child THEN parent ELSE IF x = top THEN child ELSE IF x = inner THEN top
              ELSE t.node[x].parent
         /\ \A x \in Blocks : \A s \in Sides : Rotate(t, side, top).node[x][s] =
              IF x = child /\ s = side THEN top ELSE IF x = top /\ s = Other(side) THEN inner
              ELSE IF x = parent /\ s = Side(t, parent, top) THEN child ELSE t.node[x][s]
  <1>1. /\ child \in Blocks /\ inner \in Pointer /\ parent \in Pointer /\ Null \in Pointer
        /\ child \in Pointer /\ top \in Pointer
        /\ side \in Fields /\ Other(side) \in Fields /\ Other(side) # side /\ "parent" \in Fields
        /\ "parent" \notin Sides /\ Other(side) \in Sides
    <2>1. Other(side) \in Fields /\ side \in Fields /\ "parent" \in Fields /\ "parent" \notin Sides
      BY SideFields DEF Fields, Sides
    <2>2. child \in Pointer
      BY <2>1, FieldTypes
    <2>3. child \in Blocks
      BY <2>2 DEF Pointer
    <2>4. inner \in Pointer /\ parent \in Pointer
      BY <2>1, <2>3, FieldTypes
    <2>5. QED
      BY <2>1, <2>2, <2>3, <2>4, SideFields DEF Pointer
  <1> DEFINE u1 == Set(t, child, "parent", parent)
             u2 == Set(u1, top, Other(side), inner)
             u3 == Set(u2, inner, "parent", top)
             u4 == Set(u3, child, side, top)
             u5 == Set(u4, top, "parent", child)
             u6 == Relink(u5, parent, top, child)
  <1>2. Rotate(t, side, top) = u6
    BY DEF Rotate
  <1>3. IsSet(t, u1, child, "parent", parent)
    BY <1>1, SetFields
  <1> HIDE DEF u1
  <1>3a. u1 \in TreeType
    BY <1>3 DEF IsSet
  <1>4. IsSet(u1, u2, top, Other(side), inner)
    BY <1>1, <1>3a, SetFields
  <1> HIDE DEF u2
  <1>4a. u2 \in TreeType
    BY <1>4 DEF IsSet
  <1>5. IsSet(u2, u3, inner, "parent", top)
    BY <1>1, <1>4a, SetFields
  <1> HIDE DEF u3
  <1>5a. u3 \in TreeType
    BY <1>5 DEF IsSet
  <1>6. IsSet(u3, u4, child, side, top)
    BY <1>1, <1>5a, SetFields
  <1> HIDE DEF u4
  <1>6a. u4 \in TreeType
    BY <1>6 DEF IsSet
  <1>7. IsSet(u4, u5, top, "parent", child)
    BY <1>1, <1>6a, SetFields
  <1> HIDE DEF u5
  <1>8. /\ u6 \in TreeType /\ u6.root = (IF parent = Null THEN child ELSE u5.root) /\ u6.balance = u5.balance
        /\ \A x \in Blocks : \A g \in Fields :
              u6.node[x][g] = IF x = parent /\ g = Side(u5, parent, top) THEN child ELSE u5.node[x][g]
    BY <1>1, <1>7, RelinkFields DEF IsSet
  <1> HIDE DEF u6
  <1>9. ASSUME NEW x \in Blocks, NEW g \in {"next", "previous"}
        PROVE  u6.node[x][g] = t.node[x][g]
    <2>1. g \in Fields /\ g \notin Sides /\ g # "parent"
      BY DEF Fields, Sides
    <2>2. u6.node[x][g] = u5.node[x][g]
      BY <1>8, <2>1, SideType
    <2>3. QED
      BY <1>1, <1>3, <1>4, <1>5, <1>6, <1>7, <2>1, <2>2 DEF IsSet
  <1>10. ASSUME NEW x \in Blocks
         PROVE  u6.node[x].parent =
                  IF x = child THEN parent ELSE IF x = top THEN child ELSE IF x = inner THEN top
                  ELSE t.node[x].parent
    <2>1. u6.node[x]["parent"] = u5.node[x]["parent"]
      BY <1>1, <1>8, SideType
    <2>2. u5.node[x]["parent"] = IF x = top THEN child ELSE u4.node[x]["parent"]
      BY <1>1, <1>7 DEF IsSet
    <2>3. u4.node[x]["parent"] = u3.node[x]["parent"] /\ u2.node[x]["parent"] = u1.node[x]["parent"]
      BY <1>1, <1>4, <1>6 DEF IsSet
    <2>4. /\ u3.node[x]["parent"] = IF x = inner THEN top ELSE u2.node[x]["parent"]
          /\ u1.node[x]["parent"] = IF x = child THEN parent ELSE t.node[x]["parent"]
      BY <1>1, <1>3, <1>5 DEF IsSet
    <2>5. QED
      BY <2>1, <2>2, <2>3, <2>4
  <1>11. ASSUME NEW x \in Blocks, NEW s \in Sides
         PROVE  u5.node[x][s] =
                  IF x = child /\ s = side THEN top ELSE IF x = top /\ s = Other(side) THEN inner
                  ELSE t.node[x][s]
    <2>1. s \in Fields /\ s # "parent"
      BY SideFields DEF Sides
    <2>2. u5.node[x][s] = u4.node[x][s] /\ u3.node[x][s] = u2.node[x][s] /\ u1.node[x][s] = t.node[x][s]
      BY <1>3, <1>5, <1>7, <2>1 DEF IsSet
    <2>3. /\ u4.node[x][s] = IF x = child /\ s = side THEN top ELSE u3.node[x][s]
          /\ u2.node[x][s] = IF x = top /\ s = Other(side) THEN inner ELSE u1.node[x][s]
      BY <1>4, <1>6, <2>1 DEF IsSet
    <2>4. QED
      BY <2>2, <2>3
  <1>12. parent # Null => Side(u5, parent, top) = Side(t, parent, top)
    <2>1. ASSUME parent # Null
          PROVE  u5.node[parent]["left"] = t.node[parent]["left"]
      <3>1. parent \in Blocks /\ "left" \in Sides
        BY <1>1, <2>1 DEF Pointer, Sides
      <3>2. QED
        BY <1>11, <3>1
    <2>2. QED
      BY <2>1 DEF Side
  <1>13. ASSUME NEW x \in Blocks, NEW s \in Sides
         PROVE  u6.node[x][s] =
                  IF x = child /\ s = side THEN top ELSE IF x = top /\ s = Other(side) THEN inner
                  ELSE IF x = parent /\ s = Side(t, parent, top) THEN child ELSE t.node[x][s]
    <2>1. s \in Fields
      BY SideFields
    <2>2. u6.node[x][s] = IF x = parent /\ s = Side(u5, parent, top) THEN child ELSE u5.node[x][s]
      BY <1>8, <2>1
    <2>3. x = parent => x # child /\ x # top /\ parent # Null
      BY NullAssumption
    <2>4. QED
      BY <1>11, <1>12, <2>2, <2>3
  <1>14. u6.root = (IF parent = Null THEN child ELSE t.root) /\ u6.balance = t.balance /\ u6 \in TreeType
    BY <1>3, <1>4, <1>5, <1>6, <1>7, <1>8 DEF IsSet
  <1>15. QED
    BY <1>2, <1>9, <1>10, <1>13, <1>14

\* The same in a word.
LEMMA RotateIs ==
  ASSUME NEW t \in TreeType, NEW side \in Sides, NEW top \in Blocks, NEW child, NEW inner, NEW parent,
         child = t.node[top][Other(side)], child # Null, inner = t.node[child][side],
         parent = t.node[top].parent,
         child # top, inner \notin {top, child}, parent \notin {top, child}
  PROVE  IsRotated(t, Rotate(t, side, top), side, top, child, inner, parent)
  BY RotateFields DEF IsRotated

\* A node in which the pointers to its own header lead to another one.
Repointed(own, header, former) == [m \in DOMAIN own |-> IF own[m] = header THEN former ELSE own[m]]

\* It is a node.
LEMMA RepointedType ==
  ASSUME NEW own \in NodeType, NEW header, NEW former \in Pointer
  PROVE  /\ Repointed(own, header, former) \in NodeType
         /\ \A f \in Fields : Repointed(own, header, former)[f] = IF own[f] = header THEN former ELSE own[f]
  <1>1. DOMAIN own = Fields
    BY DEF NodeType, Fields
  <1>2. \A f \in Fields : own[f] \in Pointer
    BY DEF NodeType, Fields
  <1> DEFINE n == Repointed(own, header, former)
  <1>3. \A f \in Fields : n[f] = IF own[f] = header THEN former ELSE own[f]
    BY <1>1 DEF Repointed
  <1>4. n = [m \in Fields |-> n[m]]
    BY <1>1 DEF Repointed
  <1>5. \A f \in Fields : n[f] \in Pointer
    BY <1>2, <1>3
  <1> HIDE DEF n
  <1>6. n = [left |-> n["left"], right |-> n["right"], parent |-> n["parent"],
             next |-> n["next"], previous |-> n["previous"]]
    BY <1>4, ZenonT(60) DEF Fields
  <1>7. /\ n["left"] \in Pointer /\ n["right"] \in Pointer /\ n["parent"] \in Pointer
         /\ n["next"] \in Pointer /\ n["previous"] \in Pointer
    BY <1>5 DEF Fields
  <1>8. n \in NodeType
    BY <1>6, <1>7 DEF NodeType
  <1>9. QED
    BY <1>3, <1>8 DEF n

\* What swapNode does to the pointers to one of the two headers: n is the node of the
\* header once it does not lead to itself.
FixedUp(t, u, header, former, n) ==
  /\ u \in TreeType /\ u.balance = t.balance
  /\ \A x \in Blocks : u.node[x].next =
       IF x = n.previous THEN header ELSE IF x = header THEN n.next ELSE t.node[x].next
  /\ \A x \in Blocks : u.node[x].previous =
       IF x = n.next THEN header ELSE IF x = header THEN n.previous ELSE t.node[x].previous
  /\ n.previous = Null =>
       /\ u.root = IF n.parent = Null THEN header ELSE t.root
       /\ \A x \in Blocks : u.node[x].parent =
            IF x = n.left \/ x = n.right THEN header ELSE IF x = header THEN n.parent ELSE t.node[x].parent
       /\ \A x \in Blocks : \A s \in Sides : u.node[x][s] =
            IF x = n.parent /\ s = Side(t, n.parent, former) THEN header
            ELSE IF x = header THEN n[s] ELSE t.node[x][s]

\* fixUp writes the pointers of those around the header, and its own that were to itself.
LEMMA FixUpFields ==
  ASSUME NEW t \in TreeType, NEW header \in Blocks, NEW former \in Blocks, header # former,
         NEW n, n = Repointed(t.node[header], header, former)
  PROVE  FixedUp(t, FixUp(t, header, former), header, former, n)
  <1>1. /\ n \in NodeType
        /\ \A f \in Fields : n[f] = IF t.node[header][f] = header THEN former ELSE t.node[header][f]
    <2>1. t.node[header] \in NodeType
      BY FieldTypes DEF Fields
    <2>2. former \in Pointer
      BY DEF Pointer
    <2>3. QED
      BY <2>1, <2>2, RepointedType
  <1>2. \A f \in Fields : n[f] # header /\ n[f] \in Pointer
    BY <1>1 DEF NodeType, Fields
  <1>3. /\ "left" \in Fields /\ "right" \in Fields /\ "parent" \in Fields /\ "next" \in Fields
        /\ "previous" \in Fields /\ header \in Pointer
    BY DEF Fields, Pointer
  <1>4. /\ n.left \in Pointer /\ n.right \in Pointer /\ n.parent \in Pointer /\ n.next \in Pointer
        /\ n.previous \in Pointer /\ n.parent # header /\ n.previous # header /\ n.next # header
    BY <1>2, <1>3
  <1> DEFINE t1 == [t EXCEPT !.node[header] = n]
             t2 == Set(t1, n.next, "previous", header)
             t3 == Set(t2, n.previous, "next", header)
             t4 == Set(t3, n.left, "parent", header)
             t5 == Set(t4, n.right, "parent", header)
             t6 == Relink(t5, n.parent, former, header)
             u  == FixUp(t, header, former)
  <1>5. /\ t1 \in TreeType /\ t1.root = t.root /\ t1.balance = t.balance
        /\ t1.node[header] = n /\ \A x \in Blocks \ {header} : t1.node[x] = t.node[x]
    BY <1>1, NodeUpdate
  <1>6. u = IF n.previous # Null THEN t3 ELSE t6
    <2> DEFINE own == t.node[header]
               w   == [t EXCEPT !.node[header] = [m \in DOMAIN own |-> IF own[m] = header THEN former ELSE own[m]]]
               w2  == Set(Set(w, w.node[header].next, "previous", header), w.node[header].previous, "next", header)
               w3  == Set(Set(w2, w.node[header].left, "parent", header), w.node[header].right, "parent", header)
    <2>1. w = t1
      BY ZenonT(60) DEF Repointed
    <2>2. u = IF w.node[header].previous # Null THEN w2
              ELSE Relink(w3, w.node[header].parent, former, header)
      BY DEF FixUp
    <2> HIDE DEF w, t1
    <2>3. w.node[header] = n
      BY <1>5, <2>1
    <2>4. QED
      BY <2>1, <2>2, <2>3
  <1> HIDE DEF t1, u
  <1>7. IsSet(t1, t2, n.next, "previous", header)
    BY <1>3, <1>4, <1>5, SetFields
  <1> HIDE DEF t2
  <1>8. t2 \in TreeType
    BY <1>7 DEF IsSet
  <1>9. IsSet(t2, t3, n.previous, "next", header)
    BY <1>3, <1>4, <1>8, SetFields
  <1> HIDE DEF t3
  <1>10. t3 \in TreeType
    BY <1>9 DEF IsSet
  <1>11. IsSet(t3, t4, n.left, "parent", header)
    BY <1>3, <1>4, <1>10, SetFields
  <1> HIDE DEF t4
  <1>12. t4 \in TreeType
    BY <1>11 DEF IsSet
  <1>13. IsSet(t4, t5, n.right, "parent", header)
    BY <1>3, <1>4, <1>12, SetFields
  <1> HIDE DEF t5
  <1>14. t5 \in TreeType
    BY <1>13 DEF IsSet
  <1>15. /\ t6 \in TreeType /\ t6.root = (IF n.parent = Null THEN header ELSE t5.root) /\ t6.balance = t5.balance
         /\ \A x \in Blocks : \A g \in Fields :
               t6.node[x][g] = IF x = n.parent /\ g = Side(t5, n.parent, former) THEN header ELSE t5.node[x][g]
    BY <1>3, <1>4, <1>14, RelinkFields
  <1> HIDE DEF t6
  <1>16. ASSUME NEW x \in Blocks, NEW g \in Fields
         PROVE  /\ g = "next" => t3.node[x][g] = IF x = n.previous THEN header ELSE t1.node[x][g]
                /\ g = "previous" => t3.node[x][g] = IF x = n.next THEN header ELSE t1.node[x][g]
                /\ g \notin {"next", "previous"} => t3.node[x][g] = t1.node[x][g]
    BY <1>7, <1>9 DEF IsSet
  <1>17. ASSUME NEW x \in Blocks, NEW g \in Fields
         PROVE  /\ g = "parent" => t5.node[x][g] = IF x = n.left \/ x = n.right THEN header ELSE t3.node[x][g]
                /\ g # "parent" => t5.node[x][g] = t3.node[x][g]
    BY <1>11, <1>13 DEF IsSet
  <1>18. ASSUME NEW x \in Blocks, NEW g \in {"parent", "next", "previous"}
         PROVE  t6.node[x][g] = t5.node[x][g]
    <2>1. g \in Fields /\ g # Side(t5, n.parent, former)
      BY SideType DEF Sides, Fields
    <2>2. QED
      BY <1>15, <2>1
  <1>19. /\ t3.balance = t.balance /\ t6.balance = t.balance /\ t5.root = t.root
    BY <1>5, <1>7, <1>9, <1>11, <1>13, <1>15 DEF IsSet
  <1>20. /\ u \in TreeType /\ u.balance = t.balance
         /\ n.previous = Null => u.root = IF n.parent = Null THEN header ELSE t.root
    BY <1>6, <1>10, <1>15, <1>19
  <1>21. ASSUME NEW x \in Blocks
         PROVE  /\ u.node[x].next = IF x = n.previous THEN header ELSE IF x = header THEN n.next ELSE t.node[x].next
                /\ u.node[x].previous = IF x = n.next THEN header ELSE IF x = header THEN n.previous ELSE t.node[x].previous
    <2>1. /\ u.node[x]["next"] = t3.node[x]["next"]
          /\ u.node[x]["previous"] = t3.node[x]["previous"]
      BY <1>3, <1>6, <1>17, <1>18
    <2>2. /\ t3.node[x]["next"] = IF x = n.previous THEN header ELSE t1.node[x]["next"]
          /\ t3.node[x]["previous"] = IF x = n.next THEN header ELSE t1.node[x]["previous"]
      BY <1>3, <1>16
    <2>3. t1.node[x] = IF x = header THEN n ELSE t.node[x]
      BY <1>5
    <2>4. QED
      BY <1>4, <2>1, <2>2, <2>3
  <1>22. ASSUME n.previous = Null, NEW x \in Blocks
         PROVE  u.node[x].parent = IF x = n.left \/ x = n.right THEN header
                                   ELSE IF x = header THEN n.parent ELSE t.node[x].parent
    <2>1. u.node[x]["parent"] = t5.node[x]["parent"]
      BY <1>3, <1>6, <1>18, <1>22
    <2>2. t5.node[x]["parent"] = IF x = n.left \/ x = n.right THEN header ELSE t1.node[x]["parent"]
      BY <1>3, <1>16, <1>17
    <2>3. t1.node[x] = IF x = header THEN n ELSE t.node[x]
      BY <1>5
    <2>4. QED
      BY <2>1, <2>2, <2>3
  <1>23. ASSUME NEW x \in Blocks, NEW s \in Sides
         PROVE  s \in Fields /\ t5.node[x][s] = t1.node[x][s]
    <2>1. s \in Fields /\ s \notin {"parent", "next", "previous"}
      BY DEF Sides, Fields
    <2>2. QED
      BY <1>16, <1>17, <2>1
  <1>24. ASSUME n.parent # Null
         PROVE  Side(t5, n.parent, former) = Side(t, n.parent, former)
    <2>1. n.parent \in Blocks /\ "left" \in Sides
      BY <1>4, <1>24 DEF Pointer, Sides
    <2>2. t5.node[n.parent]["left"] = t.node[n.parent]["left"]
      BY <1>4, <1>5, <1>23, <2>1
    <2>3. QED
      BY <2>2 DEF Side
  <1>25. ASSUME n.previous = Null, NEW x \in Blocks, NEW s \in Sides
         PROVE  u.node[x][s] = IF x = n.parent /\ s = Side(t, n.parent, former) THEN header
                               ELSE IF x = header THEN n[s] ELSE t.node[x][s]
    <2>1. u.node[x][s] = IF x = n.parent /\ s = Side(t5, n.parent, former) THEN header ELSE t1.node[x][s]
      BY <1>6, <1>15, <1>23, <1>25
    <2>2. t1.node[x] = IF x = header THEN n ELSE t.node[x]
      BY <1>5
    <2>3. x = n.parent => n.parent # Null
      BY NullAssumption
    <2>4. QED
      BY <1>24, <2>1, <2>2, <2>3
  <1>26. QED
    <2> HIDE DEF u
    <2>1. FixedUp(t, u, header, former, n)
      BY <1>20, <1>21, <1>22, <1>25 DEF FixedUp
    <2>2. QED
      BY <2>1 DEF u

-----------------------------------------------------------------------------
(***************************************************************************)
(* The tree of the headers as a search tree.                               *)
(***************************************************************************)
\* The links of the tree as functions.
Kid(t, side) == [x \in Blocks |-> t.node[x][side]]
Par(t)       == [x \in Blocks |-> t.node[x].parent]

\* The headers H are a search tree for key, seen from one side.
SearchTree(t, side, H, key, lo, hi) ==
  /\ key \in [Blocks -> Int] /\ lo \in [Blocks -> Int] /\ hi \in [Blocks -> Int]
  /\ Shape(t.root, Kid(t, side), Kid(t, Other(side)), Par(t), H)
  /\ Spans(t.root, Kid(t, side), Kid(t, Other(side)), H, key, lo, hi)

\* Turning the order round twice.
LEMMA NegativeTwice ==
  ASSUME NEW f \in [Blocks -> Int]
  PROVE  /\ Negative(f) \in [Blocks -> Int] /\ Negative(Negative(f)) = f
         /\ \A x \in Blocks : Negative(f)[x] = -f[x]
  BY DEF Negative

\* Seen from the other side, a search tree is one for the negative keys.
LEMMA Mirrored ==
  ASSUME NEW t, NEW side \in Sides, NEW H, NEW key, NEW lo, NEW hi, SearchTree(t, side, H, key, lo, hi)
  PROVE  SearchTree(t, Other(side), H, Negative(key), Negative(hi), Negative(lo))
  <1>1. Other(Other(side)) = side
    BY SideFields
  <1>2. /\ Shape(t.root, Kid(t, side), Kid(t, Other(side)), Par(t), H)
        /\ Spans(t.root, Kid(t, side), Kid(t, Other(side)), H, key, lo, hi)
    BY DEF SearchTree
  <1>3. Shape(t.root, Kid(t, Other(side)), Kid(t, side), Par(t), H)
    BY <1>2, MirroredShape
  <1>4. Spans(t.root, Kid(t, Other(side)), Kid(t, side), H, Negative(key), Negative(hi), Negative(lo))
    BY <1>2, MirroredSpans
  <1>5. Negative(key) \in [Blocks -> Int] /\ Negative(hi) \in [Blocks -> Int] /\ Negative(lo) \in [Blocks -> Int]
    BY NegativeTwice, ZenonT(60) DEF SearchTree
  <1>6. QED
    BY <1>1, <1>3, <1>4, <1>5 DEF SearchTree

\* What a search tree says of the node x, of its children and of its parent.
NodeIn(t, side, H, key, lo, hi, x) ==
  /\ x \in Blocks /\ x # Null
  /\ key[x] \in Int /\ lo[x] \in Int /\ hi[x] \in Int /\ lo[x] < key[x] /\ key[x] < hi[x]
  /\ \A s \in Sides : /\ t.node[x][s] \in Pointer /\ t.node[x][s] # x
                      /\ t.node[x][s] # Null => t.node[x][s] \in H /\ t.node[t.node[x][s]].parent = x
  /\ t.node[x][side] # Null => lo[t.node[x][side]] = lo[x] /\ hi[t.node[x][side]] = key[x]
  /\ t.node[x][Other(side)] # Null =>
       lo[t.node[x][Other(side)]] = key[x] /\ hi[t.node[x][Other(side)]] = hi[x]
  /\ t.node[x].parent \in Pointer /\ t.node[x].parent # x
  /\ t.node[x].parent = Null <=> x = t.root
  /\ t.node[x].parent # Null => /\ t.node[x].parent \in H
                                /\ \E s \in Sides : t.node[t.node[x].parent][s] = x
  /\ \A s \in Sides : t.node[x][s] # Null =>
       /\ t.node[x][s] # t.node[x][Other(s)]
       /\ t.node[x].parent # t.node[x][s]
       /\ \A r \in Sides : t.node[t.node[x][s]][r] # x

\* What a search tree says of a node and its children.
LEMMA NodeFacts ==
  ASSUME NEW t \in TreeType, NEW side \in Sides, NEW H, NEW key, NEW lo, NEW hi,
         SearchTree(t, side, H, key, lo, hi), NEW x \in H
  PROVE  /\ x \in Blocks /\ x # Null
         /\ key[x] \in Int /\ lo[x] \in Int /\ hi[x] \in Int /\ lo[x] < key[x] /\ key[x] < hi[x]
         /\ \A s \in Sides : /\ t.node[x][s] \in Pointer /\ t.node[x][s] # x
                             /\ t.node[x][s] # Null => t.node[x][s] \in H /\ t.node[t.node[x][s]].parent = x
         /\ t.node[x][side] # Null => lo[t.node[x][side]] = lo[x] /\ hi[t.node[x][side]] = key[x]
         /\ t.node[x][Other(side)] # Null =>
              lo[t.node[x][Other(side)]] = key[x] /\ hi[t.node[x][Other(side)]] = hi[x]
         /\ t.node[x].parent \in Pointer /\ t.node[x].parent # x
         /\ t.node[x].parent = Null <=> x = t.root
         /\ t.node[x].parent # Null => /\ t.node[x].parent \in H
                                       /\ \E s \in Sides : t.node[t.node[x].parent][s] = x
         /\ \A s \in Sides : t.node[x][s] # Null =>
              /\ t.node[x][s] # t.node[x][Other(s)]
              /\ t.node[x].parent # t.node[x][s]
              /\ \A r \in Sides : t.node[t.node[x][s]][r] # x
  <1> DEFINE near == Kid(t, side)
             far  == Kid(t, Other(side))
             par  == Par(t)
  <1>1. /\ Shape(t.root, near, far, par, H) /\ Spans(t.root, near, far, H, key, lo, hi)
    BY DEF SearchTree
  <1>2. /\ \A y \in Blocks : near[y] = t.node[y][side] /\ far[y] = t.node[y][Other(side)] /\ par[y] = t.node[y].parent
        /\ \A s \in Sides : s = side \/ s = Other(side)
        /\ side \in Sides /\ Other(side) \in Sides /\ Other(Other(side)) = side
        /\ H \subseteq Blocks
    <2>1. H \subseteq Blocks
      BY <1>1, ZenonT(60) DEF Shape
    <2>2. \A y \in Blocks : near[y] = t.node[y][side] /\ far[y] = t.node[y][Other(side)] /\ par[y] = t.node[y].parent
      BY ZenonT(60) DEF Kid, Par
    <2> HIDE DEF near, far, par
    <2>3. /\ \A s \in Sides : s = side \/ s = Other(side)
          /\ side \in Sides /\ Other(side) \in Sides /\ Other(Other(side)) = side
      BY SideFields
    <2>4. QED
      BY <2>1, <2>2, <2>3, ZenonT(60)
  <1> HIDE DEF near, far, par
  <1>3. \A y \in H : /\ y # Null
                     /\ key[y] \in Int /\ lo[y] \in Int /\ hi[y] \in Int /\ lo[y] < key[y] /\ key[y] < hi[y]
                     /\ near[y] \in Pointer /\ far[y] \in Pointer /\ par[y] \in Pointer
                     /\ near[y] # Null => /\ near[y] \in H /\ par[near[y]] = y /\ near[y] # far[y]
                                          /\ lo[near[y]] = lo[y] /\ hi[near[y]] = key[y]
                     /\ far[y] # Null => /\ far[y] \in H /\ par[far[y]] = y
                                         /\ lo[far[y]] = key[y] /\ hi[far[y]] = hi[y]
                     /\ par[y] # Null => par[y] \in H /\ y \in {near[par[y]], far[par[y]]}
                     /\ par[y] = Null <=> y = t.root
    BY <1>1, <1>2, NullAssumption DEF Shape, Spans
  <1>4. near[x] # x /\ far[x] # x /\ par[x] # x
    BY <1>3
  <1>5. near[x] # Null => near[near[x]] # x /\ far[near[x]] # x /\ par[x] # near[x]
    <2>1. ASSUME near[x] # Null, near[near[x]] = x \/ far[near[x]] = x
          PROVE  FALSE
      BY <1>3, <2>1
    <2>2. QED
      BY <1>3, <2>1
  <1>6. far[x] # Null => near[far[x]] # x /\ far[far[x]] # x /\ par[x] # far[x]
    <2>1. ASSUME far[x] # Null, near[far[x]] = x \/ far[far[x]] = x
          PROVE  FALSE
      BY <1>3, <2>1
    <2>2. QED
      BY <1>3, <2>1
  <1>7. far[x] # Null => far[x] # near[x]
    BY <1>3
  <1>8. /\ x \in Blocks /\ near[x] = t.node[x][side] /\ far[x] = t.node[x][Other(side)] /\ par[x] = t.node[x].parent
        /\ near[x] # Null => /\ par[near[x]] = t.node[near[x]].parent /\ near[near[x]] = t.node[near[x]][side]
                             /\ far[near[x]] = t.node[near[x]][Other(side)]
        /\ far[x] # Null => /\ par[far[x]] = t.node[far[x]].parent /\ near[far[x]] = t.node[far[x]][side]
                            /\ far[far[x]] = t.node[far[x]][Other(side)]
        /\ par[x] # Null => near[par[x]] = t.node[par[x]][side] /\ far[par[x]] = t.node[par[x]][Other(side)]
    BY <1>2, <1>3
  <1>9. ASSUME NEW s \in Sides
        PROVE  /\ t.node[x][s] \in Pointer /\ t.node[x][s] # x
               /\ t.node[x][s] # Null => t.node[x][s] \in H /\ t.node[t.node[x][s]].parent = x
    BY <1>2, <1>3, <1>4, <1>8
  <1>10. ASSUME NEW s \in Sides, t.node[x][s] # Null
         PROVE  /\ t.node[x][s] # t.node[x][Other(s)]
                /\ t.node[x].parent # t.node[x][s]
                /\ \A r \in Sides : t.node[t.node[x][s]][r] # x
    <2>1. CASE s = side
      <3>1. near[x] # Null /\ near[x] = t.node[x][s]
        BY <1>8, <1>10, <2>1
      <3>2. \A r \in Sides : t.node[near[x]][r] # x
        BY <1>2, <1>5, <1>8, <3>1
      <3>3. QED
        BY <1>3, <1>5, <1>8, <2>1, <3>1, <3>2
    <2>2. CASE s = Other(side)
      <3>1. far[x] # Null /\ far[x] = t.node[x][s]
        BY <1>8, <1>10, <2>2
      <3>2. \A r \in Sides : t.node[far[x]][r] # x
        BY <1>2, <1>6, <1>8, <3>1
      <3>3. QED
        BY <1>2, <1>3, <1>6, <1>7, <1>8, <2>2, <3>1, <3>2
    <2>3. QED
      BY <1>2, <2>1, <2>2
  <1>11. /\ near[x] # Null => lo[near[x]] = lo[x] /\ hi[near[x]] = key[x]
         /\ far[x] # Null => lo[far[x]] = key[x] /\ hi[far[x]] = hi[x]
         /\ par[x] = Null <=> x = t.root
    BY <1>3
  <1>12. par[x] # Null => par[x] \in H /\ \E s \in Sides : t.node[par[x]][s] = x
    BY <1>2, <1>3, <1>8
  <1>13. /\ x # Null /\ key[x] \in Int /\ lo[x] \in Int /\ hi[x] \in Int /\ lo[x] < key[x] /\ key[x] < hi[x]
         /\ par[x] \in Pointer
    BY <1>3
  <1>14. QED
    BY <1>4, <1>8, <1>9, <1>10, <1>11, <1>12, <1>13, ZenonT(60)

\* The same in a word.
LEMMA NodeIs ==
  ASSUME NEW t \in TreeType, NEW side \in Sides, NEW H, NEW key, NEW lo, NEW hi,
         SearchTree(t, side, H, key, lo, hi), NEW x \in H
  PROVE  NodeIn(t, side, H, key, lo, hi, x)
  BY NodeFacts DEF NodeIn

\* A rotation keeps the keys, and with them the order of the nodes.  The bounds of the
\* two nodes that are rotated change, and no others: those of top still include those
\* of its near child.
LEMMA RotateOriented ==
  ASSUME NEW t \in TreeType, NEW side \in Sides, NEW H, NEW key, NEW lo, NEW hi,
         SearchTree(t, side, H, key, lo, hi),
         NEW top \in H, NEW child, child = t.node[top][Other(side)], child # Null
  PROVE  \E lo2, hi2 :
           /\ SearchTree(Rotate(t, side, top), side, H, key, lo2, hi2)
           /\ \A x \in H \ {top, child} : lo2[x] = lo[x] /\ hi2[x] = hi[x]
           /\ t.node[top][side] # Null =>
                lo2[top] <= lo[t.node[top][side]] /\ hi[t.node[top][side]] <= hi2[top]
  <1> DEFINE inner  == t.node[child][side]
             parent == t.node[top].parent
             u      == Rotate(t, side, top)
             lo2    == [lo EXCEPT ![child] = lo[top]]
             hi2    == [hi EXCEPT ![child] = hi[top], ![top] = key[child]]
  <1>1. /\ Other(side) \in Sides /\ Other(side) # side /\ Other(Other(side)) = side
        /\ \A s \in Sides : s = side \/ s = Other(side)
    BY SideFields
  <1>2. /\ top \in Blocks /\ child \in H /\ child # top /\ parent # top /\ parent # child
        /\ \A s \in Sides : t.node[child][s] # top
        /\ t.node[top][side] # top
        /\ t.node[top][side] # Null => t.node[top][side] \in H
        /\ key[top] \in Int /\ lo[top] \in Int /\ hi[top] \in Int /\ lo[top] < key[top] /\ key[top] < hi[top]
        /\ lo[child] = key[top] /\ hi[child] = hi[top] /\ parent \in Pointer
        /\ parent = Null <=> top = t.root
        /\ parent # Null => parent \in H /\ \E s \in Sides : t.node[parent][s] = top
        /\ t.node[top][side] # Null => lo[t.node[top][side]] = lo[top] /\ hi[t.node[top][side]] = key[top]
        /\ child # t.node[top][side]
    <2>1. NodeIn(t, side, H, key, lo, hi, top)
      BY NodeIs
    <2>2. NodeIn(t, side, H, key, lo, hi, child)
      <3>1. child \in H
        BY <1>1, <2>1, ZenonT(60) DEF NodeIn
      <3>2. QED
        BY <3>1, NodeIs
    <2>3. \A s \in Sides : t.node[child][s] # top
      BY <1>1, <2>1, ZenonT(60) DEF NodeIn
    <2>4. /\ child \in H /\ child # top /\ parent # child /\ child # t.node[top][side]
          /\ lo[child] = key[top] /\ hi[child] = hi[top]
      BY <1>1, <2>1, ZenonT(60) DEF NodeIn
    <2>5. /\ top \in Blocks /\ parent # top
          /\ t.node[top][side] # top
          /\ t.node[top][side] # Null => t.node[top][side] \in H
          /\ key[top] \in Int /\ lo[top] \in Int /\ hi[top] \in Int /\ lo[top] < key[top] /\ key[top] < hi[top]
          /\ parent \in Pointer
          /\ parent = Null <=> top = t.root
          /\ parent # Null => parent \in H /\ \E s \in Sides : t.node[parent][s] = top
          /\ t.node[top][side] # Null => lo[t.node[top][side]] = lo[top] /\ hi[t.node[top][side]] = key[top]
      BY <2>1, ZenonT(60) DEF NodeIn
    <2>6. QED
      BY <2>3, <2>4, <2>5, ZenonT(60)
  <1>3. /\ child \in Blocks /\ inner # child /\ inner # top
        /\ key[child] \in Int /\ lo[child] < key[child] /\ key[child] < hi[child]
        /\ inner # Null => inner \in H /\ t.node[inner].parent = child
        /\ lo[child] \in Int /\ hi[child] \in Int
    <2>1. NodeIn(t, side, H, key, lo, hi, child)
      BY <1>2, NodeIs
    <2>2. inner # top
      BY <1>2, ZenonT(60)
    <2>3. QED
      BY <2>1, <2>2, ZenonT(60) DEF NodeIn
  <1> HIDE DEF inner, parent
  <1>4. /\ u \in TreeType /\ u.root = (IF parent = Null THEN child ELSE t.root)
        /\ \A x \in Blocks : u.node[x].parent =
              IF x = child THEN parent ELSE IF x = top THEN child ELSE IF x = inner THEN top
              ELSE t.node[x].parent
        /\ \A x \in Blocks : \A s \in Sides : u.node[x][s] =
              IF x = child /\ s = side THEN top ELSE IF x = top /\ s = Other(side) THEN inner
              ELSE IF x = parent /\ s = Side(t, parent, top) THEN child ELSE t.node[x][s]
    <2>1. /\ top \in Blocks /\ child # top /\ inner \notin {top, child} /\ parent \notin {top, child}
          /\ inner = t.node[child][side] /\ parent = t.node[top].parent
      BY <1>2, <1>3, ZenonT(60) DEF inner, parent
    <2>2. IsRotated(t, u, side, top, child, inner, parent)
      BY <2>1, RotateIs
    <2>3. QED
      BY <2>2, ZenonT(60) DEF IsRotated
  <1> HIDE DEF u
  <1>5. H \subseteq Blocks /\ t.root \in Pointer
    BY DEF SearchTree, Shape, Pointer
  <1>6. ASSUME NEW x \in H, NEW s \in Sides, t.node[x][s] = top
        PROVE  x = parent /\ s = Side(t, parent, top)
    <2>0. NodeIn(t, side, H, key, lo, hi, x) /\ NodeIn(t, side, H, key, lo, hi, top)
      BY NodeIs
    <2>1. x = parent
      <3>1. top # Null
        BY <2>0, ZenonT(60) DEF NodeIn
      <3>2. t.node[t.node[x][s]].parent = x
        BY <1>6, <2>0, <3>1, ZenonT(60) DEF NodeIn
      <3>3. QED
        BY <1>6, <3>2, ZenonT(60) DEF parent
    <2>2. t.node[x][Other(s)] # top
      <3>1. top # Null
        BY <2>0, ZenonT(60) DEF NodeIn
      <3>2. t.node[x][s] # t.node[x][Other(s)]
        BY <1>6, <2>0, <3>1, ZenonT(60) DEF NodeIn
      <3>3. QED
        BY <1>6, <3>2, ZenonT(60)
    <2>3. CASE s = "left"
      BY <1>6, <2>1, <2>3 DEF Side
    <2>4. CASE s = "right"
      <3>1. t.node[x].left # top
        BY <2>2, <2>4 DEF Other
      <3>2. QED
        BY <2>1, <2>4, <3>1 DEF Side
    <2>5. QED
      BY <2>1, <2>3, <2>4 DEF Sides
  <1>7. ASSUME NEW s \in Sides, parent # Null, s = Side(t, parent, top)
        PROVE  t.node[parent][s] = top
    <2>1. PICK r \in Sides : t.node[parent][r] = top
      BY <1>2, <1>7
    <2>2. r = Side(t, parent, top)
      BY <1>2, <1>6, <1>7, <2>1
    <2>3. QED
      BY <1>7, <2>1, <2>2
  <1>8. ASSUME NEW x \in H, NEW s \in Sides, ~(x = child /\ s = side), ~(x = top /\ s = Other(side))
        PROVE  u.node[x][s] = IF t.node[x][s] = top THEN child ELSE t.node[x][s]
    <2>1. u.node[x][s] = IF x = parent /\ s = Side(t, parent, top) THEN child ELSE t.node[x][s]
      BY <1>4, <1>5, <1>8
    <2>2. x # Null
      BY <1>5, NullAssumption
    <2>3. QED
      BY <1>6, <1>7, <2>1, <2>2
  <1> DEFINE near  == Kid(t, side)
             far   == Kid(t, Other(side))
             par   == Par(t)
             near2 == Kid(u, side)
             far2  == Kid(u, Other(side))
             par2  == Par(u)
  <1>9. /\ \A x \in H : near[x] = t.node[x][side] /\ far[x] = t.node[x][Other(side)] /\ par[x] = t.node[x].parent
        /\ \A x \in H : near2[x] = u.node[x][side] /\ far2[x] = u.node[x][Other(side)] /\ par2[x] = u.node[x].parent
    BY <1>5 DEF Kid, Par
  <1>10. /\ near2 \in [Blocks -> Pointer] /\ far2 \in [Blocks -> Pointer] /\ par2 \in [Blocks -> Pointer]
    <2>1. \A x \in Blocks : /\ u.node[x][side] \in Pointer /\ u.node[x][Other(side)] \in Pointer
                            /\ u.node[x]["parent"] \in Pointer
      BY <1>1, <1>4, FieldTypes, SideFields DEF Fields
    <2>2. QED
      BY <2>1 DEF Kid, Par
  <1>11. /\ Shape(t.root, near, far, par, H)
         /\ Spans(t.root, near, far, H, key, lo, hi)
         /\ key \in [Blocks -> Int] /\ lo \in [Blocks -> Int] /\ hi \in [Blocks -> Int]
    BY DEF SearchTree
  <1> HIDE DEF near, far, par, near2, far2, par2
  <1>12. Rotated(t.root, near, far, par, H, top, child, u.root, near2, far2, par2)
    <2>1. u.root = IF t.root = top THEN child ELSE t.root
      BY <1>2, <1>4
    <2>2. ASSUME NEW x \in H
          PROVE  near2[x] = IF x = child THEN top ELSE IF near[x] = top THEN child ELSE near[x]
      <3>1. x = child => u.node[x][side] = top
        BY <1>3, <1>4
      <3>2. x # child => u.node[x][side] = IF t.node[x][side] = top THEN child ELSE t.node[x][side]
        BY <1>1, <1>8
      <3>3. QED
        BY <1>9, <3>1, <3>2
    <2>3. ASSUME NEW x \in H
          PROVE  far2[x] = IF x = top THEN near[child] ELSE IF far[x] = top THEN child ELSE far[x]
      <3>1. x = top => u.node[x][Other(side)] = inner
        BY <1>1, <1>2, <1>4
      <3>2. x # top => u.node[x][Other(side)] = IF t.node[x][Other(side)] = top THEN child ELSE t.node[x][Other(side)]
        BY <1>1, <1>8
      <3>3. inner = near[child]
        BY <1>2, <1>9 DEF inner
      <3>4. QED
        BY <1>9, <3>1, <3>2, <3>3
    <2>4. ASSUME NEW x \in H
          PROVE  par2[x] = IF x = child THEN par[top] ELSE IF x = top THEN child
                           ELSE IF x = near[child] THEN top ELSE par[x]
      <3>1. inner = near[child] /\ par[top] = parent
        BY <1>2, <1>9 DEF inner, parent
      <3>2. u.node[x].parent = IF x = child THEN parent ELSE IF x = top THEN child ELSE IF x = inner THEN top
                               ELSE t.node[x].parent
        BY <1>4, <1>5
      <3>3. QED
        BY <1>9, <3>1, <3>2
    <2>5. QED
      BY <1>10, <2>1, <2>2, <2>3, <2>4 DEF Rotated
  <1>13. child = far[top] /\ near[child] # top /\ far[child] # top /\ near[top] # top
    BY <1>1, <1>2, <1>9
  <1>14. Shape(u.root, near2, far2, par2, H)
    BY <1>11, <1>12, <1>13, RotatedShape
  <1>15. /\ lo2 \in [Blocks -> Int] /\ hi2 \in [Blocks -> Int]
         /\ RotatedBounds(H, key, lo, hi, top, child, lo2, hi2)
    <2>1. lo[top] \in Int /\ hi[top] \in Int /\ key[child] \in Int
      BY <1>2, <1>3, ZenonT(60)
    <2>2. lo2 \in [Blocks -> Int] /\ hi2 \in [Blocks -> Int]
      BY <1>11, <2>1
    <2>3. \A x \in H : lo2[x] = IF x = child THEN lo[top] ELSE lo[x]
      BY <1>5, <1>11
    <2>4. \A x \in H : hi2[x] = IF x = child THEN hi[top] ELSE IF x = top THEN key[child] ELSE hi[x]
      BY <1>2, <1>5, <1>11
    <2> HIDE DEF lo2, hi2
    <2>5. QED
      BY <2>2, <2>3, <2>4, ZenonT(60) DEF RotatedBounds
  <1> HIDE DEF lo2, hi2
  <1>16. Spans(u.root, near2, far2, H, key, lo2, hi2)
    BY <1>11, <1>12, <1>13, <1>15, RotatedSpans
  <1>17. SearchTree(u, side, H, key, lo2, hi2)
    BY <1>11, <1>14, <1>15, <1>16 DEF SearchTree, near2, far2, par2
  <1>18. \A x \in H \ {top, child} : lo2[x] = lo[x] /\ hi2[x] = hi[x]
    BY <1>15 DEF RotatedBounds
  <1>19. t.node[top][side] # Null =>
           lo2[top] <= lo[t.node[top][side]] /\ hi[t.node[top][side]] <= hi2[top]
    <2>1. lo2[top] = lo[top] /\ hi2[top] = key[child] /\ key[top] <= key[child] /\ lo[top] <= lo[top]
      BY <1>2, <1>3, <1>15 DEF RotatedBounds
    <2>2. QED
      BY <1>2, <2>1
  <1>20. QED
    BY <1>17, <1>18, <1>19 DEF u

\* Side tells on which side of its parent a child is.
LEMMA SideOfChild ==
  ASSUME NEW t \in TreeType, NEW H, NEW key, NEW lo, NEW hi, SearchTree(t, "left", H, key, lo, hi),
         NEW p \in H, NEW s \in Sides, t.node[p][s] # Null
  PROVE  Side(t, p, t.node[p][s]) = s
  <1>1. "left" \in Sides
    BY DEF Sides
  <1>2. t.node[p][s] # t.node[p][Other(s)]
    BY <1>1, NodeFacts
  <1>3. CASE s = "left"
    BY <1>3 DEF Side
  <1>4. CASE s = "right"
    <2>1. Other(s) = "left"
      BY <1>4 DEF Other
    <2>2. QED
      BY <1>2, <1>4, <2>1 DEF Side
  <1>5. QED
    BY <1>3, <1>4 DEF Sides

\* The parent of a node has it as a child.
LEMMA ParentLink ==
  ASSUME NEW t \in TreeType, NEW H, NEW key, NEW lo, NEW hi, SearchTree(t, "left", H, key, lo, hi),
         NEW x \in H, t.node[x].parent # Null
  PROVE  /\ t.node[x].parent \in H
         /\ Side(t, t.node[x].parent, x) \in Sides
         /\ t.node[t.node[x].parent][Side(t, t.node[x].parent, x)] = x
  <1>1. "left" \in Sides
    BY DEF Sides
  <1>2. t.node[x].parent \in H /\ x # Null /\ \E s \in Sides : t.node[t.node[x].parent][s] = x
    BY <1>1, NodeFacts
  <1> DEFINE p == t.node[x].parent
  <1> HIDE DEF p
  <1>3. PICK s \in Sides : t.node[p][s] = x
    BY <1>2 DEF p
  <1>4. Side(t, p, x) = s
    BY <1>2, <1>3, SideOfChild DEF p
  <1>5. QED
    BY <1>2, <1>3, <1>4 DEF p

\* u is t with the same lists, and the nodes H arranged in another way: a node that is
\* not in moved keeps its bounds and whether its children are missing, and the bounds
\* of top include those which its child c had.
Rearranged(t, u, H, key, lo, hi, moved, top, c) ==
  /\ u \in TreeType
  /\ \A x \in Blocks : /\ u.node[x].next = t.node[x].next /\ u.node[x].previous = t.node[x].previous
                       /\ u.balance[x] = "allocated" <=> t.balance[x] = "allocated"
  /\ \A x \in Blocks \ H : \A f \in {"left", "right", "parent"} : u.node[x][f] = t.node[x][f]
  /\ \A x \in H \ moved : \A s \in Sides : u.node[x][s] = Null <=> t.node[x][s] = Null
  /\ \E lo2, hi2 : /\ SearchTree(u, "left", H, key, lo2, hi2)
                   /\ \A x \in H \ moved : lo2[x] = lo[x] /\ hi2[x] = hi[x]
                   /\ c # Null => lo2[top] <= lo[c] /\ hi[c] <= hi2[top]

\* A rotation to either side leaves a search tree, and moves two bounds only.
LEMMA RotateBounds ==
  ASSUME NEW t \in TreeType, NEW side \in Sides, NEW H, NEW key, NEW lo, NEW hi,
         SearchTree(t, "left", H, key, lo, hi),
         NEW top \in H, NEW child, child = t.node[top][Other(side)], child # Null,
         NEW c, c = t.node[top][side]
  PROVE  \E lo2, hi2 :
           /\ SearchTree(Rotate(t, side, top), "left", H, key, lo2, hi2)
           /\ \A x \in H \ {top, child} : lo2[x] = lo[x] /\ hi2[x] = hi[x]
           /\ c # Null => lo2[top] <= lo[c] /\ hi[c] <= hi2[top]
  <1>1. CASE side = "left"
    BY <1>1, RotateOriented
  <1>2. CASE side = "right"
    <2> DEFINE key1 == Negative(key)
               lo1  == Negative(hi)
               hi1  == Negative(lo)
    <2>1. "left" \in Sides /\ Other("left") = "right" /\ "right" \in Sides /\ Other("right") = "left"
      BY DEF Sides, Other
    <2>2. SearchTree(t, "right", H, key1, lo1, hi1)
      BY <2>1, Mirrored
    <2>3. /\ key \in [Blocks -> Int] /\ lo \in [Blocks -> Int] /\ hi \in [Blocks -> Int]
          /\ H \subseteq Blocks
      BY DEF SearchTree, Shape
    <2>4. Negative(key1) = key /\ \A x \in H : lo1[x] = -hi[x] /\ hi1[x] = -lo[x]
      BY <2>3, NegativeTwice
    <2> HIDE DEF key1, lo1, hi1
    <2>5. PICK lo2, hi2 : /\ SearchTree(Rotate(t, side, top), "right", H, key1, lo2, hi2)
                          /\ \A x \in H \ {top, child} : lo2[x] = lo1[x] /\ hi2[x] = hi1[x]
                          /\ c # Null => lo2[top] <= lo1[c] /\ hi1[c] <= hi2[top]
      BY <1>2, <2>2, RotateOriented
    <2>6. SearchTree(Rotate(t, side, top), "left", H, key, Negative(hi2), Negative(lo2))
      BY <2>1, <2>4, <2>5, Mirrored
    <2>7. lo2 \in [Blocks -> Int] /\ hi2 \in [Blocks -> Int]
      BY <2>5 DEF SearchTree
    <2>8. \A x \in H : Negative(hi2)[x] = -hi2[x] /\ Negative(lo2)[x] = -lo2[x]
      BY <2>3, <2>7, NegativeTwice
    <2>9. ASSUME NEW x \in H \ {top, child}
          PROVE  Negative(hi2)[x] = lo[x] /\ Negative(lo2)[x] = hi[x]
      <3>1. lo[x] \in Int /\ hi[x] \in Int
        BY <2>3
      <3>2. hi2[x] = -lo[x] /\ lo2[x] = -hi[x]
        BY <2>4, <2>5
      <3>3. QED
        BY <2>8, <3>1, <3>2
    <2>10. ASSUME c # Null
           PROVE  Negative(hi2)[top] <= lo[c] /\ hi[c] <= Negative(lo2)[top]
      <3>1. c \in H
        BY <2>1, <2>10, NodeFacts
      <3>2. lo[c] \in Int /\ hi[c] \in Int /\ lo2[top] \in Int /\ hi2[top] \in Int
        BY <2>3, <2>7, <3>1
      <3>3. lo2[top] <= -hi[c] /\ -lo[c] <= hi2[top]
        BY <2>4, <2>5, <2>10, <3>1
      <3>4. QED
        BY <2>8, <3>2, <3>3
    <2>11. QED
      BY <2>6, <2>9, <2>10
  <1>3. QED
    BY <1>1, <1>2 DEF Sides

\* All links to top but those between the two lead to child now, and no other link changed.
Replaced(t, u, H, side, top, child) ==
  \A x \in H, s \in Sides : ~(x = child /\ s = side) /\ ~(x = top /\ s = Other(side)) =>
    u.node[x][s] = IF t.node[x][s] = top THEN child ELSE t.node[x][s]

\* It also leaves the blocks that are not in the tree, and the other links, alone.
LEMMA RotateTree ==
  ASSUME NEW t \in TreeType, NEW side \in Sides, NEW H, NEW key, NEW lo, NEW hi,
         SearchTree(t, "left", H, key, lo, hi),
         NEW top \in H, NEW child, child = t.node[top][Other(side)], child # Null,
         NEW c, c = t.node[top][side]
  PROVE  /\ Rearranged(t, Rotate(t, side, top), H, key, lo, hi, {top, child}, top, c)
         /\ Rotate(t, side, top).balance = t.balance
         /\ Replaced(t, Rotate(t, side, top), H, side, top, child)
  <1> DEFINE inner  == t.node[child][side]
             parent == t.node[top].parent
             u      == Rotate(t, side, top)
  <1>1. /\ Other(side) \in Sides /\ Other(side) # side /\ "left" \in Sides
        /\ \A s \in Sides : s = side \/ s = Other(side)
    BY SideFields DEF Sides
  <1>2. /\ top \in Blocks /\ child \in H /\ child # top /\ parent # top /\ parent # child
        /\ \A s \in Sides : t.node[child][s] # top
        /\ parent \in Pointer /\ top # Null
        /\ parent # Null => parent \in H
    BY <1>1, NodeFacts
  <1>3. child \in Blocks /\ inner # child /\ inner # top /\ (inner # Null => inner \in H)
    BY <1>1, <1>2, NodeFacts
  <1>4. parent # Null => t.node[parent][Side(t, parent, top)] = top
    BY ParentLink
  <1>5. \A x \in H, s \in Sides : t.node[x][s] = top => x = parent /\ s = Side(t, parent, top)
    <2>1. ASSUME NEW x \in H, NEW s \in Sides, t.node[x][s] = top
          PROVE  x = parent /\ s = Side(t, parent, top)
      <3>1. x = parent
        BY <1>1, <1>2, <2>1, NodeFacts
      <3>2. QED
        BY <1>2, <2>1, <3>1, SideOfChild
    <2>2. QED
      BY <2>1
  <1> HIDE DEF inner, parent
  <1>6. /\ u \in TreeType /\ u.balance = t.balance
        /\ \A x \in Blocks : \A g \in {"next", "previous"} : u.node[x][g] = t.node[x][g]
        /\ \A x \in Blocks : u.node[x].parent =
              IF x = child THEN parent ELSE IF x = top THEN child ELSE IF x = inner THEN top
              ELSE t.node[x].parent
        /\ \A x \in Blocks : \A s \in Sides : u.node[x][s] =
              IF x = child /\ s = side THEN top ELSE IF x = top /\ s = Other(side) THEN inner
              ELSE IF x = parent /\ s = Side(t, parent, top) THEN child ELSE t.node[x][s]
    <2>1. /\ top \in Blocks /\ child # top /\ inner \notin {top, child} /\ parent \notin {top, child}
          /\ inner = t.node[child][side] /\ parent = t.node[top].parent
      BY <1>2, <1>3 DEF inner, parent
    <2>2. IsRotated(t, u, side, top, child, inner, parent)
      BY <2>1, RotateIs
    <2>3. QED
      BY <2>2, ZenonT(60) DEF IsRotated
  <1>7. \E lo2, hi2 : /\ SearchTree(u, "left", H, key, lo2, hi2)
                      /\ \A x \in H \ {top, child} : lo2[x] = lo[x] /\ hi2[x] = hi[x]
                      /\ c # Null => lo2[top] <= lo[c] /\ hi[c] <= hi2[top]
    BY RotateBounds
  <1> HIDE DEF u
  <1>8. H \subseteq Blocks /\ Null \notin H
    BY NullAssumption DEF SearchTree, Shape
  <1>9. ASSUME NEW x \in H, NEW s \in Sides, ~(x = child /\ s = side), ~(x = top /\ s = Other(side))
        PROVE  u.node[x][s] = IF t.node[x][s] = top THEN child ELSE t.node[x][s]
    <2>1. u.node[x][s] = IF x = parent /\ s = Side(t, parent, top) THEN child ELSE t.node[x][s]
      BY <1>6, <1>8, <1>9
    <2>2. x # Null
      BY <1>8
    <2>3. QED
      BY <1>4, <1>5, <2>1, <2>2
  <1>10. ASSUME NEW x \in H \ {top, child}, NEW s \in Sides
         PROVE  u.node[x][s] = Null <=> t.node[x][s] = Null
    BY <1>2, <1>9
  <1>11. ASSUME NEW x \in Blocks \ H, NEW f \in {"left", "right", "parent"}
         PROVE  u.node[x][f] = t.node[x][f]
    <2>1. x # Null /\ x # child /\ x # top /\ x # inner /\ x # parent
      BY <1>2, <1>3, NullAssumption
    <2>2. CASE f = "parent"
      BY <1>6, <2>1, <2>2
    <2>3. CASE f \in Sides
      BY <1>6, <2>1, <2>3
    <2>4. QED
      BY <2>2, <2>3 DEF Sides
  <1>12. Rearranged(t, u, H, key, lo, hi, {top, child}, top, c)
    BY <1>6, <1>7, <1>10, <1>11 DEF Rearranged
  <1>13. Replaced(t, u, H, side, top, child)
    BY <1>9, ZenonT(60) DEF Replaced
  <1>14. QED
    BY <1>6, <1>12, <1>13, ZenonT(60) DEF u

\* The balances are no part of the search tree.
LEMMA SameNodes ==
  ASSUME NEW u, NEW v, v.root = u.root, v.node = u.node, NEW H, NEW key, NEW lo, NEW hi,
         SearchTree(u, "left", H, key, lo, hi)
  PROVE  SearchTree(v, "left", H, key, lo, hi)
  BY DEF SearchTree, Kid, Par

\* The same blocks are marked allocated.
SameMarks(t, v) == \A x \in Blocks : v.balance[x] = "allocated" <=> t.balance[x] = "allocated"

\* Balances other than the allocated mark have no part in it.
LEMMA Rebalanced ==
  ASSUME NEW t, NEW u, NEW v \in TreeType, v.root = u.root, v.node = u.node,
         SameMarks(t, v), NEW H, NEW key, NEW lo, NEW hi, NEW moved, NEW top, NEW c,
         Rearranged(t, u, H, key, lo, hi, moved, top, c)
  PROVE  Rearranged(t, v, H, key, lo, hi, moved, top, c)
  <1>1. PICK lo2, hi2 : /\ SearchTree(u, "left", H, key, lo2, hi2)
                        /\ \A x \in H \ moved : lo2[x] = lo[x] /\ hi2[x] = hi[x]
                        /\ c # Null => lo2[top] <= lo[c] /\ hi[c] <= hi2[top]
    BY DEF Rearranged
  <1>2. SearchTree(v, "left", H, key, lo2, hi2)
    BY <1>1, SameNodes
  <1>3. \E lo3, hi3 : /\ SearchTree(v, "left", H, key, lo3, hi3)
                      /\ \A x \in H \ moved : lo3[x] = lo[x] /\ hi3[x] = hi[x]
                      /\ c # Null => lo3[top] <= lo[c] /\ hi[c] <= hi3[top]
    BY <1>1, <1>2
  <1> DEFINE Kept(w) ==
        /\ \A x \in Blocks : w.node[x].next = t.node[x].next /\ w.node[x].previous = t.node[x].previous
        /\ \A x \in Blocks \ H : \A f \in {"left", "right", "parent"} : w.node[x][f] = t.node[x][f]
        /\ \A x \in H \ moved : \A s \in Sides : w.node[x][s] = Null <=> t.node[x][s] = Null
  <1>4. Kept(v)
    <2>1. Kept(u)
      BY ZenonT(60) DEF Rearranged
    <2>2. v.node = u.node
      OBVIOUS
    <2>3. QED
      BY <2>1, <2>2, ZenonT(60)
  <1>5. \A x \in Blocks : v.balance[x] = "allocated" <=> t.balance[x] = "allocated"
    BY DEF SameMarks
  <1>6. v \in TreeType
    OBVIOUS
  <1>7. QED
    BY <1>3, <1>4, <1>5, <1>6, ZenonT(60) DEF Rearranged

\* The balances of a block in the tree.
LEMMA BalanceTypes == /\ "equal" \in Balances /\ "equal" # "allocated"
                      /\ \A s \in Sides : s \in Balances /\ s # "allocated" /\ Other(s) \in Balances /\ Other(s) # "allocated"
  BY DEF Balances, Sides, Other

\* singleRotate leaves a search tree of the same keys.
LEMMA SingleRotateTree ==
  ASSUME NEW t \in TreeType, NEW side \in Sides, NEW H, NEW key, NEW lo, NEW hi,
         SearchTree(t, "left", H, key, lo, hi),
         NEW top \in H, NEW child, child = t.node[top][Other(side)], child # Null,
         NEW c, c = t.node[top][side],
         t.balance[top] # "allocated", t.balance[child] # "allocated"
  PROVE  Rearranged(t, SingleRotate(t, side, top, child), H, key, lo, hi, {top, child}, top, c)
  <1> DEFINE u == Rotate(t, side, top)
  <1>1. Rearranged(t, u, H, key, lo, hi, {top, child}, top, c) /\ u.balance = t.balance
    BY RotateTree
  <1> DEFINE b1 == IF t.balance[child] = "equal" THEN Other(side) ELSE "equal"
             b2 == IF t.balance[child] = "equal" THEN side ELSE "equal"
             v1 == SetBalance(u, top, b1)
             v2 == SetBalance(v1, child, b2)
  <1>2. top \in Blocks /\ child \in Blocks
    <2>1. "left" \in Sides /\ Other(side) \in Sides
      BY SideFields DEF Sides
    <2>2. top \in Blocks /\ child \in H
      BY <2>1, NodeFacts
    <2>3. QED
      BY <2>1, <2>2, NodeFacts
  <1>3. SingleRotate(t, side, top, child) = v2
    BY DEF SingleRotate
  <1>4. b1 \in Balances /\ b2 \in Balances /\ b1 # "allocated" /\ b2 # "allocated"
    BY BalanceTypes
  <1> HIDE DEF u, b1, b2
  <1>5. u \in TreeType
    BY <1>1 DEF Rearranged
  <1>6. IsBalanced(u, v1, top, b1)
    BY <1>2, <1>4, <1>5, SetBalanceIs
  <1> HIDE DEF v1
  <1>7. IsBalanced(v1, v2, child, b2)
    <2>1. v1 \in TreeType
      BY <1>6, ZenonT(60) DEF IsBalanced
    <2>2. QED
      BY <1>2, <1>4, <2>1, SetBalanceIs
  <1> HIDE DEF v2
  <1>8. SameMarks(t, v2)
    <2>1. ASSUME NEW x \in Blocks
          PROVE  v2.balance[x] = "allocated" <=> t.balance[x] = "allocated"
      <3>1. v1.balance[x] = IF x = top THEN b1 ELSE t.balance[x]
        BY <1>1, <1>6, ZenonT(60) DEF IsBalanced
      <3>2. v2.balance[x] = IF x = child THEN b2 ELSE v1.balance[x]
        BY <1>7, ZenonT(60) DEF IsBalanced
      <3>3. QED
        BY <1>4, <3>1, <3>2, ZenonT(60)
    <2>2. QED
      BY <2>1, ZenonT(60) DEF SameMarks
  <1>9. v2 \in TreeType /\ v2.root = u.root /\ v2.node = u.node
    BY <1>6, <1>7, ZenonT(60) DEF IsBalanced
  <1>10. Rearranged(t, v2, H, key, lo, hi, {top, child}, top, c)
    BY <1>1, <1>8, <1>9, Rebalanced
  <1>11. QED
    BY <1>3, <1>10, ZenonT(60)

\* doubleRotate leaves a search tree of the same keys.
LEMMA DoubleRotateTree ==
  ASSUME NEW t \in TreeType, NEW side \in Sides, NEW H, NEW key, NEW lo, NEW hi,
         SearchTree(t, "left", H, key, lo, hi),
         NEW parent \in H, NEW child, child = t.node[parent][Other(side)], child # Null,
         NEW top, top = t.node[child][side], top # Null,
         NEW c, c = t.node[parent][side],
         t.balance[parent] # "allocated", t.balance[child] # "allocated", t.balance[top] # "allocated"
  PROVE  Rearranged(t, DoubleRotate(t, side, parent, child), H, key, lo, hi, {parent, child, top}, parent, c)
  <1> DEFINE t1 == Rotate(t, Other(side), child)
             u  == Rotate(t1, side, parent)
             b1 == IF t.balance[top] = "right" THEN side ELSE "equal"
             b2 == IF t.balance[top] = "left" THEN Other(side) ELSE "equal"
             v1 == SetBalance(u, parent, b1)
             v2 == SetBalance(v1, child, b2)
             v3 == SetBalance(v2, top, "equal")
             outer == t.node[child][Other(side)]
  <1> HIDE DEF outer, t1, u, b1, b2, v1, v2, v3
  <1>1. /\ Other(side) \in Sides /\ Other(side) # side /\ "left" \in Sides /\ Other(Other(side)) = side
        /\ \A s \in Sides : s = side \/ s = Other(side)
    BY SideFields, ZenonT(60) DEF Sides
  <1>2. /\ parent \in Blocks /\ child \in H /\ child # parent /\ t.node[child].parent = parent
        /\ c # child /\ c # parent /\ (c # Null => c \in H /\ t.node[c].parent = parent)
        /\ top # parent
    <2>1. NodeIn(t, "left", H, key, lo, hi, parent)
      BY <1>1, NodeIs
    <2>2. /\ parent \in Blocks /\ child \in H /\ child # parent /\ t.node[child].parent = parent
          /\ child # c /\ \A r \in Sides : t.node[child][r] # parent
      BY <1>1, <2>1, ZenonT(60) DEF NodeIn
    <2>3. c # parent /\ (c # Null => c \in H /\ t.node[c].parent = parent)
      BY <2>1, ZenonT(60) DEF NodeIn
    <2>4. QED
      BY <2>2, <2>3, ZenonT(60)
  <1>3. /\ child \in Blocks /\ top \in H /\ top # child /\ t.node[top].parent = child
    <2>1. NodeIn(t, "left", H, key, lo, hi, child)
      BY <1>1, <1>2, NodeIs
    <2>2. QED
      BY <2>1, ZenonT(60) DEF NodeIn
  <1>4. top \in Blocks /\ c # top
    <2>1. H \subseteq Blocks
      BY DEF SearchTree, Shape
    <2>2. QED
      BY <1>2, <1>3, <2>1
  <1>5. /\ Rearranged(t, t1, H, key, lo, hi, {child, top}, child, outer)
        /\ t1.balance = t.balance
        /\ t1.node[parent][Other(side)] = top
        /\ t1.node[parent][side] = c
    <2>1. /\ Rearranged(t, t1, H, key, lo, hi, {child, top}, child, outer)
          /\ t1.balance = t.balance
          /\ Replaced(t, t1, H, Other(side), child, top)
      <3> DEFINE across == Other(side)
      <3>1. across \in Sides /\ Other(across) = side
        BY <1>1
      <3> HIDE DEF across
      <3> DEFINE w == Rotate(t, across, child)
      <3>2. top = t.node[child][Other(across)] /\ outer = t.node[child][across]
        BY <3>1, ZenonT(60) DEF across, outer
      <3>3. /\ Rearranged(t, w, H, key, lo, hi, {child, top}, child, outer)
            /\ w.balance = t.balance
            /\ Replaced(t, w, H, across, child, top)
        <4>1. child \in H
          BY <1>2, ZenonT(60)
        <4>2. QED
          BY <3>1, <3>2, <4>1, RotateTree
      <3>4. w = t1
        BY ZenonT(60) DEF across, t1
      <3> HIDE DEF w
      <3>5. QED
        BY <3>1, <3>2, <3>3, <3>4, ZenonT(60) DEF across
    <2>2. \A s \in Sides : t1.node[parent][s] = IF t.node[parent][s] = child THEN top ELSE t.node[parent][s]
      BY <1>2, <1>3, <2>1, ZenonT(60) DEF Replaced
    <2>3. QED
      BY <1>1, <1>2, <2>1, <2>2, ZenonT(60)
  <1>6. t1 \in TreeType
    BY <1>5, ZenonT(60) DEF Rearranged
  <1>7. PICK lo1, hi1 : /\ SearchTree(t1, "left", H, key, lo1, hi1)
                        /\ \A x \in H \ {child, top} : lo1[x] = lo[x] /\ hi1[x] = hi[x]
                        /\ outer # Null => lo1[child] <= lo[outer] /\ hi[outer] <= hi1[child]
    BY <1>5, ZenonT(60) DEF Rearranged
  <1>8. /\ Rearranged(t1, u, H, key, lo1, hi1, {parent, top}, parent, c)
        /\ u.balance = t1.balance
    <2>1. /\ SearchTree(t1, "left", H, key, lo1, hi1)
          /\ top = t1.node[parent][Other(side)] /\ c = t1.node[parent][side]
      BY <1>5, <1>7, ZenonT(60)
    <2>2. /\ Rearranged(t1, Rotate(t1, side, parent), H, key, lo1, hi1, {parent, top}, parent, c)
          /\ Rotate(t1, side, parent).balance = t1.balance
      BY <1>6, <2>1, RotateTree
    <2>3. QED
      BY <2>2, ZenonT(60) DEF u
  <1>9. PICK lo2, hi2 : /\ SearchTree(u, "left", H, key, lo2, hi2)
                        /\ \A x \in H \ {parent, top} : lo2[x] = lo1[x] /\ hi2[x] = hi1[x]
                        /\ c # Null => lo2[parent] <= lo1[c] /\ hi1[c] <= hi2[parent]
    BY <1>8, ZenonT(60) DEF Rearranged
  <1>10. \A x \in H \ {parent, child, top} : lo2[x] = lo[x] /\ hi2[x] = hi[x]
    BY <1>7, <1>9, ZenonT(150)
  <1>11. c # Null => lo2[parent] <= lo[c] /\ hi[c] <= hi2[parent]
    BY <1>2, <1>4, <1>7, <1>9, ZenonT(60)
  <1>12. /\ u \in TreeType /\ u.balance = t.balance
         /\ \A x \in Blocks : u.node[x].next = t.node[x].next /\ u.node[x].previous = t.node[x].previous
         /\ \A x \in Blocks \ H : \A f \in {"left", "right", "parent"} : u.node[x][f] = t.node[x][f]
         /\ \A x \in H \ {parent, child, top} : \A s \in Sides : u.node[x][s] = Null <=> t.node[x][s] = Null
    <2>1. u \in TreeType /\ u.balance = t.balance
      BY <1>5, <1>8, ZenonT(60) DEF Rearranged
    <2>2. /\ \A x \in Blocks : t1.node[x].next = t.node[x].next /\ t1.node[x].previous = t.node[x].previous
          /\ \A x \in Blocks \ H : \A f \in {"left", "right", "parent"} : t1.node[x][f] = t.node[x][f]
          /\ \A x \in H \ {child, top} : \A s \in Sides : t1.node[x][s] = Null <=> t.node[x][s] = Null
      BY <1>5, ZenonT(60) DEF Rearranged
    <2>3. /\ \A x \in Blocks : u.node[x].next = t1.node[x].next /\ u.node[x].previous = t1.node[x].previous
          /\ \A x \in Blocks \ H : \A f \in {"left", "right", "parent"} : u.node[x][f] = t1.node[x][f]
          /\ \A x \in H \ {parent, top} : \A s \in Sides : u.node[x][s] = Null <=> t1.node[x][s] = Null
      BY <1>8, ZenonT(60) DEF Rearranged
    <2>4. \A x \in Blocks : u.node[x].next = t.node[x].next /\ u.node[x].previous = t.node[x].previous
      BY <2>2, <2>3, ZenonT(60)
    <2>5. \A x \in Blocks \ H : \A f \in {"left", "right", "parent"} : u.node[x][f] = t.node[x][f]
      BY <2>2, <2>3, ZenonT(60)
    <2>6. \A x \in H \ {parent, child, top} : \A s \in Sides : u.node[x][s] = Null <=> t.node[x][s] = Null
      BY <2>2, <2>3, ZenonT(60)
    <2>7. QED
      BY <2>1, <2>4, <2>5, <2>6, ZenonT(60)
  <1>13. Rearranged(t, u, H, key, lo, hi, {parent, child, top}, parent, c)
    <2>1. \E lo3, hi3 : /\ SearchTree(u, "left", H, key, lo3, hi3)
                        /\ \A x \in H \ {parent, child, top} : lo3[x] = lo[x] /\ hi3[x] = hi[x]
                        /\ c # Null => lo3[parent] <= lo[c] /\ hi[c] <= hi3[parent]
      BY <1>9, <1>10, <1>11, ZenonT(60)
    <2>2. QED
      BY <1>12, <2>1, ZenonT(60) DEF Rearranged
  <1>14. DoubleRotate(t, side, parent, child) = v3
    BY ZenonT(60) DEF DoubleRotate, t1, u, b1, b2, v1, v2, v3
  <1>15. b1 \in Balances /\ b2 \in Balances /\ b1 # "allocated" /\ b2 # "allocated"
    BY BalanceTypes, SideFields, ZenonT(60) DEF b1, b2
  <1>16. IsBalanced(u, v1, parent, b1)
    <2>1. u \in TreeType /\ parent \in Blocks /\ b1 \in Balances
      BY <1>2, <1>12, <1>15, ZenonT(60)
    <2>2. QED
      BY <2>1, SetBalanceIs DEF v1
  <1>17. IsBalanced(v1, v2, child, b2)
    <2>1. v1 \in TreeType
      BY <1>16, ZenonT(60) DEF IsBalanced
    <2>2. QED
      BY <1>3, <1>15, <2>1, SetBalanceIs DEF v2
  <1>18. IsBalanced(v2, v3, top, "equal")
    <2>1. v2 \in TreeType /\ "equal" \in Balances
      BY <1>17, BalanceTypes, ZenonT(60) DEF IsBalanced
    <2>2. QED
      BY <1>4, <2>1, SetBalanceIs DEF v3
  <1>19. SameMarks(t, v3)
    <2>1. ASSUME NEW x \in Blocks
          PROVE  v3.balance[x] = "allocated" <=> t.balance[x] = "allocated"
      <3>1. v1.balance[x] = IF x = parent THEN b1 ELSE t.balance[x]
        BY <1>12, <1>16, ZenonT(60) DEF IsBalanced
      <3>2. v2.balance[x] = IF x = child THEN b2 ELSE v1.balance[x]
        BY <1>17, ZenonT(60) DEF IsBalanced
      <3>3. v3.balance[x] = IF x = top THEN "equal" ELSE v2.balance[x]
        BY <1>18, ZenonT(60) DEF IsBalanced
      <3>4. QED
        BY <1>15, <3>1, <3>2, <3>3, BalanceTypes, ZenonT(60)
    <2>2. QED
      BY <2>1, ZenonT(60) DEF SameMarks
  <1>20. v3 \in TreeType /\ v3.root = u.root /\ v3.node = u.node
    BY <1>16, <1>17, <1>18, ZenonT(60) DEF IsBalanced
  <1>21. Rearranged(t, v3, H, key, lo, hi, {parent, child, top}, parent, c)
    BY <1>13, <1>19, <1>20, Rebalanced
  <1>22. QED
    BY <1>14, <1>21, ZenonT(60)

-----------------------------------------------------------------------------
(***************************************************************************)
(* The lists, and all that holds of the blocks L that the tree holds.  r   *)
(* is the block that is being removed: it may have another's place.        *)
(***************************************************************************)
\* The first blocks of the lists: those that the tree holds.
Heads(t, L) == {y \in L : t.node[y].previous = Null}

\* Every list has an end: the ranks grow along it.
Lists(t, L, rank) ==
  \A y \in L :
    /\ rank[y] \in Nat
    /\ t.node[y].next # Null => t.node[y].next \in L /\ t.node[t.node[y].next].previous = y
    /\ t.node[y].previous # Null => /\ t.node[y].previous \in L
                                    /\ t.node[t.node[y].previous].next = y
                                    /\ rank[t.node[y].previous] < rank[y]

\* The blocks of a list have one size.
OneSize(t, F, sz) == \A y \in F : t.node[y].next # Null => sz[t.node[y].next] = sz[y]

\* The order of the keys is that of the sizes.
Ordered(H, key, sz) == \A x, y \in H : key[x] < key[y] => sz[x] < sz[y]

\* The blocks outside of the tree point to nothing in it.
Bare(t, H) == \A x \in Blocks \ H : \A f \in {"left", "right", "parent"} : t.node[x][f] = Null

\* The headers are a search tree of their sizes, every other block of L is in the list of one, and the
\* blocks outside of L are marked allocated.
Sound(t, sz, L, r, key, lo, hi, rank) ==
  /\ t \in TreeType
  /\ SearchTree(t, "left", Heads(t, L), key, lo, hi)
  /\ Ordered(Heads(t, L) \ {r}, key, sz)
  /\ Lists(t, L, rank) /\ OneSize(t, L \ {r}, sz)
  /\ Bare(t, Heads(t, L))
  /\ L = {b \in Blocks : t.balance[b] # "allocated"}

\* What most steps need of Sound.
LEMMA SoundFacts ==
  ASSUME NEW t, NEW sz, NEW L, NEW r, NEW key, NEW lo, NEW hi, NEW rank, Sound(t, sz, L, r, key, lo, hi, rank)
  PROVE  /\ t \in TreeType /\ L \subseteq Blocks /\ Heads(t, L) \subseteq L /\ Null \notin L
         /\ \A x \in Blocks : t.balance[x] # "allocated" <=> x \in L
         /\ t.root \in Heads(t, L) \cup {Null} /\ (t.root = Null => L = {})
         /\ \A x \in Blocks, f \in Fields : t.node[x][f] \in Pointer
  <1>1. t \in TreeType /\ L \subseteq Blocks /\ Heads(t, L) \subseteq L /\ Null \notin L
    BY NullAssumption DEF Sound, Heads
  <1>2. \A x \in Blocks : t.balance[x] # "allocated" <=> x \in L
    BY DEF Sound
  <1>3. t.root \in Heads(t, L) \cup {Null} /\ (t.root = Null => Heads(t, L) = {})
    BY DEF Sound, SearchTree, Shape
  <1>4. ASSUME Heads(t, L) = {}
        PROVE  L = {}
    <2> DEFINE T == {rank[y] : y \in L}
    <2>1. \A y \in L : /\ t.node[y].previous # Null /\ rank[y] \in Nat
                       /\ t.node[y].previous \in L /\ rank[t.node[y].previous] < rank[y]
      BY <1>4 DEF Heads, Sound, Lists
    <2>2. T \subseteq Nat
      BY <2>1
    <2>3. ASSUME L # {}
          PROVE  FALSE
      <3>1. T # {}
        BY <2>3
      <3>2. PICK n \in T : \A m \in T : n <= m
        <4> HIDE DEF T
        <4>1. QED
          BY <2>2, <3>1, NatMin
      <3>3. PICK y \in L : n = rank[y]
        BY <3>2
      <3>4. t.node[y].previous \in L /\ rank[t.node[y].previous] \in T /\ rank[t.node[y].previous] < n
        BY <2>1, <3>3
      <3> HIDE DEF T
      <3>5. rank[t.node[y].previous] \in Nat /\ n \in Nat
        BY <2>2, <3>2, <3>4
      <3>6. n <= rank[t.node[y].previous]
        BY <3>2, <3>4, ZenonT(60)
      <3>7. QED
        BY <3>4, <3>5, <3>6
    <2>4. QED
      BY <2>3
  <1>5. QED
    BY <1>1, <1>2, <1>3, <1>4, FieldTypes

\* Only the structure of the nodes changes.
LEMMA RearrangedSound ==
  ASSUME NEW t, NEW sz, NEW L, NEW r, NEW key, NEW lo, NEW hi, NEW rank, Sound(t, sz, L, r, key, lo, hi, rank),
         NEW u, NEW moved, NEW top, NEW c, Rearranged(t, u, Heads(t, L), key, lo, hi, moved, top, c)
  PROVE  /\ Heads(u, L) = Heads(t, L)
         /\ \E lo2, hi2 : /\ Sound(u, sz, L, r, key, lo2, hi2, rank)
                          /\ \A x \in Heads(t, L) \ moved : lo2[x] = lo[x] /\ hi2[x] = hi[x]
                          /\ c # Null => lo2[top] <= lo[c] /\ hi[c] <= hi2[top]
  <1>1. /\ L \subseteq Blocks /\ Null \notin L
    BY SoundFacts
  <1>2. /\ u \in TreeType
        /\ \A x \in Blocks : u.node[x].next = t.node[x].next /\ u.node[x].previous = t.node[x].previous
        /\ \A x \in Blocks : u.balance[x] = "allocated" <=> t.balance[x] = "allocated"
        /\ \A x \in Blocks \ Heads(t, L) : \A f \in {"left", "right", "parent"} : u.node[x][f] = t.node[x][f]
    BY DEF Rearranged
  <1>3. Heads(u, L) = Heads(t, L)
    BY <1>1, <1>2 DEF Heads
  <1>4. PICK lo2, hi2 : /\ SearchTree(u, "left", Heads(t, L), key, lo2, hi2)
                        /\ \A x \in Heads(t, L) \ moved : lo2[x] = lo[x] /\ hi2[x] = hi[x]
                        /\ c # Null => lo2[top] <= lo[c] /\ hi[c] <= hi2[top]
    BY DEF Rearranged
  <1>5. Lists(t, L, rank) /\ OneSize(t, L \ {r}, sz) /\ Bare(t, Heads(t, L)) /\ Ordered(Heads(t, L) \ {r}, key, sz)
    BY DEF Sound
  <1>6. Lists(u, L, rank)
    <2>1. ASSUME NEW y \in L
          PROVE  /\ rank[y] \in Nat
                 /\ u.node[y].next # Null => u.node[y].next \in L /\ u.node[u.node[y].next].previous = y
                 /\ u.node[y].previous # Null => /\ u.node[y].previous \in L
                                                 /\ u.node[u.node[y].previous].next = y
                                                 /\ rank[u.node[y].previous] < rank[y]
      <3>1. /\ rank[y] \in Nat /\ y \in Blocks
            /\ t.node[y].next # Null => /\ t.node[y].next \in L /\ t.node[y].next \in Blocks
                                        /\ t.node[t.node[y].next].previous = y
            /\ t.node[y].previous # Null => /\ t.node[y].previous \in L /\ t.node[y].previous \in Blocks
                                            /\ t.node[t.node[y].previous].next = y
                                            /\ rank[t.node[y].previous] < rank[y]
        BY <1>1, <1>5 DEF Lists
      <3>2. u.node[y].next = t.node[y].next /\ u.node[y].previous = t.node[y].previous
        BY <1>2, <3>1
      <3>3. QED
        BY <1>2, <3>1, <3>2
    <2>2. QED
      BY <2>1 DEF Lists
  <1>7. OneSize(u, L \ {r}, sz)
    BY <1>1, <1>2, <1>5 DEF OneSize
  <1>8. Bare(u, Heads(t, L))
    BY <1>2, <1>5 DEF Bare
  <1>9. L = {b \in Blocks : u.balance[b] # "allocated"}
    BY <1>1, <1>2, SoundFacts
  <1>10. Sound(u, sz, L, r, key, lo2, hi2, rank)
    BY <1>2, <1>3, <1>4, <1>5, <1>6, <1>7, <1>8, <1>9 DEF Sound
  <1>11. QED
    BY <1>3, <1>4, <1>10

\* Only a balance changes.
LEMMA BalancedSound ==
  ASSUME NEW t, NEW sz, NEW L, NEW r, NEW key, NEW lo, NEW hi, NEW rank, Sound(t, sz, L, r, key, lo, hi, rank),
         NEW x \in L, NEW v \in Balances, v # "allocated"
  PROVE  /\ Sound(SetBalance(t, x, v), sz, L, r, key, lo, hi, rank)
         /\ SetBalance(t, x, v).node = t.node /\ SetBalance(t, x, v).root = t.root
         /\ Heads(SetBalance(t, x, v), L) = Heads(t, L)
         /\ \A y \in Blocks : SetBalance(t, x, v).balance[y] = IF y = x THEN v ELSE t.balance[y]
  <1> DEFINE u == SetBalance(t, x, v)
  <1>1. x \in Blocks /\ t \in TreeType /\ L \subseteq Blocks /\ \A y \in Blocks : t.balance[y] # "allocated" <=> y \in L
    BY SoundFacts
  <1>2. /\ u \in TreeType /\ u.node = t.node /\ u.root = t.root
        /\ \A y \in Blocks : u.balance[y] = IF y = x THEN v ELSE t.balance[y]
    BY <1>1, SetBalanceFields
  <1> HIDE DEF u
  <1>3. Heads(u, L) = Heads(t, L)
    BY <1>2 DEF Heads
  <1>4. L = {b \in Blocks : u.balance[b] # "allocated"}
    BY <1>1, <1>2
  <1>5. SearchTree(u, "left", Heads(t, L), key, lo, hi)
    BY <1>2, SameNodes DEF Sound
  <1>6. Lists(u, L, rank) /\ OneSize(u, L \ {r}, sz) /\ Bare(u, Heads(t, L)) /\ Ordered(Heads(t, L) \ {r}, key, sz)
    <2>1. Lists(t, L, rank) /\ OneSize(t, L \ {r}, sz) /\ Bare(t, Heads(t, L)) /\ Ordered(Heads(t, L) \ {r}, key, sz)
      BY DEF Sound
    <2>2. QED
      BY <1>2, <2>1 DEF Lists, OneSize, Bare
  <1>7. Sound(u, sz, L, r, key, lo, hi, rank)
    BY <1>2, <1>3, <1>4, <1>5, <1>6 DEF Sound
  <1>8. QED
    BY <1>2, <1>3, <1>7 DEF u

\* The lists are no part of the search tree either.
SameTree(t, u) ==
  /\ u.root = t.root
  /\ \A x \in Blocks, f \in {"left", "right", "parent"} : u.node[x][f] = t.node[x][f]

\* A search tree depends on those pointers alone.
LEMMA SameKids ==
  ASSUME NEW t, NEW u, SameTree(t, u), NEW H, NEW key, NEW lo, NEW hi, SearchTree(t, "left", H, key, lo, hi)
  PROVE  SearchTree(u, "left", H, key, lo, hi)
  <1>1. Kid(u, "left") = Kid(t, "left") /\ Kid(u, "right") = Kid(t, "right") /\ Par(u) = Par(t)
    BY DEF Kid, Par, SameTree
  <1>2. Other("left") = "right"
    BY DEF Other
  <1>3. QED
    BY <1>1, <1>2 DEF SearchTree, SameTree

\* emplace and the size of a block that is inserted, before it is linked.
Placed(t, b) == [t EXCEPT !.node[b] = NewNode, !.balance[b] = "equal"]

\* What emplace writes.
LEMMA PlacedFields ==
  ASSUME NEW t \in TreeType, NEW h \in Blocks
  PROVE  /\ Placed(t, h) \in TreeType /\ Placed(t, h).root = t.root
         /\ \A x \in Blocks : Placed(t, h).balance[x] = IF x = h THEN "equal" ELSE t.balance[x]
         /\ \A x \in Blocks : \A g \in Fields :
              Placed(t, h).node[x][g] = IF x = h THEN Null ELSE t.node[x][g]
  <1> DEFINE u == [t EXCEPT !.node[h] = NewNode]
  <1>1. /\ u \in TreeType /\ u.root = t.root /\ u.balance = t.balance /\ u.node[h] = NewNode
        /\ \A x \in Blocks \ {h} : u.node[x] = t.node[x]
    BY NewNodeType, NodeUpdate
  <1>2. Placed(t, h) = SetBalance(u, h, "equal")
    BY DEF Placed, SetBalance
  <1> HIDE DEF u
  <1>3. "equal" \in Balances
    BY DEF Balances
  <1>4. QED
    BY <1>1, <1>2, <1>3, SetBalanceFields, NewNodeType

\* A block that is not the first of its list leaves.
LEMMA TwinLeaves ==
  ASSUME NEW t, NEW sz, NEW L, NEW key, NEW lo, NEW hi, NEW rank, Sound(t, sz, L, Null, key, lo, hi, rank),
         NEW w \in L, NEW p, p = t.node[w].previous, p # Null, NEW n, n = t.node[w].next,
         NEW u, u = Leave(Set(Set(t, p, "next", n), n, "previous", p), w)
  PROVE  Sound(u, sz, L \ {w}, Null, key, lo, hi, rank)
  <1>1. /\ t \in TreeType /\ L \subseteq Blocks /\ Null \notin L
        /\ \A x \in Blocks : t.balance[x] # "allocated" <=> x \in L
        /\ \A x \in Blocks, f \in Fields : t.node[x][f] \in Pointer
    BY SoundFacts, ZenonT(60)
  <1>2. /\ \A y \in L :
             /\ rank[y] \in Nat
             /\ t.node[y].next # Null => t.node[y].next \in L /\ t.node[t.node[y].next].previous = y
             /\ t.node[y].previous # Null => /\ t.node[y].previous \in L
                                             /\ t.node[t.node[y].previous].next = y
                                             /\ rank[t.node[y].previous] < rank[y]
        /\ OneSize(t, L \ {Null}, sz) /\ Bare(t, Heads(t, L)) /\ Ordered(Heads(t, L) \ {Null}, key, sz)
        /\ SearchTree(t, "left", Heads(t, L), key, lo, hi)
    BY ZenonT(60) DEF Sound, Lists
  <1>3. /\ w \in Blocks /\ p \in L /\ p # w /\ t.node[p].next = w /\ n # w /\ n # p
        /\ n # Null => n \in L /\ t.node[n].previous = w /\ rank[w] < rank[n] /\ rank[n] \in Nat
    <2>1. p \in L /\ t.node[p].next = w /\ rank[p] < rank[w] /\ rank[p] \in Nat /\ rank[w] \in Nat /\ w \in Blocks
      BY <1>1, <1>2
    <2>2. n # Null => n \in L /\ t.node[n].previous = w
      BY <1>2
    <2>3. n # Null => rank[w] < rank[n] /\ rank[n] \in Nat
      BY <1>1, <1>2, <2>2
    <2>4. QED
      BY <1>1, <2>1, <2>2, <2>3
  <1>4. /\ "next" \in Fields /\ "previous" \in Fields /\ p \in Pointer /\ n \in Pointer
        /\ {"left", "right", "parent"} \subseteq Fields
    BY <1>1, <1>3 DEF Fields, Pointer
  <1> DEFINE t1 == Set(t, p, "next", n)
             t2 == Set(t1, n, "previous", p)
  <1>5. IsSet(t, t1, p, "next", n)
    BY <1>1, <1>4, SetFields
  <1> HIDE DEF t1
  <1>6. t1 \in TreeType
    BY <1>5 DEF IsSet
  <1>7. IsSet(t1, t2, n, "previous", p)
    BY <1>4, <1>6, SetFields
  <1> HIDE DEF t2
  <1>8. t2 \in TreeType
    BY <1>7, ZenonT(60) DEF IsSet
  <1>9. /\ u \in TreeType /\ u.root = t2.root
        /\ \A x \in Blocks : u.balance[x] = IF x = w THEN "allocated" ELSE t2.balance[x]
        /\ \A x \in Blocks : \A g \in Fields : u.node[x][g] = IF x = w THEN Null ELSE t2.node[x][g]
    <2>1. IsLeft(t2, Leave(t2, w), w)
      BY <1>3, <1>8, LeaveIs
    <2>2. u = Leave(t2, w)
      BY ZenonT(60) DEF t1, t2
    <2>3. IsLeft(t2, u, w)
      BY <2>1, <2>2, ZenonT(60)
    <2>4. QED
      BY <2>3, ZenonT(60) DEF IsLeft
  <1>10. u.root = t.root /\ \A x \in Blocks : u.balance[x] = IF x = w THEN "allocated" ELSE t.balance[x]
    <2>1. t2.root = t.root /\ t2.balance = t.balance
      BY <1>5, <1>7, ZenonT(60) DEF IsSet
    <2>2. QED
      BY <1>9, <2>1, ZenonT(60)
  <1>11. ASSUME NEW x \in Blocks
         PROVE  /\ u.node[x].next = IF x = w THEN Null ELSE IF x = p THEN n ELSE t.node[x].next
                /\ u.node[x].previous = IF x = w THEN Null ELSE IF x = n THEN p ELSE t.node[x].previous
    <2>1. /\ u.node[x]["next"] = IF x = w THEN Null ELSE t2.node[x]["next"]
          /\ u.node[x]["previous"] = IF x = w THEN Null ELSE t2.node[x]["previous"]
      BY <1>4, <1>9, ZenonT(60)
    <2>2. /\ t2.node[x]["next"] = t1.node[x]["next"]
          /\ t2.node[x]["previous"] = IF x = n THEN p ELSE t1.node[x]["previous"]
      BY <1>4, <1>7 DEF IsSet
    <2>3. /\ t1.node[x]["next"] = IF x = p THEN n ELSE t.node[x]["next"]
          /\ t1.node[x]["previous"] = t.node[x]["previous"]
      BY <1>4, <1>5 DEF IsSet
    <2>4. QED
      BY <2>1, <2>2, <2>3, ZenonT(60)
  <1>12. w \notin Heads(t, L)
    BY <1>3, ZenonT(60) DEF Heads
  <1>13. \A x \in Blocks, f \in {"left", "right", "parent"} : u.node[x][f] = t.node[x][f]
    <2>1. ASSUME NEW x \in Blocks, NEW f \in {"left", "right", "parent"}
          PROVE  u.node[x][f] = t.node[x][f]
      <3>1. f \in Fields /\ f # "next" /\ f # "previous"
        BY <1>4
      <3>2. t2.node[x][f] = t.node[x][f]
        BY <1>5, <1>7, <3>1 DEF IsSet
      <3>3. x = w => t.node[x][f] = Null
        BY <1>2, <1>12, ZenonT(60) DEF Bare
      <3>4. QED
        BY <1>9, <3>1, <3>2, <3>3, ZenonT(60)
    <2>2. QED
      BY <2>1, ZenonT(60)
  <1>14. Heads(u, L \ {w}) = Heads(t, L)
    <2>1. ASSUME NEW x \in L \ {w}
          PROVE  u.node[x].previous = Null <=> t.node[x].previous = Null
      <3>1. x \in Blocks /\ x # w /\ x # Null
        BY <1>1, <2>1, ZenonT(60)
      <3>2. u.node[x].previous = IF x = n THEN p ELSE t.node[x].previous
        BY <1>11, <3>1, ZenonT(60)
      <3>3. CASE x = n
        <4>1. t.node[x].previous = w /\ w # Null
          BY <1>1, <1>3, <3>1, <3>3, ZenonT(60)
        <4>2. u.node[x].previous = p
          BY <3>2, <3>3, ZenonT(60)
        <4>3. QED
          BY <4>1, <4>2, ZenonT(60)
      <3>4. CASE x # n
        BY <3>2, <3>4, ZenonT(60)
      <3>5. QED
        BY <3>3, <3>4, ZenonT(60)
    <2>2. QED
      BY <1>12, <2>1, ZenonT(60) DEF Heads
  <1>15. SearchTree(u, "left", Heads(t, L), key, lo, hi)
    <2>1. SameTree(t, u)
      BY <1>10, <1>13, ZenonT(60) DEF SameTree
    <2>2. QED
      BY <1>2, <2>1, SameKids
  <1>16. ASSUME NEW y \in L \ {w}
         PROVE  /\ rank[y] \in Nat
                /\ u.node[y].next # Null => u.node[y].next \in L \ {w} /\ u.node[u.node[y].next].previous = y
                /\ u.node[y].previous # Null => /\ u.node[y].previous \in L \ {w}
                                                /\ u.node[u.node[y].previous].next = y
                                                /\ rank[u.node[y].previous] < rank[y]
    <2>1. /\ y \in Blocks /\ rank[y] \in Nat /\ rank[w] \in Nat /\ rank[p] \in Nat /\ rank[p] < rank[w]
      BY <1>1, <1>2, <1>3
    <2>2. ASSUME u.node[y].next # Null
          PROVE  u.node[y].next \in L \ {w} /\ u.node[u.node[y].next].previous = y
      <3>1. CASE y = p
        BY <1>1, <1>3, <1>11, <2>1, <2>2, <3>1, ZenonT(150)
      <3>2. CASE y # p
        <4>1. /\ u.node[y].next = t.node[y].next /\ t.node[y].next \in L
              /\ t.node[t.node[y].next].previous = y
          BY <1>2, <1>11, <2>1, <2>2, <3>2, ZenonT(150)
        <4>2. t.node[y].next # w /\ t.node[y].next # n
          BY <1>3, <3>2, <4>1, <2>2, ZenonT(60)
        <4>3. QED
          BY <1>1, <1>11, <4>1, <4>2, ZenonT(150)
      <3>3. QED
        BY <3>1, <3>2, ZenonT(60)
    <2>3. ASSUME u.node[y].previous # Null
          PROVE  /\ u.node[y].previous \in L \ {w} /\ u.node[u.node[y].previous].next = y
                 /\ rank[u.node[y].previous] < rank[y]
      <3>1. CASE y = n
        <4>1. u.node[y].previous = p /\ u.node[p].next = n
          BY <1>1, <1>3, <1>11, <2>1, <3>1, ZenonT(60)
        <4>2. rank[w] < rank[n] /\ rank[n] \in Nat
          BY <1>1, <1>3, <3>1
        <4>3. rank[p] < rank[n]
          BY <2>1, <4>2
        <4>4. QED
          BY <1>3, <3>1, <4>1, <4>3, ZenonT(60)
      <3>2. CASE y # n
        <4>1. /\ u.node[y].previous = t.node[y].previous /\ t.node[y].previous \in L
              /\ t.node[t.node[y].previous].next = y /\ rank[t.node[y].previous] < rank[y]
          BY <1>2, <1>11, <2>1, <2>3, <3>2, ZenonT(60)
        <4>2. t.node[y].previous # w /\ t.node[y].previous # p
          BY <1>3, <3>2, <4>1
        <4>3. QED
          BY <1>1, <1>11, <4>1, <4>2, ZenonT(150)
      <3>3. QED
        BY <3>1, <3>2, ZenonT(60)
    <2>4. QED
      BY <2>1, <2>2, <2>3, ZenonT(60)
  <1>17. Lists(u, L \ {w}, rank)
    BY <1>16, ZenonT(60) DEF Lists
  <1>18. OneSize(u, (L \ {w}) \ {Null}, sz)
    <2>1. ASSUME NEW y \in L \ {w}, u.node[y].next # Null
          PROVE  sz[u.node[y].next] = sz[y]
      <3>1. \A z \in L : t.node[z].next # Null => sz[t.node[z].next] = sz[z]
        BY <1>1, <1>2, ZenonT(60) DEF OneSize
      <3>2. u.node[y].next = IF y = p THEN n ELSE t.node[y].next
        <4>1. y \in Blocks /\ y # w
          BY <1>1, <2>1
        <4>2. QED
          BY <1>11, <4>1, ZenonT(60)
      <3>3. CASE y = p
        <4>1. u.node[y].next = n /\ n # Null
          BY <2>1, <3>2, <3>3, ZenonT(60)
        <4>2. sz[n] = sz[w]
          BY <3>1, <4>1, ZenonT(60)
        <4>3. sz[w] = sz[p]
          <5>1. p \in L /\ t.node[p].next = w /\ w # Null
            BY <1>1, <1>3, ZenonT(60)
          <5>2. QED
            BY <3>1, <5>1, ZenonT(60)
        <4>4. QED
          BY <3>3, <4>1, <4>2, <4>3, ZenonT(60)
      <3>4. CASE y # p
        <4>1. u.node[y].next = t.node[y].next
          BY <3>2, <3>4, ZenonT(60)
        <4>2. QED
          BY <2>1, <3>1, <4>1, ZenonT(60)
      <3>5. QED
        BY <3>3, <3>4, ZenonT(60)
    <2>2. QED
      BY <2>1, ZenonT(60) DEF OneSize
  <1>19. Bare(u, Heads(t, L))
    <2>1. ASSUME NEW x \in Blocks \ Heads(t, L), NEW f \in {"left", "right", "parent"}
          PROVE  u.node[x][f] = Null
      <3>1. t.node[x][f] = Null
        BY <1>2, ZenonT(60) DEF Bare
      <3>2. QED
        BY <1>13, <3>1, ZenonT(60)
    <2>2. QED
      BY <2>1, ZenonT(60) DEF Bare
  <1>20. L \ {w} = {b \in Blocks : u.balance[b] # "allocated"}
    <2>1. ASSUME NEW b \in Blocks
          PROVE  b \in L \ {w} <=> u.balance[b] # "allocated"
      <3>1. u.balance[b] = IF b = w THEN "allocated" ELSE t.balance[b]
        BY <1>10, ZenonT(60)
      <3>2. t.balance[b] # "allocated" <=> b \in L
        BY <1>1, ZenonT(60)
      <3>3. QED
        BY <3>1, <3>2, ZenonT(60)
    <2>2. QED
      BY <1>1, <2>1, ZenonT(60)
  <1>21. QED
    BY <1>2, <1>9, <1>14, <1>15, <1>17, <1>18, <1>19, <1>20, ZenonT(60) DEF Sound

\* A block of the same size enters behind the first of its list.
LEMMA TwinEnters ==
  ASSUME NEW t, NEW sz, NEW L, NEW key, NEW lo, NEW hi, NEW rank, Sound(t, sz, L, Null, key, lo, hi, rank),
         NEW b \in Blocks \ L, NEW p \in Heads(t, L), sz[b] = sz[p], NEW n, n = t.node[p].next,
         NEW u, u = Set(Set(Set(Set(Placed(t, b), b, "next", n), n, "previous", b), p, "next", b), b, "previous", p)
  PROVE  \E rank2 : Sound(u, sz, L \cup {b}, Null, key, lo, hi, rank2)
  <1>1. /\ t \in TreeType /\ L \subseteq Blocks /\ Null \notin L /\ Heads(t, L) \subseteq L
        /\ \A x \in Blocks : t.balance[x] # "allocated" <=> x \in L
        /\ \A x \in Blocks, f \in Fields : t.node[x][f] \in Pointer
    BY SoundFacts, ZenonT(60)
  <1>2. /\ \A y \in L :
             /\ rank[y] \in Nat
             /\ t.node[y].next # Null => t.node[y].next \in L /\ t.node[t.node[y].next].previous = y
             /\ t.node[y].previous # Null => /\ t.node[y].previous \in L
                                             /\ t.node[t.node[y].previous].next = y
                                             /\ rank[t.node[y].previous] < rank[y]
        /\ OneSize(t, L \ {Null}, sz) /\ Bare(t, Heads(t, L)) /\ Ordered(Heads(t, L) \ {Null}, key, sz)
        /\ SearchTree(t, "left", Heads(t, L), key, lo, hi)
    BY ZenonT(60) DEF Sound, Lists
  <1>3. /\ p \in L /\ p \in Blocks /\ p # b /\ n # b /\ n # p /\ b # Null /\ t.node[p].previous = Null
        /\ rank[p] \in Nat
        /\ n # Null => n \in L /\ t.node[n].previous = p /\ rank[p] < rank[n] /\ rank[n] \in Nat
    <2>1. p \in L /\ p \in Blocks /\ rank[p] \in Nat /\ p # b /\ b # Null /\ t.node[p].previous = Null
      BY <1>1, <1>2, NullAssumption DEF Heads
    <2>2. n # Null => n \in L /\ t.node[n].previous = p
      BY <1>2, <2>1
    <2>3. n # Null => rank[p] < rank[n] /\ rank[n] \in Nat
      BY <1>1, <1>2, <2>1, <2>2
    <2>4. QED
      BY <1>1, <2>1, <2>2, <2>3
  <1>4. /\ "next" \in Fields /\ "previous" \in Fields /\ p \in Pointer /\ n \in Pointer /\ b \in Pointer
        /\ {"left", "right", "parent"} \subseteq Fields
    BY <1>1, <1>3 DEF Fields, Pointer
  <1> DEFINE t0 == Placed(t, b)
             t1 == Set(t0, b, "next", n)
             t2 == Set(t1, n, "previous", b)
             t3 == Set(t2, p, "next", b)
  <1>5. /\ t0 \in TreeType /\ t0.root = t.root
        /\ \A x \in Blocks : t0.balance[x] = IF x = b THEN "equal" ELSE t.balance[x]
        /\ \A x \in Blocks : \A g \in Fields : t0.node[x][g] = IF x = b THEN Null ELSE t.node[x][g]
    BY <1>1, PlacedFields
  <1> HIDE DEF t0
  <1>6. IsSet(t0, t1, b, "next", n)
    BY <1>4, <1>5, SetFields
  <1> HIDE DEF t1
  <1>7. t1 \in TreeType
    BY <1>6 DEF IsSet
  <1>8. IsSet(t1, t2, n, "previous", b)
    BY <1>4, <1>7, SetFields
  <1> HIDE DEF t2
  <1>9. t2 \in TreeType
    BY <1>8 DEF IsSet
  <1>10. IsSet(t2, t3, p, "next", b)
    BY <1>4, <1>9, SetFields
  <1> HIDE DEF t3
  <1>11. t3 \in TreeType
    BY <1>10 DEF IsSet
  <1>12. IsSet(t3, u, b, "previous", p)
    BY <1>4, <1>11, SetFields, ZenonT(60) DEF t0, t1, t2, t3
  <1>13. /\ u \in TreeType /\ u.root = t.root
         /\ \A x \in Blocks : u.balance[x] = IF x = b THEN "equal" ELSE t.balance[x]
    <2>1. t2.root = t0.root /\ t2.balance = t0.balance
      BY <1>6, <1>8, ZenonT(60) DEF IsSet
    <2>2. u \in TreeType /\ u.root = t2.root /\ u.balance = t2.balance
      BY <1>10, <1>12, ZenonT(60) DEF IsSet
    <2>3. QED
      BY <1>5, <2>1, <2>2, ZenonT(60)
  <1>14. ASSUME NEW x \in Blocks
         PROVE  /\ u.node[x].next = IF x = p THEN b ELSE IF x = b THEN n ELSE t.node[x].next
                /\ u.node[x].previous = IF x = b THEN p ELSE IF x = n THEN b ELSE t.node[x].previous
    <2>1. /\ u.node[x]["next"] = t3.node[x]["next"]
          /\ u.node[x]["previous"] = IF x = b THEN p ELSE t3.node[x]["previous"]
      BY <1>4, <1>12, ZenonT(60) DEF IsSet
    <2>2. /\ t3.node[x]["next"] = IF x = p THEN b ELSE t2.node[x]["next"]
          /\ t3.node[x]["previous"] = t2.node[x]["previous"]
      BY <1>4, <1>10 DEF IsSet
    <2>3. /\ t2.node[x]["next"] = t1.node[x]["next"]
          /\ t2.node[x]["previous"] = IF x = n THEN b ELSE t1.node[x]["previous"]
      BY <1>4, <1>8 DEF IsSet
    <2>4. /\ t1.node[x]["next"] = IF x = b THEN n ELSE t0.node[x]["next"]
          /\ t1.node[x]["previous"] = t0.node[x]["previous"]
      BY <1>4, <1>6 DEF IsSet
    <2>5. x # b => t0.node[x]["next"] = t.node[x]["next"] /\ t0.node[x]["previous"] = t.node[x]["previous"]
      BY <1>4, <1>5
    <2>6. QED
      BY <2>1, <2>2, <2>3, <2>4, <2>5, ZenonT(60)
  <1>15. b \notin Heads(t, L)
    BY <1>1, ZenonT(60)
  <1>16. SameTree(t, u)
    <2>1. ASSUME NEW x \in Blocks, NEW f \in {"left", "right", "parent"}
          PROVE  u.node[x][f] = t.node[x][f]
      <3>1. f \in Fields /\ f # "next" /\ f # "previous"
        BY <1>4
      <3>2. u.node[x][f] = t2.node[x][f]
        BY <1>10, <1>12, <3>1, ZenonT(60) DEF IsSet
      <3>3. t2.node[x][f] = t0.node[x][f]
        BY <1>6, <1>8, <3>1 DEF IsSet
      <3>4. t0.node[x][f] = IF x = b THEN Null ELSE t.node[x][f]
        BY <1>5, <3>1
      <3>5. x = b => t.node[x][f] = Null
        BY <1>2, <1>15, ZenonT(60) DEF Bare
      <3>6. QED
        BY <3>2, <3>3, <3>4, <3>5
    <2>2. QED
      BY <1>13, <2>1, ZenonT(60) DEF SameTree
  <1>17. Heads(u, L \cup {b}) = Heads(t, L)
    <2>1. ASSUME NEW x \in L
          PROVE  u.node[x].previous = Null <=> t.node[x].previous = Null
      <3>1. x \in Blocks /\ x # b
        BY <1>1, ZenonT(60)
      <3>2. CASE x = n
        BY <1>1, <1>3, <1>14, <3>1, <3>2, ZenonT(60)
      <3>3. CASE x # n
        BY <1>14, <3>1, <3>3, ZenonT(60)
      <3>4. QED
        BY <3>2, <3>3
    <2>2. u.node[b].previous # Null
      BY <1>1, <1>3, <1>14, ZenonT(60)
    <2>3. QED
      BY <1>15, <2>1, <2>2, ZenonT(60) DEF Heads
  <1>18. SearchTree(u, "left", Heads(t, L), key, lo, hi)
    BY <1>2, <1>16, SameKids
  <1> DEFINE rank2 == [x \in Blocks |-> IF x = b THEN 2 * rank[p] + 1 ELSE 2 * rank[x]]
  <1>19. /\ rank2[b] = 2 * rank[p] + 1 /\ rank2[b] \in Nat
         /\ \A x \in L : rank2[x] = 2 * rank[x] /\ rank2[x] \in Nat
    <2>1. \A x \in L : rank[x] \in Nat /\ x \in Blocks /\ x # b
      BY <1>1, <1>2
    <2>2. QED
      BY <1>3, <2>1
  <1> HIDE DEF rank2
  <1>20. ASSUME NEW y \in L \cup {b}
         PROVE  /\ rank2[y] \in Nat
                /\ u.node[y].next # Null => u.node[y].next \in L \cup {b} /\ u.node[u.node[y].next].previous = y
                /\ u.node[y].previous # Null => /\ u.node[y].previous \in L \cup {b}
                                                /\ u.node[u.node[y].previous].next = y
                                                /\ rank2[u.node[y].previous] < rank2[y]
    <2>1. CASE y = b
      <3>1. u.node[y].next = n /\ u.node[y].previous = p /\ u.node[p].next = b
        BY <1>3, <1>14, <2>1, ZenonT(60)
      <3>2. n # Null => u.node[n].previous = b
        BY <1>1, <1>3, <1>14, ZenonT(60)
      <3>3. rank2[p] < rank2[b]
        BY <1>3, <1>19
      <3>4. QED
        BY <1>3, <1>19, <2>1, <3>1, <3>2, <3>3, ZenonT(60)
    <2>2. CASE y # b
      <3>1. y \in L /\ y \in Blocks /\ rank2[y] \in Nat
        BY <1>1, <1>19, <2>2
      <3>2. ASSUME u.node[y].next # Null
            PROVE  u.node[y].next \in L \cup {b} /\ u.node[u.node[y].next].previous = y
        <4>1. CASE y = p
          BY <1>3, <1>14, <4>1, ZenonT(150)
        <4>2. CASE y # p
          <5>1. u.node[y].next = t.node[y].next /\ t.node[y].next \in L /\ t.node[t.node[y].next].previous = y
            BY <1>2, <1>14, <2>2, <3>1, <3>2, <4>2, ZenonT(60)
          <5>2. t.node[y].next # n /\ t.node[y].next # b /\ t.node[y].next \in Blocks
            BY <1>1, <1>3, <4>2, <5>1
          <5>3. QED
            BY <1>14, <5>1, <5>2, ZenonT(60)
        <4>3. QED
          BY <4>1, <4>2, ZenonT(60)
      <3>3. ASSUME u.node[y].previous # Null
            PROVE  /\ u.node[y].previous \in L \cup {b} /\ u.node[u.node[y].previous].next = y
                   /\ rank2[u.node[y].previous] < rank2[y]
        <4>1. CASE y = n
          <5>1. u.node[y].previous = b /\ u.node[b].next = n
            BY <1>3, <1>14, <2>2, <3>1, <4>1, ZenonT(60)
          <5>2. rank[p] < rank[n] /\ rank[n] \in Nat /\ rank2[n] = 2 * rank[n]
            BY <1>1, <1>3, <1>19, <3>1, <4>1
          <5>3. rank2[b] < rank2[n]
            BY <1>3, <1>19, <5>2
          <5>4. QED
            BY <4>1, <5>1, <5>3, ZenonT(60)
        <4>2. CASE y # n
          <5>1. /\ u.node[y].previous = t.node[y].previous /\ t.node[y].previous \in L
                /\ t.node[t.node[y].previous].next = y /\ rank[t.node[y].previous] < rank[y]
            BY <1>2, <1>14, <2>2, <3>1, <3>3, <4>2, ZenonT(60)
          <5>2. t.node[y].previous # p /\ t.node[y].previous # b /\ t.node[y].previous \in Blocks
            BY <1>1, <4>2, <5>1, ZenonT(60)
          <5>3. rank2[t.node[y].previous] < rank2[y]
            <6>1. /\ rank2[t.node[y].previous] = 2 * rank[t.node[y].previous]
                  /\ rank2[y] = 2 * rank[y]
              BY <1>19, <3>1, <5>1, ZenonT(60)
            <6>2. rank[t.node[y].previous] \in Nat /\ rank[y] \in Nat
              BY <1>2, <3>1, <5>1, ZenonT(60)
            <6>3. rank[t.node[y].previous] < rank[y]
              BY <5>1, ZenonT(60)
            <6>4. QED
              BY <6>1, <6>2, <6>3
          <5>4. u.node[t.node[y].previous].next = t.node[t.node[y].previous].next
            BY <1>14, <5>2, ZenonT(60)
          <5>5. u.node[t.node[y].previous].next = y /\ t.node[y].previous \in L \cup {b}
            BY <5>1, <5>4, ZenonT(60)
          <5>6. QED
            BY <5>1, <5>3, <5>5, ZenonT(60)
        <4>3. QED
          BY <4>1, <4>2, ZenonT(60)
      <3>4. QED
        BY <3>1, <3>2, <3>3, ZenonT(60)
    <2>3. QED
      BY <2>1, <2>2, ZenonT(60)
  <1>21. Lists(u, L \cup {b}, rank2)
    BY <1>20, ZenonT(60) DEF Lists
  <1>22. OneSize(u, (L \cup {b}) \ {Null}, sz)
    <2>1. \A z \in L : t.node[z].next # Null => sz[t.node[z].next] = sz[z]
      BY <1>1, <1>2, ZenonT(60) DEF OneSize
    <2>2. ASSUME NEW y \in L \cup {b}, u.node[y].next # Null
          PROVE  sz[u.node[y].next] = sz[y]
      <3>1. CASE y = b
        <4>1. u.node[y].next = n
          BY <1>3, <1>14, <3>1, ZenonT(60)
        <4>2. sz[n] = sz[p]
          BY <1>3, <2>1, <2>2, <4>1, ZenonT(60)
        <4>3. QED
          BY <3>1, <4>1, <4>2, ZenonT(60)
      <3>2. CASE y = p
        BY <1>3, <1>14, <3>2, ZenonT(60)
      <3>3. CASE y # b /\ y # p
        BY <1>1, <1>14, <2>1, <2>2, <3>3, ZenonT(60)
      <3>4. QED
        BY <3>1, <3>2, <3>3, ZenonT(60)
    <2>3. QED
      BY <2>2, ZenonT(60) DEF OneSize
  <1>23. Bare(u, Heads(t, L))
    <2>1. ASSUME NEW x \in Blocks \ Heads(t, L), NEW f \in {"left", "right", "parent"}
          PROVE  u.node[x][f] = Null
      <3>1. t.node[x][f] = Null
        BY <1>2, ZenonT(60) DEF Bare
      <3>2. u.node[x][f] = t.node[x][f]
        BY <1>16, ZenonT(60) DEF SameTree
      <3>3. QED
        BY <3>1, <3>2, ZenonT(60)
    <2>2. QED
      BY <2>1, ZenonT(60) DEF Bare
  <1>24. L \cup {b} = {x \in Blocks : u.balance[x] # "allocated"}
    <2>1. ASSUME NEW x \in Blocks
          PROVE  x \in L \cup {b} <=> u.balance[x] # "allocated"
      <3>1. u.balance[x] = IF x = b THEN "equal" ELSE t.balance[x]
        BY <1>13, ZenonT(60)
      <3>2. t.balance[x] # "allocated" <=> x \in L
        BY <1>1, ZenonT(60)
      <3>3. QED
        BY <3>1, <3>2, BalanceTypes, ZenonT(60)
    <2>2. QED
      BY <1>1, <2>1, ZenonT(60)
  <1>25. Sound(u, sz, L \cup {b}, Null, key, lo, hi, rank2)
    BY <1>2, <1>13, <1>17, <1>18, <1>21, <1>22, <1>23, <1>24, ZenonT(60) DEF Sound
  <1>26. QED
    BY <1>25

\* The first block.
LEMMA FirstEnters ==
  ASSUME NEW t, NEW sz, NEW L, NEW key, NEW lo, NEW hi, NEW rank, Sound(t, sz, L, Null, key, lo, hi, rank),
         t.root = Null, NEW b \in Blocks, NEW u, u = [Placed(t, b) EXCEPT !.root = b]
  PROVE  \E key2, lo2, hi2, rank2 : Sound(u, sz, L \cup {b}, Null, key2, lo2, hi2, rank2)
  <1>1. /\ t \in TreeType /\ L = {} /\ b # Null /\ b \in Pointer
        /\ \A x \in Blocks : t.balance[x] = "allocated"
    BY SoundFacts, NullAssumption DEF Pointer
  <1>2. Heads(t, L) = {} /\ Bare(t, Heads(t, L))
    BY <1>1 DEF Heads, Sound
  <1> DEFINE t0 == Placed(t, b)
  <1>3. /\ t0 \in TreeType
        /\ \A x \in Blocks : t0.balance[x] = IF x = b THEN "equal" ELSE t.balance[x]
        /\ \A x \in Blocks : \A g \in Fields : t0.node[x][g] = IF x = b THEN Null ELSE t.node[x][g]
    BY <1>1, PlacedFields
  <1>4. u = [t0 EXCEPT !.root = b]
    OBVIOUS
  <1> HIDE DEF t0
  <1>5. u \in TreeType /\ u.root = b /\ u.node = t0.node /\ u.balance = t0.balance
    BY <1>1, <1>3, <1>4 DEF TreeType
  <1>6. \A f \in Fields : u.node[b][f] = Null
    BY <1>3, <1>5
  <1>7. \A x \in Blocks, f \in {"left", "right", "parent"} : u.node[x][f] = Null
    <2>1. ASSUME NEW x \in Blocks, NEW f \in {"left", "right", "parent"}
          PROVE  u.node[x][f] = Null
      <3>1. f \in Fields /\ t.node[x][f] = Null
        BY <1>2 DEF Bare, Fields
      <3>2. QED
        BY <1>3, <1>5, <3>1
    <2>2. QED
      BY <2>1
  <1>8. u.node[b].previous = Null /\ u.node[b].next = Null
    BY <1>6 DEF Fields
  <1>9. L \cup {b} = {b} /\ Heads(u, {b}) = {b}
    BY <1>1, <1>8 DEF Heads
  <1> DEFINE key2  == [x \in Blocks |-> 1]
             lo2   == [x \in Blocks |-> 0]
             hi2   == [x \in Blocks |-> 2]
             left  == Kid(u, "left")
             right == Kid(u, "right")
             par   == Par(u)
  <1>10. /\ left \in [Blocks -> Pointer] /\ right \in [Blocks -> Pointer] /\ par \in [Blocks -> Pointer]
         /\ left[b] = Null /\ right[b] = Null /\ par[b] = Null
    BY <1>7 DEF Kid, Par, Pointer
  <1> HIDE DEF left, right, par
  <1>11. Shape(u.root, left, right, par, {b})
    BY <1>1, <1>5, <1>10 DEF Shape
  <1>12. /\ key2 \in [Blocks -> Int] /\ lo2 \in [Blocks -> Int] /\ hi2 \in [Blocks -> Int]
         /\ key2[b] = 1 /\ lo2[b] = 0 /\ hi2[b] = 2
    OBVIOUS
  <1> HIDE DEF key2, lo2, hi2
  <1>13. Spans(u.root, left, right, {b}, key2, lo2, hi2)
    BY <1>5, <1>10, <1>12 DEF Spans
  <1>14. SearchTree(u, "left", {b}, key2, lo2, hi2)
    <2>1. Other("left") = "right"
      BY DEF Other
    <2>2. QED
      BY <1>11, <1>12, <1>13, <2>1 DEF SearchTree, left, right, par
  <1>15. Ordered({b} \ {Null}, key2, sz)
    BY <1>12 DEF Ordered
  <1> DEFINE rank2 == [x \in Blocks |-> 0]
  <1>16. Lists(u, {b}, rank2)
    BY <1>8 DEF Lists
  <1>17. OneSize(u, {b} \ {Null}, sz)
    BY <1>8 DEF OneSize
  <1>18. Bare(u, {b})
    BY <1>7 DEF Bare
  <1>19. {b} = {x \in Blocks : u.balance[x] # "allocated"}
    BY <1>1, <1>3, <1>5
  <1> HIDE DEF rank2
  <1>20. Sound(u, sz, L \cup {b}, Null, key2, lo2, hi2, rank2)
    BY <1>5, <1>9, <1>14, <1>15, <1>16, <1>17, <1>18, <1>19 DEF Sound
  <1>21. QED
    BY <1>20

\* u is t with the leaf b as the child of p on one side.
Grown(t, u, s, p, b) ==
  /\ u.root = t.root
  /\ \A x \in Blocks, f \in Sides : u.node[x][f] = IF x = p /\ f = s THEN b ELSE t.node[x][f]
  /\ \A x \in Blocks : u.node[x].parent = IF x = b THEN p ELSE t.node[x].parent

\* A search tree for H and b in which the keys of H are twice what they were.
Extended(u, side, H, key, b, k) ==
  \E key2, lo2, hi2 : /\ SearchTree(u, side, H \cup {b}, key2, lo2, hi2)
                      /\ key2[b] = k /\ \A x \in H : key2[x] = 2 * key[x]

\* A new leaf leaves a search tree, seen from the side it is on.
LEMMA GrownOriented ==
  ASSUME NEW t \in TreeType, NEW s \in Sides, NEW H, NEW key, NEW lo, NEW hi, SearchTree(t, s, H, key, lo, hi),
         NEW p \in H, t.node[p][s] = Null, NEW b \in Blocks \ H, t.node[b].left = Null, t.node[b].right = Null,
         NEW u, Grown(t, u, s, p, b)
  PROVE  Extended(u, s, H, key, b, 2 * key[p] - 1)
  <1> DEFINE near == Kid(t, s)
             far  == Kid(t, Other(s))
             par  == Par(t)
             key2 == [x \in Blocks |-> IF x = b THEN 2 * key[p] - 1 ELSE 2 * key[x]]
             lo2  == [x \in Blocks |-> IF x = b THEN 2 * lo[p] ELSE 2 * lo[x]]
             hi2  == [x \in Blocks |-> IF x = b THEN 2 * key[p] ELSE 2 * hi[x]]
  <1>1. /\ Shape(t.root, near, far, par, H) /\ Spans(t.root, near, far, H, key, lo, hi)
        /\ key \in [Blocks -> Int] /\ lo \in [Blocks -> Int] /\ hi \in [Blocks -> Int]
        /\ H \subseteq Blocks /\ p \in Blocks
    BY DEF SearchTree, Shape
  <1>2. /\ Other(s) \in Sides /\ Other(s) # s /\ near[p] = Null
    BY <1>1, SideFields DEF Kid
  <1>3. near[b] = Null /\ far[b] = Null
    <2>1. \A f \in Sides : t.node[b][f] = Null
      BY DEF Sides
    <2>2. QED
      BY <1>2, <2>1 DEF Kid
  <1>4. /\ Kid(u, s) = [near EXCEPT ![p] = b] /\ Kid(u, Other(s)) = far /\ Par(u) = [par EXCEPT ![b] = p]
    <2>1. Kid(u, s) = [near EXCEPT ![p] = b]
      BY <1>1 DEF Kid, Grown
    <2>2. Kid(u, Other(s)) = far
      BY <1>2 DEF Kid, Grown
    <2>3. Par(u) = [par EXCEPT ![b] = p]
      BY DEF Par, Grown
    <2>4. QED
      BY <2>1, <2>2, <2>3
  <1>5. key2 \in [Blocks -> Int] /\ lo2 \in [Blocks -> Int] /\ hi2 \in [Blocks -> Int]
    BY <1>1
  <1>6. GrownKeys(H, key, lo, hi, p, b, key2, lo2, hi2)
    BY <1>1 DEF GrownKeys
  <1> HIDE DEF near, far, par, key2, lo2, hi2
  <1>7. Shape(t.root, [near EXCEPT ![p] = b], far, [par EXCEPT ![b] = p], H \cup {b})
    BY <1>1, <1>2, <1>3, GrownShape
  <1>8. Spans(t.root, [near EXCEPT ![p] = b], far, H \cup {b}, key2, lo2, hi2)
    <2>1. /\ Shape(t.root, near, far, par, H) /\ Spans(t.root, near, far, H, key, lo, hi)
          /\ GrownKeys(H, key, lo, hi, p, b, key2, lo2, hi2)
          /\ near[p] = Null /\ near[b] = Null /\ far[b] = Null
      BY <1>1, <1>2, <1>3, <1>6
    <2>2. QED
      BY <2>1, GrownSpans
  <1>9. SearchTree(u, s, H \cup {b}, key2, lo2, hi2)
    BY <1>4, <1>5, <1>7, <1>8 DEF SearchTree, Grown
  <1>10. QED
    BY <1>6, <1>9 DEF GrownKeys, Extended

\* A new leaf on either side leaves a search tree.
LEMMA GrownTree ==
  ASSUME NEW t \in TreeType, NEW s \in Sides, NEW H, NEW key, NEW lo, NEW hi, SearchTree(t, "left", H, key, lo, hi),
         NEW p \in H, t.node[p][s] = Null, NEW b \in Blocks \ H, t.node[b].left = Null, t.node[b].right = Null,
         NEW u, Grown(t, u, s, p, b)
  PROVE  Extended(u, "left", H, key, b, IF s = "left" THEN 2 * key[p] - 1 ELSE 2 * key[p] + 1)
  <1>1. CASE s = "left"
    <2>1. SearchTree(t, s, H, key, lo, hi)
      BY <1>1
    <2>2. Extended(u, s, H, key, b, 2 * key[p] - 1)
      BY <2>1, GrownOriented
    <2>3. QED
      BY <1>1, <2>2
  <1>2. CASE s = "right"
    <2> DEFINE key1 == Negative(key)
               lo1  == Negative(hi)
               hi1  == Negative(lo)
    <2>1. "left" \in Sides /\ Other("left") = "right" /\ "right" \in Sides /\ Other("right") = "left"
      BY DEF Sides, Other
    <2>2. SearchTree(t, s, H, key1, lo1, hi1)
      BY <1>2, <2>1, Mirrored
    <2>3. /\ key \in [Blocks -> Int] /\ H \subseteq Blocks
      BY DEF SearchTree, Shape
    <2>4. \A x \in H : key1[x] = -key[x] /\ key[x] \in Int
      BY <2>3, NegativeTwice
    <2> HIDE DEF key1, lo1, hi1
    <2>5. PICK key2, lo2, hi2 : /\ SearchTree(u, s, H \cup {b}, key2, lo2, hi2)
                                /\ key2[b] = 2 * key1[p] - 1
                                /\ \A x \in H : key2[x] = 2 * key1[x]
      <3>1. Extended(u, s, H, key1, b, 2 * key1[p] - 1)
        BY <2>2, GrownOriented
      <3>2. QED
        BY <3>1 DEF Extended
    <2>6. SearchTree(u, "left", H \cup {b}, Negative(key2), Negative(hi2), Negative(lo2))
      BY <1>2, <2>1, <2>5, Mirrored
    <2>7. key2 \in [Blocks -> Int]
      BY <2>5 DEF SearchTree
    <2>8. \A x \in Blocks : Negative(key2)[x] = -key2[x]
      BY <2>7, NegativeTwice
    <2>9. Negative(key2)[b] = 2 * key[p] + 1
      BY <2>4, <2>5, <2>8
    <2>10. \A x \in H : Negative(key2)[x] = 2 * key[x]
      BY <2>3, <2>4, <2>5, <2>8
    <2>11. QED
      BY <1>2, <2>6, <2>9, <2>10 DEF Extended
  <1>3. QED
    BY <1>1, <1>2 DEF Sides

\* Where a block of the size v belongs.
Gap(H, key, sz, p, s, v) ==
  /\ s = "left" => \A x \in H : (key[x] < key[p] => sz[x] < v) /\ (key[p] <= key[x] => v < sz[x])
  /\ s = "right" => \A x \in H : (key[x] <= key[p] => sz[x] < v) /\ (key[p] < key[x] => v < sz[x])

\* A block of a new size becomes a leaf.
LEMMA LeafEnters ==
  ASSUME NEW t, NEW sz, NEW L, NEW key, NEW lo, NEW hi, NEW rank, Sound(t, sz, L, Null, key, lo, hi, rank),
         NEW b \in Blocks \ L, NEW p \in Heads(t, L), NEW s \in Sides, t.node[p][s] = Null,
         Gap(Heads(t, L), key, sz, p, s, sz[b]),
         NEW u, u = Set(Set(Placed(t, b), p, s, b), b, "parent", p)
  PROVE  /\ b \in Heads(u, L \cup {b}) /\ u.balance[b] = "equal" /\ p \in L
         /\ \E key2, lo2, hi2, rank2 : Sound(u, sz, L \cup {b}, Null, key2, lo2, hi2, rank2)
  <1>1. /\ t \in TreeType /\ L \subseteq Blocks /\ Null \notin L /\ Heads(t, L) \subseteq L
        /\ \A x \in Blocks : t.balance[x] # "allocated" <=> x \in L
        /\ \A x \in Blocks, f \in Fields : t.node[x][f] \in Pointer
    BY SoundFacts
  <1>2. /\ Lists(t, L, rank) /\ OneSize(t, L \ {Null}, sz) /\ Bare(t, Heads(t, L))
        /\ Ordered(Heads(t, L) \ {Null}, key, sz)
        /\ SearchTree(t, "left", Heads(t, L), key, lo, hi)
    BY DEF Sound
  <1>3. p \in L /\ p \in Blocks /\ p # b /\ p # Null /\ b \notin Heads(t, L)
    BY <1>1
  <1>4. /\ s \in Fields /\ "parent" \in Fields /\ "next" \in Fields /\ "previous" \in Fields
        /\ p \in Pointer /\ b \in Pointer /\ Sides \subseteq Fields
        /\ "parent" \notin Sides /\ "next" \notin Sides /\ "previous" \notin Sides
    BY <1>3 DEF Fields, Pointer, Sides
  <1> DEFINE t0 == Placed(t, b)
             t1 == Set(t0, p, s, b)
  <1>5. /\ t0 \in TreeType /\ t0.root = t.root
        /\ \A x \in Blocks : t0.balance[x] = IF x = b THEN "equal" ELSE t.balance[x]
        /\ \A x \in Blocks : \A g \in Fields : t0.node[x][g] = IF x = b THEN Null ELSE t.node[x][g]
    BY <1>1, PlacedFields
  <1> HIDE DEF t0
  <1>6. IsSet(t0, t1, p, s, b)
    BY <1>4, <1>5, SetFields
  <1> HIDE DEF t1
  <1>7. t1 \in TreeType
    BY <1>6 DEF IsSet
  <1>8. IsSet(t1, u, b, "parent", p)
    BY <1>4, <1>7, SetFields DEF t0, t1
  <1>9. /\ u \in TreeType /\ u.root = t.root
        /\ \A x \in Blocks : u.balance[x] = IF x = b THEN "equal" ELSE t.balance[x]
    BY <1>5, <1>6, <1>8 DEF IsSet
  <1>10. \A f \in {"left", "right", "parent"} : t.node[b][f] = Null
    BY <1>2, <1>3 DEF Bare
  <1>11. Grown(t, u, s, p, b)
    <2>1. ASSUME NEW x \in Blocks, NEW f \in Sides
          PROVE  u.node[x][f] = IF x = p /\ f = s THEN b ELSE t.node[x][f]
      <3>1. f \in Fields /\ f # "parent"
        BY <1>4
      <3>2. u.node[x][f] = IF x = p /\ f = s THEN b ELSE t0.node[x][f]
        BY <1>6, <1>8, <3>1 DEF IsSet
      <3>3. t0.node[x][f] = t.node[x][f]
        BY <1>5, <1>10, <3>1 DEF Sides
      <3>4. QED
        BY <3>2, <3>3
    <2>2. ASSUME NEW x \in Blocks
          PROVE  u.node[x].parent = IF x = b THEN p ELSE t.node[x].parent
      <3>1. u.node[x]["parent"] = IF x = b THEN p ELSE t1.node[x]["parent"]
        BY <1>4, <1>8 DEF IsSet
      <3>2. x # b => t1.node[x]["parent"] = t.node[x]["parent"]
        BY <1>4, <1>5, <1>6 DEF IsSet
      <3>3. QED
        BY <3>1, <3>2
    <2>3. QED
      BY <1>9, <2>1, <2>2 DEF Grown
  <1>12. ASSUME NEW x \in Blocks
         PROVE  /\ u.node[x].next = IF x = b THEN Null ELSE t.node[x].next
                /\ u.node[x].previous = IF x = b THEN Null ELSE t.node[x].previous
    <2>1. /\ u.node[x]["next"] = t0.node[x]["next"]
          /\ u.node[x]["previous"] = t0.node[x]["previous"]
      BY <1>4, <1>6, <1>8 DEF IsSet
    <2>2. /\ t0.node[x]["next"] = IF x = b THEN Null ELSE t.node[x]["next"]
          /\ t0.node[x]["previous"] = IF x = b THEN Null ELSE t.node[x]["previous"]
      BY <1>4, <1>5
    <2>3. QED
      BY <2>1, <2>2
  <1>13. Heads(u, L \cup {b}) = Heads(t, L) \cup {b}
    BY <1>1, <1>12 DEF Heads
  <1>14. t.node[b].left = Null /\ t.node[b].right = Null
    BY <1>10
  <1> DEFINE k == IF s = "left" THEN 2 * key[p] - 1 ELSE 2 * key[p] + 1
  <1>15. Extended(u, "left", Heads(t, L), key, b, k)
    BY <1>1, <1>2, <1>3, <1>11, <1>14, GrownTree
  <1> HIDE DEF k
  <1>16. PICK key2, lo2, hi2 : /\ SearchTree(u, "left", Heads(t, L) \cup {b}, key2, lo2, hi2)
                               /\ key2[b] = k /\ \A x \in Heads(t, L) : key2[x] = 2 * key[x]
    BY <1>15 DEF Extended
  <1>17. Ordered((Heads(t, L) \cup {b}) \ {Null}, key2, sz)
    <2>1. \A x \in Heads(t, L) : key[x] \in Int
      BY <1>1, <1>2 DEF SearchTree
    <2>2. ASSUME NEW x \in Heads(t, L), key2[x] < key2[b]
          PROVE  sz[x] < sz[b]
      <3>1. key[x] \in Int /\ key[p] \in Int /\ key2[x] = 2 * key[x] /\ key2[b] = k
        BY <1>16, <2>1
      <3>2. CASE s = "left"
        <4>1. k = 2 * key[p] - 1
          BY <3>2 DEF k
        <4>2. key[x] < key[p]
          BY <2>2, <3>1, <4>1
        <4>3. QED
          BY <3>2, <4>2 DEF Gap
      <3>3. CASE s = "right"
        <4>1. k = 2 * key[p] + 1
          BY <3>3 DEF k
        <4>2. key[x] <= key[p]
          BY <2>2, <3>1, <4>1
        <4>3. QED
          BY <3>3, <4>2 DEF Gap
      <3>4. QED
        BY <3>2, <3>3 DEF Sides
    <2>3. ASSUME NEW x \in Heads(t, L), key2[b] < key2[x]
          PROVE  sz[b] < sz[x]
      <3>1. key[x] \in Int /\ key[p] \in Int /\ key2[x] = 2 * key[x] /\ key2[b] = k
        BY <1>16, <2>1
      <3>2. CASE s = "left"
        <4>1. k = 2 * key[p] - 1
          BY <3>2 DEF k
        <4>2. key[p] <= key[x]
          BY <2>3, <3>1, <4>1
        <4>3. QED
          BY <3>2, <4>2 DEF Gap
      <3>3. CASE s = "right"
        <4>1. k = 2 * key[p] + 1
          BY <3>3 DEF k
        <4>2. key[p] < key[x]
          BY <2>3, <3>1, <4>1
        <4>3. QED
          BY <3>3, <4>2 DEF Gap
      <3>4. QED
        BY <3>2, <3>3 DEF Sides
    <2>4. ASSUME NEW x \in Heads(t, L), NEW y \in Heads(t, L), key2[x] < key2[y]
          PROVE  sz[x] < sz[y]
      <3>1. key[x] \in Int /\ key[y] \in Int /\ key2[x] = 2 * key[x] /\ key2[y] = 2 * key[y]
        BY <1>16, <2>1
      <3>2. key[x] < key[y]
        BY <2>4, <3>1
      <3>3. x # Null /\ y # Null
        BY <1>1
      <3>4. QED
        BY <1>2, <3>2, <3>3 DEF Ordered
    <2>5. ~(key2[b] < key2[b])
      <3>1. key2[b] \in Int
        BY <1>16 DEF SearchTree
      <3>2. QED
        BY <3>1
    <2>6. QED
      BY <2>2, <2>3, <2>4, <2>5 DEF Ordered
  <1> DEFINE rank2 == [x \in Blocks |-> IF x = b THEN 0 ELSE rank[x]]
  <1>18. rank2[b] = 0 /\ \A x \in L : rank2[x] = rank[x]
    BY <1>1, ZenonT(60)
  <1> HIDE DEF rank2
  <1>19. ASSUME NEW y \in L \cup {b}
         PROVE  /\ rank2[y] \in Nat
                /\ u.node[y].next # Null => u.node[y].next \in L \cup {b} /\ u.node[u.node[y].next].previous = y
                /\ u.node[y].previous # Null => /\ u.node[y].previous \in L \cup {b}
                                                /\ u.node[u.node[y].previous].next = y
                                                /\ rank2[u.node[y].previous] < rank2[y]
    <2>1. CASE y = b
      BY <1>12, <1>18, <2>1
    <2>2. CASE y # b
      <3>1. /\ y \in L /\ y \in Blocks /\ rank[y] \in Nat
            /\ t.node[y].next # Null => t.node[y].next \in L /\ t.node[t.node[y].next].previous = y
            /\ t.node[y].previous # Null => /\ t.node[y].previous \in L
                                            /\ t.node[t.node[y].previous].next = y
                                            /\ rank[t.node[y].previous] < rank[y]
        BY <1>1, <1>2, <2>2 DEF Lists
      <3>2. u.node[y].next = t.node[y].next /\ u.node[y].previous = t.node[y].previous
        BY <1>12, <2>2, <3>1
      <3>3. ASSUME NEW z \in L
            PROVE  u.node[z].next = t.node[z].next /\ u.node[z].previous = t.node[z].previous
        BY <1>1, <1>12
      <3>4. QED
        BY <1>18, <3>1, <3>2, <3>3
    <2>3. QED
      BY <2>1, <2>2
  <1>20. Lists(u, L \cup {b}, rank2)
    BY <1>19 DEF Lists
  <1>21. OneSize(u, (L \cup {b}) \ {Null}, sz)
    BY <1>1, <1>2, <1>12 DEF OneSize
  <1>22. Bare(u, Heads(t, L) \cup {b})
    <2>1. ASSUME NEW x \in Blocks \ (Heads(t, L) \cup {b}), NEW f \in {"left", "right", "parent"}
          PROVE  u.node[x][f] = Null
      <3>1. t.node[x][f] = Null /\ x # p
        BY <1>2 DEF Bare
      <3>2. QED
        BY <1>11, <3>1 DEF Grown, Sides
    <2>2. QED
      BY <2>1 DEF Bare
  <1>23. L \cup {b} = {x \in Blocks : u.balance[x] # "allocated"}
    BY <1>1, <1>9
  <1>24. Sound(u, sz, L \cup {b}, Null, key2, lo2, hi2, rank2)
    BY <1>9, <1>13, <1>16, <1>17, <1>20, <1>21, <1>22, <1>23 DEF Sound
  <1>25. QED
    BY <1>3, <1>9, <1>13, <1>24

-----------------------------------------------------------------------------
(***************************************************************************)
(* lowerBound.                                                             *)
(***************************************************************************)
\* The descent ends, so that it is what its definition says.
LEMMA DescendEquation ==
  ASSUME tree \in TreeType, NEW request, NEW rank, NEW bound \in Nat,
         \A h \in Pointer : rank[h] \in Nat /\ rank[h] < bound,
         \A h \in Blocks, s \in Sides : rank[tree.node[h][s]] < rank[h]
  PROVE  \E f : /\ LowerBound(request) = f[<<tree.root, Null, Null>>]
                /\ \A h \in Pointer, b \in Pointer, p \in Pointer :
                     f[<<h, b, p>>] = IF h = Null THEN <<b, p>>
                                      ELSE IF size[h] < request THEN f[<<tree.node[h].right, b, h>>]
                                      ELSE IF size[h] > request THEN f[<<tree.node[h].left, h, h>>]
                                      ELSE <<h, h>>
  <1> DEFINE D == Pointer \X Pointer \X Pointer
             Stop == {d \in D : d[1] = Null \/ (~(size[d[1]] < request) /\ ~(size[d[1]] > request))}
             value == [d \in D |-> IF d[1] = Null THEN <<d[2], d[3]>> ELSE <<d[1], d[1]>>]
             next == [d \in D |-> IF size[d[1]] < request THEN <<tree.node[d[1]].right, d[2], d[1]>>
                                   ELSE <<tree.node[d[1]].left, d[1], d[1]>>]
             rk == [d \in D |-> rank[d[1]]]
             Body(f, d) == IF d[1] = Null THEN <<d[2], d[3]>>
                           ELSE IF size[d[1]] < request THEN f[<<tree.node[d[1]].right, d[2], d[1]>>]
                           ELSE IF size[d[1]] > request THEN f[<<tree.node[d[1]].left, d[1], d[1]>>]
                           ELSE <<d[1], d[1]>>
             descend == CHOOSE f : f = [d \in D |-> Body(f, d)]
  <1>1. LowerBound(request) = descend[<<tree.root, Null, Null>>]
    BY DEF LowerBound
  <1>2. \E f : TailRecursive(f, D, Stop, value, next)
    <2>1. \A d \in D : rk[d] \in Nat /\ rk[d] < bound
      OBVIOUS
    <2>2. ASSUME NEW d \in D \ Stop
          PROVE  next[d] \in D /\ rk[next[d]] < rk[d]
      <3>1. d[1] \in Blocks /\ d[1] \in Pointer /\ d[2] \in Pointer /\ d[3] \in Pointer
        BY DEF Pointer
      <3>2. "left" \in Fields /\ "right" \in Fields /\ "left" \in Sides /\ "right" \in Sides
        BY DEF Fields, Sides
      <3> DEFINE l == tree.node[d[1]]["left"]
                 r == tree.node[d[1]]["right"]
                 h == d[1]
      <3>3. l \in Pointer /\ r \in Pointer
        BY <3>1, <3>2, FieldTypes
      <3>4. rank[l] < rank[h] /\ rank[r] < rank[h]
        BY <3>1, <3>2
      <3>5. next[d] = IF size[h] < request THEN <<r, d[2], h>> ELSE <<l, h, h>>
        OBVIOUS
      <3>6. rk[d] = rank[h]
        OBVIOUS
      <3> HIDE DEF l, r, next
      <3>7. CASE size[h] < request
        BY <3>1, <3>3, <3>4, <3>5, <3>7
      <3>8. CASE ~(size[h] < request)
        BY <3>1, <3>3, <3>4, <3>5, <3>8
      <3>9. QED
        BY <3>7, <3>8
    <2>3. \A d \in D \ Stop : next[d] \in D /\ rk[next[d]] < rk[d]
      BY <2>2
    <2> HIDE DEF D, Stop, value, next, rk
    <2>4. QED
      BY <2>1, <2>3, TailRecursion
  <1>3. \E f : f = [d \in D |-> Body(f, d)]
    <2>1. PICK f : f = [d \in D |-> IF d \in Stop THEN value[d] ELSE f[next[d]]]
      BY <1>2 DEF TailRecursive
    <2>2. ASSUME NEW d \in D
          PROVE  (IF d \in Stop THEN value[d] ELSE f[next[d]]) = Body(f, d)
      <3>1. CASE d[1] = Null
        BY <3>1
      <3>2. CASE d[1] # Null /\ size[d[1]] < request
        <4>1. d \notin Stop /\ next[d] = <<tree.node[d[1]].right, d[2], d[1]>>
          BY <3>2
        <4>2. Body(f, d) = f[<<tree.node[d[1]].right, d[2], d[1]>>]
          BY <3>2
        <4>3. QED
          BY <4>1, <4>2, ZenonT(60)
      <3>3. CASE d[1] # Null /\ ~(size[d[1]] < request) /\ size[d[1]] > request
        <4>1. d \notin Stop /\ next[d] = <<tree.node[d[1]].left, d[1], d[1]>>
          BY <3>3
        <4>2. Body(f, d) = f[<<tree.node[d[1]].left, d[1], d[1]>>]
          BY <3>3
        <4>3. QED
          BY <4>1, <4>2, ZenonT(60)
      <3>4. CASE d[1] # Null /\ ~(size[d[1]] < request) /\ ~(size[d[1]] > request)
        <4>1. d \in Stop /\ value[d] = <<d[1], d[1]>>
          BY <3>4
        <4>2. Body(f, d) = <<d[1], d[1]>>
          BY <3>4
        <4>3. QED
          BY <4>1, <4>2, ZenonT(60)
      <3>5. QED
        BY <3>1, <3>2, <3>3, <3>4, ZenonT(60)
    <2>3. f = [d \in D |-> Body(f, d)]
      <3> HIDE DEF Stop, value, next, Body, D
      <3>1. QED
        BY <2>1, <2>2
    <2>4. QED
      <3> HIDE DEF Body, D
      <3>1. QED
        BY <2>3
  <1> HIDE DEF Body
  <1>4. descend = [d \in D |-> Body(descend, d)]
    BY <1>3
  <1> HIDE DEF descend
  <1>5. ASSUME NEW h \in Pointer, NEW b \in Pointer, NEW p \in Pointer
        PROVE  descend[<<h, b, p>>] = IF h = Null THEN <<b, p>>
                                      ELSE IF size[h] < request THEN descend[<<tree.node[h].right, b, h>>]
                                      ELSE IF size[h] > request THEN descend[<<tree.node[h].left, h, h>>]
                                      ELSE <<h, h>>
    <2>1. <<h, b, p>> \in D
      OBVIOUS
    <2>2. descend[<<h, b, p>>] = Body(descend, <<h, b, p>>)
      <3> HIDE DEF D
      <3>1. QED
        BY <1>4, <2>1
    <2>3. QED
      BY <2>2 DEF Body
  <1>6. QED
    BY <1>1, <1>5

\* The keys of a search tree.
LEMMA KeyFacts ==
  ASSUME NEW t, NEW H, NEW key, NEW lo, NEW hi, SearchTree(t, "left", H, key, lo, hi)
  PROVE  /\ H \subseteq Blocks
         /\ \A x \in H : key[x] \in Int /\ lo[x] \in Int /\ hi[x] \in Int /\ lo[x] < key[x] /\ key[x] < hi[x]
         /\ \A x, y \in H : x # y => key[x] # key[y]
         /\ \A x, y \in H : t.node[x].left = Null => ~(lo[x] < key[y] /\ key[y] < key[x])
         /\ \A x, y \in H : t.node[x].right = Null => ~(key[x] < key[y] /\ key[y] < hi[x])
         /\ t.root \in H \cup {Null}
         /\ t.root # Null => \A x \in H : lo[t.root] <= lo[x] /\ hi[x] <= hi[t.root]
         /\ t.root = Null => H = {}
  <1>1. Other("left") = "right"
    BY DEF Other
  <1> DEFINE left  == Kid(t, "left")
             right == Kid(t, "right")
  <1>2. /\ Shape(t.root, left, right, Par(t), H) /\ Spans(t.root, left, right, H, key, lo, hi)
    BY <1>1 DEF SearchTree
  <1>3. H \subseteq Blocks /\ t.root \in H \cup {Null} /\ (t.root = Null => H = {})
    BY <1>2 DEF Shape
  <1>4. \A x \in H : left[x] = t.node[x].left /\ right[x] = t.node[x].right
    BY <1>3 DEF Kid
  <1> HIDE DEF left, right
  <1>5. \A x \in H : key[x] \in Int /\ lo[x] \in Int /\ hi[x] \in Int /\ lo[x] < key[x] /\ key[x] < hi[x]
    BY <1>2 DEF Spans
  <1>6. ASSUME NEW x \in H, NEW y \in H, x # y
        PROVE  key[x] # key[y]
    <2>1. Laminar(key, lo, hi, x, y)
      BY <1>2, <1>6 DEF Spans
    <2>2. /\ key[x] \in Int /\ lo[x] \in Int /\ hi[x] \in Int /\ lo[x] < key[x] /\ key[x] < hi[x]
          /\ key[y] \in Int /\ lo[y] \in Int /\ hi[y] \in Int /\ lo[y] < key[y] /\ key[y] < hi[y]
      BY <1>5
    <2>3. QED
      BY <2>1, <2>2 DEF Laminar
  <1>7. /\ \A x, y \in H : t.node[x].left = Null => ~(lo[x] < key[y] /\ key[y] < key[x])
        /\ \A x, y \in H : t.node[x].right = Null => ~(key[x] < key[y] /\ key[y] < hi[x])
        /\ \A x \in H : lo[t.root] <= lo[x] /\ hi[x] <= hi[t.root]
    BY <1>2, <1>4 DEF Spans
  <1>8. QED
    BY <1>3, <1>5, <1>6, <1>7

\* A descent ends: the bounds come closer together.
LEMMA DescentEnds ==
  ASSUME NEW t \in TreeType, NEW H, NEW key, NEW lo, NEW hi, SearchTree(t, "left", H, key, lo, hi), Bare(t, H)
  PROVE  \E rank : \E bound \in Nat :
           /\ \A h \in Pointer : rank[h] \in Nat /\ rank[h] < bound
           /\ \A h \in Blocks, s \in Sides : rank[t.node[h][s]] < rank[h]
           /\ \A h \in H : rank[h] = hi[h] - lo[h] + 1
  <1> DEFINE rank  == [h \in Pointer |-> IF h = Null THEN 0 ELSE IF h \in H THEN hi[h] - lo[h] + 1 ELSE 1]
             bound == IF t.root = Null THEN 2 ELSE hi[t.root] - lo[t.root] + 3
  <1>1. /\ H \subseteq Blocks /\ Null \notin H
        /\ \A x \in H : lo[x] \in Int /\ hi[x] \in Int /\ key[x] \in Int /\ lo[x] < key[x] /\ key[x] < hi[x]
        /\ t.root \in H \cup {Null} /\ (t.root = Null => H = {})
        /\ t.root # Null => \A x \in H : lo[t.root] <= lo[x] /\ hi[x] <= hi[t.root]
    BY KeyFacts, NullAssumption
  <1>2. \A h \in H : rank[h] = hi[h] - lo[h] + 1
    BY <1>1 DEF Pointer
  <1>3. /\ rank[Null] = 0 /\ \A h \in Blocks \ H : rank[h] = 1
    BY <1>1, NullAssumption DEF Pointer
  <1> HIDE DEF rank
  <1>4. bound \in Nat /\ bound > 1
    BY <1>1
  <1>5. ASSUME NEW h \in Pointer
        PROVE  rank[h] \in Nat /\ rank[h] < bound
    <2>1. CASE h \in H
      <3>1. t.root # Null /\ t.root \in H
        BY <1>1, <2>1
      <3>2. lo[t.root] <= lo[h] /\ hi[h] <= hi[t.root]
        BY <1>1, <2>1, <3>1
      <3>3. /\ lo[h] \in Int /\ hi[h] \in Int /\ lo[h] < hi[h] /\ lo[t.root] \in Int /\ hi[t.root] \in Int
        BY <1>1, <2>1, <3>1
      <3>4. rank[h] = hi[h] - lo[h] + 1
        BY <1>2, <2>1
      <3>5. QED
        BY <3>1, <3>2, <3>3, <3>4
    <2>2. CASE h \notin H
      <3>1. rank[h] \in {0, 1}
        BY <1>3, <2>2 DEF Pointer
      <3> HIDE DEF bound
      <3>2. QED
        BY <1>4, <3>1
    <2>3. QED
      BY <2>1, <2>2
  <1>6. ASSUME NEW h \in Blocks, NEW s \in Sides
        PROVE  rank[t.node[h][s]] < rank[h]
    <2>1. CASE h \in H
      <3>1. /\ "left" \in Sides /\ Other("left") = "right" /\ (s = "left" \/ s = "right")
        BY DEF Sides, Other
      <3>2. /\ t.node[h][s] # Null => t.node[h][s] \in H
            /\ t.node[h]["left"] # Null => lo[t.node[h]["left"]] = lo[h] /\ hi[t.node[h]["left"]] = key[h]
            /\ t.node[h]["right"] # Null => lo[t.node[h]["right"]] = key[h] /\ hi[t.node[h]["right"]] = hi[h]
        BY <2>1, <3>1, NodeFacts
      <3>3. rank[h] = hi[h] - lo[h] + 1 /\ lo[h] \in Int /\ hi[h] \in Int /\ key[h] \in Int
            /\ lo[h] < key[h] /\ key[h] < hi[h]
        BY <1>1, <1>2, <2>1
      <3>4. CASE t.node[h][s] = Null
        BY <1>3, <3>3, <3>4
      <3> DEFINE c == t.node[h][s]
      <3>5. CASE c # Null
        <4>1. rank[c] = hi[c] - lo[c] + 1
          BY <1>2, <3>2, <3>5
        <4>2. \/ lo[c] = lo[h] /\ hi[c] = key[h]
              \/ lo[c] = key[h] /\ hi[c] = hi[h]
          BY <3>1, <3>2, <3>5
        <4> HIDE DEF c
        <4>3. rank[c] < rank[h]
          BY <3>3, <4>1, <4>2
        <4>4. QED
          BY <4>3 DEF c
      <3>6. QED
        BY <3>4, <3>5
    <2>2. CASE h \notin H
      <3>1. t.node[h][s] = Null
        BY <2>2 DEF Bare, Sides
      <3>2. QED
        BY <1>3, <2>2, <3>1
    <2>3. QED
      BY <2>1, <2>2
  <1>7. QED
    <2> HIDE DEF bound
    <2>1. QED
      BY <1>2, <1>4, <1>5, <1>6

\* Every block has a block of its size in the tree.
LEMMA HeadOfList ==
  ASSUME NEW t, NEW sz, NEW L, NEW key, NEW lo, NEW hi, NEW rank, Sound(t, sz, L, Null, key, lo, hi, rank),
         NEW y \in L
  PROVE  \E h \in Heads(t, L) : sz[h] = sz[y]
  <1> DEFINE Headless(z) == ~\E h \in Heads(t, L) : sz[h] = sz[z]
             T == {rank[z] : z \in {x \in L : Headless(x)}}
  <1>1. \A z \in L : /\ rank[z] \in Nat
                     /\ t.node[z].previous # Null => /\ t.node[z].previous \in L
                                                     /\ rank[t.node[z].previous] < rank[z]
                                                     /\ t.node[t.node[z].previous].next = z
    BY DEF Sound, Lists
  <1>2. \A z \in L : t.node[z].next # Null => sz[t.node[z].next] = sz[z]
    <2>1. L \ {Null} = L
      BY SoundFacts
    <2>2. QED
      BY <2>1 DEF Sound, OneSize
  <1>3. Null \notin L
    BY SoundFacts
  <1>4. \A z \in L : t.node[z].previous # Null => sz[t.node[z].previous] = sz[z]
    BY <1>1, <1>2, <1>3
  <1> SUFFICES ASSUME Headless(y)
               PROVE  FALSE
    OBVIOUS
  <1>5. T \subseteq Nat /\ T # {}
    BY <1>1
  <1>6. PICK n \in T : \A m \in T : n <= m
    <2> HIDE DEF T
    <2>1. QED
      BY <1>5, NatMin
  <1>7. PICK z \in L : Headless(z) /\ n = rank[z]
    BY <1>6
  <1>8. t.node[z].previous # Null
    BY <1>7 DEF Heads
  <1>9. /\ t.node[z].previous \in L /\ Headless(t.node[z].previous)
        /\ rank[t.node[z].previous] < n /\ rank[t.node[z].previous] \in Nat
    BY <1>1, <1>4, <1>7, <1>8
  <1>10. rank[t.node[z].previous] \in T /\ n \in Nat
    BY <1>1, <1>7, <1>9
  <1>11. QED
    <2> HIDE DEF T
    <2>1. QED
      BY <1>6, <1>9, <1>10

\* What a descent for a request knows at the node h, when b is the best fit so far: the
\* blocks before the interval of h are too small and the blocks after it are too large,
\* the first of them being b.
At(H, key, lo, hi, sz, request, h, b) ==
  /\ h \in H /\ b \in H \cup {Null}
  /\ \A x \in H : (key[x] <= lo[h] => sz[x] < request) /\ (hi[h] <= key[x] => request < sz[x])
  /\ b = Null => \A x \in H : key[x] < hi[h]
  /\ b # Null => key[b] = hi[h]

\* b is the best fit, and a block of the requested size belongs at the node p.
BestIs(H, sz, request, b) ==
  /\ b \in H \cup {Null}
  /\ b = Null => \A x \in H : sz[x] < request
  /\ b # Null => request <= sz[b] /\ \A x \in H : request <= sz[x] => sz[b] <= sz[x]

PlaceIs(t, H, key, sz, request, p) ==
  /\ p \in H
  /\ request < sz[p] => t.node[p].left = Null /\ Gap(H, key, sz, p, "left", request)
  /\ sz[p] < request => t.node[p].right = Null /\ Gap(H, key, sz, p, "right", request)

SearchFacts(t, H, key, lo, hi, sz) ==
  /\ \A x \in H : /\ key[x] \in Int /\ lo[x] \in Int /\ hi[x] \in Int /\ sz[x] \in Int
                  /\ lo[x] < key[x] /\ key[x] < hi[x]
  /\ \A x, y \in H : (key[x] < key[y] => sz[x] < sz[y]) /\ (key[x] = key[y] => x = y)
  /\ \A x, y \in H : t.node[x].left = Null => ~(lo[x] < key[y] /\ key[y] < key[x])
  /\ \A x, y \in H : t.node[x].right = Null => ~(key[x] < key[y] /\ key[y] < hi[x])

\* The descent ends in a node that has no child on its side, or goes on.
LEMMA DescentRight ==
  ASSUME NEW t, NEW H, NEW key, NEW lo, NEW hi, NEW sz, SearchFacts(t, H, key, lo, hi, sz), Null \notin H,
         NEW request \in Int, NEW h, NEW b, At(H, key, lo, hi, sz, request, h, b), sz[h] < request,
         NEW c, c = t.node[h].right
  PROVE  /\ c = Null => BestIs(H, sz, request, b) /\ PlaceIs(t, H, key, sz, request, h)
         /\ c \in H /\ lo[c] = key[h] /\ hi[c] = hi[h] => At(H, key, lo, hi, sz, request, c, b)
  <1>1. h \in H /\ key[h] \in Int /\ hi[h] \in Int /\ sz[h] \in Int /\ b \in H \cup {Null}
    BY DEF At, SearchFacts
  <1>2. ASSUME NEW x \in H, key[x] <= key[h]
        PROVE  sz[x] < request
    <2>1. key[x] \in Int /\ sz[x] \in Int
      BY DEF SearchFacts
    <2>2. CASE key[x] = key[h]
      BY <1>1, <2>2 DEF SearchFacts
    <2>3. CASE key[x] < key[h]
      <3>1. sz[x] < sz[h]
        BY <1>1, <2>3 DEF SearchFacts
      <3>2. QED
        BY <1>1, <2>1, <3>1
    <2>4. QED
      BY <1>1, <1>2, <2>1, <2>2, <2>3
  <1>3. ASSUME c \in H, lo[c] = key[h], hi[c] = hi[h]
        PROVE  At(H, key, lo, hi, sz, request, c, b)
    <2>1. \A x \in H : (key[x] <= lo[c] => sz[x] < request) /\ (hi[c] <= key[x] => request < sz[x])
      BY <1>2, <1>3 DEF At
    <2>2. QED
      BY <1>3, <2>1 DEF At
  <1>4. ASSUME c = Null
        PROVE  BestIs(H, sz, request, b) /\ PlaceIs(t, H, key, sz, request, h)
    <2>1. ASSUME NEW x \in H
          PROVE  key[x] <= key[h] \/ hi[h] <= key[x]
      <3>1. key[x] \in Int /\ ~(key[h] < key[x] /\ key[x] < hi[h])
        BY <1>1, <1>4 DEF SearchFacts
      <3>2. QED
        BY <1>1, <3>1
    <2>2. ASSUME NEW x \in H, key[h] < key[x]
          PROVE  hi[h] <= key[x] /\ request < sz[x]
      <3>1. key[x] \in Int
        BY DEF SearchFacts
      <3>2. hi[h] <= key[x]
        BY <1>1, <2>1, <2>2, <3>1
      <3>3. QED
        BY <3>2 DEF At
    <2>3. PlaceIs(t, H, key, sz, request, h)
      <3>1. Gap(H, key, sz, h, "right", request)
        BY <1>2, <2>2 DEF Gap
      <3>2. ~(request < sz[h])
        BY <1>1
      <3>3. QED
        BY <1>1, <1>4, <3>1, <3>2 DEF PlaceIs
    <2>4. CASE b = Null
      <3>1. ASSUME NEW x \in H
            PROVE  sz[x] < request
        <4>1. key[x] < hi[h] /\ key[x] \in Int
          BY <2>4 DEF At, SearchFacts
        <4>2. QED
          BY <1>1, <1>2, <2>1, <4>1
      <3>2. QED
        BY <1>1, <2>3, <2>4, <3>1 DEF BestIs
    <2>5. CASE b # Null
      <3>1. b \in H /\ key[b] = hi[h] /\ key[b] \in Int /\ sz[b] \in Int
        BY <1>1, <2>5 DEF At, SearchFacts
      <3>2. hi[h] <= key[b]
        BY <1>1, <3>1
      <3>3. request < sz[b]
        BY <3>1, <3>2 DEF At
      <3>4. ASSUME NEW x \in H, request <= sz[x]
            PROVE  sz[b] <= sz[x]
        <4>1. key[x] \in Int /\ sz[x] \in Int
          BY DEF SearchFacts
        <4>2. ~(key[x] <= key[h])
          <5>1. SUFFICES ASSUME key[x] <= key[h]
                         PROVE  FALSE
            OBVIOUS
          <5>2. sz[x] < request
            BY <1>2, <5>1
          <5>3. QED
            BY <3>4, <4>1, <5>2
        <4>3. key[b] <= key[x]
          BY <2>1, <3>1, <4>2
        <4>4. CASE key[b] = key[x]
          <5>1. b = x
            BY <3>1, <4>4 DEF SearchFacts
          <5>2. QED
            BY <4>1, <5>1
        <4>5. CASE key[b] < key[x]
          <5>1. sz[b] < sz[x]
            BY <3>1, <4>5 DEF SearchFacts
          <5>2. QED
            BY <3>1, <4>1, <5>1
        <4>6. QED
          BY <3>1, <4>1, <4>3, <4>4, <4>5
      <3>5. request <= sz[b]
        BY <3>1, <3>3
      <3>6. QED
        BY <2>3, <2>5, <3>1, <3>4, <3>5 DEF BestIs
    <2>6. QED
      BY <2>4, <2>5
  <1>5. QED
    BY <1>3, <1>4

\* The descent goes to the left: its best block so far is the header it leaves.
LEMMA DescentLeft ==
  ASSUME NEW t, NEW H, NEW key, NEW lo, NEW hi, NEW sz, SearchFacts(t, H, key, lo, hi, sz), Null \notin H,
         NEW request \in Int, NEW h, NEW b, At(H, key, lo, hi, sz, request, h, b), request < sz[h],
         NEW c, c = t.node[h].left
  PROVE  /\ c = Null => BestIs(H, sz, request, h) /\ PlaceIs(t, H, key, sz, request, h)
         /\ c \in H /\ lo[c] = lo[h] /\ hi[c] = key[h] => At(H, key, lo, hi, sz, request, c, h)
  <1>1. /\ h \in H /\ key[h] \in Int /\ lo[h] \in Int /\ sz[h] \in Int /\ h # Null
    BY DEF At, SearchFacts
  <1>2. ASSUME NEW x \in H, key[h] <= key[x]
        PROVE  request < sz[x] /\ sz[h] <= sz[x]
    <2>1. key[x] \in Int /\ sz[x] \in Int
      BY DEF SearchFacts
    <2>2. CASE key[x] = key[h]
      <3>1. x = h
        BY <1>1, <2>2 DEF SearchFacts
      <3>2. QED
        BY <1>1, <3>1
    <2>3. CASE key[h] < key[x]
      <3>1. sz[h] < sz[x]
        BY <1>1, <2>3 DEF SearchFacts
      <3>2. QED
        BY <1>1, <2>1, <3>1
    <2>4. QED
      BY <1>1, <1>2, <2>1, <2>2, <2>3
  <1>3. ASSUME c \in H, lo[c] = lo[h], hi[c] = key[h]
        PROVE  At(H, key, lo, hi, sz, request, c, h)
    <2>1. \A x \in H : (key[x] <= lo[c] => sz[x] < request) /\ (hi[c] <= key[x] => request < sz[x])
      BY <1>2, <1>3 DEF At
    <2>2. QED
      BY <1>1, <1>3, <2>1 DEF At
  <1>4. ASSUME c = Null
        PROVE  BestIs(H, sz, request, h) /\ PlaceIs(t, H, key, sz, request, h)
    <2>1. ASSUME NEW x \in H, key[x] < key[h]
          PROVE  sz[x] < request
      <3>1. key[x] \in Int /\ ~(lo[h] < key[x] /\ key[x] < key[h])
        BY <1>1, <1>4 DEF SearchFacts
      <3>2. key[x] <= lo[h]
        BY <1>1, <2>1, <3>1
      <3>3. QED
        BY <3>2 DEF At
    <2>2. PlaceIs(t, H, key, sz, request, h)
      <3>1. Gap(H, key, sz, h, "left", request)
        BY <1>2, <2>1 DEF Gap
      <3>2. ~(sz[h] < request)
        BY <1>1
      <3>3. QED
        BY <1>1, <1>4, <3>1, <3>2 DEF PlaceIs
    <2>3. ASSUME NEW x \in H, request <= sz[x]
          PROVE  sz[h] <= sz[x]
      <3>1. key[x] \in Int /\ sz[x] \in Int
        BY DEF SearchFacts
      <3>2. ~(key[x] < key[h])
        <4>1. SUFFICES ASSUME key[x] < key[h]
                       PROVE  FALSE
          OBVIOUS
        <4>2. sz[x] < request
          BY <2>1, <4>1
        <4>3. QED
          BY <2>3, <3>1, <4>2
      <3>3. QED
        BY <1>1, <1>2, <3>1, <3>2
    <2>4. request <= sz[h]
      BY <1>1
    <2>5. QED
      BY <1>1, <2>2, <2>3, <2>4 DEF BestIs
  <1>5. QED
    BY <1>3, <1>4

\* What the search relies on holds of a tree that is in order.
LEMMA SoundSearch ==
  ASSUME NEW t, NEW sz \in [Blocks -> Nat], NEW L, NEW key, NEW lo, NEW hi, NEW rank,
         Sound(t, sz, L, Null, key, lo, hi, rank), NEW H, H = Heads(t, L)
  PROVE  SearchFacts(t, H, key, lo, hi, sz) /\ Null \notin H
  <1>1. SearchTree(t, "left", H, key, lo, hi) /\ Null \notin H /\ Ordered(H, key, sz)
    <2>1. H \ {Null} = H /\ Null \notin H
      BY SoundFacts
    <2>2. QED
      BY <2>1 DEF Sound
  <1>2. \A x \in H : sz[x] \in Int
    BY <1>1, KeyFacts
  <1>3. \A x \in H : key[x] \in Int /\ lo[x] \in Int /\ hi[x] \in Int /\ lo[x] < key[x] /\ key[x] < hi[x]
    BY <1>1, KeyFacts
  <1>4. /\ \A x, y \in H : key[x] = key[y] => x = y
        /\ \A x, y \in H : t.node[x].left = Null => ~(lo[x] < key[y] /\ key[y] < key[x])
        /\ \A x, y \in H : t.node[x].right = Null => ~(key[x] < key[y] /\ key[y] < hi[x])
    BY <1>1, KeyFacts
  <1>5. \A x, y \in H : key[x] < key[y] => sz[x] < sz[y]
    BY <1>1 DEF Ordered
  <1>6. QED
    BY <1>1, <1>2, <1>3, <1>4, <1>5 DEF SearchFacts

\* lowerBound finds the best fit, and where a new node belongs.
LEMMA LowerBoundFinds ==
  ASSUME NEW L, NEW key, NEW lo, NEW hi, NEW rank, Sound(tree, size, L, Null, key, lo, hi, rank),
         size \in [Blocks -> Nat], NEW request \in Nat, NEW H, H = Heads(tree, L)
  PROVE  /\ BestIs(H, size, request, LowerBound(request)[1])
         /\ tree.root # Null => PlaceIs(tree, H, key, size, request, LowerBound(request)[2])
  <1>1. /\ tree \in TreeType /\ SearchTree(tree, "left", H, key, lo, hi) /\ Bare(tree, H) /\ H \subseteq Blocks
        /\ Null \notin H
    BY SoundFacts DEF Sound
  <1>2. PICK depth, bound : /\ bound \in Nat
                            /\ \A h \in Pointer : depth[h] \in Nat /\ depth[h] < bound
                            /\ \A h \in Blocks, s \in Sides : depth[tree.node[h][s]] < depth[h]
    BY <1>1, DescentEnds
  <1>3. PICK f : /\ LowerBound(request) = f[<<tree.root, Null, Null>>]
                 /\ \A h \in Pointer, b \in Pointer, p \in Pointer :
                      f[<<h, b, p>>] = IF h = Null THEN <<b, p>>
                                       ELSE IF size[h] < request THEN f[<<tree.node[h].right, b, h>>]
                                       ELSE IF size[h] > request THEN f[<<tree.node[h].left, h, h>>]
                                       ELSE <<h, h>>
    BY <1>1, <1>2, DescendEquation
  <1>4. SearchFacts(tree, H, key, lo, hi, size)
    BY SoundSearch
  <1> DEFINE Good(h, b, p) == /\ BestIs(H, size, request, f[<<h, b, p>>][1])
                              /\ PlaceIs(tree, H, key, size, request, f[<<h, b, p>>][2])
             T == {n \in Nat : \A h \in H, b \in H \cup {Null}, p \in Pointer :
                     depth[h] < n /\ At(H, key, lo, hi, size, request, h, b) => Good(h, b, p)}
  <1>5. 0 \in T
    <2>1. \A h \in H : ~(depth[h] < 0)
      BY <1>1, <1>2 DEF Pointer
    <2>2. QED
      BY <2>1
  <1>6. ASSUME NEW n \in Nat, n \in T
        PROVE  n + 1 \in T
    <2>1. SUFFICES ASSUME NEW h \in H, NEW b \in H \cup {Null}, NEW p \in Pointer, depth[h] < n + 1,
                          At(H, key, lo, hi, size, request, h, b)
                   PROVE  Good(h, b, p)
      OBVIOUS
    <2>2. /\ h \in Blocks /\ h # Null /\ h \in Pointer /\ b \in Pointer /\ size[h] \in Nat
      BY <1>1 DEF Pointer
    <2>3. f[<<h, b, p>>] = IF size[h] < request THEN f[<<tree.node[h].right, b, h>>]
                           ELSE IF size[h] > request THEN f[<<tree.node[h].left, h, h>>]
                           ELSE <<h, h>>
      BY <1>3, <2>2
    <2>4. ASSUME NEW c \in H, depth[c] < depth[h], NEW d \in H \cup {Null}, NEW q \in Pointer,
                 At(H, key, lo, hi, size, request, c, d)
          PROVE  Good(c, d, q)
      <3>1. depth[c] \in Nat /\ depth[h] \in Nat /\ depth[h] < n + 1
        BY <1>1, <1>2, <2>1 DEF Pointer
      <3>2. depth[c] < n
        BY <2>4, <3>1
      <3>3. QED
        BY <1>6, <2>4, <3>2
    <2>5. \A s \in Sides : depth[tree.node[h][s]] < depth[h]
      BY <1>2, <2>2
    <2>6. /\ "left" \in Sides /\ "right" \in Sides /\ Other("left") = "right"
      BY DEF Sides, Other
    <2>7. ASSUME NEW d \in Pointer, NEW q \in Pointer
          PROVE  f[<<Null, d, q>>] = <<d, q>>
      <3>1. Null \in Pointer
        BY DEF Pointer
      <3>2. QED
        BY <1>3, <3>1
    <2>8. CASE size[h] < request
      <3> DEFINE c == tree.node[h].right
      <3>1. c # Null => c \in H /\ lo[c] = key[h] /\ hi[c] = hi[h]
        BY <1>1, <2>6, NodeFacts
      <3>2. f[<<h, b, p>>] = f[<<c, b, h>>]
        BY <2>3, <2>8
      <3>3. depth[c] < depth[h]
        BY <2>5, <2>6
      <3>4. /\ c = Null => BestIs(H, size, request, b) /\ PlaceIs(tree, H, key, size, request, h)
            /\ c \in H /\ lo[c] = key[h] /\ hi[c] = hi[h] => At(H, key, lo, hi, size, request, c, b)
        <4>1. request \in Int
          OBVIOUS
        <4>2. QED
          BY <1>1, <1>4, <2>1, <2>8, <4>1, DescentRight
      <3> HIDE DEF c
      <3>5. CASE c = Null
        <4>1. f[<<h, b, p>>] = <<b, h>>
          BY <2>2, <2>7, <3>2, <3>5
        <4>2. QED
          BY <3>4, <3>5, <4>1
      <3>6. CASE c # Null
        <4>1. Good(c, b, h)
          <5> HIDE DEF Good
          <5>1. QED
            BY <2>2, <2>4, <3>1, <3>3, <3>4, <3>6
        <4>2. QED
          BY <3>2, <4>1
      <3>7. QED
        BY <3>5, <3>6
    <2>9. CASE size[h] > request
      <3> DEFINE c == tree.node[h].left
      <3>1. c # Null => c \in H /\ lo[c] = lo[h] /\ hi[c] = key[h]
        BY <1>1, <2>6, NodeFacts
      <3>2. f[<<h, b, p>>] = f[<<c, h, h>>]
        BY <2>2, <2>3, <2>9
      <3>3. depth[c] < depth[h]
        BY <2>5, <2>6
      <3>4. /\ c = Null => BestIs(H, size, request, h) /\ PlaceIs(tree, H, key, size, request, h)
            /\ c \in H /\ lo[c] = lo[h] /\ hi[c] = key[h] => At(H, key, lo, hi, size, request, c, h)
        <4>1. request \in Int /\ request < size[h]
          BY <2>2, <2>9
        <4>2. QED
          BY <1>1, <1>4, <2>1, <4>1, DescentLeft
      <3> HIDE DEF c
      <3>5. CASE c = Null
        <4>1. f[<<h, b, p>>] = <<h, h>>
          BY <2>2, <2>7, <3>2, <3>5
        <4>2. QED
          BY <3>4, <3>5, <4>1
      <3>6. CASE c # Null
        <4>1. Good(c, h, h)
          <5> HIDE DEF Good
          <5>1. QED
            BY <2>2, <2>4, <3>1, <3>3, <3>4, <3>6
        <4>2. QED
          BY <3>2, <4>1
      <3>7. QED
        BY <3>5, <3>6
    <2>10. CASE size[h] = request
      <3>1. f[<<h, b, p>>] = <<h, h>>
        BY <2>2, <2>3, <2>10
      <3>2. BestIs(H, size, request, h)
        BY <1>1, <2>2, <2>10 DEF BestIs
      <3>3. PlaceIs(tree, H, key, size, request, h)
        BY <2>2, <2>10 DEF PlaceIs
      <3>4. QED
        BY <3>1, <3>2, <3>3
    <2>11. QED
      <3>1. size[h] < request \/ size[h] > request \/ size[h] = request
        BY <2>2
      <3> HIDE DEF Good
      <3>2. QED
        BY <2>8, <2>9, <2>10, <3>1
  <1>7. \A n \in Nat : n \in T
    <2> HIDE DEF T
    <2>1. QED
      BY <1>5, <1>6, NatSetInduction
  <1>8. CASE tree.root = Null
    <2>1. f[<<tree.root, Null, Null>>] = <<Null, Null>>
      <3>1. Null \in Pointer
        BY DEF Pointer
      <3>2. QED
        BY <1>3, <1>8, <3>1
    <2>2. H = {}
      BY <1>1, <1>8, KeyFacts
    <2>3. QED
      BY <1>3, <1>8, <2>1, <2>2 DEF BestIs
  <1>9. CASE tree.root # Null
    <2>1. tree.root \in H /\ \A x \in H : lo[tree.root] <= lo[x] /\ hi[x] <= hi[tree.root]
      BY <1>1, <1>9, KeyFacts
    <2>2. At(H, key, lo, hi, size, request, tree.root, Null)
      <3>1. ASSUME NEW x \in H
            PROVE  ~(key[x] <= lo[tree.root]) /\ ~(hi[tree.root] <= key[x]) /\ key[x] < hi[tree.root]
        <4>1. /\ key[x] \in Int /\ lo[x] \in Int /\ hi[x] \in Int /\ lo[x] < key[x] /\ key[x] < hi[x]
              /\ lo[tree.root] \in Int /\ hi[tree.root] \in Int
          BY <1>4, <2>1 DEF SearchFacts
        <4>2. QED
          BY <2>1, <4>1
      <3>2. QED
        BY <2>1, <3>1 DEF At
    <2>3. Null \in Pointer /\ tree.root \in Pointer
      BY <1>1, <2>1 DEF Pointer
    <2>4. depth[tree.root] < bound /\ bound \in T
      BY <1>2, <1>7, <2>3
    <2>5. Good(tree.root, Null, Null)
      <3> HIDE DEF Good
      <3>1. QED
        BY <2>1, <2>2, <2>3, <2>4
    <2>6. QED
      BY <1>3, <2>5
  <1>10. QED
    BY <1>8, <1>9

-----------------------------------------------------------------------------
(***************************************************************************)
(* The predecessor of a node, and changing places.                         *)
(***************************************************************************)
\* The predecessor of a block with a left child is below it and has no right child, and
\* no key is between the two.
LEMMA PredecessorFacts ==
  ASSUME tree \in TreeType, NEW H, NEW key, NEW lo, NEW hi, SearchTree(tree, "left", H, key, lo, hi),
         Bare(tree, H), NEW b \in H, tree.node[b].left # Null
  PROVE  LET p == Predecessor(b) IN p \in H /\ p # b /\ tree.node[p].right = Null /\ hi[p] = key[b]
  <1>1. PICK depth, bound : /\ bound \in Nat
                            /\ \A h \in Pointer : depth[h] \in Nat /\ depth[h] < bound
                            /\ \A h \in Blocks, s \in Sides : depth[tree.node[h][s]] < depth[h]
    BY DescentEnds
  <1> DEFINE Stop == {h \in Blocks : tree.node[h].right = Null}
             value == [h \in Blocks |-> h]
             next == [h \in Blocks |-> tree.node[h].right]
             Body(f, h) == IF tree.node[h].right = Null THEN h ELSE f[tree.node[h].right]
             rightmost == CHOOSE f : f = [h \in Blocks |-> Body(f, h)]
  <1>2. Predecessor(b) = rightmost[tree.node[b].left]
    BY DEF Predecessor
  <1>3. \E f : f = [h \in Blocks |-> Body(f, h)]
    <2>1. \E f : TailRecursive(f, Blocks, Stop, value, next)
      <3>1. \A h \in Blocks : depth[h] \in Nat /\ depth[h] < bound
        BY <1>1 DEF Pointer
      <3>2. \A h \in Blocks \ Stop : next[h] \in Blocks /\ depth[next[h]] < depth[h]
        <4>1. "right" \in Fields /\ "right" \in Sides
          BY DEF Fields, Sides
        <4>2. \A h \in Blocks : tree.node[h]["right"] \in Pointer
          BY <4>1, FieldTypes
        <4>3. QED
          BY <1>1, <4>1, <4>2 DEF Pointer
      <3> HIDE DEF Stop, value, next
      <3>3. QED
        BY <1>1, <3>1, <3>2, TailRecursion
    <2>2. PICK f : f = [h \in Blocks |-> IF h \in Stop THEN value[h] ELSE f[next[h]]]
      BY <2>1 DEF TailRecursive
    <2>3. ASSUME NEW h \in Blocks
          PROVE  (IF h \in Stop THEN value[h] ELSE f[next[h]]) = Body(f, h)
      OBVIOUS
    <2>4. f = [h \in Blocks |-> Body(f, h)]
      <3> HIDE DEF Stop, value, next, Body
      <3>1. QED
        BY <2>2, <2>3
    <2>5. QED
      <3> HIDE DEF Body
      <3>1. QED
        BY <2>4
  <1>4. \A h \in Blocks : rightmost[h] = Body(rightmost, h)
    <2> HIDE DEF Body
    <2>1. rightmost = [h \in Blocks |-> Body(rightmost, h)]
      BY <1>3
    <2> HIDE DEF rightmost
    <2>2. QED
      BY <2>1
  <1> HIDE DEF rightmost
  <1> DEFINE Good(p) == p \in H /\ tree.node[p].right = Null /\ hi[p] = key[b]
             T == {n \in Nat : \A h \in H : depth[h] < n /\ hi[h] = key[b] => Good(rightmost[h])}
  <1>5. H \subseteq Blocks /\ Null \notin H
    BY KeyFacts, NullAssumption
  <1>6. 0 \in T
    <2>1. \A h \in H : ~(depth[h] < 0)
      BY <1>1, <1>5 DEF Pointer
    <2>2. QED
      BY <2>1
  <1>7. ASSUME NEW n \in Nat, n \in T
        PROVE  n + 1 \in T
    <2>1. SUFFICES ASSUME NEW h \in H, depth[h] < n + 1, hi[h] = key[b]
                   PROVE  Good(rightmost[h])
      OBVIOUS
    <2>2. h \in Blocks /\ "right" \in Sides /\ "left" \in Sides /\ Other("left") = "right"
      BY <1>5 DEF Sides, Other
    <2>3. CASE tree.node[h].right = Null
      BY <1>4, <2>1, <2>2, <2>3
    <2>4. CASE tree.node[h].right # Null
      <3> DEFINE c == tree.node[h].right
      <3>1. c \in H /\ hi[c] = hi[h]
        BY <2>2, <2>4, NodeFacts
      <3>2. depth[c] < depth[h] /\ depth[h] \in Nat /\ depth[c] \in Nat
        BY <1>1, <1>5, <2>2, <3>1 DEF Pointer
      <3>3. rightmost[h] = rightmost[c]
        BY <1>4, <2>2, <2>4
      <3> HIDE DEF c
      <3>4. depth[c] < n
        BY <2>1, <3>2
      <3>5. QED
        BY <1>7, <2>1, <3>1, <3>3, <3>4
    <2>5. QED
      BY <2>3, <2>4
  <1>8. \A n \in Nat : n \in T
    <2> HIDE DEF T
    <2>1. QED
      BY <1>6, <1>7, NatSetInduction
  <1> DEFINE c == tree.node[b].left
  <1>9. c \in H /\ hi[c] = key[b]
    <2>1. "left" \in Sides /\ "left" = "left"
      BY DEF Sides
    <2>2. QED
      BY <2>1, NodeFacts
  <1>10. Good(rightmost[c])
    <2>1. depth[c] < bound /\ bound \in Nat
      BY <1>1, <1>5, <1>9 DEF Pointer
    <2> HIDE DEF Good, c
    <2>2. QED
      BY <1>8, <1>9, <2>1
  <1>11. key[b] \in Int /\ hi[b] \in Int /\ key[b] < hi[b]
    BY KeyFacts
  <1>12. rightmost[c] # b
    BY <1>10, <1>11
  <1>13. QED
    BY <1>2, <1>10, <1>12

\* Where a block and its predecessor are: the predecessor is below the block, on the
\* left, and is not its sibling.
Near(t, b, p) ==
  /\ b # p /\ \A s \in Sides : t.node[p][s] # b /\ t.node[p][s] # p /\ t.node[b][s] # b
  /\ t.node[b].right # p /\ (t.node[p].parent = b <=> t.node[b].left = p)
  /\ t.node[b].parent \notin {b, p} /\ t.node[p].parent # p /\ t.node[p].parent # t.node[b].parent

\* Every link has its counterpart.
Linked(t, H) ==
  /\ \A x \in H, s \in Sides : t.node[x][s] # Null =>
       t.node[x][s] \in H /\ t.node[t.node[x][s]].parent = x /\ Side(t, x, t.node[x][s]) = s
  /\ \A x \in H : t.node[x].parent # Null =>
       t.node[x].parent \in H /\ t.node[t.node[x].parent][Side(t, t.node[x].parent, x)] = x
  /\ \A x \in H : t.node[x].parent = Null <=> x = t.root

\* A search tree is linked.
LEMMA LinkedTree ==
  ASSUME NEW t \in TreeType, NEW H, NEW key, NEW lo, NEW hi, SearchTree(t, "left", H, key, lo, hi)
  PROVE  Linked(t, H)
  <1>1. "left" \in Sides
    BY DEF Sides
  <1>2. ASSUME NEW x \in H, NEW s \in Sides, t.node[x][s] # Null
        PROVE  t.node[x][s] \in H /\ t.node[t.node[x][s]].parent = x /\ Side(t, x, t.node[x][s]) = s
    BY <1>1, <1>2, NodeFacts, SideOfChild
  <1>3. ASSUME NEW x \in H, t.node[x].parent # Null
        PROVE  t.node[x].parent \in H /\ t.node[t.node[x].parent][Side(t, t.node[x].parent, x)] = x
    BY <1>3, ParentLink
  <1>4. ASSUME NEW x \in H
        PROVE  t.node[x].parent = Null <=> x = t.root
    BY <1>1, NodeFacts
  <1>5. QED
    BY <1>2, <1>3, <1>4 DEF Linked

\* The predecessor is a child, or no neighbour, of the node it precedes.
LEMMA PredecessorNear ==
  ASSUME NEW t \in TreeType, NEW H, NEW key, NEW lo, NEW hi, SearchTree(t, "left", H, key, lo, hi),
         NEW b \in H, NEW p \in H, p # b, hi[p] = key[b]
  PROVE  Near(t, b, p)
  <1>1. "left" \in Sides /\ "right" \in Sides /\ Other("left") = "right" /\ \A s \in Sides : s = "left" \/ s = "right"
    BY DEF Sides, Other
  <1>2. Linked(t, H)
    BY LinkedTree
  <1>3. \A x \in H : key[x] \in Int /\ lo[x] \in Int /\ hi[x] \in Int /\ lo[x] < key[x] /\ key[x] < hi[x]
    BY KeyFacts
  <1>4. ASSUME NEW x \in H
        PROVE  /\ t.node[x]["left"] # Null => t.node[x]["left"] \in H /\ lo[t.node[x]["left"]] = lo[x] /\ hi[t.node[x]["left"]] = key[x]
               /\ t.node[x]["right"] # Null => t.node[x]["right"] \in H /\ lo[t.node[x]["right"]] = key[x] /\ hi[t.node[x]["right"]] = hi[x]
               /\ t.node[x].parent # x /\ \A s \in Sides : t.node[x][s] # x
               /\ x # Null /\ x \in Blocks
    BY <1>1, NodeFacts
  <1>5. ASSUME NEW s \in Sides
        PROVE  t.node[p][s] # b
    <2>1. t.node[p]["left"] # b
      <3>1. SUFFICES ASSUME t.node[p]["left"] = b
                     PROVE  FALSE
        OBVIOUS
      <3>2. hi[b] = key[p]
        BY <1>4, <3>1
      <3>3. QED
        BY <1>3, <3>2
    <2>2. t.node[p]["right"] # b
      <3>1. SUFFICES ASSUME t.node[p]["right"] = b
                     PROVE  FALSE
        OBVIOUS
      <3>2. hi[b] = hi[p]
        BY <1>4, <3>1
      <3>3. QED
        BY <1>3, <3>2
    <2>3. QED
      BY <1>1, <2>1, <2>2
  <1>6. t.node[b]["right"] # p
    <2>1. SUFFICES ASSUME t.node[b]["right"] = p
                   PROVE  FALSE
      OBVIOUS
    <2>2. lo[p] = key[b]
      BY <1>4, <2>1
    <2>3. lo[p] < hi[p]
      BY <1>3
    <2>4. QED
      BY <1>3, <2>2, <2>3
  <1>7. t.node[p].parent = b <=> t.node[b]["left"] = p
    <2>1. ASSUME t.node[p].parent = b
          PROVE  t.node[b]["left"] = p
      <3>1. b # Null
        BY <1>4
      <3>2. t.node[b][Side(t, b, p)] = p /\ Side(t, b, p) \in Sides
        BY <1>2, <2>1, <3>1, SideType DEF Linked
      <3>3. QED
        BY <1>1, <1>6, <3>2
    <2>2. ASSUME t.node[b]["left"] = p
          PROVE  t.node[p].parent = b
      <3>1. p # Null
        BY <1>4
      <3>2. QED
        BY <1>1, <1>2, <2>2, <3>1 DEF Linked
    <2>3. QED
      BY <2>1, <2>2
  <1>8. t.node[b].parent # p
    <2>1. SUFFICES ASSUME t.node[b].parent = p
                   PROVE  FALSE
      OBVIOUS
    <2>2. t.node[p][Side(t, p, b)] = b /\ Side(t, p, b) \in Sides
      BY <1>2, <1>4, <2>1, SideType DEF Linked
    <2>3. QED
      BY <1>5, <2>2
  <1>9. t.node[p].parent # t.node[b].parent
    <2>1. SUFFICES ASSUME t.node[p].parent = t.node[b].parent
                   PROVE  FALSE
      OBVIOUS
    <2> DEFINE q == t.node[b].parent
    <2>2. q # Null
      BY <1>2, <2>1 DEF Linked
    <2>3. q \in H /\ t.node[q][Side(t, q, b)] = b /\ t.node[q][Side(t, q, p)] = p
      BY <1>2, <2>1, <2>2 DEF Linked
    <2> HIDE DEF q
    <2>4. Side(t, q, b) \in Sides /\ Side(t, q, p) \in Sides
      BY SideType
    <2>5. \/ t.node[q]["left"] = b /\ t.node[q]["right"] = p
          \/ t.node[q]["left"] = p /\ t.node[q]["right"] = b
      BY <1>1, <2>3, <2>4
    <2>6. b # Null /\ p # Null
      BY <1>4
    <2>7. \/ hi[b] = key[q] /\ lo[p] = key[q]
          \/ hi[p] = key[q] /\ lo[b] = key[q]
      BY <1>4, <2>3, <2>5, <2>6
    <2>8. lo[p] < hi[p]
      BY <1>3
    <2>9. QED
      BY <1>3, <2>3, <2>7, <2>8
  <1>10. QED
    BY <1>4, <1>5, <1>6, <1>7, <1>8, <1>9 DEF Near

\* The exchange of the nodes of two blocks.
Exchange(t, b, p) ==
  [t EXCEPT !.node[b] = t.node[p], !.node[p] = t.node[b], !.balance[b] = t.balance[p], !.balance[p] = t.balance[b]]

\* The block whose node x has after the exchange.
Swapped(b, p, x) == IF x = b THEN p ELSE IF x = p THEN b ELSE x

\* What the exchange writes.
LEMMA ExchangeFields ==
  ASSUME NEW t \in TreeType, NEW b \in Blocks, NEW p \in Blocks, b # p
  PROVE  /\ Exchange(t, b, p) \in TreeType /\ Exchange(t, b, p).root = t.root
         /\ \A x \in Blocks : /\ Exchange(t, b, p).node[x] = t.node[Swapped(b, p, x)]
                              /\ Exchange(t, b, p).balance[x] = t.balance[Swapped(b, p, x)]
  <1> DEFINE u == Exchange(t, b, p)
             n == [t.node EXCEPT ![b] = t.node[p], ![p] = t.node[b]]
             v == [t.balance EXCEPT ![b] = t.balance[p], ![p] = t.balance[b]]
  <1>1. /\ t.root \in Pointer /\ t.node \in [Blocks -> NodeType] /\ t.balance \in [Blocks -> Balances]
        /\ t = [root |-> t.root, node |-> t.node, balance |-> t.balance]
    BY DEF TreeType
  <1>2. u.root = t.root /\ u.node = n /\ u.balance = v
    BY <1>1 DEF Exchange
  <1>3. n \in [Blocks -> NodeType] /\ v \in [Blocks -> Balances]
    BY <1>1
  <1>4. \A x \in Blocks : n[x] = t.node[Swapped(b, p, x)] /\ v[x] = t.balance[Swapped(b, p, x)]
    BY <1>1 DEF Swapped
  <1>5. u = [root |-> u.root, node |-> u.node, balance |-> u.balance]
    <2>1. u = [[root |-> t.root, node |-> t.node, balance |-> t.balance] EXCEPT !.node = n, !.balance = v]
      BY <1>1, ZenonT(60) DEF Exchange
    <2>2. QED
      BY <1>2, <2>1, ZenonT(60)
  <1> HIDE DEF u, n, v
  <1>6. u \in TreeType
    BY <1>1, <1>2, <1>3, <1>5 DEF TreeType
  <1>7. QED
    BY <1>2, <1>4, <1>6 DEF u

\* The lists and the balances after a swap with a block that has no twin.
SwappedLists(t, u, b, p) ==
  /\ u \in TreeType
  /\ \A x \in Blocks : /\ u.node[x].next = IF x = b THEN t.node[p].next ELSE IF x = p THEN Null ELSE t.node[x].next
                       /\ u.node[x].previous = IF x = t.node[p].next THEN b ELSE t.node[x].previous
                       /\ u.balance[x] = t.balance[Swapped(b, p, x)]

\* The tree after it: every link has been renamed.
SwappedTree(t, u, b, p, H) ==
  /\ u.root = Swapped(b, p, t.root)
  /\ \A x \in H, s \in Sides : u.node[x][s] = Swapped(b, p, t.node[Swapped(b, p, x)][s])
  /\ \A x \in H : u.node[x].parent = Swapped(b, p, t.node[Swapped(b, p, x)].parent)
  /\ \A x \in Blocks \ H : \A f \in {"left", "right", "parent"} : u.node[x][f] = t.node[x][f]

\* swapNode for a block and its predecessor.
LEMMA SwapFields ==
  ASSUME NEW t \in TreeType, NEW H, H \subseteq Blocks, Linked(t, H), NEW b \in H, NEW p \in H, Near(t, b, p),
         t.node[b].previous = Null, t.node[p].previous = Null, t.node[b].next = Null,
         t.node[p].next \notin {b, p}, NEW u, u = SwapNode(t, b, p)
  PROVE  SwappedLists(t, u, b, p) /\ SwappedTree(t, u, b, p, H)
  <1> DEFINE e  == Exchange(t, b, p)
             n  == Repointed(e.node[b], b, p)
             v  == FixUp(e, b, p)
             m  == Repointed(v.node[p], p, b)
  <1>1. b \in Blocks /\ p \in Blocks /\ b # p /\ b # Null /\ p # Null /\ b \in Pointer /\ p \in Pointer
    BY NullAssumption DEF Near, Pointer
  <1>2. /\ "left" \in Sides /\ "right" \in Sides /\ \A s \in Sides : s = "left" \/ s = "right"
        /\ \A s \in Sides : s \in Fields
        /\ "left" \in Fields /\ "right" \in Fields /\ "parent" \in Fields /\ "next" \in Fields /\ "previous" \in Fields
    BY DEF Sides, Fields
  <1>3. u = FixUp(v, p, b)
    BY DEF SwapNode, Exchange
  <1>4. /\ e \in TreeType /\ e.root = t.root
        /\ \A x \in Blocks : /\ e.node[x] = t.node[Swapped(b, p, x)]
                             /\ e.balance[x] = t.balance[Swapped(b, p, x)]
    BY <1>1, ExchangeFields
  <1> HIDE DEF e
  <1>5. /\ e.node[b] = t.node[p] /\ e.node[p] = t.node[b]
        /\ \A x \in Blocks \ {b, p} : e.node[x] = t.node[x]
    BY <1>1, <1>4 DEF Swapped
  <1>6. \A f \in Fields : n[f] = IF t.node[p][f] = b THEN p ELSE t.node[p][f]
    <2>1. e.node[b] \in NodeType
      BY <1>1, <1>2, <1>4, FieldTypes
    <2>2. QED
      BY <1>1, <1>5, <2>1, RepointedType
  <1>7. /\ n.left = t.node[p].left /\ n.right = t.node[p].right /\ n.next = t.node[p].next /\ n.previous = Null
        /\ n.parent = IF t.node[p].parent = b THEN p ELSE t.node[p].parent
    <2>1. \A s \in Sides : n[s] = t.node[p][s]
      BY <1>2, <1>6 DEF Near
    <2>2. /\ n["next"] = t.node[p]["next"] /\ n["previous"] = Null
          /\ n["parent"] = IF t.node[p]["parent"] = b THEN p ELSE t.node[p]["parent"]
      BY <1>1, <1>2, <1>6
    <2>3. QED
      BY <1>2, <2>1, <2>2
  <1> HIDE DEF n
  <1>8. /\ v \in TreeType /\ v.balance = e.balance
        /\ \A x \in Blocks : v.node[x].next =
             IF x = n.previous THEN b ELSE IF x = b THEN n.next ELSE e.node[x].next
        /\ \A x \in Blocks : v.node[x].previous =
             IF x = n.next THEN b ELSE IF x = b THEN n.previous ELSE e.node[x].previous
        /\ v.root = IF n.parent = Null THEN b ELSE e.root
        /\ \A x \in Blocks : v.node[x].parent =
             IF x = n.left \/ x = n.right THEN b ELSE IF x = b THEN n.parent ELSE e.node[x].parent
        /\ \A x \in Blocks : \A s \in Sides : v.node[x][s] =
             IF x = n.parent /\ s = Side(e, n.parent, p) THEN b ELSE IF x = b THEN n[s] ELSE e.node[x][s]
    <2>1. n = Repointed(e.node[b], b, p)
      BY DEF n
    <2>2. FixedUp(e, v, b, p, n)
      BY <1>1, <1>4, <2>1, FixUpFields
    <2> HIDE DEF v
    <2>3. QED
      BY <1>7, <2>2 DEF FixedUp
  <1> HIDE DEF v
  <1>9. \A f \in Fields : m[f] = IF v.node[p][f] = p THEN b ELSE v.node[p][f]
    <2>1. v.node[p] \in NodeType
      BY <1>1, <1>2, <1>8, FieldTypes
    <2>2. QED
      BY <1>1, <2>1, RepointedType
  <1>10. v.node[p].next = Null /\ v.node[p].previous = Null
    BY <1>1, <1>5, <1>7, <1>8
  <1>11. m.next = Null /\ m.previous = Null
    <2>1. m["next"] = Null /\ m["previous"] = Null
      BY <1>1, <1>2, <1>9, <1>10
    <2>2. QED
      BY <2>1
  <1> HIDE DEF m
  <1>12. /\ u \in TreeType /\ u.balance = v.balance
         /\ \A x \in Blocks : u.node[x].next =
              IF x = m.previous THEN p ELSE IF x = p THEN m.next ELSE v.node[x].next
         /\ \A x \in Blocks : u.node[x].previous =
              IF x = m.next THEN p ELSE IF x = p THEN m.previous ELSE v.node[x].previous
         /\ u.root = IF m.parent = Null THEN p ELSE v.root
         /\ \A x \in Blocks : u.node[x].parent =
              IF x = m.left \/ x = m.right THEN p ELSE IF x = p THEN m.parent ELSE v.node[x].parent
         /\ \A x \in Blocks : \A s \in Sides : u.node[x][s] =
              IF x = m.parent /\ s = Side(v, m.parent, b) THEN p ELSE IF x = p THEN m[s] ELSE v.node[x][s]
    <2>1. m = Repointed(v.node[p], p, b)
      BY DEF m
    <2>2. FixedUp(v, u, p, b, m)
      BY <1>1, <1>3, <1>8, <2>1, FixUpFields
    <2>3. QED
      BY <1>11, <2>2 DEF FixedUp
  <1>13. \A x \in Blocks : x # Null
    BY NullAssumption
  <1>14. SwappedLists(t, u, b, p)
    <2>1. ASSUME NEW x \in Blocks
          PROVE  u.node[x].next = IF x = b THEN t.node[p].next ELSE IF x = p THEN Null ELSE t.node[x].next
      BY <1>1, <1>5, <1>7, <1>8, <1>11, <1>12, <1>13
    <2>2. ASSUME NEW x \in Blocks
          PROVE  u.node[x].previous = IF x = t.node[p].next THEN b ELSE t.node[x].previous
      BY <1>1, <1>5, <1>7, <1>8, <1>11, <1>12, <1>13
    <2>3. ASSUME NEW x \in Blocks
          PROVE  u.balance[x] = t.balance[Swapped(b, p, x)]
      BY <1>4, <1>8, <1>12
    <2>4. QED
      BY <1>12, <2>1, <2>2, <2>3 DEF SwappedLists
  <1>15. /\ \A x \in H, s \in Sides : t.node[x][s] # Null =>
              t.node[x][s] \in H /\ t.node[t.node[x][s]].parent = x /\ Side(t, x, t.node[x][s]) = s
         /\ \A x \in H : t.node[x].parent # Null =>
              t.node[x].parent \in H /\ t.node[t.node[x].parent][Side(t, t.node[x].parent, x)] = x
         /\ \A x \in H : t.node[x].parent = Null <=> x = t.root
    BY DEF Linked
  <1>16. /\ \A s \in Sides : t.node[p][s] # b /\ t.node[p][s] # p /\ t.node[b][s] # b
         /\ t.node[b]["right"] # p /\ (t.node[p].parent = b <=> t.node[b]["left"] = p)
         /\ t.node[b].parent \notin {b, p} /\ t.node[p].parent # p /\ t.node[p].parent # t.node[b].parent
    BY <1>2 DEF Near
  <1> DEFINE q == t.node[b].parent
             r == t.node[p].parent
  <1>17. ASSUME q # Null
         PROVE  Side(v, q, b) = Side(t, q, b)
    <2>1. q \in Blocks /\ q # b /\ q # p
      BY <1>15, <1>16, <1>17
    <2>2. q # n.parent
      BY <1>7, <1>16
    <2>3. v.node[q]["left"] = t.node[q]["left"]
      BY <1>2, <1>5, <1>8, <2>1, <2>2
    <2>4. QED
      BY <2>3 DEF Side
  <1>18. ASSUME NEW x \in H, NEW s \in Sides
         PROVE  /\ t.node[x][s] = b <=> x = q /\ s = Side(t, q, b)
                /\ t.node[x][s] = p <=> x = r /\ s = Side(t, r, p)
    <2>1. x # Null
      BY <1>13
    <2>2. QED
      BY <1>1, <1>15, <2>1
  <1>19. ASSUME NEW x \in H
         PROVE  /\ t.node[x].parent = b <=> x = t.node[b]["left"] \/ x = t.node[b]["right"]
                /\ t.node[x].parent = p <=> x = t.node[p]["left"] \/ x = t.node[p]["right"]
    <2>1. x # Null
      BY <1>13
    <2>2. QED
      BY <1>1, <1>2, <1>15, <2>1, SideType
  <1>20. ASSUME NEW x \in Blocks \ H, NEW s \in Sides
         PROVE  /\ t.node[b][s] # x /\ t.node[p][s] # x /\ q # x /\ r # x /\ x # b /\ x # p
    BY <1>13, <1>15
  <1>21. CASE r = b
    <2>1. t.node[b]["left"] = p /\ n.parent = p /\ Side(e, p, p) = "left"
      BY <1>5, <1>7, <1>16, <1>21 DEF Side
    <2>2. /\ v.node[p].parent = q /\ v.node[p]["left"] = b /\ v.node[p]["right"] = t.node[b]["right"]
      <3>1. v.node[p].parent = e.node[p].parent
        BY <1>1, <1>2, <1>7, <1>8, <1>16
      <3>2. v.node[p]["left"] = b
        BY <1>1, <1>2, <1>8, <2>1
      <3>3. v.node[p]["right"] = e.node[p]["right"]
        BY <1>1, <1>2, <1>8, <2>1
      <3>4. QED
        BY <1>5, <3>1, <3>2, <3>3
    <2>3. m.parent = q /\ m.left = b /\ m.right = t.node[b]["right"]
      <3>1. m["parent"] = q
        BY <1>2, <1>9, <1>16, <2>2
      <3>2. m["left"] = b
        BY <1>1, <1>2, <1>9, <2>2
      <3>3. m["right"] = t.node[b]["right"]
        BY <1>1, <1>2, <1>9, <1>16, <2>2
      <3>4. QED
        BY <3>1, <3>2, <3>3
    <2>4. u.root = Swapped(b, p, t.root)
      BY <1>1, <1>4, <1>8, <1>12, <1>15, <1>21, <2>1, <2>3 DEF Swapped
    <2>5. ASSUME NEW x \in Blocks
          PROVE  u.node[x].parent = IF x = b \/ x = t.node[b]["right"] THEN p ELSE IF x = p THEN q
                                    ELSE IF x = t.node[p]["left"] \/ x = t.node[p]["right"] THEN b
                                    ELSE t.node[x].parent
      BY <1>1, <1>5, <1>7, <1>8, <1>12, <2>3
    <2>6. ASSUME NEW x \in Blocks, NEW s \in Sides
          PROVE  u.node[x][s] = IF x = q /\ s = Side(t, q, b) THEN p
                                ELSE IF x = p THEN (IF s = "left" THEN b ELSE t.node[b]["right"])
                                ELSE IF x = b THEN t.node[p][s] ELSE t.node[x][s]
      <3>1. u.node[x][s] = IF x = q /\ s = Side(t, q, b) THEN p ELSE IF x = p THEN m[s] ELSE v.node[x][s]
        BY <1>12, <1>13, <1>17, <2>3
      <3>2. m[s] = IF s = "left" THEN b ELSE t.node[b]["right"]
        BY <1>2, <2>3
      <3>3. x # p => v.node[x][s] = IF x = b THEN n[s] ELSE t.node[x][s]
        BY <1>5, <1>8, <2>1
      <3>4. n[s] = t.node[p][s]
        BY <1>2, <1>7
      <3>5. QED
        BY <3>1, <3>2, <3>3, <3>4
    <2>7. ASSUME NEW x \in H
          PROVE  u.node[x].parent = Swapped(b, p, t.node[Swapped(b, p, x)].parent)
      <3>1. CASE x = b
        BY <1>1, <1>21, <2>5, <3>1 DEF Swapped
      <3>2. CASE x = p
        BY <1>1, <1>16, <2>5, <3>2 DEF Swapped
      <3>3. CASE x # b /\ x # p
        <4>1. Swapped(b, p, x) = x
          BY <3>3 DEF Swapped
        <4>2. t.node[x].parent = b => u.node[x].parent = p
          BY <1>19, <2>1, <2>5, <3>3
        <4>3. t.node[x].parent = p => u.node[x].parent = b
          <5>1. t.node[x].parent = p => t.node[x].parent # b
            BY <1>1
          <5>2. QED
            BY <1>19, <2>5, <3>3, <5>1
        <4>4. t.node[x].parent # p /\ t.node[x].parent # b => u.node[x].parent = t.node[x].parent
          BY <1>19, <2>5, <3>3
        <4>5. QED
          BY <1>1, <4>1, <4>2, <4>3, <4>4 DEF Swapped
      <3>4. QED
        BY <3>1, <3>2, <3>3
    <2>8. ASSUME NEW x \in H, NEW s \in Sides
          PROVE  u.node[x][s] = Swapped(b, p, t.node[Swapped(b, p, x)][s])
      <3>1. CASE x = b
        <4>1. u.node[x][s] = t.node[p][s]
          BY <1>1, <1>16, <2>6, <3>1
        <4>2. QED
          BY <1>16, <3>1, <4>1 DEF Swapped
      <3>2. CASE x = p
        <4>1. u.node[x][s] = IF s = "left" THEN b ELSE t.node[b]["right"]
          BY <1>1, <1>16, <2>6, <3>2
        <4>2. CASE s = "left"
          BY <1>1, <2>1, <3>2, <4>1, <4>2 DEF Swapped
        <4>3. CASE s = "right"
          BY <1>1, <1>2, <1>16, <3>2, <4>1, <4>3 DEF Swapped
        <4>4. QED
          BY <1>2, <4>2, <4>3
      <3>3. CASE x # b /\ x # p
        <4>1. t.node[x][s] # p
          BY <1>18, <1>21, <3>3
        <4>2. t.node[x][s] = b => u.node[x][s] = p
          BY <1>18, <2>6, <3>3
        <4>3. t.node[x][s] # b => u.node[x][s] = t.node[x][s]
          BY <1>18, <2>6, <3>3
        <4>4. QED
          BY <3>3, <4>1, <4>2, <4>3 DEF Swapped
      <3>4. QED
        BY <3>1, <3>2, <3>3
    <2>9. ASSUME NEW x \in Blocks \ H
          PROVE  /\ u.node[x]["parent"] = t.node[x]["parent"]
                 /\ u.node[x]["left"] = t.node[x]["left"] /\ u.node[x]["right"] = t.node[x]["right"]
      BY <1>2, <1>20, <2>5, <2>6
    <2>10. QED
      BY <1>14, <2>4, <2>7, <2>8, <2>9 DEF SwappedTree
  <1>22. CASE r # b
    <2>1. t.node[b]["left"] # p /\ n.parent = r
      BY <1>7, <1>16, <1>22
    <2>2. r # Null => Side(e, r, p) = Side(t, r, p)
      <3>1. r # Null => r \in Blocks \ {b, p}
        BY <1>15, <1>16, <1>22
      <3>2. QED
        BY <1>5, <3>1 DEF Side
    <2>3. v.node[p].parent = q /\ \A s \in Sides : v.node[p][s] = t.node[b][s]
      <3>1. v.node[p].parent = e.node[p].parent
        BY <1>1, <1>2, <1>7, <1>8, <1>16
      <3>2. \A s \in Sides : v.node[p][s] = e.node[p][s]
        BY <1>1, <1>8, <1>16, <2>1
      <3>3. QED
        BY <1>5, <3>1, <3>2
    <2>4. m.parent = q /\ \A s \in Sides : m[s] = t.node[b][s]
      <3>1. m["parent"] = q
        BY <1>2, <1>9, <1>16, <2>3
      <3>2. \A s \in Sides : t.node[b][s] # p
        BY <1>2, <1>16, <2>1, ZenonT(60)
      <3>3. QED
        BY <1>2, <1>9, <2>3, <3>1, <3>2
    <2>5. u.root = Swapped(b, p, t.root)
      BY <1>1, <1>4, <1>8, <1>12, <1>15, <1>16, <2>1, <2>4 DEF Swapped
    <2>6. ASSUME NEW x \in Blocks
          PROVE  u.node[x].parent = IF x = t.node[b]["left"] \/ x = t.node[b]["right"] THEN p
                                    ELSE IF x = p THEN q
                                    ELSE IF x = t.node[p]["left"] \/ x = t.node[p]["right"] THEN b
                                    ELSE IF x = b THEN r ELSE t.node[x].parent
      <3>1. m.left = t.node[b]["left"] /\ m.right = t.node[b]["right"]
        BY <1>2, <2>4
      <3>2. QED
        BY <1>5, <1>7, <1>8, <1>12, <2>1, <2>4, <3>1
    <2>7. ASSUME NEW x \in Blocks, NEW s \in Sides
          PROVE  u.node[x][s] = IF x = q /\ s = Side(t, q, b) THEN p
                                ELSE IF x = p THEN t.node[b][s]
                                ELSE IF x = r /\ s = Side(t, r, p) THEN b
                                ELSE IF x = b THEN t.node[p][s] ELSE t.node[x][s]
      <3>1. u.node[x][s] = IF x = q /\ s = Side(t, q, b) THEN p ELSE IF x = p THEN m[s] ELSE v.node[x][s]
        BY <1>12, <1>13, <1>17, <2>4
      <3>2. v.node[x][s] = IF x = r /\ s = Side(t, r, p) THEN b ELSE IF x = b THEN n[s] ELSE e.node[x][s]
        BY <1>8, <1>13, <2>1, <2>2
      <3>3. n[s] = t.node[p][s]
        BY <1>2, <1>7
      <3>4. QED
        BY <1>5, <2>4, <3>1, <3>2, <3>3
    <2>8. ASSUME NEW x \in H
          PROVE  u.node[x].parent = Swapped(b, p, t.node[Swapped(b, p, x)].parent)
      <3>1. CASE x = b
        <4>1. u.node[b].parent = r
          BY <1>1, <1>2, <1>16, <2>6
        <4>2. QED
          BY <1>16, <1>22, <3>1, <4>1 DEF Swapped
      <3>2. CASE x = p
        <4>1. u.node[p].parent = q
          BY <1>1, <1>2, <1>16, <2>1, <2>6
        <4>2. QED
          BY <1>1, <1>16, <3>2, <4>1 DEF Swapped
      <3>3. CASE x # b /\ x # p
        <4>1. Swapped(b, p, x) = x
          BY <3>3 DEF Swapped
        <4>2. t.node[x].parent = b => u.node[x].parent = p
          BY <1>19, <2>6
        <4>3. t.node[x].parent = p => u.node[x].parent = b
          <5>1. t.node[x].parent = p => t.node[x].parent # b
            BY <1>1
          <5>2. QED
            BY <1>19, <2>6, <3>3, <5>1
        <4>4. t.node[x].parent # p /\ t.node[x].parent # b => u.node[x].parent = t.node[x].parent
          BY <1>19, <2>6, <3>3
        <4>5. QED
          BY <1>1, <4>1, <4>2, <4>3, <4>4 DEF Swapped
      <3>4. QED
        BY <3>1, <3>2, <3>3
    <2>9. ASSUME NEW x \in H, NEW s \in Sides
          PROVE  u.node[x][s] = Swapped(b, p, t.node[Swapped(b, p, x)][s])
      <3>1. CASE x = b
        <4>1. u.node[x][s] = t.node[p][s]
          BY <1>1, <1>16, <1>22, <2>7, <3>1
        <4>2. QED
          BY <1>16, <3>1, <4>1 DEF Swapped
      <3>2. CASE x = p
        <4>1. u.node[x][s] = t.node[b][s]
          BY <1>1, <1>16, <2>7, <3>2
        <4>2. t.node[b][s] # p /\ t.node[b][s] # b
          BY <1>2, <1>16, <2>1
        <4>3. QED
          BY <1>1, <3>2, <4>1, <4>2 DEF Swapped
      <3>3. CASE x # b /\ x # p
        <4>1. t.node[x][s] = p => u.node[x][s] = b
          BY <1>16, <1>18, <2>7, <3>3
        <4>2. t.node[x][s] = b => u.node[x][s] = p
          BY <1>18, <2>7, <3>3
        <4>3. t.node[x][s] # b /\ t.node[x][s] # p => u.node[x][s] = t.node[x][s]
          BY <1>18, <2>7, <3>3
        <4>4. QED
          BY <1>1, <3>3, <4>1, <4>2, <4>3 DEF Swapped
      <3>4. QED
        BY <3>1, <3>2, <3>3
    <2>10. ASSUME NEW x \in Blocks \ H
           PROVE  /\ u.node[x]["parent"] = t.node[x]["parent"]
                  /\ u.node[x]["left"] = t.node[x]["left"] /\ u.node[x]["right"] = t.node[x]["right"]
      BY <1>2, <1>20, <2>6, <2>7
    <2>11. QED
      BY <1>14, <2>5, <2>8, <2>9, <2>10 DEF SwappedTree
  <1>23. QED
    BY <1>21, <1>22

\* A block without a twin that has changed places with its predecessor is the only one
\* that is out of order, and it has no right child.
LEMMA SwapSound ==
  ASSUME NEW t, NEW sz, NEW L, NEW key, NEW lo, NEW hi, NEW rank, Sound(t, sz, L, Null, key, lo, hi, rank),
         NEW b \in Heads(t, L), t.node[b].next = Null,
         NEW p \in Heads(t, L), p # b, hi[p] = key[b], t.node[p].right = Null, NEW u, u = SwapNode(t, b, p)
  PROVE  /\ Heads(u, L) = Heads(t, L) /\ u.node[b].right = Null
         /\ \E key2, lo2, hi2, rank2 : Sound(u, sz, L, b, key2, lo2, hi2, rank2)
  <1> DEFINE H == Heads(t, L)
  <1>1. /\ t \in TreeType /\ L \subseteq Blocks /\ H \subseteq L /\ Null \notin L
        /\ \A x \in Blocks : t.balance[x] # "allocated" <=> x \in L
        /\ \A x \in Blocks, f \in Fields : t.node[x][f] \in Pointer
    BY SoundFacts
  <1>2. SearchTree(t, "left", H, key, lo, hi)
    BY DEF Sound
  <1>3. Near(t, b, p) /\ Linked(t, H)
    BY <1>1, <1>2, LinkedTree, PredecessorNear
  <1>4. t.node[b].previous = Null /\ t.node[p].previous = Null /\ b \in L /\ p \in L
    BY DEF Heads
  <1>5. \A y \in L : /\ rank[y] \in Nat
                     /\ t.node[y].next # Null => t.node[y].next \in L /\ t.node[t.node[y].next].previous = y
                     /\ t.node[y].previous # Null => /\ t.node[y].previous \in L
                                                     /\ t.node[t.node[y].previous].next = y
                                                     /\ rank[t.node[y].previous] < rank[y]
    BY DEF Sound, Lists
  <1>6. t.node[p].next \notin {b, p}
    BY <1>1, <1>4, <1>5
  <1>7. SwappedLists(t, u, b, p) /\ SwappedTree(t, u, b, p, H)
    BY <1>1, <1>3, <1>4, <1>6, SwapFields
  <1>8. Heads(u, L) = H
    <2>1. \A x \in L : u.node[x].previous = Null <=> t.node[x].previous = Null
      BY <1>1, <1>4, <1>5, <1>7 DEF SwappedLists
    <2>2. QED
      BY <2>1 DEF Heads
  <1>9. /\ "left" \in Sides /\ "right" \in Sides /\ Other("left") = "right" /\ "left" \in Fields /\ "right" \in Fields
        /\ "parent" \in Fields
    BY DEF Sides, Other, Fields
  <1>10. H \subseteq Blocks /\ Null \notin H /\ b \in H /\ p \in H
    BY <1>1
  <1> HIDE DEF H
  <1>11. u.node[b].right = Null
    <2>1. u.node[b]["right"] = Swapped(b, p, t.node[p]["right"])
      BY <1>7, <1>9, <1>10 DEF SwappedTree, Swapped
    <2>2. QED
      BY <1>10, <2>1 DEF Swapped
  <1> DEFINE sw   == [x \in Pointer |-> Swapped(b, p, x)]
             key2 == [x \in Blocks |-> key[sw[x]]]
             lo2  == [x \in Blocks |-> lo[sw[x]]]
             hi2  == [x \in Blocks |-> hi[sw[x]]]
             rank2 == [x \in L |-> IF x = b THEN rank[p] ELSE rank[x]]
  <1>12. /\ sw \in [Pointer -> Pointer] /\ \A x \in Blocks : sw[x] \in Blocks
         /\ \A x \in Pointer : sw[x] = Swapped(b, p, x)
    BY <1>10 DEF Swapped, Pointer
  <1>13. Renaming(sw, H)
    <2>1. sw[Null] = Null
      BY <1>10 DEF Swapped, Pointer
    <2>2. \A x \in Pointer : sw[sw[x]] = x
      BY <1>12 DEF Swapped
    <2>3. \A x \in H : sw[x] \in H
      BY <1>10, <1>12 DEF Swapped, Pointer
    <2> HIDE DEF sw
    <2>4. QED
      BY <1>12, <2>1, <2>2, <2>3 DEF Renaming
  <1> HIDE DEF sw
  <1>14. key2 \in [Blocks -> Int] /\ lo2 \in [Blocks -> Int] /\ hi2 \in [Blocks -> Int]
    <2>1. key \in [Blocks -> Int] /\ lo \in [Blocks -> Int] /\ hi \in [Blocks -> Int]
      BY <1>2 DEF SearchTree
    <2>2. QED
      BY <1>12, <2>1
  <1>15. /\ \A x \in Blocks : key2[x] = key[sw[x]] /\ lo2[x] = lo[sw[x]] /\ hi2[x] = hi[sw[x]]
         /\ \A x \in L : rank2[x] = IF x = b THEN rank[p] ELSE rank[x]
    OBVIOUS
  <1> HIDE DEF key2, lo2, hi2, rank2
  <1>16. u \in TreeType /\ \A x \in Blocks, f \in Fields : u.node[x][f] \in Pointer
    BY <1>7, FieldTypes DEF SwappedLists
  <1>17. SearchTree(u, "left", H, key2, lo2, hi2)
    <2>1. /\ Shape(t.root, Kid(t, "left"), Kid(t, "right"), Par(t), H)
          /\ Spans(t.root, Kid(t, "left"), Kid(t, "right"), H, key, lo, hi)
      BY <1>2, <1>9 DEF SearchTree
    <2>2. Renamed(sw, t.root, Kid(t, "left"), Kid(t, "right"), Par(t), H,
                  u.root, Kid(u, "left"), Kid(u, "right"), Par(u))
      <3>1. /\ Kid(u, "left") \in [Blocks -> Pointer] /\ Kid(u, "right") \in [Blocks -> Pointer]
            /\ Par(u) \in [Blocks -> Pointer]
        BY <1>9, <1>16 DEF Kid, Par
      <3>2. u.root = sw[t.root]
        <4>1. t.root \in Pointer
          BY <1>1 DEF TreeType
        <4>2. QED
          BY <1>7, <1>12, <4>1 DEF SwappedTree
      <3>3. ASSUME NEW x \in H, NEW s \in Sides
            PROVE  Kid(u, s)[x] = sw[Kid(t, s)[sw[x]]]
        <4>1. x \in Blocks /\ x \in Pointer /\ sw[x] = Swapped(b, p, x) /\ sw[x] \in Blocks /\ s \in Fields
          BY <1>10, <1>12 DEF Pointer, Sides, Fields
        <4>2. t.node[sw[x]][s] \in Pointer
          BY <1>1, <4>1
        <4>3. QED
          BY <1>7, <1>12, <4>1, <4>2 DEF SwappedTree, Kid
      <3>4. ASSUME NEW x \in H
            PROVE  Par(u)[x] = sw[Par(t)[sw[x]]]
        <4>1. x \in Blocks /\ x \in Pointer /\ sw[x] = Swapped(b, p, x) /\ sw[x] \in Blocks
          BY <1>10, <1>12 DEF Pointer
        <4>2. t.node[sw[x]]["parent"] \in Pointer
          BY <1>1, <1>9, <4>1
        <4>3. QED
          BY <1>7, <1>12, <4>1, <4>2 DEF SwappedTree, Par
      <3>5. QED
        BY <1>9, <3>1, <3>2, <3>3, <3>4 DEF Renamed
    <2>3. RenamedKeys(sw, H, key, lo, hi, key2, lo2, hi2)
      BY <1>10, <1>15 DEF RenamedKeys
    <2>4. Shape(u.root, Kid(u, "left"), Kid(u, "right"), Par(u), H)
      BY <1>13, <2>1, <2>2, RenamedShape
    <2>5. Spans(u.root, Kid(u, "left"), Kid(u, "right"), H, key2, lo2, hi2)
      BY <1>13, <2>1, <2>2, <2>3, RenamedSpans
    <2>6. QED
      BY <1>9, <1>14, <2>4, <2>5 DEF SearchTree
  <1>18. Lists(u, L, rank2)
    <2>1. ASSUME NEW y \in L
          PROVE  rank2[y] \in Nat
      BY <1>4, <1>5, <1>15
    <2>2. ASSUME NEW y \in L, u.node[y].next # Null
          PROVE  u.node[y].next \in L /\ u.node[u.node[y].next].previous = y
      BY <1>1, <1>4, <1>5, <1>7, <2>2 DEF SwappedLists
    <2>3. ASSUME NEW y \in L, u.node[y].previous # Null
          PROVE  /\ u.node[y].previous \in L /\ u.node[u.node[y].previous].next = y
                 /\ rank2[u.node[y].previous] < rank2[y]
      <3>1. /\ u.node[y].previous = IF y = t.node[p].next THEN b ELSE t.node[y].previous
            /\ y # b /\ y # p
        BY <1>1, <1>4, <1>6, <1>7, <2>3 DEF SwappedLists
      <3>2. CASE y = t.node[p].next
        <4>1. t.node[y].previous = p
          BY <1>1, <1>4, <1>5, <3>2
        <4>2. u.node[b].next = y
          BY <1>1, <1>4, <1>7, <3>2 DEF SwappedLists
        <4>3. rank[p] < rank[y] /\ rank2[b] = rank[p] /\ rank2[y] = rank[y]
          BY <1>1, <1>4, <1>5, <1>15, <3>1, <4>1
        <4>4. QED
          BY <1>4, <3>1, <3>2, <4>2, <4>3
      <3>3. CASE y # t.node[p].next
        <4> DEFINE z == t.node[y].previous
        <4>1. u.node[y].previous = z /\ z \in L /\ t.node[z].next = y /\ rank[z] < rank[y]
          BY <1>5, <2>3, <3>1, <3>3
        <4>2. z # p /\ z # b
          BY <1>1, <3>3, <4>1
        <4>3. u.node[z].next = y
          BY <1>1, <1>7, <4>1, <4>2 DEF SwappedLists
        <4>4. rank2[z] = rank[z] /\ rank2[y] = rank[y]
          BY <1>15, <3>1, <4>1, <4>2
        <4>5. QED
          BY <4>1, <4>3, <4>4
      <3>4. QED
        BY <3>2, <3>3
    <2>4. QED
      BY <2>1, <2>2, <2>3 DEF Lists
  <1>19. OneSize(u, L \ {b}, sz)
    <2>1. \A y \in L : t.node[y].next # Null => sz[t.node[y].next] = sz[y]
      <3>1. L \ {Null} = L
        BY <1>1
      <3>2. QED
        BY <3>1 DEF Sound, OneSize
    <2>2. QED
      BY <1>1, <1>7, <2>1 DEF SwappedLists, OneSize
  <1>20. Ordered(H \ {b}, key2, sz)
    <2>1. \A x, y \in H : key[x] < key[y] => sz[x] < sz[y]
      <3>1. H \ {Null} = H
        BY <1>10
      <3>2. QED
        BY <3>1 DEF Sound, Ordered, H
    <2>2. SUFFICES ASSUME NEW x \in H \ {b}, NEW y \in H \ {b}, key2[x] < key2[y]
                   PROVE  sz[x] < sz[y]
      BY DEF Ordered
    <2>3. ASSUME NEW z \in H \ {b}
          PROVE  key2[z] = IF z = p THEN key[b] ELSE key[z]
      BY <1>10, <1>12, <1>15 DEF Swapped, Pointer
    <2>4. /\ key[p] \in Int /\ key[b] \in Int /\ hi[p] \in Int /\ key[x] \in Int /\ key[y] \in Int
          /\ key[p] < key[b]
      BY <1>2, <1>10, KeyFacts
    <2>5. CASE x = p
      <3>1. y # p
        BY <2>2, <2>3, <2>4, <2>5
      <3>2. key[b] < key[y]
        BY <2>2, <2>3, <2>5, <3>1
      <3>3. key[p] < key[y]
        BY <2>4, <3>2
      <3>4. QED
        BY <2>1, <2>5, <3>3
    <2>6. CASE x # p /\ y = p
      <3>1. key[x] < key[b]
        BY <2>2, <2>3, <2>6
      <3>2. ~(key[p] < key[x] /\ key[x] < hi[p]) /\ key[x] # key[p]
        BY <1>2, <1>10, <2>6, KeyFacts
      <3>3. key[x] < key[p]
        BY <2>4, <3>1, <3>2
      <3>4. QED
        BY <2>1, <2>6, <3>3
    <2>7. CASE x # p /\ y # p
      BY <2>1, <2>2, <2>3, <2>7
    <2>8. QED
      BY <2>5, <2>6, <2>7
  <1>21. Bare(u, H)
    <2>1. \A x \in Blocks \ H : \A f \in {"left", "right", "parent"} : t.node[x][f] = Null
      BY DEF Sound, Bare, H
    <2>2. QED
      BY <1>7, <2>1 DEF SwappedTree, Bare
  <1>22. L = {x \in Blocks : u.balance[x] # "allocated"}
    <2>1. ASSUME NEW x \in Blocks
          PROVE  u.balance[x] # "allocated" <=> x \in L
      <3>1. Swapped(b, p, x) \in Blocks /\ (Swapped(b, p, x) \in L <=> x \in L)
        BY <1>1, <1>4 DEF Swapped
      <3>2. QED
        BY <1>1, <1>7, <3>1 DEF SwappedLists
    <2>2. QED
      BY <1>1, <2>1
  <1>23. Sound(u, sz, L, b, key2, lo2, hi2, rank2)
    <2>1. SearchTree(u, "left", Heads(u, L), key2, lo2, hi2) /\ Ordered(Heads(u, L) \ {b}, key2, sz)
          /\ Bare(u, Heads(u, L))
      BY <1>8, <1>17, <1>20, <1>21
    <2>2. QED
      BY <1>16, <1>18, <1>19, <1>22, <2>1 DEF Sound
  <1>24. QED
    BY <1>8, <1>11, <1>23 DEF H

\* A block that changes places with its own twin is still the next one of it.
LEMMA SwapWithTwin ==
  ASSUME NEW t \in TreeType, NEW b \in Blocks, NEW w \in Blocks, w # b,
         t.node[b].next = w, t.node[b].previous = Null, NEW u, u = SwapNode(t, w, b)
  PROVE  u \in TreeType /\ u.node[w].next = b
  <1> DEFINE e  == Exchange(t, w, b)
             n  == Repointed(e.node[w], w, b)
             v  == FixUp(e, w, b)
             m  == Repointed(v.node[b], b, w)
  <1>1. w # Null /\ b # Null /\ w \in Pointer /\ b \in Pointer
    BY NullAssumption DEF Pointer
  <1>2. "parent" \in Fields /\ "next" \in Fields /\ "previous" \in Fields
    BY DEF Fields
  <1>3. u = FixUp(v, b, w)
    BY DEF SwapNode, Exchange
  <1>4. /\ e \in TreeType /\ \A x \in Blocks : e.node[x] = t.node[Swapped(w, b, x)]
    BY <1>1, ExchangeFields
  <1> HIDE DEF e
  <1>5. e.node[w] = t.node[b] /\ e.node[b] = t.node[w]
    BY <1>4 DEF Swapped
  <1>6. n["next"] = b /\ n["previous"] = Null
    <2>1. e.node[w] \in NodeType
      BY <1>2, <1>4, FieldTypes
    <2>2. \A f \in Fields : n[f] = IF t.node[b][f] = w THEN b ELSE t.node[b][f]
      BY <1>1, <1>5, <2>1, RepointedType
    <2> HIDE DEF n
    <2>3. t.node[b]["next"] = w /\ t.node[b]["previous"] = Null
      OBVIOUS
    <2>4. QED
      BY <1>1, <1>2, <2>2, <2>3
  <1>7. n = Repointed(e.node[w], w, b)
    OBVIOUS
  <1> HIDE DEF n
  <1>8. FixedUp(e, v, w, b, n)
    BY <1>4, <1>7, FixUpFields
  <1> HIDE DEF v
  <1>9. v \in TreeType /\ v.node[b].previous = w /\ v.node[w].next = b
    BY <1>1, <1>6, <1>8 DEF FixedUp
  <1>10. m["previous"] = w
    <2>1. v.node[b] \in NodeType
      BY <1>2, <1>9, FieldTypes
    <2>2. \A f \in Fields : m[f] = IF v.node[b][f] = b THEN w ELSE v.node[b][f]
      BY <1>1, <2>1, RepointedType
    <2> HIDE DEF m
    <2>3. v.node[b]["previous"] = w
      BY <1>9
    <2>4. QED
      BY <1>2, <2>2, <2>3
  <1>11. m = Repointed(v.node[b], b, w)
    OBVIOUS
  <1> HIDE DEF m
  <1>12. FixedUp(v, u, b, w, m)
    BY <1>3, <1>9, <1>11, FixUpFields
  <1>13. QED
    BY <1>10, <1>12 DEF FixedUp

-----------------------------------------------------------------------------
(***************************************************************************)
(* Taking a node out.                                                      *)
(***************************************************************************)
\* What detaching the block r does when child is the only child it may have.
TakenOut(t, u, r, child) ==
  /\ u \in TreeType
  /\ u.root = IF t.node[r].parent = Null THEN child ELSE t.root
  /\ \A x \in Blocks \ {r} :
       /\ u.node[x].parent = IF x = child THEN t.node[r].parent ELSE t.node[x].parent
       /\ u.node[x].next = t.node[x].next /\ u.node[x].previous = t.node[x].previous
       /\ u.balance[x] = t.balance[x]
       /\ \A f \in Sides : u.node[x][f] = IF x = t.node[r].parent /\ f = Side(t, t.node[r].parent, r)
                                          THEN child ELSE t.node[x][f]
  /\ \A f \in Fields : u.node[r][f] = Null
  /\ u.balance[r] = "allocated"

\* What the last part of remove() writes: the child, if there is one, takes its place.
LEMMA DetachFields ==
  ASSUME NEW t \in TreeType, NEW r \in Blocks, NEW child \in Pointer, NEW q, q = t.node[r].parent,
         NEW u, u = Leave(Relink(Set(t, child, "parent", q), q, r, child), r)
  PROVE  TakenOut(t, u, r, child)
  <1> DEFINE t1 == Set(t, child, "parent", q)
             t2 == Relink(t1, q, r, child)
  <1>1. /\ "parent" \in Fields /\ "left" \in Fields /\ "next" \in Fields /\ "previous" \in Fields
        /\ "left" # "parent" /\ Sides \subseteq Fields
        /\ "parent" \notin Sides /\ "next" \notin Sides /\ "previous" \notin Sides
    BY DEF Fields, Sides
  <1>2. q \in Pointer
    BY <1>1, FieldTypes
  <1>3. IsSet(t, t1, child, "parent", q)
    BY <1>1, <1>2, SetFields
  <1> HIDE DEF t1
  <1>4. t1 \in TreeType
    BY <1>3 DEF IsSet
  <1>5. /\ t2 \in TreeType /\ t2.root = (IF q = Null THEN child ELSE t1.root) /\ t2.balance = t1.balance
        /\ \A x \in Blocks : \A g \in Fields :
             t2.node[x][g] = IF x = q /\ g = Side(t1, q, r) THEN child ELSE t1.node[x][g]
    BY <1>2, <1>4, RelinkFields
  <1> HIDE DEF t2
  <1>6. /\ u \in TreeType /\ u.root = t2.root
        /\ \A x \in Blocks : u.balance[x] = IF x = r THEN "allocated" ELSE t2.balance[x]
        /\ \A x \in Blocks : \A g \in Fields : u.node[x][g] = IF x = r THEN Null ELSE t2.node[x][g]
    <2>1. IsLeft(t2, Leave(t2, r), r)
      BY <1>5, LeaveIs
    <2>2. u = Leave(t2, r)
      BY ZenonT(60) DEF t1, t2
    <2>3. IsLeft(t2, u, r)
      BY <2>1, <2>2, ZenonT(60)
    <2>4. QED
      BY <2>3, ZenonT(60) DEF IsLeft
  <1>7. /\ t1.root = t.root /\ t1.balance = t.balance
        /\ \A x \in Blocks : \A g \in Fields : t1.node[x][g] = IF x = child /\ g = "parent" THEN q ELSE t.node[x][g]
    BY <1>3 DEF IsSet
  <1>8. Side(t1, q, r) \in Sides
    BY SideType
  <1>9. q # Null => Side(t1, q, r) = Side(t, q, r)
    <2>1. ASSUME q # Null
          PROVE  t1.node[q]["left"] = t.node[q]["left"]
      BY <1>1, <1>2, <1>7, <2>1, ZenonT(60) DEF Pointer
    <2>2. QED
      BY <2>1 DEF Side
  <1>10. ASSUME NEW x \in Blocks \ {r}, NEW g \in Fields \ Sides
         PROVE  u.node[x][g] = IF x = child /\ g = "parent" THEN q ELSE t.node[x][g]
    <2>1. u.node[x][g] = t2.node[x][g]
      BY <1>6, ZenonT(60)
    <2>2. t2.node[x][g] = t1.node[x][g]
      BY <1>5, <1>8, ZenonT(60)
    <2>3. t1.node[x][g] = IF x = child /\ g = "parent" THEN q ELSE t.node[x][g]
      BY <1>7, ZenonT(60)
    <2>4. QED
      BY <2>1, <2>2, <2>3, ZenonT(60)
  <1>11. ASSUME NEW x \in Blocks \ {r}, NEW g \in Sides
         PROVE  u.node[x][g] = IF x = q /\ g = Side(t, q, r) THEN child ELSE t.node[x][g]
    <2>1. g \in Fields /\ g # "parent"
      BY <1>1
    <2>2. x # Null
      BY NullAssumption, ZenonT(60)
    <2>3. u.node[x][g] = IF x = q /\ g = Side(t1, q, r) THEN child ELSE t.node[x][g]
      BY <1>5, <1>6, <1>7, <2>1
    <2>4. QED
      BY <1>9, <2>2, <2>3
  <1>12. ASSUME NEW x \in Blocks \ {r}
         PROVE  /\ u.node[x]["parent"] = IF x = child THEN q ELSE t.node[x]["parent"]
                /\ u.node[x]["next"] = t.node[x]["next"] /\ u.node[x]["previous"] = t.node[x]["previous"]
                /\ u.balance[x] = t.balance[x]
    <2>1. u.node[x]["parent"] = IF x = child THEN q ELSE t.node[x]["parent"]
      BY <1>1, <1>10, ZenonT(60)
    <2>2. u.node[x]["next"] = t.node[x]["next"] /\ u.node[x]["previous"] = t.node[x]["previous"]
      BY <1>1, <1>10
    <2>3. u.balance[x] = t.balance[x]
      <3>1. t2.balance = t.balance
        BY <1>5, <1>7, ZenonT(60)
      <3>2. u.balance[x] = t2.balance[x]
        BY <1>6, ZenonT(60)
      <3>3. QED
        BY <3>1, <3>2, ZenonT(60)
    <2>4. QED
      BY <2>1, <2>2, <2>3, ZenonT(60)
  <1>13. /\ u.root = IF q = Null THEN child ELSE t.root
         /\ \A f \in Fields : u.node[r][f] = Null
         /\ u.balance[r] = "allocated"
    BY <1>5, <1>6, <1>7, ZenonT(60)
  <1>14. QED
    BY <1>6, <1>11, <1>12, <1>13, ZenonT(150) DEF TakenOut

\* The keys stay as they are.
Shrunk(u, side, H, key) == \E lo2, hi2 : SearchTree(u, side, H, key, lo2, hi2)

\* Taking out a node leaves a search tree, seen from the side of its child.
LEMMA DetachedOriented ==
  ASSUME NEW t \in TreeType, NEW s \in Sides, NEW H, NEW key, NEW lo, NEW hi, SearchTree(t, s, H, key, lo, hi),
         Linked(t, H), NEW r \in H, t.node[r][Other(s)] = Null, NEW child, child = t.node[r][s],
         NEW u, TakenOut(t, u, r, child)
  PROVE  Shrunk(u, s, H \ {r}, key)
  <1> DEFINE near == Kid(t, s)
             far  == Kid(t, Other(s))
             par  == Par(t)
             hi2  == [x \in Blocks |-> IF hi[x] = key[r] THEN hi[r] ELSE hi[x]]
  <1>1. /\ Shape(t.root, near, far, par, H) /\ Spans(t.root, near, far, H, key, lo, hi)
        /\ key \in [Blocks -> Int] /\ lo \in [Blocks -> Int] /\ hi \in [Blocks -> Int]
        /\ H \subseteq Blocks /\ r \in Blocks /\ r # Null
    BY NullAssumption DEF SearchTree, Shape
  <1>2. Other(s) \in Sides /\ Other(s) # s /\ \A f \in Sides : f = s \/ f = Other(s)
    BY SideFields
  <1>3. /\ far[r] = Null /\ near[r] = child /\ near[r] # r /\ par[r] # r /\ par[r] = t.node[r].parent
    <2>1. t.node[r][s] # r /\ t.node[r].parent # r
      BY NodeFacts
    <2>2. QED
      BY <1>1, <2>1 DEF Kid, Par
  <1>4. /\ u \in TreeType /\ \A x \in Blocks, f \in Sides : u.node[x][f] \in Pointer /\ u.node[x].parent \in Pointer
    <2>1. u \in TreeType
      BY DEF TakenOut
    <2>2. \A x \in Blocks, f \in Sides : u.node[x][f] \in Pointer /\ u.node[x]["parent"] \in Pointer
      BY <2>1, FieldTypes DEF Sides, Fields
    <2>3. QED
      BY <2>1, <2>2
  <1>5. ASSUME NEW x \in H \ {r}, NEW f \in Sides
        PROVE  u.node[x][f] = IF t.node[x][f] = r THEN child ELSE t.node[x][f]
    <2>1. t.node[x][f] = r <=> x = t.node[r].parent /\ f = Side(t, t.node[r].parent, r)
      BY <1>1, NullAssumption DEF Linked
    <2>2. QED
      BY <1>1, <2>1 DEF TakenOut
  <1>6. u.root = IF t.root = r THEN near[r] ELSE t.root
    BY <1>3 DEF TakenOut, Linked
  <1>7. Detached(t.root, near, far, par, H, r, u.root, Kid(u, s), Kid(u, Other(s)), Par(u))
    <2>1. /\ Kid(u, s) \in [Blocks -> Pointer] /\ Kid(u, Other(s)) \in [Blocks -> Pointer]
          /\ Par(u) \in [Blocks -> Pointer]
      BY <1>2, <1>4 DEF Kid, Par
    <2>2. \A y \in H \ {r} : Kid(u, s)[y] = IF near[y] = r THEN near[r] ELSE near[y]
      BY <1>1, <1>3, <1>5 DEF Kid
    <2>3. \A y \in H \ {r} : Kid(u, Other(s))[y] = IF far[y] = r THEN near[r] ELSE far[y]
      <3>1. \A y \in H : Kid(u, Other(s))[y] = u.node[y][Other(s)] /\ far[y] = t.node[y][Other(s)]
        BY <1>1 DEF Kid
      <3>2. QED
        BY <1>2, <1>3, <1>5, <3>1
    <2>4. \A y \in H \ {r} : Par(u)[y] = IF y = near[r] THEN par[r] ELSE par[y]
      BY <1>1, <1>3 DEF Par, TakenOut
    <2> HIDE DEF near, far, par
    <2>5. QED
      BY <1>6, <2>1, <2>2, <2>3, <2>4 DEF Detached
  <1>8. hi2 \in [Blocks -> Int] /\ DetachedBounds(H, key, hi, r, hi2)
    BY <1>1 DEF DetachedBounds
  <1> HIDE DEF near, far, par, hi2
  <1>9. /\ key[r] \in Int /\ lo[r] \in Int /\ hi[r] \in Int
    BY <1>1
  <1>10. ASSUME t.root = r, near[r] = Null, NEW y \in H, y # r
         PROVE  FALSE
    <2>1. /\ key[y] \in Int /\ lo[y] \in Int /\ hi[y] \in Int /\ lo[y] < key[y] /\ key[y] < hi[y]
          /\ lo[r] <= lo[y] /\ hi[y] <= hi[r] /\ ~(lo[r] < key[y] /\ key[y] < key[r])
      BY <1>1, <1>10 DEF Spans
    <2>2. key[y] # key[r] /\ (key[y] > key[r] => key[y] >= hi[r])
      BY <1>1, <1>3, <1>10, FarGap
    <2>3. QED
      BY <1>9, <2>1, <2>2
  <1>11. Shape(u.root, Kid(u, s), Kid(u, Other(s)), Par(u), H \ {r})
    <2>1. t.root = r /\ near[r] = Null => H = {r}
      BY <1>10
    <2>2. QED
      BY <1>1, <1>3, <1>7, <2>1, DetachedShape
  <1>12. Spans(u.root, Kid(u, s), Kid(u, Other(s)), H \ {r}, key, lo, hi2)
    <2>1. CASE H = {r}
      <3>1. H \ {r} = {}
        BY <2>1
      <3>2. QED
        BY <3>1 DEF Spans
    <2>2. CASE H # {r}
      BY <1>1, <1>3, <1>7, <1>8, <2>2, DetachedSpans
    <2>3. QED
      BY <2>1, <2>2
  <1>13. SearchTree(u, s, H \ {r}, key, lo, hi2)
    BY <1>1, <1>8, <1>11, <1>12 DEF SearchTree
  <1>14. QED
    BY <1>13 DEF Shrunk

\* Taking out a node with one child at most leaves a search tree.
LEMMA DetachedTree ==
  ASSUME NEW t \in TreeType, NEW s \in Sides, NEW H, NEW key, NEW lo, NEW hi, SearchTree(t, "left", H, key, lo, hi),
         NEW r \in H, t.node[r][Other(s)] = Null, NEW child, child = t.node[r][s],
         NEW u, TakenOut(t, u, r, child)
  PROVE  Shrunk(u, "left", H \ {r}, key)
  <1>1. Linked(t, H)
    BY LinkedTree
  <1>2. "left" \in Sides /\ Other("left") = "right" /\ "right" \in Sides /\ Other("right") = "left"
    BY DEF Sides, Other
  <1>3. CASE s = "left"
    <2>1. SearchTree(t, s, H, key, lo, hi)
      BY <1>3
    <2>2. Shrunk(u, s, H \ {r}, key)
      BY <1>1, <2>1, DetachedOriented
    <2>3. QED
      BY <1>3, <2>2
  <1>4. CASE s = "right"
    <2> DEFINE key1 == Negative(key)
               lo1  == Negative(hi)
               hi1  == Negative(lo)
    <2>1. SearchTree(t, s, H, key1, lo1, hi1)
      BY <1>2, <1>4, Mirrored
    <2>2. key \in [Blocks -> Int]
      BY DEF SearchTree
    <2>3. Negative(key1) = key
      BY <2>2, NegativeTwice
    <2> HIDE DEF key1, lo1, hi1
    <2>4. Shrunk(u, s, H \ {r}, key1)
      BY <1>1, <2>1, DetachedOriented
    <2>5. PICK lo2, hi2 : SearchTree(u, s, H \ {r}, key1, lo2, hi2)
      BY <2>4 DEF Shrunk
    <2>6. SearchTree(u, "left", H \ {r}, Negative(key1), Negative(hi2), Negative(lo2))
      BY <1>2, <1>4, <2>5, Mirrored
    <2>7. QED
      BY <2>3, <2>6 DEF Shrunk
  <1>5. QED
    BY <1>3, <1>4 DEF Sides

\* Once the block that is out of order has been taken out, all others are in order.
LEMMA DetachSound ==
  ASSUME NEW t, NEW sz, NEW L, NEW r, NEW key, NEW lo, NEW hi, NEW rank, Sound(t, sz, L, r, key, lo, hi, rank),
         r \in Heads(t, L), t.node[r].left = Null \/ t.node[r].right = Null, t.node[r].next = Null,
         NEW child, child = IF t.node[r].left # Null THEN t.node[r].left ELSE t.node[r].right,
         NEW u, TakenOut(t, u, r, child)
  PROVE  \E lo2, hi2 : Sound(u, sz, L \ {r}, Null, key, lo2, hi2, rank)
  <1> DEFINE H == Heads(t, L)
             K == L \ {r}
  <1>1. /\ t \in TreeType /\ L \subseteq Blocks /\ H \subseteq L /\ Null \notin L
        /\ \A x \in Blocks : t.balance[x] # "allocated" <=> x \in L
    BY SoundFacts
  <1>2. r \in L /\ r \in Blocks /\ r # Null /\ t.node[r].previous = Null
    BY <1>1, NullAssumption DEF Heads
  <1>3. /\ Lists(t, L, rank) /\ OneSize(t, K, sz) /\ Bare(t, H)
        /\ Ordered(H \ {r}, key, sz) /\ SearchTree(t, "left", H, key, lo, hi)
    BY DEF Sound
  <1>4. /\ u \in TreeType
        /\ \A x \in Blocks \ {r} : /\ u.node[x].next = t.node[x].next /\ u.node[x].previous = t.node[x].previous
                                   /\ u.balance[x] = t.balance[x]
        /\ u.balance[r] = "allocated" /\ \A f \in Fields : u.node[r][f] = Null
    BY DEF TakenOut
  <1>5. Heads(u, K) = H \ {r}
    BY <1>1, <1>4 DEF Heads
  <1>6. Shrunk(u, "left", H \ {r}, key)
    <2>1. /\ "left" \in Sides /\ Other("left") = "right" /\ "right" \in Sides /\ Other("right") = "left"
      BY DEF Sides, Other
    <2>2. CASE t.node[r].left # Null
      <3>1. t.node[r][Other("left")] = Null /\ child = t.node[r]["left"]
        BY <2>1, <2>2
      <3>2. QED
        BY <1>1, <1>3, <2>1, <3>1, DetachedTree
    <2>3. CASE t.node[r].left = Null
      <3>1. t.node[r][Other("right")] = Null /\ child = t.node[r]["right"]
        BY <2>1, <2>3
      <3>2. QED
        BY <1>1, <1>3, <2>1, <3>1, DetachedTree
    <2>4. QED
      BY <2>2, <2>3
  <1>7. PICK lo2, hi2 : SearchTree(u, "left", H \ {r}, key, lo2, hi2)
    BY <1>6 DEF Shrunk
  <1>8. ASSUME NEW y \in K
        PROVE  y \in L /\ y \in Blocks \ {r}
    BY <1>1, ZenonT(60)
  <1>9. Lists(u, K, rank)
    <2>1. ASSUME NEW y \in K, u.node[y].next # Null
          PROVE  u.node[y].next \in K /\ u.node[u.node[y].next].previous = y
      <3>1. /\ u.node[y].next = t.node[y].next /\ t.node[y].next \in L
            /\ t.node[t.node[y].next].previous = y /\ y # Null
        BY <1>1, <1>3, <1>4, <1>8, <2>1 DEF Lists
      <3>2. t.node[y].next # r
        BY <1>2, <3>1
      <3>3. QED
        BY <1>1, <1>4, <3>1, <3>2
    <2>2. ASSUME NEW y \in K, u.node[y].previous # Null
          PROVE  /\ u.node[y].previous \in K /\ u.node[u.node[y].previous].next = y
                 /\ rank[u.node[y].previous] < rank[y]
      <3>1. /\ u.node[y].previous = t.node[y].previous /\ t.node[y].previous \in L
            /\ t.node[t.node[y].previous].next = y /\ y # Null
            /\ rank[t.node[y].previous] < rank[y]
        BY <1>1, <1>3, <1>4, <1>8, <2>2 DEF Lists
      <3>2. t.node[y].previous # r
        BY <3>1
      <3>3. QED
        BY <1>1, <1>4, <3>1, <3>2
    <2>3. QED
      BY <1>3, <1>8, <2>1, <2>2 DEF Lists
  <1>10. OneSize(u, K \ {Null}, sz)
    BY <1>3, <1>4, <1>8 DEF OneSize
  <1>11. Ordered((H \ {r}) \ {Null}, key, sz)
    BY <1>3 DEF Ordered
  <1>12. Bare(u, H \ {r})
    <2>1. SUFFICES ASSUME NEW x \in Blocks \ (H \ {r})
                   PROVE  /\ u.node[x]["left"] = Null /\ u.node[x]["right"] = Null /\ u.node[x]["parent"] = Null
      BY DEF Bare
    <2>2. CASE x = r
      BY <1>4, <2>2 DEF Fields
    <2>3. CASE x # r
      <3>1. x \in Blocks \ H /\ x # Null
        BY <2>1, <2>3, NullAssumption
      <3>2. t.node[x]["left"] = Null /\ t.node[x]["right"] = Null /\ t.node[x]["parent"] = Null
        BY <1>3, <3>1 DEF Bare
      <3>3. "left" \in Sides /\ "right" \in Sides
        BY DEF Sides
      <3>4. Linked(t, H)
        BY <1>1, <1>3, LinkedTree
      <3>5. x # child /\ x # t.node[r].parent
        <4>1. child # Null => child \in H
          BY <3>3, <3>4 DEF Linked
        <4>2. t.node[r].parent # Null => t.node[r].parent \in H
          BY <3>4 DEF Linked
        <4>3. QED
          BY <3>1, <4>1, <4>2
      <3>6. QED
        BY <2>3, <3>2, <3>3, <3>5 DEF TakenOut
    <2>4. QED
      BY <2>2, <2>3
  <1>13. K = {x \in Blocks : u.balance[x] # "allocated"}
    <2>1. \A x \in Blocks : u.balance[x] # "allocated" <=> x \in K
      BY <1>1, <1>2, <1>4
    <2>2. K \subseteq Blocks
      BY <1>1
    <2>3. QED
      BY <2>1, <2>2
  <1> HIDE DEF H, K
  <1>14. Sound(u, sz, K, Null, key, lo2, hi2, rank)
    BY <1>4, <1>5, <1>7, <1>9, <1>10, <1>11, <1>12, <1>13 DEF Sound
  <1>15. QED
    BY <1>14 DEF K

-----------------------------------------------------------------------------
(***************************************************************************)
(* The invariant.                                                          *)
(***************************************************************************)
TypeInv ==
  /\ tree \in TreeType /\ size \in Sizes /\ free \subseteq Blocks
  /\ pc \in {"idle", "insertRebalance", "removeRebalance", "detach", "aborted"}
  /\ current \in Pointer /\ removed \in Pointer

\* The free blocks are in order.
Orderly == \E key, lo, hi, rank : Sound(tree, size, free, Null, key, lo, hi, rank)

\* After an insertion, the balance of the current block says where it has a child.
Growing == /\ Orderly /\ current \in Heads(tree, free)
           /\ tree.balance[current] \in Sides => tree.node[current][tree.balance[current]] # Null

\* A removal goes on: the block that leaves has one child at most, and all but that block
\* are in order.  The loop of the rebalancing climbs from it towards the root.
Leaving ==
  LET L == free \cup {removed} IN
  /\ removed \in Blocks \ free /\ removed \in Heads(tree, L)
  /\ tree.node[removed].left = Null \/ tree.node[removed].right = Null
  /\ \E key, lo, hi, rank :
       /\ Sound(tree, size, L, removed, key, lo, hi, rank)
       /\ pc = "removeRebalance" =>
            current \in Heads(tree, L) /\ lo[current] < key[removed] /\ key[removed] < hi[current]

\* The inductive invariant.
IInv ==
  /\ TypeInv
  /\ pc = "idle" /\ Usable => Orderly
  /\ pc = "insertRebalance" => Growing
  /\ pc \in {"removeRebalance", "detach"} => Leaving

\* The sizes are numbers.
LEMMA SizeType ==
  ASSUME TypeInv
  PROVE  size \in [Blocks -> Nat]
  BY SizesAssumption DEF TypeInv

\* It is all that is to be shown of a step that ends an insertion or takes a twin.
LEMMA IdleAgain ==
  ASSUME TypeInv, size' = size, free' \subseteq Blocks, pc' = "idle", current' \in Pointer, removed' \in Pointer, Orderly'
  PROVE  IInv'
  <1>1. tree' \in TreeType
    BY DEF Orderly, Sound
  <1>2. TypeInv'
    BY <1>1 DEF TypeInv
  <1>3. QED
    BY <1>2 DEF IInv

\* A link from a free block to one that is not free.
LEMMA Dangling ==
  ASSUME NEW w \in free', NEW f \in Fields, tree'.node[w][f] # Null, tree'.node[w][f] \notin free'
  PROVE  ~Usable'
  <1>1. f \in DOMAIN NewNode
    BY DEF Fields, NewNode
  <1>2. tree'.node[w][f] \in LinkedBlocks(w)'
    BY <1>1 DEF LinkedBlocks
  <1>3. QED
    BY <1>2 DEF Usable

\* At first there is no block.
LEMMA InitIInv == Init => IInv
  <1> SUFFICES ASSUME Init
               PROVE  IInv
    OBVIOUS
  <1>1. tree \in TreeType /\ tree.root = Null /\ \A x \in Blocks : tree.balance[x] = "allocated"
    BY NewNodeType DEF Init, TreeType, Balances, Pointer
  <1>2. \A x \in Blocks : tree.node[x] = NewNode
    BY DEF Init
  <1> DEFINE zero == [x \in Blocks |-> 0]
  <1>3. zero \in [Blocks -> Int]
    OBVIOUS
  <1> HIDE DEF zero
  <1>4. SearchTree(tree, "left", {}, zero, zero, zero)
    <2>1. Shape(tree.root, Kid(tree, "left"), Kid(tree, Other("left")), Par(tree), {})
      <3>1. /\ "left" \in Fields /\ Other("left") \in Fields /\ "parent" \in Fields
        BY DEF Other, Fields
      <3>2. \A x \in Blocks, f \in Fields : tree.node[x][f] \in Pointer
        BY <1>1, FieldTypes
      <3>3. /\ Kid(tree, "left") \in [Blocks -> Pointer] /\ Kid(tree, Other("left")) \in [Blocks -> Pointer]
            /\ Par(tree) \in [Blocks -> Pointer]
        BY <3>1, <3>2 DEF Kid, Par
      <3>4. QED
        BY <1>1, <3>3 DEF Shape
    <2>2. Spans(tree.root, Kid(tree, "left"), Kid(tree, Other("left")), {}, zero, zero, zero)
      BY DEF Spans
    <2>3. QED
      BY <1>3, <2>1, <2>2 DEF SearchTree
  <1>5. free = {} /\ Heads(tree, {}) = {}
    BY DEF Init, Heads
  <1>6. Sound(tree, size, {}, Null, zero, zero, zero, zero)
    <2>1. Bare(tree, {})
      BY <1>2, NewNodeType DEF Bare, Fields
    <2>2. {} = {b \in Blocks : tree.balance[b] # "allocated"}
      BY <1>1
    <2>3. SearchTree(tree, "left", Heads(tree, {}), zero, zero, zero) /\ Bare(tree, Heads(tree, {}))
      BY <1>4, <1>5, <2>1
    <2>4. Ordered(Heads(tree, {}) \ {Null}, zero, size) /\ Lists(tree, {}, zero) /\ OneSize(tree, {} \ {Null}, size)
      BY <1>5 DEF Ordered, Lists, OneSize
    <2>5. QED
      BY <1>1, <2>2, <2>3, <2>4 DEF Sound
  <1>7. Orderly
    BY <1>5, <1>6 DEF Orderly
  <1>8. TypeInv
    BY <1>1, <1>5 DEF Init, TypeInv, Pointer
  <1>9. QED
    BY <1>7, <1>8 DEF IInv, Init

-----------------------------------------------------------------------------
(***************************************************************************)
(* Every step preserves it: insertions.                                    *)
(***************************************************************************)
LEMMA InsertFirstStep ==
  ASSUME IInv, NEW b \in Blocks, InsertFirst(b)
  PROVE  IInv'
  <1>1. TypeInv /\ Orderly
    BY DEF IInv, InsertFirst, Ready
  <1>2. PICK key, lo, hi, rank : Sound(tree, size, free, Null, key, lo, hi, rank)
    BY <1>1 DEF Orderly
  <1>3. /\ tree' = [Placed(tree, b) EXCEPT !.root = b] /\ tree.root = Null
        /\ free' = free \cup {b} /\ size' = size
        /\ pc' = "idle" /\ current' = current /\ removed' = removed
    BY DEF InsertFirst, Emplaced, Placed, Ready
  <1>4. \E key2, lo2, hi2, rank2 : Sound(tree', size, free \cup {b}, Null, key2, lo2, hi2, rank2)
    BY <1>2, <1>3, FirstEnters
  <1>5. Orderly'
    BY <1>3, <1>4 DEF Orderly
  <1>6. QED
    BY <1>1, <1>3, <1>5, IdleAgain DEF TypeInv

\* insert() of a size that is there: the block enters the list of its header.
LEMMA InsertTwinStep ==
  ASSUME IInv, NEW b \in Blocks, InsertTwin(b)
  PROVE  IInv'
  <1> DEFINE p == LowerBound(size[b])[2]
             n == tree.node[p].next
  <1>1. TypeInv /\ Orderly
    BY DEF IInv, InsertTwin, Ready
  <1>2. PICK key, lo, hi, rank : Sound(tree, size, free, Null, key, lo, hi, rank)
    BY <1>1 DEF Orderly
  <1>3. tree' = Set(Set(Set(Set(Placed(tree, b), b, "next", n), n, "previous", b), p, "next", b), b, "previous", p)
    BY DEF InsertTwin, Emplaced, Placed
  <1>4. /\ tree.root # Null /\ size[p] = size[b] /\ b \notin free
        /\ free' = free \cup {b} /\ size' = size
        /\ pc' = "idle" /\ current' = current /\ removed' = removed
    BY DEF InsertTwin, Ready
  <1>5. size \in [Blocks -> Nat] /\ size[b] \in Nat
    BY <1>1, SizeType
  <1>6. p \in Heads(tree, free)
    BY <1>2, <1>4, <1>5, LowerBoundFinds DEF PlaceIs
  <1> HIDE DEF p
  <1>7. n = tree.node[p].next
    OBVIOUS
  <1> HIDE DEF n
  <1>8. \E rank2 : Sound(tree', size, free \cup {b}, Null, key, lo, hi, rank2)
    BY <1>2, <1>3, <1>4, <1>6, <1>7, TwinEnters
  <1>9. Orderly'
    BY <1>4, <1>8 DEF Orderly
  <1>10. QED
    BY <1>1, <1>4, <1>9, IdleAgain DEF TypeInv

\* insert() of another size: the block becomes a leaf where the descent ended.
LEMMA InsertLeafStep ==
  ASSUME IInv, NEW b \in Blocks, InsertLeaf(b)
  PROVE  IInv'
  <1> DEFINE p == LowerBound(size[b])[2]
             s == IF size[p] > size[b] THEN "left" ELSE "right"
             H == Heads(tree, free)
  <1>1. TypeInv /\ Orderly
    BY DEF IInv, InsertLeaf, Ready
  <1>2. PICK key, lo, hi, rank : Sound(tree, size, free, Null, key, lo, hi, rank)
    BY <1>1 DEF Orderly
  <1>3. tree' = Set(Set(Placed(tree, b), p, s, b), b, "parent", p)
    BY DEF InsertLeaf, Emplaced, Placed
  <1>4. /\ tree.root # Null /\ size[p] # size[b] /\ b \notin free
        /\ free' = free \cup {b} /\ size' = size
        /\ pc' = "insertRebalance" /\ current' = b /\ removed' = removed
    BY DEF InsertLeaf
  <1>5. size \in [Blocks -> Nat] /\ size[b] \in Nat
    BY <1>1, SizeType
  <1>6. PlaceIs(tree, H, key, size, size[b], p)
    BY <1>2, <1>4, <1>5, LowerBoundFinds
  <1> HIDE DEF p
  <1>7. p \in H /\ p \in Blocks
    BY <1>2, <1>6, SoundFacts DEF PlaceIs
  <1>8. s \in Sides /\ tree.node[p][s] = Null /\ Gap(H, key, size, p, s, size[b])
    <2>1. size[p] \in Nat
      BY <1>5, <1>7
    <2>2. CASE size[p] > size[b]
      <3>1. size[b] < size[p]
        BY <1>5, <2>1, <2>2
      <3>2. tree.node[p]["left"] = Null /\ Gap(H, key, size, p, "left", size[b])
        BY <1>6, <3>1 DEF PlaceIs
      <3>3. s = "left"
        BY <2>2
      <3>4. QED
        BY <3>2, <3>3 DEF Sides
    <2>3. CASE ~(size[p] > size[b])
      <3>1. size[p] < size[b]
        BY <1>4, <1>5, <2>1, <2>3
      <3>2. tree.node[p]["right"] = Null /\ Gap(H, key, size, p, "right", size[b])
        BY <1>6, <3>1 DEF PlaceIs
      <3>3. s = "right"
        BY <2>3
      <3>4. QED
        BY <3>2, <3>3 DEF Sides
    <2>4. QED
      BY <2>2, <2>3
  <1> HIDE DEF s
  <1>9. /\ b \in Heads(tree', free \cup {b}) /\ tree'.balance[b] = "equal"
        /\ \E key2, lo2, hi2, rank2 : Sound(tree', size, free \cup {b}, Null, key2, lo2, hi2, rank2)
    <2>1. b \in Blocks \ free
      BY <1>4
    <2>2. Gap(Heads(tree, free), key, size, p, s, size[b]) /\ p \in Heads(tree, free)
      BY <1>7, <1>8
    <2> HIDE DEF H
    <2>3. s \in Sides /\ tree.node[p][s] = Null
      BY <1>8
    <2> DEFINE u == tree'
    <2>4. u = Set(Set(Placed(tree, b), p, s, b), b, "parent", p)
      BY <1>3
    <2> HIDE DEF u
    <2>5. /\ b \in Heads(u, free \cup {b}) /\ u.balance[b] = "equal"
          /\ \E key2, lo2, hi2, rank2 : Sound(u, size, free \cup {b}, Null, key2, lo2, hi2, rank2)
      BY <1>2, <2>1, <2>2, <2>3, <2>4, LeafEnters
    <2>6. QED
      BY <2>5 DEF u
  <1>10. Orderly'
    BY <1>4, <1>9 DEF Orderly
  <1>11. Growing'
    BY <1>4, <1>9, <1>10 DEF Growing, Sides
  <1>12. TypeInv'
    <2>1. tree' \in TreeType
      BY <1>10 DEF Orderly, Sound
    <2>2. QED
      BY <1>1, <1>4, <2>1 DEF TypeInv, Pointer
  <1>13. QED
    BY <1>4, <1>11, <1>12 DEF IInv

\* A round of insertRebalance().
LEMMA InsertRebalanceStep ==
  ASSUME IInv, InsertRebalance
  PROVE  IInv'
  <1> DEFINE t == tree
             c == current
             H == Heads(tree, free)
             p == tree.node[current].parent
             s == Side(tree, p, current)
  <1>1. TypeInv /\ Orderly /\ Growing
    BY DEF IInv, InsertRebalance, Growing
  <1>2. PICK key, lo, hi, rank : Sound(tree, size, free, Null, key, lo, hi, rank)
    BY <1>1 DEF Orderly
  <1>3. size' = size /\ free' = free /\ removed' = removed /\ pc = "insertRebalance"
    BY DEF InsertRebalance
  <1>4. /\ tree \in TreeType /\ H \subseteq free /\ free \subseteq Blocks
        /\ \A x \in Blocks : tree.balance[x] # "allocated" <=> x \in free
        /\ SearchTree(tree, "left", H, key, lo, hi)
    BY <1>2, SoundFacts DEF Sound
  <1>5. Linked(tree, H) /\ c \in H
    BY <1>1, <1>4, LinkedTree DEF Growing
  <1>6. Null \in Pointer
    BY DEF Pointer
  <1>7. CASE current = tree.root
    <2>1. tree' = tree /\ pc' = "idle" /\ current' = Null
      BY <1>7 DEF InsertRebalance
    <2>2. Orderly'
      BY <1>1, <1>3, <2>1 DEF Orderly
    <2>3. QED
      BY <1>1, <1>3, <1>6, <2>1, <2>2, IdleAgain DEF TypeInv
  <1>8. CASE current # tree.root
    <2>1. p \in H /\ tree.node[p][s] = c /\ s \in Sides /\ c # Null
      BY <1>4, <1>5, <1>8, SideType, NullAssumption DEF Linked
    <2>2. p \in free /\ c \in free
      BY <1>4, <1>5, <2>1
    <2>3. \/ /\ tree.balance[p] = "equal"
             /\ tree' = SetBalance(tree, p, s) /\ current' = p /\ pc' = pc
          \/ /\ tree.balance[p] = Other(s)
             /\ tree' = SetBalance(tree, p, "equal") /\ pc' = "idle" /\ current' = Null
          \/ /\ tree.balance[p] = s
             /\ tree' = IF tree.balance[c] = Other(s) THEN DoubleRotate(tree, Other(s), p, c)
                                                       ELSE SingleRotate(tree, Other(s), p, c)
             /\ pc' = "idle" /\ current' = Null
      BY <1>8 DEF InsertRebalance
    <2> HIDE DEF p, s, c, H
    <2>4. CASE /\ tree.balance[p] = "equal"
               /\ tree' = SetBalance(tree, p, s) /\ current' = p /\ pc' = pc
      <3>1. s \in Balances /\ s # "allocated"
        BY <2>1, BalanceTypes
      <3>2. /\ Sound(tree', size, free, Null, key, lo, hi, rank)
            /\ tree'.node = tree.node /\ Heads(tree', free) = H
            /\ tree'.balance[p] = s
        <4>1. p \in Blocks
          BY <1>4, <2>2
        <4>2. QED
          BY <1>2, <2>2, <2>4, <3>1, <4>1, BalancedSound DEF H
      <3>3. Orderly'
        BY <1>3, <3>2 DEF Orderly
      <3>4. Growing'
        BY <1>3, <2>1, <2>4, <3>2, <3>3 DEF Growing
      <3>5. TypeInv'
        <4>1. tree' \in TreeType /\ p \in Pointer
          BY <1>4, <2>2, <3>2 DEF Sound, Pointer
        <4>2. QED
          BY <1>1, <1>3, <2>4, <4>1 DEF TypeInv
      <3>6. QED
        BY <1>3, <2>4, <3>4, <3>5 DEF IInv
    <2>5. CASE /\ tree.balance[p] = Other(s)
               /\ tree' = SetBalance(tree, p, "equal") /\ pc' = "idle" /\ current' = Null
      <3>1. Sound(tree', size, free, Null, key, lo, hi, rank)
        BY <1>2, <2>2, <2>5, BalanceTypes, BalancedSound
      <3>2. Orderly'
        BY <1>3, <3>1 DEF Orderly
      <3>3. QED
        BY <1>1, <1>3, <1>6, <2>5, <3>2, IdleAgain DEF TypeInv
    <2>6. CASE /\ tree.balance[p] = s
               /\ tree' = IF tree.balance[c] = Other(s) THEN DoubleRotate(tree, Other(s), p, c)
                                                        ELSE SingleRotate(tree, Other(s), p, c)
               /\ pc' = "idle" /\ current' = Null
      <3>1. Other(s) \in Sides /\ Other(Other(s)) = s
        BY <2>1, SideFields
      <3>2. c = tree.node[p][Other(Other(s))]
        BY <2>1, <3>1
      <3>3. tree.balance[p] # "allocated" /\ tree.balance[c] # "allocated"
        BY <1>4, <2>2
      <3> DEFINE d == tree.node[p][Other(s)]
      <3>4. d = tree.node[p][Other(s)]
        OBVIOUS
      <3> HIDE DEF d
      <3>5. \E moved : Rearranged(tree, tree', H, key, lo, hi, moved, p, d)
        <4>1. CASE tree.balance[c] = Other(s)
          <5> DEFINE top == tree.node[c][Other(s)]
          <5>1. top # Null
            BY <1>1, <3>1, <4>1 DEF Growing, c
          <5>2. top \in H
            BY <1>5, <3>1, <5>1 DEF Linked
          <5>3. tree.balance[top] # "allocated"
            BY <1>4, <5>2 DEF H
          <5>4. top = tree.node[c][Other(s)]
            OBVIOUS
          <5> HIDE DEF top
          <5>5. tree' = DoubleRotate(tree, Other(s), p, c)
            BY <2>6, <4>1
          <5>6. Rearranged(tree, DoubleRotate(tree, Other(s), p, c), H, key, lo, hi, {p, c, top}, p, d)
            BY <1>4, <2>1, <3>1, <3>2, <3>3, <3>4, <5>1, <5>3, <5>4, DoubleRotateTree
          <5>7. QED
            BY <5>5, <5>6
        <4>2. CASE tree.balance[c] # Other(s)
          <5>1. tree' = SingleRotate(tree, Other(s), p, c)
            BY <2>6, <4>2
          <5>2. Rearranged(tree, SingleRotate(tree, Other(s), p, c), H, key, lo, hi, {p, c}, p, d)
            BY <1>4, <2>1, <3>1, <3>2, <3>3, <3>4, SingleRotateTree
          <5>3. QED
            BY <5>1, <5>2
        <4>3. QED
          BY <4>1, <4>2
      <3>6. PICK moved : Rearranged(tree, tree', H, key, lo, hi, moved, p, d)
        BY <3>5
      <3>7. \E lo2, hi2 : Sound(tree', size, free, Null, key, lo2, hi2, rank)
        BY <1>2, <3>6, RearrangedSound DEF H
      <3>8. Orderly'
        BY <1>3, <3>7 DEF Orderly
      <3>9. QED
        BY <1>1, <1>3, <1>6, <2>6, <3>8, IdleAgain DEF TypeInv
    <2>7. QED
      BY <2>3, <2>4, <2>5, <2>6
  <1>9. QED
    BY <1>7, <1>8

-----------------------------------------------------------------------------
(***************************************************************************)
(* Removals.                                                               *)
(***************************************************************************)
LEMMA StartRemoveStep ==
  ASSUME TypeInv, pc = "idle", NEW key, NEW lo, NEW hi, NEW rank, Sound(tree, size, free, Null, key, lo, hi, rank),
         NEW b \in Heads(tree, free), tree.node[b].next = Null, StartRemove(b),
         free' = free \ {b}, size' = size
  PROVE  IInv'
  <1> DEFINE H == Heads(tree, free)
             p == Predecessor(b)
  <1>1. /\ tree \in TreeType /\ H \subseteq free /\ free \subseteq Blocks /\ Null \notin free /\ b \in free
        /\ b \in Blocks
    BY SoundFacts
  <1>2. SearchTree(tree, "left", H, key, lo, hi) /\ Bare(tree, H)
    BY DEF Sound
  <1>3. free' \cup {b} = free /\ b \in Blocks \ free'
    BY <1>1
  <1>4. pc' = "removeRebalance" /\ current' = b /\ removed' = b
    BY DEF StartRemove
  <1>5. /\ Heads(tree', free) = H /\ (tree'.node[b].left = Null \/ tree'.node[b].right = Null)
        /\ \E key2, lo2, hi2, rank2 : Sound(tree', size, free, b, key2, lo2, hi2, rank2)
    <2>1. CASE tree.node[b].left # Null /\ tree.node[b].right # Null
      <3>1. tree' = SwapNode(tree, b, p)
        BY <2>1 DEF StartRemove
      <3>2. p \in H /\ p # b /\ tree.node[p].right = Null /\ hi[p] = key[b]
        BY <1>1, <1>2, <2>1, PredecessorFacts
      <3> HIDE DEF p
      <3>3. size \in [Blocks -> Nat]
        BY SizeType
      <3> DEFINE u == tree'
      <3>4. u = SwapNode(tree, b, p)
        BY <3>1
      <3> HIDE DEF u
      <3>5. /\ Heads(u, free) = Heads(tree, free) /\ u.node[b].right = Null
            /\ \E key2, lo2, hi2, rank2 : Sound(u, size, free, b, key2, lo2, hi2, rank2)
        BY <3>2, <3>4, SwapSound
      <3>6. QED
        BY <3>5 DEF u
    <2>2. CASE ~(tree.node[b].left # Null /\ tree.node[b].right # Null)
      <3>1. tree' = tree
        BY <2>2 DEF StartRemove
      <3>2. Sound(tree, size, free, b, key, lo, hi, rank)
        <4>1. OneSize(tree, free \ {b}, size) /\ Ordered(Heads(tree, free) \ {b}, key, size)
          <5>1. free \ {Null} = free /\ Heads(tree, free) \ {Null} = Heads(tree, free)
            BY <1>1
          <5>2. QED
            BY <5>1 DEF Sound, OneSize, Ordered
        <4>2. QED
          BY <4>1 DEF Sound
      <3>3. QED
        BY <2>2, <3>1, <3>2
    <2>3. QED
      BY <2>1, <2>2
  <1>6. PICK key2, lo2, hi2, rank2 : Sound(tree', size, free, b, key2, lo2, hi2, rank2)
    BY <1>5
  <1>7. lo2[b] < key2[b] /\ key2[b] < hi2[b] /\ tree' \in TreeType
    <2>1. SearchTree(tree', "left", Heads(tree', free), key2, lo2, hi2) /\ tree' \in TreeType
      BY <1>6 DEF Sound
    <2>2. b \in Heads(tree', free)
      BY <1>5
    <2>3. QED
      BY <2>1, <2>2, KeyFacts
  <1>8. Leaving'
    <2> DEFINE L == free' \cup {b}
    <2>1. L = free
      BY <1>3
    <2>2. /\ Sound(tree', size', L, b, key2, lo2, hi2, rank2)
          /\ b \in Heads(tree', L)
      BY <1>5, <1>6, <2>1
    <2> HIDE DEF H
    <2>3. QED
      BY <1>3, <1>4, <1>5, <1>7, <2>2 DEF Leaving
  <1>9. TypeInv'
    <2>1. b \in Pointer /\ free' \subseteq Blocks
      BY <1>1 DEF Pointer
    <2>2. QED
      BY <1>4, <1>7, <2>1 DEF TypeInv
  <1>10. QED
    BY <1>4, <1>8, <1>9 DEF IInv

\* alloc(): a twin of the best fit leaves its list, or the best fit starts to leave the tree.
LEMMA TakeStep ==
  ASSUME IInv, NEW request \in Requests, Take(request)
  PROVE  IInv'
  <1> DEFINE result == LowerBound(request)[1]
             twin   == tree.node[result].next
             rest   == tree.node[twin].next
  <1>1. TypeInv /\ Orderly /\ pc = "idle" /\ result # Null /\ size' = size
    BY DEF IInv, Take, Ready
  <1>2. PICK key, lo, hi, rank : Sound(tree, size, free, Null, key, lo, hi, rank)
    BY <1>1 DEF Orderly
  <1>3. size \in [Blocks -> Nat] /\ request \in Nat
    BY <1>1, SizeType, SizesAssumption
  <1>4. result \in Heads(tree, free)
    BY <1>1, <1>2, <1>3, LowerBoundFinds DEF BestIs
  <1>5. IF twin # Null
        THEN /\ tree' = Leave(Set(Set(tree, result, "next", rest), rest, "previous", result), twin)
             /\ free' = free \ {twin} /\ pc' = pc /\ current' = current /\ removed' = removed
        ELSE StartRemove(result) /\ free' = free \ {result}
    BY DEF Take
  <1> HIDE DEF result
  <1>6. CASE twin # Null
    <2>1. result \in free /\ result # Null
      BY <1>2, <1>4, SoundFacts
    <2>2. twin \in free /\ tree.node[twin].previous = result
      BY <1>2, <1>6, <2>1 DEF Sound, Lists
    <2>3. rest = tree.node[twin].next
      OBVIOUS
    <2> HIDE DEF twin, rest
    <2>4. Sound(tree', size, free \ {twin}, Null, key, lo, hi, rank)
      BY <1>2, <1>5, <1>6, <2>1, <2>2, <2>3, TwinLeaves
    <2>5. Orderly'
      BY <1>1, <1>5, <1>6, <2>4 DEF Orderly
    <2>6. QED
      BY <1>1, <1>5, <1>6, <2>5, IdleAgain DEF TypeInv
  <1>7. CASE twin = Null
    BY <1>1, <1>2, <1>4, <1>5, <1>7, StartRemoveStep
  <1>8. QED
    BY <1>6, <1>7

\* remove() of a block that free() merges with another.
LEMMA UnlinkStep ==
  ASSUME IInv, NEW b \in Blocks, Unlink(b)
  PROVE  IInv'
  <1> DEFINE p == tree.node[b].previous
             n == tree.node[b].next
  <1>1. TypeInv /\ Orderly /\ pc = "idle" /\ b \in free /\ free' = free \ {b} /\ size' = size
    BY DEF IInv, Unlink, Ready
  <1>2. PICK key, lo, hi, rank : Sound(tree, size, free, Null, key, lo, hi, rank)
    BY <1>1 DEF Orderly
  <1>3. IF p # Null
        THEN /\ tree' = Leave(Set(Set(tree, p, "next", n), n, "previous", p), b)
             /\ pc' = pc /\ current' = current /\ removed' = removed
        ELSE IF n # Null
        THEN tree' = SwapNode(tree, n, b) /\ pc' = pc /\ current' = current /\ removed' = removed
        ELSE StartRemove(b)
    BY DEF Unlink
  <1>4. CASE p # Null
    <2> DEFINE u == tree'
    <2>1. p = tree.node[b].previous /\ n = tree.node[b].next
      OBVIOUS
    <2> HIDE DEF p, n
    <2>2. u = Leave(Set(Set(tree, p, "next", n), n, "previous", p), b)
      BY <1>3, <1>4
    <2> HIDE DEF u
    <2>3. Sound(u, size, free \ {b}, Null, key, lo, hi, rank)
      BY <1>1, <1>2, <1>4, <2>1, <2>2, TwinLeaves
    <2>4. Orderly'
      BY <1>1, <2>3 DEF Orderly, u
    <2>5. QED
      BY <1>1, <1>3, <1>4, <2>4, IdleAgain DEF TypeInv
  <1>5. CASE p = Null /\ n # Null
    <2>1. n \in free /\ tree.node[n].previous = b /\ tree \in TreeType /\ free \subseteq Blocks /\ b # Null
      <3>1. tree \in TreeType /\ free \subseteq Blocks /\ b # Null
        BY <1>1, <1>2, SoundFacts
      <3>2. Lists(tree, free, rank)
        BY <1>2 DEF Sound
      <3>3. QED
        BY <1>1, <1>5, <3>1, <3>2 DEF Lists
    <2>2. n # b
      BY <1>5, <2>1
    <2>3. tree' \in TreeType /\ tree'.node[n].next = b
      BY <1>3, <1>5, <2>1, <2>2, SwapWithTwin
    <2> HIDE DEF p, n
    <2>4. ~Usable'
      <3>1. "next" \in Fields /\ n \in free' /\ tree'.node[n]["next"] # Null /\ tree'.node[n]["next"] \notin free'
        BY <1>1, <2>1, <2>2, <2>3 DEF Fields
      <3>2. QED
        BY <3>1, Dangling
    <2>5. TypeInv'
      BY <1>1, <1>3, <1>5, <2>3 DEF TypeInv
    <2>6. QED
      BY <1>1, <1>3, <1>5, <2>4, <2>5 DEF IInv
  <1>6. CASE p = Null /\ n = Null
    <2>1. b \in Heads(tree, free)
      BY <1>1, <1>6 DEF Heads
    <2>2. QED
      BY <1>1, <1>2, <1>3, <1>6, <2>1, StartRemoveStep
  <1>7. QED
    BY <1>4, <1>5, <1>6

\* Where the loop of the rebalancing is: the block that leaves is below the current node,
\* which is a child of p on the side s.
Climbing(key, lo, hi, rank, L, p, s) ==
  /\ L = free \cup {removed} /\ L \subseteq Blocks
  /\ removed \in Blocks \ free /\ removed \in Heads(tree, L)
  /\ tree.node[removed].left = Null \/ tree.node[removed].right = Null
  /\ Sound(tree, size, L, removed, key, lo, hi, rank)
  /\ tree \in TreeType /\ SearchTree(tree, "left", Heads(tree, L), key, lo, hi)
  /\ current \in Heads(tree, L) /\ current # Null
  /\ lo[current] < key[removed] /\ key[removed] < hi[current]
  /\ p \in Heads(tree, L) /\ p \in L /\ p \in Blocks /\ s \in Sides /\ tree.node[p][s] = current
  /\ lo[p] <= lo[current] /\ hi[current] <= hi[p]
  /\ \A x \in Blocks : tree.balance[x] # "allocated" <=> x \in L

\* The parent of the current block, in a round of removeRebalance().
LEMMA ClimbingFacts ==
  ASSUME IInv, Rebalancing, NEW p, p = tree.node[current].parent, NEW s, s = Side(tree, p, current)
  PROVE  \E key, lo, hi, rank, L : Climbing(key, lo, hi, rank, L, p, s)
  <1> DEFINE L == free \cup {removed}
             H == Heads(tree, L)
  <1>1. /\ pc = "removeRebalance" /\ current # tree.root /\ Leaving
    BY DEF Rebalancing, IInv
  <1>2. /\ removed \in Blocks \ free /\ removed \in H
        /\ tree.node[removed].left = Null \/ tree.node[removed].right = Null
    BY <1>1 DEF Leaving
  <1>3. PICK key, lo, hi, rank : /\ Sound(tree, size, L, removed, key, lo, hi, rank)
                                 /\ current \in H /\ lo[current] < key[removed] /\ key[removed] < hi[current]
    BY <1>1 DEF Leaving
  <1>4. L = free \cup {removed}
    OBVIOUS
  <1> HIDE DEF L
  <1>5. /\ tree \in TreeType /\ H \subseteq L /\ L \subseteq Blocks /\ Null \notin L
        /\ \A x \in Blocks : tree.balance[x] # "allocated" <=> x \in L
        /\ SearchTree(tree, "left", H, key, lo, hi)
    BY <1>3, SoundFacts DEF Sound
  <1>6. current # Null /\ p # Null /\ p \in H /\ s \in Sides /\ tree.node[p][s] = current
    <2>1. Linked(tree, H)
      BY <1>5, LinkedTree
    <2>2. QED
      BY <1>1, <1>3, <1>5, <2>1, SideType DEF Linked
  <1>7. lo[p] <= lo[current] /\ hi[current] <= hi[p]
    <2>1. /\ "left" \in Sides /\ "right" \in Sides /\ Other("left") = "right" /\ (s = "left" \/ s = "right")
      BY <1>6, ZenonT(60) DEF Sides, Other
    <2>2. /\ tree.node[p]["left"] # Null => lo[tree.node[p]["left"]] = lo[p] /\ hi[tree.node[p]["left"]] = key[p]
          /\ tree.node[p]["right"] # Null => lo[tree.node[p]["right"]] = key[p] /\ hi[tree.node[p]["right"]] = hi[p]
      <3>1. NodeIn(tree, "left", H, key, lo, hi, p)
        BY <1>5, <1>6, <2>1, NodeIs
      <3>2. QED
        BY <2>1, <3>1, ZenonT(60) DEF NodeIn
    <2>3. key[p] \in Int /\ lo[p] \in Int /\ hi[p] \in Int /\ lo[p] < key[p] /\ key[p] < hi[p]
      BY <1>5, <1>6, KeyFacts
    <2>4. \/ lo[current] = lo[p] /\ hi[current] = key[p]
          \/ lo[current] = key[p] /\ hi[current] = hi[p]
      BY <1>6, <2>1, <2>2, ZenonT(60)
    <2>5. QED
      BY <2>3, <2>4
  <1>8. p \in L /\ p \in Blocks
    BY <1>5, <1>6
  <1>9. Climbing(key, lo, hi, rank, L, p, s)
    BY <1>2, <1>3, <1>4, <1>5, <1>6, <1>7, <1>8 DEF Climbing
  <1>10. QED
    BY <1>9

\* The parent gets heavier on the other side, and the loop ends.
LEMMA StopsAtParentStep ==
  ASSUME IInv, StopsAtParent
  PROVE  IInv'
  <1> DEFINE p == tree.node[current].parent
             s == Side(tree, p, current)
  <1>1. /\ Rebalancing /\ tree' = SetBalance(tree, p, Other(s)) /\ pc' = "detach"
        /\ size' = size /\ free' = free /\ current' = current /\ removed' = removed
    BY DEF StopsAtParent
  <1>2. PICK key, lo, hi, rank, L : Climbing(key, lo, hi, rank, L, p, s)
    BY <1>1, ClimbingFacts
  <1> HIDE DEF p, s
  <1>3. /\ Sound(tree', size, L, removed, key, lo, hi, rank)
        /\ tree'.node = tree.node /\ Heads(tree', L) = Heads(tree, L)
    <2>1. Other(s) \in Balances /\ Other(s) # "allocated"
      BY <1>2, BalanceTypes DEF Climbing
    <2>2. QED
      BY <1>1, <1>2, <2>1, BalancedSound DEF Climbing
  <1>4. Leaving'
    BY <1>1, <1>2, <1>3 DEF Leaving, Climbing
  <1>5. TypeInv'
    BY <1>1, <1>3 DEF IInv, TypeInv, Sound
  <1>6. QED
    BY <1>1, <1>4, <1>5 DEF IInv

\* The parent becomes balanced, and the loop goes on from it.
LEMMA ShrinksStep ==
  ASSUME IInv, Shrinks
  PROVE  IInv'
  <1> DEFINE p == tree.node[current].parent
             s == Side(tree, p, current)
  <1>1. /\ Rebalancing /\ tree' = SetBalance(tree, p, "equal") /\ pc' = pc /\ pc = "removeRebalance"
        /\ size' = size /\ free' = free /\ current' = p /\ removed' = removed
    BY DEF Shrinks, Rebalancing
  <1>2. PICK key, lo, hi, rank, L : Climbing(key, lo, hi, rank, L, p, s)
    BY <1>1, ClimbingFacts
  <1> HIDE DEF p, s
  <1>3. /\ Sound(tree', size, L, removed, key, lo, hi, rank)
        /\ tree'.node = tree.node /\ Heads(tree', L) = Heads(tree, L)
    <2>1. Sound(tree, size, L, removed, key, lo, hi, rank) /\ p \in L
      BY <1>2 DEF Climbing
    <2>2. "equal" \in Balances /\ "equal" # "allocated"
      BY BalanceTypes
    <2>3. QED
      BY <1>1, <2>1, <2>2, BalancedSound
  <1>4. lo[p] < key[removed] /\ key[removed] < hi[p]
    <2>1. /\ lo[p] <= lo[current] /\ hi[current] <= hi[p]
          /\ lo[current] < key[removed] /\ key[removed] < hi[current]
      BY <1>2 DEF Climbing
    <2>2. /\ key[removed] \in Int /\ lo[p] \in Int /\ hi[p] \in Int /\ lo[current] \in Int /\ hi[current] \in Int
      BY <1>2, KeyFacts DEF Climbing
    <2>3. QED
      BY <2>1, <2>2
  <1>5. Leaving'
    BY <1>1, <1>2, <1>3, <1>4 DEF Leaving, Climbing
  <1>6. TypeInv'
    <2>1. p \in Pointer /\ tree' \in TreeType
      BY <1>2, <1>3 DEF Climbing, Pointer, Sound
    <2>2. QED
      BY <1>1, <2>1 DEF IInv, TypeInv
  <1>7. QED
    BY <1>1, <1>5, <1>6 DEF IInv

\* The parent is rotated, and the loop ends or goes on.
LEMMA RotatesOnRemoveStep ==
  ASSUME IInv, RotatesOnRemove
  PROVE  IInv'
  <1> DEFINE p == tree.node[current].parent
             s == Side(tree, p, current)
             sibling == tree.node[p][Other(s)]
             top == tree.node[sibling][s]
  <1>1. /\ Rebalancing /\ pc = "removeRebalance" /\ Rotatable(sibling, s)
        /\ tree' = IF tree.balance[sibling] = s THEN DoubleRotate(tree, s, p, sibling)
                                                ELSE SingleRotate(tree, s, p, sibling)
        /\ IF tree.balance[sibling] = "equal" THEN pc' = "detach" /\ current' = current ELSE current' = p /\ pc' = pc
        /\ size' = size /\ free' = free /\ removed' = removed
    BY ZenonT(60) DEF RotatesOnRemove, Rebalancing
  <1>2. PICK key, lo, hi, rank, L : Climbing(key, lo, hi, rank, L, p, s)
    BY <1>1, ClimbingFacts, ZenonT(60)
  <1>3. sibling # Null /\ (tree.balance[sibling] = s => top # Null)
    BY <1>1, ZenonT(60) DEF Rotatable
  <1>4. sibling = tree.node[p][Other(s)] /\ top = tree.node[sibling][s]
    OBVIOUS
  <1> HIDE DEF p, s, sibling, top
  <1> DEFINE H == Heads(tree, L)
  <1>5. /\ "left" \in Sides /\ "right" \in Sides /\ Other("left") = "right" /\ Other("right") = "left"
        /\ (s = "left" \/ s = "right") /\ Other(s) \in Sides
    BY <1>2 DEF Climbing, Sides, Other
  <1>6. Linked(tree, H)
    BY <1>2, LinkedTree DEF Climbing
  <1>7. sibling \in H /\ (top # Null => top \in H) /\ H \subseteq L /\ L \subseteq Blocks /\ s \in Sides
    BY <1>2, <1>3, <1>4, <1>5, <1>6, ZenonT(60) DEF Linked, Climbing, Heads
  <1>8. ASSUME NEW x \in H
        PROVE  /\ key[x] \in Int /\ lo[x] \in Int /\ hi[x] \in Int /\ lo[x] < key[x] /\ key[x] < hi[x]
               /\ tree.node[x]["left"] # Null => lo[tree.node[x]["left"]] = lo[x] /\ hi[tree.node[x]["left"]] = key[x]
               /\ tree.node[x]["right"] # Null => lo[tree.node[x]["right"]] = key[x] /\ hi[tree.node[x]["right"]] = hi[x]
    <2>1. tree \in TreeType /\ SearchTree(tree, "left", H, key, lo, hi)
      BY <1>2 DEF Climbing
    <2>2. QED
      BY <1>5, <2>1, NodeFacts
  <1>9. removed \notin {p, sibling, top}
    <2>1. /\ p \in H /\ current \in H /\ removed \in H /\ tree.node[p][s] = current /\ current # Null
          /\ lo[current] < key[removed] /\ key[removed] < hi[current]
      BY <1>2 DEF Climbing
    <2>2. \/ /\ hi[current] = key[p] /\ lo[sibling] = key[p]
          \/ /\ lo[current] = key[p] /\ hi[sibling] = key[p]
      <3>1. CASE s = "left"
        BY <1>3, <1>4, <1>5, <1>8, <2>1, <3>1
      <3>2. CASE s = "right"
        BY <1>3, <1>4, <1>5, <1>8, <2>1, <3>2
      <3>3. QED
        BY <1>5, <3>1, <3>2
    <2>3. /\ key[removed] \in Int /\ key[p] \in Int /\ lo[sibling] \in Int /\ hi[sibling] \in Int
          /\ key[sibling] \in Int /\ lo[sibling] < key[sibling] /\ key[sibling] < hi[sibling]
          /\ lo[current] \in Int /\ hi[current] \in Int
      BY <1>7, <1>8, <2>1
    <2>4. removed # p
      BY <2>1, <2>2, <2>3
    <2>5. removed # sibling
      BY <2>1, <2>2, <2>3
    <2>6. top # Null => removed # top
      <3>1. SUFFICES ASSUME top # Null
                     PROVE  removed # top
        BY SMTT(60), Z3T(60)
      <3>2. \/ lo[top] = lo[sibling] /\ hi[top] = key[sibling]
            \/ lo[top] = key[sibling] /\ hi[top] = hi[sibling]
        BY <1>4, <1>5, <1>7, <1>8, <3>1, ZenonT(60)
      <3>3. key[top] \in Int /\ lo[top] \in Int /\ hi[top] \in Int /\ lo[top] < key[top] /\ key[top] < hi[top]
        BY <1>7, <1>8, <3>1
      <3>4. lo[sibling] < key[top] /\ key[top] < hi[sibling]
        BY <2>3, <3>2, <3>3
      <3>5. QED
        BY <2>1, <2>2, <2>3, <3>3, <3>4
    <2>7. removed # Null
      BY <2>1, <1>7, NullAssumption
    <2>8. QED
      BY <2>4, <2>5, <2>6, <2>7
  <1>10. /\ tree.balance[p] # "allocated" /\ tree.balance[sibling] # "allocated"
         /\ top # Null => tree.balance[top] # "allocated"
    BY <1>2, <1>7 DEF Climbing
  <1> DEFINE u == tree'
  <1>11. u = IF tree.balance[sibling] = s THEN DoubleRotate(tree, s, p, sibling)
             ELSE SingleRotate(tree, s, p, sibling)
    BY <1>1
  <1> HIDE DEF u, H
  <1>12. PICK moved : Rearranged(tree, u, H, key, lo, hi, moved, p, current) /\ removed \notin moved
    <2>1. tree \in TreeType /\ SearchTree(tree, "left", H, key, lo, hi) /\ p \in H /\ current = tree.node[p][s]
      BY <1>2 DEF Climbing, H
    <2>2. CASE tree.balance[sibling] = s
      <3>1. Rearranged(tree, DoubleRotate(tree, s, p, sibling), H, key, lo, hi, {p, sibling, top}, p, current)
        BY <1>3, <1>4, <1>7, <1>10, <2>1, <2>2, DoubleRotateTree, ZenonT(60)
      <3>2. QED
        BY <1>9, <1>11, <2>2, <3>1
    <2>3. CASE tree.balance[sibling] # s
      <3>1. Rearranged(tree, SingleRotate(tree, s, p, sibling), H, key, lo, hi, {p, sibling}, p, current)
        BY <1>3, <1>4, <1>7, <1>10, <2>1, SingleRotateTree, ZenonT(60)
      <3>2. QED
        BY <1>9, <1>11, <2>3, <3>1
    <2>4. QED
      BY <2>2, <2>3
  <1>13. /\ Heads(u, L) = H
         /\ \E lo2, hi2 : /\ Sound(u, size, L, removed, key, lo2, hi2, rank)
                          /\ current # Null => lo2[p] <= lo[current] /\ hi[current] <= hi2[p]
    <2>1. Sound(tree, size, L, removed, key, lo, hi, rank)
      BY <1>2 DEF Climbing
    <2>2. QED
      BY <1>12, <2>1, RearrangedSound DEF H
  <1>14. PICK lo2, hi2 : /\ Sound(u, size, L, removed, key, lo2, hi2, rank)
                         /\ lo2[p] <= lo[current] /\ hi[current] <= hi2[p]
    BY <1>2, <1>13 DEF Climbing
  <1>15. u.node[removed].left = Null \/ u.node[removed].right = Null
    <2>1. removed \in H /\ (tree.node[removed]["left"] = Null \/ tree.node[removed]["right"] = Null)
      BY <1>2 DEF Climbing, H
    <2>2. \A f \in Sides : u.node[removed][f] = Null <=> tree.node[removed][f] = Null
      BY <1>12, <2>1 DEF Rearranged
    <2>3. QED
      BY <1>5, <2>1, <2>2
  <1>16. lo2[p] < key[removed] /\ key[removed] < hi2[p]
    <2>1. lo[current] < key[removed] /\ key[removed] < hi[current] /\ current \in H /\ p \in H /\ removed \in H
      BY <1>2 DEF Climbing, H
    <2>2. SearchTree(u, "left", Heads(u, L), key, lo2, hi2)
      BY <1>14 DEF Sound
    <2>3. lo2[p] \in Int /\ hi2[p] \in Int
      BY <1>13, <2>1, <2>2, KeyFacts
    <2>4. key[removed] \in Int /\ lo[current] \in Int /\ hi[current] \in Int
      BY <1>8, <2>1 DEF H
    <2>5. QED
      BY <1>14, <2>1, <2>3, <2>4
  <1>17. Leaving'
    <2>1. /\ L = free \cup {removed} /\ removed \in Blocks \ free /\ removed \in H /\ p \in H
      BY <1>2 DEF Climbing, H
    <2>2. pc' = "removeRebalance" => current' = p
      BY <1>1
    <2>3. QED
      BY <1>1, <1>13, <1>14, <1>15, <1>16, <2>1, <2>2 DEF Leaving, u
  <1>18. TypeInv'
    <2>1. p \in Pointer /\ tree' \in TreeType
      BY <1>2, <1>14 DEF Climbing, Pointer, Sound, u
    <2>2. pc' \in {"removeRebalance", "detach"} /\ current' \in {current, p}
      BY <1>1
    <2>3. QED
      BY <1>1, <2>1, <2>2 DEF IInv, TypeInv
  <1>19. QED
    <2>1. pc' \in {"removeRebalance", "detach"}
      BY <1>1, ZenonT(60)
    <2>2. QED
      BY <1>17, <1>18, <2>1 DEF IInv

\* The block leaves the tree: the rest is in order again.
LEMMA DetachStep ==
  ASSUME IInv, Detach
  PROVE  IInv'
  <1> DEFINE r == removed
             L == free \cup {r}
             n == tree.node[r]
             child == IF n.left # Null THEN n.left ELSE n.right
  <1>1. /\ pc = "detach" /\ Leaving /\ TypeInv
        /\ tree' = Leave(Relink(Set(tree, child, "parent", n.parent), n.parent, r, child), r)
        /\ pc' = "idle" /\ current' = Null /\ removed' = Null
        /\ size' = size /\ free' = free
    BY DEF Detach, IInv
  <1>2. r \in Blocks \ free /\ r \in Heads(tree, L) /\ (n.left = Null \/ n.right = Null)
    BY <1>1 DEF Leaving
  <1>3. PICK key, lo, hi, rank : Sound(tree, size, L, r, key, lo, hi, rank)
    BY <1>1 DEF Leaving
  <1>4. /\ tree \in TreeType /\ \A x \in Blocks, f \in Fields : tree.node[x][f] \in Pointer
        /\ Null \notin L
    BY <1>3, SoundFacts
  <1>5. child \in Pointer /\ Null \in Pointer
    <2>1. n["left"] \in Pointer /\ n["right"] \in Pointer
      BY <1>2, <1>4 DEF Fields
    <2>2. QED
      BY <2>1 DEF Pointer
  <1>6. child = IF n.left # Null THEN n.left ELSE n.right
    OBVIOUS
  <1> HIDE DEF child
  <1> DEFINE u == tree'
             q == n.parent
  <1>7. u = Leave(Relink(Set(tree, child, "parent", q), q, r, child), r) /\ q = tree.node[r].parent
    BY <1>1
  <1> HIDE DEF u, q
  <1>8. TakenOut(tree, u, r, child)
    BY <1>2, <1>4, <1>5, <1>7, DetachFields
  <1>9. tree' \in TreeType
    BY <1>8 DEF TakenOut, u
  <1>10. TypeInv'
    BY <1>1, <1>5, <1>9 DEF TypeInv
  <1>11. CASE n.next = Null
    <2>1. \E lo2, hi2 : Sound(u, size, L \ {r}, Null, key, lo2, hi2, rank)
      BY <1>2, <1>3, <1>6, <1>8, <1>11, DetachSound
    <2>2. L \ {r} = free
      BY <1>2
    <2>3. Orderly'
      BY <1>1, <2>1, <2>2 DEF Orderly, u
    <2>4. QED
      BY <1>1, <1>10, <2>3 DEF IInv
  <1>12. CASE n.next # Null
    <2> DEFINE w == n.next
    <2>1. Lists(tree, L, rank) /\ r \in L
      BY <1>3 DEF Sound
    <2>2. w \in L /\ tree.node[w].previous = r /\ tree.node[r].previous = Null
      BY <1>2, <1>12, <2>1 DEF Lists, Heads
    <2> HIDE DEF w
    <2>3. w \in free /\ w \in Blocks \ {r} /\ r # Null
      <3>1. w # r /\ r # Null
        BY <1>4, <2>1, <2>2
      <3>2. QED
        BY <1>1, <2>2, <3>1 DEF TypeInv
    <2>4. u.node[w]["previous"] = r
      BY <1>8, <2>2, <2>3 DEF TakenOut
    <2>5. ~Usable'
      <3>1. /\ "previous" \in Fields /\ w \in free' /\ tree'.node[w]["previous"] # Null
            /\ tree'.node[w]["previous"] \notin free'
        BY <1>1, <1>2, <2>3, <2>4, ZenonT(60) DEF u, Fields
      <3>2. QED
        BY <3>1, Dangling, ZenonT(60)
    <2>6. QED
      BY <1>1, <1>10, <2>5 DEF IInv
  <1>13. QED
    BY <1>11, <1>12

\* A step of something else.
LEMMA StutterStep ==
  ASSUME IInv, UNCHANGED vars
  PROVE  IInv'
  BY DEF vars, IInv, TypeInv, Orderly, Growing, Leaving, Usable, LinkedBlocks

\* A rotation of a null pointer, and the loop that reaches the root.
LEMMA StopStep ==
  ASSUME IInv, RotatesNull \/ ReachesRoot
  PROVE  IInv'
  <1>1. /\ UNCHANGED <<tree, size, free, current, removed>>
        /\ pc' = "aborted" \/ (pc = "removeRebalance" /\ pc' = "detach")
    BY DEF RotatesNull, ReachesRoot
  <1>2. TypeInv'
    BY <1>1 DEF IInv, TypeInv
  <1>3. CASE pc' = "aborted"
    BY <1>2, <1>3 DEF IInv
  <1>4. CASE pc = "removeRebalance" /\ pc' = "detach"
    <2>1. Leaving
      BY <1>4 DEF IInv
    <2>2. Leaving'
      BY <1>1, <1>4, <2>1 DEF Leaving
    <2>3. QED
      BY <1>2, <1>4, <2>2 DEF IInv
  <1>5. QED
    BY <1>1, <1>3, <1>4
-----------------------------------------------------------------------------
(***************************************************************************)
(* The theorems.                                                           *)
(***************************************************************************)
LEMMA NextStep ==
  ASSUME IInv, [Next]_vars
  PROVE  IInv'
  <1>1. ASSUME NEW b \in Blocks, InsertFirst(b) \/ InsertTwin(b) \/ InsertLeaf(b) \/ Unlink(b)
        PROVE  IInv'
    BY <1>1, InsertFirstStep, InsertTwinStep, InsertLeafStep, UnlinkStep
  <1>2. ASSUME NEW request \in Requests, Take(request)
        PROVE  IInv'
    BY <1>2, TakeStep
  <1>3. CASE Rebalance
    BY <1>3, InsertRebalanceStep, StopsAtParentStep, ShrinksStep, RotatesOnRemoveStep, StopStep, DetachStep
       DEF Rebalance
  <1>4. CASE Ended \/ UNCHANGED vars
    BY <1>4, StutterStep DEF Ended
  <1>5. QED
    BY <1>1, <1>2, <1>3, <1>4 DEF Next

\* The invariant holds in every reachable state.
LEMMA Invariance == Spec => []IInv
  <1>1. Init => IInv
    BY InitIInv
  <1>2. IInv /\ [Next]_vars => IInv'
    BY NextStep
  <1>3. QED
    BY <1>1, <1>2, PTL DEF Spec

\* Type correctness: the balance bits of a block say whether it is free whenever an
\* operation may start, which free() relies on for the neighbours of a block.
THEOREM TypeCorrect == Spec => []TypeOK
  <1>1. IInv => TypeOK
    <2> SUFFICES ASSUME IInv
                 PROVE  TypeOK
      OBVIOUS
    <2>1. TypeInv
      BY DEF IInv
    <2>2. Ready => free = {b \in Blocks : tree.balance[b] # "allocated"}
      BY DEF IInv, Ready, Orderly, Sound
    <2>3. QED
      BY <2>1, <2>2 DEF TypeInv, TypeOK, TreeType, Balances
  <1>2. QED
    BY <1>1, Invariance, PTL

\* Whenever an operation may start, every link of a free block has its counterpart.
THEOREM EveryLinkAnswered == Spec => []LinksAgree
  <1>1. IInv => LinksAgree
    <2> SUFFICES ASSUME IInv, Ready
                 PROVE  /\ tree.root # Null => tree.node[tree.root].parent = Null
                        /\ \A b \in free :
                             LET n == tree.node[b] IN
                             /\ \A side \in Sides : n[side] # Null => tree.node[n[side]].parent = b
                             /\ n.parent # Null => b \in {tree.node[n.parent][side] : side \in Sides}
                             /\ n.next # Null => tree.node[n.next].previous = b /\ size[n.next] = size[b]
                             /\ n.previous # Null => tree.node[n.previous].next = b
      BY DEF LinksAgree
    <2>1. PICK key, lo, hi, rank : Sound(tree, size, free, Null, key, lo, hi, rank)
      BY DEF IInv, Ready, Orderly
    <2> DEFINE H == Heads(tree, free)
    <2>2. /\ tree \in TreeType /\ free \subseteq Blocks /\ H \subseteq free /\ Null \notin free
          /\ tree.root \in H \cup {Null}
      BY <2>1, SoundFacts
    <2>3. /\ Linked(tree, H) /\ Lists(tree, free, rank) /\ OneSize(tree, free \ {Null}, size) /\ Bare(tree, H)
      BY <2>1, LinkedTree DEF Sound
    <2> HIDE DEF H
    <2>4. tree.root # Null => tree.node[tree.root].parent = Null
      BY <2>2, <2>3 DEF Linked
    <2>5. ASSUME NEW b \in free, NEW side \in Sides, tree.node[b][side] # Null
          PROVE  tree.node[tree.node[b][side]].parent = b
      <3>1. b \in H
        BY <2>2, <2>3, <2>5 DEF Bare, Sides
      <3>2. QED
        BY <2>3, <2>5, <3>1 DEF Linked
    <2>6. ASSUME NEW b \in free, tree.node[b].parent # Null
          PROVE  b \in {tree.node[tree.node[b].parent][side] : side \in Sides}
      <3>1. b \in H
        BY <2>2, <2>3, <2>6 DEF Bare
      <3>2. QED
        BY <2>3, <2>6, <3>1, SideType DEF Linked
    <2>7. ASSUME NEW b \in free
          PROVE  /\ tree.node[b].next # Null =>
                      tree.node[tree.node[b].next].previous = b /\ size[tree.node[b].next] = size[b]
                 /\ tree.node[b].previous # Null => tree.node[tree.node[b].previous].next = b
      <3>1. b # Null
        BY <2>2
      <3>2. QED
        BY <2>3, <3>1 DEF Lists, OneSize
    <2>8. QED
      BY <2>4, <2>5, <2>6, <2>7
  <1>2. QED
    BY <1>1, Invariance, PTL

\* lowerBound finds the smallest free block that is large enough, or none if there is none.
THEOREM FindsBestFit == Spec => []BestFit
  <1>1. IInv => BestFit
    <2> DEFINE Fits(request)  == {b \in free : size[b] >= request}
               Found(request) == LowerBound(request)[1]
    <2> SUFFICES ASSUME IInv, Ready, NEW request \in Requests
                 PROVE  IF Fits(request) = {} THEN Found(request) = Null
                        ELSE /\ Found(request) \in Fits(request)
                             /\ \A b \in Fits(request) : size[Found(request)] <= size[b]
      BY DEF BestFit
    <2>1. PICK key, lo, hi, rank : Sound(tree, size, free, Null, key, lo, hi, rank)
      BY DEF IInv, Ready, Orderly
    <2>2. size \in [Blocks -> Nat] /\ request \in Nat
      BY SizeType, SizesAssumption DEF IInv
    <2> DEFINE H == Heads(tree, free)
               best == LowerBound(request)[1]
    <2>3. BestIs(H, size, request, best)
      BY <2>1, <2>2, LowerBoundFinds
    <2>4. H \subseteq free /\ free \subseteq Blocks /\ Null \notin free
      BY <2>1, SoundFacts
    <2>5. \A b \in free : \E h \in H : size[h] = size[b]
      BY <2>1, HeadOfList
    <2> HIDE DEF H, best
    <2>6. CASE best = Null
      <3>1. ASSUME NEW b \in free
            PROVE  ~(size[b] >= request)
        <4>1. PICK h \in H : size[h] = size[b]
          BY <2>5
        <4>2. size[h] < request
          BY <2>3, <2>6 DEF BestIs
        <4>3. size[b] \in Nat
          BY <2>2, <2>4
        <4>4. QED
          BY <2>2, <4>1, <4>2, <4>3
      <3>2. Fits(request) = {}
        BY <3>1
      <3>3. QED
        BY <2>6, <3>2 DEF best
    <2>7. CASE best # Null
      <3>1. best \in free /\ request <= size[best] /\ size[best] \in Nat
        BY <2>2, <2>3, <2>4, <2>7 DEF BestIs
      <3>2. best \in Fits(request)
        BY <2>2, <3>1
      <3>3. ASSUME NEW b \in Fits(request)
            PROVE  size[best] <= size[b]
        <4>1. PICK h \in H : size[h] = size[b]
          BY <2>5
        <4>2. size[b] \in Nat /\ size[b] >= request
          BY <2>2, <2>4
        <4>3. request <= size[h]
          BY <2>2, <4>1, <4>2
        <4>4. QED
          BY <2>3, <2>7, <4>1, <4>3 DEF BestIs
      <3>4. QED
        <4> HIDE DEF Fits
        <4>1. QED
          BY <3>2, <3>3 DEF best
    <2>8. QED
      BY <2>6, <2>7
  <1>2. QED
    BY <1>1, Invariance, PTL
=============================================================================
