----------------------------- MODULE ProofLemmas -----------------------------
(***************************************************************************)
(* Lemmas the proofs share: members of sequences, induction over numbers   *)
(* without an operator parameter, and the operators of the community       *)
(* modules that the specifications use.                                    *)
(***************************************************************************)
EXTENDS Integers, SequencesExt, FiniteSetTheorems, SequenceTheorems,
        WellFoundedInduction, TLAPS

\* The provers for a step that names none, in turn: most need less than a second, and
\* a search that went astray is begun again.
USE SMT, Zenon, SMTT(20), SMTT(60), ZenonT(60), Z3T(60)

(***************************************************************************)
(* Members of sequences.                                                   *)
(***************************************************************************)
\* Appending adds one member.
LEMMA RangeAppend ==
  ASSUME NEW S, NEW s \in Seq(S), NEW x \in S
  PROVE  Range(Append(s, x)) = Range(s) \cup {x}
  <1>1. DOMAIN Append(s, x) = 1 .. Len(s) + 1 /\ DOMAIN s = 1 .. Len(s)
    OBVIOUS
  <1>2. Append(s, x)[Len(s) + 1] = x /\ \A i \in 1 .. Len(s) : Append(s, x)[i] = s[i]
    OBVIOUS
  <1>3. QED
    BY <1>1, <1>2 DEF Range

\* What a sequence has is its head and what its tail has.
LEMMA RangeHeadTail ==
  ASSUME NEW S, NEW s \in Seq(S), s # <<>>
  PROVE  /\ Range(s) = {Head(s)} \cup Range(Tail(s))
         /\ Head(s) \in S /\ Tail(s) \in Seq(S)
  <1>1. DOMAIN s = 1 .. Len(s) /\ Len(s) \in Nat /\ Len(s) # 0
    OBVIOUS
  <1>2. DOMAIN Tail(s) = 1 .. Len(s) - 1 /\ \A i \in 1 .. Len(s) - 1 : Tail(s)[i] = s[i + 1]
    BY <1>1
  <1>3. Head(s) = s[1]
    OBVIOUS
  <1>4. ASSUME NEW y \in Range(s)
        PROVE  y \in {Head(s)} \cup Range(Tail(s))
    <2>1. PICK i \in 1 .. Len(s) : y = s[i]
      BY <1>1, <1>4 DEF Range
    <2>2. CASE i = 1
      BY <2>1, <2>2, <1>3
    <2>3. CASE i # 1
      <3>1. i - 1 \in 1 .. Len(s) - 1 /\ (i - 1) + 1 = i
        BY <2>1, <2>3, <1>1
      <3>2. y = Tail(s)[i - 1]
        BY <2>1, <3>1, <1>2
      <3>3. QED
        BY <3>1, <3>2, <1>2 DEF Range
    <2>4. QED
      BY <2>2, <2>3
  <1>5. ASSUME NEW y \in Range(Tail(s))
        PROVE  y \in Range(s)
    <2>1. PICK i \in 1 .. Len(s) - 1 : y = s[i + 1]
      BY <1>2, <1>5 DEF Range
    <2>2. i + 1 \in 1 .. Len(s)
      BY <2>1, <1>1
    <2>3. QED
      BY <2>1, <2>2, <1>1 DEF Range
  <1>6. Head(s) \in Range(s) /\ Head(s) \in S
    <2>1. 1 \in 1 .. Len(s)
      BY <1>1
    <2>2. QED
      BY <2>1, <1>1, <1>3 DEF Range
  <1>7. Tail(s) \in Seq(S)
    OBVIOUS
  <1>8. QED
    BY <1>4, <1>5, <1>6, <1>7

\* The empty sequence has no members.
LEMMA RangeEmpty == Range(<<>>) = {}
  BY DEF Range

\* A sequence is what comes before its last element, and that element.
LEMMA FrontLast ==
  ASSUME NEW S, NEW s \in Seq(S), s # <<>>
  PROVE  /\ Last(s) \in S /\ Front(s) \in Seq(S)
         /\ Len(s) \in Nat \ {0} /\ Len(Front(s)) = Len(s) - 1
         /\ \A i \in 1 .. Len(s) - 1 : Front(s)[i] = s[i]
         /\ Range(s) = Range(Front(s)) \cup {Last(s)}
  <1>1. Len(s) \in Nat \ {0} /\ DOMAIN s = 1 .. Len(s) /\ \A i \in 1 .. Len(s) : s[i] \in S
    OBVIOUS
  <1>2. Last(s) \in S
    BY <1>1 DEF Last
  <1>3. /\ Front(s) \in Seq(S) /\ Len(Front(s)) = Len(s) - 1
        /\ \A i \in 1 .. Len(s) - 1 : Front(s)[i] = s[i]
    BY <1>1 DEF Front
  <1>4. DOMAIN Front(s) = 1 .. Len(s) - 1
    BY <1>3
  <1>5. 1 .. Len(s) = 1 .. Len(s) - 1 \cup {Len(s)}
    BY <1>1
  <1>6. Range(s) = Range(Front(s)) \cup {Last(s)}
    BY <1>1, <1>3, <1>4, <1>5 DEF Range, Last
  <1>7. QED
    BY <1>1, <1>2, <1>3, <1>6

\* Removing an element leaves members of the sequence.
LEMMA RangeRemoveAt ==
  ASSUME NEW S, NEW s \in Seq(S), NEW i \in DOMAIN s
  PROVE  RemoveAt(s, i) \in Seq(S) /\ Range(RemoveAt(s, i)) \subseteq Range(s)
  <1>1. Len(s) \in Nat /\ DOMAIN s = 1 .. Len(s) /\ i \in 1 .. Len(s)
    OBVIOUS
  <1>2. \A j \in 1 .. Len(s) : s[j] \in Range(s)
    BY <1>1 DEF Range
  <1>3. SubSeq(s, 1, i - 1) \in Seq(Range(s)) /\ SubSeq(s, i + 1, Len(s)) \in Seq(Range(s))
    BY <1>1, <1>2, SubSeqProperties
  <1>4. RemoveAt(s, i) \in Seq(Range(s))
    BY <1>3, ConcatProperties DEF RemoveAt
  <1>5. Range(s) \subseteq S
    BY <1>1 DEF Range
  <1>6. DOMAIN RemoveAt(s, i) = 1 .. Len(RemoveAt(s, i))
        /\ \A j \in 1 .. Len(RemoveAt(s, i)) : RemoveAt(s, i)[j] \in Range(s)
    BY <1>4
  <1>7. RemoveAt(s, i) \in Seq(S)
    BY <1>4, <1>5
  <1>8. QED
    BY <1>6, <1>7 DEF Range

(***************************************************************************)
(* Induction.                                                              *)
(***************************************************************************)
\* Every set of natural numbers that has a member has a least one.  The library
\* states this with an operator parameter; here it follows from the fact that
\* the finite sets 0 .. n are well-founded under strict inclusion.
LEMMA NatMin ==
  ASSUME NEW T, T \subseteq Nat, T # {}
  PROVE  \E n \in T : \A m \in T : n <= m
  <1> DEFINE Below == {0 .. n : n \in T}
  <1>1. \A n \in Nat : 0 .. n \in FiniteSubsetsOf(Nat)
    BY FS_Interval DEF FiniteSubsetsOf
  <1>2. Below \subseteq FiniteSubsetsOf(Nat) /\ Below # {}
    BY <1>1
  <1>3. IsWellFoundedOn(StrictSubsetOrdering(Nat), FiniteSubsetsOf(Nat))
    BY FS_StrictSubsetOrderingWellFounded
  <1> HIDE DEF Below
  <1>4. PICK I \in Below : \A J \in Below : ~(<<J, I>> \in StrictSubsetOrdering(Nat))
    BY <1>2, <1>3, WFMin
  <1>5. PICK n \in T : I = 0 .. n
    BY DEF Below
  <1>6. ASSUME NEW m \in T, m < n
        PROVE  FALSE
    <2>1. 0 .. m \in Below
      BY DEF Below
    <2>2. 0 .. m \subseteq 0 .. n /\ 0 .. m # 0 .. n
      BY <1>6
    <2>3. 0 .. m \in SUBSET Nat /\ 0 .. n \in SUBSET Nat
      OBVIOUS
    <2>4. <<0 .. m, 0 .. n>> \in StrictSubsetOrdering(Nat)
      BY <2>2, <2>3 DEF StrictSubsetOrdering
    <2>5. QED
      BY <1>4, <1>5, <2>1, <2>4
  <1>7. QED
    BY <1>6

\* Induction over the natural numbers, for a set instead of a predicate.
LEMMA NatSetInduction ==
  ASSUME NEW T, 0 \in T, \A n \in Nat : n \in T => n + 1 \in T
  PROVE  \A n \in Nat : n \in T
  <1> SUFFICES ASSUME Nat \ T # {}
               PROVE  FALSE
    OBVIOUS
  <1>1. PICK n \in Nat \ T : \A m \in Nat \ T : n <= m
    BY NatMin
  <1>2. n # 0 /\ n - 1 \in Nat /\ n - 1 \in T /\ (n - 1) + 1 = n
    BY <1>1
  <1>3. QED
    BY <1>1, <1>2

(***************************************************************************)
(* Operators of the community modules.                                     *)
(***************************************************************************)
\* A finite set as a sequence: every member is in it.
LEMMA SetToSeqProperties ==
  ASSUME NEW S, IsFiniteSet(S)
  PROVE  /\ SetToSeq(S) \in Seq(S)
         /\ Range(SetToSeq(S)) = S
  <1> DEFINE n == Cardinality(S)
             Good(f) == f \in [1 .. n -> S] /\ IsInjective(f)
  <1>1. n \in Nat /\ ExistsBijection(1 .. n, S)
    BY FS_CardinalityType
  <1>2. PICK b : b \in Bijection(1 .. n, S)
    BY <1>1 DEF ExistsBijection
  <1>3. Good(b)
    BY <1>2 DEF Bijection, Injection, IsInjective
  <1>4. SetToSeq(S) = CHOOSE f \in [1 .. n -> S] : IsInjective(f)
    BY DEF SetToSeq
  <1>5. Good(SetToSeq(S))
    BY <1>3, <1>4
  <1>6. SetToSeq(S) \in Injection(1 .. n, S)
    BY <1>5 DEF Injection, IsInjective
  <1>7. Cardinality(1 .. n) = n
    BY <1>1, FS_Interval
  <1>8. SetToSeq(S) \in Surjection(1 .. n, S)
    BY <1>6, <1>7, FS_Injection
  <1>9. QED
    BY <1>1, <1>5, <1>8 DEF Surjection, Range

\* The recursion by which FlattenSeq is defined has a solution.
LEMMA FlattenExists ==
  ASSUME NEW s, NEW n \in Nat
  PROVE  \E f : f = [i \in 1 .. n |-> IF i = 1 THEN s[i] ELSE f[i-1] \o s[i]]
  <1> DEFINE Solves(f, k) == f = [i \in 1 .. k |-> IF i = 1 THEN s[i] ELSE f[i-1] \o s[i]]
             T == {k \in Nat : \E f : Solves(f, k)}
  <1>1. 0 \in T
    <2>1. [i \in 1 .. 0 |-> 0] = [i \in 1 .. 0 |-> IF i = 1 THEN s[i] ELSE [j \in 1 .. 0 |-> 0][i-1] \o s[i]]
      OBVIOUS
    <2>2. QED
      BY <2>1
  <1>2. ASSUME NEW k \in Nat, k \in T
        PROVE  k + 1 \in T
    <2>1. PICK f : f = [i \in 1 .. k |-> IF i = 1 THEN s[i] ELSE f[i-1] \o s[i]]
      BY <1>2
    <2> DEFINE g == [i \in 1 .. k + 1 |-> IF i \in 1 .. k THEN f[i]
                                          ELSE IF i = 1 THEN s[i] ELSE f[i-1] \o s[i]]
    <2>2. ASSUME NEW i \in 1 .. k + 1
          PROVE  g[i] = IF i = 1 THEN s[i] ELSE g[i-1] \o s[i]
      <3>1. CASE i = 1
        <4>1. 1 \in 1 .. k => f[1] = s[1]
          BY <2>1
        <4>2. QED
          BY <3>1, <4>1
      <3>2. CASE i # 1
        <4>1. i - 1 \in 1 .. k
          BY <3>2
        <4>2. g[i-1] = f[i-1]
          BY <4>1
        <4>3. i \in 1 .. k => f[i] = f[i-1] \o s[i]
          BY <2>1, <3>2
        <4>4. QED
          BY <3>2, <4>2, <4>3
      <3>3. QED
        BY <3>1, <3>2
    <2>3. g = [i \in 1 .. k + 1 |-> IF i = 1 THEN s[i] ELSE g[i-1] \o s[i]]
      <3> HIDE DEF g
      <3>1. DOMAIN g = 1 .. k + 1 /\ g = [i \in 1 .. k + 1 |-> g[i]]
        BY DEF g
      <3>2. QED
        BY <2>2, <3>1
    <2>4. Solves(g, k + 1)
      BY <2>3, ZenonT(60)
    <2>5. QED
      <3> HIDE DEF g, Solves
      <3>1. QED
        BY <2>4
  <1> HIDE DEF T
  <1>3. n \in T
    BY <1>1, <1>2, NatSetInduction
  <1>4. QED
    BY <1>3 DEF T

\* The concatenation of sequences over a set is one, and has what they have.
LEMMA FlattenSeqProperties ==
  ASSUME NEW S, NEW n \in Nat, NEW s \in [1 .. n -> Seq(S)]
  PROVE  /\ FlattenSeq(s) \in Seq(S)
         /\ Range(FlattenSeq(s)) = UNION {Range(s[i]) : i \in 1 .. n}
  <1> DEFINE Flatten(f) == f = [i \in 1 .. n |-> IF i = 1 THEN s[i] ELSE f[i-1] \o s[i]]
             flat == CHOOSE f : Flatten(f)
             Good(k) == flat[k] \in Seq(S) /\ Range(flat[k]) = UNION {Range(s[i]) : i \in 1 .. k}
             T == {k \in Nat : k \in 1 .. n => Good(k)}
  <1>1. Len(s) = n
    OBVIOUS
  <1>2. Flatten(flat)
    BY FlattenExists, ZenonT(60)
  <1>3. FlattenSeq(s) = IF n = 0 THEN s ELSE flat[n]
    BY <1>1 DEF FlattenSeq
  <1> HIDE DEF flat
  <1>4. \A k \in 1 .. n : flat[k] = IF k = 1 THEN s[k] ELSE flat[k-1] \o s[k]
    BY <1>2
  <1>5. 0 \in T
    OBVIOUS
  <1>6. ASSUME NEW k \in Nat, k \in T, k + 1 \in 1 .. n
        PROVE  Good(k + 1)
    <2>1. CASE k = 0
      <3>1. flat[k+1] = s[1] /\ s[1] \in Seq(S)
        BY <1>4, <1>6, <2>1
      <3>2. 1 .. k + 1 = {1}
        BY <2>1
      <3>3. UNION {Range(s[i]) : i \in {1}} = Range(s[1])
        OBVIOUS
      <3>4. QED
        BY <3>1, <3>2, <3>3
    <2>2. CASE k # 0
      <3>1. /\ k \in 1 .. n /\ s[k+1] \in Seq(S)
            /\ flat[k] \in Seq(S) /\ Range(flat[k]) = UNION {Range(s[i]) : i \in 1 .. k}
        BY <1>6, <2>2
      <3>2. flat[k+1] = flat[k] \o s[k+1]
        <4>1. (k + 1) - 1 = k /\ k + 1 # 1
          BY <2>2
        <4>2. flat[k+1] = IF k + 1 = 1 THEN s[k+1] ELSE flat[(k + 1) - 1] \o s[k+1]
          BY <1>4, <1>6, ZenonT(60)
        <4>3. QED
          BY <4>1, <4>2
      <3>3. flat[k+1] \in Seq(S) /\ Range(flat[k+1]) = Range(flat[k]) \cup Range(s[k+1])
        BY <3>1, <3>2, RangeConcatenation, ConcatProperties
      <3>4. 1 .. k + 1 = (1 .. k) \cup {k + 1}
        OBVIOUS
      <3>5. UNION {Range(s[i]) : i \in (1 .. k) \cup {k + 1}}
              = (UNION {Range(s[i]) : i \in 1 .. k}) \cup Range(s[k+1])
        OBVIOUS
      <3>6. QED
        BY <3>1, <3>3, <3>4, <3>5
    <2>3. QED
      BY <2>1, <2>2
  <1>7. \A k \in Nat : k \in T => k + 1 \in T
    <2> HIDE DEF Good
    <2>1. QED
      BY <1>6
  <1> HIDE DEF T
  <1>8. n \in T
    BY <1>5, <1>7, NatSetInduction
  <1>9. CASE n = 0
    BY <1>3, <1>9 DEF Range
  <1>10. CASE n # 0
    BY <1>3, <1>8, <1>10 DEF T
  <1>11. QED
    BY <1>9, <1>10

\* Numbers can be sorted: some permutation of the indices puts them in order.
LEMMA SortingPermutation ==
  ASSUME NEW n \in Nat, NEW f \in [1 .. n -> Nat]
  PROVE  \E p \in [1 .. n -> 1 .. n] :
           IsInjective(p) /\ \A i, j \in 1 .. n : i < j => f[p[i]] <= f[p[j]]
  <1> DEFINE Sorts(p, k, g) == /\ p \in [1 .. k -> 1 .. k] /\ IsInjective(p)
                               /\ \A i, j \in 1 .. k : i < j => g[p[i]] <= g[p[j]]
             T == {k \in Nat : \A g \in [1 .. k -> Nat] : \E p : Sorts(p, k, g)}
  <1>1. 0 \in T
    <2>1. \A g : Sorts([i \in 1 .. 0 |-> 0], 0, g)
      BY DEF IsInjective
    <2> HIDE DEF Sorts
    <2>2. QED
      BY <2>1
  <1>2. ASSUME NEW k \in Nat, k \in T
        PROVE  k + 1 \in T
    <2>1. ASSUME NEW g \in [1 .. k + 1 -> Nat]
          PROVE  \E p : Sorts(p, k + 1, g)
      <3> DEFINE Values == {g[i] : i \in 1 .. k + 1}
      <3>1. Values \subseteq Nat /\ g[1] \in Values
        OBVIOUS
      <3>2. PICK least \in Values : \A v \in Values : least <= v
        BY <3>1, NatMin
      <3>3. PICK first \in 1 .. k + 1 : g[first] = least
        BY <3>2
      <3>4. \A i \in 1 .. k + 1 : g[first] <= g[i]
        BY <3>2, <3>3
      <3> HIDE DEF Values
      <3> DEFINE skip == [i \in 1 .. k |-> IF i < first THEN i ELSE i + 1]
                 h == [i \in 1 .. k |-> g[skip[i]]]
      <3>5. /\ \A i \in 1 .. k : skip[i] \in 1 .. k + 1 /\ skip[i] # first
            /\ \A i, j \in 1 .. k : skip[i] = skip[j] => i = j
        BY SMTT(60), Z3T(60)
      <3> HIDE DEF skip
      <3>6. h \in [1 .. k -> Nat]
        BY <3>5
      <3>7. PICK p : Sorts(p, k, h)
        <4> HIDE DEF Sorts, h
        <4>1. QED
          BY <1>2, <3>6
      <3> DEFINE q == [i \in 1 .. k + 1 |-> IF i = 1 THEN first ELSE skip[p[i - 1]]]
      <3>8. ASSUME NEW i \in 1 .. k + 1, i # 1
            PROVE  /\ i - 1 \in 1 .. k /\ p[i - 1] \in 1 .. k
                   /\ q[i] = skip[p[i - 1]] /\ q[i] \in 1 .. k + 1 /\ q[i] # first
                   /\ g[q[i]] = h[p[i - 1]]
        <4>1. i - 1 \in 1 .. k
          BY <3>8
        <4>2. p[i - 1] \in 1 .. k
          BY <3>7, <4>1
        <4>3. q[i] = skip[p[i - 1]]
          BY <3>8
        <4> HIDE DEF q
        <4>4. QED
          BY <3>5, <4>1, <4>2, <4>3
      <3>9. q[1] = first
        OBVIOUS
      <3>10. q \in [1 .. k + 1 -> 1 .. k + 1]
        <4>1. \A i \in 1 .. k + 1 : q[i] \in 1 .. k + 1
          BY <3>8, <3>9
        <4>2. q = [i \in 1 .. k + 1 |-> q[i]]
          OBVIOUS
        <4> HIDE DEF q
        <4>3. QED
          BY <4>1, <4>2
      <3> HIDE DEF q, h
      <3>11. ASSUME NEW i \in 1 .. k + 1, NEW j \in 1 .. k + 1, q[i] = q[j]
             PROVE  i = j
        <4>1. CASE i = 1 \/ j = 1
          BY <3>8, <3>9, <3>11, <4>1
        <4>2. CASE i # 1 /\ j # 1
          <5>1. p[i - 1] = p[j - 1]
            <6>1. p[i - 1] \in 1 .. k /\ p[j - 1] \in 1 .. k
              BY <3>8, <4>2
            <6>2. skip[p[i - 1]] = skip[p[j - 1]]
              BY <3>8, <3>11, <4>2
            <6>3. QED
              BY <3>5, <6>1, <6>2
          <5>2. i - 1 = j - 1
            BY <3>7, <3>8, <4>2, <5>1 DEF IsInjective
          <5>3. QED
            BY <5>2
        <4>3. QED
          BY <4>1, <4>2
      <3>12. ASSUME NEW i \in 1 .. k + 1, NEW j \in 1 .. k + 1, i < j
             PROVE  g[q[i]] <= g[q[j]]
        <4>1. j # 1
          BY <3>12
        <4>2. CASE i = 1
          BY <3>4, <3>8, <3>9, <4>1, <4>2
        <4>3. CASE i # 1
          <5>1. i - 1 \in 1 .. k /\ j - 1 \in 1 .. k /\ i - 1 < j - 1
            BY <3>8, <3>12, <4>1, <4>3
          <5>2. h[p[i - 1]] <= h[p[j - 1]]
            BY <3>7, <5>1
          <5>3. QED
            BY <3>8, <4>1, <4>3, <5>2
        <4>4. QED
          BY <4>2, <4>3
      <3>13. Sorts(q, k + 1, g)
        BY <3>10, <3>11, <3>12 DEF IsInjective
      <3> HIDE DEF Sorts
      <3>14. QED
        BY <3>13
    <2> HIDE DEF Sorts
    <2>2. QED
      BY <2>1
  <1> HIDE DEF T
  <1>3. n \in T
    BY <1>1, <1>2, NatSetInduction
  <1>4. QED
    BY <1>3 DEF T

\* f is defined by tail recursion.
TailRecursive(f, D, Stop, value, next) == f = [d \in D |-> IF d \in Stop THEN value[d] ELSE f[next[d]]]

\* There is such a function if a rank decreases.
LEMMA TailRecursion ==
  ASSUME NEW D, NEW Stop, NEW value, NEW next, NEW rank, NEW bound \in Nat,
         \A d \in D : rank[d] \in Nat /\ rank[d] < bound,
         \A d \in D \ Stop : next[d] \in D /\ rank[next[d]] < rank[d]
  PROVE  \E f : TailRecursive(f, D, Stop, value, next)
  <1> DEFINE Solves(f, n) == /\ f = [d \in D |-> f[d]]
                             /\ \A d \in D : rank[d] < n => f[d] = IF d \in Stop THEN value[d] ELSE f[next[d]]
             T == {n \in Nat : \E f : Solves(f, n)}
  <1>1. 0 \in T
    <2> DEFINE f == [d \in D |-> d]
    <2>1. Solves(f, 0)
      OBVIOUS
    <2>2. QED
      <3> HIDE DEF f, Solves
      <3>1. QED
        BY <2>1
  <1>2. ASSUME NEW n \in Nat, n \in T
        PROVE  n + 1 \in T
    <2>1. PICK f : Solves(f, n)
      BY <1>2
    <2> DEFINE g == [d \in D |-> IF rank[d] < n THEN f[d] ELSE IF d \in Stop THEN value[d] ELSE f[next[d]]]
    <2>2. ASSUME NEW d \in D, rank[d] < n + 1
          PROVE  g[d] = IF d \in Stop THEN value[d] ELSE g[next[d]]
      <3>1. CASE d \in Stop
        BY <2>1, <3>1
      <3>2. CASE d \notin Stop
        <4>1. next[d] \in D /\ rank[next[d]] \in Nat /\ rank[d] \in Nat /\ rank[next[d]] < n
          BY <2>2, <3>2
        <4>2. g[next[d]] = f[next[d]]
          BY <4>1
        <4>3. g[d] = f[next[d]]
          BY <2>1, <3>2
        <4>4. QED
          BY <3>2, <4>2, <4>3
      <3>3. QED
        BY <3>1, <3>2
    <2>3. g = [d \in D |-> g[d]]
      OBVIOUS
    <2> HIDE DEF g
    <2>4. Solves(g, n + 1)
      BY <2>2, <2>3
    <2>5. QED
      <3> HIDE DEF Solves
      <3>1. QED
        BY <2>4
  <1>3. bound \in T
    <2> HIDE DEF T
    <2>1. QED
      BY <1>1, <1>2, NatSetInduction
  <1>4. PICK f : Solves(f, bound)
    BY <1>3
  <1>5. f = [d \in D |-> IF d \in Stop THEN value[d] ELSE f[next[d]]]
    BY <1>4
  <1>6. QED
    BY <1>5 DEF TailRecursive
=============================================================================
