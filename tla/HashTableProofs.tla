-------------------------- MODULE HashTableProofs ---------------------------
(***************************************************************************)
(* Every entry is in exactly one bucket, and there is always an empty one: *)
(* whatever the distances say, no search goes on for ever.  Only a lookup  *)
(* that misses can make the table anything else than an ordered map.       *)
(***************************************************************************)
EXTENDS HashTable, ProofLemmas

\* The provers for a step that names none, in turn: most need less than a second, and
\* a search that went astray is begun again.
USE SMT, Zenon, SMTT(20), SMTT(60), ZenonT(60), Z3T(60)

-----------------------------------------------------------------------------
(***************************************************************************)
(* Going around a table of n buckets.                                      *)
(***************************************************************************)
\* A product with a positive number.
LEMMA ProductGrows ==
  ASSUME NEW n \in Nat \ {0}, NEW q \in Int, q > 0
  PROVE  n * q >= n
  <1>1. n * q = n * (q - 1) + n
    OBVIOUS
  <1>2. \A a, b \in Nat : a * b \in Nat
    OBVIOUS
  <1>3. n * (q - 1) \in Nat
    BY <1>2
  <1>4. QED
    BY <1>1, <1>3

\* A number is written in one way only as a multiple of n and less than n.
LEMMA RemainderUnique ==
  ASSUME NEW n \in Nat \ {0}, NEW p \in Int, NEW q \in Int, NEW r \in 0 .. n - 1, NEW s \in 0 .. n - 1,
         n * p + r = n * q + s
  PROVE  p = q /\ r = s
  <1>1. n * (p - q) = s - r /\ n * (q - p) = r - s
    OBVIOUS
  <1>2. ~(p - q > 0)
    BY <1>1, ProductGrows
  <1>3. ~(q - p > 0)
    BY <1>1, ProductGrows
  <1>4. QED
    BY <1>2, <1>3

\* The remainder of a number.
LEMMA Division ==
  ASSUME NEW n \in Nat \ {0}, NEW a \in Int
  PROVE  /\ a \div n \in Int /\ a % n \in 0 .. n - 1
         /\ a = n * (a \div n) + (a % n)
  <1>1. a \div n \in Int /\ a % n \in 0 .. n - 1
    OBVIOUS
  <1>2. a = n * (a \div n) + (a % n)
    OBVIOUS
  <1>3. QED
    BY <1>1, <1>2

\* What is a remainder.
LEMMA IsRemainder ==
  ASSUME NEW n \in Nat \ {0}, NEW q \in Int, NEW r \in 0 .. n - 1
  PROVE  (n * q + r) % n = r
  <1> DEFINE a == n * q + r
  <1>1. a \in Int
    OBVIOUS
  <1>2. /\ a \div n \in Int /\ a % n \in 0 .. n - 1
        /\ a = n * (a \div n) + (a % n)
    BY <1>1, Division
  <1> DEFINE p == a \div n
             s == a % n
  <1>3. p \in Int /\ s \in 0 .. n - 1 /\ n * p + s = n * q + r
    BY <1>2
  <1> HIDE DEF p, s
  <1>4. s = r
    BY <1>3, RemainderUnique
  <1>5. QED
    BY <1>4 DEF s

\* The bucket after i steps: it is in the table.
LEMMA AroundType ==
  ASSUME NEW n \in Nat \ {0}, NEW h \in Nat, NEW i \in Nat
  PROVE  (h + i) % n \in 0 .. n - 1
  BY Division

\* Within n steps every bucket is met.
LEMMA AroundReaches ==
  ASSUME NEW n \in Nat \ {0}, NEW h \in Nat, NEW b \in 0 .. n - 1
  PROVE  \E i \in 0 .. n - 1 : (h + i) % n = b
  <1> DEFINE a == b - h
             i == a % n
             q == a \div n
  <1>1. a \in Int
    OBVIOUS
  <1> HIDE DEF a
  <1>5. i \in 0 .. n - 1 /\ q \in Int /\ a = n * q + i
    BY <1>1, Division
  <1> HIDE DEF i, q
  <1> DEFINE m == -q
  <1>2. m \in Int /\ h + i = n * m + b
    BY <1>5 DEF a
  <1> HIDE DEF m
  <1>3. (n * m + b) % n = b
    BY <1>2, IsRemainder
  <1>4. (h + i) % n = b
    BY <1>2, <1>3, ZenonT(60)
  <1>6. QED
    BY <1>4, <1>5

\* It is met once.
LEMMA AroundOnce ==
  ASSUME NEW n \in Nat \ {0}, NEW h \in Nat, NEW i \in 0 .. n - 1, NEW j \in 0 .. n - 1, (h + i) % n = (h + j) % n
  PROVE  i = j
  <1> DEFINE a == h + i
             b == h + j
             p == a \div n
             q == b \div n
             r == a % n
  <1>1. a \in Int /\ b \in Int /\ r = b % n
    OBVIOUS
  <1> HIDE DEF a, b
  <1>2. p \in Int /\ r \in 0 .. n - 1 /\ a = n * p + r
    BY <1>1, Division
  <1>3. q \in Int /\ b = n * q + r
    BY <1>1, Division
  <1> HIDE DEF p, q, r
  <1>4. i - j = n * (p - q) /\ j - i = n * (q - p)
    BY <1>2, <1>3 DEF a, b
  <1>5. ~(p - q > 0)
    BY <1>2, <1>3, <1>4, ProductGrows
  <1>6. ~(q - p > 0)
    BY <1>2, <1>3, <1>4, ProductGrows
  <1>7. p = q
    BY <1>2, <1>3, <1>5, <1>6
  <1>8. QED
    BY <1>2, <1>3, <1>7 DEF a, b

\* One step more.
LEMMA AroundNext ==
  ASSUME NEW n \in Nat \ {0}, NEW h \in Nat, NEW i \in Nat
  PROVE  (((h + i) % n) + 1) % n = (h + (i + 1)) % n
  <1> DEFINE a == h + i
             p == a \div n
             r == a % n
             b == r + 1
             q == b \div n
             s == b % n
  <1>1. a \in Int
    OBVIOUS
  <1> HIDE DEF a
  <1>2. p \in Int /\ r \in 0 .. n - 1 /\ a = n * p + r
    BY <1>1, Division
  <1> HIDE DEF p, r
  <1>3. b \in Int
    BY <1>2
  <1> HIDE DEF b
  <1>4. q \in Int /\ s \in 0 .. n - 1 /\ b = n * q + s
    BY <1>3, Division
  <1> HIDE DEF q, s
  <1> DEFINE m == p + q
  <1>5. m \in Int /\ h + (i + 1) = n * m + s
    BY <1>2, <1>4 DEF a, b
  <1> HIDE DEF m
  <1>6. (n * m + s) % n = s
    BY <1>4, <1>5, IsRemainder
  <1>7. (h + (i + 1)) % n = s
    BY <1>5, <1>6, ZenonT(60)
  <1>8. QED
    BY <1>7 DEF a, b, r, s

-----------------------------------------------------------------------------
(***************************************************************************)
(* Iterations.                                                             *)
(***************************************************************************)
\* A step for each number below n, from the state a on.
Iteration(f, n, a, step) == f = [i \in 0 .. n |-> IF i = 0 THEN a ELSE step[<<f[i - 1], i - 1>>]]

\* There are such states, and a set that the steps do not leave has them all.
LEMMA IterationExists ==
  ASSUME NEW n \in Nat, NEW S, NEW a \in S, NEW step \in [S \X (0 .. n - 1) -> S]
  PROVE  \E f \in [0 .. n -> S] : Iteration(f, n, a, step)
  <1> DEFINE Reaches(f, k) == /\ f \in [0 .. n -> S] /\ f[0] = a
                              /\ \A i \in 1 .. n : i <= k => f[i] = step[<<f[i - 1], i - 1>>]
             T == {k \in Nat : k <= n => \E f : Reaches(f, k)}
  <1>1. 0 \in T
    <2> DEFINE f == [i \in 0 .. n |-> a]
    <2>1. f \in [0 .. n -> S] /\ f[0] = a /\ \A i \in 1 .. n : ~(i <= 0)
      OBVIOUS
    <2>2. Reaches(f, 0)
      BY <2>1
    <2>3. QED
      <3> HIDE DEF f, Reaches
      <3>1. QED
        BY <2>2
  <1>2. ASSUME NEW k \in Nat, k \in T
        PROVE  k + 1 \in T
    <2>1. SUFFICES ASSUME k + 1 <= n
                   PROVE  \E f : Reaches(f, k + 1)
      OBVIOUS
    <2>2. PICK f : Reaches(f, k)
      BY <1>2, <2>1
    <2> DEFINE g == [f EXCEPT ![k + 1] = step[<<f[k], k>>]]
    <2>3. f \in [0 .. n -> S] /\ k \in 0 .. n /\ k \in 0 .. n - 1 /\ k + 1 \in 0 .. n
      BY <2>1, <2>2
    <2>4. step[<<f[k], k>>] \in S
      BY <2>3
    <2>5. g \in [0 .. n -> S] /\ g[k + 1] = step[<<f[k], k>>]
      BY <2>3, <2>4
    <2>6. \A i \in 0 .. n : i # k + 1 => g[i] = f[i]
      BY <2>3
    <2> HIDE DEF g
    <2>7. ASSUME NEW i \in 1 .. n, i <= k + 1
          PROVE  g[i] = step[<<g[i - 1], i - 1>>]
      <3>1. g[i - 1] = f[i - 1]
        BY <2>6, <2>7
      <3>2. CASE i = k + 1
        <4>1. i - 1 = k
          BY <3>2
        <4>2. QED
          BY <2>5, <3>1, <3>2, <4>1
      <3>3. CASE i # k + 1
        <4>1. i <= k
          BY <2>7, <3>3
        <4>2. f[i] = step[<<f[i - 1], i - 1>>]
          BY <2>2, <4>1
        <4>3. g[i] = f[i]
          BY <2>6, <3>3
        <4>4. QED
          BY <3>1, <4>2, <4>3
      <3>4. QED
        BY <3>2, <3>3
    <2>8. g[0] = a
      BY <2>2, <2>6
    <2>9. Reaches(g, k + 1)
      BY <2>5, <2>7, <2>8
    <2>10. QED
      <3> HIDE DEF Reaches
      <3>1. QED
        BY <2>9
  <1>3. n \in T
    <2> HIDE DEF T
    <2>1. QED
      BY <1>1, <1>2, NatSetInduction
  <1>4. PICK f : Reaches(f, n)
    BY <1>3
  <1>5. ASSUME NEW i \in 0 .. n
        PROVE  f[i] = IF i = 0 THEN a ELSE step[<<f[i - 1], i - 1>>]
    <2>1. CASE i = 0
      BY <1>4, <2>1
    <2>2. CASE i # 0
      BY <1>4, <2>2
    <2>3. QED
      BY <2>1, <2>2
  <1>6. f = [i \in 0 .. n |-> IF i = 0 THEN a ELSE step[<<f[i - 1], i - 1>>]]
    BY <1>4, <1>5
  <1>7. QED
    BY <1>4, <1>6 DEF Iteration

-----------------------------------------------------------------------------
(***************************************************************************)
(* What the buckets hold.                                                  *)
(***************************************************************************)
Slot     == [index : Nat, hash : Nat]
Table(n) == [0 .. n - 1 -> Slot]

\* The entries of a table with n buckets are E, each in one bucket.
Holds(bs, n, E) ==
  /\ n \in Nat /\ bs \in Table(n) /\ E \subseteq Slot
  /\ \A b \in 0 .. n - 1 : bs[b].index # 0 => bs[b] \in E
  /\ \A e \in E : e.index # 0 /\ \E b \in 0 .. n - 1 : bs[b] = e
  /\ \A b, c \in 0 .. n - 1 : bs[b].index # 0 /\ bs[b].index = bs[c].index => b = c

\* Another entry.
Fresh(e, E) == e \in Slot /\ e.index # 0 /\ \A x \in E : x.index # e.index

\* The domain of the function is the number of buckets.
LEMMA CountOf ==
  ASSUME NEW n \in Nat, NEW bs \in Table(n)
  PROVE  Count(bs) = n /\ DOMAIN bs = 0 .. n - 1
  <1>1. DOMAIN bs = 0 .. n - 1
    BY DEF Table
  <1>2. Cardinality(0 .. n - 1) = n
    <2>1. CASE n = 0
      <3>1. 0 .. n - 1 = {}
        BY <2>1
      <3>2. QED
        BY <2>1, <3>1, FS_EmptySet
    <2>2. CASE n # 0
      <3>1. 0 \in Int /\ n - 1 \in Int /\ ~(0 > n - 1) /\ (n - 1) - 0 + 1 = n
        BY <2>2
      <3>2. QED
        BY <3>1, FS_Interval
    <2>3. QED
      BY <2>1, <2>2
  <1>3. QED
    BY <1>1, <1>2 DEF Count

\* With fewer entries than buckets, a bucket is empty.
LEMMA EmptyBucket ==
  ASSUME NEW bs, NEW n, NEW E, Holds(bs, n, E), NEW m \in Nat, m < n, \A e \in E : e.index <= m
  PROVE  \E b \in 0 .. n - 1 : bs[b].index = 0
  <1>1. SUFFICES ASSUME \A b \in 0 .. n - 1 : bs[b].index # 0
                 PROVE  FALSE
    OBVIOUS
  <1>2. n \in Nat /\ bs \in Table(n) /\ DOMAIN bs = 0 .. n - 1 /\ Count(bs) = n
    BY CountOf DEF Holds
  <1> DEFINE f == [b \in 0 .. n - 1 |-> bs[b].index]
  <1>3. ASSUME NEW b \in 0 .. n - 1
        PROVE  bs[b].index \in 1 .. m
    <2>1. bs[b] \in E /\ bs[b] \in Slot
      BY <1>1, <1>2 DEF Holds, Table
    <2>2. bs[b].index \in Nat /\ bs[b].index # 0 /\ bs[b].index <= m
      BY <1>1, <2>1 DEF Slot
    <2>3. QED
      BY <2>2
  <1>4. f \in [0 .. n - 1 -> 1 .. m]
    BY <1>3
  <1>5. IsFiniteSet(0 .. n - 1) /\ IsFiniteSet(1 .. m)
    BY <1>2, FS_Interval
  <1>6. Cardinality(0 .. n - 1) = n /\ Cardinality(1 .. m) = m
    <2>1. Cardinality(0 .. n - 1) = n
      BY <1>2 DEF Count
    <2>2. Cardinality(1 .. m) = m
      <3>1. CASE m = 0
        <4>1. 1 .. m = {}
          BY <3>1
        <4>2. QED
          BY <3>1, <4>1, FS_EmptySet
      <3>2. CASE m # 0
        <4>1. ~(1 > m) /\ m - 1 + 1 = m
          BY <3>2
        <4>2. QED
          BY <4>1, FS_Interval
      <3>3. QED
        BY <3>1, <3>2
    <2>3. QED
      BY <2>1, <2>2
  <1> HIDE DEF f
  <1>7. \E b, c \in 0 .. n - 1 : b # c /\ f[b] = f[c]
    BY <1>4, <1>5, <1>6, FS_PigeonHole
  <1>8. \E b, c \in 0 .. n - 1 : b # c /\ bs[b].index = bs[c].index
    BY <1>7 DEF f
  <1>9. QED
    BY <1>1, <1>8 DEF Holds

\* An empty bucket takes an entry.
LEMMA FillsBucket ==
  ASSUME NEW bs, NEW n, NEW E, Holds(bs, n, E), NEW e, Fresh(e, E), NEW b \in 0 .. n - 1, bs[b].index = 0
  PROVE  Holds([bs EXCEPT ![b] = e], n, E \cup {e})
  <1> DEFINE cs == [bs EXCEPT ![b] = e]
  <1>1. /\ n \in Nat /\ bs \in Table(n) /\ e \in Slot /\ E \subseteq Slot
        /\ e.index # 0 /\ \A x \in E : x.index # e.index
    BY DEF Holds, Fresh
  <1>2. cs \in Table(n) /\ cs[b] = e /\ \A c \in 0 .. n - 1 : c # b => cs[c] = bs[c]
    BY <1>1 DEF Table
  <1> HIDE DEF cs
  <1>3. ASSUME NEW c \in 0 .. n - 1, cs[c].index # 0
        PROVE  cs[c] \in E \cup {e} /\ (c # b => bs[c] \in E)
    BY <1>2, <1>3 DEF Holds
  <1>4. ASSUME NEW x \in E \cup {e}
        PROVE  x.index # 0 /\ \E c \in 0 .. n - 1 : cs[c] = x
    <2>1. CASE x = e
      BY <1>1, <1>2, <2>1
    <2>2. CASE x \in E
      <3>1. x.index # 0 /\ \E c \in 0 .. n - 1 : bs[c] = x
        BY <2>2 DEF Holds
      <3>2. QED
        BY <1>2, <3>1
    <2>3. QED
      BY <2>1, <2>2
  <1>5. ASSUME NEW c \in 0 .. n - 1, NEW d \in 0 .. n - 1, cs[c].index # 0, cs[c].index = cs[d].index
        PROVE  c = d
    <2>1. CASE c # b /\ d # b
      BY <1>2, <1>5, <2>1 DEF Holds
    <2>2. CASE c # b /\ d = b
      BY <1>1, <1>2, <1>3, <1>5, <2>2
    <2>3. CASE c = b /\ d # b
      BY <1>1, <1>2, <1>3, <1>5, <2>3
    <2>4. QED
      BY <2>1, <2>2, <2>3
  <1>6. Holds(cs, n, E \cup {e})
    BY <1>1, <1>2, <1>3, <1>4, <1>5 DEF Holds
  <1>7. QED
    BY <1>6 DEF cs

\* An entry takes the bucket of another, which then has none.
LEMMA TakesBucket ==
  ASSUME NEW bs, NEW n, NEW E, Holds(bs, n, E), NEW e, Fresh(e, E), NEW b \in 0 .. n - 1, bs[b].index # 0
  PROVE  /\ Holds([bs EXCEPT ![b] = e], n, (E \ {bs[b]}) \cup {e})
         /\ Fresh(bs[b], (E \ {bs[b]}) \cup {e}) /\ bs[b] \in E
  <1> DEFINE cs == [bs EXCEPT ![b] = e]
             F  == (E \ {bs[b]}) \cup {e}
  <1>1. /\ n \in Nat /\ bs \in Table(n) /\ e \in Slot /\ E \subseteq Slot
        /\ e.index # 0 /\ \A x \in E : x.index # e.index
    BY DEF Holds, Fresh
  <1>2. cs \in Table(n) /\ cs[b] = e /\ \A c \in 0 .. n - 1 : c # b => cs[c] = bs[c]
    BY <1>1 DEF Table
  <1>3. bs[b] \in E /\ bs[b] \in Slot
    BY <1>1 DEF Holds
  <1> HIDE DEF cs
  <1>4. ASSUME NEW c \in 0 .. n - 1, c # b, bs[c].index # 0
        PROVE  bs[c] \in E /\ bs[c].index # bs[b].index /\ bs[c] # bs[b]
    BY <1>4 DEF Holds
  <1>5. ASSUME NEW c \in 0 .. n - 1, cs[c].index # 0
        PROVE  cs[c] \in F /\ (c # b => cs[c] = bs[c] /\ bs[c] \in E)
    BY <1>2, <1>4, <1>5
  <1>6. ASSUME NEW x \in F
        PROVE  x.index # 0 /\ \E c \in 0 .. n - 1 : cs[c] = x
    <2>1. CASE x = e
      BY <1>1, <1>2, <2>1
    <2>2. CASE x \in E /\ x # bs[b]
      <3>1. x.index # 0 /\ \E c \in 0 .. n - 1 : bs[c] = x
        BY <2>2 DEF Holds
      <3>2. QED
        BY <1>2, <2>2, <3>1
    <2>3. QED
      BY <2>1, <2>2
  <1>7. ASSUME NEW c \in 0 .. n - 1, NEW d \in 0 .. n - 1, cs[c].index # 0, cs[c].index = cs[d].index
        PROVE  c = d
    <2>1. CASE c # b /\ d # b
      BY <1>2, <1>7, <2>1 DEF Holds
    <2>2. CASE c # b /\ d = b
      BY <1>1, <1>2, <1>5, <1>7, <2>2
    <2>3. CASE c = b /\ d # b
      BY <1>1, <1>2, <1>5, <1>7, <2>3
    <2>4. QED
      BY <2>1, <2>2, <2>3
  <1>8. F \subseteq Slot
    BY <1>1
  <1>9. ASSUME NEW x \in F
        PROVE  x.index # bs[b].index
    <2>1. CASE x = e
      BY <1>1, <1>3, <2>1
    <2>2. CASE x \in E /\ x # bs[b]
      <3>1. PICK c \in 0 .. n - 1 : bs[c] = x
        BY <2>2 DEF Holds
      <3>2. QED
        BY <2>2, <3>1 DEF Holds
    <2>3. QED
      BY <2>1, <2>2
  <1> HIDE DEF F
  <1>10. Holds(cs, n, F) /\ Fresh(bs[b], F)
    BY <1>1, <1>2, <1>3, <1>5, <1>6, <1>7, <1>8, <1>9 DEF Holds, Fresh
  <1>11. QED
    BY <1>3, <1>10 DEF cs, F

-----------------------------------------------------------------------------
(***************************************************************************)
(* doInsert.                                                               *)
(***************************************************************************)
\* The variables of its loop.
State(n) == [buckets : Table(n), entry : Slot, dist : Int, placed : BOOLEAN]

\* The distance is a number.
LEMMA DistanceType ==
  ASSUME NEW n \in Nat \ {0}, NEW bs \in Table(n), NEW b \in 0 .. n - 1
  PROVE  Distance(bs, b) \in Int
  <1>1. Count(bs) = n /\ bs[b] \in Slot
    BY CountOf DEF Table
  <1> DEFINE ideal == bs[b].hash % n
  <1>2. bs[b].hash \in Int
    BY <1>1 DEF Slot
  <1>3. ideal \in Int
    BY <1>2, Division
  <1> HIDE DEF ideal
  <1>4. Distance(bs, b) = IF ideal >= b THEN ideal - b ELSE n + b - ideal
    BY <1>1 DEF Distance, ideal
  <1>5. CASE ideal >= b
    BY <1>3, <1>4, <1>5
  <1>6. CASE ~(ideal >= b)
    BY <1>3, <1>4, <1>6
  <1>7. QED
    BY <1>5, <1>6

\* A round of the loop does one of four things.
LEMMA VisitedCases ==
  ASSUME NEW n \in Nat \ {0}, NEW s \in State(n), NEW b \in 0 .. n - 1
  PROVE  LET u == Visited(s, b) IN
         /\ u \in State(n)
         /\ \/ s.placed /\ u = s
            \/ /\ ~s.placed /\ s.buckets[b].index = 0
               /\ u.placed /\ u.buckets = [s.buckets EXCEPT ![b] = s.entry]
            \/ /\ ~s.placed /\ s.buckets[b].index # 0
               /\ ~u.placed /\ u.buckets = s.buckets /\ u.entry = s.entry
            \/ /\ ~s.placed /\ s.buckets[b].index # 0
               /\ ~u.placed /\ u.buckets = [s.buckets EXCEPT ![b] = s.entry] /\ u.entry = s.buckets[b]
  <1> DEFINE u == Visited(s, b)
             empty == IsEmpty(s.buckets, b)
             further == Searched(s.buckets, b, s.dist)
             d == Distance(s.buckets, b)
  <1>1. s.buckets \in Table(n) /\ s.entry \in Slot /\ s.dist \in Int /\ s.placed \in BOOLEAN
    BY DEF State
  <1>2. s.buckets[b] \in Slot /\ (empty <=> s.buckets[b].index = 0)
    BY <1>1 DEF Table, IsEmpty
  <1>3. d \in Int
    BY <1>1, DistanceType
  <1>4. [s.buckets EXCEPT ![b] = s.entry] \in Table(n)
    BY <1>1 DEF Table
  <1>5. u = CASE s.placed -> s
              [] ~s.placed /\ empty -> [s EXCEPT !.buckets[b] = s.entry, !.placed = TRUE]
              [] ~s.placed /\ further -> [s EXCEPT !.dist = @ + 1]
              [] OTHER -> [s EXCEPT !.buckets[b] = s.entry, !.entry = s.buckets[b], !.dist = d + 1]
    BY DEF Visited
  <1>6. further => ~empty
    BY DEF Searched
  <1> HIDE DEF u, empty, further, d
  <1>7. CASE s.placed
    <2>1. u = s
      BY <1>5, <1>7
    <2>2. QED
      BY <1>7, <2>1 DEF u
  <1>8. CASE ~s.placed /\ empty
    <2>1. u = [s EXCEPT !.buckets[b] = s.entry, !.placed = TRUE]
      BY <1>5, <1>6, <1>8
    <2>2. u \in State(n) /\ u.placed /\ u.buckets = [s.buckets EXCEPT ![b] = s.entry]
      BY <1>1, <1>4, <2>1 DEF State
    <2>3. QED
      BY <1>2, <1>8, <2>2 DEF u
  <1>9. CASE ~s.placed /\ further
    <2>1. u = [s EXCEPT !.dist = @ + 1]
      BY <1>5, <1>6, <1>9
    <2>2. u \in State(n) /\ ~u.placed /\ u.buckets = s.buckets /\ u.entry = s.entry
      BY <1>1, <1>9, <2>1 DEF State
    <2>3. QED
      BY <1>2, <1>6, <1>9, <2>2 DEF u
  <1>10. CASE ~s.placed /\ ~empty /\ ~further
    <2>1. u = [s EXCEPT !.buckets[b] = s.entry, !.entry = s.buckets[b], !.dist = d + 1]
      BY <1>5, <1>10
    <2> DEFINE cs == [s.buckets EXCEPT ![b] = s.entry]
    <2>2. u = [buckets |-> cs, entry |-> s.buckets[b], dist |-> d + 1, placed |-> s.placed]
      BY <2>1 DEF State
    <2>3. d + 1 \in Int
      BY <1>3
    <2>4. cs \in Table(n)
      BY <1>4
    <2> HIDE DEF cs
    <2>5. u \in State(n) /\ ~u.placed /\ u.buckets = cs /\ u.entry = s.buckets[b]
      BY <1>1, <1>2, <1>10, <2>2, <2>3, <2>4 DEF State
    <2>6. QED
      BY <1>2, <1>10, <2>5 DEF u, cs
  <1>11. QED
    BY <1>7, <1>8, <1>9, <1>10

\* Its type.
LEMMA VisitedType ==
  ASSUME NEW n \in Nat \ {0}, NEW s \in State(n), NEW b \in 0 .. n - 1
  PROVE  Visited(s, b) \in State(n)
  BY VisitedCases

\* The loop as a sequence of states.
Loop(f, n, bs, e, h, dist) ==
  /\ f \in [0 .. n -> State(n)]
  /\ f[0] = [buckets |-> bs, entry |-> e, dist |-> dist, placed |-> FALSE]
  /\ \A i \in 0 .. n - 1 : f[i + 1] = Visited(f[i], (h + i) % n)
  /\ DoInsert(bs, e, h, dist) = f[n].buckets

\* There is one.
LEMMA InsertStates ==
  ASSUME NEW n \in Nat \ {0}, NEW bs \in Table(n), NEW e \in Slot, NEW h \in Nat, NEW dist \in Int
  PROVE  \E f : Loop(f, n, bs, e, h, dist)
  <1> DEFINE a == [buckets |-> bs, entry |-> e, dist |-> dist, placed |-> FALSE]
             step == [x \in State(n) \X (0 .. n - 1) |-> Visited(x[1], (h + x[2]) % n)]
             Body(f) == [i \in 0 .. n |-> IF i = 0 THEN a ELSE Visited(f[i - 1], (h + (i - 1)) % n)]
             after == CHOOSE f : f = Body(f)
  <1>1. DoInsert(bs, e, h, dist) = after[n].buckets
    <2>1. Count(bs) = n
      BY CountOf
    <2>2. QED
      BY <2>1 DEF DoInsert, Bucket
  <1>2. a \in State(n)
    BY DEF State
  <1>3. step \in [State(n) \X (0 .. n - 1) -> State(n)]
    <2>1. ASSUME NEW x \in State(n) \X (0 .. n - 1)
          PROVE  Visited(x[1], (h + x[2]) % n) \in State(n)
      <3>0. x[2] \in Nat
        OBVIOUS
      <3>1. x[1] \in State(n) /\ (h + x[2]) % n \in 0 .. n - 1
        BY <3>0, AroundType
      <3>2. QED
        BY <3>1, VisitedCases
    <2>2. QED
      BY <2>1
  <1>4. PICK f \in [0 .. n -> State(n)] : Iteration(f, n, a, step)
    <2> HIDE DEF a, step
    <2>1. QED
      BY <1>2, <1>3, IterationExists
  <1>5. f = Body(f)
    <2>1. f = [i \in 0 .. n |-> IF i = 0 THEN a ELSE step[<<f[i - 1], i - 1>>]]
      BY <1>4, ZenonT(60) DEF Iteration
    <2>2. ASSUME NEW i \in 0 .. n, i # 0
          PROVE  step[<<f[i - 1], i - 1>>] = Visited(f[i - 1], (h + (i - 1)) % n)
      <3>1. i - 1 \in 0 .. n - 1 /\ i - 1 \in 0 .. n
        BY <2>2
      <3>2. <<f[i - 1], i - 1>> \in State(n) \X (0 .. n - 1)
        BY <3>1
      <3>3. QED
        BY <3>2
    <2> HIDE DEF step, a
    <2>3. QED
      BY <2>1, <2>2
  <1>6. after = Body(after)
    <2> HIDE DEF Body
    <2>1. QED
      BY <1>5
  <1>7. after \in [0 .. n -> State(n)]
    <2> DEFINE T == {i \in Nat : i <= n => after[i] \in State(n)}
    <2> HIDE DEF after, a
    <2>1. 0 \in T
      BY <1>2, <1>6
    <2>2. ASSUME NEW i \in Nat, i \in T
          PROVE  i + 1 \in T
      <3>1. SUFFICES ASSUME i + 1 <= n
                     PROVE  after[i + 1] \in State(n)
        OBVIOUS
      <3>2. after[i] \in State(n) /\ (h + i) % n \in 0 .. n - 1
        BY <2>2, <3>1, AroundType
      <3>3. after[i + 1] = Visited(after[i], (h + i) % n)
        <4>1. i + 1 \in 0 .. n /\ i + 1 # 0 /\ (i + 1) - 1 = i
          BY <3>1
        <4>2. QED
          BY <1>6, <4>1
      <3>4. QED
        BY <3>2, <3>3, VisitedType
    <2>3. \A i \in Nat : i \in T
      <3> HIDE DEF T
      <3>1. QED
        BY <2>1, <2>2, NatSetInduction
    <2>4. \A i \in 0 .. n : after[i] \in State(n)
      BY <2>3
    <2>5. after = [i \in 0 .. n |-> after[i]]
      BY <1>6
    <2>6. QED
      BY <2>4, <2>5
  <1>8. after[0] = a /\ \A i \in 0 .. n - 1 : after[i + 1] = Visited(after[i], (h + i) % n)
    <2> HIDE DEF after, a
    <2>1. after[0] = a
      BY <1>6
    <2>2. ASSUME NEW i \in 0 .. n - 1
          PROVE  after[i + 1] = Visited(after[i], (h + i) % n)
      <3>1. i + 1 \in 0 .. n /\ i + 1 # 0 /\ (i + 1) - 1 = i
        OBVIOUS
      <3>2. QED
        BY <1>6, <3>1
    <2>3. QED
      BY <2>1, <2>2
  <1> HIDE DEF after
  <1>9. Loop(after, n, bs, e, h, dist)
    BY <1>1, <1>7, <1>8 DEF Loop
  <1>10. QED
    BY <1>9

\* Whoever is carried is not in the table, and no bucket so far was empty.
Carrying(s, i, n, h, bs, E, e) ==
  /\ s.placed => Holds(s.buckets, n, E \cup {e})
  /\ ~s.placed => /\ \E F : Holds(s.buckets, n, F) /\ Fresh(s.entry, F) /\ F \cup {s.entry} = E \cup {e}
                  /\ \A b \in 0 .. n - 1 : s.buckets[b].index = 0 <=> bs[b].index = 0
                  /\ \A j \in 0 .. i - 1 : bs[(h + j) % n].index # 0

\* A round of the loop.
LEMMA CarryingStep ==
  ASSUME NEW n \in Nat \ {0}, NEW s \in State(n), NEW i \in Nat, NEW h \in Nat, NEW bs, NEW E, NEW e,
         Carrying(s, i, n, h, bs, E, e)
  PROVE  Carrying(Visited(s, (h + i) % n), i + 1, n, h, bs, E, e)
  <1> DEFINE b == (h + i) % n
             u == Visited(s, b)
  <1>1. b \in 0 .. n - 1
    BY AroundType
  <1>2. /\ s.buckets \in Table(n) /\ s.entry \in Slot /\ s.placed \in BOOLEAN
        /\ u \in State(n)
        /\ \/ s.placed /\ u = s
           \/ /\ ~s.placed /\ s.buckets[b].index = 0
              /\ u.placed /\ u.buckets = [s.buckets EXCEPT ![b] = s.entry]
           \/ /\ ~s.placed /\ s.buckets[b].index # 0
              /\ ~u.placed /\ u.buckets = s.buckets /\ u.entry = s.entry
           \/ /\ ~s.placed /\ s.buckets[b].index # 0
              /\ ~u.placed /\ u.buckets = [s.buckets EXCEPT ![b] = s.entry] /\ u.entry = s.buckets[b]
    BY <1>1, VisitedCases DEF State
  <1> HIDE DEF u
  <1>3. ASSUME ~s.placed, s.buckets[b].index # 0
        PROVE  \A j \in 0 .. (i + 1) - 1 : bs[(h + j) % n].index # 0
    <2>1. bs[b].index # 0 /\ \A j \in 0 .. i - 1 : bs[(h + j) % n].index # 0
      BY <1>1, <1>3 DEF Carrying
    <2>2. ASSUME NEW j \in 0 .. (i + 1) - 1
          PROVE  bs[(h + j) % n].index # 0
      <3>1. j = i \/ j \in 0 .. i - 1
        OBVIOUS
      <3>2. QED
        BY <2>1, <3>1
    <2>3. QED
      BY <2>2
  <1> HIDE DEF b
  <1>4. CASE s.placed /\ u = s
    BY <1>4 DEF Carrying, u, b
  <1>5. CASE ~s.placed /\ s.buckets[b].index = 0 /\ u.placed /\ u.buckets = [s.buckets EXCEPT ![b] = s.entry]
    <2>1. PICK F : Holds(s.buckets, n, F) /\ Fresh(s.entry, F) /\ F \cup {s.entry} = E \cup {e}
      BY <1>5 DEF Carrying
    <2>2. Holds(u.buckets, n, E \cup {e})
      BY <1>1, <1>5, <2>1, FillsBucket
    <2>3. QED
      BY <1>5, <2>2 DEF Carrying, u, b
  <1>6. CASE ~s.placed /\ s.buckets[b].index # 0 /\ ~u.placed /\ u.buckets = s.buckets /\ u.entry = s.entry
    <2>1. PICK F : Holds(s.buckets, n, F) /\ Fresh(s.entry, F) /\ F \cup {s.entry} = E \cup {e}
      BY <1>6 DEF Carrying
    <2>2. \E G : Holds(u.buckets, n, G) /\ Fresh(u.entry, G) /\ G \cup {u.entry} = E \cup {e}
      BY <1>6, <2>1
    <2>3. \A c \in 0 .. n - 1 : u.buckets[c].index = 0 <=> bs[c].index = 0
      BY <1>6 DEF Carrying
    <2>4. \A j \in 0 .. (i + 1) - 1 : bs[(h + j) % n].index # 0
      BY <1>3, <1>6
    <2>5. QED
      BY <1>6, <2>2, <2>3, <2>4 DEF Carrying, u, b
  <1>7. CASE /\ ~s.placed /\ s.buckets[b].index # 0 /\ ~u.placed
             /\ u.buckets = [s.buckets EXCEPT ![b] = s.entry] /\ u.entry = s.buckets[b]
    <2>1. PICK F : Holds(s.buckets, n, F) /\ Fresh(s.entry, F) /\ F \cup {s.entry} = E \cup {e}
      BY <1>7 DEF Carrying
    <2> DEFINE G == (F \ {s.buckets[b]}) \cup {s.entry}
    <2>2. Holds(u.buckets, n, G) /\ Fresh(u.entry, G) /\ s.buckets[b] \in F
      BY <1>1, <1>7, <2>1, TakesBucket
    <2>3. G \cup {u.entry} = E \cup {e}
      BY <1>7, <2>1, <2>2
    <2> HIDE DEF G
    <2>4. \E K : Holds(u.buckets, n, K) /\ Fresh(u.entry, K) /\ K \cup {u.entry} = E \cup {e}
      BY <2>2, <2>3
    <2>5. ASSUME NEW c \in 0 .. n - 1
          PROVE  u.buckets[c].index = 0 <=> bs[c].index = 0
      <3>1. s.buckets[c].index = 0 <=> bs[c].index = 0
        BY <1>7 DEF Carrying
      <3>2. s.entry.index # 0
        BY <2>1 DEF Fresh
      <3>3. u.buckets[c] = IF c = b THEN s.entry ELSE s.buckets[c]
        BY <1>1, <1>2, <1>7 DEF Table
      <3>4. QED
        BY <1>7, <3>1, <3>2, <3>3
    <2>6. \A j \in 0 .. (i + 1) - 1 : bs[(h + j) % n].index # 0
      BY <1>3, <1>7
    <2>7. QED
      BY <1>7, <2>4, <2>5, <2>6 DEF Carrying, u, b
  <1>8. QED
    BY <1>2, <1>4, <1>5, <1>6, <1>7

\* doInsert puts the entry in, wherever the search for its bucket starts, if there is
\* an empty bucket.
LEMMA Inserted ==
  ASSUME NEW bs, NEW n, NEW E, Holds(bs, n, E), NEW e, Fresh(e, E), NEW h \in Nat, NEW dist \in Int,
         \E b \in 0 .. n - 1 : bs[b].index = 0
  PROVE  Holds(DoInsert(bs, e, h, dist), n, E \cup {e})
  <1>1. n \in Nat \ {0} /\ bs \in Table(n) /\ e \in Slot
    BY DEF Holds, Fresh
  <1>2. PICK f : Loop(f, n, bs, e, h, dist)
    BY <1>1, InsertStates
  <1> DEFINE T == {i \in Nat : i <= n => Carrying(f[i], i, n, h, bs, E, e)}
  <1>3. 0 \in T
    <2>1. f[0].buckets = bs /\ f[0].entry = e /\ ~f[0].placed
      BY <1>2 DEF Loop
    <2>2. \E F : Holds(bs, n, F) /\ Fresh(e, F) /\ F \cup {e} = E \cup {e}
      OBVIOUS
    <2>3. \A j \in 0 .. 0 - 1 : FALSE
      OBVIOUS
    <2>4. Carrying(f[0], 0, n, h, bs, E, e)
      BY <2>1, <2>2, <2>3 DEF Carrying
    <2>5. QED
      BY <2>4
  <1>4. ASSUME NEW i \in Nat, i \in T
        PROVE  i + 1 \in T
    <2>1. SUFFICES ASSUME i + 1 <= n
                   PROVE  Carrying(f[i + 1], i + 1, n, h, bs, E, e)
      OBVIOUS
    <2>2. Carrying(f[i], i, n, h, bs, E, e) /\ f[i] \in State(n) /\ f[i + 1] = Visited(f[i], (h + i) % n)
      <3>1. i \in 0 .. n /\ i \in 0 .. n - 1 /\ i <= n
        BY <1>1, <2>1
      <3>2. QED
        BY <1>2, <1>4, <3>1 DEF Loop
    <2>3. QED
      BY <1>1, <2>2, CarryingStep
  <1>5. n \in T
    <2> HIDE DEF T
    <2>1. QED
      BY <1>1, <1>3, <1>4, NatSetInduction
  <1>6. Carrying(f[n], n, n, h, bs, E, e)
    BY <1>1, <1>5
  <1>7. f[n].placed
    <2>1. SUFFICES ASSUME ~f[n].placed
                   PROVE  FALSE
      OBVIOUS
    <2>2. \A j \in 0 .. n - 1 : bs[(h + j) % n].index # 0
      BY <1>6, <2>1 DEF Carrying
    <2>3. PICK b \in 0 .. n - 1 : bs[b].index = 0
      OBVIOUS
    <2>4. PICK j \in 0 .. n - 1 : (h + j) % n = b
      BY <1>1, AroundReaches
    <2>5. QED
      BY <2>2, <2>3, <2>4
  <1>8. QED
    BY <1>2, <1>6, <1>7 DEF Carrying, Loop

-----------------------------------------------------------------------------
(***************************************************************************)
(* insertionRehash.                                                        *)
(***************************************************************************)
\* A new table holds nothing.
LEMMA ClearedHolds ==
  ASSUME NEW n \in Nat
  PROVE  Holds(Cleared(n), n, {}) /\ \A b \in 0 .. n - 1 : Cleared(n)[b].index = 0
  <1>1. Empty \in Slot /\ Empty.index = 0
    BY DEF Empty, Slot
  <1>2. Cleared(n) \in Table(n) /\ \A b \in 0 .. n - 1 : Cleared(n)[b] = Empty
    BY <1>1 DEF Cleared, Table
  <1>3. QED
    BY <1>1, <1>2 DEF Holds

\* doInsert leaves a table of the same size.
LEMMA DoInsertType ==
  ASSUME NEW n \in Nat \ {0}, NEW bs \in Table(n), NEW e \in Slot, NEW h \in Nat, NEW dist \in Int
  PROVE  DoInsert(bs, e, h, dist) \in Table(n)
  <1>1. PICK f : Loop(f, n, bs, e, h, dist)
    BY InsertStates
  <1>2. f[n] \in State(n) /\ DoInsert(bs, e, h, dist) = f[n].buckets
    BY <1>1 DEF Loop
  <1>3. QED
    BY <1>2 DEF State

\* The loop that carries the entries over, as a sequence of tables.
CarryLoop(f, n, head) ==
  /\ f \in [0 .. n -> Table(2 * n)]
  /\ f[0] = Cleared(2 * n)
  /\ \A i \in 0 .. n - 1 :
       f[i + 1] = LET e == buckets[(head + i) % n]
                  IN  IF e.index = 0 THEN f[i] ELSE DoInsert(f[i], e, e.hash, 0)
  /\ Rehashed = f[n]

\* The first entry at home is in a bucket.
LEMMA FirstHead ==
  ASSUME NEW n \in Nat, buckets \in Table(n), Heads # {}
  PROVE  Min(Heads) \in 0 .. n - 1
  <1>1. Heads \subseteq 0 .. n - 1
    BY CountOf DEF Heads
  <1>2. Heads \subseteq Nat
    BY <1>1
  <1> DEFINE S == Heads
  <1>3. \E x \in S : \A y \in S : x <= y
    <2>1. S \subseteq Nat /\ S # {}
      BY <1>2
    <2> HIDE DEF S
    <2>2. QED
      BY <2>1, NatMin
  <1> HIDE DEF S
  <1>4. Min(S) \in S
    BY <1>3 DEF Min
  <1>5. QED
    BY <1>1, <1>4 DEF S

\* There is such a sequence.
LEMMA RehashStates ==
  ASSUME NEW n \in Nat \ {0}, buckets \in Table(n), Heads # {}, values # <<>>
  PROVE  \E f : CarryLoop(f, n, Min(Heads))
  <1> DEFINE head == Min(Heads)
             N == 2 * n
             at(i) == buckets[(head + i) % n]
             carry(c, i) == IF at(i).index = 0 THEN c ELSE DoInsert(c, at(i), at(i).hash, 0)
             step == [x \in Table(N) \X (0 .. n - 1) |-> carry(x[1], x[2])]
             a == Cleared(N)
             Body(f) == [i \in 0 .. n |-> IF i = 0 THEN a ELSE carry(f[i - 1], i - 1)]
             carried == CHOOSE f : f = Body(f)
  <1>1. Rehashed = carried[n]
    <2>1. Count(buckets) = n
      BY CountOf
    <2>2. QED
      BY <2>1 DEF Rehashed, Bucket
  <1>2. head \in Nat /\ N \in Nat \ {0}
    BY FirstHead
  <1>3. \A i \in 0 .. n - 1 : at(i) \in Slot
    <2>1. ASSUME NEW i \in 0 .. n - 1
          PROVE  at(i) \in Slot
      <3> HIDE DEF head
      <3>1. (head + i) % n \in 0 .. n - 1
        BY <1>2, AroundType
      <3>2. QED
        BY <3>1 DEF Table
    <2>2. QED
      BY <2>1
  <1> HIDE DEF at
  <1>4. ASSUME NEW c \in Table(N), NEW i \in 0 .. n - 1
        PROVE  carry(c, i) \in Table(N)
    <2>1. at(i) \in Slot /\ at(i).hash \in Nat
      BY <1>3 DEF Slot
    <2> HIDE DEF N
    <2>2. DoInsert(c, at(i), at(i).hash, 0) \in Table(N)
      <3> DEFINE e == at(i)
                 h == e.hash
      <3>1. e \in Slot /\ h \in Nat /\ 0 \in Int
        BY <2>1
      <3> HIDE DEF e, h
      <3>2. DoInsert(c, e, h, 0) \in Table(N)
        BY <1>2, <3>1, DoInsertType
      <3>3. QED
        BY <3>2 DEF e, h
    <2>3. QED
      BY <2>2
  <1> HIDE DEF N
  <1>5. a \in Table(N)
    BY <1>2, ClearedHolds DEF Holds
  <1> HIDE DEF carry, a
  <1>6. step \in [Table(N) \X (0 .. n - 1) -> Table(N)]
    <2>1. ASSUME NEW x \in Table(N) \X (0 .. n - 1)
          PROVE  carry(x[1], x[2]) \in Table(N)
      BY <1>4
    <2>2. QED
      BY <2>1
  <1>7. PICK f \in [0 .. n -> Table(N)] : Iteration(f, n, a, step)
    <2> HIDE DEF step
    <2>1. QED
      BY <1>5, <1>6, IterationExists
  <1>8. f = Body(f)
    <2>1. f = [i \in 0 .. n |-> IF i = 0 THEN a ELSE step[<<f[i - 1], i - 1>>]]
      BY <1>7 DEF Iteration
    <2>2. ASSUME NEW i \in 0 .. n, i # 0
          PROVE  step[<<f[i - 1], i - 1>>] = carry(f[i - 1], i - 1)
      <3>1. i - 1 \in 0 .. n - 1 /\ i - 1 \in 0 .. n
        BY <2>2
      <3>2. <<f[i - 1], i - 1>> \in Table(N) \X (0 .. n - 1)
        BY <3>1
      <3>3. QED
        BY <3>2
    <2> HIDE DEF step
    <2>3. QED
      BY <2>1, <2>2
  <1>9. carried = Body(carried)
    <2> HIDE DEF Body
    <2>1. QED
      BY <1>8
  <1> HIDE DEF carried
  <1>10. carried[0] = a
    BY <1>9
  <1>11. ASSUME NEW i \in 0 .. n - 1
         PROVE  carried[i + 1] = carry(carried[i], i)
    <2>1. i + 1 \in 0 .. n /\ i + 1 # 0 /\ (i + 1) - 1 = i
      OBVIOUS
    <2>2. QED
      BY <1>9, <2>1
  <1>12. carried \in [0 .. n -> Table(N)]
    <2> DEFINE T == {i \in Nat : i <= n => carried[i] \in Table(N)}
    <2>1. 0 \in T
      BY <1>5, <1>10
    <2>2. ASSUME NEW i \in Nat, i \in T
          PROVE  i + 1 \in T
      <3>1. SUFFICES ASSUME i + 1 <= n
                     PROVE  carried[i + 1] \in Table(N)
        OBVIOUS
      <3>2. carried[i] \in Table(N) /\ i \in 0 .. n - 1
        BY <2>2, <3>1
      <3>3. QED
        BY <1>4, <1>11, <3>2
    <2>3. \A i \in Nat : i \in T
      <3> HIDE DEF T
      <3>1. QED
        BY <2>1, <2>2, NatSetInduction
    <2>4. \A i \in 0 .. n : carried[i] \in Table(N)
      BY <2>3
    <2>5. carried = [i \in 0 .. n |-> carried[i]]
      BY <1>9
    <2>6. QED
      BY <2>4, <2>5
  <1>13. CarryLoop(carried, n, head)
    BY <1>1, <1>10, <1>11, <1>12 DEF CarryLoop, a, N, carry, at
  <1>14. QED
    BY <1>13

\* The larger table holds the same entries.
LEMMA RehashHolds ==
  ASSUME NEW n, NEW E, Holds(buckets, n, E), Heads # {}, values # <<>>,
         NEW m \in Nat, m < n, \A e \in E : e.index <= m
  PROVE  Holds(Rehashed, 2 * n, E)
  <1> DEFINE head == Min(Heads)
             at(i) == buckets[(head + i) % n]
             Part(i) == {e \in E : \E j \in 0 .. i - 1 : e = at(j)}
  <1>1. n \in Nat \ {0} /\ buckets \in Table(n) /\ head \in Nat /\ E \subseteq Slot
    BY FirstHead DEF Holds
  <1>2. PICK f : CarryLoop(f, n, head)
    BY <1>1, RehashStates
  <1> HIDE DEF head
  <1>3. \A i \in Nat : (head + i) % n \in 0 .. n - 1
    BY <1>1, AroundType
  <1>4. \A i, j \in 0 .. n - 1 : (head + i) % n = (head + j) % n => i = j
    BY <1>1, AroundOnce
  <1>5. ASSUME NEW i \in Nat
        PROVE  at(i) \in Slot /\ (at(i).index # 0 => at(i) \in E)
    BY <1>1, <1>3 DEF Holds, Table
  <1>6. ASSUME NEW i \in 0 .. n - 1, NEW j \in 0 .. n - 1, at(i).index # 0, at(i).index = at(j).index
        PROVE  i = j
    <2> DEFINE b == (head + i) % n
               c == (head + j) % n
    <2>1. b \in 0 .. n - 1 /\ c \in 0 .. n - 1
      BY <1>3
    <2>2. buckets[b].index # 0 /\ buckets[b].index = buckets[c].index
      BY <1>6
    <2> HIDE DEF b, c
    <2>3. b = c
      BY <2>1, <2>2 DEF Holds
    <2>4. QED
      BY <1>4, <2>3 DEF b, c
  <1> HIDE DEF at
  <1> DEFINE T == {i \in Nat : i <= n => Holds(f[i], 2 * n, Part(i))}
  <1>7. 0 \in T
    <2>1. Part(0) = {}
      OBVIOUS
    <2>2. 2 * n \in Nat /\ f[0] = Cleared(2 * n)
      BY <1>1, <1>2 DEF CarryLoop
    <2>3. Holds(f[0], 2 * n, {})
      BY <2>2, ClearedHolds
    <2>4. QED
      BY <2>1, <2>3
  <1>8. ASSUME NEW i \in Nat, i \in T
        PROVE  i + 1 \in T
    <2>1. SUFFICES ASSUME i + 1 <= n
                   PROVE  Holds(f[i + 1], 2 * n, Part(i + 1))
      OBVIOUS
    <2>2. Holds(f[i], 2 * n, Part(i)) /\ i \in 0 .. n - 1
      BY <1>1, <1>8, <2>1
    <2> DEFINE e == at(i)
               h == e.hash
    <2>3. f[i + 1] = IF e.index = 0 THEN f[i] ELSE DoInsert(f[i], e, h, 0)
      BY <1>2, <2>2 DEF CarryLoop, at
    <2>4. e \in Slot /\ (e.index # 0 => e \in E) /\ h \in Nat
      <3>1. e \in Slot /\ (e.index # 0 => e \in E)
        BY <1>5
      <3>2. QED
        BY <3>1 DEF Slot
    <2>5. Part(i + 1) = Part(i) \cup {x \in E : x = e}
      <3>1. ASSUME NEW x \in E
            PROVE  x \in Part(i + 1) <=> x \in Part(i) \/ x = e
        <4>1. \A j \in 0 .. (i + 1) - 1 : j \in 0 .. i - 1 \/ j = i
          OBVIOUS
        <4>2. i \in 0 .. (i + 1) - 1 /\ \A j \in 0 .. i - 1 : j \in 0 .. (i + 1) - 1
          OBVIOUS
        <4>3. QED
          BY <4>1, <4>2
      <3>2. QED
        BY <3>1
    <2>6. CASE e.index = 0
      <3>1. e \notin E
        BY <2>6 DEF Holds
      <3>2. Part(i + 1) = Part(i)
        BY <2>5, <3>1
      <3>3. QED
        BY <2>2, <2>3, <2>6, <3>2
    <2>7. CASE e.index # 0
      <3>1. \A x \in Part(i) : x.index # e.index
        <4>1. ASSUME NEW j \in 0 .. i - 1
              PROVE  at(j).index # e.index
          <5>1. j \in 0 .. n - 1 /\ i \in 0 .. n - 1 /\ i # j
            BY <1>1, <2>1, <2>2
          <5>2. QED
            BY <1>6, <2>7, <5>1
        <4>2. QED
          BY <4>1
      <3>2. Part(i) \subseteq E /\ \A x \in Part(i) : x.index <= m
        OBVIOUS
      <3>3. Part(i + 1) = Part(i) \cup {e}
        BY <2>4, <2>5, <2>7
      <3>4. f[i + 1] = DoInsert(f[i], e, h, 0)
        BY <2>3, <2>7
      <3> DEFINE N == 2 * n
                 P == Part(i)
                 c == f[i]
      <3>5. Fresh(e, P)
        BY <2>4, <2>7, <3>1 DEF Fresh
      <3>6. m < N /\ Holds(c, N, P) /\ \A x \in P : x.index <= m
        BY <1>1, <2>2, <3>2
      <3> HIDE DEF N, P, c, e, h
      <3>7. \E b \in 0 .. N - 1 : c[b].index = 0
        BY <3>6, EmptyBucket
      <3>8. Holds(DoInsert(c, e, h, 0), N, P \cup {e})
        BY <2>4, <3>5, <3>6, <3>7, Inserted
      <3>9. QED
        BY <3>3, <3>4, <3>8 DEF N, P, c
    <2>8. QED
      BY <2>6, <2>7
  <1>9. n \in T
    <2> HIDE DEF T
    <2>1. QED
      BY <1>1, <1>7, <1>8, NatSetInduction
  <1>10. Holds(f[n], 2 * n, Part(n))
    BY <1>1, <1>9
  <1>11. Part(n) = E
    <2>1. ASSUME NEW x \in E
          PROVE  \E j \in 0 .. n - 1 : x = at(j)
      <3>1. PICK b \in 0 .. n - 1 : buckets[b] = x
        BY DEF Holds
      <3>2. PICK j \in 0 .. n - 1 : (head + j) % n = b
        BY <1>1, AroundReaches
      <3>3. QED
        BY <3>1, <3>2 DEF at
    <2>2. QED
      BY <2>1
  <1>12. Rehashed = f[n]
    BY <1>2 DEF CarryLoop
  <1>13. QED
    BY <1>10, <1>11, <1>12

-----------------------------------------------------------------------------
(***************************************************************************)
(* erase_hash.                                                             *)
(***************************************************************************)
\* After no step one is where one was.
LEMMA AroundStart ==
  ASSUME NEW n \in Nat \ {0}, NEW b \in 0 .. n - 1
  PROVE  (b + 0) % n = b
  <1> DEFINE q == 0
  <1>1. q \in Int /\ b + 0 = n * q + b
    OBVIOUS
  <1> HIDE DEF q
  <1>2. (n * q + b) % n = b
    BY <1>1, IsRemainder
  <1>3. QED
    BY <1>1, <1>2, ZenonT(60)

\* The least of some numbers.
LEMMA MinFacts ==
  ASSUME NEW S, S \subseteq Nat, S # {}
  PROVE  Min(S) \in S /\ \A y \in S : Min(S) <= y
  <1>1. \E x \in S : \A y \in S : x <= y
    BY NatMin
  <1>2. QED
    BY <1>1 DEF Min

\* The table after the shift, seen from b on: those up to the last of the run take the
\* place of the one before.
MovedBack(bs, cs, b, n, last) ==
  /\ last \in 0 .. n - 1 /\ cs \in Table(n)
  /\ \A i \in 0 .. n - 1 : cs[(b + i) % n] = IF i = last THEN Empty
                                             ELSE IF i < last THEN bs[(b + (i + 1)) % n] ELSE bs[(b + i) % n]

\* What the shift leaves.
LEMMA ShiftedTable ==
  ASSUME NEW n \in Nat \ {0}, buckets \in Table(n), NEW b \in 0 .. n - 1, buckets[b].index # 0,
         \E c \in 0 .. n - 1 : buckets[c].index = 0
  PROVE  \E last : MovedBack(buckets, Shifted(b), b, n, last)
  <1> DEFINE at(s) == (b + s) % n
             S == {s \in 1 .. n : IsEmpty(buckets, at(s)) \/ Distance(buckets, at(s)) = 0}
             stop == Min(S)
             cs == [c \in 0 .. n - 1 |->
                      IF c = at(stop - 1) THEN Empty
                      ELSE IF \E s \in 0 .. stop - 2 : c = at(s) THEN buckets[(c + 1) % n]
                      ELSE buckets[c]]
  <1>1. Shifted(b) = cs
    BY CountOf, ZenonT(150) DEF Shifted, Bucket
  <1>2. S # {}
    <2>1. PICK c \in 0 .. n - 1 : buckets[c].index = 0
      OBVIOUS
    <2>2. PICK j \in 0 .. n - 1 : at(j) = c
      <3>1. b \in Nat
        OBVIOUS
      <3>2. QED
        BY <3>1, AroundReaches
    <2>3. j # 0
      <3>1. at(0) = b
        BY AroundStart
      <3> HIDE DEF at
      <3>2. QED
        BY <2>1, <2>2, <3>1, ZenonT(60)
    <2>4. j \in 1 .. n /\ IsEmpty(buckets, at(j))
      BY <2>1, <2>2, <2>3 DEF IsEmpty
    <2>5. QED
      BY <2>4
  <1>3. stop \in 1 .. n
    <2>1. S \subseteq Nat /\ S \subseteq 1 .. n
      OBVIOUS
    <2> HIDE DEF S
    <2>2. QED
      BY <1>2, <2>1, MinFacts
  <1> HIDE DEF S, stop
  <1> DEFINE last == stop - 1
  <1>4. last \in 0 .. n - 1 /\ stop - 2 = last - 1
    BY <1>3
  <1>5. \A i \in Nat : at(i) \in 0 .. n - 1
    BY AroundType
  <1>6. \A i, j \in 0 .. n - 1 : at(i) = at(j) => i = j
    <2>1. ASSUME NEW i \in 0 .. n - 1, NEW j \in 0 .. n - 1, at(i) = at(j)
          PROVE  i = j
      <3>1. b \in Nat
        OBVIOUS
      <3>2. QED
        BY <2>1, <3>1, AroundOnce
    <2>2. QED
      BY <2>1
  <1>7. \A i \in Nat : (at(i) + 1) % n = at(i + 1)
    BY AroundNext
  <1> HIDE DEF at
  <1>8. cs \in Table(n)
    <2>1. Empty \in Slot
      BY DEF Empty, Slot
    <2>2. ASSUME NEW c \in 0 .. n - 1
          PROVE  (c + 1) % n \in 0 .. n - 1
      BY AroundType
    <2>3. \A c \in 0 .. n - 1 : buckets[c] \in Slot
      BY DEF Table
    <2>4. QED
      BY <2>1, <2>2, <2>3 DEF Table
  <1>9. ASSUME NEW i \in 0 .. n - 1
        PROVE  cs[at(i)] = IF i = last THEN Empty ELSE IF i < last THEN buckets[at(i + 1)] ELSE buckets[at(i)]
    <2>1. at(i) \in 0 .. n - 1
      BY <1>5
    <2>2. cs[at(i)] = IF at(i) = at(last) THEN Empty
                      ELSE IF \E s \in 0 .. stop - 2 : at(i) = at(s) THEN buckets[(at(i) + 1) % n]
                      ELSE buckets[at(i)]
      BY <2>1
    <2> HIDE DEF cs
    <2>3. at(i) = at(last) <=> i = last
      BY <1>4, <1>6
    <2>4. (\E s \in 0 .. stop - 2 : at(i) = at(s)) <=> i < last
      <3>1. ASSUME NEW s \in 0 .. stop - 2, at(i) = at(s)
            PROVE  i < last
        <4>1. s \in 0 .. n - 1
          BY <1>4
        <4>2. i = s
          BY <1>6, <3>1, <4>1
        <4>3. QED
          BY <1>4, <4>2
      <3>2. ASSUME i < last
            PROVE  i \in 0 .. stop - 2
        BY <1>4, <3>2
      <3>3. QED
        BY <3>1, <3>2
    <2>5. (at(i) + 1) % n = at(i + 1)
      BY <1>7
    <2> HIDE DEF last
    <2>6. QED
      BY <2>2, <2>3, <2>4, <2>5, ZenonT(60)
  <1>10. MovedBack(buckets, cs, b, n, last)
    <2> HIDE DEF cs, last
    <2>1. QED
      BY <1>4, <1>8, <1>9 DEF MovedBack, at
  <1>11. QED
    BY <1>1, <1>10

\* The first entry is gone, and the others are still in one bucket each.
LEMMA MovedBackHolds ==
  ASSUME NEW bs, NEW n, NEW E, Holds(bs, n, E), NEW b \in 0 .. n - 1, bs[b].index # 0,
         NEW cs, NEW last, MovedBack(bs, cs, b, n, last)
  PROVE  Holds(cs, n, E \ {bs[b]})
  <1> DEFINE old(i) == bs[(b + i) % n]
             new(i) == cs[(b + i) % n]
             from(i) == IF i < last THEN i + 1 ELSE i
  <1>1. n \in Nat \ {0} /\ bs \in Table(n) /\ cs \in Table(n) /\ last \in 0 .. n - 1 /\ E \subseteq Slot
    BY DEF Holds, MovedBack
  <1>2. old(0) = bs[b]
    <2>1. (b + 0) % n = b
      BY <1>1, AroundStart
    <2>2. QED
      BY <2>1
  <1>3. \A c \in 0 .. n - 1 : \E i \in 0 .. n - 1 : (b + i) % n = c
    <2>1. b \in Nat
      OBVIOUS
    <2>2. QED
      BY <1>1, <2>1, AroundReaches
  <1>4. \A i \in 0 .. n - 1 : (b + i) % n \in 0 .. n - 1
    BY <1>1, AroundType
  <1>5. ASSUME NEW i \in 0 .. n - 1
        PROVE  old(i) \in Slot /\ (old(i).index # 0 => old(i) \in E)
    BY <1>1, <1>4 DEF Table, Holds
  <1>6. ASSUME NEW i \in 0 .. n - 1, NEW j \in 0 .. n - 1, old(i).index # 0, old(i).index = old(j).index
        PROVE  i = j
    <2> DEFINE c == (b + i) % n
               d == (b + j) % n
    <2>1. c \in 0 .. n - 1 /\ d \in 0 .. n - 1 /\ bs[c].index # 0 /\ bs[c].index = bs[d].index
      BY <1>4, <1>6
    <2> HIDE DEF c, d
    <2>2. c = d
      BY <2>1 DEF Holds
    <2>3. (b + i) % n = (b + j) % n /\ b \in Nat
      BY <2>2 DEF c, d
    <2>4. QED
      BY <1>1, <2>3, AroundOnce
  <1>7. ASSUME NEW i \in 0 .. n - 1
        PROVE  /\ i = last => new(i).index = 0
               /\ i # last => new(i) = old(from(i)) /\ from(i) \in 1 .. n - 1
    <2>1. new(i) = IF i = last THEN Empty ELSE IF i < last THEN bs[(b + (i + 1)) % n] ELSE bs[(b + i) % n]
      BY DEF MovedBack
    <2>2. Empty.index = 0
      BY DEF Empty
    <2>3. CASE i = last
      BY <2>1, <2>2, <2>3
    <2>4. CASE i < last
      <3>1. from(i) = i + 1 /\ from(i) \in 1 .. n - 1 /\ i # last
        BY <1>1, <2>4
      <3>2. new(i) = bs[(b + (i + 1)) % n]
        BY <2>1, <2>4, <3>1
      <3>3. QED
        BY <3>1, <3>2
    <2>5. CASE i > last
      <3>1. from(i) = i /\ from(i) \in 1 .. n - 1 /\ i # last /\ ~(i < last)
        BY <1>1, <2>5
      <3>2. new(i) = bs[(b + i) % n]
        BY <2>1, <3>1
      <3>3. QED
        BY <3>1, <3>2
    <2>6. QED
      BY <1>1, <2>3, <2>4, <2>5
  <1>8. \A k \in 1 .. n - 1 : \E i \in 0 .. n - 1 : i # last /\ from(i) = k
    <2>1. ASSUME NEW k \in 1 .. n - 1
          PROVE  \E i \in 0 .. n - 1 : i # last /\ from(i) = k
      <3>1. CASE k <= last
        <4>1. k - 1 \in 0 .. n - 1 /\ k - 1 < last /\ k - 1 # last /\ (k - 1) + 1 = k
          BY <1>1, <3>1
        <4>2. QED
          BY <4>1
      <3>2. CASE k > last
        <4>1. k \in 0 .. n - 1 /\ ~(k < last) /\ k # last
          BY <1>1, <3>2
        <4>2. QED
          BY <4>1
      <3>3. QED
        BY <1>1, <3>1, <3>2
    <2>2. QED
      BY <2>1
  <1>9. ASSUME NEW i \in 0 .. n - 1, NEW j \in 0 .. n - 1, i # last, j # last, from(i) = from(j)
        PROVE  i = j
    BY <1>1, <1>9
  <1> HIDE DEF old, new, from
  <1>10. ASSUME NEW c \in 0 .. n - 1
         PROVE  \E i \in 0 .. n - 1 : cs[c] = new(i) /\ (b + i) % n = c
    BY <1>3 DEF new
  <1>11. ASSUME NEW c \in 0 .. n - 1, cs[c].index # 0
         PROVE  cs[c] \in E \ {bs[b]}
    <2>1. PICK i \in 0 .. n - 1 : cs[c] = new(i)
      BY <1>10
    <2>2. i # last /\ new(i) = old(from(i)) /\ from(i) \in 1 .. n - 1
      BY <1>7, <1>11, <2>1
    <2>3. from(i) \in 0 .. n - 1 /\ 0 \in 0 .. n - 1 /\ from(i) # 0
      BY <1>1, <2>2
    <2>4. old(from(i)) # old(0)
      <3> DEFINE k == from(i)
      <3>1. k \in 0 .. n - 1 /\ 0 \in 0 .. n - 1 /\ k # 0 /\ old(k).index # 0
        BY <1>11, <2>1, <2>2, <2>3
      <3> HIDE DEF k
      <3>2. old(k) # old(0)
        BY <1>6, <3>1
      <3>3. QED
        BY <3>2 DEF k
    <2>5. QED
      BY <1>2, <1>5, <1>11, <2>1, <2>2, <2>3, <2>4
  <1>12. ASSUME NEW e \in E \ {bs[b]}
         PROVE  e.index # 0 /\ \E c \in 0 .. n - 1 : cs[c] = e
    <2>1. e.index # 0 /\ \E c \in 0 .. n - 1 : bs[c] = e
      BY DEF Holds
    <2>2. PICK k \in 0 .. n - 1 : old(k) = e
      BY <1>3, <2>1 DEF old
    <2>3. k # 0
      BY <1>2, <2>2
    <2>4. k \in 1 .. n - 1
      BY <2>3
    <2>5. PICK i \in 0 .. n - 1 : i # last /\ from(i) = k
      BY <1>8, <2>4
    <2>6. new(i) = e
      BY <1>7, <2>2, <2>5
    <2>7. QED
      BY <1>4, <2>1, <2>6 DEF new
  <1>13. ASSUME NEW c \in 0 .. n - 1, NEW d \in 0 .. n - 1, cs[c].index # 0, cs[c].index = cs[d].index
         PROVE  c = d
    <2>1. PICK i \in 0 .. n - 1 : cs[c] = new(i) /\ (b + i) % n = c
      BY <1>10
    <2>2. PICK j \in 0 .. n - 1 : cs[d] = new(j) /\ (b + j) % n = d
      BY <1>10
    <2>3. i # last /\ new(i) = old(from(i)) /\ from(i) \in 0 .. n - 1
      <3>1. i # last /\ new(i) = old(from(i)) /\ from(i) \in 1 .. n - 1
        BY <1>7, <1>13, <2>1
      <3>2. QED
        BY <3>1
    <2>4. j # last /\ new(j) = old(from(j)) /\ from(j) \in 0 .. n - 1
      <3>1. j # last /\ new(j) = old(from(j)) /\ from(j) \in 1 .. n - 1
        BY <1>7, <1>13, <2>2
      <3>2. QED
        BY <3>1
    <2>5. from(i) = from(j)
      BY <1>6, <1>13, <2>1, <2>2, <2>3, <2>4
    <2>6. i = j
      BY <1>9, <2>3, <2>4, <2>5
    <2>7. QED
      BY <2>1, <2>2, <2>6
  <1>14. QED
    BY <1>1, <1>11, <1>12, <1>13 DEF Holds

\* An entry whose index is reduced if it comes after k.
Lowered(e, k) == IF e.index > k THEN [e EXCEPT !.index = @ - 1] ELSE e

\* Entries that differ in their index still do once that of k is gone.
LEMMA LoweredFacts ==
  ASSUME NEW e \in Slot, NEW f \in Slot, NEW k \in Nat \ {0}, e.index # k, f.index # k
  PROVE  /\ Lowered(e, k) \in Slot /\ Lowered(e, k).hash = e.hash
         /\ Lowered(e, k).index = IF e.index > k THEN e.index - 1 ELSE e.index
         /\ Lowered(e, k).index = 0 <=> e.index = 0
         /\ Lowered(e, k).index = Lowered(f, k).index => e.index = f.index
  <1>1. ASSUME NEW x \in Slot
        PROVE  /\ Lowered(x, k).index = IF x.index > k THEN x.index - 1 ELSE x.index
               /\ Lowered(x, k).hash = x.hash /\ Lowered(x, k) \in Slot
    <2>1. x.index \in Nat /\ x.hash \in Nat /\ x = [index |-> x.index, hash |-> x.hash]
      BY DEF Slot
    <2>2. CASE x.index > k
      <3>1. Lowered(x, k) = [index |-> x.index - 1, hash |-> x.hash]
        BY <2>1, <2>2 DEF Lowered
      <3>2. x.index - 1 \in Nat
        BY <2>1, <2>2
      <3>3. QED
        BY <2>1, <2>2, <3>1, <3>2 DEF Slot
    <2>3. CASE ~(x.index > k)
      BY <2>1, <2>3 DEF Lowered
    <2>4. QED
      BY <2>2, <2>3
  <1>2. e.index \in Nat /\ f.index \in Nat
    BY DEF Slot
  <1>3. /\ Lowered(e, k).index = IF e.index > k THEN e.index - 1 ELSE e.index
        /\ Lowered(f, k).index = IF f.index > k THEN f.index - 1 ELSE f.index
        /\ Lowered(e, k) \in Slot /\ Lowered(e, k).hash = e.hash
    BY <1>1
  <1>4. QED
    BY <1>2, <1>3

\* The buckets of the later entries name them as the values do now.
LEMMA WithoutHolds ==
  ASSUME NEW bs, NEW n, NEW E, Holds(bs, n, E), NEW k \in Nat \ {0}, \A e \in E : e.index # k
  PROVE  Holds(Without(bs, k), n, {Lowered(e, k) : e \in E})
  <1> DEFINE cs == [b \in 0 .. n - 1 |-> Lowered(bs[b], k)]
             F == {Lowered(e, k) : e \in E}
  <1>1. n \in Nat /\ bs \in Table(n) /\ E \subseteq Slot
    BY DEF Holds
  <1>2. Without(bs, k) = cs
    BY <1>1, CountOf DEF Without, Lowered
  <1>3. ASSUME NEW b \in 0 .. n - 1
        PROVE  bs[b] \in Slot /\ bs[b].index # k /\ (bs[b].index # 0 => bs[b] \in E)
    BY <1>1 DEF Holds, Table
  <1>4. ASSUME NEW b \in 0 .. n - 1
        PROVE  cs[b] = Lowered(bs[b], k) /\ cs[b] \in Slot /\ (cs[b].index = 0 <=> bs[b].index = 0)
    <2>1. cs[b] = Lowered(bs[b], k)
      OBVIOUS
    <2>2. Lowered(bs[b], k) \in Slot /\ (Lowered(bs[b], k).index = 0 <=> bs[b].index = 0)
      BY <1>3, LoweredFacts
    <2>3. QED
      BY <2>1, <2>2, ZenonT(60)
  <1>5. cs \in Table(n)
    <2>1. \A b \in 0 .. n - 1 : Lowered(bs[b], k) \in Slot
      BY <1>4
    <2>2. QED
      BY <2>1 DEF Table
  <1> HIDE DEF cs
  <1>6. F \subseteq Slot
    BY <1>1, LoweredFacts
  <1>7. ASSUME NEW b \in 0 .. n - 1, cs[b].index # 0
        PROVE  cs[b] \in F
    BY <1>3, <1>4, <1>7
  <1>8. ASSUME NEW x \in F
        PROVE  x.index # 0 /\ \E b \in 0 .. n - 1 : cs[b] = x
    <2>1. PICK e \in E : x = Lowered(e, k)
      OBVIOUS
    <2>2. e.index # 0 /\ \E b \in 0 .. n - 1 : bs[b] = e
      BY DEF Holds
    <2>3. PICK b \in 0 .. n - 1 : bs[b] = e
      BY <2>2
    <2>4. QED
      BY <1>4, <2>1, <2>2, <2>3
  <1>9. ASSUME NEW b \in 0 .. n - 1, NEW c \in 0 .. n - 1, cs[b].index # 0, cs[b].index = cs[c].index
        PROVE  b = c
    <2>1. bs[b].index # 0
      BY <1>4, <1>9
    <2>2. bs[b].index = bs[c].index
      <3> DEFINE x == bs[b]
                 y == bs[c]
      <3>1. x \in Slot /\ y \in Slot /\ x.index # k /\ y.index # k
        BY <1>3
      <3>2. Lowered(x, k).index = Lowered(y, k).index
        BY <1>4, <1>9
      <3> HIDE DEF x, y
      <3>3. x.index = y.index
        BY <3>1, <3>2, LoweredFacts
      <3>4. QED
        BY <3>3 DEF x, y
    <2>3. QED
      BY <2>1, <2>2 DEF Holds
  <1> HIDE DEF F
  <1>10. Holds(cs, n, F)
    BY <1>1, <1>5, <1>6, <1>7, <1>8, <1>9 DEF Holds
  <1>11. QED
    BY <1>2, <1>10 DEF F

\* What is erased from a sequence, at every index.
LEMMA RemoveAtFacts ==
  ASSUME NEW S, NEW s \in Seq(S), NEW k \in 1 .. Len(s)
  PROVE  /\ RemoveAt(s, k) \in Seq(S) /\ Len(RemoveAt(s, k)) = Len(s) - 1
         /\ \A i \in 1 .. Len(s) - 1 : RemoveAt(s, k)[i] = IF i < k THEN s[i] ELSE s[i + 1]
  <1> DEFINE a == SubSeq(s, 1, k - 1)
             c == SubSeq(s, k + 1, Len(s))
  <1>1. Len(s) \in Nat /\ DOMAIN s = 1 .. Len(s)
    OBVIOUS
  <1>2. /\ a \in Seq(S) /\ Len(a) = k - 1 /\ \A i \in 1 .. k - 1 : a[i] = s[i]
    BY <1>1
  <1>3. /\ c \in Seq(S) /\ Len(c) = Len(s) - k
        /\ \A i \in 1 .. Len(s) - k : c[i] = s[k + i]
    <2> DEFINE m == k + 1
               l == Len(s)
    <2>1. m \in Int /\ l \in Int /\ \A i \in m .. l : s[i] \in S
      BY <1>1
    <2>2. /\ l - m + 1 = l - k /\ (IF m <= l THEN l - m + 1 ELSE 0) = l - k
          /\ \A i \in 1 .. l - k : m + i - 1 = k + i
      <3>1. k \in Int /\ l \in Int /\ k <= l /\ m = k + 1
        BY <1>1
      <3> HIDE DEF m, l
      <3>2. l - m + 1 = l - k
        BY <3>1
      <3>3. (IF m <= l THEN l - m + 1 ELSE 0) = l - k
        BY <3>1
      <3>4. ASSUME NEW i \in 1 .. l - k
            PROVE  m + i - 1 = k + i
        BY <3>1
      <3>5. QED
        BY <3>2, <3>3, <3>4
    <2> HIDE DEF m, l
    <2>3. /\ SubSeq(s, m, l) \in Seq(S)
          /\ Len(SubSeq(s, m, l)) = IF m <= l THEN l - m + 1 ELSE 0
          /\ \A i \in 1 .. l - m + 1 : SubSeq(s, m, l)[i] = s[m + i - 1]
      BY <2>1, SubSeqProperties
    <2>4. /\ SubSeq(s, m, l) \in Seq(S) /\ Len(SubSeq(s, m, l)) = l - k
          /\ \A i \in 1 .. l - k : SubSeq(s, m, l)[i] = s[k + i]
      BY <2>2, <2>3, ZenonT(60)
    <2>5. QED
      BY <2>4 DEF m, l
  <1>4. RemoveAt(s, k) = a \o c
    BY DEF RemoveAt
  <1> HIDE DEF a, c
  <1>5. /\ a \o c \in Seq(S) /\ Len(a \o c) = Len(s) - 1
        /\ \A i \in 1 .. Len(s) - 1 : (a \o c)[i] = IF i < k THEN a[i] ELSE c[i - (k - 1)]
    <2>1. /\ a \o c \in Seq(S) /\ Len(a \o c) = Len(a) + Len(c)
          /\ \A i \in 1 .. Len(a) + Len(c) :
               (a \o c)[i] = IF i <= Len(a) THEN a[i] ELSE c[i - Len(a)]
      BY <1>2, <1>3, ConcatProperties
    <2>2. Len(a) + Len(c) = Len(s) - 1 /\ \A i \in 1 .. Len(s) - 1 : i <= k - 1 <=> i < k
      BY <1>1, <1>2, <1>3
    <2>3. QED
      BY <1>2, <2>1, <2>2, ZenonT(60)
  <1>6. ASSUME NEW i \in 1 .. Len(s) - 1
        PROVE  (a \o c)[i] = IF i < k THEN s[i] ELSE s[i + 1]
    <2>1. CASE i < k
      BY <1>2, <1>5, <2>1
    <2>2. CASE ~(i < k)
      <3>1. i - (k - 1) \in 1 .. Len(s) - k /\ k + (i - (k - 1)) = i + 1
        BY <1>1, <2>2
      <3>2. (a \o c)[i] = c[i - (k - 1)]
        BY <1>5, <2>2
      <3>3. c[i - (k - 1)] = s[i + 1]
        BY <1>3, <3>1
      <3>4. QED
        BY <2>2, <3>2, <3>3
    <2>3. QED
      BY <2>1, <2>2
  <1>7. QED
    BY <1>4, <1>5, <1>6

-----------------------------------------------------------------------------
(***************************************************************************)
(* The entries that belong into the buckets.                               *)
(***************************************************************************)
Pair == [key : Keys, value : Values]

EntryOf(h, vs, i) == [index |-> i, hash |-> h[vs[i].key]]
EntriesOf(h, vs)  == {EntryOf(h, vs, i) : i \in 1 .. Len(vs)}

\* Every value has an entry of its own.
LEMMA EntriesType ==
  ASSUME NEW h \in [Keys -> Nat], NEW vs \in Seq(Pair)
  PROVE  /\ Len(vs) \in Nat /\ EntriesOf(h, vs) \subseteq Slot
         /\ \A i \in 1 .. Len(vs) : EntryOf(h, vs, i) \in EntriesOf(h, vs) /\ EntryOf(h, vs, i).index = i
         /\ \A e \in EntriesOf(h, vs) : e.index \in 1 .. Len(vs) /\ e = EntryOf(h, vs, e.index)
  <1>1. Len(vs) \in Nat /\ \A i \in 1 .. Len(vs) : vs[i] \in Pair
    OBVIOUS
  <1>2. ASSUME NEW i \in 1 .. Len(vs)
        PROVE  EntryOf(h, vs, i) \in Slot /\ EntryOf(h, vs, i).index = i
    <2>1. vs[i].key \in Keys /\ i \in Nat
      BY <1>1 DEF Pair
    <2>2. h[vs[i].key] \in Nat
      BY <2>1
    <2>3. QED
      BY <2>1, <2>2 DEF EntryOf, Slot
  <1>3. QED
    BY <1>1, <1>2 DEF EntriesOf

\* Appending a value adds the entry of its key.
LEMMA EntriesAppend ==
  ASSUME NEW h \in [Keys -> Nat], NEW vs \in Seq(Pair), NEW x \in Pair
  PROVE  LET e == [index |-> Len(vs) + 1, hash |-> h[x.key]]
         IN  /\ EntriesOf(h, Append(vs, x)) = EntriesOf(h, vs) \cup {e}
             /\ Fresh(e, EntriesOf(h, vs))
  <1> DEFINE e == [index |-> Len(vs) + 1, hash |-> h[x.key]]
             ws == Append(vs, x)
  <1>1. /\ Len(vs) \in Nat /\ ws \in Seq(Pair) /\ Len(ws) = Len(vs) + 1
        /\ ws[Len(vs) + 1] = x /\ \A i \in 1 .. Len(vs) : ws[i] = vs[i]
    OBVIOUS
  <1> HIDE DEF ws
  <1>2. EntryOf(h, ws, Len(vs) + 1) = e
    BY <1>1 DEF EntryOf
  <1>3. \A i \in 1 .. Len(vs) : EntryOf(h, ws, i) = EntryOf(h, vs, i)
    BY <1>1 DEF EntryOf
  <1>4. 1 .. Len(ws) = 1 .. Len(vs) \cup {Len(vs) + 1}
    BY <1>1
  <1>5. EntriesOf(h, ws) = EntriesOf(h, vs) \cup {e}
    <2> HIDE DEF e
    <2>1. QED
      BY <1>2, <1>3, <1>4, ZenonT(150) DEF EntriesOf
  <1>6. Fresh(e, EntriesOf(h, vs))
    <2>1. e \in Slot /\ e.index = Len(vs) + 1
      <3>1. x.key \in Keys
        BY DEF Pair
      <3>2. QED
        BY <1>1, <3>1 DEF Slot
    <2> HIDE DEF e
    <2>2. \A y \in EntriesOf(h, vs) : y.index \in 1 .. Len(vs)
      BY EntriesType
    <2>3. QED
      BY <1>1, <2>1, <2>2 DEF Fresh
  <1>7. QED
    BY <1>5, <1>6 DEF ws

\* A value of the same key leaves the entries.
LEMMA EntriesAssigned ==
  ASSUME NEW h \in [Keys -> Nat], NEW vs \in Seq(Pair), NEW k \in 1 .. Len(vs), NEW x \in Pair, x.key = vs[k].key,
         NEW ws, ws = [vs EXCEPT ![k] = x]
  PROVE  ws \in Seq(Pair) /\ Len(ws) = Len(vs) /\ EntriesOf(h, ws) = EntriesOf(h, vs)
  <1>1. ws \in Seq(Pair) /\ Len(ws) = Len(vs) /\ \A i \in 1 .. Len(vs) : ws[i].key = vs[i].key
    OBVIOUS
  <1>2. \A i \in 1 .. Len(vs) : EntryOf(h, ws, i) = EntryOf(h, vs, i)
    BY <1>1, ZenonT(60) DEF EntryOf
  <1>3. EntriesOf(h, ws) = EntriesOf(h, vs)
    BY <1>1, <1>2, ZenonT(60) DEF EntriesOf
  <1>4. QED
    BY <1>1, <1>3

\* Erasing a value leaves the entries of the others, with their new indices.
LEMMA EntriesRemoved ==
  ASSUME NEW h \in [Keys -> Nat], NEW vs \in Seq(Pair), NEW k \in 1 .. Len(vs)
  PROVE  LET F == EntriesOf(h, vs) \ {EntryOf(h, vs, k)}
         IN  /\ \A e \in F : e.index # k
             /\ EntriesOf(h, RemoveAt(vs, k)) = {Lowered(e, k) : e \in F}
  <1> DEFINE E == EntriesOf(h, vs)
             F == E \ {EntryOf(h, vs, k)}
             ws == RemoveAt(vs, k)
  <1>1. /\ Len(vs) \in Nat \ {0} /\ E \subseteq Slot
        /\ \A i \in 1 .. Len(vs) : EntryOf(h, vs, i) \in E /\ EntryOf(h, vs, i).index = i
        /\ \A e \in E : e.index \in 1 .. Len(vs) /\ e = EntryOf(h, vs, e.index)
    BY EntriesType
  <1>2. Len(ws) = Len(vs) - 1 /\ \A i \in 1 .. Len(vs) - 1 : ws[i] = IF i < k THEN vs[i] ELSE vs[i + 1]
    BY RemoveAtFacts
  <1>3. \A e \in F : e.index # k
    BY <1>1
  <1> HIDE DEF E, ws
  <1>4. ASSUME NEW j \in 1 .. Len(vs), j # k
        PROVE  LET i == IF j > k THEN j - 1 ELSE j
               IN  /\ i \in 1 .. Len(vs) - 1 /\ EntryOf(h, ws, i) = Lowered(EntryOf(h, vs, j), k)
                   /\ EntryOf(h, vs, j) \in F
    <2> DEFINE e == EntryOf(h, vs, j)
    <2>1. e \in F /\ e.index = j
      BY <1>1, <1>4
    <2>2. e = [index |-> j, hash |-> h[vs[j].key]]
      BY DEF EntryOf
    <2> HIDE DEF e
    <2>3. CASE j > k
      <3>1. j - 1 \in 1 .. Len(vs) - 1 /\ ~(j - 1 < k) /\ (j - 1) + 1 = j
        BY <1>1, <2>3
      <3>2. ws[j - 1] = vs[j]
        BY <1>2, <3>1
      <3>3. EntryOf(h, ws, j - 1) = [index |-> j - 1, hash |-> h[vs[j].key]]
        BY <3>2, ZenonT(60) DEF EntryOf
      <3>4. Lowered(e, k) = [index |-> j - 1, hash |-> h[vs[j].key]]
        BY <2>2, <2>3 DEF Lowered
      <3>5. QED
        BY <2>1, <2>3, <3>1, <3>3, <3>4 DEF e
    <2>4. CASE ~(j > k)
      <3>1. j \in 1 .. Len(vs) - 1 /\ j < k
        BY <1>1, <1>4, <2>4
      <3>2. ws[j] = vs[j]
        BY <1>2, <3>1
      <3>3. EntryOf(h, ws, j) = e
        BY <2>2, <3>2, ZenonT(60) DEF EntryOf
      <3>4. Lowered(e, k) = e
        BY <2>1, <2>4 DEF Lowered
      <3>5. QED
        BY <2>1, <2>4, <3>1, <3>3, <3>4 DEF e
    <2>5. QED
      BY <2>3, <2>4
  <1> HIDE DEF F
  <1>5. ASSUME NEW x \in EntriesOf(h, ws)
        PROVE  \E e \in F : x = Lowered(e, k)
    <2>1. PICK i \in 1 .. Len(vs) - 1 : x = EntryOf(h, ws, i)
      BY <1>2 DEF EntriesOf
    <2> DEFINE j == IF i < k THEN i ELSE i + 1
    <2>2. j \in 1 .. Len(vs) /\ j # k /\ (IF j > k THEN j - 1 ELSE j) = i
      BY <1>1
    <2> HIDE DEF j
    <2>3. EntryOf(h, ws, i) = Lowered(EntryOf(h, vs, j), k) /\ EntryOf(h, vs, j) \in F
      BY <1>4, <2>2
    <2>4. QED
      BY <2>1, <2>3
  <1>6. ASSUME NEW e \in F
        PROVE  Lowered(e, k) \in EntriesOf(h, ws)
    <2> DEFINE j == e.index
    <2>1. j \in 1 .. Len(vs) /\ j # k /\ e = EntryOf(h, vs, j)
      BY <1>1, <1>3 DEF F
    <2> HIDE DEF j
    <2> DEFINE i == IF j > k THEN j - 1 ELSE j
    <2>2. i \in 1 .. Len(vs) - 1 /\ EntryOf(h, ws, i) = Lowered(e, k)
      BY <1>4, <2>1
    <2> HIDE DEF i
    <2>3. QED
      BY <1>2, <2>2 DEF EntriesOf
  <1>7. EntriesOf(h, ws) = {Lowered(e, k) : e \in F}
    BY <1>5, <1>6
  <1>8. QED
    BY <1>3, <1>7 DEF E, F, ws

-----------------------------------------------------------------------------
(***************************************************************************)
(* The invariant: until the buckets are freed, each value has its entry in *)
(* one bucket, and there are more buckets than values.                     *)
(***************************************************************************)
Stored(n) ==
  /\ Holds(buckets, n, EntriesOf(hash, values))
  /\ Len(values) < n \/ (n = 0 /\ values = <<>>)

IInv ==
  /\ program \in Programs
  /\ values \in Seq(Pair) /\ Len(values) <= MaxSize
  /\ status \in {"ok", "null", "overrun", "dangling"}
  /\ status = "dangling" => buckets = Cleared(0)
  /\ status # "dangling" => \E n : Stored(n)

\* What the operations find when they start.
LEMMA Start ==
  ASSUME program \in Programs, values \in Seq(Pair), NEW n, Stored(n)
  PROVE  /\ hash \in [Keys -> Nat] /\ n \in Nat /\ buckets \in Table(n)
         /\ Count(buckets) = n /\ DOMAIN buckets = 0 .. n - 1
         /\ Len(values) \in Nat /\ \A e \in EntriesOf(hash, values) : e.index \in 1 .. Len(values)
         /\ values # <<>> => n \in Nat \ {0} /\ \E b \in 0 .. n - 1 : buckets[b].index = 0
         /\ \A b \in 0 .. n - 1 : buckets[b].index \in 0 .. Len(values) /\ buckets[b].hash \in Nat
  <1>1. hash \in [Keys -> Nat]
    BY ProgramsAssumption DEF hash
  <1>2. n \in Nat /\ buckets \in Table(n) /\ Holds(buckets, n, EntriesOf(hash, values))
    BY DEF Stored, Holds
  <1>3. Count(buckets) = n /\ DOMAIN buckets = 0 .. n - 1
    BY <1>2, CountOf
  <1>4. Len(values) \in Nat /\ \A e \in EntriesOf(hash, values) : e.index \in 1 .. Len(values)
    BY <1>1, EntriesType
  <1>5. values # <<>> => n \in Nat \ {0} /\ \E b \in 0 .. n - 1 : buckets[b].index = 0
    <2> SUFFICES ASSUME values # <<>>
                 PROVE  n \in Nat \ {0} /\ \E b \in 0 .. n - 1 : buckets[b].index = 0
      OBVIOUS
    <2> DEFINE m == Len(values)
               E == EntriesOf(hash, values)
    <2>1. m < n /\ m \in Nat /\ \A e \in E : e.index <= m
      BY <1>4 DEF Stored
    <2>2. Holds(buckets, n, E)
      BY <1>2
    <2> HIDE DEF m, E
    <2>3. \E b \in 0 .. n - 1 : buckets[b].index = 0
      BY <2>1, <2>2, EmptyBucket
    <2>4. QED
      BY <1>2, <2>1, <2>3
  <1>6. ASSUME NEW b \in 0 .. n - 1
        PROVE  buckets[b].index \in 0 .. Len(values) /\ buckets[b].hash \in Nat
    <2>1. buckets[b] \in Slot /\ (buckets[b].index # 0 => buckets[b] \in EntriesOf(hash, values))
      BY <1>2 DEF Holds, Table
    <2>2. QED
      BY <1>4, <2>1 DEF Slot
  <1>7. QED
    BY <1>1, <1>2, <1>3, <1>4, <1>5, <1>6

\* A search that meets an empty bucket ends, within the table.
LEMMA StepsType ==
  ASSUME program \in Programs, values \in Seq(Pair), NEW n, Stored(n), values # <<>>, NEW k \in Keys
  PROVE  Steps(k) \in 0 .. n /\ FoundAt(k) \in 0 .. n - 1 /\ hash[k] \in Nat
  <1>1. /\ n \in Nat \ {0} /\ hash[k] \in Nat /\ Count(buckets) = n
        /\ \E b \in 0 .. n - 1 : buckets[b].index = 0
    BY Start
  <1> DEFINE h == hash[k]
             S == {i \in 0 .. Count(buckets) : LET b == Bucket(buckets, h, i) IN
                                               Searched(buckets, b, i) => Matches(k, b)}
  <1>2. PICK b \in 0 .. n - 1 : buckets[b].index = 0
    BY <1>1
  <1> HIDE DEF h
  <1>3. h \in Nat
    BY <1>1 DEF h
  <1>4. PICK i \in 0 .. n - 1 : (h + i) % n = b
    BY <1>1, <1>3, AroundReaches, ZenonT(150)
  <1>5. i \in S
    <2>1. Bucket(buckets, h, i) = b
      BY <1>1, <1>4 DEF Bucket
    <2>2. ~Searched(buckets, b, i)
      BY <1>2 DEF Searched, IsEmpty
    <2>3. i \in 0 .. Count(buckets)
      BY <1>1
    <2>4. QED
      BY <2>1, <2>2, <2>3
  <1>6. S \subseteq 0 .. n /\ S \subseteq Nat
    BY <1>1
  <1>7. Steps(k) = Min(S)
    BY DEF Steps, h
  <1> HIDE DEF S
  <1>8. Steps(k) \in 0 .. n
    BY <1>5, <1>6, <1>7, MinFacts
  <1>9. FoundAt(k) \in 0 .. n - 1
    <2> DEFINE s == Steps(k)
    <2>1. s \in Nat
      BY <1>1, <1>8
    <2>2. FoundAt(k) = (h + s) % n
      BY <1>1 DEF FoundAt, Bucket, h
    <2> HIDE DEF s
    <2>3. QED
      BY <1>1, <1>3, <2>1, <2>2, AroundType
  <1>10. QED
    BY <1>1, <1>8, <1>9

\* What is found is in a bucket, and has a value.
LEMMA FoundFacts ==
  ASSUME program \in Programs, values \in Seq(Pair), NEW n, Stored(n), NEW k \in Keys, Found(k)
  PROVE  /\ n \in Nat \ {0} /\ FoundAt(k) \in 0 .. n - 1 /\ buckets[FoundAt(k)].index \in 1 .. Len(values)
         /\ buckets[FoundAt(k)] = EntryOf(hash, values, buckets[FoundAt(k)].index)
         /\ \E b \in 0 .. n - 1 : buckets[b].index = 0
  <1> DEFINE b == FoundAt(k)
  <1>1. values # <<>>
    BY DEF Found
  <1>2. n \in Nat \ {0} /\ b \in 0 .. n - 1 /\ \E c \in 0 .. n - 1 : buckets[c].index = 0
    BY <1>1, Start, StepsType
  <1>3. buckets[b].index # 0
    BY DEF Found, Searched, IsEmpty, FoundAt
  <1> HIDE DEF b
  <1>4. buckets[b] \in EntriesOf(hash, values)
    BY <1>2, <1>3 DEF Stored, Holds
  <1>5. hash \in [Keys -> Nat]
    BY Start
  <1>6. buckets[b].index \in 1 .. Len(values) /\ buckets[b] = EntryOf(hash, values, buckets[b].index)
    <2> DEFINE h == hash
               E == EntriesOf(h, values)
    <2>1. \A e \in E : e.index \in 1 .. Len(values) /\ e = EntryOf(h, values, e.index)
      BY <1>5, EntriesType
    <2>2. QED
      BY <1>4, <2>1
  <1>7. QED
    BY <1>2, <1>6 DEF b

\* A table that fits has a bucket more than it needs.
LEMMA FitsBound ==
  ASSUME values \in Seq(Pair), NEW n \in Nat, Fits(n)
  PROVE  Len(values) + 1 < n
  <1> DEFINE a == Len(values) + 1
             q == a \div n
             r == a % n
  <1>1. a \in Nat /\ n \in Nat \ {0}
    BY DEF Fits
  <1>2. q \in Int /\ q < 1
    <2>1. q < 1
      BY DEF Fits
    <2> HIDE DEF a
    <2>2. q \in Int
      BY <1>1, Division
    <2>3. QED
      BY <2>1, <2>2
  <1>3. r \in 0 .. n - 1 /\ a = n * q + r
    <2> HIDE DEF a
    <2>1. a \in Int
      BY <1>1
    <2>2. a % n \in 0 .. n - 1 /\ a = n * (a \div n) + (a % n)
      BY <1>1, <2>1, Division
    <2>3. QED
      BY <2>2, ZenonT(60)
  <1> HIDE DEF a, q, r
  <1>4. CASE q = 0
    <2>1. n * q = 0
      BY <1>1, <1>4
    <2>2. QED
      BY <1>1, <1>3, <2>1 DEF a
  <1>5. CASE q # 0
    <2> DEFINE p == -q
    <2>1. p \in Int /\ p > 0 /\ q = -p
      BY <1>2, <1>5
    <2> HIDE DEF p
    <2>2. n * p >= n
      BY <1>1, <2>1, ProductGrows
    <2>3. n * q = -(n * p) /\ n * p \in Int
      BY <1>1, <2>1
    <2>4. QED
      BY <1>1, <1>2, <1>3, <2>2, <2>3
  <1>6. QED
    BY <1>4, <1>5

-----------------------------------------------------------------------------
(***************************************************************************)
(* The steps.                                                              *)
(***************************************************************************)
\* A new table has neither buckets nor values.
LEMMA IInvInit == Init => IInv
  <1> SUFFICES ASSUME Init
               PROVE  IInv
    OBVIOUS
  <1>1. program \in Programs /\ values = <<>> /\ buckets = Cleared(0) /\ status = "ok"
    BY DEF Init
  <1>2. EntriesOf(hash, values) = {}
    BY <1>1 DEF EntriesOf
  <1>3. Stored(0)
    BY <1>1, <1>2, ClearedHolds DEF Stored
  <1>4. values \in Seq(Pair) /\ Len(values) <= MaxSize
    BY <1>1, MaxSizeAssumption
  <1>5. QED
    BY <1>1, <1>3, <1>4 DEF IInv

\* The table a new entry goes to, the old one or a larger, has room for it.
LEMMA RoomForEntry ==
  ASSUME program \in Programs, values \in Seq(Pair), NEW n, Stored(n),
         ~Fits(Count(buckets)) => values = <<>> \/ Heads # {}
  PROVE  LET table == IF Fits(Count(buckets)) THEN buckets ELSE Rehashed
         IN  \E N \in Nat : Holds(table, N, EntriesOf(hash, values)) /\ Len(values) + 1 < N
  <1> DEFINE E == EntriesOf(hash, values)
  <1>1. n \in Nat /\ Count(buckets) = n /\ Len(values) \in Nat /\ Holds(buckets, n, E)
    BY Start DEF Stored
  <1>2. \A e \in E : e.index <= Len(values)
    BY <1>1, Start
  <1> HIDE DEF E
  <1>3. CASE Fits(n)
    BY <1>1, <1>3, FitsBound DEF E
  <1>4. CASE ~Fits(n) /\ values = <<>>
    <2> DEFINE N == IF n = 0 THEN 2 ELSE 2 * n
    <2>1. N \in Nat /\ Len(values) + 1 < N
      BY <1>1, <1>4
    <2>2. Rehashed = Cleared(N)
      BY <1>1, <1>4 DEF Rehashed
    <2>3. E = {}
      BY <1>4 DEF E, EntriesOf
    <2> HIDE DEF N
    <2>4. Holds(Rehashed, N, E)
      BY <2>1, <2>2, <2>3, ClearedHolds
    <2>5. QED
      BY <1>1, <1>4, <2>1, <2>4 DEF E
  <1>5. CASE ~Fits(n) /\ values # <<>>
    <2> DEFINE N == 2 * n
               m == Len(values)
    <2>1. m < n /\ m \in Nat
      BY <1>1, <1>5 DEF Stored
    <2>2. N \in Nat /\ m + 1 < N
      BY <1>1, <2>1, <1>5
    <2>3. Heads # {}
      BY <1>1, <1>5
    <2> HIDE DEF m
    <2>4. Holds(Rehashed, 2 * n, E)
      BY <1>1, <1>2, <1>5, <2>1, <2>3, RehashHolds DEF m
    <2>5. QED
      BY <1>1, <1>5, <2>2, <2>4 DEF E, m
  <1>6. QED
    BY <1>3, <1>4, <1>5

\* A new entry.
LEMMA NewEntryStep ==
  ASSUME IInv, status = "ok", NEW k \in Keys, NEW v \in Values, NewEntry(k, v), UNCHANGED program
  PROVE  IInv'
  <1> DEFINE E == EntriesOf(hash, values)
             entry == [index |-> Len(values) + 1, hash |-> hash[k]]
             steps == IF values = <<>> THEN 0 ELSE Steps(k)
             fits == Fits(Count(buckets))
             overrun == ~fits /\ values # <<>> /\ Heads = {}
             x == [key |-> k, value |-> v]
  <1>1. /\ program \in Programs /\ values \in Seq(Pair) /\ Len(values) <= MaxSize
        /\ \E n : Stored(n)
    BY DEF IInv
  <1>2. PICK n : Stored(n)
    BY <1>1
  <1>3. hash \in [Keys -> Nat] /\ Len(values) \in Nat /\ n \in Nat
    BY <1>1, <1>2, Start
  <1>4. CASE overrun
    <2>1. status' = "overrun" /\ UNCHANGED <<values, buckets, program>>
      BY <1>4 DEF NewEntry
    <2>2. Stored(n)'
      BY <1>2, <2>1 DEF Stored, hash, Holds
    <2>3. QED
      BY <1>1, <2>1, <2>2 DEF IInv
  <1>5. CASE ~overrun
    <2>1. /\ Len(values) < MaxSize /\ values' = Append(values, x) /\ status' = status
          /\ buckets' = IF fits THEN DoInsert(buckets, entry, hash[k] + steps, steps)
                        ELSE DoInsert(Rehashed, entry, hash[k], 0)
      BY <1>5 DEF NewEntry
    <2> DEFINE table == IF fits THEN buckets ELSE Rehashed
    <2>2. PICK N \in Nat : Holds(table, N, E) /\ Len(values) + 1 < N
      BY <1>1, <1>2, <1>5, RoomForEntry
    <2>3. x \in Pair /\ x.key = k
      BY DEF Pair
    <2>4. Fresh(entry, E) /\ EntriesOf(hash, Append(values, x)) = E \cup {entry}
      <3> HIDE DEF x
      <3>1. QED
        BY <1>1, <1>3, <2>3, EntriesAppend
    <2>5. steps \in Nat /\ hash[k] \in Nat
      <3>1. values # <<>> => Steps(k) \in 0 .. n
        BY <1>1, <1>2, StepsType
      <3>2. QED
        BY <1>3, <3>1
    <2>6. \E b \in 0 .. N - 1 : table[b].index = 0
      <3> DEFINE m == Len(values)
      <3>1. m \in Nat /\ m < N /\ \A e \in E : e.index <= m
        BY <1>1, <1>2, <1>3, <2>2, Start
      <3> HIDE DEF m, E, table
      <3>2. QED
        BY <2>2, <3>1, EmptyBucket
    <2>7. \E h \in Nat, d \in Int : buckets' = DoInsert(table, entry, h, d)
      <3>1. CASE fits
        <4>1. hash[k] + steps \in Nat /\ steps \in Int
          BY <2>5
        <4>2. buckets' = DoInsert(table, entry, hash[k] + steps, steps)
          BY <2>1, <3>1
        <4> HIDE DEF table, entry, steps
        <4>3. QED
          BY <4>1, <4>2
      <3>2. CASE ~fits
        <4>1. buckets' = DoInsert(table, entry, hash[k], 0)
          BY <2>1, <3>2
        <4>2. 0 \in Int
          OBVIOUS
        <4> HIDE DEF table, entry
        <4>3. QED
          BY <2>5, <4>1, <4>2
      <3>3. QED
        BY <3>1, <3>2
    <2>8. PICK h \in Nat, d \in Int : buckets' = DoInsert(table, entry, h, d)
      BY <2>7
    <2>9. Holds(buckets', N, E \cup {entry})
      <3> HIDE DEF table, entry, E
      <3>1. QED
        BY <2>2, <2>4, <2>6, <2>8, Inserted
    <2>10. values' \in Seq(Pair) /\ Len(values') = Len(values) + 1
      BY <1>1, <2>1, <2>3
    <2>11. hash' = hash
      BY DEF hash
    <2>12. EntriesOf(hash', values') = E \cup {entry}
      BY <2>1, <2>4, <2>11, ZenonT(60)
    <2> HIDE DEF E, entry, x, table
    <2>13. Stored(N)'
      BY <2>2, <2>9, <2>10, <2>12 DEF Stored
    <2>14. QED
      BY <1>1, <1>3, <2>1, <2>10, <2>13, MaxSizeAssumption DEF IInv
  <1>6. QED
    BY <1>4, <1>5

\* A new value for a key that is there.
LEMMA AssignStep ==
  ASSUME IInv, status = "ok", NEW k \in Keys, NEW v \in Values, Found(k),
         NEW i, i = buckets[FoundAt(k)].index, values' = [values EXCEPT ![i].value = v],
         UNCHANGED <<program, buckets, status>>
  PROVE  IInv'
  <1>1. /\ program \in Programs /\ values \in Seq(Pair) /\ Len(values) <= MaxSize
        /\ \E n : Stored(n)
    BY DEF IInv
  <1>2. PICK n : Stored(n)
    BY <1>1
  <1>3. hash \in [Keys -> Nat] /\ i \in 1 .. Len(values)
    BY <1>1, <1>2, Start, FoundFacts
  <1>4. values' = [values EXCEPT ![i].value = v]
    BY SMTT(60), Z3T(60)
  <1>5. /\ values' \in Seq(Pair) /\ Len(values') = Len(values)
        /\ EntriesOf(hash, values') = EntriesOf(hash, values)
    <2>1. \A j \in 1 .. Len(values) : values[j] \in Pair
      BY <1>1
    <2> DEFINE x == [values[i] EXCEPT !.value = v]
    <2>2. x \in Pair /\ x.key = values[i].key
      BY <1>3, <2>1 DEF Pair
    <2> HIDE DEF x
    <2>3. values' = [values EXCEPT ![i] = x]
      BY <1>4, ZenonT(60) DEF x
    <2>4. values' \in Seq(Pair) /\ Len(values') = Len(values)
      BY <1>1, <1>3, <2>2, <2>3, EntriesAssigned
    <2>5. ASSUME NEW h \in [Keys -> Nat], NEW ws, ws = [values EXCEPT ![i] = x]
          PROVE  EntriesOf(h, ws) = EntriesOf(h, values)
      BY <1>1, <1>3, <2>2, <2>5, EntriesAssigned, ZenonT(150)
    <2>6. QED
      BY <1>3, <2>3, <2>4, <2>5
  <1>6. hash' = hash
    BY DEF hash
  <1>7. EntriesOf(hash', values') = EntriesOf(hash, values)
    BY <1>5, <1>6, ZenonT(60)
  <1>8. values' = <<>> <=> values = <<>>
    BY <1>1, <1>5
  <1>9. Stored(n)'
    BY <1>2, <1>5, <1>7, <1>8 DEF Stored
  <1>10. QED
    BY <1>1, <1>5, <1>9 DEF IInv

\* erase takes the value and its entry, and no other.
LEMMA EraseStep ==
  ASSUME IInv, NEW k \in Keys, Erase(k)
  PROVE  IInv'
  <1> DEFINE i == buckets[FoundAt(k)].index
             b == FoundAt(k)
             E == EntriesOf(hash, values)
             F == E \ {EntryOf(hash, values, i)}
  <1>1. /\ program \in Programs /\ values \in Seq(Pair) /\ Len(values) <= MaxSize
        /\ status = "ok" /\ \E n : Stored(n) /\ Found(k)
        /\ buckets' = Without(Shifted(b), i) /\ values' = RemoveAt(values, i)
        /\ UNCHANGED <<program, status>>
    BY DEF IInv, Erase
  <1>2. PICK n : Stored(n)
    BY <1>1
  <1>3. /\ n \in Nat \ {0} /\ b \in 0 .. n - 1 /\ i \in 1 .. Len(values)
        /\ buckets[b] = EntryOf(hash, values, i) /\ i = buckets[b].index
        /\ \E c \in 0 .. n - 1 : buckets[c].index = 0
    BY <1>1, <1>2, FoundFacts
  <1>4. hash \in [Keys -> Nat] /\ Len(values) \in Nat /\ buckets \in Table(n) /\ Holds(buckets, n, E)
    BY <1>1, <1>2, Start DEF Stored
  <1>5. /\ \A e \in F : e.index # i
        /\ EntriesOf(hash, RemoveAt(values, i)) = {Lowered(e, i) : e \in F}
    <2> HIDE DEF i
    <2>1. QED
      BY <1>1, <1>3, <1>4, EntriesRemoved
  <1>6. values' \in Seq(Pair) /\ Len(values') = Len(values) - 1
    <2> HIDE DEF i
    <2>1. QED
      BY <1>1, <1>3, RemoveAtFacts
  <1> HIDE DEF i, b, E
  <1>7. i \in Nat \ {0} /\ buckets[b].index # 0
    BY <1>3
  <1>8. PICK last : MovedBack(buckets, Shifted(b), b, n, last)
    BY <1>3, <1>4, <1>7, ShiftedTable
  <1> DEFINE cs == Shifted(b)
  <1>9. Holds(cs, n, E \ {buckets[b]})
    <2>1. MovedBack(buckets, cs, b, n, last)
      BY <1>8
    <2> HIDE DEF cs
    <2>2. QED
      BY <1>3, <1>4, <1>7, <2>1, MovedBackHolds
  <1>10. Holds(cs, n, F)
    BY <1>3, <1>9
  <1> HIDE DEF F, cs
  <1>11. Holds(Without(cs, i), n, {Lowered(e, i) : e \in F})
    BY <1>5, <1>7, <1>10, WithoutHolds
  <1>12. hash' = hash
    BY <1>1 DEF hash
  <1>13. EntriesOf(hash', values') = {Lowered(e, i) : e \in F}
    BY <1>1, <1>5, <1>12, ZenonT(60)
  <1>14. Holds(buckets', n, EntriesOf(hash', values'))
    BY <1>1, <1>11, <1>13, ZenonT(60) DEF cs
  <1>15. Len(values') < n
    BY <1>2, <1>3, <1>4, <1>6 DEF Stored
  <1>16. Stored(n)'
    BY <1>14, <1>15 DEF Stored
  <1>17. QED
    BY <1>1, <1>4, <1>6, <1>16, MaxSizeAssumption DEF IInv

\* Every step keeps the invariant.
LEMMA IInvStep == IInv /\ [Next]_vars => IInv'
  <1> SUFFICES ASSUME IInv, [Next]_vars
               PROVE  IInv'
    OBVIOUS
  <1>1. ASSUME NEW k \in Keys, NEW v \in Values, Insert(k, v)
        PROVE  IInv'
    BY <1>1, NewEntryStep DEF Insert
  <1>2. ASSUME NEW k \in Keys, NEW v \in Values, InsertOrAssign(k, v)
        PROVE  IInv'
    <2>1. CASE Found(k)
      <3> DEFINE i == buckets[FoundAt(k)].index
      <3>1. /\ status = "ok" /\ UNCHANGED <<program, buckets, status>>
            /\ i = buckets[FoundAt(k)].index /\ values' = [values EXCEPT ![i].value = v]
        BY <1>2, <2>1 DEF InsertOrAssign
      <3> HIDE DEF i
      <3>2. QED
        BY <2>1, <3>1, AssignStep
    <2>2. CASE ~Found(k)
      BY <1>2, <2>2, NewEntryStep DEF InsertOrAssign
    <2>3. QED
      BY <2>1, <2>2
  <1>3. ASSUME NEW k \in Keys, Erase(k)
        PROVE  IInv'
    BY <1>3, EraseStep
  <1>4. ASSUME UNCHANGED <<program, values, buckets>>,
               status' \in {"ok", "null", "overrun"} \/ status' = status,
               status # "dangling" \/ status' = status
        PROVE  IInv'
    <2>1. ASSUME NEW n, Stored(n)
          PROVE  Stored(n)'
      BY <1>4, <2>1 DEF Stored, hash
    <2>2. QED
      BY <1>4, <2>1 DEF IInv, Cleared
  <1>5. CASE EraseWithoutBuckets
    BY <1>4, <1>5 DEF EraseWithoutBuckets
  <1>6. CASE Clear
    BY <1>6 DEF Clear, IInv, Cleared, Empty
  <1>7. CASE Halted
    BY <1>4, <1>7 DEF Halted, vars
  <1>8. CASE UNCHANGED vars
    BY <1>4, <1>8 DEF vars
  <1>9. QED
    BY <1>1, <1>2, <1>3, <1>5, <1>6, <1>7, <1>8 DEF Next

\* The invariant holds in every reachable state.
LEMMA Invariance == Spec => []IInv
  <1>1. Init => IInv
    BY IInvInit
  <1>2. IInv /\ [Next]_vars => IInv'
    BY IInvStep
  <1>3. QED
    BY <1>1, <1>2, PTL DEF Spec

-----------------------------------------------------------------------------
(***************************************************************************)
(* What follows.                                                           *)
(***************************************************************************)
\* There are no buckets, or each value has its entry in one.
LEMMA Buckets ==
  ASSUME IInv
  PROVE  IF status = "dangling" THEN buckets = Cleared(0) ELSE \E n : Stored(n)
  BY DEF IInv

\* TypeOK: a bucket names one of the values, or none, whatever the hashes are.
THEOREM TypeCorrect == Spec => []TypeOK
  <1>1. IInv => TypeOK
    <2> SUFFICES ASSUME IInv
                 PROVE  TypeOK
      OBVIOUS
    <2>1. /\ program \in Programs /\ values \in Seq(Pair) /\ Len(values) <= MaxSize
          /\ status \in {"ok", "null", "overrun", "dangling"}
      BY DEF IInv
    <2>2. \A b \in DOMAIN buckets : buckets[b].index \in 0 .. Len(values) /\ buckets[b].hash \in Nat
      <3>1. CASE buckets = Cleared(0)
        BY <3>1 DEF Cleared
      <3>2. CASE \E n : Stored(n)
        BY <2>1, <3>2, Start
      <3>3. QED
        BY <3>1, <3>2, Buckets
    <2>3. QED
      BY <2>1, <2>2 DEF TypeOK, Pair
  <1>2. QED
    BY <1>1, Invariance, PTL

\* SomeBucketIsEmpty: the loops of the search, the insertion and the rehash meet an empty
\* bucket, however often the table grew and whatever was erased from it.
THEOREM EverySearchEnds == Spec => []SomeBucketIsEmpty
  <1>1. IInv => SomeBucketIsEmpty
    <2> SUFFICES ASSUME IInv, buckets # Cleared(0)
                 PROVE  \E b \in DOMAIN buckets : IsEmpty(buckets, b)
      BY DEF SomeBucketIsEmpty
    <2>1. PICK n : Stored(n)
      BY Buckets
    <2>2. program \in Programs /\ values \in Seq(Pair)
      BY DEF IInv
    <2>3. /\ n \in Nat /\ buckets \in Table(n) /\ DOMAIN buckets = 0 .. n - 1
          /\ values # <<>> => \E b \in 0 .. n - 1 : buckets[b].index = 0
      BY <2>1, <2>2, Start
    <2>4. n # 0
      <3>1. ASSUME n = 0
            PROVE  buckets = Cleared(0)
        BY <2>3, <3>1 DEF Table, Cleared
      <3>2. QED
        BY <3>1
    <2>5. CASE values = <<>>
      <3>1. EntriesOf(hash, values) = {}
        BY <2>5 DEF EntriesOf
      <3>2. 0 \in 0 .. n - 1
        BY <2>3, <2>4
      <3>3. buckets[0].index = 0
        BY <2>1, <3>1, <3>2 DEF Stored, Holds
      <3>4. QED
        BY <2>3, <3>2, <3>3 DEF IsEmpty
    <2>6. QED
      BY <2>3, <2>5 DEF IsEmpty
  <1>2. QED
    BY <1>1, Invariance, PTL

\* Until the buckets are freed, each value has its entry, with the hash of its key, in one
\* bucket and in no other: no insertion, rehash, shift or renumbering loses or doubles one.
EntryPerValue ==
  status # "dangling" =>
    \A i \in DOMAIN values : \E b \in DOMAIN buckets :
      /\ buckets[b] = [index |-> i, hash |-> hash[values[i].key]]
      /\ \A c \in DOMAIN buckets : buckets[c].index = i => c = b

\* EntryPerValue holds for every hash function, those whose keys are not found included.
THEOREM EntriesPlaced == Spec => []EntryPerValue
  <1>1. IInv => EntryPerValue
    <2> SUFFICES ASSUME IInv, status # "dangling", NEW i \in DOMAIN values
                 PROVE  \E b \in DOMAIN buckets :
                          /\ buckets[b] = [index |-> i, hash |-> hash[values[i].key]]
                          /\ \A c \in DOMAIN buckets : buckets[c].index = i => c = b
      BY DEF EntryPerValue
    <2>1. PICK n : Stored(n)
      BY Buckets
    <2>2. program \in Programs /\ values \in Seq(Pair)
      BY DEF IInv
    <2>3. hash \in [Keys -> Nat] /\ DOMAIN buckets = 0 .. n - 1 /\ i \in 1 .. Len(values)
      BY <2>1, <2>2, Start
    <2> DEFINE e == EntryOf(hash, values, i)
    <2>4. e \in EntriesOf(hash, values) /\ e.index = i /\ i # 0
      BY <2>3 DEF EntriesOf, EntryOf
    <2>5. e = [index |-> i, hash |-> hash[values[i].key]]
      BY DEF EntryOf
    <2> HIDE DEF e
    <2>6. PICK b \in 0 .. n - 1 : buckets[b] = e
      BY <2>1, <2>4 DEF Stored, Holds
    <2>7. \A c \in 0 .. n - 1 : buckets[c].index = i => c = b
      BY <2>1, <2>4, <2>6 DEF Stored, Holds
    <2>8. QED
      BY <2>3, <2>5, <2>6, <2>7
  <1>2. QED
    BY <1>1, Invariance, PTL

-----------------------------------------------------------------------------
(***************************************************************************)
(* The refinement.                                                         *)
(***************************************************************************)
\* What is found is there.
LEMMA FoundPosition ==
  ASSUME IInv, status = "ok", NEW k \in Keys, Found(k)
  PROVE  buckets[FoundAt(k)].index \in Map!Positions(k)
  <1> DEFINE i == buckets[FoundAt(k)].index
  <1>1. program \in Programs /\ values \in Seq(Pair) /\ \E n : Stored(n)
    BY DEF IInv
  <1>2. PICK n : Stored(n)
    BY <1>1
  <1>3. i \in 1 .. Len(values)
    BY <1>1, <1>2, FoundFacts
  <1>4. values[i].key = k
    BY DEF Found, Matches, FoundAt
  <1> HIDE DEF i
  <1>5. DOMAIN values = 1 .. Len(values)
    BY <1>1
  <1>6. i \in Map!Positions(k)
    BY <1>3, <1>4, <1>5 DEF Map!Positions
  <1>7. QED
    BY <1>6 DEF i

\* If the lookups are right, what is not found is not there.
LEMMA NotFoundPosition ==
  ASSUME FindsEveryKey, status = "ok", NEW k \in Keys, ~Found(k)
  PROVE  Map!Positions(k) = {}
  BY DEF FindsEveryKey, Map!Positions

\* If the lookups are right, a step is one of the map or leaves it alone.
LEMMA MapStep ==
  ASSUME IInv, FindsEveryKey, [Next]_vars
  PROVE  [Map!Next]_values
  <1>1. ASSUME NEW k \in Keys, NEW v \in Values, status = "ok", ~Found(k), NewEntry(k, v)
        PROVE  Map!Add(k, v) \/ UNCHANGED values
    BY <1>1, NotFoundPosition DEF NewEntry, Map!Add
  <1>2. ASSUME NEW k \in Keys, NEW v \in Values, InsertOrAssign(k, v), Found(k)
        PROVE  Map!Assign(k, v)
    <2> DEFINE i == buckets[FoundAt(k)].index
    <2>1. status = "ok" /\ values' = [values EXCEPT ![i].value = v]
      BY <1>2 DEF InsertOrAssign
    <2>2. i \in Map!Positions(k)
      BY <1>2, <2>1, FoundPosition
    <2> HIDE DEF i
    <2>3. QED
      BY <2>1, <2>2, ZenonT(60) DEF Map!Assign
  <1>3. ASSUME NEW k \in Keys, Erase(k)
        PROVE  Map!Delete(k)
    <2> DEFINE i == buckets[FoundAt(k)].index
    <2>1. status = "ok" /\ Found(k) /\ values' = RemoveAt(values, i)
      BY <1>3 DEF Erase
    <2>2. i \in Map!Positions(k)
      BY <2>1, FoundPosition
    <2> HIDE DEF i
    <2>3. QED
      BY <2>1, <2>2, ZenonT(60) DEF Map!Delete, Map!RemoveAt, RemoveAt
  <1>4. ASSUME NEW k \in Keys, NEW v \in Values, Insert(k, v)
        PROVE  Map!Add(k, v) \/ UNCHANGED values
    BY <1>1, <1>4 DEF Insert
  <1>5. ASSUME NEW k \in Keys, NEW v \in Values, InsertOrAssign(k, v), ~Found(k)
        PROVE  Map!Add(k, v) \/ UNCHANGED values
    BY <1>1, <1>5 DEF InsertOrAssign
  <1>6. CASE EraseWithoutBuckets \/ Clear \/ Halted \/ UNCHANGED vars
    BY <1>6 DEF EraseWithoutBuckets, Clear, Halted, vars
  <1>7. QED
    BY <1>2, <1>3, <1>4, <1>5, <1>6, ZenonT(60) DEF Next, Map!Next

\* The table is a map in the order of insertion as long as it finds what it holds: nothing
\* but a wrong lookup, as in the run hash_probing, can make the operations differ.
THEOREM MapIfFound == Spec /\ []FindsEveryKey => ImplementsMap
  <1>1. Init => Map!Init
    BY DEF Init, Map!Init
  <1>2. IInv /\ FindsEveryKey /\ [Next]_vars => [Map!Next]_values
    BY MapStep
  <1>3. QED
    BY <1>1, <1>2, Invariance, PTL DEF Spec, ImplementsMap, Map!Spec

=============================================================================
