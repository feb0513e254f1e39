------------------------ MODULE TryStatementsProofs -------------------------
(***************************************************************************)
(* The code generated for a regular program agrees with Python, and its    *)
(* exceptions go to handlers that enclose it.                              *)
(***************************************************************************)
EXTENDS TryPrograms, ProofLemmas

\* The provers for a step that names none, in turn: most need less than a second, and
\* a search that went astray is begun again.
USE SMT, Zenon, SMTT(20), SMTT(60), ZenonT(60), Z3T(60)

-----------------------------------------------------------------------------
(***************************************************************************)
(* Sequences of items, frames and levels, from their first element on.     *)
(***************************************************************************)
Sequence(s) == \E S : s \in Seq(S)

\* A sequence is its first element and the rest.
LEMMA ConsFacts ==
  ASSUME NEW a, NEW s, Sequence(s)
  PROVE  /\ Sequence(Cons(a, s)) /\ Cons(a, s) # <<>>
         /\ Head(Cons(a, s)) = a /\ Tail(Cons(a, s)) = s
         /\ Len(s) \in Nat /\ Len(Cons(a, s)) = Len(s) + 1
  <1>1. PICK S : s \in Seq(S)
    BY DEF Sequence
  <1> DEFINE T == S \cup {a}
  <1>2. s \in Seq(T) /\ <<a>> \in Seq(T)
    BY <1>1, SeqMonotonic
  <1> HIDE DEF T
  <1>3. Cons(a, s) \in Seq(T) /\ Len(Cons(a, s)) = Len(s) + 1 /\ Len(s) \in Nat
    BY <1>2 DEF Cons
  <1>4. Cons(a, s) # <<>> /\ Head(Cons(a, s)) = a
    BY <1>2, <1>3 DEF Cons
  <1>5. Tail(Cons(a, s)) = s
    BY <1>2, ConcatSimplifications, HeadTailProperties DEF Cons
  <1>6. QED
    BY <1>3, <1>4, <1>5 DEF Sequence

\* Two sequences are equal if their first elements and their rests are.
LEMMA ConsInjective ==
  ASSUME NEW a, NEW s, NEW b, NEW t, Sequence(s), Sequence(t), Cons(a, s) = Cons(b, t)
  PROVE  a = b /\ s = t
  BY ConsFacts

\* Every sequence that is not empty is one.
LEMMA ConsOf ==
  ASSUME NEW s, Sequence(s), s # <<>>
  PROVE  s = Cons(Head(s), Tail(s)) /\ Sequence(Tail(s))
  <1>1. PICK S : s \in Seq(S)
    BY DEF Sequence
  <1>2. Tail(s) \in Seq(S) /\ Len(Tail(s)) = Len(s) - 1 /\ \A i \in 1 .. Len(Tail(s)) : Tail(s)[i] = s[i + 1]
    BY <1>1, HeadTailProperties
  <1>3. Head(s) \in S /\ <<Head(s)>> \in Seq(S)
    BY <1>1, HeadTailProperties
  <1> DEFINE t == <<Head(s)>> \o Tail(s)
  <1>4. t \in Seq(S) /\ Len(t) = Len(s)
    BY <1>1, <1>2, <1>3
  <1>5. \A i \in 1 .. Len(s) : t[i] = s[i]
    BY <1>1, <1>2, <1>3
  <1> HIDE DEF t
  <1>6. t = s
    BY <1>1, <1>4, <1>5, SeqEqual
  <1>7. QED
    BY <1>2, <1>6 DEF t, Cons, Sequence

\* The empty sequence.
LEMMA EmptyFacts == /\ Sequence(<<>>) /\ \A s : Sequence(s) => <<>> \o s = s
                    /\ \A a : <<a>> = Cons(a, <<>>) /\ Sequence(<<a>>)
                    /\ \A a, b : <<a, b>> = Cons(a, <<b>>) /\ Sequence(<<a, b>>)
  <1>1. Sequence(<<>>)
    BY EmptySeq DEF Sequence
  <1>2. ASSUME NEW s, Sequence(s)
        PROVE  <<>> \o s = s
    BY <1>2, ConcatEmptySeq DEF Sequence
  <1>3. ASSUME NEW a
        PROVE  <<a>> = Cons(a, <<>>) /\ Sequence(<<a>>)
    <2>1. <<a>> \in Seq({a})
      OBVIOUS
    <2>2. <<a>> \o <<>> = <<a>>
      BY <2>1, ConcatEmptySeq
    <2>3. QED
      BY <2>1, <2>2 DEF Cons, Sequence
  <1>4. ASSUME NEW a, NEW b
        PROVE  <<a, b>> = Cons(a, <<b>>) /\ Sequence(<<a, b>>)
    <2>1. <<a, b>> \in Seq({a, b}) /\ <<b>> \in Seq({a, b}) /\ <<a>> \in Seq({a, b})
      OBVIOUS
    <2>2. <<a>> \o <<b>> = <<a, b>>
      <3> DEFINE t == <<a>> \o <<b>>
                 u == <<a, b>>
      <3>1. t \in Seq({a, b}) /\ Len(t) = 2 /\ t[1] = a /\ t[2] = b
        BY <2>1
      <3>2. u \in Seq({a, b}) /\ Len(u) = 2 /\ u[1] = a /\ u[2] = b
        BY <2>1
      <3> HIDE DEF t, u
      <3>3. \A i \in 1 .. Len(t) : t[i] = u[i]
        BY <3>1, <3>2
      <3>4. t = u
        BY <3>1, <3>2, <3>3, SeqEqual
      <3>5. QED
        BY <3>4 DEF t, u
    <2>3. QED
      BY <2>1, <2>2 DEF Cons, Sequence
  <1>5. QED
    BY <1>1, <1>2, <1>3, <1>4

\* Two sequences, one behind the other.
LEMMA ConsConcat ==
  ASSUME NEW a, NEW s, NEW t, Sequence(s), Sequence(t)
  PROVE  Sequence(s \o t) /\ Cons(a, s) \o t = Cons(a, s \o t)
  <1>1. PICK S, T : s \in Seq(S) /\ t \in Seq(T)
    BY DEF Sequence
  <1> DEFINE U == S \cup T \cup {a}
  <1>2. s \in Seq(U) /\ t \in Seq(U) /\ <<a>> \in Seq(U)
    BY <1>1, SeqMonotonic
  <1> HIDE DEF U
  <1>3. (<<a>> \o s) \o t = <<a>> \o (s \o t) /\ s \o t \in Seq(U)
    BY <1>2, ConcatAssociative, ConcatProperties
  <1>4. QED
    BY <1>3 DEF Cons, Sequence

-----------------------------------------------------------------------------
(***************************************************************************)
(* Where Python gets by itself.                                            *)
(***************************************************************************)
Path(f, n, p, q) == /\ f[0] = p /\ f[n] = q
                    /\ \A i \in 0 .. n - 1 : ~Waits(f[i]) /\ f[i + 1] = After(f[i])

Reaches(p, q) == \E n \in Nat : \E f : Path(f, n, p, q)

\* Without a step.
LEMMA ReachesItself ==
  ASSUME NEW p
  PROVE  Reaches(p, p)
  <1> DEFINE f == [i \in 0 .. 0 |-> p]
  <1>1. f[0] = p
    OBVIOUS
  <1> HIDE DEF f
  <1>2. Path(f, 0, p, p)
    BY <1>1 DEF Path
  <1>3. QED
    BY <1>2 DEF Reaches

\* With one step more.
LEMMA ReachesAfter ==
  ASSUME NEW p, NEW q, Reaches(p, q), ~Waits(q)
  PROVE  Reaches(p, After(q))
  <1>0. PICK n \in Nat : \E f : Path(f, n, p, q)
    BY DEF Reaches
  <1>1. PICK f : Path(f, n, p, q)
    BY <1>0
  <1> DEFINE g == [i \in 0 .. n + 1 |-> IF i = n + 1 THEN After(q) ELSE f[i]]
  <1>2. g[0] = p /\ g[n] = q /\ g[n + 1] = After(q) /\ \A i \in 0 .. n : g[i] = f[i]
    BY <1>1 DEF Path
  <1> HIDE DEF g
  <1>3. ASSUME NEW i \in 0 .. (n + 1) - 1
        PROVE  ~Waits(g[i]) /\ g[i + 1] = After(g[i])
    <2>1. CASE i = n
      BY <1>2, <2>1
    <2>2. CASE i # n
      <3>1. i \in 0 .. n - 1 /\ i \in 0 .. n /\ i + 1 \in 0 .. n
        BY <2>2
      <3>2. QED
        BY <1>1, <1>2, <3>1 DEF Path
    <2>3. QED
      BY <2>1, <2>2
  <1>4. Path(g, n + 1, p, After(q)) /\ n + 1 \in Nat
    BY <1>2, <1>3 DEF Path
  <1>5. QED
    BY <1>4 DEF Reaches

\* When the first step has been taken.
LEMMA AfterReaches ==
  ASSUME NEW p, NEW q, Reaches(p, q), ~Waits(p), p # q
  PROVE  Reaches(After(p), q)
  <1>0. PICK n \in Nat : \E f : Path(f, n, p, q)
    BY DEF Reaches
  <1>1. PICK f : Path(f, n, p, q)
    BY <1>0
  <1>2. n # 0 /\ n - 1 \in Nat /\ 0 \in 0 .. n - 1
    BY <1>1 DEF Path
  <1> DEFINE g == [i \in 0 .. n - 1 |-> f[i + 1]]
  <1>3. g[0] = After(p) /\ g[n - 1] = q
    BY <1>1, <1>2 DEF Path
  <1>4. ASSUME NEW i \in 0 .. (n - 1) - 1
        PROVE  ~Waits(g[i]) /\ g[i + 1] = After(g[i])
    <2>1. i + 1 \in 0 .. n - 1 /\ i \in 0 .. n - 1 /\ g[i] = f[i + 1] /\ g[i + 1] = f[(i + 1) + 1]
      OBVIOUS
    <2> HIDE DEF g
    <2>2. QED
      BY <1>1, <2>1 DEF Path
  <1> HIDE DEF g
  <1>5. Path(g, n - 1, After(p), q)
    BY <1>3, <1>4 DEF Path
  <1>6. QED
    BY <1>2, <1>5 DEF Reaches

\* Nowhere, when it waits.
LEMMA WaitsReaches ==
  ASSUME NEW p, NEW q, Reaches(p, q), Waits(p)
  PROVE  p = q
  <1>0. PICK n \in Nat : \E f : Path(f, n, p, q)
    BY DEF Reaches
  <1>1. PICK f : Path(f, n, p, q)
    BY <1>0
  <1>2. n # 0 => 0 \in 0 .. n - 1
    OBVIOUS
  <1>3. QED
    BY <1>1, <1>2 DEF Path
-----------------------------------------------------------------------------
(***************************************************************************)
(* Environments, and the finally clauses that a jump leaves.               *)
(***************************************************************************)
IsEnv(env) == /\ env = [loop |-> env.loop, finallies |-> env.finallies,
                        handler |-> env.handler, frame |-> env.frame]
              /\ Sequence(env.finallies)

\* The loops of the finally clauses stand around the loop, or are it.
Around(loop, finallies) ==
  /\ Depth(loop) \in Nat
  /\ \A i \in DOMAIN finallies : /\ Depth(finallies[i].parentLoop) \in Nat
                                 /\ Depth(finallies[i].parentLoop) <= Depth(loop)

\* Two environments with the same contents.
LEMMA EnvEqual ==
  ASSUME NEW e, NEW u, IsEnv(e), IsEnv(u),
         e.loop = u.loop, e.finallies = u.finallies, e.handler = u.handler, e.frame = u.frame
  PROVE  e = u
  BY DEF IsEnv

WithLoop(e, l)      == [e EXCEPT !.loop = l]
WithHandler(e, h)   == [e EXCEPT !.handler = h]
WithFinallies(e, F) == [e EXCEPT !.finallies = F]
Outside(e, F, h)    == [e EXCEPT !.finallies = F, !.handler = h]

\* Another loop in an environment.
LEMMA EnvLoop ==
  ASSUME NEW e, IsEnv(e), NEW l
  PROVE  /\ IsEnv(WithLoop(e, l)) /\ WithLoop(e, l).loop = l /\ WithLoop(e, l).finallies = e.finallies
         /\ WithLoop(e, l).handler = e.handler /\ WithLoop(e, l).frame = e.frame
  BY DEF IsEnv, WithLoop

\* Another handler in an environment.
LEMMA EnvHandler ==
  ASSUME NEW e, IsEnv(e), NEW h
  PROVE  /\ IsEnv(WithHandler(e, h)) /\ WithHandler(e, h).loop = e.loop
         /\ WithHandler(e, h).finallies = e.finallies
         /\ WithHandler(e, h).handler = h /\ WithHandler(e, h).frame = e.frame
  BY DEF IsEnv, WithHandler

\* Other finally clauses in an environment.
LEMMA EnvFinallies ==
  ASSUME NEW e, IsEnv(e), NEW F, Sequence(F)
  PROVE  /\ IsEnv(WithFinallies(e, F)) /\ WithFinallies(e, F).loop = e.loop
         /\ WithFinallies(e, F).finallies = F
         /\ WithFinallies(e, F).handler = e.handler /\ WithFinallies(e, F).frame = e.frame
  BY DEF IsEnv, WithFinallies

\* Other finally clauses, and another handler.
LEMMA EnvOutside ==
  ASSUME NEW e, IsEnv(e), NEW F, Sequence(F), NEW h
  PROVE  /\ IsEnv(Outside(e, F, h)) /\ Outside(e, F, h).loop = e.loop /\ Outside(e, F, h).finallies = F
         /\ Outside(e, F, h).handler = h /\ Outside(e, F, h).frame = e.frame
  <1>1. Outside(e, F, h) = WithHandler(WithFinallies(e, F), h)
    BY DEF Outside, WithHandler, WithFinallies
  <1>2. QED
    BY <1>1, EnvHandler, EnvFinallies

\* The first clauses of a sequence.
LEMMA FirstClauses ==
  ASSUME NEW F, Sequence(F), NEW i \in DOMAIN F
  PROVE  Sequence(SubSeq(F, 1, i - 1))
  <1>1. PICK S : F \in Seq(S)
    BY DEF Sequence
  <1>2. i \in 1 .. Len(F)
    BY <1>1
  <1>3. SubSeq(F, 1, i - 1) \in Seq(S)
    BY <1>1, <1>2
  <1>4. QED
    BY <1>3 DEF Sequence

\* A copy of a clause, as an environment outside of its statement.
LEMMA OutsideCopy ==
  ASSUME NEW e, IsEnv(e), NEW i
  PROVE  FinallyOutside(e, i) = SuiteItem(e.finallies[i].suite,
           Outside(e, SubSeq(e.finallies, 1, i - 1), e.finallies[i].parentExceptBlock))
  <1>1. [e EXCEPT !.finallies = SubSeq(@, 1, i - 1), !.handler = e.finallies[i].parentExceptBlock]
          = Outside(e, SubSeq(e.finallies, 1, i - 1), e.finallies[i].parentExceptBlock)
    BY DEF IsEnv, Outside
  <1>2. QED
    BY <1>1 DEF FinallyOutside

\* It depends on the loop, the clauses and the caller.
LEMMA OutsideSame ==
  ASSUME NEW e, NEW u, IsEnv(e), IsEnv(u), e.loop = u.loop, e.frame = u.frame,
         NEW i \in DOMAIN e.finallies, i \in DOMAIN u.finallies, e.finallies[i] = u.finallies[i],
         SubSeq(e.finallies, 1, i - 1) = SubSeq(u.finallies, 1, i - 1)
  PROVE  FinallyOutside(e, i) = FinallyOutside(u, i)
  <1> DEFINE h == e.finallies[i].parentExceptBlock
             F == SubSeq(e.finallies, 1, i - 1)
  <1>1. Sequence(F)
    BY FirstClauses DEF IsEnv
  <1>2. /\ FinallyOutside(e, i) = SuiteItem(e.finallies[i].suite, Outside(e, F, h))
        /\ FinallyOutside(u, i) = SuiteItem(e.finallies[i].suite, Outside(u, F, h))
    BY OutsideCopy
  <1> HIDE DEF h, F
  <1>3. Outside(e, F, h) = Outside(u, F, h)
    BY <1>1, EnvOutside, EnvEqual
  <1>4. QED
    BY <1>2, <1>3

\* The clauses that a jump leaves are the last ones.
LEMMA LeftFacts ==
  ASSUME NEW e, IsEnv(e), NEW full
  PROVE  /\ Len(e.finallies) \in Nat /\ DOMAIN e.finallies = 1 .. Len(e.finallies)
         /\ IsFiniteSet(Left(e, full)) /\ Left(e, full) \subseteq 1 .. Len(e.finallies)
         /\ Cardinality(Left(e, full)) \in Nat
  <1>1. PICK S : e.finallies \in Seq(S)
    BY DEF IsEnv, Sequence
  <1>2. Len(e.finallies) \in Nat /\ DOMAIN e.finallies = 1 .. Len(e.finallies)
    BY <1>1
  <1>3. Left(e, full) \subseteq 1 .. Len(e.finallies)
    BY <1>2 DEF Left
  <1>4. IsFiniteSet(1 .. Len(e.finallies))
    BY <1>2, FS_Interval
  <1>5. IsFiniteSet(Left(e, full)) /\ Cardinality(Left(e, full)) \in Nat
    BY <1>3, <1>4, FS_Subset, FS_CardinalityType
  <1>6. QED
    BY <1>2, <1>3, <1>5

\* The copies of the clauses are a sequence.
LEMMA CopiesSequence ==
  ASSUME NEW e, IsEnv(e), NEW full
  PROVE  Sequence(ExecuteFinallyBlocks(e, full))
  <1> DEFINE n == Cardinality(Left(e, full))
             f == [k \in 1 .. n |-> FinallyOutside(e, Len(e.finallies) - k + 1)]
             S == {FinallyOutside(e, Len(e.finallies) - k + 1) : k \in 1 .. n}
  <1>1. n \in Nat
    BY LeftFacts
  <1>2. f \in [1 .. n -> S]
    OBVIOUS
  <1>3. ExecuteFinallyBlocks(e, full) = f
    BY DEF ExecuteFinallyBlocks
  <1> HIDE DEF n, f, S
  <1>4. f \in Seq(S)
    BY <1>1, <1>2
  <1>5. QED
    BY <1>3, <1>4 DEF Sequence

\* Where no clause is left.
LEMMA NoCopies ==
  ASSUME NEW e, IsEnv(e), NEW full, Left(e, full) = {}
  PROVE  ExecuteFinallyBlocks(e, full) = <<>>
  <1>1. Cardinality(Left(e, full)) = 0
    BY FS_EmptySet
  <1>2. QED
    BY <1>1 DEF ExecuteFinallyBlocks

\* Where there is no clause.
LEMMA NoClauses ==
  ASSUME NEW e, IsEnv(e), e.finallies = <<>>, NEW full
  PROVE  ExecuteFinallyBlocks(e, full) = <<>>
  <1>1. Left(e, full) = {}
    BY DEF Left
  <1>2. QED
    BY <1>1, NoCopies

\* A loop's own jumps leave none of the clauses around the loop.
LEMMA NewLoop ==
  ASSUME NEW e, IsEnv(e), \A i \in DOMAIN e.finallies : e.finallies[i].parentLoop # e.loop
  PROVE  ExecuteFinallyBlocks(e, FALSE) = <<>>
  <1>1. ASSUME NEW i \in Left(e, FALSE)
        PROVE  FALSE
    <2>1. i \in 1 .. Len(e.finallies) /\ Len(e.finallies) \in Nat /\ i \in DOMAIN e.finallies
      BY LeftFacts
    <2>2. i \in i .. Len(e.finallies)
      BY <2>1
    <2>3. e.finallies[i].parentLoop = e.loop
      BY <2>2 DEF Left
    <2>4. QED
      BY <2>1, <2>3
  <1>2. QED
    BY <1>1, NoCopies

\* The copies depend on the loop, the clauses and the caller.
LEMMA CopiesSame ==
  ASSUME NEW e, NEW u, IsEnv(e), IsEnv(u), e.loop = u.loop, e.frame = u.frame, e.finallies = u.finallies,
         NEW full
  PROVE  ExecuteFinallyBlocks(e, full) = ExecuteFinallyBlocks(u, full)
  <1> DEFINE n == Cardinality(Left(e, full))
             m == Len(e.finallies)
  <1>1. Left(e, full) = Left(u, full)
    BY DEF Left
  <1>2. n \in Nat /\ m \in Nat /\ DOMAIN e.finallies = 1 .. m /\ n <= m
    <2>1. n \in Nat /\ m \in Nat /\ DOMAIN e.finallies = 1 .. m /\ Left(e, full) \subseteq 1 .. m
      BY LeftFacts
    <2>2. IsFiniteSet(1 .. m) /\ Cardinality(1 .. m) = m
      BY <2>1, FS_Interval
    <2>3. QED
      BY <2>1, <2>2, FS_Subset
  <1>3. /\ ExecuteFinallyBlocks(e, full) = [k \in 1 .. n |-> FinallyOutside(e, m - k + 1)]
        /\ ExecuteFinallyBlocks(u, full) = [k \in 1 .. n |-> FinallyOutside(u, m - k + 1)]
    BY <1>1 DEF ExecuteFinallyBlocks
  <1> HIDE DEF n, m
  <1>4. ASSUME NEW k \in 1 .. n
        PROVE  FinallyOutside(e, m - k + 1) = FinallyOutside(u, m - k + 1)
    <2> DEFINE i == m - k + 1
    <2>1. i \in DOMAIN e.finallies
      BY <1>2
    <2> HIDE DEF i
    <2>2. FinallyOutside(e, i) = FinallyOutside(u, i)
      BY <2>1, OutsideSame
    <2>3. QED
      BY <2>2 DEF i
  <1>5. QED
    BY <1>3, <1>4, ZenonT(60)

-----------------------------------------------------------------------------
(***************************************************************************)
(* The environments of a try statement.                                    *)
(***************************************************************************)
Own(s, e) == [suite |-> s.finally, parentLoop |-> e.loop, parentExceptBlock |-> e.handler]

TryFinallies(s, e) == IF s.finally = <<>> THEN e.finallies ELSE Append(e.finallies, Own(s, e))

\* Where the except clauses are generated.
Handled(s, e) == WithFinallies(e, TryFinallies(s, e))

\* One clause more.
LEMMA OneMoreClause ==
  ASSUME NEW F, Sequence(F), NEW own
  PROVE  /\ Sequence(Append(F, own)) /\ Len(F) \in Nat /\ Len(Append(F, own)) = Len(F) + 1
         /\ DOMAIN F = 1 .. Len(F) /\ DOMAIN Append(F, own) = 1 .. Len(F) + 1
         /\ \A i \in 1 .. Len(F) : /\ Append(F, own)[i] = F[i]
                                   /\ SubSeq(Append(F, own), 1, i - 1) = SubSeq(F, 1, i - 1)
         /\ Append(F, own)[Len(F) + 1] = own
         /\ Front(Append(F, own)) = F /\ Last(Append(F, own)) = own
  <1>1. PICK S : F \in Seq(S)
    BY DEF Sequence
  <1> DEFINE T == S \cup {own}
             G == Append(F, own)
             m == Len(F)
  <1>2. F \in Seq(T) /\ own \in T
    BY <1>1, SeqMonotonic
  <1> HIDE DEF T
  <1>3. G \in Seq(T) /\ m \in Nat /\ Len(G) = m + 1 /\ DOMAIN F = 1 .. m /\ DOMAIN G = 1 .. m + 1
    BY <1>2
  <1>4. (\A i \in 1 .. m : G[i] = F[i]) /\ G[m + 1] = own
    BY <1>2
  <1>5. ASSUME NEW i \in 1 .. m + 1
        PROVE  SubSeq(G, 1, i - 1) = SubSeq(F, 1, i - 1)
    <2>1. i - 1 \in Int /\ i - 1 <= m /\ \A j \in 1 .. i - 1 : j \in 1 .. m /\ j \in 1 .. m + 1
      BY <1>3
    <2>2. \A j \in 1 .. i - 1 : G[j] \in T /\ F[j] \in T /\ G[j] = F[j]
      BY <1>2, <1>3, <1>4, <2>1, ElementOfSeq
    <2> HIDE DEF G, m
    <2>3. /\ SubSeq(G, 1, i - 1) \in Seq(T) /\ SubSeq(F, 1, i - 1) \in Seq(T)
          /\ Len(SubSeq(G, 1, i - 1)) = Len(SubSeq(F, 1, i - 1))
          /\ Len(SubSeq(F, 1, i - 1)) = IF 1 <= i - 1 THEN i - 1 ELSE 0
          /\ \A j \in 1 .. (i - 1) - 1 + 1 : /\ SubSeq(G, 1, i - 1)[j] = G[1 + j - 1]
                                             /\ SubSeq(F, 1, i - 1)[j] = F[1 + j - 1]
      <3>1. 1 \in Int /\ (i - 1) - 1 + 1 = i - 1
        BY <2>1
      <3>2. QED
        BY <2>1, <2>2, <3>1, SubSeqProperties
    <2>4. ASSUME NEW j \in 1 .. Len(SubSeq(G, 1, i - 1))
          PROVE  SubSeq(G, 1, i - 1)[j] = SubSeq(F, 1, i - 1)[j]
      <3>1. j \in 1 .. i - 1 /\ j \in 1 .. (i - 1) - 1 + 1 /\ 1 + j - 1 = j
        BY <2>1, <2>3
      <3>2. QED
        BY <2>2, <2>3, <3>1
    <2>5. QED
      BY <2>3, <2>4, SeqEqual
  <1>6. Front(G) = F
    <2>1. SubSeq(G, 1, (m + 1) - 1) = SubSeq(F, 1, (m + 1) - 1) /\ (m + 1) - 1 = m /\ m + 1 \in 1 .. m + 1
      BY <1>3, <1>5
    <2>2. SubSeq(F, 1, m) = F
      BY <1>2, SubSeqFull
    <2>3. QED
      BY <1>3, <2>1, <2>2 DEF Front
  <1>7. Last(G) = own
    BY <1>3, <1>4 DEF Last
  <1>8. Sequence(G)
    BY <1>3 DEF Sequence
  <1>9. \A i \in 1 .. m : SubSeq(G, 1, i - 1) = SubSeq(F, 1, i - 1)
    BY <1>3, <1>5
  <1>10. QED
    BY <1>3, <1>4, <1>6, <1>7, <1>8, <1>9

\* A try statement puts its finally clause in front of those around it.
LEMMA TryFinalliesSequence ==
  ASSUME NEW e, IsEnv(e), NEW s
  PROVE  Sequence(TryFinallies(s, e))
  BY OneMoreClause DEF IsEnv, TryFinallies

\* The except clauses know it, but have the handler that was there before.
LEMMA HandledFacts ==
  ASSUME NEW e, IsEnv(e), NEW s
  PROVE  /\ IsEnv(Handled(s, e)) /\ Handled(s, e).loop = e.loop /\ Handled(s, e).frame = e.frame
         /\ Handled(s, e).handler = e.handler /\ Handled(s, e).finallies = TryFinallies(s, e)
         /\ s.finally = <<>> => Handled(s, e) = e
  <1>1. /\ IsEnv(Handled(s, e)) /\ Handled(s, e).loop = e.loop /\ Handled(s, e).frame = e.frame
        /\ Handled(s, e).handler = e.handler /\ Handled(s, e).finallies = TryFinallies(s, e)
    BY TryFinalliesSequence, EnvFinallies DEF Handled
  <1>2. s.finally = <<>> => Handled(s, e).finallies = e.finallies
    BY <1>1 DEF TryFinallies
  <1>3. QED
    BY <1>1, <1>2, EnvEqual

\* The suite has these as its handler.
HandlerOf(s, e, rest) == [stmt |-> s, env |-> Handled(s, e), rest |-> rest]

\* The environment of the suite, field by field.
LEMMA EnterTryFacts ==
  ASSUME NEW e, IsEnv(e), NEW s, NEW rest
  PROVE  /\ IsEnv(EnterTry(s, e, rest))
         /\ EnterTry(s, e, rest).loop = e.loop /\ EnterTry(s, e, rest).frame = e.frame
         /\ EnterTry(s, e, rest).finallies = TryFinallies(s, e)
         /\ EnterTry(s, e, rest).handler = HandlerOf(s, e, rest)
  <1> DEFINE h == [stmt |-> s, env |-> Handled(s, e), rest |-> rest]
  <1>1. (IF s.finally = <<>> THEN e ELSE [e EXCEPT !.finallies = Append(@, Own(s, e))]) = Handled(s, e)
    <2>1. CASE s.finally = <<>>
      BY <2>1, HandledFacts
    <2>2. CASE s.finally # <<>>
      <3>1. [e EXCEPT !.finallies = Append(@, Own(s, e))] = WithFinallies(e, Append(e.finallies, Own(s, e)))
        BY DEF IsEnv, WithFinallies
      <3>2. QED
        BY <2>2, <3>1 DEF Handled, TryFinallies
    <2>3. QED
      BY <2>1, <2>2
  <1>2. EnterTry(s, e, rest) = WithHandler(Handled(s, e), h)
    BY <1>1 DEF EnterTry, Own, WithHandler
  <1> DEFINE g == Handled(s, e)
  <1>3. IsEnv(g) /\ g.loop = e.loop /\ g.frame = e.frame /\ g.finallies = TryFinallies(s, e)
    BY HandledFacts
  <1> HIDE DEF g, h
  <1>4. /\ IsEnv(WithHandler(g, h)) /\ WithHandler(g, h).loop = e.loop
        /\ WithHandler(g, h).frame = e.frame /\ WithHandler(g, h).finallies = TryFinallies(s, e)
        /\ WithHandler(g, h).handler = h
    BY <1>3, EnvHandler
  <1>5. WithHandler(g, h) = EnterTry(s, e, rest)
    BY <1>2 DEF g
  <1>6. QED
    BY <1>4, <1>5, ZenonT(60) DEF g, h, HandlerOf

\* Its environment, without the handler.
LEMMA TryEnv ==
  ASSUME NEW e, IsEnv(e), NEW s, NEW rest, NEW u, u = EnterTry(s, e, rest)
  PROVE  IsEnv(u) /\ u.loop = e.loop /\ u.frame = e.frame /\ u.finallies = TryFinallies(s, e)
  BY EnterTryFacts

\* What enterFinallyCode restores.
LEMMA EnterFinallyFacts ==
  ASSUME NEW e, IsEnv(e), NEW s, s.finally # <<>>, NEW u, IsEnv(u),
         u.loop = e.loop, u.frame = e.frame, u.finallies = TryFinallies(s, e)
  PROVE  EnterFinally(s, u) = e
  <1>1. Front(u.finallies) = e.finallies /\ Last(u.finallies) = Own(s, e)
    BY OneMoreClause DEF IsEnv, TryFinallies
  <1>2. EnterFinally(s, u) = Outside(u, e.finallies, e.handler)
    <2>1. EnterFinally(s, u) = [u EXCEPT !.finallies = Front(@), !.handler = e.handler]
      BY <1>1 DEF EnterFinally, Own
    <2>2. [u EXCEPT !.finallies = Front(@), !.handler = e.handler]
            = [u EXCEPT !.finallies = Front(u.finallies), !.handler = e.handler]
      BY DEF IsEnv
    <2>3. QED
      BY <1>1, <2>1, <2>2 DEF Outside
  <1>3. Sequence(e.finallies)
    BY DEF IsEnv
  <1>4. QED
    BY <1>2, <1>3, EnvOutside, EnvEqual

\* A jump out of the suite, or of a clause, leaves the statement's finally clause first.
LEMMA LeavesOwnFirst ==
  ASSUME NEW e, IsEnv(e), NEW s, s.finally # <<>>, NEW u, IsEnv(u),
         u.frame = e.frame, u.finallies = TryFinallies(s, e), NEW full, full \/ u.loop = e.loop
  PROVE  ExecuteFinallyBlocks(u, full) =
           Cons(SuiteItem(s.finally, WithLoop(e, u.loop)), ExecuteFinallyBlocks(WithLoop(e, u.loop), full))
  <1> DEFINE F == e.finallies
             G == u.finallies
             m == Len(F)
             w == WithLoop(e, u.loop)
             n == Cardinality(Left(w, full))
             rest == ExecuteFinallyBlocks(w, full)
  <1>1. /\ m \in Nat /\ Len(G) = m + 1 /\ DOMAIN F = 1 .. m /\ DOMAIN G = 1 .. m + 1
        /\ \A i \in 1 .. m : G[i] = F[i] /\ SubSeq(G, 1, i - 1) = SubSeq(F, 1, i - 1)
        /\ G[m + 1] = Own(s, e) /\ Front(G) = F
    <2>1. G = Append(F, Own(s, e)) /\ Sequence(F)
      BY DEF TryFinallies, IsEnv
    <2> HIDE DEF F, G
    <2>2. QED
      BY <2>1, OneMoreClause
  <1>2. IsEnv(w) /\ w.loop = u.loop /\ w.frame = u.frame /\ w.finallies = F /\ w.handler = e.handler
    BY EnvLoop
  <1> HIDE DEF F, G, m, w
  <1>3. Left(w, full) \subseteq 1 .. m /\ IsFiniteSet(Left(w, full)) /\ n \in Nat /\ n <= m
    <2>1. Left(w, full) \subseteq 1 .. m /\ IsFiniteSet(Left(w, full)) /\ n \in Nat
      BY <1>2, LeftFacts DEF m
    <2>2. IsFiniteSet(1 .. m) /\ Cardinality(1 .. m) = m
      BY <1>1, FS_Interval
    <2>3. QED
      BY <2>1, <2>2, FS_Subset
  <1>4. Left(u, full) = Left(w, full) \cup {m + 1}
    <2>1. Left(u, full) = {i \in 1 .. m + 1 : \A j \in i .. m + 1 : full \/ G[j].parentLoop = u.loop}
      BY <1>1 DEF Left, G
    <2>2. Left(w, full) = {i \in 1 .. m : \A j \in i .. m : full \/ F[j].parentLoop = u.loop}
      BY <1>1, <1>2 DEF Left, m
    <2>3. full \/ G[m + 1].parentLoop = u.loop
      BY <1>1 DEF Own
    <2>4. ASSUME NEW i \in 1 .. m + 1
          PROVE  i \in Left(u, full) <=> i \in Left(w, full) \/ i = m + 1
      <3>1. CASE i = m + 1
        <4>1. \A j \in i .. m + 1 : j = m + 1
          BY <1>1, <3>1
        <4>2. QED
          BY <2>1, <2>3, <3>1, <4>1
      <3>2. CASE i # m + 1
        <4>1. /\ i \in 1 .. m
              /\ \A j \in i .. m : j \in 1 .. m /\ j \in i .. m + 1
              /\ \A j \in i .. m + 1 : j \in i .. m \/ j = m + 1
          BY <1>1, <3>2
        <4>2. \A j \in i .. m : G[j] = F[j]
          BY <1>1, <4>1
        <4>3. (\A j \in i .. m + 1 : full \/ G[j].parentLoop = u.loop)
                <=> (\A j \in i .. m : full \/ F[j].parentLoop = u.loop)
          BY <2>3, <4>1, <4>2, ZenonT(60)
        <4>4. QED
          BY <2>1, <2>2, <3>2, <4>1, <4>3, ZenonT(60)
      <3>3. QED
        BY <3>1, <3>2
    <2>5. m + 1 \in 1 .. m + 1 /\ \A i \in 1 .. m : i \in 1 .. m + 1
      BY <1>1
    <2>6. QED
      BY <1>3, <2>1, <2>4, <2>5, ZenonT(60)
  <1>5. Cardinality(Left(u, full)) = n + 1
    <2>1. m + 1 \notin Left(w, full)
      BY <1>1, <1>3
    <2>2. QED
      BY <1>3, <1>4, <2>1, FS_AddElement
  <1> HIDE DEF n
  <1>6. ExecuteFinallyBlocks(u, full) = [k \in 1 .. n + 1 |-> FinallyOutside(u, (m + 1) - k + 1)]
    BY <1>1, <1>5 DEF ExecuteFinallyBlocks, G
  <1>7. rest = [k \in 1 .. n |-> FinallyOutside(w, m - k + 1)]
    BY <1>2 DEF ExecuteFinallyBlocks, n, m
  <1>8. FinallyOutside(u, m + 1) = SuiteItem(s.finally, w)
    <2>1. FinallyOutside(u, m + 1) = SuiteItem(s.finally, Outside(u, SubSeq(G, 1, (m + 1) - 1), e.handler))
      BY <1>1, OutsideCopy DEF G, Own
    <2>2. SubSeq(G, 1, (m + 1) - 1) = F
      BY <1>1 DEF Front
    <2>3. Sequence(F)
      BY DEF F, IsEnv
    <2>4. Outside(u, F, e.handler) = w
      BY <1>2, <2>3, EnvOutside, EnvEqual
    <2>5. QED
      BY <2>1, <2>2, <2>4
  <1>9. \A i \in 1 .. m : FinallyOutside(u, i) = FinallyOutside(w, i)
    <2>1. \A i \in 1 .. m : i \in DOMAIN u.finallies /\ i \in DOMAIN w.finallies
      BY <1>1, <1>2 DEF G
    <2>2. \A i \in 1 .. m : /\ u.finallies[i] = w.finallies[i]
                            /\ SubSeq(u.finallies, 1, i - 1) = SubSeq(w.finallies, 1, i - 1)
      BY <1>1, <1>2 DEF G
    <2>3. QED
      BY <1>2, <2>1, <2>2, OutsideSame
  <1> DEFINE a == SuiteItem(s.finally, w)
  <1>10. Cons(a, rest) = [k \in 1 .. n + 1 |-> IF k = 1 THEN a ELSE rest[k - 1]]
    <2>1. Len(rest) = n
      BY <1>3, <1>7
    <2>2. rest \in [1 .. n -> {FinallyOutside(w, m - k + 1) : k \in 1 .. n}]
      BY <1>7
    <2>3. PICK S : rest \in Seq(S) /\ a \in S
      <3>1. PICK S : rest \in Seq(S)
        BY <1>2, CopiesSequence DEF Sequence
      <3>2. rest \in Seq(S \cup {a})
        BY <3>1, SeqMonotonic
      <3>3. QED
        BY <3>2
    <2> HIDE DEF rest, a
    <2>4. Cons(a, rest) = [k \in 1 .. 1 + n |-> IF k <= 1 THEN <<a>>[k] ELSE rest[k - 1]]
      BY <1>3, <2>1, <2>3 DEF Cons
    <2>5. 1 .. 1 + n = 1 .. n + 1 /\ (\A k \in 1 .. n + 1 : k <= 1 <=> k = 1) /\ <<a>>[1] = a
      BY <1>3
    <2>6. QED
      BY <2>4, <2>5
  <1>11. ASSUME NEW k \in 1 .. n + 1
         PROVE  FinallyOutside(u, (m + 1) - k + 1) = IF k = 1 THEN a ELSE rest[k - 1]
    <2>1. CASE k = 1
      <3>1. (m + 1) - k + 1 = m + 1
        BY <1>1, <2>1
      <3>2. QED
        BY <1>8, <2>1, <3>1
    <2>2. CASE k # 1
      <3>1. /\ k - 1 \in 1 .. n /\ (m + 1) - k + 1 = m - (k - 1) + 1
            /\ m - (k - 1) + 1 \in 1 .. m
        BY <1>1, <1>3, <2>2
      <3>2. rest[k - 1] = FinallyOutside(w, m - (k - 1) + 1)
        BY <1>7, <3>1
      <3>3. QED
        BY <1>9, <2>2, <3>1, <3>2
    <2>3. QED
      BY <2>1, <2>2
  <1> HIDE DEF a, rest
  <1>12. ExecuteFinallyBlocks(u, full) = Cons(a, rest)
    BY <1>6, <1>10, <1>11, ZenonT(60)
  <1>13. QED
    BY <1>12 DEF a, rest, w

-----------------------------------------------------------------------------
(***************************************************************************)
(* Levels.  Each statement around Python's next step stands for a level:   *)
(* the environment its clause is generated in, what is legal there, the    *)
(* code that follows, and whether an expression of it is asked for.        *)
(***************************************************************************)
Level(env, ctx, asks, rest) == [env |-> env, ctx |-> ctx, asks |-> asks, rest |-> rest]

Bottom == Level(TopLevel, TopCtx, FALSE, <<ReturnItem("", TopLevel)>>)

IsLevel(level) ==
  /\ IsEnv(level.env) /\ Around(level.env.loop, level.env.finallies)
  /\ level.ctx \in Contexts
  /\ ~level.ctx.fin => level.env.finallies = <<>>
  /\ level.ctx.jump => /\ level.env.loop # None
                       /\ Sequence(level.env.loop.breakBlock)
                       /\ Sequence(level.env.loop.continueBlock)
  /\ level.env.handler # None => Sequence(level.env.handler.rest)
  /\ level.asks \in BOOLEAN
  /\ Sequence(level.rest)

\* The code that leaves a level by an exception or a jump.
Raises(c, after, env, ctx) ==
  /\ c.how = "raise"
  /\ \/ ctx.raise /\ after = RaiseException(c.what, env)
     \/ ctx.escape /\ after = <<RaiseItem(c.what, env)>>

Jumps(c, after, env, ctx) ==
  /\ ctx.jump
  /\ \/ c.how = "break" /\ after = ExecuteFinallyBlocks(env, FALSE) \o env.loop.breakBlock
     \/ c.how = "continue" /\ after = ExecuteFinallyBlocks(env, FALSE) \o env.loop.continueBlock

ReturnsNone(c, after, env, ctx) ==
  /\ c.how = "return" /\ ctx.bare
  /\ after = ExecuteFinallyBlocks(env, FALSE) \o <<ReturnItem(c.what, env)>>

ReturnsValue(c, after, env, ctx) ==
  /\ c.how = "return" /\ ctx.value
  /\ \E loop : /\ loop = env.loop \/ ctx.plain
               /\ Around(loop, env.finallies)
               /\ after = ExecuteFinallyBlocks(WithLoop(env, loop), TRUE) \o <<ReturnItem(c.what, env)>>

Abrupt(c, after, env, ctx) ==
  /\ c.kind = "completed" /\ c = Completed(c.how, c.what)
  /\ \/ Raises(c, after, env, ctx)
     \/ Jumps(c, after, env, ctx)
     \/ ReturnsNone(c, after, env, ctx)
     \/ ReturnsValue(c, after, env, ctx)

\* The environment of a loop's body.
InLoopEnv(item, rest) ==
  WithLoop(item.env, [breakBlock |-> rest, continueBlock |-> Cons(item, rest),
                      depth |-> Depth(item.env.loop) + 1])

LegalTry(s, ctx)  == s.kind = "try" /\ s \in Legal[ctx]
LegalTest(s, ctx) == s.kind \in {"if", "while", "for"} /\ s \in Legal[ctx]

\* The level of what a frame f stands around, and the level that the statement stands at.
InSuiteFrame(f, inner, outer) ==
  /\ f.in = "suite" /\ Allows(Legal, f.rest, outer.ctx)
  /\ inner = Level(outer.env, outer.ctx, FALSE, Cons(SuiteItem(f.rest, outer.env), outer.rest))

InTestFrame(f, inner, outer) ==
  /\ f.in = "test" /\ LegalTest(f.stmt, outer.ctx)
  /\ inner = Level(outer.env, outer.ctx, TRUE, Cons(TestItem(f.stmt, outer.env), outer.rest))

InLoopFrame(f, inner, outer) ==
  LET item == TestItem(f.stmt, outer.env) IN
  /\ f.in = "loop" /\ f.stmt.kind \in {"while", "for"} /\ f.stmt \in Legal[outer.ctx]
  /\ inner = Level(InLoopEnv(item, outer.rest), LoopCtx(outer.ctx), FALSE, Cons(item, outer.rest))

InTryFrame(f, inner, outer) ==
  LET inside == EnterTry(f.stmt, outer.env, outer.rest) IN
  /\ f.in = "try" /\ LegalTry(f.stmt, outer.ctx)
  /\ inner = Level(inside, SuiteCtx(Legal, f.stmt, outer.ctx), FALSE,
                   Cons(SuiteItem(f.stmt.orelse, inside),
                        Cons(SuiteItem(f.stmt.finally, EnterFinally(f.stmt, inside)), outer.rest)))

InExceptFrame(f, inner, outer) ==
  LET handled == Handled(f.stmt, outer.env) IN
  /\ f.in = "except" /\ LegalTry(f.stmt, outer.ctx) /\ f.clause \in 1 .. Len(f.stmt.excepts)
  /\ f.exception = Completed("raise", f.exception.what)
  /\ f.stmt.exceptAll # <<>> \/ outer.ctx.escape
  /\ inner = Level(handled, HandlerCtx(Legal, f.stmt, outer.ctx), TRUE,
                   Cons(ExceptItem(f.stmt, f.clause, f.exception.what, handled), outer.rest))

InClauseFrame(f, inner, outer) ==
  LET s == f.stmt IN
  /\ f.in = "clause" /\ LegalTry(s, outer.ctx)
  /\ \/ /\ inner.env = EnterTry(s, outer.env, outer.rest)
        /\ inner.ctx = ElseCtx(Legal, s, outer.ctx)
     \/ /\ inner.env = Handled(s, outer.env)
        /\ inner.ctx = HandlerCtx(Legal, s, outer.ctx)
  /\ \E env : /\ s.finally # <<>> => env = outer.env
              /\ inner = Level(inner.env, inner.ctx, FALSE, Cons(SuiteItem(s.finally, env), outer.rest))

InFinallyFrame(f, inner, outer) ==
  /\ f.in = "finally" /\ ~outer.asks
  /\ \/ inner.env = outer.env /\ inner.ctx = outer.ctx
     \/ /\ f.pending.how = "return" /\ outer.ctx.value /\ outer.ctx.plain
        /\ inner.env = WithLoop(outer.env, inner.env.loop) /\ inner.ctx = Plain(outer.ctx)
  /\ \/ f.pending = Normally /\ inner.rest = outer.rest
     \/ Abrupt(f.pending, inner.rest, outer.env, outer.ctx)
  /\ inner = Level(inner.env, inner.ctx, FALSE, inner.rest)

InFunctionFrame(f, inner, outer) ==
  LET inside == [TopLevel EXCEPT !.frame = [env |-> outer.env, rest |-> outer.rest]] IN
  /\ f.in = "function"
  /\ inner = Level(inside, FunctionCtx(outer.ctx), FALSE, <<ReturnItem("", inside)>>)

Nested(f, inner, outer) ==
  /\ IsLevel(inner) /\ IsLevel(outer) /\ outer.asks = FALSE
  /\ \/ InSuiteFrame(f, inner, outer)
     \/ InTestFrame(f, inner, outer)
     \/ InLoopFrame(f, inner, outer)
     \/ InTryFrame(f, inner, outer)
     \/ InExceptFrame(f, inner, outer)
     \/ InClauseFrame(f, inner, outer)
     \/ InFinallyFrame(f, inner, outer)
     \/ InFunctionFrame(f, inner, outer)

\* The levels of a stack, from the one that is under way to the function's own.
Chain(levels, stack) ==
  /\ levels[0] = Bottom
  /\ \A i \in 1 .. Len(stack) : Nested(stack[Len(stack) - i + 1], levels[i], levels[i - 1])

On(stack, level) ==
  /\ Sequence(stack) /\ IsLevel(level)
  /\ \E levels : Chain(levels, stack) /\ level = levels[Len(stack)]

\* The code and the state of Python on a level.
FitsSuite(after, now, level) ==
  /\ now.kind = "suite" /\ now = InSuite(now.suite) /\ ~level.asks
  /\ Allows(Legal, now.suite, level.ctx)
  /\ \/ \E env : /\ now.suite # <<>> => env = level.env
                 /\ after = Cons(SuiteItem(now.suite, env), level.rest)
     \/ now.suite = <<>> /\ after = level.rest

FitsPoint(after, now, level) ==
  /\ now.kind = "point" /\ now = AtPoint(now.point)
  /\ \/ /\ ~level.asks
        /\ Answers(now.point, {"normal"}, level.ctx.raise)
        /\ after = Cons(PointItem(now.point, level.env), level.rest)
     \/ level.asks /\ after = level.rest /\ now.point = Head(after).point

FitsCompleted(after, now, level) ==
  \/ now = Normally /\ ~level.asks /\ after = level.rest
  \/ (level.asks => now.how = "raise") /\ Abrupt(now, after, level.env, level.ctx)

Fits(after, now, level) ==
  \/ FitsSuite(after, now, level)
  \/ FitsPoint(after, now, level)
  \/ FitsCompleted(after, now, level)

Related(after, q) ==
  /\ q = State(q.now, q.stack)
  /\ \E level : On(q.stack, level) /\ Fits(after, q.now, level)

-----------------------------------------------------------------------------
(***************************************************************************)
(* Pushing and popping levels.                                             *)
(***************************************************************************)
\* The first level of a chain is the function's own.
LEMMA OnEmpty ==
  /\ IsLevel(Bottom) /\ On(<<>>, Bottom)
  /\ \A level : On(<<>>, level) => level = Bottom
  <1>1. IsEnv(TopLevel) /\ TopLevel.finallies = <<>> /\ TopLevel.loop = None /\ TopLevel.handler = None
    <2>1. Sequence(<<>>)
      BY EmptyFacts
    <2>2. QED
      BY <2>1 DEF IsEnv, TopLevel
  <1>2. Around(TopLevel.loop, TopLevel.finallies)
    BY <1>1 DEF Around, Depth
  <1>3. TopCtx \in Contexts /\ TopCtx.jump = FALSE
    BY DEF TopCtx, Contexts
  <1>4. Sequence(<<ReturnItem("", TopLevel)>>)
    BY EmptyFacts
  <1>5. IsLevel(Bottom)
    BY <1>1, <1>2, <1>3, <1>4 DEF IsLevel, Bottom, Level
  <1> DEFINE levels == [i \in 0 .. 0 |-> Bottom]
  <1>6. levels[0] = Bottom /\ Len(<<>>) = 0 /\ Sequence(<<>>)
    BY EmptyFacts
  <1> HIDE DEF levels
  <1>7. Chain(levels, <<>>)
    BY <1>6 DEF Chain
  <1>8. On(<<>>, Bottom)
    BY <1>5, <1>6, <1>7 DEF On
  <1>9. \A level : On(<<>>, level) => level = Bottom
    BY <1>6 DEF On, Chain
  <1>10. QED
    BY <1>5, <1>8, <1>9

\* The elements of a sequence with one more in front, counted from the end.
LEMMA FromTheEnd ==
  ASSUME NEW s, Sequence(s), NEW f
  PROVE  /\ Len(s) \in Nat /\ Len(Cons(f, s)) = Len(s) + 1
         /\ \A i \in 1 .. Len(s) : Cons(f, s)[(Len(s) + 1) - i + 1] = s[Len(s) - i + 1]
         /\ Cons(f, s)[1] = f
  <1>1. PICK S : s \in Seq(S)
    BY DEF Sequence
  <1>2. s \in Seq(S \cup {f}) /\ <<f>> \in Seq(S \cup {f}) /\ Len(<<f>>) = 1 /\ <<f>>[1] = f
    BY <1>1, SeqMonotonic
  <1>3. /\ Len(s) \in Nat /\ Len(Cons(f, s)) = 1 + Len(s)
        /\ \A i \in 1 .. 1 + Len(s) : Cons(f, s)[i] = IF i <= 1 THEN <<f>>[i] ELSE s[i - 1]
    BY <1>2, ConcatProperties, LenProperties DEF Cons
  <1> DEFINE n == Len(s)
  <1> HIDE DEF n
  <1>4. ASSUME NEW i \in 1 .. n
        PROVE  Cons(f, s)[(n + 1) - i + 1] = s[n - i + 1]
    <2>1. n \in Nat
      BY <1>3 DEF n
    <2>2. /\ (n + 1) - i + 1 \in 1 .. 1 + n /\ ~((n + 1) - i + 1 <= 1)
          /\ ((n + 1) - i + 1) - 1 = n - i + 1
      BY <2>1
    <2>3. QED
      BY <1>3, <2>2 DEF n
  <1>5. Cons(f, s)[1] = f
    BY <1>2, <1>3
  <1>6. QED
    BY <1>3, <1>4, <1>5 DEF n

\* A statement is entered.
LEMMA OnPush ==
  ASSUME NEW stack, NEW outer, On(stack, outer), NEW f, NEW inner, Nested(f, inner, outer)
  PROVE  On(Cons(f, stack), inner)
  <1> DEFINE n == Len(stack)
  <1>1. PICK levels : Chain(levels, stack) /\ outer = levels[n]
    BY DEF On
  <1>2. Sequence(stack) /\ n \in Nat
    BY FromTheEnd DEF On
  <1> DEFINE more == [i \in 0 .. n + 1 |-> IF i = n + 1 THEN inner ELSE levels[i]]
  <1>3. (\A i \in 0 .. n : more[i] = levels[i]) /\ more[n + 1] = inner
    BY <1>2
  <1> HIDE DEF more
  <1>4. /\ Sequence(Cons(f, stack)) /\ Len(Cons(f, stack)) = n + 1 /\ Cons(f, stack)[1] = f
        /\ \A i \in 1 .. n : Cons(f, stack)[(n + 1) - i + 1] = stack[n - i + 1]
    BY <1>2, FromTheEnd, ConsFacts
  <1>5. Chain(more, Cons(f, stack))
    <2>1. more[0] = Bottom
      BY <1>1, <1>2, <1>3 DEF Chain
    <2>2. ASSUME NEW i \in 1 .. n + 1
          PROVE  Nested(Cons(f, stack)[(n + 1) - i + 1], more[i], more[i - 1])
      <3>1. CASE i = n + 1
        <4>1. (n + 1) - i + 1 = 1 /\ i - 1 = n /\ n \in 0 .. n
          BY <1>2, <3>1
        <4>2. QED
          BY <1>1, <1>3, <1>4, <3>1, <4>1
      <3>2. CASE i # n + 1
        <4>1. i \in 1 .. n /\ i \in 0 .. n /\ i - 1 \in 0 .. n
          BY <1>2, <3>2
        <4>2. Nested(stack[n - i + 1], levels[i], levels[i - 1])
          BY <1>1, <4>1 DEF Chain
        <4>3. QED
          BY <1>3, <1>4, <4>1, <4>2
      <3>3. QED
        BY <3>1, <3>2
    <2>3. QED
      BY <1>4, <2>1, <2>2 DEF Chain
  <1>6. IsLevel(inner)
    BY DEF Nested
  <1>7. QED
    BY <1>3, <1>4, <1>5, <1>6 DEF On

\* A statement is left.
LEMMA OnPop ==
  ASSUME NEW stack, Sequence(stack), NEW f, NEW inner, On(Cons(f, stack), inner)
  PROVE  \E outer : On(stack, outer) /\ Nested(f, inner, outer)
  <1> DEFINE n == Len(stack)
  <1>1. /\ n \in Nat /\ Len(Cons(f, stack)) = n + 1 /\ Cons(f, stack)[1] = f
        /\ \A i \in 1 .. n : Cons(f, stack)[(n + 1) - i + 1] = stack[n - i + 1]
    BY FromTheEnd
  <1>2. PICK levels : Chain(levels, Cons(f, stack)) /\ inner = levels[n + 1]
    BY <1>1 DEF On
  <1>3. \A i \in 1 .. n + 1 : Nested(Cons(f, stack)[(n + 1) - i + 1], levels[i], levels[i - 1])
    BY <1>1, <1>2 DEF Chain
  <1>4. Nested(f, inner, levels[n])
    <2>1. n + 1 \in 1 .. n + 1 /\ (n + 1) - (n + 1) + 1 = 1 /\ (n + 1) - 1 = n
      BY <1>1
    <2>2. QED
      BY <1>1, <1>2, <1>3, <2>1
  <1>5. Chain(levels, stack)
    <2>1. ASSUME NEW i \in 1 .. n
          PROVE  Nested(stack[n - i + 1], levels[i], levels[i - 1])
      <3>1. i \in 1 .. n + 1
        BY <1>1
      <3>2. QED
        BY <1>1, <1>3, <3>1
    <2>2. QED
      BY <1>2, <2>1 DEF Chain
  <1>6. On(stack, levels[n])
    BY <1>4, <1>5 DEF On, Nested
  <1>7. QED
    BY <1>4, <1>6

-----------------------------------------------------------------------------
(***************************************************************************)
(* The contexts and levels inside of a statement.                          *)
(***************************************************************************)
\* The parts of a level.
LEMMA LevelFields ==
  ASSUME NEW env, NEW ctx, NEW asks, NEW rest
  PROVE  /\ Level(env, ctx, asks, rest).env = env /\ Level(env, ctx, asks, rest).ctx = ctx
         /\ Level(env, ctx, asks, rest).asks = asks /\ Level(env, ctx, asks, rest).rest = rest
  BY DEF Level

\* What an environment must have for a context.
Suits(env, ctx) ==
  /\ IsEnv(env) /\ Around(env.loop, env.finallies)
  /\ ctx \in Contexts
  /\ ~ctx.fin => env.finallies = <<>>
  /\ ctx.jump => /\ env.loop # None
                 /\ Sequence(env.loop.breakBlock)
                 /\ Sequence(env.loop.continueBlock)
  /\ env.handler # None => Sequence(env.handler.rest)

\* A level is put together.
LEMMA MakeLevel ==
  ASSUME NEW env, NEW ctx, Suits(env, ctx), NEW asks \in BOOLEAN, NEW rest, Sequence(rest)
  PROVE  IsLevel(Level(env, ctx, asks, rest))
  <1> DEFINE level == Level(env, ctx, asks, rest)
  <1>1. level.env = env /\ level.ctx = ctx /\ level.asks = asks /\ level.rest = rest
    BY LevelFields
  <1> HIDE DEF level
  <1>2. IsLevel(level)
    BY <1>1 DEF IsLevel, Suits
  <1>3. QED
    BY <1>2 DEF level

\* A level is taken apart.
LEMMA LevelSuits ==
  ASSUME NEW level, IsLevel(level)
  PROVE  Suits(level.env, level.ctx) /\ Sequence(level.rest) /\ level.asks \in BOOLEAN
  BY DEF IsLevel, Suits

\* What is legal in a loop's body.
LEMMA LoopCtxFacts ==
  ASSUME NEW ctx \in Contexts
  PROVE  /\ LoopCtx(ctx) \in Contexts /\ LoopCtx(ctx).jump = TRUE
         /\ LoopCtx(ctx).raise = ctx.raise /\ LoopCtx(ctx).escape = ctx.escape
         /\ LoopCtx(ctx).bare => ctx.bare /\ ~ctx.fin
         /\ LoopCtx(ctx).value => ctx.value /\ ctx.plain
         /\ LoopCtx(ctx).fin = ctx.fin /\ LoopCtx(ctx).plain = ctx.plain
  BY ZenonT(60) DEF Contexts, LoopCtx

\* What is legal in a finally clause copied into another loop.
LEMMA PlainFacts ==
  ASSUME NEW ctx \in Contexts
  PROVE  /\ Plain(ctx) \in Contexts /\ Plain(ctx).jump = FALSE /\ Plain(ctx).bare = FALSE
         /\ Plain(ctx).raise = ctx.raise /\ Plain(ctx).escape = ctx.escape
         /\ Plain(ctx).value = ctx.value /\ Plain(ctx).fin = ctx.fin /\ Plain(ctx).plain = ctx.plain
  BY DEF Contexts, Plain

\* What is legal in a function.
LEMMA FunctionCtxFacts ==
  ASSUME NEW ctx \in Contexts
  PROVE  /\ FunctionCtx(ctx) \in Contexts /\ FunctionCtx(ctx).jump = FALSE
         /\ FunctionCtx(ctx).raise = ctx.raise /\ FunctionCtx(ctx).escape = ctx.raise
         /\ FunctionCtx(ctx).fin = FALSE
  BY DEF Contexts, FunctionCtx, TopCtx

InTryContext(inner, s, ctx) ==
  /\ inner \in Contexts
  /\ inner.jump = ctx.jump /\ inner.bare = ctx.bare /\ inner.value = ctx.value
  /\ inner.fin = (ctx.fin \/ s.finally # <<>>)
  /\ inner.plain = (ctx.plain /\ Allows(Legal, s.finally, Plain(ctx)))

\* What is legal in the clauses of a try statement.
LEMMA TryContexts ==
  ASSUME NEW ctx \in Contexts, NEW s
  PROVE  /\ InTryContext(SuiteCtx(Legal, s, ctx), s, ctx)
         /\ SuiteCtx(Legal, s, ctx).raise = (s.exceptAll # <<>> \/ ctx.escape)
         /\ SuiteCtx(Legal, s, ctx).escape = FALSE
         /\ InTryContext(HandlerCtx(Legal, s, ctx), s, ctx)
         /\ HandlerCtx(Legal, s, ctx).raise = (ctx.raise /\ s.finally = <<>>)
         /\ HandlerCtx(Legal, s, ctx).escape = (ctx.escape /\ s.finally = <<>>)
         /\ InTryContext(ElseCtx(Legal, s, ctx), s, ctx)
         /\ ElseCtx(Legal, s, ctx).raise = FALSE
         /\ ElseCtx(Legal, s, ctx).escape = (ctx.escape /\ s.finally = <<>>)
  <1> DEFINE ctx1 == InTry(Legal, s, ctx)
  <1>1. InTryContext(ctx1, s, ctx) /\ ctx1.raise = ctx.raise /\ ctx1.escape = ctx.escape
    <2> DEFINE legal == Allows(Legal, s.finally, Plain(ctx))
    <2>1. legal \in BOOLEAN
      BY DEF Allows
    <2> HIDE DEF legal
    <2>2. ctx1 = [ctx EXCEPT !.fin = ctx.fin \/ s.finally # <<>>, !.plain = ctx.plain /\ legal]
      BY DEF InTry, legal
    <2> HIDE DEF ctx1
    <2>3. /\ ctx1 \in Contexts /\ ctx1.raise = ctx.raise /\ ctx1.escape = ctx.escape
          /\ ctx1.jump = ctx.jump /\ ctx1.bare = ctx.bare /\ ctx1.value = ctx.value
          /\ ctx1.fin = (ctx.fin \/ s.finally # <<>>) /\ ctx1.plain = (ctx.plain /\ legal)
      BY <2>1, <2>2, ZenonT(60) DEF Contexts
    <2>4. QED
      BY <2>3 DEF InTryContext, legal
  <1>2. /\ SuiteCtx(Legal, s, ctx) = [ctx1 EXCEPT !.raise = s.exceptAll # <<>> \/ ctx.escape, !.escape = FALSE]
        /\ HandlerCtx(Legal, s, ctx) = [ctx1 EXCEPT !.raise = ctx.raise /\ s.finally = <<>>,
                                                    !.escape = ctx.escape /\ s.finally = <<>>]
        /\ ElseCtx(Legal, s, ctx) = [HandlerCtx(Legal, s, ctx) EXCEPT !.raise = FALSE]
    BY DEF SuiteCtx, HandlerCtx, ElseCtx
  <1> HIDE DEF ctx1
  <1>3. /\ InTryContext(SuiteCtx(Legal, s, ctx), s, ctx)
        /\ SuiteCtx(Legal, s, ctx).raise = (s.exceptAll # <<>> \/ ctx.escape)
        /\ SuiteCtx(Legal, s, ctx).escape = FALSE
    BY <1>1, <1>2, ZenonT(150) DEF InTryContext, Contexts
  <1>4. /\ InTryContext(HandlerCtx(Legal, s, ctx), s, ctx)
        /\ HandlerCtx(Legal, s, ctx).raise = (ctx.raise /\ s.finally = <<>>)
        /\ HandlerCtx(Legal, s, ctx).escape = (ctx.escape /\ s.finally = <<>>)
    BY <1>1, <1>2, ZenonT(150) DEF InTryContext, Contexts
  <1>5. /\ InTryContext(ElseCtx(Legal, s, ctx), s, ctx)
        /\ ElseCtx(Legal, s, ctx).raise = FALSE
        /\ ElseCtx(Legal, s, ctx).escape = (ctx.escape /\ s.finally = <<>>)
    BY <1>2, <1>4, ZenonT(60) DEF InTryContext, Contexts
  <1>6. QED
    BY <1>3, <1>4, <1>5

\* The finally clauses of a try statement are left from its loop.
LEMMA TryAround ==
  ASSUME NEW e, IsEnv(e), NEW s, NEW loop,
         s.finally = <<>> \/ Depth(e.loop) \in Nat,
         s.finally = <<>> \/ Depth(e.loop) <= Depth(loop)
  PROVE  Around(loop, e.finallies) <=> Around(loop, TryFinallies(s, e))
  <1>1. CASE s.finally = <<>>
    BY <1>1 DEF TryFinallies
  <1>2. CASE s.finally # <<>>
    <2> DEFINE F == e.finallies
               G == Append(F, Own(s, e))
               m == Len(F)
    <2>1. /\ m \in Nat /\ DOMAIN F = 1 .. m /\ DOMAIN G = 1 .. m + 1
          /\ \A i \in 1 .. m : G[i] = F[i]
          /\ G[m + 1] = Own(s, e)
      BY OneMoreClause DEF IsEnv
    <2>2. TryFinallies(s, e) = G
      BY <1>2 DEF TryFinallies
    <2> HIDE DEF F, G, m
    <2>3. G[m + 1].parentLoop = e.loop
      BY <2>1 DEF Own
    <2>4. /\ \A i \in 1 .. m : i \in 1 .. m + 1
          /\ \A i \in 1 .. m + 1 : i \in 1 .. m \/ i = m + 1
      BY <2>1
    <2>5. Around(loop, F) <=> Around(loop, G)
      BY <1>2, <2>1, <2>3, <2>4 DEF Around
    <2>6. QED
      BY <2>2, <2>5 DEF F
  <1>3. QED
    BY <1>1, <1>2

\* A loop, and a caller, is not None.
LEMMA NotNone ==
  /\ \A b, c, d : /\ [breakBlock |-> b, continueBlock |-> c, depth |-> d] # None
                  /\ Depth([breakBlock |-> b, continueBlock |-> c, depth |-> d]) = d
  /\ \A e, r : [env |-> e, rest |-> r] # None
  /\ \A s, e, r : [stmt |-> s, env |-> e, rest |-> r] # None
  BY DEF None, Depth

\* The rest of a suite is on the level of the statements around it.
LEMMA NestedSuite ==
  ASSUME NEW outer, IsLevel(outer), outer.asks = FALSE, NEW f, f.in = "suite",
         Allows(Legal, f.rest, outer.ctx)
  PROVE  Nested(f, Level(outer.env, outer.ctx, FALSE, Cons(SuiteItem(f.rest, outer.env), outer.rest)), outer)
  <1> DEFINE rest == Cons(SuiteItem(f.rest, outer.env), outer.rest)
             inner == Level(outer.env, outer.ctx, FALSE, rest)
  <1>1. Sequence(rest)
    BY ConsFacts DEF IsLevel
  <1>2. InSuiteFrame(f, inner, outer)
    BY DEF InSuiteFrame
  <1> HIDE DEF rest
  <1>3. IsLevel(inner)
    BY <1>1, LevelSuits, MakeLevel
  <1> HIDE DEF inner
  <1>4. Nested(f, inner, outer)
    BY <1>2, <1>3 DEF Nested
  <1>5. QED
    BY <1>4 DEF inner, rest

\* A condition is asked on its statement's level.
LEMMA NestedTest ==
  ASSUME NEW outer, IsLevel(outer), outer.asks = FALSE, NEW f, f.in = "test", LegalTest(f.stmt, outer.ctx)
  PROVE  Nested(f, Level(outer.env, outer.ctx, TRUE, Cons(TestItem(f.stmt, outer.env), outer.rest)), outer)
  <1> DEFINE rest == Cons(TestItem(f.stmt, outer.env), outer.rest)
             inner == Level(outer.env, outer.ctx, TRUE, rest)
  <1>1. Sequence(rest)
    BY ConsFacts DEF IsLevel
  <1>2. InTestFrame(f, inner, outer)
    BY DEF InTestFrame
  <1> HIDE DEF rest
  <1>3. IsLevel(inner)
    BY <1>1, LevelSuits, MakeLevel
  <1> HIDE DEF inner
  <1>4. Nested(f, inner, outer)
    BY <1>2, <1>3 DEF Nested
  <1>5. QED
    BY <1>4 DEF inner, rest

\* The environment in a loop's body.
LEMMA InLoopFacts ==
  ASSUME NEW item, NEW env, item.env = env, IsEnv(env), Around(env.loop, env.finallies), NEW rest
  PROVE  LET l == [breakBlock |-> rest, continueBlock |-> Cons(item, rest), depth |-> Depth(env.loop) + 1] IN
         /\ InLoopEnv(item, rest) = WithLoop(env, l) /\ l # None
         /\ Around(l, env.finallies)
         /\ \A i \in DOMAIN env.finallies : env.finallies[i].parentLoop # l
  <1> DEFINE l == [breakBlock |-> rest, continueBlock |-> Cons(item, rest), depth |-> Depth(env.loop) + 1]
  <1>1. InLoopEnv(item, rest) = WithLoop(env, l)
    BY DEF InLoopEnv
  <1>2. l # None /\ Depth(l) = Depth(env.loop) + 1
    BY NotNone
  <1> HIDE DEF l
  <1>3. Depth(env.loop) \in Nat /\ Depth(l) \in Nat
    BY <1>2 DEF Around
  <1>4. ASSUME NEW i \in DOMAIN env.finallies
        PROVE  /\ Depth(env.finallies[i].parentLoop) \in Nat
               /\ Depth(env.finallies[i].parentLoop) <= Depth(l)
               /\ Depth(env.finallies[i].parentLoop) # Depth(l)
    <2>1. /\ Depth(env.finallies[i].parentLoop) \in Nat
          /\ Depth(env.finallies[i].parentLoop) <= Depth(env.loop)
      BY DEF Around
    <2>2. QED
      BY <1>2, <1>3, <2>1
  <1>5. Around(l, env.finallies) /\ \A i \in DOMAIN env.finallies : env.finallies[i].parentLoop # l
    BY <1>3, <1>4 DEF Around
  <1>6. QED
    BY <1>1, <1>2, <1>5 DEF l

\* A loop's body has the loop's own blocks to jump to.
LEMMA NestedLoop ==
  ASSUME NEW outer, IsLevel(outer), outer.asks = FALSE, NEW f, f.in = "loop",
         f.stmt.kind \in {"while", "for"}, f.stmt \in Legal[outer.ctx]
  PROVE  LET item == TestItem(f.stmt, outer.env) IN
         Nested(f, Level(InLoopEnv(item, outer.rest), LoopCtx(outer.ctx), FALSE, Cons(item, outer.rest)), outer)
  <1> DEFINE item == TestItem(f.stmt, outer.env)
             rest == Cons(item, outer.rest)
             l == [breakBlock |-> outer.rest, continueBlock |-> rest, depth |-> Depth(outer.env.loop) + 1]
             env == WithLoop(outer.env, l)
             inner == Level(InLoopEnv(item, outer.rest), LoopCtx(outer.ctx), FALSE, rest)
  <1>1. Sequence(rest) /\ Sequence(outer.rest)
    BY ConsFacts DEF IsLevel
  <1>2. InLoopFrame(f, inner, outer)
    BY DEF InLoopFrame
  <1>3. item.env = outer.env
    BY DEF TestItem
  <1> HIDE DEF item
  <1>4. InLoopEnv(item, outer.rest) = env /\ l # None /\ Around(l, outer.env.finallies)
    BY <1>3, InLoopFacts DEF IsLevel
  <1>5. l.breakBlock = outer.rest /\ l.continueBlock = rest
    OBVIOUS
  <1> HIDE DEF l
  <1>6. /\ IsEnv(env) /\ env.loop = l /\ env.finallies = outer.env.finallies
        /\ env.handler = outer.env.handler
    BY EnvLoop DEF IsLevel
  <1>7. /\ LoopCtx(outer.ctx) \in Contexts /\ LoopCtx(outer.ctx).fin = outer.ctx.fin
    BY LoopCtxFacts DEF IsLevel
  <1> HIDE DEF env, rest
  <1>8. Suits(env, LoopCtx(outer.ctx))
    BY <1>1, <1>4, <1>5, <1>6, <1>7 DEF IsLevel, Suits
  <1>9. IsLevel(inner)
    BY <1>1, <1>4, <1>8, MakeLevel
  <1> HIDE DEF inner
  <1>10. Nested(f, inner, outer)
    BY <1>2, <1>9 DEF Nested
  <1>11. QED
    BY <1>10 DEF inner, rest, item

-----------------------------------------------------------------------------
(***************************************************************************)
(* The levels of a try statement, and of a call.                           *)
(***************************************************************************)
LegalStatement(s, ctx) == Regular(Legal, Programs) /\ ctx \in Contexts /\ s \in Legal[ctx]

\* What a try statement must have to be legal.
LEMMA TryRule ==
  ASSUME NEW ctx, NEW s, LegalStatement(s, ctx), s.kind = "try"
  PROVE  LET handler == HandlerCtx(Legal, s, ctx) IN
         /\ Allows(Legal, s.suite, SuiteCtx(Legal, s, ctx))
         /\ Len(s.excepts) \in Nat
         /\ \A i \in 1 .. Len(s.excepts) : /\ Answers(s.excepts[i].test, {"true", "false"}, handler.raise)
                                           /\ Allows(Legal, s.excepts[i].suite, handler)
         /\ Allows(Legal, s.exceptAll, handler)
         /\ Allows(Legal, s.orelse, ElseCtx(Legal, s, ctx))
         /\ Allows(Legal, s.finally, ctx)
  <1>1. Rule(Legal, s, ctx)
    BY DEF LegalStatement, Regular
  <1>2. QED
    BY <1>1, ZenonT(60) DEF Rule

\* An environment with the statement's finally clause suits a context inside of it.
LEMMA SuitsTry ==
  ASSUME NEW e, NEW ctx, Suits(e, ctx), NEW s, NEW inner, InTryContext(inner, s, ctx),
         NEW u, IsEnv(u), u.loop = e.loop, u.finallies = TryFinallies(s, e),
         u.handler # None => Sequence(u.handler.rest)
  PROVE  Suits(u, inner)
  <1>1. IsEnv(e) /\ Around(e.loop, e.finallies) /\ Depth(e.loop) \in Nat
    BY DEF Suits, Around
  <1>2. Around(u.loop, u.finallies)
    <2>1. Depth(e.loop) <= Depth(e.loop)
      BY <1>1
    <2>2. QED
      BY <1>1, <2>1, TryAround
  <1>3. ~inner.fin => u.finallies = <<>>
    BY DEF InTryContext, Suits, TryFinallies
  <1>4. inner \in Contexts /\ inner.jump = ctx.jump
    BY DEF InTryContext
  <1>5. QED
    BY <1>1, <1>2, <1>3, <1>4 DEF Suits

\* The environments inside of a try statement suit their contexts.
LEMMA TrySuits ==
  ASSUME NEW outer, IsLevel(outer), NEW s
  PROVE  /\ Suits(EnterTry(s, outer.env, outer.rest), SuiteCtx(Legal, s, outer.ctx))
         /\ Suits(EnterTry(s, outer.env, outer.rest), ElseCtx(Legal, s, outer.ctx))
         /\ Suits(Handled(s, outer.env), HandlerCtx(Legal, s, outer.ctx))
  <1> DEFINE e == outer.env
             ctx == outer.ctx
             inside == EnterTry(s, e, outer.rest)
             handled == Handled(s, e)
             a == SuiteCtx(Legal, s, ctx)
             b == HandlerCtx(Legal, s, ctx)
             c == ElseCtx(Legal, s, ctx)
  <1>1. Suits(e, ctx) /\ Sequence(outer.rest) /\ IsEnv(e) /\ ctx \in Contexts
    BY LevelSuits DEF Suits
  <1>2. InTryContext(a, s, ctx) /\ InTryContext(b, s, ctx) /\ InTryContext(c, s, ctx)
    BY <1>1, TryContexts
  <1>3. /\ IsEnv(inside) /\ inside.loop = e.loop /\ inside.finallies = TryFinallies(s, e)
        /\ inside.handler = HandlerOf(s, e, outer.rest)
    BY <1>1, EnterTryFacts
  <1>4. /\ IsEnv(handled) /\ handled.loop = e.loop /\ handled.finallies = TryFinallies(s, e)
        /\ handled.handler = e.handler
    BY <1>1, HandledFacts
  <1>5. inside.handler.rest = outer.rest
    BY <1>3 DEF HandlerOf
  <1> HIDE DEF inside, handled, a, b, c
  <1>6. Suits(inside, a) /\ Suits(inside, c)
    BY <1>1, <1>2, <1>3, <1>5, SuitsTry
  <1>7. handled.handler # None => Sequence(handled.handler.rest)
    BY <1>1, <1>4 DEF Suits
  <1>8. Suits(handled, b)
    BY <1>1, <1>2, <1>4, <1>7, SuitsTry
  <1>9. QED
    BY <1>6, <1>8 DEF inside, handled, a, b, c

\* The suite of a try statement.
LEMMA NestedTry ==
  ASSUME NEW outer, IsLevel(outer), outer.asks = FALSE, NEW f, f.in = "try", LegalTry(f.stmt, outer.ctx)
  PROVE  LET inside == EnterTry(f.stmt, outer.env, outer.rest) IN
         Nested(f, Level(inside, SuiteCtx(Legal, f.stmt, outer.ctx), FALSE,
                         Cons(SuiteItem(f.stmt.orelse, inside),
                              Cons(SuiteItem(f.stmt.finally, EnterFinally(f.stmt, inside)), outer.rest))),
                outer)
  <1> DEFINE inside == EnterTry(f.stmt, outer.env, outer.rest)
             a == SuiteItem(f.stmt.orelse, inside)
             b == SuiteItem(f.stmt.finally, EnterFinally(f.stmt, inside))
             rest == Cons(a, Cons(b, outer.rest))
             inner == Level(inside, SuiteCtx(Legal, f.stmt, outer.ctx), FALSE, rest)
  <1>1. InTryFrame(f, inner, outer)
    BY DEF InTryFrame
  <1>2. Suits(inside, SuiteCtx(Legal, f.stmt, outer.ctx))
    BY TrySuits
  <1> HIDE DEF inside, a, b
  <1>3. Sequence(rest)
    <2>1. Sequence(outer.rest)
      BY DEF IsLevel
    <2>2. QED
      BY <2>1, ConsFacts
  <1> HIDE DEF rest
  <1>4. IsLevel(inner)
    BY <1>2, <1>3, MakeLevel
  <1> HIDE DEF inner
  <1>5. Nested(f, inner, outer)
    BY <1>1, <1>4 DEF Nested
  <1>6. QED
    BY <1>5 DEF inner, rest, inside, a, b

\* The condition of an except clause.
LEMMA NestedExcept ==
  ASSUME NEW outer, IsLevel(outer), outer.asks = FALSE, NEW f, f.in = "except", LegalTry(f.stmt, outer.ctx),
         f.clause \in 1 .. Len(f.stmt.excepts), f.exception = Completed("raise", f.exception.what),
         f.stmt.exceptAll # <<>> \/ outer.ctx.escape
  PROVE  LET handled == Handled(f.stmt, outer.env) IN
         Nested(f, Level(handled, HandlerCtx(Legal, f.stmt, outer.ctx), TRUE,
                         Cons(ExceptItem(f.stmt, f.clause, f.exception.what, handled), outer.rest)), outer)
  <1> DEFINE handled == Handled(f.stmt, outer.env)
             a == ExceptItem(f.stmt, f.clause, f.exception.what, handled)
             rest == Cons(a, outer.rest)
             inner == Level(handled, HandlerCtx(Legal, f.stmt, outer.ctx), TRUE, rest)
  <1>1. InExceptFrame(f, inner, outer)
    BY DEF InExceptFrame
  <1>2. Suits(handled, HandlerCtx(Legal, f.stmt, outer.ctx))
    BY TrySuits
  <1> HIDE DEF handled, a
  <1>3. Sequence(rest)
    BY ConsFacts DEF IsLevel
  <1> HIDE DEF rest
  <1>4. IsLevel(inner)
    BY <1>2, <1>3, MakeLevel
  <1> HIDE DEF inner
  <1>5. Nested(f, inner, outer)
    BY <1>1, <1>4 DEF Nested
  <1>6. QED
    BY <1>5 DEF inner, rest, handled, a

\* A handler, or the else clause.
LEMMA NestedClause ==
  ASSUME NEW outer, IsLevel(outer), outer.asks = FALSE, NEW f, f.in = "clause", LegalTry(f.stmt, outer.ctx),
         NEW env, f.stmt.finally # <<>> => env = outer.env
  PROVE  LET rest == Cons(SuiteItem(f.stmt.finally, env), outer.rest) IN
         /\ Nested(f, Level(EnterTry(f.stmt, outer.env, outer.rest), ElseCtx(Legal, f.stmt, outer.ctx), FALSE, rest),
                   outer)
         /\ Nested(f, Level(Handled(f.stmt, outer.env), HandlerCtx(Legal, f.stmt, outer.ctx), FALSE, rest), outer)
  <1> DEFINE inside == EnterTry(f.stmt, outer.env, outer.rest)
             handled == Handled(f.stmt, outer.env)
             rest == Cons(SuiteItem(f.stmt.finally, env), outer.rest)
             a == ElseCtx(Legal, f.stmt, outer.ctx)
             b == HandlerCtx(Legal, f.stmt, outer.ctx)
  <1>1. Sequence(rest)
    BY ConsFacts DEF IsLevel
  <1>2. Suits(inside, a) /\ Suits(handled, b)
    BY TrySuits
  <1>3. ASSUME NEW e, NEW ctx, Suits(e, ctx), (e = inside /\ ctx = a) \/ (e = handled /\ ctx = b)
        PROVE  Nested(f, Level(e, ctx, FALSE, rest), outer)
    <2> DEFINE inner == Level(e, ctx, FALSE, rest)
    <2> HIDE DEF rest
    <2>1. inner.env = e /\ inner.ctx = ctx
      BY DEF Level
    <2>2. /\ (inner.env = inside /\ inner.ctx = a) \/ (inner.env = handled /\ inner.ctx = b)
          /\ inner = Level(inner.env, inner.ctx, FALSE, rest)
      BY <1>3, <2>1, ZenonT(60)
    <2>5. InClauseFrame(f, inner, outer)
      <3> HIDE DEF inner
      <3>1. QED
        BY <2>2, ZenonT(60) DEF InClauseFrame, rest, inside, handled, a, b
    <2>3. IsLevel(inner)
      BY <1>1, <1>3, MakeLevel
    <2> HIDE DEF inner
    <2>4. Nested(f, inner, outer)
      BY <2>3, <2>5 DEF Nested
    <2>6. QED
      BY <2>4 DEF inner
  <1> HIDE DEF inside, handled, rest, a, b
  <1>4. Nested(f, Level(inside, a, FALSE, rest), outer) /\ Nested(f, Level(handled, b, FALSE, rest), outer)
    BY <1>2, <1>3
  <1>5. QED
    BY <1>4 DEF inside, handled, rest, a, b

\* A call.
LEMMA NestedFunction ==
  ASSUME NEW outer, IsLevel(outer), outer.asks = FALSE, NEW f, f.in = "function"
  PROVE  LET inside == [TopLevel EXCEPT !.frame = [env |-> outer.env, rest |-> outer.rest]] IN
         /\ Nested(f, Level(inside, FunctionCtx(outer.ctx), FALSE, <<ReturnItem("", inside)>>), outer)
         /\ IsEnv(inside) /\ inside.loop = None /\ inside.finallies = <<>> /\ inside.handler = None
         /\ inside.frame = [env |-> outer.env, rest |-> outer.rest]
  <1> DEFINE frame == [env |-> outer.env, rest |-> outer.rest]
             inside == [TopLevel EXCEPT !.frame = frame]
             rest == <<ReturnItem("", inside)>>
             inner == Level(inside, FunctionCtx(outer.ctx), FALSE, rest)
  <1>1. InFunctionFrame(f, inner, outer)
    BY DEF InFunctionFrame
  <1>2. Sequence(rest) /\ Sequence(<<>>)
    BY EmptyFacts
  <1> HIDE DEF frame
  <1>3. /\ IsEnv(inside) /\ inside.loop = None /\ inside.finallies = <<>> /\ inside.handler = None
        /\ inside.frame = frame
    <2>1. inside = [loop |-> None, finallies |-> <<>>, handler |-> None, frame |-> frame]
      BY DEF TopLevel
    <2> HIDE DEF inside
    <2>2. QED
      BY <1>2, <2>1 DEF IsEnv
  <1> HIDE DEF rest, inside
  <1>4. Around(inside.loop, inside.finallies)
    BY <1>3 DEF Around, Depth
  <1>5. FunctionCtx(outer.ctx) \in Contexts /\ FunctionCtx(outer.ctx).jump = FALSE
    BY FunctionCtxFacts DEF IsLevel
  <1>6. Suits(inside, FunctionCtx(outer.ctx))
    BY <1>3, <1>4, <1>5 DEF Suits
  <1>7. IsLevel(inner)
    BY <1>2, <1>6, MakeLevel
  <1> HIDE DEF inner
  <1>8. Nested(f, inner, outer)
    BY <1>1, <1>7 DEF Nested
  <1>9. QED
    BY <1>3, <1>8 DEF inner, rest, inside, frame

-----------------------------------------------------------------------------
(***************************************************************************)
(* Exceptions and jumps.                                                   *)
(***************************************************************************)
\* The except clauses, as code.
LEMMA ExceptsSequence ==
  ASSUME NEW s, NEW clause, NEW exception, NEW env, NEW rest, Sequence(rest)
  PROVE  Sequence(Excepts(s, clause, exception, env, rest))
  <1> DEFINE a == ExceptItem(s, clause, exception, env)
             b == SuiteItem(s.exceptAll, env)
             c == SuiteItem(s.finally, EnterFinally(s, env))
             d == RaiseItem(exception, env)
  <1>1. \/ Excepts(s, clause, exception, env, rest) = Cons(a, rest)
        \/ Excepts(s, clause, exception, env, rest) = Cons(b, Cons(c, rest))
        \/ Excepts(s, clause, exception, env, rest) = <<c, d>>
    <2> HIDE DEF a, b, c, d
    <2>1. QED
      BY DEF Excepts, a, b, c, d
  <1> HIDE DEF a, b, c, d
  <1>2. Sequence(Cons(a, rest)) /\ Sequence(Cons(b, Cons(c, rest))) /\ Sequence(<<c, d>>)
    BY ConsFacts, EmptyFacts
  <1>3. QED
    BY <1>1, <1>2

\* An exception, as code.
LEMMA RaiseSequence ==
  ASSUME NEW env, NEW ctx, Suits(env, ctx), NEW exception
  PROVE  Sequence(RaiseException(exception, env)) /\ Sequence(<<RaiseItem(exception, env)>>)
  <1>1. Sequence(<<RaiseItem(exception, env)>>)
    BY EmptyFacts
  <1>2. CASE env.handler = None
    BY <1>1, <1>2 DEF RaiseException
  <1>3. CASE env.handler # None
    <2>1. Sequence(env.handler.rest)
      BY <1>3 DEF Suits
    <2>2. QED
      BY <1>1, <1>3, <2>1, ExceptsSequence DEF RaiseException
  <1>4. QED
    BY <1>2, <1>3

\* What leaves the level, as code.
LEMMA AbruptSequence ==
  ASSUME NEW env, NEW ctx, Suits(env, ctx), NEW c, NEW after, Abrupt(c, after, env, ctx)
  PROVE  Sequence(after)
  <1>1. CASE Raises(c, after, env, ctx)
    BY <1>1, RaiseSequence DEF Raises
  <1>2. IsEnv(env) /\ Sequence(ExecuteFinallyBlocks(env, FALSE)) /\ Sequence(<<ReturnItem(c.what, env)>>)
    BY CopiesSequence, EmptyFacts DEF Suits
  <1>3. CASE Jumps(c, after, env, ctx)
    <2>1. Sequence(env.loop.breakBlock) /\ Sequence(env.loop.continueBlock)
      BY <1>3 DEF Jumps, Suits
    <2>2. /\ Sequence(ExecuteFinallyBlocks(env, FALSE) \o env.loop.breakBlock)
          /\ Sequence(ExecuteFinallyBlocks(env, FALSE) \o env.loop.continueBlock)
      BY <1>2, <2>1, ConsConcat
    <2>3. QED
      BY <1>3, <2>2 DEF Jumps
  <1>4. CASE ReturnsNone(c, after, env, ctx)
    BY <1>2, <1>4, ConsConcat DEF ReturnsNone
  <1>5. CASE ReturnsValue(c, after, env, ctx)
    <2>1. PICK loop : after = ExecuteFinallyBlocks(WithLoop(env, loop), TRUE) \o <<ReturnItem(c.what, env)>>
      BY <1>5 DEF ReturnsValue
    <2>2. IsEnv(WithLoop(env, loop))
      BY <1>2, EnvLoop
    <2>3. Sequence(ExecuteFinallyBlocks(WithLoop(env, loop), TRUE))
      BY <2>2, CopiesSequence
    <2>4. QED
      BY <1>2, <2>1, <2>3, ConsConcat
  <1>6. QED
    BY <1>1, <1>3, <1>4, <1>5 DEF Abrupt

\* What leaves the function depends on the caller, and an exception on the handler.
LEMMA RaiseSame ==
  ASSUME NEW e, NEW u, e.frame = u.frame, NEW what
  PROVE  /\ RaiseItem(what, e) = RaiseItem(what, u) /\ ReturnItem(what, e) = ReturnItem(what, u)
         /\ e.handler = u.handler => RaiseException(what, e) = RaiseException(what, u)
  <1>1. RaiseItem(what, e) = RaiseItem(what, u) /\ ReturnItem(what, e) = ReturnItem(what, u)
    BY DEF RaiseItem, ReturnItem, Leaving
  <1>2. e.handler = u.handler => RaiseException(what, e) = RaiseException(what, u)
    BY <1>1, ZenonT(60) DEF RaiseException
  <1>3. QED
    BY <1>1, <1>2

\* A finally clause, with what is to be done behind it.
LEMMA NestedFinally ==
  ASSUME NEW outer, IsLevel(outer), outer.asks = FALSE, NEW f, f.in = "finally", NEW rest,
         (f.pending = Normally /\ rest = outer.rest) \/ Abrupt(f.pending, rest, outer.env, outer.ctx)
  PROVE  /\ Nested(f, Level(outer.env, outer.ctx, FALSE, rest), outer)
         /\ f.pending.how = "return" /\ outer.ctx.value /\ outer.ctx.plain =>
              \A loop : Around(loop, outer.env.finallies) =>
                Nested(f, Level(WithLoop(outer.env, loop), Plain(outer.ctx), FALSE, rest), outer)
  <1>1. Suits(outer.env, outer.ctx) /\ Sequence(rest)
    BY LevelSuits, AbruptSequence
  <1>2. Nested(f, Level(outer.env, outer.ctx, FALSE, rest), outer)
    <2> DEFINE inner == Level(outer.env, outer.ctx, FALSE, rest)
    <2>1. IsLevel(inner)
      BY <1>1, MakeLevel
    <2>2. inner.env = outer.env /\ inner.ctx = outer.ctx /\ inner.rest = rest
      BY DEF Level
    <2>3. inner = Level(inner.env, inner.ctx, FALSE, inner.rest)
      BY <2>2
    <2> HIDE DEF inner
    <2>4. InFinallyFrame(f, inner, outer)
      BY <2>2, <2>3, ZenonT(60) DEF InFinallyFrame
    <2>5. Nested(f, inner, outer)
      BY <2>1, <2>4 DEF Nested
    <2>6. QED
      BY <2>5 DEF inner
  <1>3. ASSUME f.pending.how = "return", outer.ctx.value, outer.ctx.plain,
               NEW loop, Around(loop, outer.env.finallies)
        PROVE  Nested(f, Level(WithLoop(outer.env, loop), Plain(outer.ctx), FALSE, rest), outer)
    <2> DEFINE env == WithLoop(outer.env, loop)
               ctx == Plain(outer.ctx)
               inner == Level(env, ctx, FALSE, rest)
    <2>1. /\ IsEnv(env) /\ env.loop = loop /\ env.finallies = outer.env.finallies
          /\ env.handler = outer.env.handler
      BY <1>1, EnvLoop DEF Suits
    <2>2. ctx \in Contexts /\ ctx.jump = FALSE /\ ctx.fin = outer.ctx.fin
      BY <1>1, PlainFacts DEF Suits
    <2>3. inner.env = env /\ inner.ctx = ctx /\ inner.rest = rest
      BY DEF Level
    <2>4. inner = Level(inner.env, inner.ctx, FALSE, inner.rest) /\ inner.env = WithLoop(outer.env, inner.env.loop)
      BY <2>1, <2>3
    <2>5. Suits(env, ctx)
      <3> HIDE DEF env, ctx
      <3>1. QED
        BY <1>1, <1>3, <2>1, <2>2 DEF Suits
    <2>6. IsLevel(inner)
      BY <1>1, <2>5, MakeLevel
    <2> HIDE DEF inner, env
    <2>7. InFinallyFrame(f, inner, outer)
      BY <1>3, <2>3, <2>4, ZenonT(60) DEF InFinallyFrame
    <2>8. Nested(f, inner, outer)
      BY <2>6, <2>7 DEF Nested
    <2>9. QED
      BY <2>8 DEF inner, env
  <1>4. QED
    BY <1>2, <1>3

-----------------------------------------------------------------------------
(***************************************************************************)
(* The ways out of a try statement.                                        *)
(***************************************************************************)
\* The parts of a state of Python.
LEMMA StateFields ==
  ASSUME NEW now, NEW stack
  PROVE  /\ State(now, stack).now = now /\ State(now, stack).stack = stack
         /\ State(now, stack) = State(State(now, stack).now, State(now, stack).stack)
  BY DEF State

\* A state is related by its level.
LEMMA RelatedBy ==
  ASSUME NEW now, NEW stack, NEW after, NEW level, On(stack, level), Fits(after, now, level)
  PROVE  Related(after, State(now, stack))
  <1> DEFINE q == State(now, stack)
  <1>1. q.now = now /\ q.stack = stack /\ q = State(q.now, q.stack)
    BY StateFields
  <1> HIDE DEF q
  <1>2. Related(after, q)
    BY <1>1 DEF Related
  <1>3. QED
    BY <1>2 DEF q

\* What the code does before and after a finally clause.
Behind(c, rest, outer) == (c = Normally /\ rest = outer.rest) \/ Abrupt(c, rest, outer.env, outer.ctx)

\* The finally clause is run where the statement stands.
LEMMA ToFinally ==
  ASSUME NEW stack, NEW outer, On(stack, outer), outer.asks = FALSE,
         NEW s, LegalStatement(s, outer.ctx), s.kind = "try",
         NEW c, NEW rest, Behind(c, rest, outer), NEW after,
         \/ \E env : (s.finally # <<>> => env = outer.env) /\ after = Cons(SuiteItem(s.finally, env), rest)
         \/ s.finally = <<>> /\ after = rest
  PROVE  Related(after, PyFinally(s, c, stack))
  <1> DEFINE f == [in |-> "finally", pending |-> c]
             level == Level(outer.env, outer.ctx, FALSE, rest)
             now == InSuite(s.finally)
  <1>1. f.in = "finally" /\ f.pending = c
    OBVIOUS
  <1>2. level.env = outer.env /\ level.ctx = outer.ctx /\ level.asks = FALSE /\ level.rest = rest
    BY DEF Level
  <1>3. now.kind = "suite" /\ now.suite = s.finally
    BY DEF InSuite
  <1>4. Allows(Legal, s.finally, outer.ctx)
    BY TryRule
  <1>5. PyFinally(s, c, stack) = State(now, Cons(f, stack))
    BY DEF PyFinally
  <1> HIDE DEF f
  <1>6. Nested(f, level, outer)
    BY <1>1, NestedFinally DEF Behind, On
  <1> HIDE DEF level
  <1>7. On(Cons(f, stack), level)
    BY <1>6, OnPush
  <1>8. now = InSuite(now.suite)
    BY <1>3
  <1> HIDE DEF now
  <1>9. FitsSuite(after, now, level)
    BY <1>2, <1>3, <1>4, <1>8, ZenonT(60) DEF FitsSuite
  <1>10. QED
    BY <1>5, <1>7, <1>9, RelatedBy DEF Fits

\* It is run with the loop that a return of a value comes from.
LEMMA ToPlainFinally ==
  ASSUME NEW stack, NEW outer, On(stack, outer), outer.asks = FALSE, NEW s,
         NEW c, c.how = "return", outer.ctx.value, outer.ctx.plain, Allows(Legal, s.finally, Plain(outer.ctx)),
         NEW rest, Abrupt(c, rest, outer.env, outer.ctx), NEW loop, Around(loop, outer.env.finallies)
  PROVE  Related(Cons(SuiteItem(s.finally, WithLoop(outer.env, loop)), rest), PyFinally(s, c, stack))
  <1> DEFINE f == [in |-> "finally", pending |-> c]
             env == WithLoop(outer.env, loop)
             ctx == Plain(outer.ctx)
             level == Level(env, ctx, FALSE, rest)
             now == InSuite(s.finally)
             after == Cons(SuiteItem(s.finally, env), rest)
  <1>1. f.in = "finally" /\ f.pending = c
    OBVIOUS
  <1>2. level.env = env /\ level.ctx = ctx /\ level.asks = FALSE /\ level.rest = rest
    BY DEF Level
  <1>3. now.kind = "suite" /\ now.suite = s.finally
    BY DEF InSuite
  <1>4. PyFinally(s, c, stack) = State(now, Cons(f, stack))
    BY DEF PyFinally
  <1> HIDE DEF f
  <1>5. Nested(f, level, outer)
    BY <1>1, NestedFinally DEF On
  <1> HIDE DEF level, env, ctx
  <1>6. On(Cons(f, stack), level)
    BY <1>5, OnPush
  <1>7. now = InSuite(now.suite) /\ after = Cons(SuiteItem(now.suite, env), rest)
    BY <1>3
  <1>8. Allows(Legal, now.suite, ctx)
    BY <1>3 DEF ctx
  <1> HIDE DEF now, after
  <1>9. FitsSuite(after, now, level)
    BY <1>2, <1>3, <1>7, <1>8, ZenonT(60) DEF FitsSuite
  <1>10. Related(after, PyFinally(s, c, stack))
    BY <1>4, <1>6, <1>9, RelatedBy DEF Fits
  <1>11. QED
    BY <1>10 DEF after, env

\* The clauses around a try statement are left from the same loop.
LEMMA AroundOuter ==
  ASSUME NEW e, IsEnv(e), NEW s, NEW loop, Around(loop, TryFinallies(s, e))
  PROVE  Around(loop, e.finallies)
  <1>1. CASE s.finally = <<>>
    BY <1>1 DEF TryFinallies
  <1>2. CASE s.finally # <<>>
    <2> DEFINE F == e.finallies
               G == Append(F, Own(s, e))
               m == Len(F)
    <2>1. /\ m \in Nat /\ DOMAIN F = 1 .. m /\ DOMAIN G = 1 .. m + 1
          /\ \A i \in 1 .. m : G[i] = F[i]
      BY OneMoreClause DEF IsEnv
    <2>2. TryFinallies(s, e) = G
      BY <1>2 DEF TryFinallies
    <2> HIDE DEF F, G, m
    <2>3. \A i \in 1 .. m : i \in 1 .. m + 1
      BY <2>1
    <2>4. Around(loop, F)
      BY <2>1, <2>2, <2>3 DEF Around
    <2>5. QED
      BY <2>4 DEF F
  <1>3. QED
    BY <1>1, <1>2

\* A jump out of it, up to where it goes.
LEMMA LeavesOwnThen ==
  ASSUME NEW e, IsEnv(e), NEW s, s.finally # <<>>, NEW u, IsEnv(u),
         u.frame = e.frame, u.finallies = TryFinallies(s, e), NEW full, full \/ u.loop = e.loop,
         NEW w, w = WithLoop(e, u.loop), NEW block, Sequence(block)
  PROVE  ExecuteFinallyBlocks(u, full) \o block
           = Cons(SuiteItem(s.finally, w), ExecuteFinallyBlocks(w, full) \o block)
  <1> DEFINE a == SuiteItem(s.finally, w)
             x == ExecuteFinallyBlocks(w, full)
  <1>1. ExecuteFinallyBlocks(u, full) = Cons(a, x)
    BY LeavesOwnFirst
  <1>2. Sequence(x)
    BY EnvLoop, CopiesSequence
  <1> HIDE DEF a, x
  <1>3. Cons(a, x) \o block = Cons(a, x \o block)
    BY <1>2, ConsConcat
  <1>4. QED
    BY <1>1, <1>3 DEF a, x

\* An environment inside of a try statement with a finally clause.
Within(u, s, e) == IsEnv(e) /\ s.finally # <<>> /\ IsEnv(u) /\ u.frame = e.frame /\ u.finallies = TryFinallies(s, e)

\* What a jump generates: the clauses it leaves, and where it goes.
Leave(env, fullUnwind, block) == ExecuteFinallyBlocks(env, fullUnwind) \o block

\* A loop's jump out of it, and a return of a value.
LeavesWithin(u, s, e, block) ==
  /\ u.loop = e.loop => Leave(u, FALSE, block) = Cons(SuiteItem(s.finally, e), Leave(e, FALSE, block))
  /\ Leave(u, TRUE, block)
       = Cons(SuiteItem(s.finally, WithLoop(e, u.loop)), Leave(WithLoop(e, u.loop), TRUE, block))

\* The clause is the first that a jump out of its statement runs.
LEMMA WithinLeaves ==
  ASSUME NEW e, NEW s, NEW u, Within(u, s, e), NEW block, Sequence(block)
  PROVE  LeavesWithin(u, s, e, block)
  <1>1. IsEnv(e) /\ s.finally # <<>> /\ IsEnv(u) /\ u.frame = e.frame /\ u.finallies = TryFinallies(s, e)
    BY DEF Within
  <1> DEFINE w == WithLoop(e, u.loop)
  <1>2. w = WithLoop(e, u.loop) /\ (u.loop = e.loop => w = e)
    BY <1>1, EnvLoop, EnvEqual
  <1> HIDE DEF w
  <1>3. ASSUME NEW full, full \/ u.loop = e.loop
        PROVE  Leave(u, full, block) = Cons(SuiteItem(s.finally, w), Leave(w, full, block))
    BY <1>1, <1>2, <1>3, LeavesOwnThen DEF Leave
  <1>4. u.loop = e.loop => Leave(u, FALSE, block) = Cons(SuiteItem(s.finally, e), Leave(e, FALSE, block))
    BY <1>2, <1>3
  <1>5. Leave(u, TRUE, block) = Cons(SuiteItem(s.finally, w), Leave(w, TRUE, block))
    BY <1>3
  <1>6. QED
    BY <1>4, <1>5 DEF w, LeavesWithin

\* A jump leaves the suite or a clause.
LEMMA JumpOut ==
  ASSUME NEW stack, NEW outer, On(stack, outer), outer.asks = FALSE,
         NEW s, LegalStatement(s, outer.ctx), s.kind = "try",
         NEW u, IsEnv(u), u.loop = outer.env.loop, u.frame = outer.env.frame,
         u.finallies = TryFinallies(s, outer.env),
         NEW ctx, InTryContext(ctx, s, outer.ctx),
         NEW c, NEW after, Abrupt(c, after, u, ctx), c.how # "raise"
  PROVE  Related(after, PyFinally(s, c, stack))
  <1> DEFINE e == outer.env
  <1>1. IsEnv(e) /\ IsLevel(outer) /\ Suits(e, outer.ctx)
    BY LevelSuits DEF On, IsLevel
  <1>2. WithLoop(e, e.loop) = e
    BY <1>1, EnvLoop, EnvEqual
  <1>3. c = Completed(c.how, c.what) /\ c.kind = "completed"
    BY DEF Abrupt
  <1>4. ReturnItem(c.what, u) = ReturnItem(c.what, e)
    BY RaiseSame
  <1>5. ASSUME NEW block, Sequence(block), after = ExecuteFinallyBlocks(u, FALSE) \o block,
               Abrupt(c, ExecuteFinallyBlocks(e, FALSE) \o block, e, outer.ctx)
        PROVE  Related(after, PyFinally(s, c, stack))
    <2> DEFINE rest == ExecuteFinallyBlocks(e, FALSE) \o block
    <2>1. CASE s.finally = <<>>
      <3>1. u.finallies = e.finallies
        BY <2>1 DEF TryFinallies
      <3>2. after = rest
        BY <1>1, <1>5, <3>1, CopiesSame, ZenonT(60)
      <3> HIDE DEF e
      <3>3. Behind(c, rest, outer)
        BY <1>5 DEF Behind, e
      <3> HIDE DEF rest
      <3>4. QED
        BY <2>1, <3>2, <3>3, ToFinally
    <2>2. CASE s.finally # <<>>
      <3>1. u.finallies = TryFinallies(s, e) /\ u.loop = e.loop /\ u.frame = e.frame
        OBVIOUS
      <3>2. e = WithLoop(e, u.loop)
        BY <1>2
      <3> HIDE DEF e
      <3>3. after = Cons(SuiteItem(s.finally, e), rest)
        <4>1. Within(u, s, e)
          BY <1>1, <2>2, <3>1 DEF Within
        <4>2. LeavesWithin(u, s, e, block)
          BY <1>5, <4>1, WithinLeaves
        <4>3. Leave(u, FALSE, block) = Cons(SuiteItem(s.finally, e), Leave(e, FALSE, block))
          BY <3>1, <4>2 DEF LeavesWithin
        <4>4. QED
          BY <1>5, <4>3 DEF Leave
      <3> USE DEF e
      <3>4. Behind(c, rest, outer)
        BY <1>5 DEF Behind
      <3> HIDE DEF rest
      <3>5. QED
        BY <2>2, <3>3, <3>4, ToFinally
    <2>3. QED
      BY <2>1, <2>2
  <1>6. CASE Jumps(c, after, u, ctx)
    <2>1. outer.ctx.jump /\ Sequence(e.loop.breakBlock) /\ Sequence(e.loop.continueBlock)
      BY <1>1, <1>6 DEF Jumps, InTryContext, Suits
    <2>2. CASE c.how = "break" /\ after = ExecuteFinallyBlocks(u, FALSE) \o u.loop.breakBlock
      <3>1. Abrupt(c, ExecuteFinallyBlocks(e, FALSE) \o e.loop.breakBlock, e, outer.ctx)
        BY <1>3, <2>1, <2>2 DEF Abrupt, Jumps
      <3>2. QED
        BY <1>5, <2>1, <2>2, <3>1
    <2>3. CASE c.how = "continue" /\ after = ExecuteFinallyBlocks(u, FALSE) \o u.loop.continueBlock
      <3>1. Abrupt(c, ExecuteFinallyBlocks(e, FALSE) \o e.loop.continueBlock, e, outer.ctx)
        BY <1>3, <2>1, <2>3 DEF Abrupt, Jumps
      <3>2. QED
        BY <1>5, <2>1, <2>3, <3>1
    <2>4. QED
      BY <1>6, <2>2, <2>3 DEF Jumps
  <1>7. CASE ReturnsNone(c, after, u, ctx)
    <2>1. c.how = "return" /\ outer.ctx.bare /\ after = ExecuteFinallyBlocks(u, FALSE) \o <<ReturnItem(c.what, e)>>
      BY <1>4, <1>7 DEF ReturnsNone, InTryContext
    <2>2. Abrupt(c, ExecuteFinallyBlocks(e, FALSE) \o <<ReturnItem(c.what, e)>>, e, outer.ctx)
      BY <1>3, <2>1 DEF Abrupt, ReturnsNone
    <2>3. Sequence(<<ReturnItem(c.what, e)>>)
      BY EmptyFacts
    <2>4. QED
      BY <1>5, <2>1, <2>2, <2>3
  <1>8. CASE ReturnsValue(c, after, u, ctx)
    <2> DEFINE last == <<ReturnItem(c.what, e)>>
    <2>1. PICK loop : /\ loop = u.loop \/ ctx.plain
                      /\ Around(loop, u.finallies)
                      /\ after = ExecuteFinallyBlocks(WithLoop(u, loop), TRUE) \o last
      BY <1>4, <1>8 DEF ReturnsValue
    <2>2. c.how = "return" /\ outer.ctx.value
      BY <1>8 DEF ReturnsValue, InTryContext
    <2>3. loop = e.loop \/ (outer.ctx.plain /\ Allows(Legal, s.finally, Plain(outer.ctx)))
      BY <2>1 DEF InTryContext
    <2>4. Around(loop, e.finallies)
      BY <1>1, <2>1, AroundOuter
    <2> DEFINE rest == ExecuteFinallyBlocks(WithLoop(e, loop), TRUE) \o last
    <2>5. Abrupt(c, rest, e, outer.ctx)
      <3>1. ReturnsValue(c, rest, e, outer.ctx)
        BY <2>2, <2>3, <2>4 DEF ReturnsValue
      <3>2. QED
        BY <1>3, <3>1 DEF Abrupt
    <2>6. /\ IsEnv(WithLoop(u, loop)) /\ WithLoop(u, loop).loop = loop /\ WithLoop(u, loop).frame = e.frame
          /\ WithLoop(u, loop).finallies = u.finallies
      BY EnvLoop
    <2>7. /\ IsEnv(WithLoop(e, loop)) /\ WithLoop(e, loop).loop = loop /\ WithLoop(e, loop).frame = e.frame
          /\ WithLoop(e, loop).finallies = e.finallies
      BY <1>1, EnvLoop
    <2>8. CASE s.finally = <<>>
      <3>1. u.finallies = e.finallies
        BY <2>8 DEF TryFinallies
      <3>2. ExecuteFinallyBlocks(WithLoop(u, loop), TRUE) = ExecuteFinallyBlocks(WithLoop(e, loop), TRUE)
        BY <2>6, <2>7, <3>1, CopiesSame, ZenonT(60)
      <3>3. after = rest
        BY <2>1, <3>2
      <3>4. Behind(c, rest, outer)
        BY <2>5 DEF Behind
      <3> HIDE DEF rest
      <3>5. QED
        BY <2>8, <3>3, <3>4, ToFinally
    <2>9. CASE s.finally # <<>>
      <3> DEFINE w == WithLoop(u, loop)
      <3>1. /\ IsEnv(w) /\ w.loop = loop /\ w.frame = e.frame
            /\ w.finallies = TryFinallies(s, e)
        BY <2>6
      <3> HIDE DEF w
      <3>2. after = ExecuteFinallyBlocks(w, TRUE) \o last
        BY <2>1 DEF w
      <3>3. Sequence(last)
        BY EmptyFacts
      <3>4. after = Cons(SuiteItem(s.finally, WithLoop(e, loop)), rest)
        <4> DEFINE v == WithLoop(e, loop)
        <4> HIDE DEF e, last
        <4>1. Within(w, s, e) /\ w.loop = loop
          BY <1>1, <2>9, <3>1 DEF Within
        <4>2. LeavesWithin(w, s, e, last)
          BY <3>3, <4>1, WithinLeaves
        <4>3. Leave(w, TRUE, last) = Cons(SuiteItem(s.finally, v), Leave(v, TRUE, last))
          BY <4>1, <4>2 DEF LeavesWithin
        <4>4. QED
          BY <3>2, <4>3 DEF Leave
      <3> HIDE DEF rest
      <3>5. CASE loop = e.loop
        <4>1. after = Cons(SuiteItem(s.finally, e), rest)
          BY <1>2, <3>4, <3>5
        <4>2. Behind(c, rest, outer)
          BY <2>5 DEF Behind
        <4>3. QED
          BY <2>9, <4>1, <4>2, ToFinally
      <3>6. CASE loop # e.loop
        BY <2>2, <2>3, <2>4, <2>5, <3>4, <3>6, ToPlainFinally
      <3>7. QED
        BY <3>5, <3>6
    <2>10. QED
      BY <2>8, <2>9
  <1>9. QED
    BY <1>6, <1>7, <1>8 DEF Abrupt, Raises

\* An exception leaves a clause, past a finally clause that is not there.
LEMMA RaiseOut ==
  ASSUME NEW stack, NEW outer, On(stack, outer), outer.asks = FALSE,
         NEW s, LegalStatement(s, outer.ctx), s.kind = "try",
         NEW u, u.frame = outer.env.frame, NEW ctx,
         ctx.raise => s.finally = <<>> /\ outer.ctx.raise /\ u.handler = outer.env.handler,
         ctx.escape => s.finally = <<>> /\ outer.ctx.escape,
         NEW c, NEW after, Abrupt(c, after, u, ctx), c.how = "raise"
  PROVE  Related(after, PyFinally(s, c, stack))
  <1> DEFINE e == outer.env
  <1>1. Raises(c, after, u, ctx) /\ c = Completed(c.how, c.what) /\ c.kind = "completed"
    BY DEF Abrupt, Jumps, ReturnsNone, ReturnsValue
  <1>2. s.finally = <<>>
    BY <1>1 DEF Raises
  <1>3. Raises(c, after, e, outer.ctx)
    <2>1. CASE ctx.raise /\ after = RaiseException(c.what, u)
      BY <2>1, RaiseSame DEF Raises
    <2>2. CASE ctx.escape /\ after = <<RaiseItem(c.what, u)>>
      BY <2>2, RaiseSame DEF Raises
    <2>3. QED
      BY <1>1, <2>1, <2>2 DEF Raises
  <1>4. Behind(c, after, outer)
    BY <1>1, <1>3 DEF Behind, Abrupt
  <1>5. QED
    BY <1>2, <1>4, ToFinally

\* A handler, or the else clause, is left.
LEMMA ClauseOut ==
  ASSUME NEW stack, NEW outer, On(stack, outer), outer.asks = FALSE,
         NEW s, LegalStatement(s, outer.ctx), s.kind = "try", NEW u, NEW ctx,
         \/ u = EnterTry(s, outer.env, outer.rest) /\ ctx = ElseCtx(Legal, s, outer.ctx)
         \/ u = Handled(s, outer.env) /\ ctx = HandlerCtx(Legal, s, outer.ctx),
         NEW c, NEW after, Abrupt(c, after, u, ctx)
  PROVE  Related(after, PyFinally(s, c, stack))
  <1> DEFINE e == outer.env
  <1>1. IsEnv(e) /\ outer.ctx \in Contexts
    BY DEF On, IsLevel
  <1>2. CASE u = EnterTry(s, e, outer.rest) /\ ctx = ElseCtx(Legal, s, outer.ctx)
    <2>1. /\ IsEnv(u) /\ u.loop = e.loop /\ u.frame = e.frame /\ u.finallies = TryFinallies(s, e)
      BY <1>1, <1>2, TryEnv
    <2>2. /\ InTryContext(ctx, s, outer.ctx) /\ ctx.raise = FALSE
          /\ ctx.escape = (outer.ctx.escape /\ s.finally = <<>>)
      BY <1>1, <1>2, TryContexts, ZenonT(60)
    <2>3. c.how = "raise" => Related(after, PyFinally(s, c, stack))
      BY <2>1, <2>2, RaiseOut
    <2>4. c.how # "raise" => Related(after, PyFinally(s, c, stack))
      BY <2>1, <2>2, JumpOut
    <2>5. QED
      BY <2>3, <2>4
  <1>3. CASE u = Handled(s, e) /\ ctx = HandlerCtx(Legal, s, outer.ctx)
    <2>1. /\ IsEnv(u) /\ u.loop = e.loop /\ u.frame = e.frame /\ u.finallies = TryFinallies(s, e)
          /\ u.handler = e.handler
      BY <1>1, <1>3, HandledFacts, ZenonT(60)
    <2>2. /\ InTryContext(ctx, s, outer.ctx) /\ ctx.raise = (outer.ctx.raise /\ s.finally = <<>>)
          /\ ctx.escape = (outer.ctx.escape /\ s.finally = <<>>)
      BY <1>1, <1>3, TryContexts, ZenonT(60)
    <2>3. c.how = "raise" => Related(after, PyFinally(s, c, stack))
      BY <2>1, <2>2, RaiseOut
    <2>4. c.how # "raise" => Related(after, PyFinally(s, c, stack))
      BY <2>1, <2>2, JumpOut
    <2>5. QED
      BY <2>3, <2>4
  <1>4. QED
    BY <1>2, <1>3

\* The finally clause behind the except clauses has the environment of the statement.
LEMMA FinallyEnv ==
  ASSUME NEW e, IsEnv(e), NEW s, s.finally # <<>>, NEW rest
  PROVE  EnterFinally(s, Handled(s, e)) = e /\ EnterFinally(s, EnterTry(s, e, rest)) = e
  <1> DEFINE g == Handled(s, e)
             h == EnterTry(s, e, rest)
  <1>1. IsEnv(g) /\ g.loop = e.loop /\ g.frame = e.frame /\ g.finallies = TryFinallies(s, e)
    BY HandledFacts
  <1>2. IsEnv(h) /\ h.loop = e.loop /\ h.frame = e.frame /\ h.finallies = TryFinallies(s, e)
    BY TryEnv
  <1> HIDE DEF g, h
  <1>3. EnterFinally(s, g) = e /\ EnterFinally(s, h) = e
    BY <1>1, <1>2, EnterFinallyFacts
  <1>4. QED
    BY <1>3 DEF g, h

\* A clause of a try statement is run.
LEMMA ToClause ==
  ASSUME NEW stack, NEW outer, On(stack, outer), outer.asks = FALSE,
         NEW s, LegalStatement(s, outer.ctx), s.kind = "try", NEW u, NEW ctx,
         \/ u = EnterTry(s, outer.env, outer.rest) /\ ctx = ElseCtx(Legal, s, outer.ctx)
         \/ u = Handled(s, outer.env) /\ ctx = HandlerCtx(Legal, s, outer.ctx),
         NEW suite, Allows(Legal, suite, ctx)
  PROVE  Related(Cons(SuiteItem(suite, u), Cons(SuiteItem(s.finally, EnterFinally(s, u)), outer.rest)),
                 State(InSuite(suite), Cons(Frame("clause", s), stack)))
  <1> DEFINE f == Frame("clause", s)
             env == EnterFinally(s, u)
             rest == Cons(SuiteItem(s.finally, env), outer.rest)
             level == Level(u, ctx, FALSE, rest)
             now == InSuite(suite)
             after == Cons(SuiteItem(suite, u), rest)
  <1>1. f.in = "clause" /\ f.stmt = s
    BY DEF Frame
  <1>2. s.finally # <<>> => env = outer.env
    BY FinallyEnv DEF On, IsLevel
  <1>3. LegalTry(s, outer.ctx)
    BY DEF LegalStatement, LegalTry
  <1> HIDE DEF f, env
  <1>4. /\ Nested(f, Level(EnterTry(s, outer.env, outer.rest), ElseCtx(Legal, s, outer.ctx), FALSE, rest), outer)
        /\ Nested(f, Level(Handled(s, outer.env), HandlerCtx(Legal, s, outer.ctx), FALSE, rest), outer)
    BY <1>1, <1>2, <1>3, NestedClause DEF On
  <1> HIDE DEF rest
  <1>5. Nested(f, level, outer)
    BY <1>4, ZenonT(60)
  <1>6. level.env = u /\ level.ctx = ctx /\ level.asks = FALSE /\ level.rest = rest
    BY DEF Level
  <1> HIDE DEF level
  <1>7. On(Cons(f, stack), level)
    BY <1>5, OnPush
  <1>8. now.kind = "suite" /\ now.suite = suite
    BY DEF InSuite
  <1>9. now = InSuite(now.suite) /\ after = Cons(SuiteItem(now.suite, u), rest)
    BY <1>8
  <1> HIDE DEF now, after
  <1>10. FitsSuite(after, now, level)
    BY <1>6, <1>8, <1>9, ZenonT(60) DEF FitsSuite
  <1>11. Related(after, State(now, Cons(f, stack)))
    BY <1>7, <1>10, RelatedBy DEF Fits
  <1>12. QED
    BY <1>11 DEF after, now, f, rest, env

\* An exception comes to the except clauses from one on.
LEMMA ToExcept ==
  ASSUME NEW stack, NEW outer, On(stack, outer), outer.asks = FALSE,
         NEW s, LegalStatement(s, outer.ctx), s.kind = "try",
         NEW clause \in Nat \ {0}, NEW c, c = Completed("raise", c.what), c.how = "raise", c.kind = "completed",
         s.exceptAll # <<>> \/ outer.ctx.escape
  PROVE  Related(Excepts(s, clause, c.what, Handled(s, outer.env), outer.rest), PyExcept(s, clause, c, stack))
  <1> DEFINE handled == Handled(s, outer.env)
             ctx == HandlerCtx(Legal, s, outer.ctx)
             after == Excepts(s, clause, c.what, handled, outer.rest)
             n == Len(s.excepts)
  <1>1. n \in Nat
    BY TryRule
  <1>2. IsEnv(outer.env) /\ IsLevel(outer)
    BY DEF On, IsLevel
  <1>3. CASE clause <= n
    <2> DEFINE f == [in |-> "except", stmt |-> s, clause |-> clause, exception |-> c]
               item == ExceptItem(s, clause, c.what, handled)
               rest == Cons(item, outer.rest)
               level == Level(handled, ctx, TRUE, rest)
               now == AtPoint(s.excepts[clause].test)
    <2>1. after = rest
      BY <1>1, <1>3 DEF Excepts
    <2>2. PyExcept(s, clause, c, stack) = State(now, Cons(f, stack))
      BY <1>1, <1>3 DEF PyExcept
    <2>3. f.in = "except" /\ f.stmt = s /\ f.clause = clause /\ f.exception = c
      OBVIOUS
    <2>4. item.point = s.excepts[clause].test
      BY DEF ExceptItem
    <2>5. LegalTry(s, outer.ctx)
      BY DEF LegalStatement, LegalTry
    <2>6. clause \in 1 .. n
      BY <1>1, <1>3
    <2> HIDE DEF f
    <2>7. Nested(f, level, outer)
      BY <1>2, <2>3, <2>5, <2>6, NestedExcept
    <2>8. level.env = handled /\ level.ctx = ctx /\ level.asks = TRUE /\ level.rest = rest
      BY DEF Level
    <2>9. Head(rest) = item
      <3> HIDE DEF item
      <3>1. QED
        BY <1>2, ConsFacts DEF IsLevel
    <2> HIDE DEF level, rest, after
    <2>10. On(Cons(f, stack), level)
      BY <2>7, OnPush
    <2>11. now.kind = "point" /\ now.point = s.excepts[clause].test
      BY DEF AtPoint
    <2>12. now = AtPoint(now.point) /\ now.point = Head(after).point
      BY <2>1, <2>4, <2>9, <2>11
    <2> HIDE DEF now, item
    <2>13. FitsPoint(after, now, level)
      BY <2>1, <2>8, <2>11, <2>12, ZenonT(60) DEF FitsPoint
    <2>14. Related(after, State(now, Cons(f, stack)))
      BY <2>10, <2>13, RelatedBy DEF Fits
    <2>15. QED
      BY <2>2, <2>14 DEF after
  <1>4. CASE clause > n /\ s.exceptAll # <<>>
    <2>1. /\ ~(clause <= n)
          /\ after = Cons(SuiteItem(s.exceptAll, handled),
                          Cons(SuiteItem(s.finally, EnterFinally(s, handled)), outer.rest))
      BY <1>1, <1>4 DEF Excepts
    <2>2. PyExcept(s, clause, c, stack) = State(InSuite(s.exceptAll), Cons(Frame("clause", s), stack))
      BY <1>1, <1>4, <2>1 DEF PyExcept
    <2>3. Allows(Legal, s.exceptAll, ctx)
      BY TryRule
    <2> HIDE DEF handled, ctx
    <2>4. Related(Cons(SuiteItem(s.exceptAll, handled),
                       Cons(SuiteItem(s.finally, EnterFinally(s, handled)), outer.rest)),
                  State(InSuite(s.exceptAll), Cons(Frame("clause", s), stack)))
      BY <2>3, ToClause DEF handled, ctx
    <2> HIDE DEF after
    <2>5. Related(after, PyExcept(s, clause, c, stack))
      BY <2>1, <2>2, <2>4
    <2>6. QED
      BY <2>5 DEF after, handled
  <1>5. CASE clause > n /\ s.exceptAll = <<>>
    <2> DEFINE env == EnterFinally(s, handled)
               last == RaiseItem(c.what, handled)
               rest == <<last>>
    <2>1. ~(clause <= n) /\ after = <<SuiteItem(s.finally, env), last>>
      BY <1>1, <1>5 DEF Excepts
    <2>2. PyExcept(s, clause, c, stack) = PyFinally(s, c, stack)
      BY <1>1, <1>5, <2>1 DEF PyExcept
    <2>3. s.finally # <<>> => env = outer.env
      BY <1>2, FinallyEnv
    <2>4. last = RaiseItem(c.what, outer.env)
      BY <1>2, HandledFacts, RaiseSame
    <2>5. after = Cons(SuiteItem(s.finally, env), rest)
      BY <2>1, EmptyFacts
    <2>6. Behind(c, rest, outer)
      BY <1>5, <2>4 DEF Behind, Abrupt, Raises
    <2> HIDE DEF after, rest, env
    <2>7. Related(after, PyFinally(s, c, stack))
      BY <2>3, <2>5, <2>6, ToFinally
    <2>8. QED
      BY <2>2, <2>7 DEF after
  <1>6. QED
    BY <1>1, <1>3, <1>4, <1>5

-----------------------------------------------------------------------------
(***************************************************************************)
(* A statement completes: what the statement around it makes of that.      *)
(***************************************************************************)
\* How a level is left.
LEMMA AbruptHow ==
  ASSUME NEW c, NEW after, NEW env, NEW ctx, Abrupt(c, after, env, ctx)
  PROVE  /\ c = Completed(c.how, c.what) /\ c.kind = "completed"
         /\ c.how \in {"raise", "break", "continue", "return"}
  BY DEF Abrupt, Raises, Jumps, ReturnsNone, ReturnsValue

\* A state of Python that leaves a level.
LEMMA AbruptRelated ==
  ASSUME NEW stack, NEW outer, On(stack, outer), outer.asks = FALSE,
         NEW c, NEW after, Abrupt(c, after, outer.env, outer.ctx)
  PROVE  Related(after, State(c, stack))
  BY RelatedBy DEF Fits, FitsCompleted

\* A state of Python that goes on behind a statement.
LEMMA NormalRelated ==
  ASSUME NEW stack, NEW outer, On(stack, outer), outer.asks = FALSE, NEW after, after = outer.rest
  PROVE  Related(after, State(Normally, stack))
  BY RelatedBy DEF Fits, FitsCompleted

\* A state of Python at the beginning of a suite.
LEMMA SuiteRelated ==
  ASSUME NEW stack, NEW outer, On(stack, outer), outer.asks = FALSE, NEW suite, Allows(Legal, suite, outer.ctx),
         NEW after, after = Cons(SuiteItem(suite, outer.env), outer.rest)
  PROVE  Related(after, State(InSuite(suite), stack))
  <1> DEFINE now == InSuite(suite)
  <1>1. now.kind = "suite" /\ now.suite = suite
    BY DEF InSuite
  <1>2. now = InSuite(now.suite)
    BY <1>1
  <1> HIDE DEF now
  <1>3. FitsSuite(after, now, outer)
    BY <1>1, <1>2, ZenonT(60) DEF FitsSuite
  <1>4. QED
    BY <1>3, RelatedBy DEF Fits, now

\* A state of Python at the condition of a statement.
LEMMA TestRelated ==
  ASSUME NEW stack, NEW outer, On(stack, outer), outer.asks = FALSE,
         NEW s, LegalTest(s, outer.ctx), NEW after, after = Cons(TestItem(s, outer.env), outer.rest)
  PROVE  Related(after, State(AtPoint(s.test), Cons(Frame("test", s), stack)))
  <1> DEFINE f == Frame("test", s)
             item == TestItem(s, outer.env)
             rest == Cons(item, outer.rest)
             level == Level(outer.env, outer.ctx, TRUE, rest)
             now == AtPoint(s.test)
  <1>1. f.in = "test" /\ f.stmt = s
    BY DEF Frame
  <1>2. item.point = s.test
    BY DEF TestItem
  <1>3. now.kind = "point" /\ now.point = s.test
    BY DEF AtPoint
  <1>4. level.asks = TRUE /\ level.rest = rest
    BY DEF Level
  <1> HIDE DEF f
  <1>5. Nested(f, level, outer)
    BY <1>1, NestedTest DEF On
  <1> HIDE DEF level, item
  <1>6. Head(rest) = item
    BY ConsFacts DEF On, IsLevel
  <1> HIDE DEF rest
  <1>7. On(Cons(f, stack), level)
    BY <1>5, OnPush
  <1>8. now = AtPoint(now.point) /\ now.point = Head(after).point /\ after = level.rest
    BY <1>2, <1>3, <1>4, <1>6 DEF rest, item
  <1> HIDE DEF now
  <1>9. FitsPoint(after, now, level)
    BY <1>3, <1>4, <1>8, ZenonT(60) DEF FitsPoint
  <1>10. Related(after, State(now, Cons(f, stack)))
    BY <1>7, <1>9, RelatedBy DEF Fits
  <1>11. QED
    BY <1>10 DEF now, f

\* What a statement around another one is given.
Completes(stack, outer, f, inner, c, after) ==
  /\ Regular(Legal, Programs) /\ On(stack, outer) /\ Nested(f, inner, outer)
  /\ FitsCompleted(after, c, inner)

\* Normally the next statement of a suite is run.
LEMMA CompletesInSuite ==
  ASSUME NEW stack, NEW outer, NEW f, NEW inner, NEW c, NEW after,
         Completes(stack, outer, f, inner, c, after), InSuiteFrame(f, inner, outer)
  PROVE  Related(after, PyComplete(c, f, stack))
  <1>1. On(stack, outer) /\ outer.asks = FALSE /\ f.in = "suite" /\ Allows(Legal, f.rest, outer.ctx)
    BY DEF Completes, Nested, InSuiteFrame
  <1>2. /\ inner.env = outer.env /\ inner.ctx = outer.ctx /\ inner.asks = FALSE
        /\ inner.rest = Cons(SuiteItem(f.rest, outer.env), outer.rest)
    BY DEF InSuiteFrame, Level
  <1>3. CASE c = Normally /\ after = inner.rest
    <2>1. c.how = "normal"
      BY <1>3 DEF Normally, Completed
    <2>2. PyComplete(c, f, stack) = State(InSuite(f.rest), stack)
      BY <1>1, <2>1 DEF PyComplete
    <2>3. QED
      BY <1>1, <1>2, <1>3, <2>2, SuiteRelated
  <1>4. CASE Abrupt(c, after, inner.env, inner.ctx)
    <2>1. c.how \in {"raise", "break", "continue", "return"}
      BY <1>4, AbruptHow
    <2>2. PyComplete(c, f, stack) = State(c, stack)
      BY <1>1, <2>1 DEF PyComplete
    <2>3. QED
      BY <1>1, <1>2, <1>4, <2>2, AbruptRelated
  <1>5. QED
    BY <1>3, <1>4 DEF Completes, FitsCompleted

\* A condition is left by an exception only.
LEMMA CompletesInTest ==
  ASSUME NEW stack, NEW outer, NEW f, NEW inner, NEW c, NEW after,
         Completes(stack, outer, f, inner, c, after), InTestFrame(f, inner, outer)
  PROVE  Related(after, PyComplete(c, f, stack))
  <1>1. On(stack, outer) /\ outer.asks = FALSE /\ f.in = "test"
    BY DEF Completes, Nested, InTestFrame
  <1>2. inner.env = outer.env /\ inner.ctx = outer.ctx /\ inner.asks = TRUE
    BY DEF InTestFrame, Level
  <1>3. Abrupt(c, after, inner.env, inner.ctx)
    BY <1>2 DEF Completes, FitsCompleted
  <1>4. c.how \in {"raise", "break", "continue", "return"}
    BY <1>3, AbruptHow
  <1>5. PyComplete(c, f, stack) = State(c, stack)
    BY <1>1, <1>4 DEF PyComplete
  <1>6. QED
    BY <1>1, <1>2, <1>3, <1>5, AbruptRelated

\* A loop goes on, or is left by a jump of its own.
LEMMA CompletesInLoop ==
  ASSUME NEW stack, NEW outer, NEW f, NEW inner, NEW c, NEW after,
         Completes(stack, outer, f, inner, c, after), InLoopFrame(f, inner, outer)
  PROVE  Related(after, PyComplete(c, f, stack))
  <1> DEFINE s == f.stmt
             e == outer.env
             item == TestItem(s, e)
             again == Cons(item, outer.rest)
             l == [breakBlock |-> outer.rest, continueBlock |-> again, depth |-> Depth(e.loop) + 1]
             u == WithLoop(e, l)
             ctx == LoopCtx(outer.ctx)
  <1>1. /\ On(stack, outer) /\ outer.asks = FALSE /\ IsLevel(outer) /\ f.in = "loop"
        /\ s.kind \in {"while", "for"} /\ s \in Legal[outer.ctx]
    BY DEF Completes, Nested, InLoopFrame
  <1>2. inner = Level(InLoopEnv(item, outer.rest), ctx, FALSE, again)
    BY DEF InLoopFrame
  <1>3. IsEnv(e) /\ Around(e.loop, e.finallies) /\ outer.ctx \in Contexts /\ Sequence(outer.rest)
    BY <1>1 DEF IsLevel
  <1>4. item.env = e
    BY DEF TestItem
  <1> HIDE DEF item
  <1>5. InLoopEnv(item, outer.rest) = u /\ \A i \in DOMAIN e.finallies : e.finallies[i].parentLoop # l
    BY <1>3, <1>4, InLoopFacts
  <1>6. inner.env = u /\ inner.ctx = ctx /\ inner.asks = FALSE /\ inner.rest = again
    <2> HIDE DEF u, ctx, again
    <2>1. QED
      BY <1>2, <1>5 DEF Level
  <1>7. l.breakBlock = outer.rest /\ l.continueBlock = again
    OBVIOUS
  <1> HIDE DEF l
  <1>8. /\ IsEnv(u) /\ u.loop = l /\ u.finallies = e.finallies /\ u.handler = e.handler /\ u.frame = e.frame
    BY <1>3, EnvLoop
  <1>9. /\ ctx.raise = outer.ctx.raise /\ ctx.escape = outer.ctx.escape
        /\ ctx.bare => outer.ctx.bare /\ ~outer.ctx.fin
        /\ ctx.value => outer.ctx.value /\ outer.ctx.plain
    BY <1>3, LoopCtxFacts
  <1> HIDE DEF ctx, again
  <1>10. Sequence(again)
    BY <1>3, ConsFacts DEF again
  <1>11. ExecuteFinallyBlocks(u, FALSE) = <<>>
    <2> HIDE DEF u
    <2>1. QED
      BY <1>5, <1>8, NewLoop
  <1>12. CASE after = again /\ c.how \in {"normal", "continue"}
    <2>1. PyComplete(c, f, stack) = State(AtPoint(s.test), Cons(Frame("test", s), stack))
      BY <1>1, <1>12 DEF PyComplete
    <2>2. after = Cons(TestItem(s, outer.env), outer.rest)
      BY <1>12 DEF again, item
    <2>3. On(stack, outer) /\ outer.asks = FALSE /\ LegalTest(s, outer.ctx)
      BY <1>1 DEF LegalTest
    <2> HIDE DEF s
    <2>5. Related(after, State(AtPoint(s.test), Cons(Frame("test", s), stack)))
      BY <2>2, <2>3, TestRelated
    <2>6. QED
      BY <2>1, <2>5
  <1>13. CASE after = outer.rest /\ c.how = "break"
    <2>1. PyComplete(c, f, stack) = State(Normally, stack)
      BY <1>1, <1>13 DEF PyComplete
    <2>2. QED
      BY <1>1, <1>13, <2>1, NormalRelated
  <1>14. CASE Abrupt(c, after, e, outer.ctx) /\ c.how \in {"raise", "return"}
    <2>1. PyComplete(c, f, stack) = State(c, stack)
      BY <1>1, <1>14 DEF PyComplete
    <2>2. QED
      BY <1>1, <1>14, <2>1, AbruptRelated
  <1>15. CASE c = Normally /\ after = inner.rest
    <2>1. c.how = "normal"
      BY <1>15 DEF Normally, Completed
    <2>2. QED
      BY <1>6, <1>12, <1>15, <2>1
  <1>16. CASE Abrupt(c, after, u, ctx)
    <2>1. c = Completed(c.how, c.what) /\ c.kind = "completed"
      BY <1>16, AbruptHow
    <2>2. ReturnItem(c.what, u) = ReturnItem(c.what, e) /\ RaiseItem(c.what, u) = RaiseItem(c.what, e)
      BY <1>8, RaiseSame
    <2>3. RaiseException(c.what, u) = RaiseException(c.what, e)
      BY <1>8, RaiseSame
    <2> HIDE DEF u
    <2>4. CASE Jumps(c, after, u, ctx)
      <3>1. \/ c.how = "break" /\ after = <<>> \o outer.rest
            \/ c.how = "continue" /\ after = <<>> \o again
        BY <1>7, <1>8, <1>11, <2>4 DEF Jumps
      <3>2. <<>> \o outer.rest = outer.rest /\ <<>> \o again = again
        BY <1>3, <1>10, EmptyFacts
      <3>3. QED
        BY <1>12, <1>13, <3>1, <3>2
    <2>5. CASE Raises(c, after, u, ctx)
      <3>1. Raises(c, after, e, outer.ctx) /\ c.how = "raise"
        BY <1>9, <2>2, <2>3, <2>5 DEF Raises
      <3>2. QED
        BY <1>14, <2>1, <3>1 DEF Abrupt
    <2>6. CASE ReturnsNone(c, after, u, ctx)
      <3>1. outer.ctx.bare /\ e.finallies = <<>> /\ c.how = "return"
        BY <1>1, <1>9, <2>6 DEF ReturnsNone, IsLevel
      <3>2. ExecuteFinallyBlocks(e, FALSE) = <<>>
        BY <1>3, <3>1, NoClauses
      <3>3. ReturnsNone(c, after, e, outer.ctx)
        BY <1>11, <2>2, <2>6, <3>1, <3>2 DEF ReturnsNone
      <3>4. QED
        BY <1>14, <2>1, <3>1, <3>3 DEF Abrupt
    <2>7. CASE ReturnsValue(c, after, u, ctx)
      <3>1. outer.ctx.value /\ outer.ctx.plain /\ c.how = "return"
        BY <1>9, <2>7 DEF ReturnsValue
      <3>2. PICK loop : /\ Around(loop, u.finallies)
                        /\ after = ExecuteFinallyBlocks(WithLoop(u, loop), TRUE) \o <<ReturnItem(c.what, e)>>
        BY <2>2, <2>7 DEF ReturnsValue
      <3>3. WithLoop(u, loop) = WithLoop(e, loop)
        <4>1. /\ IsEnv(WithLoop(u, loop)) /\ WithLoop(u, loop).loop = loop
              /\ WithLoop(u, loop).finallies = e.finallies /\ WithLoop(u, loop).handler = e.handler
              /\ WithLoop(u, loop).frame = e.frame
          BY <1>8, EnvLoop
        <4>2. /\ IsEnv(WithLoop(e, loop)) /\ WithLoop(e, loop).loop = loop
              /\ WithLoop(e, loop).finallies = e.finallies /\ WithLoop(e, loop).handler = e.handler
              /\ WithLoop(e, loop).frame = e.frame
          BY <1>3, EnvLoop
        <4>3. QED
          BY <4>1, <4>2, EnvEqual
      <3>4. ReturnsValue(c, after, e, outer.ctx)
        BY <1>8, <3>1, <3>2, <3>3 DEF ReturnsValue
      <3>5. QED
        BY <1>14, <2>1, <3>1, <3>4 DEF Abrupt
    <2>8. QED
      BY <1>16, <2>4, <2>5, <2>6, <2>7 DEF Abrupt
  <1>17. QED
    BY <1>6, <1>15, <1>16 DEF Completes, FitsCompleted

\* The suite of a try statement goes on with the else clause, an except clause or the finally clause.
LEMMA CompletesInTry ==
  ASSUME NEW stack, NEW outer, NEW f, NEW inner, NEW c, NEW after,
         Completes(stack, outer, f, inner, c, after), InTryFrame(f, inner, outer)
  PROVE  Related(after, PyComplete(c, f, stack))
  <1> DEFINE s == f.stmt
             e == outer.env
             u == EnterTry(s, e, outer.rest)
             ctx == SuiteCtx(Legal, s, outer.ctx)
             rest == Cons(SuiteItem(s.orelse, u), Cons(SuiteItem(s.finally, EnterFinally(s, u)), outer.rest))
  <1>1. /\ On(stack, outer) /\ outer.asks = FALSE /\ IsLevel(outer) /\ f.in = "try"
        /\ LegalTry(s, outer.ctx) /\ inner = Level(u, ctx, FALSE, rest)
    BY DEF Completes, Nested, InTryFrame
  <1>2. IsEnv(e) /\ outer.ctx \in Contexts
    BY <1>1 DEF IsLevel
  <1>3. LegalStatement(s, outer.ctx) /\ s.kind = "try"
    BY <1>1, <1>2 DEF LegalStatement, LegalTry, Completes
  <1>4. inner.env = u /\ inner.ctx = ctx /\ inner.asks = FALSE /\ inner.rest = rest
    <2> HIDE DEF u, ctx, rest
    <2>1. QED
      BY <1>1 DEF Level
  <1>5. On(stack, outer) /\ outer.asks = FALSE /\ f.in = "try"
    BY <1>1
  <1>6. CASE c = Normally /\ after = inner.rest
    <2>1. c.how = "normal"
      BY <1>6 DEF Normally, Completed
    <2>2. PyComplete(c, f, stack) = State(InSuite(s.orelse), Cons(Frame("clause", s), stack))
      BY <1>1, <2>1 DEF PyComplete
    <2>3. Allows(Legal, s.orelse, ElseCtx(Legal, s, outer.ctx))
      BY <1>3, TryRule
    <2> HIDE DEF s, u
    <2>4. Related(rest, State(InSuite(s.orelse), Cons(Frame("clause", s), stack)))
      BY <1>1, <1>3, <2>3, ToClause DEF u
    <2> HIDE DEF rest
    <2>5. QED
      BY <1>4, <1>6, <2>2, <2>4
  <1>7. CASE Abrupt(c, after, u, ctx) /\ c.how = "raise"
    <2>1. c = Completed("raise", c.what) /\ c.kind = "completed"
      BY <1>7, AbruptHow
    <2>2. ctx.raise = (s.exceptAll # <<>> \/ outer.ctx.escape) /\ ctx.escape = FALSE
      BY <1>2, TryContexts
    <2>3. Raises(c, after, u, ctx)
      BY <1>7 DEF Abrupt, Jumps, ReturnsNone, ReturnsValue
    <2>4. (s.exceptAll # <<>> \/ outer.ctx.escape) /\ after = RaiseException(c.what, u)
      <3> HIDE DEF u, ctx
      <3>1. QED
        BY <2>2, <2>3 DEF Raises
    <2> DEFINE handled == Handled(s, e)
    <2>5. u.handler = [stmt |-> s, env |-> handled, rest |-> outer.rest]
      BY <1>2, EnterTryFacts DEF HandlerOf
    <2> HIDE DEF u, handled
    <2>6. RaiseException(c.what, u) = Excepts(s, 1, c.what, handled, outer.rest)
      <3>1. u.handler # None
        BY <2>5, NotNone
      <3>2. u.handler.stmt = s /\ u.handler.env = handled /\ u.handler.rest = outer.rest
        BY <2>5
      <3>3. QED
        BY <3>1, <3>2 DEF RaiseException
    <2>7. PyComplete(c, f, stack) = PyExcept(s, 1, c, stack)
      BY <1>7, <1>5 DEF PyComplete
    <2> HIDE DEF s
    <2>8. Related(Excepts(s, 1, c.what, handled, outer.rest), PyExcept(s, 1, c, stack))
      <3>1. 1 \in Nat \ {0} /\ c.how = "raise"
        BY <1>7
      <3>2. QED
        BY <1>3, <1>5, <2>1, <2>4, <3>1, ToExcept DEF handled
    <2>9. QED
      BY <2>4, <2>6, <2>7, <2>8
  <1>8. CASE Abrupt(c, after, u, ctx) /\ c.how # "raise"
    <2>1. c.how \in {"break", "continue", "return"}
      BY <1>8, AbruptHow
    <2>2. PyComplete(c, f, stack) = PyFinally(s, c, stack)
      BY <1>5, <2>1 DEF PyComplete
    <2>3. IsEnv(u) /\ u.loop = e.loop /\ u.frame = e.frame /\ u.finallies = TryFinallies(s, e)
      BY <1>2, TryEnv
    <2>4. InTryContext(ctx, s, outer.ctx)
      BY <1>2, TryContexts
    <2> HIDE DEF s, u, ctx
    <2>5. Related(after, PyFinally(s, c, stack))
      BY <1>1, <1>3, <1>8, <2>3, <2>4, JumpOut
    <2>6. QED
      BY <2>2, <2>5
  <1>9. QED
    <2> HIDE DEF s, u, ctx, rest
    <2>1. QED
      BY <1>4, <1>6, <1>7, <1>8 DEF Completes, FitsCompleted

\* The condition of an except clause is left by an exception only.
LEMMA CompletesInExcept ==
  ASSUME NEW stack, NEW outer, NEW f, NEW inner, NEW c, NEW after,
         Completes(stack, outer, f, inner, c, after), InExceptFrame(f, inner, outer)
  PROVE  Related(after, PyComplete(c, f, stack))
  <1> DEFINE s == f.stmt
             u == Handled(s, outer.env)
             ctx == HandlerCtx(Legal, s, outer.ctx)
             rest == Cons(ExceptItem(s, f.clause, f.exception.what, u), outer.rest)
  <1>1. /\ On(stack, outer) /\ outer.asks = FALSE /\ IsLevel(outer) /\ f.in = "except"
        /\ LegalTry(s, outer.ctx) /\ inner = Level(u, ctx, TRUE, rest)
    BY DEF Completes, Nested, InExceptFrame
  <1>2. LegalStatement(s, outer.ctx) /\ s.kind = "try"
    BY <1>1 DEF LegalStatement, LegalTry, Completes, IsLevel
  <1>3. inner.env = u /\ inner.ctx = ctx /\ inner.asks = TRUE
    <2> HIDE DEF u, ctx, rest
    <2>1. QED
      BY <1>1 DEF Level
  <1>4. Abrupt(c, after, u, ctx) /\ c.how = "raise"
    <2> HIDE DEF u, ctx
    <2>1. QED
      BY <1>3 DEF Completes, FitsCompleted
  <1>5. PyComplete(c, f, stack) = PyFinally(s, c, stack)
    BY <1>1, <1>4 DEF PyComplete
  <1> HIDE DEF s
  <1>6. Related(after, PyFinally(s, c, stack))
    BY <1>1, <1>2, <1>4, ClauseOut
  <1>7. QED
    BY <1>5, <1>6

\* A handler, or the else clause, goes on with the finally clause.
LEMMA CompletesInClause ==
  ASSUME NEW stack, NEW outer, NEW f, NEW inner, NEW c, NEW after,
         Completes(stack, outer, f, inner, c, after), InClauseFrame(f, inner, outer)
  PROVE  Related(after, PyComplete(c, f, stack))
  <1> DEFINE s == f.stmt
             u == inner.env
             ctx == inner.ctx
  <1>1. /\ On(stack, outer) /\ outer.asks = FALSE /\ IsLevel(outer) /\ f.in = "clause"
        /\ LegalTry(s, outer.ctx)
        /\ \/ u = EnterTry(s, outer.env, outer.rest) /\ ctx = ElseCtx(Legal, s, outer.ctx)
           \/ u = Handled(s, outer.env) /\ ctx = HandlerCtx(Legal, s, outer.ctx)
    BY DEF Completes, Nested, InClauseFrame
  <1>2. LegalStatement(s, outer.ctx) /\ s.kind = "try"
    BY <1>1 DEF LegalStatement, LegalTry, Completes, IsLevel
  <1>3. PICK env : /\ s.finally # <<>> => env = outer.env
                   /\ inner = Level(u, ctx, FALSE, Cons(SuiteItem(s.finally, env), outer.rest))
    BY DEF InClauseFrame
  <1> DEFINE rest == Cons(SuiteItem(s.finally, env), outer.rest)
  <1>4. inner.rest = rest
    <2> HIDE DEF rest
    <2>1. QED
      BY <1>3 DEF Level, rest
  <1>5. PyComplete(c, f, stack) = PyFinally(s, c, stack)
    BY <1>1 DEF PyComplete
  <1> HIDE DEF s
  <1>6. CASE c = Normally /\ after = rest
    <2>1. Behind(c, outer.rest, outer)
      BY <1>6 DEF Behind
    <2>2. Related(after, PyFinally(s, c, stack))
      BY <1>1, <1>2, <1>3, <1>6, <2>1, ToFinally
    <2>3. QED
      BY <1>5, <2>2
  <1>7. CASE Abrupt(c, after, u, ctx)
    <2> HIDE DEF u, ctx
    <2>1. Related(after, PyFinally(s, c, stack))
      BY <1>1, <1>2, <1>7, ClauseOut
    <2>2. QED
      BY <1>5, <2>1
  <1>8. QED
    BY <1>4, <1>6, <1>7 DEF Completes, FitsCompleted

\* A copy of a finally clause in another loop raises, or returns, for that loop as well.
LEMMA PlainAbrupt ==
  ASSUME NEW outer, IsLevel(outer), outer.ctx.plain, NEW loop, NEW c, NEW after,
         Abrupt(c, after, WithLoop(outer.env, loop), Plain(outer.ctx))
  PROVE  Abrupt(c, after, outer.env, outer.ctx)
  <1> DEFINE e == outer.env
             u == WithLoop(e, loop)
             ctx == Plain(outer.ctx)
  <1>1. IsEnv(e) /\ outer.ctx \in Contexts
    BY DEF IsLevel
  <1>2. /\ IsEnv(u) /\ u.finallies = e.finallies /\ u.handler = e.handler /\ u.frame = e.frame
    BY <1>1, EnvLoop
  <1>3. /\ ctx.jump = FALSE /\ ctx.bare = FALSE /\ ctx.raise = outer.ctx.raise
        /\ ctx.escape = outer.ctx.escape /\ ctx.value = outer.ctx.value
    BY <1>1, PlainFacts
  <1>4. c = Completed(c.how, c.what) /\ c.kind = "completed"
    BY AbruptHow
  <1>5. /\ ReturnItem(c.what, u) = ReturnItem(c.what, e) /\ RaiseItem(c.what, u) = RaiseItem(c.what, e)
        /\ RaiseException(c.what, u) = RaiseException(c.what, e)
    BY <1>2, RaiseSame
  <1> HIDE DEF u, ctx
  <1>6. Raises(c, after, u, ctx) => Raises(c, after, e, outer.ctx)
    BY <1>3, <1>5 DEF Raises
  <1>7. ~Jumps(c, after, u, ctx) /\ ~ReturnsNone(c, after, u, ctx)
    BY <1>3 DEF Jumps, ReturnsNone
  <1>8. ASSUME ReturnsValue(c, after, u, ctx)
        PROVE  ReturnsValue(c, after, e, outer.ctx)
    <2>1. PICK l : /\ Around(l, e.finallies)
                   /\ after = ExecuteFinallyBlocks(WithLoop(u, l), TRUE) \o <<ReturnItem(c.what, e)>>
      BY <1>2, <1>5, <1>8 DEF ReturnsValue
    <2>2. WithLoop(u, l) = WithLoop(e, l)
      <3>1. /\ IsEnv(WithLoop(u, l)) /\ WithLoop(u, l).loop = l
            /\ WithLoop(u, l).finallies = e.finallies /\ WithLoop(u, l).handler = e.handler
            /\ WithLoop(u, l).frame = e.frame
        BY <1>2, EnvLoop
      <3>2. /\ IsEnv(WithLoop(e, l)) /\ WithLoop(e, l).loop = l
            /\ WithLoop(e, l).finallies = e.finallies /\ WithLoop(e, l).handler = e.handler
            /\ WithLoop(e, l).frame = e.frame
        BY <1>1, EnvLoop
      <3>3. QED
        BY <3>1, <3>2, EnvEqual
    <2>3. c.how = "return" /\ outer.ctx.value
      BY <1>3, <1>8 DEF ReturnsValue
    <2>4. QED
      BY <2>1, <2>2, <2>3 DEF ReturnsValue
  <1>9. Abrupt(c, after, u, ctx)
    BY DEF u, ctx
  <1>10. QED
    BY <1>4, <1>6, <1>7, <1>8, <1>9 DEF Abrupt

\* A finally clause goes on with what it was run for.
LEMMA CompletesInFinally ==
  ASSUME NEW stack, NEW outer, NEW f, NEW inner, NEW c, NEW after,
         Completes(stack, outer, f, inner, c, after), InFinallyFrame(f, inner, outer)
  PROVE  Related(after, PyComplete(c, f, stack))
  <1>1. /\ On(stack, outer) /\ outer.asks = FALSE /\ IsLevel(outer) /\ f.in = "finally"
    BY DEF Completes, Nested, InFinallyFrame
  <1>2. CASE c = Normally /\ after = inner.rest
    <2>1. c.how = "normal"
      BY <1>2 DEF Normally, Completed
    <2>2. PyComplete(c, f, stack) = State(f.pending, stack)
      BY <1>1, <2>1 DEF PyComplete
    <2>3. CASE f.pending = Normally /\ inner.rest = outer.rest
      BY <1>1, <1>2, <2>2, <2>3, NormalRelated
    <2>4. CASE Abrupt(f.pending, inner.rest, outer.env, outer.ctx)
      BY <1>1, <1>2, <2>2, <2>4, AbruptRelated
    <2>5. QED
      BY <2>3, <2>4 DEF InFinallyFrame
  <1>3. CASE Abrupt(c, after, inner.env, inner.ctx)
    <2>1. c.how \in {"raise", "break", "continue", "return"}
      BY <1>3, AbruptHow
    <2>2. PyComplete(c, f, stack) = State(c, stack)
      BY <1>1, <2>1 DEF PyComplete
    <2>3. Abrupt(c, after, outer.env, outer.ctx)
      <3>1. CASE inner.env = outer.env /\ inner.ctx = outer.ctx
        BY <1>3, <3>1
      <3>2. CASE /\ outer.ctx.plain
                 /\ inner.env = WithLoop(outer.env, inner.env.loop) /\ inner.ctx = Plain(outer.ctx)
        <4> DEFINE loop == inner.env.loop
        <4> HIDE DEF loop
        <4>1. Abrupt(c, after, WithLoop(outer.env, loop), Plain(outer.ctx))
          BY <1>3, <3>2 DEF loop
        <4>2. QED
          BY <1>1, <3>2, <4>1, PlainAbrupt
      <3>3. QED
        BY <3>1, <3>2 DEF InFinallyFrame
    <2>4. QED
      BY <1>1, <2>2, <2>3, AbruptRelated
  <1>4. QED
    BY <1>2, <1>3 DEF Completes, FitsCompleted

\* How a function is left: by a return to its caller, or with an exception for it.
FunctionEnded(stack, outer, f, inner, c, after) ==
  /\ On(stack, outer) /\ outer.asks = FALSE /\ f.in = "function"
  /\ inner.env.frame = [env |-> outer.env, rest |-> outer.rest]
  /\ \/ c.how \in {"normal", "return"} /\ \E what : after = <<ReturnItem(what, inner.env)>>
     \/ /\ c = Completed("raise", c.what) /\ c.how = "raise" /\ c.kind = "completed"
        /\ outer.ctx.raise /\ after = <<RaiseItem(c.what, inner.env)>>

\* No finally clause and no handler of its caller is known in a function.
LEMMA FunctionEnds ==
  ASSUME NEW stack, NEW outer, NEW f, NEW inner, NEW c, NEW after,
         Completes(stack, outer, f, inner, c, after), InFunctionFrame(f, inner, outer)
  PROVE  FunctionEnded(stack, outer, f, inner, c, after)
  <1> DEFINE u == [TopLevel EXCEPT !.frame = [env |-> outer.env, rest |-> outer.rest]]
             ctx == FunctionCtx(outer.ctx)
  <1>1. /\ On(stack, outer) /\ outer.asks = FALSE /\ f.in = "function" /\ IsLevel(outer)
        /\ inner = Level(u, ctx, FALSE, <<ReturnItem("", u)>>)
    BY DEF Completes, Nested, InFunctionFrame
  <1>2. /\ IsEnv(u) /\ u.finallies = <<>> /\ u.handler = None
        /\ u.frame = [env |-> outer.env, rest |-> outer.rest]
    BY <1>1, NestedFunction
  <1> HIDE DEF u
  <1>3. ctx.jump = FALSE /\ ctx.raise = outer.ctx.raise /\ ctx.escape = outer.ctx.raise
    BY <1>1, FunctionCtxFacts DEF IsLevel
  <1> HIDE DEF ctx
  <1>4. inner.env = u /\ inner.ctx = ctx /\ inner.asks = FALSE /\ inner.rest = <<ReturnItem("", u)>>
    BY <1>1 DEF Level
  <1>5. CASE c = Normally /\ after = inner.rest
    <2>1. c.how = "normal"
      BY <1>5 DEF Normally, Completed
    <2>2. \E what : after = <<ReturnItem(what, inner.env)>>
      BY <1>4, <1>5, ZenonT(60)
    <2>3. QED
      BY <1>1, <1>2, <1>4, <2>1, <2>2 DEF FunctionEnded
  <1>6. CASE Abrupt(c, after, u, ctx)
    <2>1. c = Completed(c.how, c.what) /\ c.kind = "completed" /\ ~Jumps(c, after, u, ctx)
      BY <1>3, <1>6 DEF Abrupt, Jumps
    <2>2. CASE Raises(c, after, u, ctx)
      <3>1. c.how = "raise" /\ outer.ctx.raise
        BY <1>3, <2>2 DEF Raises
      <3>2. RaiseException(c.what, u) = <<RaiseItem(c.what, u)>>
        BY <1>2 DEF RaiseException
      <3>3. after = <<RaiseItem(c.what, u)>>
        BY <2>2, <3>2 DEF Raises
      <3>4. QED
        BY <1>1, <1>2, <1>4, <2>1, <3>1, <3>3 DEF FunctionEnded
    <2>3. CASE ReturnsNone(c, after, u, ctx)
      <3>1. ExecuteFinallyBlocks(u, FALSE) = <<>>
        BY <1>2, NoClauses
      <3>2. Sequence(<<ReturnItem(c.what, u)>>)
        BY EmptyFacts
      <3>3. after = <<ReturnItem(c.what, u)>>
        BY <2>3, <3>1, <3>2, EmptyFacts DEF ReturnsNone
      <3>4. c.how = "return"
        BY <2>3 DEF ReturnsNone
      <3>5. QED
        BY <1>1, <1>2, <1>4, <3>3, <3>4 DEF FunctionEnded
    <2>4. CASE ReturnsValue(c, after, u, ctx)
      <3>1. PICK l : after = ExecuteFinallyBlocks(WithLoop(u, l), TRUE) \o <<ReturnItem(c.what, u)>>
        BY <2>4 DEF ReturnsValue
      <3>2. ExecuteFinallyBlocks(WithLoop(u, l), TRUE) = <<>>
        <4>1. IsEnv(WithLoop(u, l)) /\ WithLoop(u, l).finallies = <<>>
          BY <1>2, EnvLoop
        <4>2. QED
          BY <4>1, NoClauses
      <3>3. Sequence(<<ReturnItem(c.what, u)>>)
        BY EmptyFacts
      <3>4. after = <<ReturnItem(c.what, u)>>
        BY <3>1, <3>2, <3>3, EmptyFacts
      <3>5. c.how = "return"
        BY <2>4 DEF ReturnsValue
      <3>6. QED
        BY <1>1, <1>2, <1>4, <3>4, <3>5 DEF FunctionEnded
    <2>5. QED
      BY <1>6, <2>1, <2>2, <2>3, <2>4 DEF Abrupt
  <1>7. QED
    BY <1>4, <1>5, <1>6 DEF Completes, FitsCompleted

-----------------------------------------------------------------------------
(***************************************************************************)
(* Python goes on until its next step is one of the code.                  *)
(***************************************************************************)
\* The code begins a suite, too.
SettledSuite(after, q) ==
  \E level, suite, env :
    /\ On(q.stack, level) /\ level.asks = FALSE /\ Allows(Legal, suite, level.ctx)
    /\ q = State(InSuite(suite), q.stack)
    /\ suite # <<>> => env = level.env
    /\ after = Cons(SuiteItem(suite, env), level.rest)

\* The code leaves the function, too.
SettledReturn(after, q) ==
  \E stack, f, inner, outer, c :
    /\ q = State(c, Cons(f, stack)) /\ c.kind = "completed"
    /\ Completes(stack, outer, f, inner, c, after) /\ InFunctionFrame(f, inner, outer)

Settled(after, q) == SettledSuite(after, q) \/ SettledReturn(after, q)

\* Otherwise Python takes a step by itself and stays related.
LEMMA Advance ==
  ASSUME Regular(Legal, Programs), NEW q, NEW after, Related(after, q), ~Waits(q), ~Settled(after, q)
  PROVE  Related(after, After(q)) /\ (q.now.kind = "suite" => q.now.suite = <<>>)
  <1> DEFINE now == q.now
             stack == q.stack
  <1>1. q = State(now, stack)
    BY DEF Related
  <1>2. PICK level : On(stack, level) /\ Fits(after, now, level)
    BY DEF Related
  <1>3. CASE FitsSuite(after, now, level)
    <2>1. now.kind = "suite" /\ now = InSuite(now.suite) /\ level.asks = FALSE /\ Allows(Legal, now.suite, level.ctx)
      BY <1>2, <1>3 DEF FitsSuite, On, IsLevel
    <2>2. ASSUME NEW env, now.suite # <<>> => env = level.env,
                 after = Cons(SuiteItem(now.suite, env), level.rest)
          PROVE  FALSE
      <3> DEFINE suite == now.suite
      <3>1. q = State(InSuite(suite), stack)
        BY <1>1, <2>1
      <3> HIDE DEF suite
      <3>2. /\ On(stack, level) /\ level.asks = FALSE /\ Allows(Legal, suite, level.ctx)
            /\ suite # <<>> => env = level.env
            /\ after = Cons(SuiteItem(suite, env), level.rest)
        BY <1>2, <2>1, <2>2 DEF suite
      <3>3. SettledSuite(after, q)
        BY <3>1, <3>2 DEF SettledSuite
      <3>4. QED
        BY <3>3 DEF Settled
    <2>3. now.suite = <<>> /\ after = level.rest
      BY <1>3, <2>2 DEF FitsSuite
    <2>4. After(q) = State(Normally, stack)
      BY <2>1, <2>3 DEF After, PySuite
    <2>5. QED
      BY <1>2, <2>1, <2>3, <2>4, NormalRelated
  <1>4. CASE FitsPoint(after, now, level)
    BY <1>4 DEF FitsPoint, Waits
  <1>5. CASE FitsCompleted(after, now, level)
    <2>1. now.kind = "completed"
      <3>1. Normally.kind = "completed"
        BY DEF Normally, Completed
      <3>2. QED
        BY <1>5, <3>1 DEF FitsCompleted, Abrupt
    <2>2. stack # <<>> /\ Sequence(stack)
      BY <1>2, <2>1 DEF Waits, On
    <2> DEFINE f == Head(stack)
               around == Tail(stack)
    <2>3. stack = Cons(f, around) /\ Sequence(around)
      BY <2>2, ConsOf
    <2>4. After(q) = PyComplete(now, f, around)
      BY <2>1 DEF After
    <2> HIDE DEF f, around
    <2>5. PICK outer : On(around, outer) /\ Nested(f, level, outer)
      BY <1>2, <2>3, OnPop
    <2>6. Completes(around, outer, f, level, now, after)
      BY <1>5, <2>5 DEF Completes
    <2>7. ~InFunctionFrame(f, level, outer)
      <3>1. q = State(now, Cons(f, around))
        BY <1>1, <2>3
      <3> HIDE DEF now
      <3>2. SUFFICES ASSUME InFunctionFrame(f, level, outer)
                     PROVE  SettledReturn(after, q)
        BY DEF Settled
      <3>3. QED
        BY <2>1, <2>6, <3>1, <3>2, ZenonT(60) DEF SettledReturn
    <2> HIDE DEF now
    <2>8. Related(after, PyComplete(now, f, around))
      BY <2>5, <2>6, <2>7, CompletesInSuite, CompletesInTest, CompletesInLoop, CompletesInTry,
         CompletesInExcept, CompletesInClause, CompletesInFinally, ZenonT(60) DEF Nested
    <2>9. QED
      BY <2>1, <2>4, <2>8 DEF now
  <1>6. QED
    BY <1>2, <1>3, <1>4, <1>5 DEF Fits

-----------------------------------------------------------------------------
(***************************************************************************)
(* The code begins a statement, and so does Python.                        *)
(***************************************************************************)
\* What a legal statement consists of.
LEMMA StatementRule ==
  ASSUME NEW ctx, NEW s, LegalStatement(s, ctx)
  PROVE  /\ s.kind \in {"do", "break", "continue", "return", "if", "while", "for", "try", "function"}
         /\ s.kind = "do" => Answers(s.point, {"normal"}, ctx.raise)
         /\ s.kind \in {"break", "continue"} => ctx.jump
         /\ s.kind = "return" => (s.value = TRUE /\ ctx.value) \/ (s.value = FALSE /\ ctx.bare)
         /\ s.kind = "if" => /\ Answers(s.test, {"true", "false"}, ctx.raise)
                             /\ Allows(Legal, s.suite, ctx) /\ Allows(Legal, s.orelse, ctx)
         /\ s.kind \in {"while", "for"} =>
              /\ Answers(s.test, {"true", "false"}, IF s.kind = "for" THEN ctx.escape ELSE ctx.raise)
              /\ Allows(Legal, s.suite, LoopCtx(ctx)) /\ Allows(Legal, s.orelse, ctx)
         /\ s.kind = "function" => /\ Allows(Legal, s.suite, FunctionCtx(ctx))
                                   /\ s.local = FALSE \/ (s.local = TRUE /\ ~ctx.fin)
  <1>1. Rule(Legal, s, ctx)
    BY DEF LegalStatement, Regular
  <1>2. QED
    BY <1>1 DEF Rule

\* An expression is next.
LEMMA BeginsDo ==
  ASSUME NEW stack, NEW outer, On(stack, outer), outer.asks = FALSE, NEW s, LegalStatement(s, outer.ctx),
         s.kind = "do"
  PROVE  Related(Visit(s, outer.env, outer.rest), PyEnter(s, stack))
  <1> DEFINE now == AtPoint(s.point)
             after == Cons(PointItem(s.point, outer.env), outer.rest)
  <1>1. Visit(s, outer.env, outer.rest) = after
    BY DEF Visit
  <1>2. PyEnter(s, stack) = State(now, stack)
    BY DEF PyEnter
  <1>3. Answers(s.point, {"normal"}, outer.ctx.raise)
    BY StatementRule
  <1>4. now.kind = "point" /\ now.point = s.point
    BY DEF AtPoint
  <1>5. now = AtPoint(now.point) /\ after = Cons(PointItem(now.point, outer.env), outer.rest)
    BY <1>4
  <1> HIDE DEF now, after
  <1>6. FitsPoint(after, now, outer)
    BY <1>3, <1>4, <1>5 DEF FitsPoint
  <1>7. Related(after, State(now, stack))
    BY <1>6, RelatedBy DEF Fits
  <1>8. QED
    BY <1>1, <1>2, <1>7

\* A jump is next.
LEMMA BeginsJump ==
  ASSUME NEW stack, NEW outer, On(stack, outer), outer.asks = FALSE, NEW s, LegalStatement(s, outer.ctx),
         s.kind \in {"break", "continue", "return"}
  PROVE  Related(Visit(s, outer.env, outer.rest), PyEnter(s, stack))
  <1> DEFINE e == outer.env
             what == IF s.kind = "return" THEN s.name ELSE ""
             c == Completed(s.kind, what)
             after == Jump(s, e)
  <1>1. Visit(s, outer.env, outer.rest) = after
    BY DEF Visit
  <1>2. PyEnter(s, stack) = State(c, stack)
    <2>1. CASE s.kind = "return"
      BY <2>1 DEF PyEnter
    <2>2. CASE s.kind \in {"break", "continue"}
      BY <2>2 DEF PyEnter
    <2>3. QED
      BY <2>1, <2>2
  <1>3. c.kind = "completed" /\ c.how = s.kind /\ c.what = what
    BY DEF Completed
  <1>4. c = Completed(c.how, c.what)
    BY <1>3
  <1> HIDE DEF c
  <1>5. IsEnv(e) /\ Around(e.loop, e.finallies)
    BY DEF On, IsLevel
  <1>6. Raises(c, after, e, outer.ctx) \/ Jumps(c, after, e, outer.ctx)
           \/ ReturnsNone(c, after, e, outer.ctx) \/ ReturnsValue(c, after, e, outer.ctx)
    <2>1. CASE s.kind = "break"
      <3>1. after = ExecuteFinallyBlocks(e, FALSE) \o e.loop.breakBlock
        BY <2>1 DEF Jump
      <3>2. outer.ctx.jump
        BY <2>1, StatementRule
      <3>3. QED
        BY <1>3, <2>1, <3>1, <3>2 DEF Jumps
    <2>2. CASE s.kind = "continue"
      <3>1. after = ExecuteFinallyBlocks(e, FALSE) \o e.loop.continueBlock
        BY <2>2 DEF Jump
      <3>2. outer.ctx.jump
        BY <2>2, StatementRule
      <3>3. QED
        BY <1>3, <2>2, <3>1, <3>2 DEF Jumps
    <2>3. CASE s.kind = "return"
      <3>1. after = ExecuteFinallyBlocks(e, s.value) \o <<ReturnItem(c.what, e)>>
        BY <1>3, <2>3 DEF Jump
      <3>2. (s.value = TRUE /\ outer.ctx.value) \/ (s.value = FALSE /\ outer.ctx.bare)
        BY <2>3, StatementRule
      <3> HIDE DEF after
      <3>3. CASE s.value = FALSE /\ outer.ctx.bare
        BY <1>3, <2>3, <3>1, <3>3 DEF ReturnsNone
      <3>4. CASE s.value = TRUE /\ outer.ctx.value
        <4>1. WithLoop(e, e.loop) = e
          BY <1>5, EnvLoop, EnvEqual
        <4>2. after = ExecuteFinallyBlocks(WithLoop(e, e.loop), TRUE) \o <<ReturnItem(c.what, e)>>
          BY <3>1, <3>4, <4>1
        <4>3. QED
          BY <1>3, <1>5, <2>3, <3>4, <4>2 DEF ReturnsValue
      <3>5. QED
        BY <3>2, <3>3, <3>4
    <2>4. QED
      BY <2>1, <2>2, <2>3
  <1>7. Abrupt(c, after, e, outer.ctx)
    BY <1>3, <1>4, <1>6 DEF Abrupt
  <1> HIDE DEF after
  <1>8. Related(after, State(c, stack))
    BY <1>7, AbruptRelated
  <1>9. QED
    BY <1>1, <1>2, <1>8

\* The condition of a statement is next.
LEMMA BeginsTest ==
  ASSUME NEW stack, NEW outer, On(stack, outer), outer.asks = FALSE, NEW s, LegalStatement(s, outer.ctx),
         s.kind \in {"if", "while", "for"}
  PROVE  Related(Visit(s, outer.env, outer.rest), PyEnter(s, stack))
  <1>1. Visit(s, outer.env, outer.rest) = Cons(TestItem(s, outer.env), outer.rest)
    BY DEF Visit
  <1>2. PyEnter(s, stack) = State(AtPoint(s.test), Cons(Frame("test", s), stack))
    BY DEF PyEnter
  <1>3. LegalTest(s, outer.ctx)
    BY DEF LegalTest, LegalStatement
  <1> DEFINE after == Cons(TestItem(s, outer.env), outer.rest)
  <1> HIDE DEF after
  <1>4. Related(after, State(AtPoint(s.test), Cons(Frame("test", s), stack)))
    BY <1>3, TestRelated DEF after
  <1>5. QED
    BY <1>1, <1>2, <1>4 DEF after

\* The suite of a try statement is next.
LEMMA BeginsTry ==
  ASSUME NEW stack, NEW outer, On(stack, outer), outer.asks = FALSE, NEW s, LegalStatement(s, outer.ctx),
         s.kind = "try"
  PROVE  Related(Visit(s, outer.env, outer.rest), PyEnter(s, stack))
  <1> DEFINE inside == EnterTry(s, outer.env, outer.rest)
             rest == Cons(SuiteItem(s.orelse, inside),
                          Cons(SuiteItem(s.finally, EnterFinally(s, inside)), outer.rest))
             ctx == SuiteCtx(Legal, s, outer.ctx)
             inner == Level(inside, ctx, FALSE, rest)
             f == Frame("try", s)
             after == Cons(SuiteItem(s.suite, inside), rest)
  <1>1. Visit(s, outer.env, outer.rest) = after
    BY DEF Visit, TryCode
  <1>2. PyEnter(s, stack) = State(InSuite(s.suite), Cons(f, stack))
    BY DEF PyEnter
  <1>3. f.in = "try" /\ f.stmt = s
    BY DEF Frame
  <1>4. LegalTry(s, outer.ctx)
    BY DEF LegalTry, LegalStatement
  <1> HIDE DEF f
  <1>5. Nested(f, inner, outer)
    BY <1>3, <1>4, NestedTry DEF On
  <1>6. Allows(Legal, s.suite, ctx)
    BY TryRule
  <1> HIDE DEF inside, rest, ctx
  <1>7. inner.env = inside /\ inner.ctx = ctx /\ inner.asks = FALSE /\ inner.rest = rest
    BY DEF Level
  <1> HIDE DEF inner
  <1>8. On(Cons(f, stack), inner)
    BY <1>5, OnPush
  <1>9. after = Cons(SuiteItem(s.suite, inner.env), inner.rest)
    BY <1>7
  <1> HIDE DEF after
  <1>10. Related(after, State(InSuite(s.suite), Cons(f, stack)))
    BY <1>6, <1>7, <1>8, <1>9, SuiteRelated
  <1>11. QED
    BY <1>1, <1>2, <1>10

\* The body of a function is next: where it is defined, no finally clause is around it.
LEMMA BeginsFunction ==
  ASSUME NEW stack, NEW outer, On(stack, outer), outer.asks = FALSE, NEW s, LegalStatement(s, outer.ctx),
         s.kind = "function"
  PROVE  Related(Visit(s, outer.env, outer.rest), PyEnter(s, stack))
  <1> DEFINE inside == [TopLevel EXCEPT !.frame = [env |-> outer.env, rest |-> outer.rest]]
             rest == <<ReturnItem("", inside)>>
             ctx == FunctionCtx(outer.ctx)
             inner == Level(inside, ctx, FALSE, rest)
             f == Frame("function", s)
             after == <<SuiteItem(s.suite, inside), ReturnItem("", inside)>>
  <1>1. Allows(Legal, s.suite, ctx) /\ (s.local = FALSE \/ (s.local = TRUE /\ ~outer.ctx.fin))
    BY StatementRule
  <1>2. (IF s.local THEN outer.env.finallies ELSE <<>>) = <<>>
    BY <1>1 DEF On, IsLevel
  <1>3. [TopLevel EXCEPT !.finallies = <<>>, !.frame = [env |-> outer.env, rest |-> outer.rest]] = inside
    <2> DEFINE caller == [env |-> outer.env, rest |-> outer.rest]
               top == WithFinallies(TopLevel, <<>>)
    <2>1. IsEnv(TopLevel) /\ TopLevel.finallies = <<>> /\ Sequence(<<>>)
      BY EmptyFacts DEF TopLevel, IsEnv
    <2>2. top = TopLevel
      <3>1. /\ IsEnv(top) /\ top.loop = TopLevel.loop /\ top.finallies = TopLevel.finallies
            /\ top.handler = TopLevel.handler /\ top.frame = TopLevel.frame
        BY <2>1, EnvFinallies
      <3> HIDE DEF top
      <3>2. QED
        BY <2>1, <3>1, EnvEqual
    <2> HIDE DEF caller
    <2>3. [TopLevel EXCEPT !.finallies = <<>>, !.frame = caller] = [top EXCEPT !.frame = caller]
      BY DEF WithFinallies
    <2> HIDE DEF top
    <2>4. QED
      BY <2>2, <2>3, ZenonT(60) DEF caller
  <1>4. Visit(s, outer.env, outer.rest) = after
    <2>1. Visit(s, outer.env, outer.rest) = FunctionCode(s, outer.env, outer.rest)
      BY DEF Visit
    <2>2. QED
      BY <1>2, <1>3, <2>1, ZenonT(60) DEF FunctionCode
  <1>5. PyEnter(s, stack) = State(InSuite(s.suite), Cons(f, stack))
    BY DEF PyEnter
  <1>6. f.in = "function" /\ f.stmt = s
    BY DEF Frame
  <1> HIDE DEF f
  <1>7. Nested(f, inner, outer)
    BY <1>6, NestedFunction DEF On
  <1>8. after = Cons(SuiteItem(s.suite, inside), rest)
    BY EmptyFacts
  <1> HIDE DEF inside, rest, ctx, after
  <1>9. inner.env = inside /\ inner.ctx = ctx /\ inner.asks = FALSE /\ inner.rest = rest
    BY DEF Level
  <1> HIDE DEF inner
  <1>10. On(Cons(f, stack), inner)
    BY <1>7, OnPush
  <1>11. after = Cons(SuiteItem(s.suite, inner.env), inner.rest)
    BY <1>8, <1>9
  <1>12. Related(after, State(InSuite(s.suite), Cons(f, stack)))
    BY <1>1, <1>9, <1>10, <1>11, SuiteRelated
  <1>13. QED
    BY <1>4, <1>5, <1>12

\* A statement is next.
LEMMA Begins ==
  ASSUME NEW stack, NEW outer, On(stack, outer), outer.asks = FALSE, NEW s, LegalStatement(s, outer.ctx)
  PROVE  Related(Visit(s, outer.env, outer.rest), PyEnter(s, stack))
  <1>1. \/ s.kind = "do" \/ s.kind \in {"break", "continue", "return"} \/ s.kind \in {"if", "while", "for"}
        \/ s.kind = "try" \/ s.kind = "function"
    BY StatementRule
  <1>2. QED
    BY <1>1, BeginsDo, BeginsJump, BeginsTest, BeginsTry, BeginsFunction

\* The code at the beginning of a suite, and at the end of a function, a step later.
Begun(after) ==
  LET item == Head(after) IN
  IF item.suite = <<>> THEN Tail(after)
  ELSE Visit(Head(item.suite), item.env, Cons(SuiteItem(Tail(item.suite), item.env), Tail(after)))

Returned(after) ==
  LET item == Head(after) IN
  IF item.do = "return" THEN item.env.frame.rest ELSE RaiseException(item.what, item.env.frame.env)

\* Both begin the first statement of the suite, or find it empty.
LEMMA BeginsSuite ==
  ASSUME Regular(Legal, Programs), NEW q, NEW after, SettledSuite(after, q)
  PROVE  ~Waits(q) /\ Head(after).do = "suite" /\ Related(Begun(after), After(q))
  <1> DEFINE stack == q.stack
  <1>1. PICK outer, suite, env :
             /\ On(stack, outer) /\ outer.asks = FALSE /\ Allows(Legal, suite, outer.ctx)
             /\ q = State(InSuite(suite), stack)
             /\ suite # <<>> => env = outer.env
             /\ after = Cons(SuiteItem(suite, env), outer.rest)
    BY DEF SettledSuite
  <1> DEFINE item == SuiteItem(suite, env)
  <1>2. item.do = "suite" /\ item.suite = suite /\ item.env = env
    BY DEF SuiteItem
  <1>3. Sequence(outer.rest) /\ Sequence(stack)
    BY <1>1 DEF On, IsLevel
  <1> HIDE DEF item
  <1>4. Head(after) = item /\ Tail(after) = outer.rest
    BY <1>1, <1>3, ConsFacts DEF item
  <1>5. q.now = InSuite(suite)
    BY <1>1 DEF State
  <1>6. q.now.kind = "suite" /\ q.now.suite = suite
    BY <1>5 DEF InSuite
  <1>7. After(q) = PySuite(suite, stack) /\ ~Waits(q)
    BY <1>6 DEF After, Waits
  <1> HIDE DEF stack
  <1>8. CASE suite = <<>>
    <2>1. Begun(after) = outer.rest
      BY <1>2, <1>4, <1>8 DEF Begun
    <2>2. After(q) = State(Normally, stack)
      BY <1>7, <1>8 DEF PySuite
    <2>3. QED
      BY <1>1, <1>2, <1>4, <1>7, <2>1, <2>2, NormalRelated
  <1>9. CASE suite # <<>>
    <2> DEFINE s == Head(suite)
               f == [in |-> "suite", rest |-> Tail(suite)]
               rest == Cons(SuiteItem(Tail(suite), outer.env), outer.rest)
               inner == Level(outer.env, outer.ctx, FALSE, rest)
    <2>1. Begun(after) = Visit(s, outer.env, rest)
      BY <1>1, <1>2, <1>4, <1>9 DEF Begun
    <2>2. After(q) = PyEnter(s, Cons(f, stack))
      BY <1>7, <1>9 DEF PySuite
    <2>3. s \in Legal[outer.ctx] /\ Allows(Legal, Tail(suite), outer.ctx)
      BY <1>1, <1>9 DEF Allows
    <2>4. LegalStatement(s, outer.ctx)
      BY <1>1, <2>3 DEF LegalStatement, On, IsLevel
    <2>5. f.in = "suite" /\ f.rest = Tail(suite)
      OBVIOUS
    <2> HIDE DEF s, f
    <2>6. Nested(f, Level(outer.env, outer.ctx, FALSE, Cons(SuiteItem(f.rest, outer.env), outer.rest)), outer)
      BY <1>1, <2>3, <2>5, NestedSuite DEF On
    <2>7. Nested(f, inner, outer)
      BY <2>5, <2>6
    <2> HIDE DEF rest
    <2>8. inner.env = outer.env /\ inner.ctx = outer.ctx /\ inner.asks = FALSE /\ inner.rest = rest
      BY DEF Level
    <2> HIDE DEF inner
    <2>9. On(Cons(f, stack), inner)
      BY <1>1, <2>7, OnPush
    <2>10. LegalStatement(s, inner.ctx)
      BY <2>4, <2>8
    <2>11. Related(Visit(s, inner.env, inner.rest), PyEnter(s, Cons(f, stack)))
      BY <2>8, <2>9, <2>10, Begins
    <2>12. QED
      BY <1>2, <1>4, <1>7, <2>1, <2>2, <2>8, <2>11
  <1>10. QED
    BY <1>8, <1>9

\* Both leave the function.
LEMMA LeavesFunction ==
  ASSUME NEW q, NEW after, SettledReturn(after, q)
  PROVE  /\ ~Waits(q) /\ Head(after).do \in {"return", "raise"} /\ Head(after).env.frame # None
         /\ Related(Returned(after), After(q))
  <1>1. PICK stack, f, inner, outer, c :
             /\ q = State(c, Cons(f, stack)) /\ c.kind = "completed"
             /\ Completes(stack, outer, f, inner, c, after) /\ InFunctionFrame(f, inner, outer)
    BY DEF SettledReturn
  <1> DEFINE u == inner.env
             frame == [env |-> outer.env, rest |-> outer.rest]
  <1>2. /\ On(stack, outer) /\ outer.asks = FALSE /\ f.in = "function" /\ u.frame = frame
        /\ \/ c.how \in {"normal", "return"} /\ \E what : after = <<ReturnItem(what, u)>>
           \/ /\ c = Completed("raise", c.what) /\ c.how = "raise"
              /\ outer.ctx.raise /\ after = <<RaiseItem(c.what, u)>>
    <2>1. FunctionEnded(stack, outer, f, inner, c, after)
      BY <1>1, FunctionEnds
    <2>2. QED
      BY <2>1 DEF FunctionEnded
  <1>3. frame # None /\ frame.env = outer.env /\ frame.rest = outer.rest
    BY NotNone
  <1> HIDE DEF u, frame
  <1>4. Leaving(u).frame = frame
    BY <1>2 DEF Leaving, TopLevel
  <1>5. Sequence(stack)
    BY <1>2 DEF On
  <1>6. q.now = c /\ Head(q.stack) = f /\ Tail(q.stack) = stack /\ q.stack # <<>>
    BY <1>1, <1>5, StateFields, ConsFacts
  <1>7. ~Waits(q) /\ After(q) = PyComplete(c, f, stack)
    BY <1>1, <1>6 DEF Waits, After
  <1>8. CASE c.how \in {"normal", "return"} /\ \E what : after = <<ReturnItem(what, u)>>
    <2>1. PICK what : after = <<ReturnItem(what, u)>>
      BY <1>8
    <2> DEFINE item == ReturnItem(what, u)
    <2>2. item.do = "return" /\ item.env = Leaving(u)
      BY DEF ReturnItem
    <2> HIDE DEF item
    <2>3. Head(after) = item
      BY <2>1 DEF item
    <2>4. Returned(after) = outer.rest
      BY <1>3, <1>4, <2>2, <2>3 DEF Returned
    <2>5. PyComplete(c, f, stack) = State(Normally, stack)
      BY <1>2, <1>8 DEF PyComplete
    <2>6. Related(Returned(after), State(Normally, stack))
      BY <1>2, <2>4, NormalRelated
    <2>7. QED
      BY <1>3, <1>4, <1>7, <2>2, <2>3, <2>5, <2>6
  <1>9. CASE c = Completed("raise", c.what) /\ c.how = "raise" /\ outer.ctx.raise /\ after = <<RaiseItem(c.what, u)>>
    <2> DEFINE item == RaiseItem(c.what, u)
    <2>1. item.do = "raise" /\ item.what = c.what /\ item.env = Leaving(u)
      BY DEF RaiseItem
    <2> HIDE DEF item
    <2>2. Head(after) = item
      BY <1>9 DEF item
    <2>3. Returned(after) = RaiseException(c.what, outer.env)
      BY <1>3, <1>4, <2>1, <2>2 DEF Returned
    <2>4. PyComplete(c, f, stack) = State(c, stack)
      BY <1>2, <1>9 DEF PyComplete
    <2>5. Abrupt(c, Returned(after), outer.env, outer.ctx)
      BY <1>1, <1>9, <2>3 DEF Abrupt, Raises
    <2>6. Related(Returned(after), State(c, stack))
      BY <1>2, <2>5, AbruptRelated
    <2>7. QED
      BY <1>3, <1>4, <1>7, <2>1, <2>2, <2>4, <2>6
  <1>10. QED
    BY <1>2, <1>8, <1>9

-----------------------------------------------------------------------------
(***************************************************************************)
(* Python does not go on by itself forever.                                *)
(***************************************************************************)
\* How far the statement of a frame is: the less, the further.
Weight(f) == IF f.in = "test" THEN 4 ELSE IF f.in = "try" THEN 3 ELSE IF f.in = "except" THEN 2
             ELSE IF f.in = "clause" THEN 1 ELSE 0

StackWeight(stack) == IF stack = <<>> THEN 0 ELSE 16 * Len(stack) + 2 * Weight(Head(stack))

\* The steps until Python waits or begins a statement are bounded by this.
Measure(q) == IF q.now.kind = "point" THEN 0
              ELSE StackWeight(q.stack) + (IF q.now.kind = "suite" THEN 2 ELSE 1)

\* The weight of a stack, by its first frame.
LEMMA Weights ==
  ASSUME NEW stack, Sequence(stack)
  PROVE  /\ StackWeight(stack) \in Nat /\ Len(stack) \in Nat
         /\ StackWeight(stack) <= 16 * Len(stack) + 8
         /\ \A f : /\ StackWeight(Cons(f, stack)) = (16 * Len(stack) + 16) + 2 * Weight(f)
                   /\ Weight(f) \in 0 .. 4
  <1>1. Len(stack) \in Nat
    BY DEF Sequence
  <1>2. \A f : Weight(f) \in 0 .. 4
    BY DEF Weight
  <1>3. StackWeight(stack) \in Nat /\ StackWeight(stack) <= 16 * Len(stack) + 8
    <2> DEFINE w == Weight(Head(stack))
               n == Len(stack)
    <2>1. w \in 0 .. 4
      BY <1>2
    <2>2. n \in Nat
      BY <1>1
    <2>3. StackWeight(stack) = 0 \/ StackWeight(stack) = 16 * n + 2 * w
      BY DEF StackWeight
    <2> HIDE DEF w, n
    <2>4. QED
      BY <2>1, <2>2, <2>3 DEF n
  <1>4. ASSUME NEW f
        PROVE  StackWeight(Cons(f, stack)) = (16 * Len(stack) + 16) + 2 * Weight(f)
    <2> DEFINE longer == Cons(f, stack)
               n == Len(stack)
               w == Weight(f)
    <2>1. longer # <<>> /\ Head(longer) = f /\ Len(longer) = n + 1 /\ n \in Nat
      BY ConsFacts
    <2> HIDE DEF longer
    <2>2. StackWeight(longer) = 16 * (n + 1) + 2 * w
      BY <2>1 DEF StackWeight
    <2>3. w \in Nat
      BY <1>2
    <2> HIDE DEF n, w
    <2>4. StackWeight(longer) = (16 * n + 16) + 2 * w
      BY <2>1, <2>2, <2>3
    <2>5. QED
      BY <2>4 DEF longer, n, w
  <1>5. QED
    BY <1>1, <1>2, <1>3, <1>4

\* A completion pops a frame, or replaces it by a lighter one, or comes to an expression.
Lighter(p, f, stack) ==
  \/ p.now.kind = "point"
  \/ p.stack = stack
  \/ \E g : p.stack = Cons(g, stack) /\ Weight(g) < Weight(f)

\* The finally clause is the last part of a try statement, behind the except clauses.
LEMMA ExceptLighter ==
  ASSUME NEW s, NEW clause, NEW c, NEW stack, NEW f, Weight(f) > 1
  PROVE  Lighter(PyExcept(s, clause, c, stack), f, stack)
  <1> DEFINE p == PyExcept(s, clause, c, stack)
             g == Frame("clause", s)
             h == [in |-> "finally", pending |-> c]
  <1>1. \/ p.now.kind = "point"
        \/ p.stack = Cons(g, stack)
        \/ p.stack = Cons(h, stack)
    BY DEF PyExcept, State, AtPoint, PyFinally
  <1>2. Weight(g) = 1 /\ Weight(h) = 0 /\ Weight(f) \in 0 .. 4
    BY DEF Weight, Frame
  <1> HIDE DEF p, g, h
  <1>3. Weight(g) < Weight(f) /\ Weight(h) < Weight(f)
    BY <1>2
  <1>4. Lighter(p, f, stack)
    BY <1>1, <1>3, ZenonT(60) DEF Lighter
  <1>5. QED
    BY <1>4 DEF p

\* And of one with no exception, or with one of a clause.
LEMMA FinallyLighter ==
  ASSUME NEW s, NEW c, NEW stack, NEW f, Weight(f) > 0
  PROVE  Lighter(PyFinally(s, c, stack), f, stack)
  <1> DEFINE p == PyFinally(s, c, stack)
             h == [in |-> "finally", pending |-> c]
  <1>1. p.stack = Cons(h, stack)
    BY DEF State, PyFinally
  <1>2. Weight(h) = 0
    BY DEF Weight
  <1> HIDE DEF p, h
  <1>3. Weight(h) < Weight(f)
    BY <1>2
  <1>4. Lighter(p, f, stack)
    BY <1>1, <1>3, ZenonT(60) DEF Lighter
  <1>5. QED
    BY <1>4 DEF p

\* Every completion does so.
LEMMA CompleteLighter ==
  ASSUME NEW c, NEW f, NEW stack
  PROVE  Lighter(PyComplete(c, f, stack), f, stack)
  <1> DEFINE p == PyComplete(c, f, stack)
  <1>1. CASE f.in = "suite"
    <2>1. p.stack = stack
      BY <1>1 DEF PyComplete, State
    <2>2. QED
      BY <2>1 DEF Lighter
  <1>2. CASE f.in = "test"
    <2> DEFINE g == Frame("loop", f.stmt)
    <2>1. p.stack = stack \/ p.stack = Cons(g, stack)
      BY <1>2 DEF PyComplete, State
    <2>2. Weight(g) < Weight(f)
      BY <1>2 DEF Weight, Frame
    <2> HIDE DEF p, g
    <2>3. Lighter(p, f, stack)
      BY <2>1, <2>2, ZenonT(60) DEF Lighter
    <2>4. QED
      BY <2>3 DEF p
  <1>3. CASE f.in = "loop"
    <2>1. p.stack = stack \/ p.now.kind = "point"
      BY <1>3 DEF PyComplete, State, AtPoint
    <2>2. QED
      BY <2>1 DEF Lighter
  <1>4. CASE f.in = "try"
    <2>1. Weight(f) = 3
      BY <1>4 DEF Weight
    <2>2. CASE c.how = "normal"
      <3> DEFINE g == Frame("clause", f.stmt)
      <3>1. p.stack = Cons(g, stack)
        BY <1>4, <2>2 DEF PyComplete, State
      <3>2. Weight(g) < Weight(f)
        BY <2>1 DEF Weight, Frame
      <3> HIDE DEF p, g
      <3>3. Lighter(p, f, stack)
        BY <3>1, <3>2, ZenonT(60) DEF Lighter
      <3>4. QED
        BY <3>3 DEF p
    <2>3. CASE c.how = "raise"
      <3>1. p = PyExcept(f.stmt, 1, c, stack)
        BY <1>4, <2>3 DEF PyComplete
      <3>2. QED
        BY <2>1, <3>1, ExceptLighter
    <2>4. CASE c.how \notin {"normal", "raise"}
      <3>1. p = PyFinally(f.stmt, c, stack)
        BY <1>4, <2>4 DEF PyComplete
      <3>2. QED
        BY <2>1, <3>1, FinallyLighter
    <2>5. QED
      BY <2>2, <2>3, <2>4
  <1>5. CASE f.in = "except"
    <2>1. Weight(f) = 2
      BY <1>5 DEF Weight
    <2>2. CASE c.how = "true"
      <3> DEFINE g == Frame("clause", f.stmt)
      <3>1. p.stack = Cons(g, stack)
        BY <1>5, <2>2 DEF PyComplete, State
      <3>2. Weight(g) < Weight(f)
        BY <2>1 DEF Weight, Frame
      <3> HIDE DEF p, g
      <3>3. Lighter(p, f, stack)
        BY <3>1, <3>2, ZenonT(60) DEF Lighter
      <3>4. QED
        BY <3>3 DEF p
    <2>3. CASE c.how = "false"
      <3>1. p = PyExcept(f.stmt, f.clause + 1, f.exception, stack)
        BY <1>5, <2>3 DEF PyComplete
      <3>2. QED
        BY <2>1, <3>1, ExceptLighter
    <2>4. CASE c.how = "raise"
      <3>1. p = PyFinally(f.stmt, c, stack)
        BY <1>5, <2>4 DEF PyComplete
      <3>2. QED
        BY <2>1, <3>1, FinallyLighter
    <2>5. CASE c.how \notin {"true", "false", "raise"}
      <3>1. p.stack = stack
        BY <1>5, <2>5 DEF PyComplete, State
      <3>2. QED
        BY <3>1 DEF Lighter
    <2>6. QED
      BY <2>2, <2>3, <2>4, <2>5
  <1>6. CASE f.in = "clause"
    <2>1. p = PyFinally(f.stmt, c, stack)
      BY <1>6 DEF PyComplete
    <2>2. Weight(f) = 1
      BY <1>6 DEF Weight
    <2>3. QED
      BY <2>1, <2>2, FinallyLighter
  <1>7. CASE f.in \notin {"suite", "test", "loop", "try", "except", "clause"}
    <2>1. p.stack = stack
      BY <1>7 DEF PyComplete, State
    <2>2. QED
      BY <2>1 DEF Lighter
  <1>8. QED
    BY <1>1, <1>2, <1>3, <1>4, <1>5, <1>6, <1>7

\* What Python does by itself has an end.
LEMMA MeasureDecreases ==
  ASSUME NEW q, Sequence(q.stack), ~Waits(q),
         q.now.kind = "completed" \/ (q.now.kind = "suite" /\ q.now.suite = <<>>)
  PROVE  /\ Measure(q) \in Nat /\ Measure(After(q)) < Measure(q)
  <1> DEFINE stack == q.stack
             p == After(q)
  <1>1. Measure(q) \in Nat
    BY Weights DEF Measure
  <1>2. CASE q.now.kind = "suite" /\ q.now.suite = <<>>
    <2>1. p = State(Normally, stack)
      BY <1>2 DEF After, PySuite
    <2> HIDE DEF p, stack
    <2>2. p.now.kind = "completed" /\ p.stack = stack
      <3>1. p.now = Normally /\ p.stack = stack
        BY <2>1, StateFields
      <3>2. Normally.kind = "completed"
        BY DEF Normally, Completed
      <3>3. QED
        BY <3>1, <3>2
    <2>3. Measure(p) = StackWeight(stack) + 1
      BY <2>2 DEF Measure
    <2>4. Measure(q) = StackWeight(stack) + 2 /\ StackWeight(stack) \in Nat
      BY <1>2, Weights DEF Measure, stack
    <2>5. Measure(p) < Measure(q)
      BY <2>3, <2>4
    <2>6. QED
      BY <1>1, <2>5 DEF p
  <1>3. CASE q.now.kind = "completed"
    <2> DEFINE f == Head(stack)
               around == Tail(stack)
               n == Len(around)
               w == Weight(f)
    <2>1. stack = Cons(f, around) /\ Sequence(around)
      BY <1>3, ConsOf DEF Waits
    <2>2. p = PyComplete(q.now, f, around)
      BY <1>3 DEF After
    <2> HIDE DEF f, around
    <2>3. Lighter(p, f, around)
      BY <2>2, CompleteLighter
    <2>4. n \in Nat /\ w \in 0 .. 4
      BY <2>1, Weights
    <2>5. Measure(q) = ((16 * n + 16) + 2 * w) + 1
      <3>1. StackWeight(stack) = (16 * n + 16) + 2 * w
        BY <2>1, Weights
      <3> HIDE DEF stack, n, w
      <3>2. QED
        BY <1>3, <3>1 DEF Measure, stack
    <2> HIDE DEF p, stack
    <2>6. Measure(p) = 0 \/ Measure(p) = StackWeight(p.stack) + 1 \/ Measure(p) = StackWeight(p.stack) + 2
      BY DEF Measure
    <2>7. CASE p.now.kind = "point"
      <3>1. Measure(p) = 0
        BY <2>7 DEF Measure
      <3> HIDE DEF n, w
      <3>2. QED
        BY <1>1, <2>4, <2>5, <3>1 DEF p
    <2>8. CASE p.stack = around
      <3> DEFINE m == StackWeight(p.stack)
      <3>1. m \in Nat /\ m <= 16 * n + 8
        BY <2>1, <2>8, Weights
      <3> HIDE DEF n, w, m
      <3>2. Measure(p) < Measure(q)
        BY <2>4, <2>5, <2>6, <3>1 DEF m
      <3>3. QED
        BY <1>1, <3>2 DEF p
    <2>9. ASSUME NEW g, p.stack = Cons(g, around), Weight(g) < Weight(f)
          PROVE  Measure(p) < Measure(q)
      <3> DEFINE m == StackWeight(p.stack)
                 v == Weight(g)
      <3>1. m = (16 * n + 16) + 2 * v /\ v \in 0 .. 4
        BY <2>1, <2>9, Weights
      <3>2. v < w
        BY <2>9
      <3> HIDE DEF n, w, m, v
      <3>3. QED
        BY <2>4, <2>5, <2>6, <3>1, <3>2 DEF m
    <2>10. QED
      BY <1>1, <2>3, <2>7, <2>8, <2>9 DEF Lighter, p
  <1>4. QED
    BY <1>2, <1>3

\* Python comes to a state in which it waits, or takes its next step with the code.
LEMMA Settles ==
  ASSUME Regular(Legal, Programs), NEW p, NEW after, \E q : Reaches(p, q) /\ Related(after, q)
  PROVE  \E q : Reaches(p, q) /\ Related(after, q) /\ (Waits(q) \/ Settled(after, q))
  <1> SUFFICES ASSUME \A q : Reaches(p, q) /\ Related(after, q) => ~Waits(q) /\ ~Settled(after, q)
               PROVE  FALSE
    OBVIOUS
  <1>1. ASSUME NEW q, Reaches(p, q), Related(after, q)
        PROVE  /\ Reaches(p, After(q)) /\ Related(after, After(q))
               /\ Measure(q) \in Nat /\ Measure(After(q)) < Measure(q)
    <2>1. ~Waits(q) /\ ~Settled(after, q)
      BY <1>1
    <2>2. Related(after, After(q)) /\ (q.now.kind = "suite" => q.now.suite = <<>>)
      BY <1>1, <2>1, Advance
    <2>3. Sequence(q.stack)
      BY <1>1 DEF Related, On
    <2>4. q.now.kind = "completed" \/ q.now.kind = "suite"
      <3>1. PICK level : Fits(after, q.now, level)
        BY <1>1 DEF Related
      <3>2. Normally.kind = "completed"
        BY DEF Normally, Completed
      <3>3. q.now.kind # "point"
        BY <2>1 DEF Waits
      <3>4. QED
        BY <3>1, <3>2, <3>3 DEF Fits, FitsSuite, FitsPoint, FitsCompleted, Abrupt
    <2>5. Measure(q) \in Nat /\ Measure(After(q)) < Measure(q)
      BY <2>1, <2>2, <2>3, <2>4, MeasureDecreases
    <2>6. QED
      BY <1>1, <2>1, <2>2, <2>5, ReachesAfter
  <1> DEFINE T == {m \in Nat : \E q : Reaches(p, q) /\ Related(after, q) /\ m = Measure(q)}
  <1>2. T \subseteq Nat /\ T # {}
    BY <1>1
  <1>3. \A q : Reaches(p, q) /\ Related(after, q) => Measure(q) \in T
    BY <1>1
  <1>4. \A m \in T : \E q : Reaches(p, q) /\ Related(after, q) /\ m = Measure(q)
    OBVIOUS
  <1> HIDE DEF T
  <1>5. PICK m \in T : \A k \in T : m <= k
    BY <1>2, NatMin
  <1>6. PICK q : Reaches(p, q) /\ Related(after, q) /\ m = Measure(q)
    BY <1>4
  <1>7. /\ Reaches(p, After(q)) /\ Related(after, After(q))
        /\ Measure(q) \in Nat /\ Measure(After(q)) < Measure(q)
    BY <1>1, <1>6
  <1>8. Measure(After(q)) \in T
    BY <1>3, <1>7
  <1>9. m <= Measure(After(q)) /\ Measure(After(q)) \in Nat
    BY <1>2, <1>5, <1>8
  <1>10. QED
    BY <1>6, <1>7, <1>9

-----------------------------------------------------------------------------
(***************************************************************************)
(* The code and Python come to the same expression, and to the same end.   *)
(***************************************************************************)
\* An expression that stands by itself.
AtDo(after, q) ==
  \E level : /\ On(q.stack, level) /\ level.asks = FALSE
             /\ Answers(q.now.point, {"normal"}, level.ctx.raise)
             /\ after = Cons(PointItem(q.now.point, level.env), level.rest)

\* The condition of a statement, or of an except clause.
Asked(after, q, stack, f, inner, outer) ==
  /\ q.stack = Cons(f, stack) /\ On(q.stack, inner) /\ On(stack, outer) /\ Nested(f, inner, outer)
  /\ after = inner.rest

AtTest(after, q) ==
  \E stack, f, inner, outer : /\ Asked(after, q, stack, f, inner, outer) /\ InTestFrame(f, inner, outer)
                              /\ q.now.point = f.stmt.test

AtExcept(after, q) ==
  \E stack, f, inner, outer : /\ Asked(after, q, stack, f, inner, outer) /\ InExceptFrame(f, inner, outer)
                              /\ q.now.point = f.stmt.excepts[f.clause].test

\* The code of a condition.
LEMMA TestShape ==
  ASSUME NEW f, NEW inner, NEW outer, IsLevel(outer), InTestFrame(f, inner, outer)
  PROVE  /\ inner.env = outer.env /\ inner.ctx = outer.ctx /\ inner.asks = TRUE
         /\ Head(inner.rest) = TestItem(f.stmt, outer.env) /\ Tail(inner.rest) = outer.rest
         /\ Head(inner.rest).point = f.stmt.test /\ Head(inner.rest).do = "test"
  <1> DEFINE item == TestItem(f.stmt, outer.env)
             rest == Cons(item, outer.rest)
  <1>1. inner.env = outer.env /\ inner.ctx = outer.ctx /\ inner.asks = TRUE /\ inner.rest = rest
    BY DEF InTestFrame, Level
  <1>2. item.point = f.stmt.test /\ item.do = "test"
    BY DEF TestItem
  <1> HIDE DEF item
  <1>3. Head(rest) = item /\ Tail(rest) = outer.rest
    BY ConsFacts DEF IsLevel
  <1> HIDE DEF rest
  <1>4. QED
    BY <1>1, <1>2, <1>3 DEF item

\* The code of an except clause's expression.
LEMMA ExceptShape ==
  ASSUME NEW f, NEW inner, NEW outer, IsLevel(outer), InExceptFrame(f, inner, outer)
  PROVE  /\ inner.env = Handled(f.stmt, outer.env) /\ inner.ctx = HandlerCtx(Legal, f.stmt, outer.ctx)
         /\ inner.asks = TRUE
         /\ Head(inner.rest) = ExceptItem(f.stmt, f.clause, f.exception.what, Handled(f.stmt, outer.env))
         /\ Tail(inner.rest) = outer.rest
         /\ Head(inner.rest).point = f.stmt.excepts[f.clause].test /\ Head(inner.rest).do = "except"
  <1> DEFINE handled == Handled(f.stmt, outer.env)
             ctx == HandlerCtx(Legal, f.stmt, outer.ctx)
             item == ExceptItem(f.stmt, f.clause, f.exception.what, handled)
             rest == Cons(item, outer.rest)
  <1>1. inner = Level(handled, ctx, TRUE, rest)
    BY DEF InExceptFrame
  <1>2. item.point = f.stmt.excepts[f.clause].test /\ item.do = "except"
    BY DEF ExceptItem
  <1> HIDE DEF item, handled, ctx
  <1>3. Head(rest) = item /\ Tail(rest) = outer.rest
    BY ConsFacts DEF IsLevel
  <1> HIDE DEF rest
  <1>4. inner.env = handled /\ inner.ctx = ctx /\ inner.asks = TRUE /\ inner.rest = rest
    BY <1>1 DEF Level
  <1>5. QED
    BY <1>2, <1>3, <1>4 DEF item, handled, ctx

\* There are no others.
LEMMA PointCases ==
  ASSUME NEW after, NEW q, Related(after, q), q.now.kind = "point"
  PROVE  AtDo(after, q) \/ AtTest(after, q) \/ AtExcept(after, q)
  <1> DEFINE now == q.now
             whole == q.stack
  <1>1. PICK level : On(whole, level) /\ Fits(after, now, level)
    BY DEF Related
  <1>2. FitsPoint(after, now, level)
    <2>1. Normally.kind = "completed"
      BY DEF Normally, Completed
    <2>2. QED
      BY <1>1, <2>1 DEF Fits, FitsSuite, FitsCompleted, Abrupt
  <1>3. CASE level.asks = FALSE
    <2>1. /\ Answers(now.point, {"normal"}, level.ctx.raise)
          /\ after = Cons(PointItem(now.point, level.env), level.rest)
      BY <1>2, <1>3 DEF FitsPoint
    <2>2. AtDo(after, q)
      BY <1>1, <1>3, <2>1 DEF AtDo
    <2>3. QED
      BY <2>2
  <1>4. CASE level.asks = TRUE
    <2>1. after = level.rest /\ now.point = Head(after).point
      BY <1>2, <1>4 DEF FitsPoint
    <2>2. whole # <<>> /\ Sequence(whole)
      <3>1. Bottom.asks = FALSE
        BY DEF Bottom, Level
      <3>2. QED
        BY <1>1, <1>4, <3>1, OnEmpty DEF On
    <2> DEFINE f == Head(whole)
               stack == Tail(whole)
    <2>3. whole = Cons(f, stack) /\ Sequence(stack)
      BY <2>2, ConsOf
    <2> HIDE DEF f, stack
    <2>4. PICK outer : On(stack, outer) /\ Nested(f, level, outer)
      BY <1>1, <2>3, OnPop
    <2>5. Asked(after, q, stack, f, level, outer)
      BY <1>1, <2>1, <2>3, <2>4 DEF Asked
    <2>6. IsLevel(outer)
      BY <2>4 DEF On
    <2>7. CASE InTestFrame(f, level, outer)
      <3>1. now.point = f.stmt.test
        BY <2>1, <2>6, <2>7, TestShape
      <3>2. AtTest(after, q)
        BY <2>5, <2>7, <3>1, ZenonT(60) DEF AtTest
      <3>3. QED
        BY <3>2
    <2>8. CASE InExceptFrame(f, level, outer)
      <3>1. now.point = f.stmt.excepts[f.clause].test
        BY <2>1, <2>6, <2>8, ExceptShape
      <3>2. AtExcept(after, q)
        BY <2>5, <2>8, <3>1, ZenonT(60) DEF AtExcept
      <3>3. QED
        BY <3>2
    <2>9. CASE ~InTestFrame(f, level, outer) /\ ~InExceptFrame(f, level, outer)
      <3>1. \/ InSuiteFrame(f, level, outer) \/ InLoopFrame(f, level, outer) \/ InTryFrame(f, level, outer)
            \/ InClauseFrame(f, level, outer) \/ InFinallyFrame(f, level, outer)
            \/ InFunctionFrame(f, level, outer)
        BY <2>4, <2>9 DEF Nested
      <3>2. \E env, ctx, rest : level = Level(env, ctx, FALSE, rest)
        BY <3>1, ZenonT(60) DEF InSuiteFrame, InLoopFrame, InTryFrame, InClauseFrame, InFinallyFrame, InFunctionFrame
      <3>3. level.asks = FALSE
        BY <3>2 DEF Level
      <3>4. QED
        BY <1>4, <3>3
    <2>10. QED
      BY <2>7, <2>8, <2>9
  <1>5. QED
    BY <1>1, <1>3, <1>4 DEF On, IsLevel

\* Where Python waits, the code is: at the same expression, or at the same end.
SameWait(after, q) ==
  \/ /\ q.now.kind = "point"
     /\ Head(after).do \in {"point", "test", "except"} /\ Head(after).point = q.now.point
  \/ /\ q.now.kind = "completed"
     /\ Head(after).do \in {"return", "raise"} /\ Head(after).env.frame = None
     /\ Completed(Head(after).do, Head(after).what)
          = IF q.now.how = "raise" THEN q.now ELSE [q.now EXCEPT !.how = "return"]

\* At an expression.
LEMMA SamePoint ==
  ASSUME NEW after, NEW q, Related(after, q), q.now.kind = "point"
  PROVE  SameWait(after, q)
  <1>1. CASE AtDo(after, q)
    <2>1. PICK level : On(q.stack, level) /\ after = Cons(PointItem(q.now.point, level.env), level.rest)
      BY <1>1 DEF AtDo
    <2> DEFINE item == PointItem(q.now.point, level.env)
    <2>2. item.do = "point" /\ item.point = q.now.point
      BY DEF PointItem
    <2>3. Sequence(level.rest)
      BY <2>1 DEF On, IsLevel
    <2> HIDE DEF item
    <2>4. Head(after) = item
      BY <2>1, <2>3, ConsFacts DEF item
    <2>5. QED
      BY <2>2, <2>4 DEF SameWait
  <1>2. CASE AtTest(after, q)
    <2>1. PICK stack, f, inner, outer : /\ Asked(after, q, stack, f, inner, outer) /\ InTestFrame(f, inner, outer)
                                        /\ q.now.point = f.stmt.test
      BY <1>2, ZenonT(60) DEF AtTest
    <2>2. IsLevel(outer) /\ after = inner.rest
      BY <2>1 DEF Asked, On
    <2>3. Head(inner.rest).point = f.stmt.test /\ Head(inner.rest).do = "test"
      BY <2>1, <2>2, TestShape
    <2>4. QED
      BY <2>1, <2>2, <2>3 DEF SameWait
  <1>3. CASE AtExcept(after, q)
    <2>1. PICK stack, f, inner, outer : /\ Asked(after, q, stack, f, inner, outer) /\ InExceptFrame(f, inner, outer)
                                        /\ q.now.point = f.stmt.excepts[f.clause].test
      BY <1>3, ZenonT(60) DEF AtExcept
    <2>2. IsLevel(outer) /\ after = inner.rest
      BY <2>1 DEF Asked, On
    <2>3. Head(inner.rest).point = f.stmt.excepts[f.clause].test /\ Head(inner.rest).do = "except"
      BY <2>1, <2>2, ExceptShape
    <2>4. QED
      BY <2>1, <2>2, <2>3 DEF SameWait
  <1>4. QED
    BY <1>1, <1>2, <1>3, PointCases

\* At the end.
LEMMA SameEnd ==
  ASSUME NEW after, NEW q, Related(after, q), q.now.kind = "completed", q.stack = <<>>
  PROVE  SameWait(after, q)
  <1> DEFINE c == q.now
             end == <<ReturnItem("", TopLevel)>>
  <1>1. Fits(after, c, Bottom)
    BY OnEmpty DEF Related
  <1>2. FitsCompleted(after, c, Bottom)
    BY <1>1 DEF Fits, FitsSuite, FitsPoint
  <1>3. Bottom.env = TopLevel /\ Bottom.ctx = TopCtx /\ Bottom.rest = end
    BY DEF Bottom, Level
  <1>4. /\ IsEnv(TopLevel) /\ TopLevel.finallies = <<>> /\ TopLevel.handler = None /\ TopLevel.frame = None
        /\ TopCtx.jump = FALSE
    BY EmptyFacts DEF TopLevel, IsEnv, TopCtx
  <1>5. Leaving(TopLevel).frame = None
    BY DEF Leaving, TopLevel
  <1>6. ASSUME NEW what, after = <<ReturnItem(what, TopLevel)>>
        PROVE  /\ Head(after).do = "return" /\ Head(after).what = what /\ Head(after).env.frame = None
    <2> DEFINE item == ReturnItem(what, TopLevel)
    <2>1. item.do = "return" /\ item.what = what /\ item.env = Leaving(TopLevel)
      BY DEF ReturnItem
    <2> HIDE DEF item
    <2>2. Head(after) = item
      BY <1>6 DEF item
    <2>3. QED
      BY <1>5, <2>1, <2>2
  <1>7. CASE c = Normally /\ after = end
    <2>1. Head(after).do = "return" /\ Head(after).what = "" /\ Head(after).env.frame = None
      BY <1>6, <1>7
    <2> HIDE DEF c
    <2>2. c.how # "raise" /\ [c EXCEPT !.how = "return"] = Completed("return", "")
      <3>1. c = Completed(c.how, c.what) /\ c.how = "normal"
        BY <1>7, ZenonT(60) DEF Normally, Completed
      <3>2. c.what = ""
        BY <1>7, ZenonT(60) DEF Normally, Completed
      <3>3. [c EXCEPT !.how = "return"] = Completed("return", c.what)
        BY <3>1 DEF Completed
      <3>4. QED
        BY <3>1, <3>2, <3>3, ZenonT(60)
    <2>3. QED
      BY <2>1, <2>2 DEF SameWait, c
  <1>8. CASE Abrupt(c, after, TopLevel, TopCtx)
    <2>1. c = Completed(c.how, c.what) /\ ~Jumps(c, after, TopLevel, TopCtx)
      BY <1>4, <1>8 DEF Abrupt, Jumps
    <2>2. CASE Raises(c, after, TopLevel, TopCtx)
      <3> DEFINE item == RaiseItem(c.what, TopLevel)
      <3>1. item.do = "raise" /\ item.what = c.what /\ item.env = Leaving(TopLevel)
        BY DEF RaiseItem
      <3>2. c.how = "raise" /\ after = <<item>>
        BY <1>4, <2>2 DEF Raises, RaiseException
      <3> HIDE DEF item
      <3>3. Head(after) = item
        BY <3>2
      <3> HIDE DEF c
      <3>4. QED
        BY <1>5, <2>1, <3>1, <3>2, <3>3 DEF SameWait, c
    <2>3. ASSUME c.how = "return", after = <<ReturnItem(c.what, TopLevel)>>
          PROVE  SameWait(after, q)
      <3>1. Head(after).do = "return" /\ Head(after).what = c.what /\ Head(after).env.frame = None
        BY <1>6, <2>3
      <3>2. [c EXCEPT !.how = "return"] = Completed("return", c.what)
        BY <2>1, <2>3 DEF Completed
      <3> HIDE DEF c
      <3>3. QED
        BY <2>3, <3>1, <3>2 DEF SameWait, c
    <2>4. CASE ReturnsNone(c, after, TopLevel, TopCtx)
      <3>1. ExecuteFinallyBlocks(TopLevel, FALSE) = <<>>
        BY <1>4, NoClauses
      <3>2. Sequence(<<ReturnItem(c.what, TopLevel)>>)
        BY EmptyFacts
      <3>3. after = <<ReturnItem(c.what, TopLevel)>> /\ c.how = "return"
        BY <2>4, <3>1, <3>2, EmptyFacts DEF ReturnsNone
      <3>4. QED
        BY <2>3, <3>3
    <2>5. CASE ReturnsValue(c, after, TopLevel, TopCtx)
      <3>1. PICK l : after = ExecuteFinallyBlocks(WithLoop(TopLevel, l), TRUE) \o <<ReturnItem(c.what, TopLevel)>>
        BY <2>5 DEF ReturnsValue
      <3>2. ExecuteFinallyBlocks(WithLoop(TopLevel, l), TRUE) = <<>>
        <4>1. IsEnv(WithLoop(TopLevel, l)) /\ WithLoop(TopLevel, l).finallies = <<>>
          BY <1>4, EnvLoop
        <4>2. QED
          BY <4>1, NoClauses
      <3>3. Sequence(<<ReturnItem(c.what, TopLevel)>>)
        BY EmptyFacts
      <3>4. after = <<ReturnItem(c.what, TopLevel)>>
        BY <3>1, <3>2, <3>3, EmptyFacts
      <3>5. c.how = "return"
        BY <2>5 DEF ReturnsValue
      <3>6. QED
        BY <2>3, <3>4, <3>5
    <2>6. QED
      BY <1>8, <2>1, <2>2, <2>4, <2>5 DEF Abrupt
  <1>9. QED
    BY <1>2, <1>3, <1>7, <1>8 DEF FitsCompleted

-----------------------------------------------------------------------------
(***************************************************************************)
(* The expression is evaluated, with the same outcome for both.            *)
(***************************************************************************)
\* The code behind an expression.
Observed(after, outcome) ==
  LET item == Head(after)
      rest == Tail(after)
  IN
  CASE outcome = "raise" -> CodeOfRaise(item)
    [] outcome = "normal" -> rest
    [] item.do = "test" /\ outcome = "true"  -> CodeOfBody(item, rest)
    [] item.do = "test" /\ outcome = "false" -> Cons(SuiteItem(item.stmt.orelse, item.env), rest)
    [] item.do = "except" /\ outcome = "true" ->
         Cons(SuiteItem(item.stmt.excepts[item.clause].suite, item.env),
              Cons(SuiteItem(item.stmt.finally, EnterFinally(item.stmt, item.env)), rest))
    [] item.do = "except" /\ outcome = "false" ->
         Excepts(item.stmt, item.clause + 1, item.exception, item.env, rest)

\* What Python is told, and Python behind the expression.
Told(q, outcome) == Completed(outcome, IF outcome = "raise" THEN q.now.point.name ELSE "")

Given(q, outcome) == State(Told(q, outcome), q.stack)

\* Python behind the expression, or a step later, is related to the code behind it.
Goes(after, q, outcome) == \E r : Reaches(Given(q, outcome), r) /\ Related(Observed(after, outcome), r)

\* What Python is told.
LEMMA ToldFacts ==
  ASSUME NEW q, NEW outcome
  PROVE  /\ Told(q, outcome).kind = "completed" /\ Told(q, outcome).how = outcome
         /\ outcome = "raise" => /\ Told(q, outcome) = Completed("raise", q.now.point.name)
                                 /\ Told(q, outcome).what = q.now.point.name
         /\ outcome = "normal" => Told(q, outcome) = Normally
  <1> DEFINE what == IF outcome = "raise" THEN q.now.point.name ELSE ""
  <1>1. Told(q, outcome) = Completed(outcome, what)
    BY ZenonT(60) DEF Told
  <1>2. outcome = "raise" => what = q.now.point.name
    BY ZenonT(60)
  <1>3. outcome = "normal" => what = ""
    <2>1. "normal" # "raise"
      OBVIOUS
    <2>2. QED
      BY <2>1, ZenonT(60)
  <1> HIDE DEF what
  <1>4. Completed(outcome, what).kind = "completed" /\ Completed(outcome, what).how = outcome
        /\ Completed(outcome, what).what = what
    BY DEF Completed
  <1>5. outcome = "normal" => Told(q, outcome) = Normally
    BY <1>1, <1>3, ZenonT(60) DEF Normally
  <1>6. QED
    BY <1>1, <1>2, <1>4, <1>5

\* An expression by itself.
LEMMA ObservesDo ==
  ASSUME NEW after, NEW q, AtDo(after, q), NEW outcome \in q.now.point.outcomes
  PROVE  Goes(after, q, outcome)
  <1> DEFINE c == Told(q, outcome)
             stack == q.stack
             name == q.now.point.name
  <1>1. PICK level : /\ On(stack, level) /\ level.asks = FALSE
                     /\ Answers(q.now.point, {"normal"}, level.ctx.raise)
                     /\ after = Cons(PointItem(q.now.point, level.env), level.rest)
    BY DEF AtDo
  <1> DEFINE item == PointItem(q.now.point, level.env)
  <1>2. item.do = "point" /\ item.point = q.now.point /\ item.env = level.env
    BY DEF PointItem
  <1>3. Sequence(level.rest)
    BY <1>1 DEF On, IsLevel
  <1> HIDE DEF item
  <1>4. Head(after) = item /\ Tail(after) = level.rest
    BY <1>1, <1>3, ConsFacts DEF item
  <1>5. outcome = "normal" \/ (outcome = "raise" /\ level.ctx.raise)
    BY <1>1 DEF Answers
  <1>6. Related(Observed(after, outcome), State(c, stack))
    <2>1. CASE outcome = "normal"
      <3>1. c = Normally
        BY <2>1, ToldFacts
      <3>2. Observed(after, outcome) = level.rest
        BY <1>4, <2>1 DEF Observed
      <3> HIDE DEF c
      <3>3. QED
        BY <1>1, <3>1, <3>2, NormalRelated
    <2>2. CASE outcome = "raise" /\ level.ctx.raise
      <3>1. c = Completed("raise", name) /\ c.kind = "completed" /\ c.how = "raise" /\ c.what = name
        BY <2>2, ToldFacts
      <3>2. Observed(after, outcome) = RaiseException(name, level.env)
        BY <1>2, <1>4, <2>2 DEF Observed, CodeOfRaise
      <3> HIDE DEF c, name
      <3>3. Abrupt(c, Observed(after, outcome), level.env, level.ctx)
        BY <2>2, <3>1, <3>2 DEF Abrupt, Raises
      <3>4. QED
        BY <1>1, <3>3, AbruptRelated
    <2>3. QED
      BY <1>5, <2>1, <2>2
  <1>7. QED
    BY <1>6, ReachesItself DEF Goes, Given

\* The statement around a condition gets its outcome in the next step.
LEMMA GoesOn ==
  ASSUME NEW after, NEW q, NEW f, NEW stack, Sequence(stack), q.stack = Cons(f, stack), NEW outcome,
         Related(Observed(after, outcome), PyComplete(Told(q, outcome), f, stack))
  PROVE  Goes(after, q, outcome)
  <1> DEFINE c == Told(q, outcome)
             p == Given(q, outcome)
  <1>1. p = State(c, Cons(f, stack)) /\ c.kind = "completed"
    BY ToldFacts DEF Given
  <1> HIDE DEF c, p
  <1>2. p.now = c /\ p.stack = Cons(f, stack)
    BY <1>1, StateFields
  <1>3. Cons(f, stack) # <<>> /\ Head(Cons(f, stack)) = f /\ Tail(Cons(f, stack)) = stack
    BY ConsFacts
  <1>4. ~Waits(p) /\ After(p) = PyComplete(c, f, stack)
    BY <1>1, <1>2, <1>3 DEF Waits, After
  <1>5. Reaches(p, After(p))
    BY <1>4, ReachesItself, ReachesAfter
  <1>6. QED
    BY <1>4, <1>5 DEF Goes, p, c

\* A condition may raise what the statement may raise.
LEMMA ConditionRaises ==
  ASSUME NEW after, NEW q, NEW inner, On(q.stack, inner), Abrupt(Told(q, "raise"), Observed(after, "raise"), inner.env, inner.ctx)
  PROVE  Goes(after, q, "raise")
  <1> DEFINE c == Told(q, "raise")
  <1>1. c.how = "raise"
    BY ToldFacts
  <1> HIDE DEF c
  <1>2. FitsCompleted(Observed(after, "raise"), c, inner)
    BY <1>1 DEF FitsCompleted, c
  <1>3. Related(Observed(after, "raise"), State(c, q.stack))
    BY <1>2, RelatedBy DEF Fits
  <1>4. QED
    BY <1>3, ReachesItself DEF Goes, Given, c

\* The condition of an if statement or a loop.
LEMMA ObservesTest ==
  ASSUME Regular(Legal, Programs), NEW after, NEW q, AtTest(after, q), NEW outcome \in q.now.point.outcomes
  PROVE  Goes(after, q, outcome)
  <1>1. PICK stack, f, inner, outer : /\ Asked(after, q, stack, f, inner, outer) /\ InTestFrame(f, inner, outer)
                                      /\ q.now.point = f.stmt.test
    BY ZenonT(60) DEF AtTest
  <1> DEFINE s == f.stmt
             e == outer.env
             item == TestItem(s, e)
             c == Told(q, outcome)
             name == q.now.point.name
             rest == outer.rest
  <1>2. /\ q.stack = Cons(f, stack) /\ On(q.stack, inner) /\ On(stack, outer) /\ outer.asks = FALSE
        /\ after = inner.rest /\ IsLevel(outer) /\ f.in = "test" /\ LegalTest(s, outer.ctx) /\ Sequence(stack)
    BY <1>1 DEF Asked, Nested, InTestFrame, On
  <1>3. /\ inner.env = e /\ inner.ctx = outer.ctx /\ Head(after) = item /\ Tail(after) = rest
        /\ item.point = s.test /\ item.do = "test"
    <2>1. InTestFrame(f, inner, outer) /\ IsLevel(outer) /\ after = inner.rest
      BY <1>1, <1>2
    <2>2. /\ inner.env = outer.env /\ inner.ctx = outer.ctx
          /\ Head(inner.rest) = TestItem(f.stmt, outer.env) /\ Tail(inner.rest) = outer.rest
          /\ Head(inner.rest).point = f.stmt.test /\ Head(inner.rest).do = "test"
      BY <2>1, TestShape, ZenonT(150)
    <2>3. QED
      BY <2>1, <2>2, ZenonT(60)
  <1>4. item.stmt = s /\ item.env = e
    BY DEF TestItem
  <1> HIDE DEF item
  <1>5. s.kind \in {"if", "while", "for"} /\ LegalStatement(s, outer.ctx)
    BY <1>2 DEF LegalTest, LegalStatement, IsLevel
  <1>6. /\ Answers(s.test, {"true", "false"}, IF s.kind = "for" THEN outer.ctx.escape ELSE outer.ctx.raise)
        /\ Allows(Legal, s.suite, IF s.kind = "if" THEN outer.ctx ELSE LoopCtx(outer.ctx))
        /\ Allows(Legal, s.orelse, outer.ctx)
    BY <1>5, StatementRule
  <1>7. \/ outcome \in {"true", "false"}
        \/ outcome = "raise" /\ (IF s.kind = "for" THEN outer.ctx.escape ELSE outer.ctx.raise)
    BY <1>1, <1>6 DEF Answers
  <1>8. c.how = outcome
    BY ToldFacts
  <1>9. CASE outcome = "raise" /\ (IF s.kind = "for" THEN outer.ctx.escape ELSE outer.ctx.raise)
    <2>1. c = Completed("raise", name) /\ c.kind = "completed" /\ c.how = "raise" /\ c.what = name
      BY <1>9, ToldFacts
    <2>2. Observed(after, outcome)
            = IF s.kind = "for" THEN <<RaiseItem(name, e)>> ELSE RaiseException(name, e)
      BY <1>1, <1>3, <1>4, <1>9 DEF Observed, CodeOfRaise
    <2> HIDE DEF c, name, e, s
    <2>3. Abrupt(c, Observed(after, outcome), e, outer.ctx)
      BY <1>9, <2>1, <2>2 DEF Abrupt, Raises
    <2>4. QED
      BY <1>2, <1>3, <1>9, <2>3, ConditionRaises DEF c
  <1>10. CASE outcome = "false"
    <2>1. Observed(after, outcome) = Cons(SuiteItem(s.orelse, e), rest)
      BY <1>3, <1>4, <1>10 DEF Observed
    <2>2. PyComplete(c, f, stack) = State(InSuite(s.orelse), stack)
      BY <1>2, <1>8, <1>10 DEF PyComplete
    <2>3. Related(Observed(after, outcome), State(InSuite(s.orelse), stack))
      BY <1>2, <1>6, <2>1, SuiteRelated
    <2>4. QED
      BY <1>2, <2>2, <2>3, GoesOn
  <1>11. CASE outcome = "true" /\ s.kind = "if"
    <2>1. Observed(after, outcome) = Cons(SuiteItem(s.suite, e), rest)
      BY <1>3, <1>4, <1>11 DEF Observed, CodeOfBody
    <2>2. PyComplete(c, f, stack) = State(InSuite(s.suite), stack)
      BY <1>2, <1>8, <1>11 DEF PyComplete
    <2>3. Related(Observed(after, outcome), State(InSuite(s.suite), stack))
      BY <1>2, <1>6, <1>11, <2>1, SuiteRelated
    <2>4. QED
      BY <1>2, <2>2, <2>3, GoesOn
  <1>12. CASE outcome = "true" /\ s.kind \in {"while", "for"}
    <2> DEFINE g == Frame("loop", s)
               again == Cons(item, rest)
               u == InLoopEnv(item, rest)
               ctx == LoopCtx(outer.ctx)
               level == Level(u, ctx, FALSE, again)
    <2>1. s.kind # "if" /\ outcome # "raise" /\ outcome # "normal"
      BY <1>12
    <2>2. Observed(after, outcome) = CodeOfBody(item, rest)
      BY <1>3, <1>12, <2>1 DEF Observed
    <2>3. CodeOfBody(item, rest) = Cons(SuiteItem(s.suite, u), again)
      BY <1>4, <2>1, ZenonT(60) DEF CodeOfBody, InLoopEnv, WithLoop
    <2>4. PyComplete(c, f, stack) = State(InSuite(s.suite), Cons(g, stack))
      BY <1>2, <1>8, <1>12, <2>1 DEF PyComplete
    <2>5. g.in = "loop" /\ g.stmt = s
      BY DEF Frame
    <2> HIDE DEF g, c
    <2>6. Nested(g, Level(InLoopEnv(TestItem(s, e), rest), ctx, FALSE, Cons(TestItem(s, e), rest)), outer)
      <3>1. g.stmt \in Legal[outer.ctx] /\ g.stmt.kind \in {"while", "for"}
        BY <1>2, <1>12, <2>5 DEF LegalTest
      <3>2. LET i == TestItem(g.stmt, outer.env) IN
            Nested(g, Level(InLoopEnv(i, outer.rest), LoopCtx(outer.ctx), FALSE, Cons(i, outer.rest)), outer)
        BY <1>2, <2>5, <3>1, NestedLoop
      <3> HIDE DEF s
      <3>3. QED
        BY <2>5, <3>2
    <2>7. Nested(g, level, outer)
      BY <2>6 DEF item
    <2> HIDE DEF again, u, ctx
    <2>8. level.env = u /\ level.ctx = ctx /\ level.asks = FALSE /\ level.rest = again
      BY DEF Level
    <2> HIDE DEF level
    <2>9. On(Cons(g, stack), level)
      BY <1>2, <2>7, OnPush
    <2>10. Allows(Legal, s.suite, level.ctx)
      BY <1>6, <2>1, <2>8 DEF ctx
    <2>11. Observed(after, outcome) = Cons(SuiteItem(s.suite, level.env), level.rest)
      BY <2>2, <2>3, <2>8
    <2>12. Related(Observed(after, outcome), State(InSuite(s.suite), Cons(g, stack)))
      BY <2>8, <2>9, <2>10, <2>11, SuiteRelated
    <2>13. QED
      BY <1>2, <2>4, <2>12, GoesOn DEF c
  <1>13. QED
    BY <1>5, <1>7, <1>9, <1>10, <1>11, <1>12

\* The expression of an except clause.
LEMMA ObservesExcept ==
  ASSUME Regular(Legal, Programs), NEW after, NEW q, AtExcept(after, q), NEW outcome \in q.now.point.outcomes
  PROVE  Goes(after, q, outcome)
  <1>1. PICK stack, f, inner, outer : /\ Asked(after, q, stack, f, inner, outer) /\ InExceptFrame(f, inner, outer)
                                      /\ q.now.point = f.stmt.excepts[f.clause].test
    BY ZenonT(60) DEF AtExcept
  <1> DEFINE s == f.stmt
             i == f.clause
             exception == f.exception
             u == Handled(s, outer.env)
             ctx == HandlerCtx(Legal, s, outer.ctx)
             item == ExceptItem(s, i, exception.what, u)
             c == Told(q, outcome)
             name == q.now.point.name
             rest == outer.rest
  <1>2. /\ q.stack = Cons(f, stack) /\ On(q.stack, inner) /\ On(stack, outer) /\ outer.asks = FALSE
        /\ after = inner.rest /\ IsLevel(outer) /\ f.in = "except" /\ LegalTry(s, outer.ctx) /\ Sequence(stack)
        /\ i \in 1 .. Len(s.excepts) /\ exception = Completed("raise", exception.what)
        /\ s.exceptAll # <<>> \/ outer.ctx.escape
    BY <1>1 DEF Asked, Nested, InExceptFrame, On
  <1>3. /\ inner.env = u /\ inner.ctx = ctx /\ Head(after) = item /\ Tail(after) = rest
        /\ item.point = s.excepts[i].test /\ item.do = "except"
    <2>1. InExceptFrame(f, inner, outer) /\ IsLevel(outer) /\ after = inner.rest
      BY <1>1, <1>2
    <2>2. /\ inner.env = Handled(f.stmt, outer.env) /\ inner.ctx = HandlerCtx(Legal, f.stmt, outer.ctx)
          /\ Head(inner.rest) = ExceptItem(f.stmt, f.clause, f.exception.what, Handled(f.stmt, outer.env))
          /\ Tail(inner.rest) = outer.rest
          /\ Head(inner.rest).point = f.stmt.excepts[f.clause].test /\ Head(inner.rest).do = "except"
      BY <2>1, ExceptShape, ZenonT(150)
    <2>3. QED
      BY <2>1, <2>2, ZenonT(60)
  <1>4. item.stmt = s /\ item.env = u /\ item.clause = i /\ item.exception = exception.what
    BY DEF ExceptItem
  <1> HIDE DEF item
  <1>5. s.kind = "try" /\ LegalStatement(s, outer.ctx)
    BY <1>2 DEF LegalTry, LegalStatement, IsLevel
  <1>6. /\ Answers(s.excepts[i].test, {"true", "false"}, ctx.raise)
        /\ Allows(Legal, s.excepts[i].suite, ctx) /\ Len(s.excepts) \in Nat
    BY <1>2, <1>5, TryRule
  <1>7. outcome \in {"true", "false"} \/ (outcome = "raise" /\ ctx.raise)
    BY <1>1, <1>6 DEF Answers
  <1>8. c.how = outcome
    BY ToldFacts
  <1>9. CASE outcome = "raise" /\ ctx.raise
    <2>1. c = Completed("raise", name) /\ c.kind = "completed" /\ c.how = "raise" /\ c.what = name
      BY <1>9, ToldFacts
    <2>2. Observed(after, outcome) = RaiseException(name, u)
      BY <1>1, <1>3, <1>4, <1>9 DEF Observed, CodeOfRaise
    <2> HIDE DEF c, name, u, ctx
    <2>3. Abrupt(c, Observed(after, outcome), u, ctx)
      BY <1>9, <2>1, <2>2 DEF Abrupt, Raises
    <2>4. QED
      BY <1>2, <1>3, <1>9, <2>3, ConditionRaises DEF c
  <1>10. CASE outcome = "true"
    <2> DEFINE suite == s.excepts[i].suite
    <2>1. Observed(after, outcome)
            = Cons(SuiteItem(suite, u), Cons(SuiteItem(s.finally, EnterFinally(s, u)), rest))
      BY <1>3, <1>4, <1>10 DEF Observed
    <2>2. PyComplete(c, f, stack) = State(InSuite(suite), Cons(Frame("clause", s), stack))
      BY <1>2, <1>8, <1>10 DEF PyComplete
    <2> DEFINE next == Cons(SuiteItem(suite, u), Cons(SuiteItem(s.finally, EnterFinally(s, u)), rest))
    <2>3. Related(next, State(InSuite(suite), Cons(Frame("clause", s), stack)))
      <3> HIDE DEF suite, u, ctx
      <3>1. QED
        BY <1>2, <1>5, <1>6, ToClause DEF suite, u, ctx
    <2> HIDE DEF next
    <2>4. Related(Observed(after, outcome), PyComplete(c, f, stack))
      BY <2>1, <2>2, <2>3 DEF next
    <2>5. QED
      BY <1>2, <2>4, GoesOn
  <1>11. CASE outcome = "false"
    <2> DEFINE next == Excepts(s, i + 1, exception.what, u, rest)
    <2>1. Observed(after, outcome) = next
      BY <1>3, <1>4, <1>11 DEF Observed
    <2>2. PyComplete(c, f, stack) = PyExcept(s, i + 1, exception, stack)
      BY <1>2, <1>8, <1>11 DEF PyComplete
    <2>3. i + 1 \in Nat \ {0}
      BY <1>2, <1>6
    <2>4. exception.how = "raise" /\ exception.kind = "completed"
      BY <1>2 DEF Completed
    <2>5. Related(next, PyExcept(s, i + 1, exception, stack))
      <3> DEFINE k == i + 1
      <3>1. k \in Nat \ {0}
        BY <2>3
      <3> HIDE DEF k, exception
      <3>2. Related(Excepts(s, k, exception.what, Handled(s, outer.env), outer.rest), PyExcept(s, k, exception, stack))
        BY <1>2, <1>5, <2>4, <3>1, ToExcept
      <3>3. QED
        BY <3>2 DEF k
    <2> HIDE DEF next, exception
    <2>6. Related(Observed(after, outcome), PyComplete(c, f, stack))
      BY <2>1, <2>2, <2>5
    <2>7. QED
      BY <1>2, <2>6, GoesOn
  <1>12. QED
    BY <1>7, <1>9, <1>10, <1>11

-----------------------------------------------------------------------------
(***************************************************************************)
(* The generated code agrees with Python.                                  *)
(***************************************************************************)
\* The code is related to a state that Python reaches by itself.
Follows == \E q : Reaches(python, q) /\ Related(code, q)

\* Where Python waits, it is related to the code itself.
LEMMA FollowsWaiting ==
  ASSUME Follows, PyWaits
  PROVE  Related(code, python) /\ SameWait(code, python)
  <1>1. PICK q : Reaches(python, q) /\ Related(code, q)
    BY DEF Follows
  <1>2. Related(code, python)
    BY <1>1, WaitsReaches DEF PyWaits
  <1>3. SameWait(code, python)
    BY <1>2, SamePoint, SameEnd DEF PyWaits, Waits
  <1>4. QED
    BY <1>2, <1>3

\* The function is entered with its body to run.
LEMMA FollowsInit ==
  ASSUME Regular(Legal, Programs), Init
  PROVE  Follows
  <1>1. PICK suite \in Programs : python = State(InSuite(suite), <<>>)
    BY DEF Init, PyInit
  <1>2. python.now = InSuite(suite)
    BY <1>1, StateFields
  <1>3. python.now.suite = suite
    BY <1>2 DEF InSuite
  <1> DEFINE last == ReturnItem("", TopLevel)
             rest == <<last>>
             item == SuiteItem(suite, TopLevel)
  <1>4. code = <<item, last>>
    BY <1>3, ZenonT(60) DEF Init
  <1>5. Bottom.env = TopLevel /\ Bottom.ctx = TopCtx /\ Bottom.asks = FALSE /\ Bottom.rest = rest
    BY DEF Bottom, Level
  <1> HIDE DEF last, item
  <1>6. code = Cons(item, rest)
    BY <1>4, EmptyFacts
  <1> HIDE DEF rest
  <1>7. code = Cons(SuiteItem(suite, Bottom.env), Bottom.rest)
    BY <1>5, <1>6 DEF item
  <1>8. Allows(Legal, suite, Bottom.ctx)
    BY <1>1, <1>5 DEF Regular
  <1>9. Related(code, State(InSuite(suite), <<>>))
    BY <1>5, <1>7, <1>8, OnEmpty, SuiteRelated
  <1>10. Related(code, python)
    BY <1>1, <1>9
  <1>11. QED
    BY <1>10, ReachesItself DEF Follows

\* A step of the code is a step of Python, once Python has come to it.
LEMMA FollowsCodeStep ==
  ASSUME Regular(Legal, Programs), Follows, CodeStep
  PROVE  Follows'
  <1>1. PICK q : Reaches(python, q) /\ Related(code, q) /\ (Waits(q) \/ Settled(code, q))
    BY Settles DEF Follows
  <1>2. python' = python
    BY DEF CodeStep, CodeSuite, CodeLeave
  <1>3. SUFFICES ASSUME TRUE
                 PROVE  ~Waits(q) /\ Related(code', After(q))
    <2>1. Reaches(python', After(q))
      BY <1>1, <1>2, <1>3, ReachesAfter
    <2>2. QED
      BY <1>3, <2>1 DEF Follows
  <1>4. ~Waits(q)
    <2>1. SUFFICES ASSUME Waits(q)
                   PROVE  FALSE
      OBVIOUS
    <2>2. SameWait(code, q)
      BY <1>1, <2>1, SamePoint, SameEnd DEF Waits
    <2>3. QED
      BY <2>2 DEF SameWait, CodeStep, CodeSuite, CodeLeave
  <1>5. CASE SettledSuite(code, q)
    <2>1. Head(code).do = "suite" /\ Related(Begun(code), After(q))
      BY <1>5, BeginsSuite
    <2>2. CodeSuite
      BY <2>1 DEF CodeStep, CodeLeave
    <2>3. code' = Begun(code)
      BY <2>2, ZenonT(60) DEF CodeSuite, Begun
    <2>4. QED
      BY <1>4, <2>1, <2>3
  <1>6. CASE SettledReturn(code, q)
    <2>1. Head(code).do \in {"return", "raise"} /\ Related(Returned(code), After(q))
      BY <1>6, LeavesFunction
    <2>2. CodeLeave
      BY <2>1 DEF CodeStep, CodeSuite
    <2>3. code' = Returned(code)
      BY <2>2, ZenonT(60) DEF CodeLeave, Returned
    <2>4. QED
      BY <1>4, <2>1, <2>3
  <1>7. QED
    BY <1>1, <1>4, <1>5, <1>6 DEF Settled

\* An expression has the same outcome for both.
LEMMA FollowsObserve ==
  ASSUME Regular(Legal, Programs), Follows, Observe
  PROVE  Follows'
  <1>1. PICK outcome \in PySeen.outcomes : CodeObserve(outcome) /\ PyObserve(outcome)
    BY DEF Observe
  <1>2. Related(code, python)
    BY FollowsWaiting DEF Observe
  <1>3. python.now.kind = "point" /\ PySeen = python.now.point
    BY <1>1 DEF PyObserve, PySeen
  <1>4. code' = Observed(code, outcome)
    BY <1>1, ZenonT(60) DEF CodeObserve, Observed
  <1>5. python' = Given(python, outcome)
    BY <1>1, ZenonT(60) DEF PyObserve, Given, Told
  <1>6. outcome \in python.now.point.outcomes
    BY <1>3
  <1>7. Goes(code, python, outcome)
    BY <1>2, <1>3, <1>6, PointCases, ObservesDo, ObservesTest, ObservesExcept
  <1>8. PICK r : Reaches(Given(python, outcome), r) /\ Related(Observed(code, outcome), r)
    BY <1>7 DEF Goes
  <1>9. Reaches(python', r) /\ Related(code', r)
    BY <1>4, <1>5, <1>8
  <1>10. QED
    BY <1>9 DEF Follows

\* Python follows to where the code waits.
LEMMA FollowsFollow ==
  ASSUME Regular(Legal, Programs), Follows, Follow
  PROVE  Follows'
  <1>1. CodeWaits /\ ~Waits(python) /\ python' = After(python) /\ code' = code
    BY DEF Follow, PyStep, PyWaits
  <1>2. PICK q : Reaches(python, q) /\ Related(code, q)
    BY DEF Follows
  <1>3. CASE python # q
    <2>1. Reaches(After(python), q)
      BY <1>1, <1>2, <1>3, AfterReaches
    <2>2. Reaches(python', q) /\ Related(code', q)
      BY <1>1, <1>2, <2>1
    <2>3. QED
      BY <2>2 DEF Follows
  <1>4. CASE python = q
    <2>1. ~SettledSuite(code, python)
      <3>1. Head(code).do # "suite"
        BY <1>1 DEF CodeWaits, CodeAtPoint
      <3>2. QED
        BY <3>1, BeginsSuite
    <2>2. ~SettledReturn(code, python)
      <3>1. ~(Head(code).do \in {"return", "raise"} /\ Head(code).env.frame # None)
        BY <1>1 DEF CodeWaits, CodeAtPoint
      <3>2. QED
        BY <3>1, LeavesFunction
    <2>3. Related(code, python) /\ ~Settled(code, python)
      BY <1>2, <1>4, <2>1, <2>2 DEF Settled
    <2>4. Related(code, After(python))
      BY <1>1, <2>3, Advance
    <2>5. Related(code', python')
      BY <1>1, <2>4
    <2>6. QED
      BY <2>5, ReachesItself DEF Follows
  <1>5. QED
    BY <1>3, <1>4

\* If Python and the code wait, they wait for the same.
LEMMA FollowsAgrees ==
  ASSUME Follows
  PROVE  AgreesWithPython
  <1> SUFFICES ASSUME PyWaits
               PROVE  CodeSeen = PySeen
    BY DEF AgreesWithPython
  <1>1. SameWait(code, python)
    BY FollowsWaiting
  <1>2. CASE /\ python.now.kind = "point"
             /\ Head(code).do \in {"point", "test", "except"} /\ Head(code).point = python.now.point
    BY <1>2 DEF CodeSeen, CodeAtPoint, PySeen
  <1>3. CASE /\ python.now.kind = "completed"
             /\ Head(code).do \in {"return", "raise"}
             /\ Completed(Head(code).do, Head(code).what)
                  = IF python.now.how = "raise" THEN python.now ELSE [python.now EXCEPT !.how = "return"]
    <2>1. ~CodeAtPoint
      BY <1>3 DEF CodeAtPoint
    <2>2. CodeSeen = Completed(Head(code).do, Head(code).what)
      BY <2>1 DEF CodeSeen
    <2>3. PySeen = IF python.now.how = "raise" THEN python.now ELSE [python.now EXCEPT !.how = "return"]
      BY <1>3 DEF PySeen
    <2>4. QED
      BY <1>3, <2>2, <2>3, ZenonT(60)
  <1>4. QED
    BY <1>1, <1>2, <1>3 DEF SameWait

\* What can happen, at once.
LEMMA FollowsNext ==
  ASSUME Regular(Legal, Programs), Follows, [Next]_vars
  PROVE  Follows'
  <1>1. CASE CodeStep
    BY <1>1, FollowsCodeStep
  <1>2. CASE Observe
    BY <1>2, FollowsObserve
  <1>3. CASE Follow
    BY <1>3, FollowsFollow
  <1>4. CASE UNCHANGED vars
    BY <1>4 DEF vars, Follows
  <1>5. QED
    BY <1>1, <1>2, <1>3, <1>4 DEF Next, Ended

\* For every program that keeps to the rules of TryPrograms, however deep its statements are
\* nested and whatever its expressions do: Python gets by itself to where the code is, in the
\* same statements, and nothing that either does next loses that.
THEOREM Simulation ==
  ASSUME Regular(Legal, Programs)
  PROVE  Spec => []Follows
  <1>1. Init => Follows
    BY FollowsInit
  <1>2. Follows /\ [Next]_vars => Follows'
    BY FollowsNext
  <1>3. QED
    BY <1>1, <1>2, PTL DEF Spec

\* The code generated for such a program evaluates the same expressions as Python in the
\* same order, and returns or raises the same.
THEOREM FollowsPython ==
  ASSUME Regular(Legal, Programs)
  PROVE  Spec => []AgreesWithPython
  <1>1. Spec => []Follows
    BY Simulation
  <1>2. Follows => AgreesWithPython
    BY FollowsAgrees
  <1>3. QED
    BY <1>1, <1>2, PTL

-----------------------------------------------------------------------------
(***************************************************************************)
(* Handlers enclose the code.  The environments of the code, and those in  *)
(* their handlers, loops and callers, are a set that is closed.            *)
(***************************************************************************)
\* An except clause's expression is followed by the finally clause, if there is one.
ItemIn(item, E) ==
  /\ item.env \in E
  /\ item.do = "except" => item.stmt.finally = <<>> \/ item.env.finallies # <<>>

BlockIn(block, E) == Sequence(block) /\ \A i \in DOMAIN block : ItemIn(block[i], E)

\* A handler of code that leaves the finally clauses when it is left.
HandlerIn(h, finallies, E) ==
  /\ IsPrefix(h.env.finallies, finallies)
  /\ h.env \in E /\ BlockIn(h.rest, E)
  /\ h.stmt.finally = <<>> \/ h.env.finallies # <<>>

LoopIn(loop, E) == loop # None => BlockIn(loop.breakBlock, E) /\ BlockIn(loop.continueBlock, E)

CallerIn(frame, E) == frame # None => frame.env \in E /\ BlockIn(frame.rest, E)

ClausesIn(finallies, E) ==
  \A i \in DOMAIN finallies :
    finallies[i].parentExceptBlock # None =>
      HandlerIn(finallies[i].parentExceptBlock, SubSeq(finallies, 1, i - 1), E)

EnvIn(e, E) ==
  /\ IsEnv(e) /\ LoopIn(e.loop, E) /\ CallerIn(e.frame, E) /\ ClausesIn(e.finallies, E)
  /\ e.handler # None => HandlerIn(e.handler, e.finallies, E)

Closed(E) == \A e \in E : EnvIn(e, E)

\* The environments of a block can be added.
Makes(E, block) == \E F : E \subseteq F /\ Closed(F) /\ BlockIn(block, F)

\* More environments do no harm.
LEMMA InLarger ==
  ASSUME NEW E, NEW F, E \subseteq F
  PROVE  /\ \A block : BlockIn(block, E) => BlockIn(block, F)
         /\ \A h, finallies : HandlerIn(h, finallies, E) => HandlerIn(h, finallies, F)
         /\ \A e : EnvIn(e, E) => EnvIn(e, F)
  <1>1. \A block : BlockIn(block, E) => BlockIn(block, F)
    BY DEF BlockIn, ItemIn
  <1>2. \A h, finallies : HandlerIn(h, finallies, E) => HandlerIn(h, finallies, F)
    BY <1>1, ZenonT(60) DEF HandlerIn
  <1>3. ASSUME NEW e, EnvIn(e, E)
        PROVE  EnvIn(e, F)
    <2>1. IsEnv(e) /\ LoopIn(e.loop, F)
      BY <1>1, <1>3 DEF EnvIn, LoopIn
    <2>2. CallerIn(e.frame, F)
      BY <1>1, <1>3 DEF EnvIn, CallerIn
    <2>3. ClausesIn(e.finallies, F)
      BY <1>2, <1>3, ZenonT(60) DEF EnvIn, ClausesIn
    <2>4. e.handler # None => HandlerIn(e.handler, e.finallies, F)
      BY <1>2, <1>3 DEF EnvIn
    <2>5. QED
      BY <2>1, <2>2, <2>3, <2>4 DEF EnvIn
  <1>4. QED
    BY <1>1, <1>2, <1>3

\* Environments of which all parts are known are added.
LEMMA AddEnvs ==
  ASSUME NEW E, Closed(E), NEW D, \A e \in D : EnvIn(e, E)
  PROVE  Closed(E \cup D)
  <1>1. \A e \in E \cup D : EnvIn(e, E)
    BY DEF Closed
  <1>2. QED
    BY <1>1, InLarger DEF Closed

\* A block is put together and taken apart.
LEMMA BlockCons ==
  ASSUME NEW E, NEW a, ItemIn(a, E), NEW block, BlockIn(block, E)
  PROVE  BlockIn(Cons(a, block), E)
  <1>1. PICK S : block \in Seq(S)
    BY DEF BlockIn, Sequence
  <1>2. block \in Seq(S \cup {a}) /\ <<a>> \in Seq(S \cup {a})
    BY <1>1, SeqMonotonic
  <1> DEFINE b == <<a>> \o block
  <1>3. /\ Len(block) \in Nat /\ DOMAIN block = 1 .. Len(block)
        /\ DOMAIN b = 1 .. Len(block) + 1 /\ b \in Seq(S \cup {a})
        /\ b[1] = a /\ \A i \in 2 .. Len(block) + 1 : b[i] = block[i - 1]
    BY <1>1, <1>2
  <1> HIDE DEF b
  <1>4. ASSUME NEW i \in DOMAIN b
        PROVE  ItemIn(b[i], E)
    <2>1. CASE i = 1
      BY <1>3, <2>1
    <2>2. CASE i # 1
      <3>1. i \in 2 .. Len(block) + 1 /\ i - 1 \in DOMAIN block
        BY <1>3, <1>4, <2>2
      <3>2. QED
        BY <1>3, <3>1 DEF BlockIn
    <2>3. QED
      BY <2>1, <2>2
  <1>5. BlockIn(b, E)
    BY <1>3, <1>4 DEF BlockIn, Sequence
  <1>6. QED
    BY <1>5 DEF b, Cons

\* A block's first item and the others.
LEMMA BlockParts ==
  ASSUME NEW E, NEW block, BlockIn(block, E), block # <<>>
  PROVE  ItemIn(Head(block), E) /\ BlockIn(Tail(block), E)
  <1>1. PICK S : block \in Seq(S)
    BY DEF BlockIn, Sequence
  <1> DEFINE n == Len(block)
             t == Tail(block)
  <1>2. n \in Nat /\ n # 0 /\ DOMAIN block = 1 .. n /\ Head(block) = block[1]
    BY <1>1, EmptySeq
  <1>3. t \in Seq(S) /\ Len(t) = n - 1 /\ DOMAIN t = 1 .. n - 1 /\ \A i \in 1 .. n - 1 : t[i] = block[i + 1]
    BY <1>1
  <1> HIDE DEF n, t
  <1>4. ItemIn(Head(block), E)
    BY <1>2 DEF BlockIn
  <1>5. ASSUME NEW i \in DOMAIN t
        PROVE  ItemIn(t[i], E)
    <2>1. i + 1 \in DOMAIN block /\ t[i] = block[i + 1]
      BY <1>2, <1>3
    <2>2. QED
      BY <2>1 DEF BlockIn
  <1>6. BlockIn(t, E)
    BY <1>3, <1>5 DEF BlockIn, Sequence
  <1>7. QED
    BY <1>4, <1>6 DEF t

\* The empty block, and one of a single item.
LEMMA BlockSmall ==
  ASSUME NEW E
  PROVE  /\ BlockIn(<<>>, E)
         /\ \A a : ItemIn(a, E) => BlockIn(<<a>>, E)
  <1>1. BlockIn(<<>>, E)
    BY EmptyFacts DEF BlockIn
  <1>2. ASSUME NEW a, ItemIn(a, E)
        PROVE  BlockIn(<<a>>, E)
    <2>1. BlockIn(Cons(a, <<>>), E)
      BY <1>1, <1>2, BlockCons
    <2>2. QED
      BY <2>1, EmptyFacts
  <1>3. QED
    BY <1>1, <1>2

\* Two blocks, one behind the other.
LEMMA BlockConcat ==
  ASSUME NEW E, NEW a, BlockIn(a, E), NEW b, BlockIn(b, E)
  PROVE  BlockIn(a \o b, E)
  <1>1. PICK S : a \in Seq(S)
    BY DEF BlockIn, Sequence
  <1>2. PICK T : b \in Seq(T)
    BY DEF BlockIn, Sequence
  <1>3. a \in Seq(S \cup T) /\ b \in Seq(S \cup T)
    BY <1>1, <1>2, SeqMonotonic
  <1> DEFINE c == a \o b
             n == Len(a)
             m == Len(b)
  <1>4. n \in Nat /\ m \in Nat /\ DOMAIN a = 1 .. n /\ DOMAIN b = 1 .. m
    BY <1>3
  <1>5. /\ c \in Seq(S \cup T) /\ DOMAIN c = 1 .. n + m
        /\ \A i \in 1 .. n + m : c[i] = IF i <= n THEN a[i] ELSE b[i - n]
    BY <1>3
  <1> HIDE DEF c, n, m
  <1>6. ASSUME NEW i \in DOMAIN c
        PROVE  ItemIn(c[i], E)
    <2>1. i \in 1 .. n + m
      BY <1>5
    <2>2. CASE i <= n
      <3>1. i \in DOMAIN a /\ c[i] = a[i]
        BY <1>4, <1>5, <2>1, <2>2
      <3>2. QED
        BY <3>1 DEF BlockIn
    <2>3. CASE ~(i <= n)
      <3>1. i - n \in DOMAIN b /\ c[i] = b[i - n]
        BY <1>4, <1>5, <2>1, <2>3
      <3>2. QED
        BY <3>1 DEF BlockIn
    <2>4. QED
      BY <2>2, <2>3
  <1>7. BlockIn(c, E)
    BY <1>5, <1>6 DEF BlockIn, Sequence
  <1>8. QED
    BY <1>7 DEF c

\* The items, by their environments.
LEMMA ItemsIn ==
  ASSUME NEW E, NEW e
  PROVE  /\ e \in E => \A x : /\ ItemIn(SuiteItem(x, e), E) /\ ItemIn(PointItem(x, e), E)
                              /\ ItemIn(TestItem(x, e), E)
         /\ Leaving(e) \in E => \A x : ItemIn(ReturnItem(x, e), E) /\ ItemIn(RaiseItem(x, e), E)
         /\ e \in E => \A s, i, x : s.finally = <<>> \/ e.finallies # <<>> => ItemIn(ExceptItem(s, i, x, e), E)
  <1>1. \A x : /\ SuiteItem(x, e).env = e /\ SuiteItem(x, e).do # "except"
               /\ PointItem(x, e).env = e /\ PointItem(x, e).do # "except"
    BY DEF SuiteItem, PointItem
  <1>2. \A x : TestItem(x, e).env = e /\ TestItem(x, e).do # "except"
    BY DEF TestItem
  <1>3. \A x : /\ ReturnItem(x, e).env = Leaving(e) /\ ReturnItem(x, e).do # "except"
               /\ RaiseItem(x, e).env = Leaving(e) /\ RaiseItem(x, e).do # "except"
    BY DEF ReturnItem, RaiseItem
  <1>4. \A s, i, x : ExceptItem(s, i, x, e).env = e /\ ExceptItem(s, i, x, e).stmt = s
    BY DEF ExceptItem
  <1>5. QED
    BY <1>1, <1>2, <1>3, <1>4 DEF ItemIn

\* A finally clause, copied, is left by the handlers that are left.
LEMMA OutsideIn ==
  ASSUME NEW e, NEW E, EnvIn(e, E), NEW i \in DOMAIN e.finallies
  PROVE  EnvIn(Outside(e, SubSeq(e.finallies, 1, i - 1), e.finallies[i].parentExceptBlock), E)
  <1> DEFINE F == e.finallies
             G == SubSeq(F, 1, i - 1)
             h == F[i].parentExceptBlock
             u == Outside(e, G, h)
  <1>1. IsEnv(e) /\ Sequence(F) /\ ClausesIn(F, E)
    BY DEF EnvIn, IsEnv
  <1>2. Sequence(G)
    BY <1>1, FirstClauses
  <1>3. h # None => HandlerIn(h, G, E)
    BY <1>1 DEF ClausesIn
  <1>4. DOMAIN G \subseteq DOMAIN F /\ \A j \in DOMAIN G : G[j] = F[j] /\ SubSeq(G, 1, j - 1) = SubSeq(F, 1, j - 1)
    <2>1. PICK S : F \in Seq(S)
      BY <1>1 DEF Sequence
    <2> DEFINE n == Len(F)
    <2>2. n \in Nat /\ DOMAIN F = 1 .. n /\ i \in 1 .. n
      BY <2>1
    <2> HIDE DEF n, F
    <2>3. G \in Seq(S) /\ DOMAIN G = 1 .. i - 1 /\ Len(G) = i - 1 /\ \A j \in 1 .. i - 1 : G[j] = F[j]
      BY <2>1, <2>2
    <2>4. \A j \in 1 .. i - 1 : j \in 1 .. n
      BY <2>2
    <2> HIDE DEF G
    <2>5. ASSUME NEW j \in 1 .. i - 1
          PROVE  SubSeq(G, 1, j - 1) = SubSeq(F, 1, j - 1)
      <3> DEFINE a == SubSeq(G, 1, j - 1)
                 b == SubSeq(F, 1, j - 1)
      <3>1. j - 1 <= i - 1 /\ j - 1 <= n /\ j - 1 \in Nat
        BY <2>2
      <3>2. a \in Seq(S) /\ Len(a) = j - 1 /\ \A k \in 1 .. j - 1 : a[k] = G[k]
        BY <2>2, <2>3, <3>1
      <3>3. b \in Seq(S) /\ Len(b) = j - 1 /\ \A k \in 1 .. j - 1 : b[k] = F[k]
        BY <2>1, <2>2, <3>1
      <3>4. \A k \in 1 .. j - 1 : k \in 1 .. i - 1
        BY <2>2, <3>1
      <3> HIDE DEF a, b
      <3>5. \A k \in 1 .. Len(a) : a[k] = b[k]
        BY <2>3, <3>2, <3>3, <3>4
      <3>6. a = b
        BY <3>2, <3>3, <3>5, SeqEqual
      <3>7. QED
        BY <3>6 DEF a, b
    <2>6. QED
      BY <2>2, <2>3, <2>4, <2>5
  <1>5. ClausesIn(G, E)
    <2> HIDE DEF F, G
    <2>1. QED
      BY <1>1, <1>4, ZenonT(60) DEF ClausesIn
  <1>6. IsEnv(u) /\ u.loop = e.loop /\ u.finallies = G /\ u.handler = h /\ u.frame = e.frame
    <2> HIDE DEF G, h
    <2>1. QED
      BY <1>1, <1>2, EnvOutside
  <1> HIDE DEF u, G, h
  <1>7. EnvIn(u, E)
    BY <1>3, <1>5, <1>6 DEF EnvIn
  <1>8. QED
    BY <1>7 DEF u, G, h

\* What leaves the function takes its caller.
LEMMA LeavingIn ==
  ASSUME NEW e, NEW E, EnvIn(e, E)
  PROVE  EnvIn(Leaving(e), E)
  <1> DEFINE u == Leaving(e)
             frame == e.frame
  <1>1. CallerIn(frame, E)
    BY DEF EnvIn
  <1> HIDE DEF frame
  <1>2. u = [loop |-> None, finallies |-> <<>>, handler |-> None, frame |-> frame]
    BY DEF Leaving, TopLevel, frame
  <1> HIDE DEF u
  <1>3. u.loop = None /\ u.finallies = <<>> /\ u.handler = None /\ u.frame = frame
    BY <1>2
  <1>4. IsEnv(u)
    BY <1>2, <1>3, EmptyFacts DEF IsEnv
  <1>5. ClausesIn(<<>>, E)
    BY DEF ClausesIn
  <1>6. EnvIn(u, E)
    BY <1>1, <1>3, <1>4, <1>5 DEF EnvIn, LoopIn
  <1>7. QED
    BY <1>6 DEF u

\* Prefixes of the finally clauses.
LEMMA PrefixFacts ==
  ASSUME NEW F, Sequence(F)
  PROVE  /\ IsPrefix(F, F)
         /\ \A H, own : Sequence(H) /\ IsPrefix(H, F) => IsPrefix(H, Append(F, own))
  <1>1. IsPrefix(F, F)
    <2>1. Len(F) \in Nat
      BY DEF Sequence
    <2>2. QED
      BY <2>1 DEF IsPrefix
  <1>2. ASSUME NEW H, NEW own, Sequence(H), IsPrefix(H, F)
        PROVE  IsPrefix(H, Append(F, own))
    <2> DEFINE G == Append(F, own)
               n == Len(H)
               m == Len(F)
    <2>1. n \in Nat /\ m \in Nat /\ n <= m /\ SubSeq(H, 1, n) = SubSeq(F, 1, n)
      BY <1>2 DEF Sequence, IsPrefix
    <2>2. /\ Len(G) = m + 1
          /\ \A i \in 1 .. m : SubSeq(G, 1, i - 1) = SubSeq(F, 1, i - 1)
          /\ Front(G) = F
      BY OneMoreClause
    <2>3. SubSeq(F, 1, m) = F
      <3>1. PICK S : F \in Seq(S)
        BY DEF Sequence
      <3>2. QED
        BY <3>1
    <2> HIDE DEF G, n, m
    <2>4. SubSeq(G, 1, m) = F
      <3>1. (m + 1) - 1 = m
        BY <2>1
      <3>2. QED
        BY <2>2, <3>1 DEF Front
    <2>5. SubSeq(G, 1, n) = SubSeq(F, 1, n)
      <3>1. CASE n = m
        BY <2>3, <2>4, <3>1
      <3>2. CASE n # m
        <4> DEFINE i == n + 1
        <4>1. i \in 1 .. m /\ i - 1 = n
          BY <2>1, <3>2
        <4> HIDE DEF i
        <4>2. SubSeq(G, 1, i - 1) = SubSeq(F, 1, i - 1)
          BY <2>2, <4>1
        <4>3. QED
          BY <4>1, <4>2
      <3>3. QED
        BY <3>1, <3>2
    <2>6. n <= Len(G)
      BY <2>1, <2>2
    <2>7. QED
      BY <2>1, <2>5, <2>6 DEF IsPrefix, n, G
  <1>3. QED
    BY <1>1, <1>2

\* The except clauses of a try statement.
LEMMA HandledIn ==
  ASSUME NEW e, NEW E, Closed(E), e \in E, NEW s
  PROVE  /\ EnvIn(Handled(s, e), E)
         /\ s.finally = <<>> \/ Handled(s, e).finallies # <<>>
  <1> DEFINE F == e.finallies
             own == Own(s, e)
             u == Handled(s, e)
  <1>1. EnvIn(e, E) /\ IsEnv(e) /\ Sequence(F) /\ ClausesIn(F, E)
    BY DEF Closed, EnvIn, IsEnv
  <1>2. /\ IsEnv(u) /\ u.loop = e.loop /\ u.frame = e.frame /\ u.handler = e.handler
        /\ u.finallies = TryFinallies(s, e) /\ (s.finally = <<>> => u = e)
    BY <1>1, HandledFacts
  <1>3. own.parentExceptBlock = e.handler
    BY DEF Own
  <1> HIDE DEF u, own
  <1>4. CASE s.finally = <<>>
    BY <1>1, <1>2, <1>4 DEF u
  <1>5. CASE s.finally # <<>>
    <2> DEFINE G == Append(F, own)
               m == Len(F)
    <2>1. u.finallies = G
      BY <1>2, <1>5 DEF TryFinallies, own
    <2> HIDE DEF F
    <2>2. /\ m \in Nat /\ DOMAIN F = 1 .. m /\ DOMAIN G = 1 .. m + 1 /\ Len(G) = m + 1
          /\ \A i \in 1 .. m : G[i] = F[i] /\ SubSeq(G, 1, i - 1) = SubSeq(F, 1, i - 1)
          /\ G[m + 1] = own /\ Front(G) = F
      BY <1>1, OneMoreClause
    <2> HIDE DEF G, m
    <2>3. SubSeq(G, 1, (m + 1) - 1) = F
      BY <2>2 DEF Front
    <2>4. e.handler # None => HandlerIn(e.handler, F, E)
      BY <1>1 DEF EnvIn, F
    <2>5. ASSUME NEW i \in DOMAIN G, G[i].parentExceptBlock # None
          PROVE  HandlerIn(G[i].parentExceptBlock, SubSeq(G, 1, i - 1), E)
      <3>1. CASE i = m + 1
        BY <1>3, <2>2, <2>3, <2>4, <2>5, <3>1
      <3>2. CASE i # m + 1
        <4>1. i \in 1 .. m
          BY <2>2, <3>2
        <4>2. G[i] = F[i] /\ SubSeq(G, 1, i - 1) = SubSeq(F, 1, i - 1) /\ i \in DOMAIN F
          BY <2>2, <4>1
        <4>3. HandlerIn(F[i].parentExceptBlock, SubSeq(F, 1, i - 1), E)
          BY <1>1, <2>5, <4>2 DEF ClausesIn
        <4>4. QED
          BY <4>2, <4>3
      <3>3. QED
        BY <3>1, <3>2
    <2>6. ClausesIn(G, E)
      BY <2>5 DEF ClausesIn
    <2>7. ASSUME e.handler # None
          PROVE  HandlerIn(e.handler, G, E)
      <3> DEFINE H == e.handler.env.finallies
      <3>1. Sequence(H)
        BY <2>4, <2>7 DEF HandlerIn, Closed, EnvIn, IsEnv
      <3>2. IsPrefix(H, F)
        BY <2>4, <2>7 DEF HandlerIn
      <3>3. IsPrefix(H, G)
        BY <1>1, <3>1, <3>2, PrefixFacts DEF G
      <3>4. QED
        BY <2>4, <2>7, <3>3 DEF HandlerIn
    <2>8. EnvIn(u, E)
      BY <1>1, <1>2, <2>1, <2>6, <2>7 DEF EnvIn
    <2>9. u.finallies # <<>>
      <3>1. Len(G) # 0
        BY <2>2
      <3>2. Len(<<>>) = 0
        OBVIOUS
      <3>3. QED
        BY <2>1, <3>1, <3>2, ZenonT(60)
    <2>10. QED
      BY <2>8, <2>9 DEF u
  <1>6. QED
    BY <1>4, <1>5

\* The suite of a try statement.
LEMMA TryIn ==
  ASSUME NEW e, NEW E, Closed(E), e \in E, NEW s, Handled(s, e) \in E, NEW rest, BlockIn(rest, E)
  PROVE  EnvIn(EnterTry(s, e, rest), E)
  <1> DEFINE g == Handled(s, e)
             h == HandlerOf(s, e, rest)
             u == EnterTry(s, e, rest)
  <1>1. IsEnv(e)
    BY DEF Closed, EnvIn
  <1>2. /\ IsEnv(u) /\ u.loop = e.loop /\ u.frame = e.frame /\ u.finallies = TryFinallies(s, e) /\ u.handler = h
    BY <1>1, EnterTryFacts
  <1>3. /\ IsEnv(g) /\ g.loop = e.loop /\ g.frame = e.frame /\ g.finallies = TryFinallies(s, e)
    BY <1>1, HandledFacts
  <1>4. h.stmt = s /\ h.env = g /\ h.rest = rest
    BY DEF HandlerOf
  <1>5. EnvIn(g, E) /\ (s.finally = <<>> \/ g.finallies # <<>>)
    BY HandledIn
  <1> HIDE DEF g, h, u
  <1>6. IsPrefix(g.finallies, g.finallies)
    BY <1>3, PrefixFacts DEF IsEnv
  <1>7. HandlerIn(h, u.finallies, E)
    BY <1>2, <1>3, <1>4, <1>5, <1>6 DEF HandlerIn, g
  <1>8. EnvIn(u, E)
    BY <1>2, <1>3, <1>5, <1>7 DEF EnvIn
  <1>9. QED
    BY <1>8 DEF u

\* The copies of the finally clauses that a jump leaves, and what is behind them.
LEMMA LeaveMakes ==
  ASSUME NEW e, NEW E, Closed(E), e \in E, NEW full, NEW block, BlockIn(block, E)
  PROVE  Makes(E, Leave(e, full, block))
  <1> DEFINE F == e.finallies
             Env(i) == Outside(e, SubSeq(F, 1, i - 1), F[i].parentExceptBlock)
             D == {Env(i) : i \in DOMAIN F}
             n == Cardinality(Left(e, full))
             m == Len(F)
             copies == ExecuteFinallyBlocks(e, full)
  <1>1. EnvIn(e, E) /\ IsEnv(e)
    BY DEF Closed, EnvIn
  <1>2. \A i \in DOMAIN F : EnvIn(Env(i), E)
    BY <1>1, OutsideIn
  <1>3. m \in Nat /\ DOMAIN F = 1 .. m /\ Left(e, full) \subseteq 1 .. m /\ n \in Nat
    BY <1>1, LeftFacts
  <1>4. n <= m
    <2>1. IsFiniteSet(1 .. m) /\ Cardinality(1 .. m) = m
      BY <1>3, FS_Interval
    <2>2. QED
      BY <1>3, <2>1, FS_Subset
  <1>5. Sequence(copies) /\ copies = [k \in 1 .. n |-> FinallyOutside(e, m - k + 1)]
    BY <1>1, CopiesSequence DEF ExecuteFinallyBlocks
  <1>6. \A i : FinallyOutside(e, i) = SuiteItem(F[i].suite, Env(i))
    BY <1>1, OutsideCopy
  <1> HIDE DEF Env, n, m
  <1> DEFINE G == E \cup D
  <1>7. E \subseteq G /\ Closed(G)
    BY <1>2, AddEnvs
  <1>8. \A i \in DOMAIN F : Env(i) \in G
    OBVIOUS
  <1> HIDE DEF G, D, copies, F
  <1>9. ASSUME NEW k \in DOMAIN copies
        PROVE  ItemIn(copies[k], G)
    <2> DEFINE i == m - k + 1
    <2>1. k \in 1 .. n
      BY <1>5
    <2>2. i \in DOMAIN F
      BY <1>3, <1>4, <2>1
    <2>3. copies[k] = SuiteItem(F[i].suite, Env(i))
      BY <1>5, <1>6, <2>1
    <2> HIDE DEF i
    <2>4. ItemIn(SuiteItem(F[i].suite, Env(i)), G)
      BY <1>8, <2>2, ItemsIn
    <2>5. QED
      BY <2>3, <2>4
  <1>10. BlockIn(copies, G)
    BY <1>5, <1>9 DEF BlockIn
  <1>11. BlockIn(block, G)
    BY <1>7, InLarger
  <1>12. BlockIn(copies \o block, G)
    BY <1>10, <1>11, BlockConcat
  <1>13. QED
    BY <1>7, <1>12, ZenonT(60) DEF Makes, Leave, copies

\* What is behind a try statement's handlers.
LEMMA EnterFinallyIn ==
  ASSUME NEW e, NEW E, Closed(E), e \in E, NEW s, s.finally = <<>> \/ e.finallies # <<>>
  PROVE  EnvIn(EnterFinally(s, e), E)
  <1>1. EnvIn(e, E) /\ IsEnv(e)
    BY DEF Closed, EnvIn
  <1>2. CASE s.finally = <<>>
    BY <1>1, <1>2 DEF EnterFinally
  <1>3. CASE s.finally # <<>>
    <2> DEFINE F == e.finallies
               n == Len(F)
    <2>1. PICK S : F \in Seq(S)
      BY <1>1 DEF IsEnv, Sequence
    <2>2. n \in Nat /\ DOMAIN F = 1 .. n /\ n # 0
      BY <1>3, <2>1, EmptySeq
    <2>3. n \in DOMAIN F
      BY <2>2
    <2>4. EnvIn(Outside(e, SubSeq(F, 1, n - 1), F[n].parentExceptBlock), E)
      BY <1>1, <2>3, OutsideIn
    <2>5. EnterFinally(s, e) = Outside(e, SubSeq(F, 1, n - 1), F[n].parentExceptBlock)
      BY <1>1, <1>3 DEF EnterFinally, Outside, Front, Last, IsEnv
    <2>6. QED
      BY <2>4, <2>5
  <1>4. QED
    BY <1>2, <1>3

\* The except clauses, and the finally clause behind them.
LEMMA ExceptsMakes ==
  ASSUME NEW e, NEW E, Closed(E), e \in E, NEW s, s.finally = <<>> \/ e.finallies # <<>>,
         NEW rest, BlockIn(rest, E), NEW clause, NEW exception
  PROVE  Makes(E, Excepts(s, clause, exception, e, rest))
  <1> DEFINE u == EnterFinally(s, e)
             w == Leaving(e)
             F == E \cup {u, w}
             block == Excepts(s, clause, exception, e, rest)
  <1>1. EnvIn(u, E)
    BY EnterFinallyIn
  <1>2. EnvIn(w, E)
    BY LeavingIn DEF Closed
  <1> HIDE DEF u, w
  <1>3. E \subseteq F /\ Closed(F)
    BY <1>1, <1>2, AddEnvs
  <1>4. u \in F /\ w \in F /\ e \in F
    OBVIOUS
  <1> HIDE DEF F
  <1>5. BlockIn(rest, F)
    BY <1>3, InLarger
  <1> DEFINE a == ExceptItem(s, clause, exception, e)
             b == SuiteItem(s.exceptAll, e)
             c == SuiteItem(s.finally, u)
             d == RaiseItem(exception, e)
  <1>6. ItemIn(a, F) /\ ItemIn(b, F) /\ ItemIn(c, F) /\ ItemIn(d, F)
    BY <1>4, ItemsIn DEF w
  <1> HIDE DEF a, b, c, d
  <1>7. BlockIn(Cons(a, rest), F)
    BY <1>5, <1>6, BlockCons
  <1>8. BlockIn(Cons(b, Cons(c, rest)), F)
    BY <1>5, <1>6, BlockCons
  <1>9. BlockIn(<<c, d>>, F)
    <2>1. BlockIn(Cons(c, <<d>>), F)
      BY <1>6, BlockCons, BlockSmall
    <2>2. QED
      BY <2>1, EmptyFacts
  <1>10. block = Cons(a, rest) \/ block = Cons(b, Cons(c, rest)) \/ block = <<c, d>>
    BY DEF Excepts, a, b, c, d, u
  <1> HIDE DEF block
  <1>11. BlockIn(block, F)
    BY <1>7, <1>8, <1>9, <1>10
  <1>12. QED
    BY <1>3, <1>11, ZenonT(60) DEF Makes, block

\* An exception goes to the handler, or leaves the function.
LEMMA RaiseMakes ==
  ASSUME NEW e, NEW E, Closed(E), e \in E, NEW exception
  PROVE  Makes(E, RaiseException(exception, e)) /\ Makes(E, <<RaiseItem(exception, e)>>)
  <1> DEFINE w == Leaving(e)
             F == E \cup {w}
  <1>1. EnvIn(w, E) /\ EnvIn(e, E)
    BY LeavingIn DEF Closed
  <1> HIDE DEF w
  <1>2. E \subseteq F /\ Closed(F) /\ w \in F
    BY <1>1, AddEnvs
  <1> HIDE DEF F
  <1>3. ItemIn(RaiseItem(exception, e), F)
    BY <1>2, ItemsIn DEF w
  <1>4. BlockIn(<<RaiseItem(exception, e)>>, F)
    BY <1>3, BlockSmall
  <1>5. Makes(E, <<RaiseItem(exception, e)>>)
    BY <1>2, <1>4, ZenonT(60) DEF Makes
  <1>6. CASE e.handler = None
    BY <1>5, <1>6 DEF RaiseException
  <1>7. CASE e.handler # None
    <2> DEFINE h == e.handler
    <2>1. h.env \in E /\ BlockIn(h.rest, E) /\ (h.stmt.finally = <<>> \/ h.env.finallies # <<>>)
      BY <1>1, <1>7 DEF EnvIn, HandlerIn
    <2>2. Makes(E, Excepts(h.stmt, 1, exception, h.env, h.rest))
      BY <2>1, ExceptsMakes
    <2>3. RaiseException(exception, e) = Excepts(h.stmt, 1, exception, h.env, h.rest)
      BY <1>7 DEF RaiseException
    <2>4. QED
      BY <1>5, <2>2, <2>3, ZenonT(60)
  <1>8. QED
    BY <1>5, <1>6, <1>7

\* break, continue and return.
LEMMA JumpMakes ==
  ASSUME NEW e, NEW E, Closed(E), e \in E, NEW s, s.kind \in {"break", "continue", "return"},
         s.kind # "return" => e.loop # None
  PROVE  Makes(E, Jump(s, e))
  <1>1. EnvIn(e, E)
    BY DEF Closed
  <1>2. CASE s.kind # "return"
    <2>1. BlockIn(e.loop.breakBlock, E) /\ BlockIn(e.loop.continueBlock, E)
      BY <1>1, <1>2 DEF EnvIn, LoopIn
    <2>2. Makes(E, Leave(e, FALSE, e.loop.breakBlock)) /\ Makes(E, Leave(e, FALSE, e.loop.continueBlock))
      BY <2>1, LeaveMakes
    <2>3. s.kind \in {"break", "continue"}
      BY <1>2
    <2>4. Jump(s, e) = Leave(e, FALSE, e.loop.breakBlock) \/ Jump(s, e) = Leave(e, FALSE, e.loop.continueBlock)
      BY <2>3 DEF Jump, Leave
    <2>5. QED
      BY <2>2, <2>4
  <1>3. CASE s.kind = "return"
    <2> DEFINE w == Leaving(e)
               F == E \cup {w}
               item == ReturnItem(s.name, e)
    <2>1. EnvIn(w, E)
      BY <1>1, LeavingIn
    <2> HIDE DEF w
    <2>2. E \subseteq F /\ Closed(F) /\ w \in F /\ e \in F
      BY <2>1, AddEnvs
    <2> HIDE DEF F
    <2>3. ItemIn(item, F)
      BY <2>2, ItemsIn DEF w
    <2> HIDE DEF item
    <2>4. BlockIn(<<item>>, F)
      BY <2>3, BlockSmall
    <2>5. Makes(F, Leave(e, s.value, <<item>>))
      BY <2>2, <2>4, LeaveMakes
    <2>6. Makes(E, Leave(e, s.value, <<item>>))
      BY <2>2, <2>5, ZenonT(60) DEF Makes
    <2>7. Jump(s, e) = Leave(e, s.value, <<item>>)
      BY <1>3 DEF Jump, Leave, item
    <2>8. QED
      BY <2>6, <2>7
  <1>4. QED
    BY <1>2, <1>3

\* A try statement.
LEMMA TryMakes ==
  ASSUME NEW e, NEW E, Closed(E), e \in E, NEW s, NEW rest, BlockIn(rest, E)
  PROVE  Makes(E, TryCode(s, e, rest))
  <1> DEFINE g == Handled(s, e)
             u == EnterTry(s, e, rest)
             v == EnterFinally(s, u)
             F == E \cup {g}
             G == F \cup {u}
             block == TryCode(s, e, rest)
             a == SuiteItem(s.suite, u)
             b == SuiteItem(s.orelse, u)
             c == SuiteItem(s.finally, v)
  <1>1. EnvIn(g, E) /\ IsEnv(e)
    BY HandledIn DEF Closed, EnvIn
  <1> HIDE DEF g
  <1>2. E \subseteq F /\ Closed(F) /\ g \in F /\ e \in F
    BY <1>1, AddEnvs
  <1> HIDE DEF F
  <1>3. BlockIn(rest, F)
    BY <1>2, InLarger
  <1>4. EnvIn(u, F)
    BY <1>2, <1>3, TryIn DEF g
  <1>5. v = e \/ v = u
    <2>1. CASE s.finally = <<>>
      BY <2>1 DEF EnterFinally
    <2>2. CASE s.finally # <<>>
      BY <1>1, <2>2, FinallyEnv
    <2>3. QED
      BY <2>1, <2>2
  <1> HIDE DEF u, v
  <1>6. F \subseteq G /\ Closed(G) /\ u \in G
    BY <1>2, <1>4, AddEnvs
  <1>7. v \in G /\ E \subseteq G
    BY <1>2, <1>5
  <1> HIDE DEF G
  <1>8. BlockIn(rest, G)
    BY <1>3, <1>6, InLarger
  <1>9. ItemIn(a, G) /\ ItemIn(b, G) /\ ItemIn(c, G)
    BY <1>6, <1>7, ItemsIn
  <1>10. block = Cons(a, Cons(b, Cons(c, rest)))
    BY DEF TryCode, u, v
  <1> HIDE DEF a, b, c, block
  <1>11. BlockIn(Cons(a, Cons(b, Cons(c, rest))), G)
    BY <1>8, <1>9, BlockCons
  <1>12. QED
    BY <1>6, <1>7, <1>10, <1>11, ZenonT(60) DEF Makes, block

\* A function starts without handler and loop.
LEMMA FunctionMakes ==
  ASSUME NEW e, NEW E, Closed(E), e \in E, NEW s, NEW rest, BlockIn(rest, E)
  PROVE  Makes(E, FunctionCode(s, e, rest))
  <1> DEFINE H == IF s.local THEN e.finallies ELSE <<>>
             frame == [env |-> e, rest |-> rest]
             u == [TopLevel EXCEPT !.finallies = H, !.frame = frame]
             w == Leaving(u)
             F == E \cup {u, w}
             a == SuiteItem(s.suite, u)
             b == ReturnItem("", u)
             block == FunctionCode(s, e, rest)
  <1>1. IsEnv(e) /\ ClausesIn(e.finallies, E)
    BY DEF Closed, EnvIn
  <1>2. Sequence(H) /\ ClausesIn(H, E)
    <2>1. ClausesIn(<<>>, E)
      BY DEF ClausesIn
    <2>2. QED
      BY <1>1, <2>1, EmptyFacts DEF IsEnv
  <1>3. block = <<a, b>>
    BY ZenonT(60) DEF FunctionCode
  <1>4. frame.env = e /\ frame.rest = rest
    OBVIOUS
  <1> HIDE DEF H, frame
  <1>5. CallerIn(frame, E)
    BY <1>4 DEF CallerIn
  <1>6. u = [loop |-> None, finallies |-> H, handler |-> None, frame |-> frame]
    <2> DEFINE top == WithFinallies(TopLevel, H)
    <2>1. u = [top EXCEPT !.frame = frame]
      BY DEF WithFinallies
    <2>2. /\ IsEnv(top) /\ top.loop = TopLevel.loop /\ top.finallies = H
          /\ top.handler = TopLevel.handler
      <3>1. IsEnv(TopLevel)
        BY EmptyFacts DEF TopLevel, IsEnv
      <3>2. QED
        BY <1>2, <3>1, EnvFinallies
    <2>3. TopLevel.loop = None /\ TopLevel.handler = None
      BY DEF TopLevel
    <2> HIDE DEF top, u
    <2>4. QED
      BY <2>1, <2>2, <2>3 DEF IsEnv
  <1>7. /\ IsEnv(u)
        /\ u.loop = None /\ u.finallies = H /\ u.handler = None /\ u.frame = frame
    <2> HIDE DEF u
    <2>1. u.loop = None /\ u.finallies = H /\ u.handler = None /\ u.frame = frame
      BY <1>6
    <2>2. QED
      BY <1>2, <1>6, <2>1 DEF IsEnv
  <1> HIDE DEF u
  <1>8. EnvIn(u, E)
    BY <1>2, <1>5, <1>7 DEF EnvIn, LoopIn
  <1>9. EnvIn(w, E)
    BY <1>8, LeavingIn
  <1> HIDE DEF w
  <1>10. E \subseteq F /\ Closed(F) /\ u \in F /\ w \in F
    BY <1>8, <1>9, AddEnvs
  <1> HIDE DEF F
  <1>11. ItemIn(a, F)
    BY <1>10, ItemsIn
  <1>12. ItemIn(b, F)
    BY <1>10, ItemsIn, ZenonT(60) DEF w
  <1> HIDE DEF a, b, block
  <1>13. BlockIn(Cons(a, <<b>>), F)
    BY <1>11, <1>12, BlockCons, BlockSmall
  <1>14. BlockIn(block, F)
    BY <1>3, <1>13, EmptyFacts
  <1>15. QED
    BY <1>10, <1>14, ZenonT(60) DEF Makes, block

\* Nothing is added.
LEMMA MakesItself ==
  ASSUME NEW E, Closed(E), NEW block, BlockIn(block, E)
  PROVE  Makes(E, block)
  BY DEF Makes

\* The statements.
LEMMA VisitMakes ==
  ASSUME NEW e, NEW E, Closed(E), e \in E, NEW s, NEW rest, BlockIn(rest, E),
         s.kind \in {"do", "break", "continue", "return", "if", "while", "for", "try", "function"},
         s.kind \in {"break", "continue"} => e.loop # None
  PROVE  Makes(E, Visit(s, e, rest))
  <1>1. CASE s.kind = "do"
    <2>1. ItemIn(PointItem(s.point, e), E)
      BY ItemsIn
    <2>2. Makes(E, Cons(PointItem(s.point, e), rest))
      BY <2>1, BlockCons, MakesItself
    <2>3. QED
      BY <1>1, <2>2 DEF Visit
  <1>2. CASE s.kind \in {"break", "continue", "return"}
    <2>1. Makes(E, Jump(s, e))
      BY <1>2, JumpMakes
    <2>2. Visit(s, e, rest) = Jump(s, e)
      BY <1>2 DEF Visit
    <2>3. QED
      BY <2>1, <2>2
  <1>3. CASE s.kind \in {"if", "while", "for"}
    <2>1. ItemIn(TestItem(s, e), E)
      BY ItemsIn
    <2>2. Makes(E, Cons(TestItem(s, e), rest))
      BY <2>1, BlockCons, MakesItself
    <2>3. Visit(s, e, rest) = Cons(TestItem(s, e), rest)
      BY <1>3 DEF Visit
    <2>4. QED
      BY <2>2, <2>3
  <1>4. CASE s.kind = "try"
    BY <1>4, TryMakes DEF Visit
  <1>5. CASE s.kind = "function"
    BY <1>5, FunctionMakes DEF Visit
  <1>6. QED
    BY <1>1, <1>2, <1>3, <1>4, <1>5

\* The body of a loop, or of an if statement.
LEMMA BodyMakes ==
  ASSUME NEW E, Closed(E), NEW item, ItemIn(item, E), NEW rest, BlockIn(rest, E)
  PROVE  Makes(E, CodeOfBody(item, rest))
  <1> DEFINE e == item.env
             again == Cons(item, rest)
             l == [breakBlock |-> rest, continueBlock |-> again, depth |-> Depth(e.loop) + 1]
             u == WithLoop(e, l)
             F == E \cup {u}
             a == SuiteItem(item.stmt.suite, e)
             b == SuiteItem(item.stmt.suite, u)
             block == CodeOfBody(item, rest)
  <1>1. e \in E /\ EnvIn(e, E) /\ IsEnv(e)
    BY DEF ItemIn, Closed, EnvIn
  <1>2. BlockIn(again, E)
    BY BlockCons
  <1>3. block = Cons(a, rest) \/ block = Cons(b, again)
    BY DEF CodeOfBody, WithLoop
  <1>4. l.breakBlock = rest /\ l.continueBlock = again
    OBVIOUS
  <1> HIDE DEF again, l
  <1>5. LoopIn(l, E)
    BY <1>2, <1>4 DEF LoopIn
  <1>6. IsEnv(u) /\ u.loop = l /\ u.finallies = e.finallies /\ u.handler = e.handler /\ u.frame = e.frame
    BY <1>1, EnvLoop
  <1> HIDE DEF u
  <1>7. EnvIn(u, E)
    BY <1>1, <1>5, <1>6 DEF EnvIn
  <1>8. E \subseteq F /\ Closed(F) /\ u \in F /\ e \in F
    BY <1>1, <1>7, AddEnvs
  <1> HIDE DEF F, e
  <1>9. ItemIn(a, F) /\ ItemIn(b, F)
    BY <1>8, ItemsIn
  <1>10. BlockIn(rest, F) /\ BlockIn(again, F)
    BY <1>2, <1>8, InLarger
  <1> HIDE DEF a, b, block
  <1>11. BlockIn(Cons(a, rest), F) /\ BlockIn(Cons(b, again), F)
    BY <1>9, <1>10, BlockCons
  <1>12. QED
    BY <1>3, <1>8, <1>11, ZenonT(60) DEF Makes, block

\* The code behind an expression.
LEMMA ObservedMakes ==
  ASSUME NEW E, Closed(E), NEW block, BlockIn(block, E), block # <<>>, NEW outcome,
         \/ outcome \in {"raise", "normal"}
         \/ Head(block).do \in {"test", "except"} /\ outcome \in {"true", "false"}
  PROVE  Makes(E, Observed(block, outcome))
  <1> DEFINE item == Head(block)
             rest == Tail(block)
             e == item.env
             s == item.stmt
  <1>1. ItemIn(item, E) /\ BlockIn(rest, E)
    BY BlockParts
  <1>2. e \in E
    BY <1>1 DEF ItemIn
  <1>3. Makes(E, rest)
    BY <1>1, MakesItself
  <1>4. CASE outcome = "raise"
    <2>1. Makes(E, RaiseException(item.point.name, e)) /\ Makes(E, <<RaiseItem(item.point.name, e)>>)
      BY <1>2, RaiseMakes
    <2>2. Makes(E, CodeOfRaise(item))
      BY <2>1 DEF CodeOfRaise
    <2>3. Observed(block, outcome) = CodeOfRaise(item)
      BY <1>4 DEF Observed
    <2>4. QED
      BY <2>2, <2>3
  <1>5. CASE outcome = "normal"
    <2>1. Observed(block, outcome) = rest
      BY <1>5 DEF Observed
    <2>2. QED
      BY <1>3, <2>1
  <1>6. CASE item.do = "test" /\ outcome = "true"
    <2>1. Observed(block, outcome) = CodeOfBody(item, rest)
      BY <1>6 DEF Observed
    <2>2. Makes(E, CodeOfBody(item, rest))
      BY <1>1, BodyMakes
    <2>3. QED
      BY <2>1, <2>2
  <1>7. CASE item.do = "test" /\ outcome = "false"
    <2>1. ItemIn(SuiteItem(s.orelse, e), E)
      BY <1>2, ItemsIn
    <2>2. Makes(E, Cons(SuiteItem(s.orelse, e), rest))
      BY <1>1, <2>1, BlockCons, MakesItself
    <2>3. Observed(block, outcome) = Cons(SuiteItem(s.orelse, e), rest)
      BY <1>7 DEF Observed
    <2>4. QED
      BY <2>2, <2>3
  <1>8. ASSUME item.do = "except"
        PROVE  s.finally = <<>> \/ e.finallies # <<>>
    BY <1>1, <1>8 DEF ItemIn
  <1>9. CASE item.do = "except" /\ outcome = "true"
    <2> DEFINE u == EnterFinally(s, e)
               F == E \cup {u}
               a == SuiteItem(s.excepts[item.clause].suite, e)
               b == SuiteItem(s.finally, u)
    <2>1. EnvIn(u, E)
      BY <1>2, <1>8, <1>9, EnterFinallyIn
    <2>2. Observed(block, outcome) = Cons(a, Cons(b, rest))
      BY <1>9 DEF Observed
    <2> HIDE DEF u
    <2>3. E \subseteq F /\ Closed(F) /\ u \in F /\ e \in F
      BY <1>2, <2>1, AddEnvs
    <2> HIDE DEF F
    <2>4. ItemIn(a, F) /\ ItemIn(b, F)
      BY <2>3, ItemsIn
    <2>5. BlockIn(rest, F)
      BY <1>1, <2>3, InLarger
    <2> HIDE DEF a, b, rest
    <2>6. BlockIn(Cons(a, Cons(b, rest)), F)
      BY <2>4, <2>5, BlockCons
    <2>7. Makes(E, Cons(a, Cons(b, rest)))
      BY <2>3, <2>6, ZenonT(60) DEF Makes
    <2>8. QED
      BY <2>2, <2>7, ZenonT(60)
  <1>10. CASE item.do = "except" /\ outcome = "false"
    <2>1. Makes(E, Excepts(s, item.clause + 1, item.exception, e, rest))
      BY <1>1, <1>2, <1>8, <1>10, ExceptsMakes
    <2>2. Observed(block, outcome) = Excepts(s, item.clause + 1, item.exception, e, rest)
      BY <1>10 DEF Observed
    <2>3. QED
      BY <2>1, <2>2
  <1>11. QED
    BY <1>4, <1>5, <1>6, <1>7, <1>9, <1>10

-----------------------------------------------------------------------------
(***************************************************************************)
(* The steps.                                                              *)
(***************************************************************************)
Encloses == \E E : Closed(E) /\ BlockIn(code, E)

\* What is made of enclosed code is enclosed.
LEMMA MadeEncloses ==
  ASSUME NEW E, Makes(E, code')
  PROVE  Encloses'
  BY DEF Makes, Encloses

\* At the beginning there is no handler.
LEMMA EnclosesInit ==
  ASSUME Init
  PROVE  Encloses
  <1> DEFINE w == Leaving(TopLevel)
             E == {TopLevel, w}
             a == SuiteItem(python.now.suite, TopLevel)
             b == ReturnItem("", TopLevel)
  <1>1. code = <<a, b>>
    BY ZenonT(60) DEF Init
  <1>2. EnvIn(TopLevel, {})
    <2>1. IsEnv(TopLevel)
      BY EmptyFacts DEF TopLevel, IsEnv
    <2>2. TopLevel.loop = None /\ TopLevel.finallies = <<>> /\ TopLevel.handler = None /\ TopLevel.frame = None
      BY DEF TopLevel
    <2>3. ClausesIn(<<>>, {})
      BY DEF ClausesIn
    <2>4. QED
      BY <2>1, <2>2, <2>3 DEF EnvIn, LoopIn, CallerIn
  <1>3. EnvIn(w, {})
    BY <1>2, LeavingIn
  <1>4. Closed(E)
    <2>1. Closed({} \cup E)
      BY <1>2, <1>3, AddEnvs DEF Closed
    <2>2. {} \cup E = E
      OBVIOUS
    <2>3. QED
      BY <2>1, <2>2
  <1> HIDE DEF w
  <1>5. ItemIn(a, E)
    BY ItemsIn
  <1>6. ItemIn(b, E)
    BY ItemsIn, ZenonT(60) DEF w
  <1> HIDE DEF a, b, E
  <1>7. BlockIn(Cons(a, <<b>>), E)
    BY <1>5, <1>6, BlockCons, BlockSmall
  <1>8. BlockIn(code, E)
    BY <1>1, <1>7, EmptyFacts
  <1>9. QED
    BY <1>4, <1>8 DEF Encloses

\* Where Python comes to when the code takes a step.
LEMMA StepSettled ==
  ASSUME Regular(Legal, Programs), Follows, CodeStep
  PROVE  \E q : \/ SettledSuite(code, q) /\ Head(code).do = "suite"
                \/ SettledReturn(code, q) /\ Head(code).do \in {"return", "raise"}
  <1>1. PICK q : Reaches(python, q) /\ Related(code, q) /\ (Waits(q) \/ Settled(code, q))
    BY Settles DEF Follows
  <1>2. ~Waits(q)
    <2>1. SUFFICES ASSUME Waits(q)
                   PROVE  FALSE
      OBVIOUS
    <2>2. SameWait(code, q)
      BY <1>1, <2>1, SamePoint, SameEnd DEF Waits
    <2>3. QED
      BY <2>2 DEF SameWait, CodeStep, CodeSuite, CodeLeave
  <1>3. CASE SettledSuite(code, q)
    BY <1>3, BeginsSuite
  <1>4. CASE SettledReturn(code, q)
    BY <1>4, LeavesFunction
  <1>5. QED
    BY <1>1, <1>2, <1>3, <1>4 DEF Settled

\* The code of a suite.
LEMMA EnclosesSuite ==
  ASSUME Regular(Legal, Programs), Follows, Encloses, CodeSuite
  PROVE  Encloses'
  <1>1. PICK E : Closed(E) /\ BlockIn(code, E)
    BY DEF Encloses
  <1>2. PICK q : SettledSuite(code, q)
    BY StepSettled DEF CodeStep, CodeSuite
  <1>3. PICK level, suite, env :
             /\ On(q.stack, level) /\ Allows(Legal, suite, level.ctx)
             /\ suite # <<>> => env = level.env
             /\ code = Cons(SuiteItem(suite, env), level.rest)
    BY <1>2 DEF SettledSuite
  <1> DEFINE item == SuiteItem(suite, env)
             rest == Tail(code)
  <1>4. IsLevel(level) /\ Sequence(level.rest)
    BY <1>3 DEF On, IsLevel
  <1>5. Head(code) = item /\ code # <<>>
    BY <1>3, <1>4, ConsFacts
  <1>6. ItemIn(item, E) /\ BlockIn(rest, E)
    BY <1>1, <1>5, BlockParts
  <1>7. item.suite = suite /\ item.env = env
    BY DEF SuiteItem
  <1>8. env \in E
    BY <1>6, <1>7 DEF ItemIn
  <1> HIDE DEF item
  <1>9. code' = IF suite = <<>> THEN rest
                ELSE Visit(Head(suite), env, Cons(SuiteItem(Tail(suite), env), rest))
    BY <1>5, <1>7, ZenonT(60) DEF CodeSuite
  <1> HIDE DEF rest
  <1>10. CASE suite = <<>>
    BY <1>1, <1>6, <1>9, <1>10 DEF Encloses
  <1>11. CASE suite # <<>>
    <2> DEFINE s == Head(suite)
               block == Cons(SuiteItem(Tail(suite), env), rest)
    <2>1. env = level.env
      BY <1>3, <1>11
    <2>2. s \in Legal[level.ctx]
      BY <1>3, <1>11 DEF Allows
    <2>3. LegalStatement(s, level.ctx)
      BY <1>4, <2>2 DEF LegalStatement, IsLevel
    <2>4. ItemIn(SuiteItem(Tail(suite), env), E)
      BY <1>8, ItemsIn
    <2>5. BlockIn(block, E)
      BY <1>6, <2>4, BlockCons
    <2> HIDE DEF s, block
    <2>6. /\ s.kind \in {"do", "break", "continue", "return", "if", "while", "for", "try", "function"}
          /\ s.kind \in {"break", "continue"} => level.ctx.jump
      BY <2>3, StatementRule
    <2>7. s.kind \in {"break", "continue"} => env.loop # None
      BY <1>4, <2>1, <2>6 DEF IsLevel
    <2>8. Makes(E, Visit(s, env, block))
      BY <1>1, <1>8, <2>5, <2>6, <2>7, VisitMakes
    <2>9. code' = Visit(s, env, block)
      BY <1>9, <1>11, ZenonT(60) DEF s, block
    <2>10. QED
      BY <2>8, <2>9, MadeEncloses
  <1>12. QED
    BY <1>10, <1>11

\* The end of a function.
LEMMA EnclosesLeave ==
  ASSUME Regular(Legal, Programs), Follows, Encloses, CodeLeave
  PROVE  Encloses'
  <1>1. PICK E : Closed(E) /\ BlockIn(code, E)
    BY DEF Encloses
  <1>2. PICK q : SettledReturn(code, q)
    BY StepSettled DEF CodeStep, CodeLeave
  <1>3. code # <<>>
    <2>1. PICK stack, f, inner, outer, c : FunctionEnded(stack, outer, f, inner, c, code)
      BY <1>2, FunctionEnds, ZenonT(60) DEF SettledReturn
    <2>2. \E item : code = <<item>>
      BY <2>1 DEF FunctionEnded
    <2>3. QED
      BY <2>2, EmptyFacts, ConsFacts
  <1> DEFINE item == Head(code)
             e == item.env
             frame == e.frame
  <1>4. EnvIn(e, E)
    BY <1>1, <1>3, BlockParts DEF ItemIn, Closed
  <1>5. frame # None /\ (code' = frame.rest \/ code' = RaiseException(item.what, frame.env))
    BY DEF CodeLeave
  <1>6. frame.env \in E /\ BlockIn(frame.rest, E)
    BY <1>4, <1>5 DEF EnvIn, CallerIn
  <1> HIDE DEF frame
  <1>7. Makes(E, frame.rest) /\ Makes(E, RaiseException(item.what, frame.env))
    BY <1>1, <1>6, MakesItself, RaiseMakes
  <1> HIDE DEF item
  <1>8. QED
    BY <1>5, <1>7, MadeEncloses

\* An expression.
LEMMA EnclosesObserve ==
  ASSUME Regular(Legal, Programs), Follows, Encloses, Observe
  PROVE  Encloses'
  <1>1. PICK E : Closed(E) /\ BlockIn(code, E)
    BY DEF Encloses
  <1>2. PICK outcome \in PySeen.outcomes : CodeObserve(outcome) /\ PyObserve(outcome)
    BY DEF Observe
  <1>3. Related(code, python)
    BY FollowsWaiting DEF Observe
  <1>4. python.now.kind = "point" /\ PySeen = python.now.point
    BY <1>2 DEF PyObserve, PySeen
  <1>5. outcome \in python.now.point.outcomes
    BY <1>4
  <1>6. code' = Observed(code, outcome)
    BY <1>2, ZenonT(60) DEF CodeObserve, Observed
  <1>7. /\ code # <<>>
        /\ \/ outcome \in {"raise", "normal"}
           \/ Head(code).do \in {"test", "except"} /\ outcome \in {"true", "false"}
    <2>1. CASE AtDo(code, python)
      <3>1. PICK level : /\ On(python.stack, level)
                         /\ Answers(python.now.point, {"normal"}, level.ctx.raise)
                         /\ code = Cons(PointItem(python.now.point, level.env), level.rest)
        BY <2>1 DEF AtDo
      <3>2. Sequence(level.rest)
        BY <3>1 DEF On, IsLevel
      <3>3. code # <<>>
        BY <3>1, <3>2, ConsFacts
      <3>4. QED
        BY <1>5, <3>1, <3>3 DEF Answers
    <2>2. CASE AtTest(code, python)
      <3>1. PICK stack, f, inner, outer :
                 /\ Asked(code, python, stack, f, inner, outer) /\ InTestFrame(f, inner, outer)
                 /\ python.now.point = f.stmt.test
        BY <2>2, ZenonT(60) DEF AtTest
      <3>2. IsLevel(outer) /\ code = inner.rest /\ LegalTest(f.stmt, outer.ctx)
        BY <3>1 DEF Asked, Nested, InTestFrame
      <3>3. Head(code).do = "test"
        BY <3>1, <3>2, TestShape
      <3>4. code = Cons(TestItem(f.stmt, outer.env), outer.rest)
        BY <3>1, <3>2 DEF InTestFrame, Level
      <3>5. code # <<>>
        BY <3>2, <3>4, ConsFacts DEF IsLevel
      <3>6. LegalStatement(f.stmt, outer.ctx) /\ f.stmt.kind \in {"if", "while", "for"}
        BY <3>2 DEF LegalTest, LegalStatement, IsLevel
      <3>7. python.now.point.outcomes \subseteq {"true", "false", "raise"}
        BY <3>1, <3>6, StatementRule DEF Answers
      <3>8. QED
        BY <1>5, <3>3, <3>5, <3>7
    <2>3. CASE AtExcept(code, python)
      <3>1. PICK stack, f, inner, outer :
                 /\ Asked(code, python, stack, f, inner, outer) /\ InExceptFrame(f, inner, outer)
                 /\ python.now.point = f.stmt.excepts[f.clause].test
        BY <2>3, ZenonT(60) DEF AtExcept
      <3>2. /\ IsLevel(outer) /\ code = inner.rest /\ LegalTry(f.stmt, outer.ctx)
            /\ f.clause \in 1 .. Len(f.stmt.excepts)
        BY <3>1 DEF Asked, Nested, InExceptFrame
      <3>3. Head(code).do = "except"
        BY <3>1, <3>2, ExceptShape
      <3>4. code = Cons(ExceptItem(f.stmt, f.clause, f.exception.what, Handled(f.stmt, outer.env)), outer.rest)
        BY <3>1, <3>2 DEF InExceptFrame, Level
      <3>5. code # <<>>
        BY <3>2, <3>4, ConsFacts DEF IsLevel
      <3>6. LegalStatement(f.stmt, outer.ctx) /\ f.stmt.kind = "try"
        BY <3>2 DEF LegalTry, LegalStatement, IsLevel
      <3>7. python.now.point.outcomes \subseteq {"true", "false", "raise"}
        BY <3>1, <3>2, <3>6, TryRule DEF Answers
      <3>8. QED
        BY <1>5, <3>3, <3>5, <3>7
    <2>4. QED
      BY <1>3, <1>4, <2>1, <2>2, <2>3, PointCases
  <1>8. Makes(E, Observed(code, outcome))
    BY <1>1, <1>7, ObservedMakes
  <1>9. QED
    BY <1>6, <1>8, MadeEncloses

\* Handlers enclose code of such environments.
LEMMA EnclosedHandlers ==
  ASSUME Encloses
  PROVE  HandlersEnclose
  <1>1. PICK E : Closed(E) /\ BlockIn(code, E)
    BY DEF Encloses
  <1>2. ASSUME NEW i \in DOMAIN code, code[i].env.handler # None
        PROVE  IsPrefix(code[i].env.handler.env.finallies, code[i].env.finallies)
    <2>1. EnvIn(code[i].env, E)
      BY <1>1 DEF BlockIn, ItemIn, Closed
    <2>2. QED
      BY <1>2, <2>1 DEF EnvIn, HandlerIn
  <1>3. QED
    BY <1>2 DEF HandlersEnclose

\* For every program that keeps to the rules of TryPrograms: code that is generated for a
\* finally clause, or for what follows a try statement, does not raise into a handler that
\* would run finally clauses which have been left already.
THEOREM RegularHandlers ==
  ASSUME Regular(Legal, Programs)
  PROVE  Spec => []HandlersEnclose
  <1>1. Spec => []Follows
    BY Simulation
  <1>2. Init => Encloses
    BY EnclosesInit
  <1>3. Follows /\ Encloses /\ [Next]_vars => Encloses'
    <2> SUFFICES ASSUME Follows, Encloses, [Next]_vars
                 PROVE  Encloses'
      OBVIOUS
    <2>1. CASE CodeSuite
      BY <2>1, EnclosesSuite
    <2>2. CASE CodeLeave
      BY <2>2, EnclosesLeave
    <2>3. CASE Observe
      BY <2>3, EnclosesObserve
    <2>4. CASE UNCHANGED code
      BY <2>4 DEF Encloses
    <2>5. QED
      BY <2>1, <2>2, <2>3, <2>4 DEF Next, CodeStep, Follow, Ended, vars
  <1>4. Encloses => HandlersEnclose
    BY EnclosedHandlers
  <1>5. QED
    BY <1>1, <1>2, <1>3, <1>4, PTL DEF Spec
=============================================================================
