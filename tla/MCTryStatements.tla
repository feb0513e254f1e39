--------------------------- MODULE MCTryStatements --------------------------
(***************************************************************************)
(* Functions for TryStatements, built from every jump in every clause.     *)
(***************************************************************************)
EXTENDS TryPrograms

Step(name)  == Do(Point(name, {"normal"}))
Call(name)  == Do(Point(name, {"normal", "raise"}))
Raise(name) == Do(Point(name, {"raise"}))
Test(name)  == Point(name, {"true", "false", "raise"})
Is(name)    == Point(name, {"true", "false"})

Returns(name) == {<<>>, <<ReturnValue(name)>>, <<ReturnNone(name)>>}
Jumps(name)   == {<<>>, <<Break>>, <<Continue>>, <<ReturnValue(name)>>}

\* A try statement with all its clauses in a loop, the finally clause raising or jumping,
\* and another handler around the loop.
InLoop(loop) ==
  <<Try(<<loop, Call("behind")>>, <<Except(Test("outer"), <<Call("handler")>>)>>, <<>>, <<>>, <<>>),
    Call("end")>>

FullTry(j, k, l) ==
  Try(<<If(Is("if"), <<Call("body")>>, j)>>, <<Except(Is("E"), <<Step("handles E")>> \o k)>>,
      <<Step("handles all")>>, <<Step("else")>>, <<Call("finally")>> \o l)

Loops ==
  {InLoop(While(Test("while"), <<FullTry(j, k, l)>>, <<Call("no break")>>)) :
     j \in Jumps("from body"), k \in Jumps("from handler"), l \in Jumps("from finally")}

\* A loop over an iterator inside of a try statement, and one inside of a finally clause.
Iterations ==
  {<<For(Test("for"), <<FullTry(j, <<>>, <<>>)>>, <<Call("no break")>>), Call("end")>> :
     j \in Jumps("from body")}
    \cup
  {<<Try(<<Call("body")>> \o j, <<>>, <<Step("handles all")>>, <<>>,
         <<While(Is("while"), <<Call("loop")>> \o k, <<>>)>>), Call("end")>> :
     j \in Returns("from body"), k \in Jumps("from finally")}

\* Jumps out of two loops with a finally clause each, inside of a third clause.
NestedLoops ==
  {<<Try(<<While(Is("outer"),
             <<Try(<<While(Is("inner"),
                       <<Try(<<Step("body")>> \o j, <<>>, <<>>, <<>>, <<Step("first")>> \o k)>>, <<>>),
                     Step("behind")>>, <<>>, <<>>, <<>>, <<Step("second")>> \o l)>>,
             <<Step("no break")>>)>>, <<>>, <<>>, <<>>, <<Call("third")>>), Call("end")>> :
     j \in Jumps("from body"), k \in Jumps("from first"), l \in Returns("from second") \ {<<ReturnNone("from second")>>}}

\* An exception, or a result, that comes out of a function with a finally clause of its own.
Functions ==
  {<<Try(<<CallGlobal(<<Try(<<Call("callee")>> \o j, <<>>, <<>>, <<>>, <<Call("cleanup")>> \o k)>>),
           Call("body")>>,
         <<Except(Is("E"), <<Step("handles E")>> \o l), Except(Is("F"), <<ReturnNone("F")>>)>>,
         <<>>, <<>>, <<Call("finally")>>), Call("end")>> :
     j \in Returns("callee"), k \in Returns("cleanup"), l \in Returns("caller")}

\* The function foo that executeFinallyBlocks describes.
Foo ==
  {<<Try(<<Try(<<ReturnValue("#2")>>, <<>>, <<>>, <<>>, <<Raise("in finally")>>)>>,
         <<Except(Is("ValueError"), <<ReturnValue("caught")>>)>>, <<>>, <<>>,
         <<Raise("ValueError")>>)>>}

\* A finally clause that is nothing but a jump, met by every jump.
BareFinally ==
  {<<While(Is("while"), <<Try(<<Call("body")>> \o j, <<>>, <<>>, <<>>, k)>>, <<>>), Call("end")>> :
     j \in Jumps("from body"), k \in Jumps("from finally")}

MCPrograms == Loops \cup Iterations \cup NestedLoops \cup Functions \cup BareFinally \cup Foo
-----------------------------------------------------------------------------
\* Functions that the generated code does not run like Python.
Cleanup == <<Call("cleanup")>>

Reraised      == <<Try(<<Try(<<Call("body")>>, <<>>, <<>>, <<>>, Cleanup)>>, <<>>, Cleanup, <<>>, <<>>)>>
InHandler     == <<Try(<<Call("body")>>, <<>>, <<Call("handler")>>, <<>>, Cleanup)>>
InElse        == <<Try(<<Step("body")>>, <<>>, <<Call("handler")>>, <<Call("else")>>, <<>>)>>
BareReturn    == <<Try(<<While(Is("while"), <<ReturnNone("result")>>, <<>>)>>, <<>>, <<>>, <<>>, Cleanup)>>
LocalFunction == <<Try(<<CallLocal(<<ReturnValue("result")>>)>>, <<>>, <<>>, <<>>, Cleanup)>>
BreakOutside  ==
  <<While(Is("outer"),
      <<Try(<<While(Is("inner"), <<ReturnValue("result")>>, <<>>), Call("behind")>>,
            <<>>, <<>>, <<>>, <<Break>>)>>, <<>>)>>

MCDeviations == {Reraised, InHandler, InElse, BareReturn, LocalFunction, BreakOutside}
-----------------------------------------------------------------------------
(***************************************************************************)
(* What the theorem about regular programs assumes: true of the programs   *)
(* that agree with Python, and of none of those that do not.               *)
(***************************************************************************)
ByContext(pairs) == [ctx \in Contexts |-> {pair[1] : pair \in {p \in pairs : p[2] = ctx}}]

\* The statements of a suite with their contexts, those in the clauses included.
RECURSIVE Visited(_, _)
Visited(suite, ctx) == UNION {
  LET s      == suite[i]
      copies == Visited(s.finally, Plain(ctx))
      legal  == ByContext(copies)
      here   == IF \A pair \in copies : Rule(legal, pair[1], pair[2]) THEN copies ELSE {}
      plain  == ByContext(here)
  IN  {<<s, ctx>>} \cup
      CASE s.kind = "if"       -> Visited(s.suite, ctx) \cup Visited(s.orelse, ctx)
        [] s.kind \in {"while", "for"} -> Visited(s.suite, LoopCtx(ctx)) \cup Visited(s.orelse, ctx)
        [] s.kind = "try"      -> Visited(s.suite, SuiteCtx(plain, s, ctx))
                                    \cup UNION {Visited(s.excepts[k].suite, HandlerCtx(plain, s, ctx)) :
                                                k \in DOMAIN s.excepts}
                                    \cup Visited(s.exceptAll, HandlerCtx(plain, s, ctx))
                                    \cup Visited(s.orelse, ElseCtx(plain, s, ctx))
                                    \cup Visited(s.finally, ctx) \cup here
        [] s.kind = "function" -> Visited(s.suite, FunctionCtx(ctx))
        [] OTHER               -> {} : i \in DOMAIN suite}

LegalOf(programs) ==
  LET visited == UNION {Visited(suite, TopCtx) : suite \in programs}
  IN  ByContext(visited)

MCLegal == LegalOf(Programs)

ASSUME RegularPrograms == Programs = MCPrograms => Regular(Legal, Programs)

ASSUME IrregularDeviations == \A suite \in MCDeviations : ~Regular(LegalOf({suite}), {suite})
=============================================================================
