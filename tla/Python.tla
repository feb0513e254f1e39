------------------------------- MODULE Python -------------------------------
(***************************************************************************)
(* What the statements of a Python function mean: a machine that runs the  *)
(* syntax tree, with a stack of the statements that are under way.         *)
(*                                                                         *)
(* A point is where the function evaluates an expression.  What comes out  *)
(* is up to the program's input: "normal" or, of a condition, "true" or    *)
(* "false"; or "raise" for an exception, which is known by its point.      *)
(***************************************************************************)
EXTENDS Integers, SequencesExt

CONSTANT Programs \* the function bodies considered

VARIABLE python   \* [now, stack]: what is being done, and the statements around it

Point(name, outcomes) == [name |-> name, outcomes |-> outcomes]
-----------------------------------------------------------------------------
(***************************************************************************)
(* Syntax.  A suite is a sequence of statements, empty where it is left    *)
(* out.                                                                    *)
(***************************************************************************)
Do(point)        == [kind |-> "do", point |-> point]
Break            == [kind |-> "break"]
Continue         == [kind |-> "continue"]
ReturnValue(name) == [kind |-> "return", name |-> name, value |-> TRUE]
ReturnNone(name) == [kind |-> "return", name |-> name, value |-> FALSE]

If(test, suite, orelse)    == [kind |-> "if", test |-> test, suite |-> suite, orelse |-> orelse]
While(test, suite, orelse) == [kind |-> "while", test |-> test, suite |-> suite, orelse |-> orelse]

\* The test of a for statement is the call of next: "false" stands for StopIteration.
For(test, suite, orelse)   == [kind |-> "for", test |-> test, suite |-> suite, orelse |-> orelse]

Except(test, suite) == [test |-> test, suite |-> suite]

Try(suite, excepts, exceptAll, orelse, finally) ==
  [kind |-> "try", suite |-> suite, excepts |-> excepts, exceptAll |-> exceptAll,
   orelse |-> orelse, finally |-> finally]

\* The call of a function whose definition stands right before it, or at module level.
CallLocal(suite)  == [kind |-> "function", suite |-> suite, local |-> TRUE]
CallGlobal(suite) == [kind |-> "function", suite |-> suite, local |-> FALSE]
-----------------------------------------------------------------------------
\* What is being done: a suite, a point, or the completion of a statement.
InSuite(suite)       == [kind |-> "suite", suite |-> suite]
AtPoint(point)       == [kind |-> "point", point |-> point]
Completed(how, what) == [kind |-> "completed", how |-> how, what |-> what]
Normally             == Completed("normal", "")

Frame(in, stmt) == [in |-> in, stmt |-> stmt]

State(now, stack) == [now |-> now, stack |-> stack]

PyInit == \E suite \in Programs : python = State(InSuite(suite), <<>>)

PyEnter(s, stack) ==
  CASE s.kind = "do"         -> State(AtPoint(s.point), stack)
    [] s.kind \in {"break", "continue"} -> State(Completed(s.kind, ""), stack)
    [] s.kind = "return"     -> State(Completed("return", s.name), stack)
    [] s.kind \in {"if", "while", "for"} ->
         State(AtPoint(s.test), Cons(Frame("test", s), stack))
    [] s.kind \in {"try", "function"} ->
         State(InSuite(s.suite), Cons(Frame(s.kind, s), stack))

PySuite(suite, stack) ==
  IF suite = <<>> THEN State(Normally, stack)
  ELSE PyEnter(Head(suite), Cons([in |-> "suite", rest |-> Tail(suite)], stack))

PyFinally(s, pending, stack) ==
  State(InSuite(s.finally), Cons([in |-> "finally", pending |-> pending], stack))

\* The next except clause is asked, or the exception goes on through the finally clause.
PyExcept(s, clause, exception, stack) ==
  CASE clause <= Len(s.excepts) ->
         State(AtPoint(s.excepts[clause].test),
               Cons([in |-> "except", stmt |-> s, clause |-> clause, exception |-> exception], stack))
    [] clause > Len(s.excepts) /\ s.exceptAll # <<>> ->
         State(InSuite(s.exceptAll), Cons(Frame("clause", s), stack))
    [] OTHER -> PyFinally(s, exception, stack)

\* A statement has completed: what the statement around it, f, makes of that.
PyComplete(c, f, stack) ==
  CASE f.in = "suite" /\ c.how = "normal" -> State(InSuite(f.rest), stack)
    [] f.in = "test" /\ c.how = "true" ->
         State(InSuite(f.stmt.suite),
               IF f.stmt.kind = "if" THEN stack ELSE Cons(Frame("loop", f.stmt), stack))
    [] f.in = "test" /\ c.how = "false" -> State(InSuite(f.stmt.orelse), stack)
    [] f.in = "loop" /\ c.how \in {"normal", "continue"} ->
         State(AtPoint(f.stmt.test), Cons(Frame("test", f.stmt), stack))
    [] f.in = "loop" /\ c.how = "break" -> State(Normally, stack)
    [] f.in = "try" /\ c.how = "normal" ->
         State(InSuite(f.stmt.orelse), Cons(Frame("clause", f.stmt), stack))
    [] f.in = "try" /\ c.how = "raise" -> PyExcept(f.stmt, 1, c, stack)
    [] f.in = "except" /\ c.how = "true" ->
         State(InSuite(f.stmt.excepts[f.clause].suite), Cons(Frame("clause", f.stmt), stack))
    [] f.in = "except" /\ c.how = "false" -> PyExcept(f.stmt, f.clause + 1, f.exception, stack)
    [] f.in = "clause" \/ (f.in = "try" /\ c.how \notin {"normal", "raise"})
         \/ (f.in = "except" /\ c.how = "raise") -> PyFinally(f.stmt, c, stack)
    [] f.in = "finally" /\ c.how = "normal" -> State(f.pending, stack)
    [] f.in = "function" /\ c.how \in {"normal", "return"} -> State(Normally, stack)
    [] OTHER -> State(c, stack)

\* Up to a point, or to the end, Python goes on by itself.
Waits(p) == p.now.kind = "point" \/ (p.now.kind = "completed" /\ p.stack = <<>>)

After(p) == IF p.now.kind = "suite" THEN PySuite(p.now.suite, p.stack)
            ELSE PyComplete(p.now, Head(p.stack), Tail(p.stack))

PyWaits == Waits(python)
PyStep  == ~PyWaits /\ python' = After(python)

PyObserve(outcome) ==
  /\ python.now.kind = "point"
  /\ python' = State(Completed(outcome, IF outcome = "raise" THEN python.now.point.name ELSE ""),
                     python.stack)

\* The point that is next, or how the function ends.
PySeen ==
  CASE python.now.kind = "point" -> python.now.point
    [] python.now.kind = "completed" /\ python.now.how = "raise" -> python.now
    [] OTHER -> [python.now EXCEPT !.how = "return"]
=============================================================================
