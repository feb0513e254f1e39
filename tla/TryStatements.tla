--------------------------- MODULE TryStatements ----------------------------
(***************************************************************************)
(* TryStatements: the code that CodeGen generates for loops, try           *)
(* statements and the jumps out of them, run in step with Python.          *)
(*                                                                         *)
(* CodeGen visits a finally clause once for every way into it.  A copy is  *)
(* determined by what m_currentLoop, m_finallyBlocks and                   *)
(* m_currentExceptBlock were then, its environment, and by the code that   *)
(* follows it.  A block is modelled as the code from it on: a sequence of  *)
(* items, each with the environment it was generated in.                   *)
(***************************************************************************)
EXTENDS Python

VARIABLE code \* what the generated code has left to do

vars == <<code, python>>

None == [none |-> TRUE] \* no loop, no exception handler, no caller

\* frame stands for the caller at run time: where it goes on, and in which environment.
TopLevel == [loop |-> None, finallies |-> <<>>, handler |-> None, frame |-> None]

SuiteItem(suite, env)    == [do |-> "suite", suite |-> suite, env |-> env]
PointItem(point, env)    == [do |-> "point", point |-> point, env |-> env]
TestItem(stmt, env)      == [do |-> "test", stmt |-> stmt, env |-> env, point |-> stmt.test]

\* To leave the function takes no more than its caller.
Leaving(env)          == [TopLevel EXCEPT !.frame = env.frame]
ReturnItem(what, env) == [do |-> "return", what |-> what, env |-> Leaving(env)]
RaiseItem(what, env)  == [do |-> "raise", what |-> what, env |-> Leaving(env)]

ExceptItem(stmt, clause, exception, env) ==
  [do |-> "except", stmt |-> stmt, clause |-> clause, exception |-> exception, env |-> env,
   point |-> stmt.excepts[clause].test]

Init ==
  /\ PyInit
  /\ code = <<SuiteItem(python.now.suite, TopLevel), ReturnItem("", TopLevel)>>
-----------------------------------------------------------------------------
(***************************************************************************)
(* The exception handler of a try statement                                *)
(***************************************************************************)
\* enterFinallyCode: the clause is generated as if it stood behind the statement.
EnterFinally(s, env) ==
  IF s.finally = <<>> THEN env
  ELSE [env EXCEPT !.finallies = Front(@), !.handler = Last(env.finallies).parentExceptBlock]

\* The except clauses from one on, and the exception raised again after the last.
Excepts(s, clause, exception, env, rest) ==
  CASE clause <= Len(s.excepts) -> Cons(ExceptItem(s, clause, exception, env), rest)
    [] clause > Len(s.excepts) /\ s.exceptAll # <<>> ->
         Cons(SuiteItem(s.exceptAll, env), Cons(SuiteItem(s.finally, EnterFinally(s, env)), rest))
    [] OTHER -> <<SuiteItem(s.finally, EnterFinally(s, env)), RaiseItem(exception, env)>>

\* raiseException, and the exception path of a call.
RaiseException(exception, env) ==
  IF env.handler = None THEN <<RaiseItem(exception, env)>>
  ELSE Excepts(env.handler.stmt, 1, exception, env.handler.env, env.handler.rest)
-----------------------------------------------------------------------------
(***************************************************************************)
(* Jumps                                                                   *)
(***************************************************************************)
\* The finally clauses that a jump leaves: of a loop's jump those inside the loop.
Left(env, fullUnwind) ==
  {i \in DOMAIN env.finallies :
     \A j \in i .. Len(env.finallies) : fullUnwind \/ env.finallies[j].parentLoop = env.loop}

\* Mutant: a finally clause is generated with its own try statement still around it.
FinallyInside(env, i) == SuiteItem(env.finallies[i].suite, env)

\* Mutant: exceptions in the clause still go to the handler of its try statement.
FinallyHandled(env, i) ==
  SuiteItem(env.finallies[i].suite, [env EXCEPT !.finallies = SubSeq(@, 1, i - 1)])

\* The clause as executeFinallyBlocks generates it.
FinallyOutside(env, i) ==
  SuiteItem(env.finallies[i].suite,
            [env EXCEPT !.finallies = SubSeq(@, 1, i - 1),
                        !.handler = env.finallies[i].parentExceptBlock])

ExecuteFinallyBlocks(env, fullUnwind) ==
  LET n == Cardinality(Left(env, fullUnwind))
  IN  [k \in 1 .. n |-> FinallyOutside(env, Len(env.finallies) - k + 1)]

\* break, continue and return.  What stood behind them is not reached.
Jump(s, env) ==
  CASE s.kind = "break"    -> ExecuteFinallyBlocks(env, FALSE) \o env.loop.breakBlock
    [] s.kind = "continue" -> ExecuteFinallyBlocks(env, FALSE) \o env.loop.continueBlock
    [] s.kind = "return"   -> ExecuteFinallyBlocks(env, s.value) \o <<ReturnItem(s.name, env)>>
-----------------------------------------------------------------------------
(***************************************************************************)
(* Statements                                                              *)
(***************************************************************************)
\* Mutant: the finally clause does not know the loop around it.
EnterTryUnlooped(s, env, rest) ==
  LET own     == [suite |-> s.finally, parentLoop |-> None, parentExceptBlock |-> env.handler]
      handled == IF s.finally = <<>> THEN env ELSE [env EXCEPT !.finallies = Append(@, own)]
  IN  [handled EXCEPT !.handler = [stmt |-> s, env |-> handled, rest |-> rest]]

\* The environment of the suite.  The handler is generated outside of itself.
EnterTry(s, env, rest) ==
  LET own     == [suite |-> s.finally, parentLoop |-> env.loop, parentExceptBlock |-> env.handler]
      handled == IF s.finally = <<>> THEN env ELSE [env EXCEPT !.finallies = Append(@, own)]
  IN  [handled EXCEPT !.handler = [stmt |-> s, env |-> handled, rest |-> rest]]

\* The else clause is generated with the handler of the suite still in place.
TryCode(s, env, rest) ==
  LET inside == EnterTry(s, env, rest)
  IN  Cons(SuiteItem(s.suite, inside), Cons(SuiteItem(s.orelse, inside),
        Cons(SuiteItem(s.finally, EnterFinally(s, inside)), rest)))

\* implementFunction starts without loop and handler, but with the finally clauses.
FunctionCode(s, env, rest) ==
  LET inside == [TopLevel EXCEPT !.finallies = IF s.local THEN env.finallies ELSE <<>>,
                                 !.frame = [env |-> env, rest |-> rest]]
  IN  <<SuiteItem(s.suite, inside), ReturnItem("", inside)>>

Visit(s, env, rest) ==
  CASE s.kind = "do" -> Cons(PointItem(s.point, env), rest)
    [] s.kind \in {"break", "continue", "return"} -> Jump(s, env)
    [] s.kind \in {"if", "while", "for"} -> Cons(TestItem(s, env), rest)
    [] s.kind = "try"      -> TryCode(s, env, rest)
    [] s.kind = "function" -> FunctionCode(s, env, rest)

CodeSuite ==
  LET item == Head(code) IN
  /\ code # <<>> /\ item.do = "suite"
  /\ code' = IF item.suite = <<>> THEN Tail(code)
             ELSE Visit(Head(item.suite), item.env,
                        Cons(SuiteItem(Tail(item.suite), item.env), Tail(code)))
  /\ UNCHANGED python

\* ReturnOp and RaiseOp leave the function.
CodeLeave ==
  LET item == Head(code) IN
  /\ item.do \in {"return", "raise"} /\ item.env.frame # None
  /\ code' = IF item.do = "return" THEN item.env.frame.rest
             ELSE RaiseException(item.what, item.env.frame.env)
  /\ UNCHANGED python

CodeStep == CodeSuite \/ CodeLeave
-----------------------------------------------------------------------------
(***************************************************************************)
(* Points                                                                  *)
(***************************************************************************)
\* Blocks are compared by address: the depth keeps a loop apart from those around it.
Depth(loop) == IF loop = None THEN 0 ELSE loop.depth

\* A loop's body is left to what follows the loop, or to its condition.
CodeOfBody(item, rest) ==
  LET again == Cons(item, rest)
      inside == [item.env EXCEPT !.loop = [breakBlock |-> rest, continueBlock |-> again,
                                           depth |-> Depth(item.env.loop) + 1]]
  IN  IF item.stmt.kind = "if" THEN Cons(SuiteItem(item.stmt.suite, item.env), rest)
      ELSE Cons(SuiteItem(item.stmt.suite, inside), again)

\* Other exceptions than StopIteration are raised again behind a for statement's handler.
CodeOfRaise(item) ==
  IF item.do = "test" /\ item.stmt.kind = "for" THEN <<RaiseItem(item.point.name, item.env)>>
  ELSE RaiseException(item.point.name, item.env)

CodeObserve(outcome) ==
  LET item == Head(code)
      rest == Tail(code)
  IN
  code' = CASE outcome = "raise" -> CodeOfRaise(item)
            [] outcome = "normal" -> rest
            [] item.do = "test" /\ outcome = "true"  -> CodeOfBody(item, rest)
            [] item.do = "test" /\ outcome = "false" -> Cons(SuiteItem(item.stmt.orelse, item.env), rest)
            [] item.do = "except" /\ outcome = "true" ->
                 Cons(SuiteItem(item.stmt.excepts[item.clause].suite, item.env),
                      Cons(SuiteItem(item.stmt.finally, EnterFinally(item.stmt, item.env)), rest))
            [] item.do = "except" /\ outcome = "false" ->
                 Excepts(item.stmt, item.clause + 1, item.exception, item.env, rest)

CodeAtPoint == Head(code).do \in {"point", "test", "except"}
CodeWaits   == CodeAtPoint \/ (Head(code).do \in {"return", "raise"} /\ Head(code).env.frame = None)

CodeSeen == IF CodeAtPoint THEN Head(code).point ELSE Completed(Head(code).do, Head(code).what)

\* The input is the same for both.
Observe ==
  /\ CodeAtPoint /\ PyWaits /\ CodeSeen = PySeen
  /\ \E outcome \in PySeen.outcomes : CodeObserve(outcome) /\ PyObserve(outcome)

\* Python follows the code.
Follow == CodeWaits /\ PyStep /\ UNCHANGED code

\* The function has ended, or the code has parted from Python.
Ended == CodeWaits /\ PyWaits /\ (~CodeAtPoint \/ CodeSeen # PySeen) /\ UNCHANGED vars

Next == CodeStep \/ Observe \/ Follow \/ Ended

\* The generated code runs by itself up to the next expression.
Spec == Init /\ [][Next]_vars /\ WF_vars(CodeStep)
-----------------------------------------------------------------------------
\* The generated code evaluates the same expressions as Python in the same order, and
\* returns or raises the same: whatever is raised where, no finally clause is left out,
\* run twice or run in the wrong order, and no exception ends in the wrong handler.
AgreesWithPython == CodeWaits /\ PyWaits => CodeSeen = PySeen

\* Code that is generated for a finally clause, or for what follows a try statement, does
\* not raise into a handler that would run finally clauses which have been left already.
HandlersEnclose == \A i \in DOMAIN code :
  LET env == code[i].env IN
  env.handler # None => IsPrefix(env.handler.env.finallies, env.finallies)

\* Generating the copies of a finally clause comes to an end, even if the clause itself
\* jumps: the code always comes to another expression, or to the end of the function.
ReachesNextStatement == []<>CodeWaits
=============================================================================
