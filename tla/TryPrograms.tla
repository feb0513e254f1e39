---------------------------- MODULE TryPrograms -----------------------------
(***************************************************************************)
(* The functions without the constructs that CodeGen gets wrong.           *)
(*                                                                         *)
(* A context says what a statement may do where it stands: raise           *)
(* exceptions, raise such as no handler of the function takes (escape),    *)
(* leave a loop (jump), return None (bare) or a value.  fin: there is a    *)
(* finally clause around it.  plain: the finally clauses around it hold no *)
(* jump and no bare return of their own, so that a copy of them can be     *)
(* generated in another loop.                                              *)
(***************************************************************************)
EXTENDS TryStatements

CONSTANT Legal \* the statements that may stand in a context

Contexts == [raise : BOOLEAN, escape : BOOLEAN, jump : BOOLEAN, bare : BOOLEAN, value : BOOLEAN,
             fin : BOOLEAN, plain : BOOLEAN]

TopCtx == [raise |-> TRUE, escape |-> TRUE, jump |-> FALSE, bare |-> TRUE, value |-> TRUE,
           fin |-> FALSE, plain |-> TRUE]

\* Where a copy of a finally clause stands in a loop that is not its own.
Plain(ctx) == [ctx EXCEPT !.jump = FALSE, !.bare = FALSE]

\* A bare return skips the finally clauses around its loop; a return of a value runs them,
\* with the loop they are left from.
LoopCtx(ctx) == [ctx EXCEPT !.jump = TRUE, !.bare = ctx.bare /\ ~ctx.fin,
                            !.value = ctx.value /\ ctx.plain]

FunctionCtx(ctx) == [TopCtx EXCEPT !.raise = ctx.raise, !.escape = ctx.raise]

Allows(legal, suite, ctx) == suite \in Seq(legal[ctx])

\* The clauses have the finally clause around them.
InTry(legal, s, ctx) ==
  [ctx EXCEPT !.fin = ctx.fin \/ s.finally # <<>>,
              !.plain = ctx.plain /\ Allows(legal, s.finally, Plain(ctx))]

\* An exception that no except clause takes leaves the function.
SuiteCtx(legal, s, ctx) ==
  [InTry(legal, s, ctx) EXCEPT !.raise = s.exceptAll # <<>> \/ ctx.escape, !.escape = FALSE]

\* Exceptions in a handler skip the finally clause.
HandlerCtx(legal, s, ctx) ==
  [InTry(legal, s, ctx) EXCEPT !.raise = ctx.raise /\ s.finally = <<>>,
                               !.escape = ctx.escape /\ s.finally = <<>>]

\* The handlers of the statement are still in place in its else clause.
ElseCtx(legal, s, ctx) == [HandlerCtx(legal, s, ctx) EXCEPT !.raise = FALSE]

\* What can come out of a point.
Answers(point, outcomes, mayRaise) ==
  /\ point.outcomes \subseteq outcomes \cup {"raise"}
  /\ "raise" \in point.outcomes => mayRaise

Rule(legal, s, ctx) ==
  \/ s.kind = "do" /\ Answers(s.point, {"normal"}, ctx.raise)
  \/ s.kind \in {"break", "continue"} /\ ctx.jump
  \/ s.kind = "return" /\ ((s.value = TRUE /\ ctx.value) \/ (s.value = FALSE /\ ctx.bare))
  \/ /\ s.kind = "if"
     /\ Answers(s.test, {"true", "false"}, ctx.raise)
     /\ Allows(legal, s.suite, ctx) /\ Allows(legal, s.orelse, ctx)
  \/ /\ s.kind \in {"while", "for"}
     /\ Answers(s.test, {"true", "false"}, IF s.kind = "for" THEN ctx.escape ELSE ctx.raise)
     /\ Allows(legal, s.suite, LoopCtx(ctx)) /\ Allows(legal, s.orelse, ctx)
  \/ LET handler == HandlerCtx(legal, s, ctx) IN
     /\ s.kind = "try"
     /\ Allows(legal, s.suite, SuiteCtx(legal, s, ctx))
     /\ Len(s.excepts) \in Nat
     /\ \A i \in 1 .. Len(s.excepts) : /\ Answers(s.excepts[i].test, {"true", "false"}, handler.raise)
                                       /\ Allows(legal, s.excepts[i].suite, handler)
     /\ Allows(legal, s.exceptAll, handler)
     /\ Allows(legal, s.orelse, ElseCtx(legal, s, ctx))
     /\ Allows(legal, s.finally, ctx)
  \/ /\ s.kind = "function"
     /\ Allows(legal, s.suite, FunctionCtx(ctx))
     /\ s.local = FALSE \/ (s.local = TRUE /\ ~ctx.fin)

\* Every legal statement is so by what it consists of, and the programs are.
Regular(legal, programs) ==
  /\ \A ctx \in Contexts : \A s \in legal[ctx] : Rule(legal, s, ctx)
  /\ \A suite \in programs : Allows(legal, suite, TopCtx)
=============================================================================
