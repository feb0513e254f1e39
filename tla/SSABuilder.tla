----------------------------- MODULE SSABuilder -----------------------------
(***************************************************************************)
(* SSABuilder: how the code generator turns the variables of a function    *)
(* into values while it builds the function's blocks.  A block that more   *)
(* predecessors may come to is open.  A read in it is a new block argument *)
(* whose operands follow when the block is sealed, and arguments that turn *)
(* out to be trivial are removed again.                                    *)
(*                                                                         *)
(* The script is what the code generator does, in order.  When all of it   *)
(* is done the function is run, next to an ordinary memory of variables.   *)
(***************************************************************************)
EXTENDS Integers, Sequences, FiniteSets, SequencesExt

CONSTANTS Blocks, Variables,
          Scripts,  \* the sequences of operations considered
          MaxSteps  \* bound: operations of one run of the function

ASSUME BoundAssumption == MaxSteps \in Nat

VARIABLES
  script,   \* the operations
  position, \* how many of them are done
  ir,       \* the function as far as it is built, with the tables of the SSABuilder
  run       \* the function's run: where it is, its variables and its values

vars == <<script, position, ir, run>>

\* Operations, each in a block: the block is left open, a branch ends it, a variable is
\* written, read, or assigned what another variable has, and the block is sealed.
Open(b)       == [op |-> "open", block |-> b]
Branch(b, to) == [op |-> "branch", block |-> b, to |-> to]
Write(b, v)   == [op |-> "write", block |-> b, variable |-> v]
Read(b, v)    == [op |-> "read", block |-> b, variable |-> v, into |-> v]
Copy(b, v, w) == [op |-> "read", block |-> b, variable |-> w, into |-> v]
Seal(b)       == [op |-> "seal", block |-> b]

\* A value is the result of the operation at a position, an argument of a block (never
\* named again after it was erased), or what the undefined callback creates.
Result(i)   == [block |-> 0, name |-> i]
Argument(b, i) == [block |-> b, name |-> i]
Unbound     == Result(0)

Fresh(newest) ==
  [arguments |-> [b \in Blocks |-> <<>>],   \* in order
   edges     |-> <<>>,                      \* by number, of branches: block, to and the operands
   defs      |-> [v \in Variables |-> <<>>],\* the DefinitionsMaps
   open      |-> <<>>,                      \* m_openBlocks: the variables of the arguments
   uses      |-> <<>>,                      \* by position of the reading operation
   names     |-> 0,
   newest    |-> newest,                    \* whether MLIR lists uses from the newest on
   revisited |-> FALSE,                     \* an argument to visit had been erased
   stale     |-> FALSE]                     \* an erased argument was passed, recorded or sealed

\* The order of uses is MLIR's own: both directions are considered.
Init ==
  /\ script \in Scripts
  /\ position = 0 /\ \E newest \in BOOLEAN : ir = Fresh(newest)
  /\ run = [block |-> 0, left |-> <<>>, steps |-> 0, memory |-> <<>>, values |-> <<>>]
-----------------------------------------------------------------------------
\* f with the value of x set, also if x was not in its domain.
With(f, x, y) == [z \in DOMAIN f \cup {x} |-> IF z = x THEN y ELSE f[z]]

\* A list of uses, from the oldest on, as MLIR goes through it.
Listed(s, uses) == IF s.newest THEN Reverse(uses) ELSE uses

\* A block's predecessors are the uses of it in branches.
EdgesTo(s, b) ==
  Listed(s, SelectSeq([e \in 1 .. Len(s.edges) |-> e], LAMBDA e : s.edges[e].to = b))

IsAlive(s, value) == value.block = 0 \/ value \in ToSet(s.arguments[value.block])

Index(s, argument) == CHOOSE i \in DOMAIN s.arguments[argument.block] :
                        s.arguments[argument.block][i] = argument

\* The operands that the branches pass for an argument.
OperandsOf(s, argument) ==
  {s.edges[e].operands[Index(s, argument)] : e \in ToSet(EdgesTo(s, argument.block))}

\* Mutant: nothing is visited again.
NoUsers(s, argument) == <<>>

\* The arguments of other blocks, or of this one, that an argument is passed for: one for every
\* use, so the same one again if two branches pass it.
Users(s, argument) ==
  LET ofEdge(e) ==
        LET passed == SelectSeq([i \in DOMAIN s.edges[e].operands |-> i],
                                LAMBDA i : s.edges[e].operands[i] = argument)
        IN  [k \in DOMAIN passed |-> s.arguments[s.edges[e].to][passed[k]]]
      all == FlattenSeq([e \in DOMAIN s.edges |-> ofEdge(e)])
  IN  Listed(s, SelectSeq(all, LAMBDA user : user # argument))

\* Mutant: the reads that have been handed out keep the argument.
EraseUnreplaced(s, argument, same) ==
  LET i   == Index(s, argument)
      new(value) == IF value = argument THEN same ELSE value
  IN [s EXCEPT
       !.arguments[argument.block] = RemoveAt(@, i),
       !.edges = [e \in DOMAIN @ |->
          LET kept == IF @[e].to = argument.block THEN RemoveAt(@[e].operands, i) ELSE @[e].operands
          IN  [@[e] EXCEPT !.operands = [k \in DOMAIN kept |-> new(kept[k])]]],
       !.defs = [v \in Variables |-> [b \in DOMAIN @[v] |-> new(@[v][b])]]]

\* removeBlockArgumentOperands, replaceAllUsesWith and eraseArgument.
Erase(s, argument, same) ==
  LET i   == Index(s, argument)
      new(value) == IF value = argument THEN same ELSE value
  IN [s EXCEPT
       !.arguments[argument.block] = RemoveAt(@, i),
       !.edges = [e \in DOMAIN @ |->
          LET kept == IF @[e].to = argument.block THEN RemoveAt(@[e].operands, i) ELSE @[e].operands
          IN  [@[e] EXCEPT !.operands = [k \in DOMAIN kept |-> new(kept[k])]]],
       !.defs = [v \in Variables |-> [b \in DOMAIN @[v] |-> new(@[v][b])]],
       !.uses = [p \in DOMAIN @ |-> new(@[p])]]

\* Mutant: the value is not looked at again.
KeepSame(same, user, value) == same

\* What replaces an argument may be one of its users and be replaced in its turn.
Followed(same, user, value) == IF user = same THEN value ELSE same

\* The operations below return the new state and a value.  An argument that has been erased
\* while it was on a list of arguments to visit is destroyed memory.
RECURSIVE TryRemoveTrivialBlockArgument(_, _)
TryRemoveTrivialBlockArgument(s, argument) ==
  IF ~IsAlive(s, argument) THEN [state |-> [s EXCEPT !.revisited = TRUE], value |-> argument]
  ELSE
  LET passed == OperandsOf(s, argument) \ {argument}
      same   == IF passed = {} THEN Unbound ELSE CHOOSE value \in passed : TRUE
      again(r, user) ==
        LET next == TryRemoveTrivialBlockArgument(r.state, user)
        IN  [state |-> next.state, value |-> Followed(r.value, user, next.value)]
  IN IF Cardinality(passed) > 1 THEN [state |-> s, value |-> argument]
     ELSE FoldLeft(again, [state |-> Erase(s, argument, same), value |-> same], Users(s, argument))

RECURSIVE ReadVariable(_, _, _)

\* addBlockArguments: every branch passes what the variable is at its end.
AddBlockArguments(s, v, argument) ==
  LET append(t, e) ==
        LET read == ReadVariable(t, v, t.edges[e].block)
        IN  [read.state EXCEPT !.edges[e].operands = Append(@, read.value),
                               !.stale = @ \/ ~IsAlive(read.state, read.value)]
  IN TryRemoveTrivialBlockArgument(FoldLeft(append, s, EdgesTo(s, argument.block)), argument)

Predecessors(s, b) == {s.edges[e].block : e \in ToSet(EdgesTo(s, b))}

NewArgument(s, b) ==
  [s EXCEPT !.arguments[b] = Append(@, Argument(b, s.names + 1)), !.names = @ + 1]

Define(s, v, b, value) ==
  [s EXCEPT !.defs[v] = With(@, b, value), !.stale = @ \/ ~IsAlive(s, value)]

\* readVariableRecursive: in an open block, behind a single predecessor, and behind several,
\* where the argument is the definition already while the predecessors are asked.
ReadVariableRecursive(s, v, b) ==
  LET added    == NewArgument(s, b)
      argument == Argument(b, added.names)
      result   ==
        CASE b \in DOMAIN s.open ->
               [state |-> [added EXCEPT !.open[b] = Append(@, v)], value |-> argument]
          [] b \notin DOMAIN s.open /\ Cardinality(Predecessors(s, b)) = 1 ->
               ReadVariable(s, v, CHOOSE p \in Predecessors(s, b) : TRUE)
          [] OTHER -> AddBlockArguments(Define(added, v, b, argument), v, argument)
  IN [result EXCEPT !.state = Define(@, v, b, result.value)]

ReadVariable(s, v, b) ==
  IF b \in DOMAIN s.defs[v] THEN [state |-> s, value |-> s.defs[v][b]]
  ELSE ReadVariableRecursive(s, v, b)

\* sealBlock: the arguments are those that there are when it begins.
Sealed(s, b) ==
  LET variables == s.open[b]
      count     == Len(s.arguments[b])
      arguments == SubSeq(s.arguments[b], count - Len(variables) + 1, count)
      close(t, i) ==
        IF IsAlive(t, arguments[i]) THEN AddBlockArguments(t, variables[i], arguments[i]).state
        ELSE [t EXCEPT !.stale = TRUE]
      all == FoldLeft(close, s, [i \in DOMAIN variables |-> i])
  IN [all EXCEPT !.open = [c \in DOMAIN @ \ {b} |-> @[c]]]
-----------------------------------------------------------------------------
(***************************************************************************)
(* Building                                                                *)
(***************************************************************************)
Operation == script[position + 1]

\* Nothing is defined about what happens once an erased argument was used: the model ends.
Defined == ~ir.revisited /\ ~ir.stale

Builds(op) ==
  /\ position < Len(script) /\ Defined /\ Operation.op = op
  /\ position' = position + 1
  /\ UNCHANGED <<script, run>>

MarkOpenBlock == Builds("open") /\ ir' = [ir EXCEPT !.open = With(@, Operation.block, <<>>)]

CreateBranch ==
  /\ Builds("branch")
  /\ ir' = [ir EXCEPT !.edges = With(@, Len(@) + 1, [block |-> Operation.block, to |-> Operation.to,
                                                      operands |-> <<>>])]

WriteVariable ==
  /\ Builds("write")
  /\ ir' = Define(ir, Operation.variable, Operation.block, Result(position + 1))

\* The value is used, or is the definition of another variable from here on.
UseVariable ==
  LET read == ReadVariable(ir, Operation.variable, Operation.block)
      used == [read.state EXCEPT !.uses = With(@, position + 1, read.value)]
  IN
  /\ Builds("read")
  /\ ir' = Define(used, Operation.into, Operation.block, read.value)

SealBlock == Builds("seal") /\ ir' = Sealed(ir, Operation.block)
-----------------------------------------------------------------------------
(***************************************************************************)
(* Running                                                                 *)
(***************************************************************************)
IsBuilt == position = Len(script) /\ Defined

OperationsOf(b) ==
  SelectSeq([i \in DOMAIN script |-> i],
            LAMBDA i : script[i].block = b /\ script[i].op \in {"write", "read"})

Enter(b, memory, values) ==
  run' = [block |-> b, left |-> OperationsOf(b), steps |-> run.steps + 1,
          memory |-> memory, values |-> values]

\* What a value is now, and what a variable is; every execution of an operation has a new result.
Evaluate(value) == IF value \in DOMAIN run.values THEN run.values[value] ELSE <<0, 0>>
Remembered(v)   == IF v \in DOMAIN run.memory THEN run.memory[v] ELSE <<0, 0>>

Begin ==
  /\ IsBuilt /\ run.block = 0
  /\ Enter(script[1].block, <<>>, <<>>)
  /\ UNCHANGED <<script, position, ir>>

RunOperation ==
  LET i      == Head(run.left)
      result == <<i, run.steps>>
  IN
  /\ IsBuilt /\ run.left # <<>>
  /\ run' = IF script[i].op = "write"
            THEN [run EXCEPT !.left = Tail(@), !.memory = With(@, script[i].variable, result),
                             !.values = With(@, Result(i), result)]
            ELSE [run EXCEPT !.left = Tail(@),
                             !.memory = With(@, script[i].into, Remembered(script[i].variable))]
  /\ UNCHANGED <<script, position, ir>>

\* The operands of a branch become the arguments of its block, all at once.
TakeBranch ==
  /\ IsBuilt /\ run.block # 0 /\ run.left = <<>> /\ run.steps < MaxSteps
  /\ \E e \in DOMAIN ir.edges :
       LET to     == ir.edges[e].to
           passed == [a \in ToSet(ir.arguments[to]) |->
                        Evaluate(ir.edges[e].operands[Index(ir, a)])]
       IN
       /\ ir.edges[e].block = run.block
       /\ Enter(to, run.memory,
                [value \in DOMAIN run.values \cup DOMAIN passed |->
                   IF value \in DOMAIN passed THEN passed[value] ELSE run.values[value]])
  /\ UNCHANGED <<script, position, ir>>

Ended ==
  /\ \/ ~Defined
     \/ IsBuilt /\ run.left = <<>>
          /\ (run.steps = MaxSteps \/ \A e \in DOMAIN ir.edges : ir.edges[e].block # run.block)
  /\ UNCHANGED vars

Next == \/ MarkOpenBlock \/ CreateBranch \/ WriteVariable \/ UseVariable \/ SealBlock
        \/ Begin \/ RunOperation \/ TakeBranch \/ Ended

Spec == Init /\ [][Next]_vars
-----------------------------------------------------------------------------
\* Every branch of a finished function passes a live value for each argument of its block, and
\* no argument is left for which all branches pass the same: the form is minimal.
TypeOK == IsBuilt =>
  \A e \in DOMAIN ir.edges :
    LET to == ir.edges[e].to IN
    /\ Len(ir.edges[e].operands) = Len(ir.arguments[to])
    /\ \A k \in DOMAIN ir.edges[e].operands : IsAlive(ir, ir.edges[e].operands[k])
    /\ \A a \in ToSet(ir.arguments[to]) : Cardinality(OperandsOf(ir, a) \ {a}) > 1

\* Removing an argument removes others in turn, and all tables follow.  None is passed by a
\* branch, recorded as a definition or sealed after it was erased, unless one that waited on a
\* list of arguments to visit was erased before its turn: no other use is left behind.
NoErasedArgumentKept == ir.stale => ir.revisited

\* On every path through the function, around its loops and back, each value that was handed
\* out for a read is what the variable holds there.
ReadsTheVariable ==
  IsBuilt /\ run.left # <<>> =>
    LET i == Head(run.left) IN
    script[i].op = "read" => Evaluate(ir.uses[i]) = Remembered(script[i].variable)
=============================================================================
