------------------------------ MODULE Lowering ------------------------------
(***************************************************************************)
(* Lowering of a function body from the HIR to the MIR (mir_from_hir).     *)
(* The recursion of lower_value is unfolded: todo is what is still to be   *)
(* lowered, first to last, and operands the results that wait for a use,   *)
(* so that one step makes the builder calls between two recursive calls.   *)
(* A place is kept as the operand that copies it.                          *)
(***************************************************************************)
EXTENDS MirFunction, HirValues

(***************************************************************************)
(* The per-function builder of the MIR (mir/src/builder.rs): blocks are    *)
(* created or reserved, one of them may be current, statements go to it,   *)
(* and a terminator ends it.  A builder is a record                        *)
(*    blocks    the blocks so far, in order of creation                    *)
(*    locals    the number of locals; a local is named by its position     *)
(*    current   the current block, None if there is none                   *)
(*    ended     history: the blocks that set_terminator was called on      *)
(*    panicked  an expect() on the current block has failed                *)
(***************************************************************************)
CONSTANT None
ASSUME NoneIsNoBlock == None \notin Nat

start_function ==
  [blocks |-> << >>, locals |-> 0, current |-> None, ended |-> << >>, panicked |-> FALSE]

\* The new local is the last one.
new_temp(b) == [b EXCEPT !.locals = @ + 1]
add_param(b) == new_temp(b)
LastLocal(b) == b.locals

\* A block with n arguments, each a new local; the block is the last one.
reserve_block_with_args(b, n) ==
  [b EXCEPT !.locals = @ + n,
            !.blocks = Append(@, BasicBlock([i \in 1..n |-> b.locals + i], << >>, Unreachable))]
reserve_block(b) == reserve_block_with_args(b, 0)
LastBlock(b) == Len(b.blocks)

switch_to_block(b, block) == [b EXCEPT !.current = block]

create_block(b) == LET r == reserve_block(b) IN switch_to_block(r, LastBlock(r))

push_stmt(b, st) ==
  IF b.current = None THEN [b EXCEPT !.panicked = TRUE]
  ELSE [b EXCEPT !.blocks[b.current].stmts = Append(@, st)]

push_assign(b, place, rv) == push_stmt(b, Assign(place, rv))

\* Ends the current block; there is none afterwards.
set_terminator(b, term) ==
  IF b.current = None THEN [b EXCEPT !.panicked = TRUE]
  ELSE [b EXCEPT !.blocks[b.current].term = term,
                 !.ended = Append(@, b.current),
                 !.current = None]

goto(b, target) == set_terminator(b, Goto(target, << >>))
goto_with_args(b, target, args) == set_terminator(b, Goto(target, args))
if_br(b, condition, true_target, false_target) ==
  set_terminator(b, If(condition, Edge(true_target, << >>), Edge(false_target, << >>)))
ret(b, value) == set_terminator(b, Return(value))
unreachable(b) == set_terminator(b, Unreachable)
\* A call that does not come back, and one that continues at target.
call(b, callee, args) == set_terminator(b, Call(callee, args, << >>, << >>))
call_return(b, callee, args, dest, target) ==
  set_terminator(b, Call(callee, args, << dest >>, << Edge(target, << >>) >>))

\* What finish_function commits.
finish_function(b) == [entry |-> 1, blocks |-> b.blocks]

-----------------------------------------------------------------------------
(* The lowering.                                                           *)
CONSTANTS
  Bodies,        \* the function bodies: sequences of block elements
  Values,        \* the values they are made of
  Params         \* the names of the parameters, in order

\* The parts of a value are values (hir/src/expr.rs).
IsElement(e, V) ==
  \/ e.el = "expr" /\ e.value \in V
  \/ e.el = "local" /\ e.init \in Seq(V)
AreElements(es, V) == es \in Seq(ToSet(es)) /\ \A i \in DOMAIN es : IsElement(es[i], V)
HasParts(v, V) ==
  /\ v.v \in {"op", "call"} => v.args \in Seq(V)
  /\ v.v \in {"field", "deref"} => v.base \in V
  /\ v.v \in {"assign", "borrow"} => v.place \in V
  /\ v.v \in {"assign", "return"} => v.value \in V
  /\ v.v \in {"if", "while"} => v.cond \in V
  /\ v.v = "if" => AreElements(v.then, V) /\ (v.else # << >> => AreElements(v.else[1], V))
  /\ v.v \in {"while", "loop"} => AreElements(v.body, V)
  /\ v.v = "block" => AreElements(v.elements, V)
MadeOf(bodies, V) ==
  /\ UnitV \in V
  /\ \A v \in V : HasParts(v, V)
  /\ \A es \in bodies : AreElements(es, V) /\ AreElements(ensure_return_in_body(es), V)

ASSUME BodiesMadeOfValues == MadeOf(Bodies, Values)

VARIABLES
  body,          \* the body being lowered
  todo,          \* a sequence of tasks
  operands,      \* a sequence of operands
  func,          \* the builder
  local_map,     \* [name -> local]
  loop_stack     \* a sequence of [continue, break]

vars == <<body, todo, operands, func, local_map, loop_stack>>

Constant(k) == [op |-> "const", lit |-> k]
UnitOperand == Constant(0)
CopyLocal(l) == Copy(Local(l))
OpsOf(op, os) == [rv |-> "ops", op |-> op, operands |-> os]

(***************************************************************************)
(* Tasks.                                                                  *)
(***************************************************************************)
Lower(value, tail) == [do |-> "value", value |-> value, tail |-> tail]
LowerAsPlace(value) == [do |-> "place", value |-> value]
Do(what) == [do |-> what]

LowerAll(values) == [i \in DOMAIN values |-> Lower(values[i], FALSE)]

Elements(es) == [do |-> "elements", elements |-> es]
IsLocal(e) == e.el = "local"

\* lower_block: unit when the last element is no expression.
BlockTasks(es) ==
  (IF es = << >> THEN << >> ELSE << Elements(es) >>) \o
    (IF es = << >> \/ IsLocal(es[Len(es)]) THEN << Lower(UnitV, FALSE) >> ELSE << >>)

Ready == todo # << >> /\ ~func.panicked
Doing(what) == Ready /\ Head(todo).do = what
DoingValue(kind) == Doing("value") /\ Head(todo).value.v = kind
DoingPlace(kinds) == Doing("place") /\ Head(todo).value.v \in kinds
Task == Head(todo)
Then(tasks) == todo' = tasks \o Tail(todo)
Done == todo' = Tail(todo)

\* The last n operands, the others, and the others with one more.
Latest(n) == SubSeq(operands, Len(operands) - n + 1, Len(operands))
Earlier(n) == SubSeq(operands, 1, Len(operands) - n)
Yield(n, o) == operands' = Append(Earlier(n), o)
Top == operands[Len(operands)]

Init ==
  /\ body \in {ensure_return_in_body(es) : es \in Bodies}
  /\ func = create_block([start_function EXCEPT !.locals = Len(Params)])
  /\ local_map = [n \in ToSet(Params) |-> CHOOSE i \in DOMAIN Params : Params[i] = n]
  /\ todo = << Elements(body) >>
  /\ operands = << >>
  /\ loop_stack = << >>

(***************************************************************************)
(* Operands and rvalues (expr.rs lower_value).                             *)
(***************************************************************************)
LowerLiteral ==
  /\ DoingValue("lit") \/ DoingValue("unit")
  /\ Yield(0, IF Task.value.v = "lit" THEN Constant(Task.value.lit) ELSE UnitOperand)
  /\ Done
  /\ UNCHANGED <<body, func, local_map, loop_stack>>

LowerSymbol ==
  /\ DoingValue("symbol") \/ DoingValue("parameter")
  /\ Yield(0, IF Task.value.name \in DOMAIN local_map THEN CopyLocal(local_map[Task.value.name])
              ELSE UnitOperand)
  /\ Done
  /\ UNCHANGED <<body, func, local_map, loop_stack>>

\* Every operation that evaluates its operands, then combines them.
LowerOperation ==
  /\ DoingValue("op")
  /\ Then(LowerAll(Task.value.args) \o
            << [do |-> "temp", op |-> Task.value.op, n |-> Len(Task.value.args)] >>)
  /\ UNCHANGED <<body, operands, func, local_map, loop_stack>>

assign_rvalue_to_temp(rv, n) ==
  LET b == new_temp(func)
  IN  /\ func' = push_assign(b, Local(LastLocal(b)), rv)
      /\ Yield(n, CopyLocal(LastLocal(b)))

AssignOperation ==
  /\ Doing("temp")
  /\ assign_rvalue_to_temp(OpsOf(Task.op, Latest(Task.n)), Task.n)
  /\ Done
  /\ UNCHANGED <<body, local_map, loop_stack>>

LowerBorrow ==
  /\ DoingValue("borrow")
  /\ Then(<< LowerAsPlace(Task.value.place), [do |-> "ref", kind |-> Task.value.kind] >>)
  /\ UNCHANGED <<body, operands, func, local_map, loop_stack>>

AssignBorrow ==
  /\ Doing("ref")
  /\ assign_rvalue_to_temp(RefOf(Task.kind, Top.place), 1)
  /\ Done
  /\ UNCHANGED <<body, local_map, loop_stack>>

\* A field access or a dereference is a copy of the place.
LowerProjection ==
  /\ DoingValue("field") \/ DoingValue("deref")
  /\ Then(<< LowerAsPlace(Task.value) >>)
  /\ UNCHANGED <<body, operands, func, local_map, loop_stack>>

(***************************************************************************)
(* Places (lower_value_as_place).                                          *)
(***************************************************************************)
\* A name that is not mapped becomes a fresh local.
PlaceSymbol ==
  /\ DoingPlace({"symbol", "parameter"})
  /\ IF Task.value.name \in DOMAIN local_map
     THEN Yield(0, CopyLocal(local_map[Task.value.name])) /\ func' = func
     ELSE func' = new_temp(func) /\ Yield(0, CopyLocal(LastLocal(func')))
  /\ Done
  /\ UNCHANGED <<body, local_map, loop_stack>>

PlaceProjection ==
  /\ DoingPlace({"field", "deref"})
  /\ Then(<< LowerAsPlace(Task.value.base),
             [do |-> "project",
              step |-> IF Task.value.v = "deref" THEN DerefStep ELSE FieldStep(Task.value.name)] >>)
  /\ UNCHANGED <<body, operands, func, local_map, loop_stack>>

ProjectPlace ==
  /\ Doing("project")
  /\ Yield(1, Copy(Project(Top.place, Task.step)))
  /\ Done
  /\ UNCHANGED <<body, func, local_map, loop_stack>>

PlaceOfValue ==
  /\ Doing("place")
  /\ Task.value.v \notin {"symbol", "parameter", "field", "deref"}
  /\ Then(<< Lower(Task.value, FALSE), Do("operand_to_place") >>)
  /\ UNCHANGED <<body, operands, func, local_map, loop_stack>>

operand_to_place ==
  /\ Doing("operand_to_place")
  /\ IF IsPlaceOperand(Top) THEN UNCHANGED <<func, operands>>
     ELSE LET b == new_temp(func)
          IN  /\ func' = push_assign(b, Local(LastLocal(b)), Use(Top))
              /\ Yield(1, CopyLocal(LastLocal(b)))
  /\ Done
  /\ UNCHANGED <<body, local_map, loop_stack>>

(***************************************************************************)
(* Assignments, calls, returns and jumps.                                  *)
(***************************************************************************)
LowerAssign ==
  /\ DoingValue("assign")
  /\ Then(<< LowerAsPlace(Task.value.place), Lower(Task.value.value, FALSE), Do("store") >>)
  /\ UNCHANGED <<body, operands, func, local_map, loop_stack>>

Store ==
  /\ Doing("store")
  /\ func' = push_assign(func, Latest(2)[1].place, Use(Top))
  /\ Yield(2, UnitOperand)
  /\ Done
  /\ UNCHANGED <<body, local_map, loop_stack>>

LowerCall ==
  /\ DoingValue("call")
  /\ Then(LowerAll(Task.value.args) \o
            << [do |-> "call", callee |-> Copy(Static(Task.value.callee)),
                n |-> Len(Task.value.args), tail |-> Task.tail] >>)
  /\ UNCHANGED <<body, operands, func, local_map, loop_stack>>

\* In tail position the call does not come back; elsewhere the code goes on in
\* a new block.
EmitCall ==
  /\ Doing("call")
  /\ IF Task.tail
     THEN /\ func' = call(func, Task.callee, Latest(Task.n))
          /\ Yield(Task.n, UnitOperand)
     ELSE LET b == reserve_block(new_temp(func))
          IN  /\ func' = switch_to_block(
                            call_return(b, Task.callee, Latest(Task.n), Local(LastLocal(b)), LastBlock(b)),
                            LastBlock(b))
              /\ Yield(Task.n, CopyLocal(LastLocal(b)))
  /\ Done
  /\ UNCHANGED <<body, local_map, loop_stack>>

LowerReturn ==
  /\ DoingValue("return")
  /\ Then(IF Task.value.value = UnitV THEN << [do |-> "return", n |-> 0] >>
          ELSE << Lower(Task.value.value, FALSE), [do |-> "return", n |-> 1] >>)
  /\ UNCHANGED <<body, operands, func, local_map, loop_stack>>

EmitReturn ==
  /\ Doing("return")
  /\ func' = ret(func, Latest(Task.n))
  /\ Yield(Task.n, UnitOperand)
  /\ Done
  /\ UNCHANGED <<body, local_map, loop_stack>>

\* Mutant of jump_target: break and continue are exchanged.
mutant_jumps_exchanged(kind) ==
  IF kind = "break" THEN Last(loop_stack).continue ELSE Last(loop_stack).break

\* Where break and continue lead in the innermost loop.
jump_target(kind) ==
  IF kind = "break" THEN Last(loop_stack).break ELSE Last(loop_stack).continue

Jump ==
  /\ DoingValue("break") \/ DoingValue("continue")
  /\ func' = IF loop_stack = << >> THEN unreachable(func)
             ELSE goto(func, jump_target(Task.value.v))
  /\ Yield(0, UnitOperand)
  /\ Done
  /\ UNCHANGED <<body, local_map, loop_stack>>

(***************************************************************************)
(* if and else (lower_if).                                                 *)
(***************************************************************************)
LowerIf ==
  /\ DoingValue("if")
  /\ Then(<< Lower(Task.value.cond, FALSE), [do |-> "branch", value |-> Task.value, tail |-> Task.tail] >>)
  /\ UNCHANGED <<body, operands, func, local_map, loop_stack>>

\* The merge block has an argument unless the value is in tail position. Without
\* else, the false edge leads to the merge block.
Branch ==
  LET arity == IF Task.tail THEN 0 ELSE 1
      merge == Len(func.blocks) + 1
      with_merge == reserve_block_with_args(func, arity)
      then == merge + 1
      has_else == Task.value.else # << >>
      else == IF has_else THEN merge + 2 ELSE merge
      reserved == IF has_else THEN reserve_block(reserve_block(with_merge)) ELSE reserve_block(with_merge)
      end == [do |-> "end_branch", merge |-> merge, tail |-> Task.tail]
  IN  /\ Doing("branch")
      /\ func' = switch_to_block(if_br(reserved, Top, then, else), then)
      /\ operands' = Earlier(1)
      /\ Then(BlockTasks(Task.value.then) \o
                (IF has_else
                 THEN << end, [do |-> "switch", block |-> else] >> \o BlockTasks(Task.value.else[1])
                 ELSE << >>) \o
                << end, [do |-> "merge", merge |-> merge] >>)
      /\ UNCHANGED <<body, local_map, loop_stack>>

\* Mutants of end_branch: it does not ask whether the branch has left; the value
\* is not passed on.
mutant_end_unchecked(merge, tail, result) ==
  IF tail THEN goto(func, merge) ELSE goto_with_args(func, merge, << result >>)
mutant_end_without_value(merge, tail, result) ==
  IF func.current = None THEN func ELSE goto(func, merge)

\* A branch that has not left passes its value to the merge block.
end_branch(merge, tail, result) ==
  IF func.current = None THEN func
  ELSE IF tail THEN goto(func, merge) ELSE goto_with_args(func, merge, << result >>)

EndBranch ==
  /\ Doing("end_branch")
  /\ func' = end_branch(Task.merge, Task.tail, Top)
  /\ operands' = Earlier(1)
  /\ Done
  /\ UNCHANGED <<body, local_map, loop_stack>>

StartElse ==
  /\ Doing("switch")
  /\ func' = switch_to_block(func, Task.block)
  /\ Done
  /\ UNCHANGED <<body, operands, local_map, loop_stack>>

\* The value of the if is the argument of the merge block.
Merge ==
  LET args == func.blocks[Task.merge].args
  IN  /\ Doing("merge")
      /\ func' = switch_to_block(func, Task.merge)
      /\ Yield(0, IF args = << >> THEN UnitOperand ELSE CopyLocal(args[1]))
      /\ Done
      /\ UNCHANGED <<body, local_map, loop_stack>>

(***************************************************************************)
(* Loops (lower_while, lower_loop).                                        *)
(***************************************************************************)
LowerWhile ==
  LET header == Len(func.blocks) + 1
      b == reserve_block(reserve_block(reserve_block(func)))
  IN  /\ DoingValue("while")
      /\ func' = switch_to_block(goto(b, header), header)
      /\ Then(<< Lower(Task.value.cond, FALSE),
                 [do |-> "test", header |-> header, body |-> Task.value.body] >>)
      /\ UNCHANGED <<body, operands, local_map, loop_stack>>

PushLoop(continue, break) == loop_stack' = Append(loop_stack, [continue |-> continue, break |-> break])

\* The body of a loop; its operand is dropped with the loop.
LoopTasks(es, continue, break) ==
  BlockTasks(es) \o << [do |-> "end_loop", continue |-> continue, break |-> break] >>

TestLoop ==
  LET exit == Task.header + 2
  IN  /\ Doing("test")
      /\ func' = switch_to_block(if_br(func, Top, Task.header + 1, exit), Task.header + 1)
      /\ operands' = Earlier(1)
      /\ PushLoop(Task.header, exit)
      /\ Then(LoopTasks(Task.body, Task.header, exit))
      /\ UNCHANGED <<body, local_map>>

LowerLoop ==
  LET loop_body == Len(func.blocks) + 1
      b == reserve_block(reserve_block(func))
  IN  /\ DoingValue("loop")
      /\ func' = switch_to_block(goto(b, loop_body), loop_body)
      /\ PushLoop(loop_body, loop_body + 1)
      /\ Then(LoopTasks(Task.value.body, loop_body, loop_body + 1))
      /\ UNCHANGED <<body, operands, local_map>>

\* The back edge, and the code after the loop.
end_of_loop(continue, break) == switch_to_block(goto(func, continue), break)
popped_loop == Front(loop_stack)

EndLoop ==
  /\ Doing("end_loop")
  /\ loop_stack' = popped_loop
  /\ func' = end_of_loop(Task.continue, Task.break)
  /\ Yield(1, UnitOperand)
  /\ Done
  /\ UNCHANGED <<body, local_map>>

(***************************************************************************)
(* Blocks and local declarations (block.rs).                               *)
(***************************************************************************)
LowerBlock ==
  /\ DoingValue("block")
  /\ Then(BlockTasks(Task.value.elements))
  /\ UNCHANGED <<body, operands, func, local_map, loop_stack>>

\* lower_block_elements, one element at a time: the last one is in tail position
\* and its operand is the result; the operands of the others are not used.
Element == Head(Task.elements)
IsLast == Len(Task.elements) = 1
OtherElements == IF IsLast THEN << >> ELSE << Elements(Tail(Task.elements)) >>

LowerElement ==
  /\ Doing("elements") /\ ~IsLocal(Element)
  /\ Then(<< Lower(Element.value, IsLast) >> \o (IF IsLast THEN << >> ELSE << Do("drop") >>)
            \o OtherElements)
  /\ UNCHANGED <<body, operands, func, local_map, loop_stack>>

DropOperand ==
  /\ Doing("drop")
  /\ operands' = Earlier(1)
  /\ Done
  /\ UNCHANGED <<body, func, local_map, loop_stack>>

\* The name is mapped before its initialiser is lowered.
lower_local_declaration ==
  LET b == new_temp(func)
      l == LastLocal(b)
      init == Element.init
  IN  /\ Doing("elements") /\ IsLocal(Element)
      /\ func' = push_stmt(b, StorageLive(l))
      /\ local_map' = (Element.name :> l) @@ local_map
      /\ Then((IF init = << >> THEN << >>
               ELSE << Lower(init[1], FALSE), [do |-> "initialise", local |-> l] >>) \o OtherElements)
      /\ UNCHANGED <<body, operands, loop_stack>>

Initialise ==
  /\ Doing("initialise")
  /\ func' = push_assign(func, Local(Task.local), Use(Top))
  /\ operands' = Earlier(1)
  /\ Done
  /\ UNCHANGED <<body, local_map, loop_stack>>

(***************************************************************************)
(* The end of the body (lib.rs lower_function).                            *)
(***************************************************************************)
\* A body that has not left returns.
implicit_return(b) == IF b.current # None THEN ret(b, << >>) ELSE b

Lowered == todo = << >> /\ ~func.panicked
Terminated == (Lowered \/ func.panicked) /\ UNCHANGED vars

LowerOperand == LowerLiteral \/ LowerSymbol \/ LowerOperation \/ LowerBorrow \/ LowerProjection
LowerPlace == PlaceSymbol \/ PlaceProjection \/ ProjectPlace \/ PlaceOfValue \/ operand_to_place
LowerEffect == LowerAssign \/ LowerCall \/ LowerReturn \/ Jump
Emit == AssignOperation \/ AssignBorrow \/ Store \/ EmitCall \/ EmitReturn
LowerBranches == LowerIf \/ Branch \/ EndBranch \/ StartElse \/ Merge
LowerLoops == LowerWhile \/ TestLoop \/ LowerLoop \/ EndLoop
LowerBlocks == LowerBlock \/ LowerElement \/ DropOperand \/ lower_local_declaration \/ Initialise

Step == LowerOperand \/ LowerPlace \/ LowerEffect \/ Emit \/ LowerBranches \/ LowerLoops
          \/ LowerBlocks
Next == Step \/ Terminated

\* Lowering is one sequential computation.
Spec == Init /\ [][Next]_vars /\ WF_vars(Step)

(***************************************************************************)
(* Properties.                                                             *)
(***************************************************************************)
Function == finish_function(implicit_return(func))

\* No builder call is made without a current block ("set_terminator called with
\* no current block", builder.rs:289-292, 322-326).
NeverPanics == ~func.panicked

\* A block is ended at most once, and nothing is added to it afterwards; when the
\* function is complete every block that was reserved has been ended
\* (builder.rs:278-281, 321-329; the placeholder terminator is Unreachable).
BlocksEndOnce ==
  /\ IsInjective(func.ended)
  /\ func.current \notin ToSet(func.ended)
  /\ Lowered => ToSet(func.ended) = DOMAIN func.blocks

\* Every edge binds the arguments of its target: "The number and types of
\* operands per edge must match the args list" (stmt.rs:44-46).
EdgesBindArguments == EdgesBind(Function)

\* No body uses the operand of an if without else: such an if is not an operand,
\* nor an initialiser, nor an element before the last.
Joins(v) == v.v = "if" => v.else # << >>
ElementsJoin(es) ==
  \A i \in DOMAIN es :
    IF IsLocal(es[i]) THEN \A j \in DOMAIN es[i].init : Joins(es[i].init[j])
    ELSE i < Len(es) => Joins(es[i].value)
PartsJoin(v) ==
  /\ v.v \in {"op", "call"} => \A i \in DOMAIN v.args : Joins(v.args[i])
  /\ v.v \in {"field", "deref"} => Joins(v.base)
  /\ v.v \in {"assign", "borrow"} => Joins(v.place)
  /\ v.v \in {"assign", "return"} => Joins(v.value)
  /\ v.v \in {"if", "while"} => Joins(v.cond)
  /\ v.v = "if" => ElementsJoin(v.then) /\ (v.else # << >> => ElementsJoin(v.else[1]))
  /\ v.v \in {"while", "loop"} => ElementsJoin(v.body)
  /\ v.v = "block" => ElementsJoin(v.elements)
IfsJoin ==
  /\ \A v \in Values : PartsJoin(v)
  /\ \A es \in Bodies : ElementsJoin(ensure_return_in_body(es))

\* The values of S, and calls in tail position, leave no current block behind.
\* What follows them in their block needs none, nothing that waits for an operand
\* waits for theirs, and no body of a loop ends with one.
Quiet(v) == v.v \in {"unit", "lit", "symbol", "parameter"}
Leaves(e, last, S) == ~IsLocal(e) /\ (e.value \in S \/ (last /\ e.value.v = "call"))
StaysIn(es, S) == \A i \in DOMAIN es : ~Leaves(es[i], i = Len(es), S)
QuietAfter(es, S) ==
  /\ \A i \in DOMAIN es : IsLocal(es[i]) => \A j \in DOMAIN es[i].init : es[i].init[j] \notin S
  /\ \A i, j \in DOMAIN es : i < j /\ Leaves(es[i], FALSE, S) => ~IsLocal(es[j]) /\ Quiet(es[j].value)
PartsStay(v, S) ==
  /\ v \notin S => v.v \notin {"return", "break", "continue"}
  /\ v.v \in {"op", "call"} => \A i \in DOMAIN v.args : v.args[i] \notin S
  /\ v.v \in {"field", "deref"} => v.base \notin S
  /\ v.v \in {"assign", "borrow"} => v.place \notin S
  /\ v.v \in {"assign", "return"} => v.value \notin S
  /\ v.v \in {"if", "while"} => v.cond \notin S
  /\ v.v = "if" => QuietAfter(v.then, S) /\ (v.else # << >> => QuietAfter(v.else[1], S))
  /\ v.v \in {"while", "loop"} => QuietAfter(v.body, S) /\ StaysIn(v.body, S)
  /\ v.v = "block" => QuietAfter(v.elements, S) /\ (v \notin S => StaysIn(v.elements, S))
NothingAfter(S) ==
  /\ UnitV \notin S
  /\ \A v \in Values : PartsStay(v, S)
  /\ \A es \in Bodies : QuietAfter(ensure_return_in_body(es), S)

\* The loop stack holds exactly the loops whose end is still to be lowered, the
\* innermost last: break and continue find their own loop (lib.rs:51-61).
LoopEnds == {i \in DOMAIN todo : todo[i].do = "end_loop"}
LoopsNested ==
  \E at \in [DOMAIN loop_stack -> LoopEnds] :
    /\ \A i \in LoopEnds : \E n \in DOMAIN loop_stack : at[n] = i
    /\ \A m, n \in DOMAIN loop_stack : m < n => at[m] > at[n]
    /\ \A n \in DOMAIN loop_stack :
         loop_stack[n] = [continue |-> todo[at[n]].continue, break |-> todo[at[n]].break]

\* The code is well formed at every moment of the lowering, whatever the nesting
\* of the constructs that reserve, switch to and end blocks.
CodeWellFormed == BlocksEndOnce /\ EdgesBindArguments /\ LoopsNested
=============================================================================
