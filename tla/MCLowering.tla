----------------------------- MODULE MCLowering -----------------------------
EXTENDS Lowering, HirEval

-----------------------------------------------------------------------------
(***************************************************************************)
(* A run of a lowered function, as code generation defines it              *)
(* (llvm_from_mir/src/{func,stmt,rvalue}.rs): locals are memory, operands  *)
(* are read when the statement or the terminator that has them runs, and   *)
(* an edge stores all its operands before the target starts.  Calls read   *)
(* the tape and write the trace as in HirEval.                             *)
(*                                                                         *)
(* A machine is [mem, tape, trace]; mem has the locals written so far.     *)
(* Places are locals here: projections and borrows are the subject of      *)
(* MirExec.                                                                *)
(***************************************************************************)

IsSet(m, o) == IsPlaceOperand(o) => o.place.root \in DOMAIN m.mem
gen_operand(m, o) == IF IsPlaceOperand(o) THEN m.mem[o.place.root] ELSE o.lit
store_local(m, l, val) == [m EXCEPT !.mem = (l :> val) @@ @]

AllSet(m, os) == \A i \in DOMAIN os : IsSet(m, os[i])
gen_rvalue(m, rv) ==
  IF rv.rv = "use" THEN gen_operand(m, rv.operand)
  ELSE combine(rv.op, [i \in DOMAIN rv.operands |-> gen_operand(m, rv.operands[i])])

gen_statement(m, st) ==
  IF st.st = "assign" THEN store_local(m, st.dest.root, gen_rvalue(m, st.rvalue)) ELSE m

\* The arguments of the target take the operands of the edge.
take_edge(f, m, e) ==
  LET args == f.blocks[e.to].args
      bound == {i \in DOMAIN args : i \in DOMAIN e.args}
  IN  [m EXCEPT !.mem = [l \in {args[i] : i \in bound} |->
                           gen_operand(m, e.args[CHOOSE i \in bound : args[i] = l])] @@ @]

Stop(out, val, m) == [out |-> out, val |-> val, trace |-> m.trace]

\* Instruction i of block b, and everything after it.
RECURSIVE run_from(_, _, _, _)
run_from(f, b, i, m) ==
  LET stmts == Stmts(f, b)
      t == Term(f, b)
      follow(e, machine) == IF AllSet(machine, e.args) THEN run_from(f, e.to, 1, take_edge(f, machine, e))
                            ELSE Stop("undefined", Unit, machine)
      args == [k \in DOMAIN Tail(t.operands) |-> gen_operand(m, Tail(t.operands)[k])]
      called == [m EXCEPT !.trace = Append(@, << t.operands[1].place.root, args >>)]
      returned == store_local([called EXCEPT !.tape = Tail(@)], t.dest[1].root, Head(called.tape))
  IN  IF i <= Len(stmts)
      THEN IF stmts[i].st = "assign" => AllSet(m, RvalueOperands(stmts[i].rvalue)) THEN run_from(f, b, i + 1, gen_statement(m, stmts[i]))
           ELSE Stop("undefined", Unit, m)
      ELSE CASE t.tm = "goto"   -> follow(t.edges[1], m)
             [] t.tm = "if"     -> IF ~AllSet(m, t.operands) THEN Stop("undefined", Unit, m)
                                   ELSE follow(t.edges[IF gen_operand(m, t.operands[1]) # 0 THEN 1 ELSE 2], m)
             [] t.tm = "return" -> IF ~AllSet(m, t.operands) THEN Stop("undefined", Unit, m)
                                   ELSE Stop("ok", IF t.operands = << >> THEN Unit
                                                   ELSE gen_operand(m, t.operands[1]), m)
             [] t.tm = "call"   -> IF ~AllSet(m, Tail(t.operands)) THEN Stop("undefined", Unit, m)
                                   ELSE IF called.tape = << >> THEN Stop("abort", Unit, called)
                                   ELSE IF t.edges = << >> THEN Stop("unreachable", Unit, called)
                                   ELSE follow(t.edges[1], returned)
             [] OTHER           -> Stop("unreachable", Unit, m)

run_function(f, params, tape) == run_from(f, f.entry, 1, [mem |-> params, tape |-> tape, trace |-> << >>])

-----------------------------------------------------------------------------
(* The bodies that are lowered, and what is checked of them.               *)
CONSTANTS MaxTape       \* the longest tape of call results

X == SymV("x")
Y == SymV("y")
F == CallV("f", << >>)
G == CallV("g", << X >>)
One == LitV(1)
Sum(a, b) == OpV("add", << a, b >>)
Set(value) == AssignV(X, value)

\* A function body starts with a copy of its parameter; Body has a result.
Start(elements) == << Let("x", << ParamV("a") >>) >> \o elements
Body(elements, result) == Start(Append(elements, Expr(result)))

IfElse(cond, then, else) == IfV(cond, then, << else >>)
IfOnly(cond, then) == IfV(cond, then, << >>)

Simple == {Set(One), G, Set(F)}
SomeValues == {One, X, F, Sum(X, F), BlockV(ValueBlock(<< Set(F) >>, X))}

\* The value of an if, of a block or of an operation.
ValueBodies ==
  {Body(<< Let("y", << IfElse(c, ValueBlock(<< s >>, a), ValueBlock(<< >>, b)) >>) >>, Sum(Y, X)) :
     c \in {F, X}, s \in Simple, a \in {One, X, Sum(X, One)}, b \in {One, Sum(X, X)}}
  \cup
  {Body(<< Expr(Set(Sum(a, b))), Let("y", << a >>), Expr(G) >>, Sum(X, Y)) : a \in SomeValues, b \in {One, X, Sum(X, F)}}

\* Loops that are left, continued and returned from.
Leave == {BreakV, ContinueV, ReturnV(X), Set(One)}
LoopBodies ==
  {Body(<< Expr(WhileV(F, StatementBlock(<< IfElse(F, StatementBlock(<< a >>), StatementBlock(<< s, b >>)), G >>))) >>, X) :
     a \in Leave, b \in Leave, s \in {G, Set(F)}}
  \cup
  {Body(<< Expr(LoopV(StatementBlock(<< s >>) \o << Expr(IfOnly(F, StatementBlock(<< a >>))) >>)) >>, Sum(X, F)) :
     a \in Leave, s \in Simple}
  \cup
  {Body(<< Expr(WhileV(X, StatementBlock(<< LoopV(StatementBlock(<< IfElse(F, StatementBlock(<< a >>), StatementBlock(<< b >>)) >>)),
                                    IfElse(F, StatementBlock(<< c >>), StatementBlock(<< >>)) >>))) >>, G) :
     a \in Leave, b \in Leave, c \in Leave}
  \cup
  {Body(<< Expr(LoopV(<< Expr(IfElse(F, StatementBlock(<< a >>), << Expr(IfElse(F, StatementBlock(<< s, b >>), StatementBlock(<< c >>))) >>)) >>)) >>, X) :
     a \in Leave, b \in Leave, c \in Leave, s \in {G, WhileV(F, StatementBlock(<< Set(F) >>))}}

\* Places, borrows and fields.
PlaceBodies ==
  {Body(<< Let("p", << BorrowV("mutable", X) >>), Let("z", << >>),
           Expr(AssignV(DerefV(SymV("p")), a)), Expr(AssignV(FieldV(X, "a"), b)),
           Expr(AssignV(SymV("z"), BorrowV("shared", One))) >>, DerefV(SymV("z"))) :
     a \in SomeValues, b \in {FieldV(X, "a"), DerefV(SymV("p")), F}}

\* Bodies without a result: the return is the front end's.
UnitBodies ==
  {<< >>} \cup {Start(es) : es \in {<< Let("y", << G >>) >>, StatementBlock(<< Set(F) >>), << Expr(ReturnV(X)) >>}}

AllBodies == UnitBodies \cup ValueBodies \cup LoopBodies \cup PlaceBodies

\* Every value of the bodies, down to a depth none of them exceeds.
PartsOf(e) == ToSet(IF IsLocal(e) THEN e.init ELSE << e.value >>)
PartsOfAll(es) == UNION {PartsOf(e) : e \in ToSet(es)}
Children(v) ==
  CASE v.v \in {"op", "call"} -> ToSet(v.args)
    [] v.v = "assign" -> {v.place, v.value}
    [] v.v \in {"field", "deref"} -> {v.base}
    [] v.v = "borrow" -> {v.place}
    [] v.v = "return" -> {v.value}
    [] v.v = "if" -> {v.cond} \cup PartsOfAll(v.then) \cup UNION {PartsOfAll(es) : es \in ToSet(v.else)}
    [] v.v = "while" -> {v.cond} \cup PartsOfAll(v.body)
    [] v.v = "loop" -> PartsOfAll(v.body)
    [] v.v = "block" -> PartsOfAll(v.elements)
    [] OTHER -> {}
WithinDepth[n \in 0..8] ==
  IF n = 0 THEN {UnitV} \cup UNION {PartsOfAll(ensure_return_in_body(es)) : es \in AllBodies}
  ELSE LET some == WithinDepth[n - 1] IN some \cup UNION {Children(v) : v \in some}
AllValues == WithinDepth[8]

ParamNames == << "a" >>

\* The values that leave no current block behind.
Leaving == {BreakV, ContinueV} \cup {v \in AllValues : v.v = "return"}

\* What is proved of such bodies holds of these.
ASSUME TheseIfsJoin == IfsJoin
ASSUME NothingAfterThese == NothingAfter(Leaving)

Tapes == UNION {[1..n -> {0, 1}] : n \in 0..MaxTape}

\* The lowered code does what the evaluator computes, on every tape: the same
\* calls with the same arguments in the same order, and the same result
\* (evaluator.rs:160-231; expr.rs:16-365).
AgreesWithEvaluator ==
  (Lowered /\ \A es \in PlaceBodies : body # ensure_return_in_body(es)) =>
    \A tape \in Tapes : \A x \in {0, 4} :
      LET e == evaluate_function(body, [n \in {"a"} |-> x], tape)
          r == run_function(Function, [l \in {1} |-> x], tape)
      IN  e.out # "loop_limit" => /\ r.out = e.out
                                  /\ r.trace = e.st.trace
                                  /\ e.out = "ok" => r.val = e.val
=============================================================================
