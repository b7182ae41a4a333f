------------------------------ MODULE HirEval ------------------------------
(***************************************************************************)
(* The compile-time evaluator of the HIR (hir_evaluate): a recursive walk  *)
(* whose Err results break, continue and return unwind to the construct    *)
(* that catches them.  Functions without a body are builtins: a call       *)
(* appends to the trace and its result is the next value of the tape; when *)
(* the tape is empty the builtin aborts.                                   *)
(*                                                                         *)
(* A state is [locals, tape, trace, loop_count]; a result is               *)
(* [out, val, st] where out is "ok" or the name of an EvalError.           *)
(***************************************************************************)
EXTENDS HirValues, SequencesExt

CONSTANT LoopLimit      \* loop_limit: iterations in all loops together

Ok(val, st) == [out |-> "ok", val |-> val, st |-> st]
Err(error, val, st) == [out |-> error, val |-> val, st |-> st]
Unit == 0

\* Any function of the operands that tells them and their order apart.
combine(op, args) ==
  CASE op = "and" -> IF \E i \in DOMAIN args : args[i] = 0 THEN 0 ELSE 1
    [] op = "or"  -> IF \A i \in DOMAIN args : args[i] = 0 THEN 0 ELSE 1
    [] OTHER      -> FoldLeft(LAMBDA acc, a : (3 * acc + a + 1) % 17, 0, args)

RECURSIVE evaluate_value(_, _), evaluate_all(_, _, _, _), evaluate_elements(_, _, _, _), eval_loop(_, _, _)

\* evaluate_block: the value of the last element; a declaration is unit.
evaluate_block(es, st) == evaluate_elements(es, 1, Unit, st)

evaluate_elements(es, i, last, st) ==
  IF i > Len(es) THEN Ok(last, st)
  ELSE LET e == es[i]
           r == IF e.el = "expr" THEN evaluate_value(e.value, st)
                ELSE IF e.init = << >> THEN Ok(Unit, st)
                ELSE evaluate_value(e.init[1], st)
       IN  IF r.out # "ok" THEN r
           ELSE IF e.el = "expr" THEN evaluate_elements(es, i + 1, r.val, r.st)
           ELSE evaluate_elements(es, i + 1, Unit, [r.st EXCEPT !.locals = (e.name :> r.val) @@ @])

\* Arguments, left to right; val is the sequence of their values.
evaluate_all(vs, i, done, st) ==
  IF i > Len(vs) THEN Ok(done, st)
  ELSE LET r == evaluate_value(vs[i], st)
       IN  IF r.out # "ok" THEN r ELSE evaluate_all(vs, i + 1, Append(done, r.val), r.st)

\* && and || do not evaluate their right operand when the left one decides.
eval_logic(op, left, right, st) ==
  LET l == evaluate_value(left, st)
      decided == \/ op = "and" /\ l.val = 0
                 \/ op = "or" /\ l.val # 0
  IN  IF l.out # "ok" \/ decided THEN l ELSE evaluate_value(right, l.st)

\* The other operations evaluate every operand, then combine them.
eval_operation(op, args, st) ==
  LET r == evaluate_all(args, 1, << >>, st)
  IN  IF r.out # "ok" THEN r ELSE Ok(combine(op, r.val), r.st)

\* Only local variables are assigned.
eval_assign(place, rhs, st) ==
  LET r == evaluate_value(rhs, st)
  IN  IF r.out # "ok" THEN r
      ELSE IF place.v # "symbol" THEN Err("unsupported", Unit, r.st)
      ELSE Ok(Unit, [r.st EXCEPT !.locals = (place.name :> r.val) @@ @])

eval_call(callee, args, st) ==
  LET r == evaluate_all(args, 1, << >>, st)
  IN  IF r.out # "ok" THEN r
      ELSE LET called == [r.st EXCEPT !.trace = Append(@, << callee, r.val >>)]
           IN  IF called.tape = << >> THEN Err("abort", Unit, called)
               ELSE Ok(Head(called.tape), [called EXCEPT !.tape = Tail(@)])

eval_if(v, st) ==
  LET c == evaluate_value(v.cond, st)
  IN  IF c.out # "ok" THEN c
      ELSE IF c.val # 0 THEN evaluate_block(v.then, c.st)
      ELSE IF v.else # << >> THEN evaluate_block(v.else[1], c.st)
      ELSE Ok(Unit, c.st)

\* eval_while and eval_infinite_loop; cond: none, or one.
eval_loop(cond, es, st) ==
  LET c == IF cond = << >> THEN Ok(1, st) ELSE evaluate_value(cond[1], st)
      r == evaluate_block(es, [c.st EXCEPT !.loop_count = @ + 1])
  IN  IF st.loop_count >= LoopLimit THEN Err("loop_limit", Unit, st)
      ELSE IF c.out # "ok" THEN c
      ELSE IF c.val = 0 THEN Ok(Unit, c.st)
      ELSE IF r.out \in {"ok", "continue"} THEN eval_loop(cond, es, r.st)
      ELSE IF r.out = "break" THEN Ok(Unit, r.st)
      ELSE r

evaluate_value(v, st) ==
  CASE v.v = "unit"   -> Ok(Unit, st)
    [] v.v = "lit"    -> Ok(v.lit, st)
    [] v.v \in {"symbol", "parameter"} ->
                         IF v.name \in DOMAIN st.locals THEN Ok(st.locals[v.name], st)
                         ELSE Err("type_error", Unit, st)
    [] v.v = "op"     -> IF v.op \in {"and", "or"} THEN eval_logic(v.op, v.args[1], v.args[2], st)
                         ELSE eval_operation(v.op, v.args, st)
    [] v.v = "assign" -> eval_assign(v.place, v.value, st)
    [] v.v = "call"   -> eval_call(v.callee, v.args, st)
    [] v.v = "if"     -> eval_if(v, st)
    [] v.v = "while"  -> eval_loop(<< v.cond >>, v.body, st)
    [] v.v = "loop"   -> eval_loop(<< >>, v.body, st)
    [] v.v \in {"break", "continue"} -> Err(v.v, Unit, st)
    [] v.v = "return" -> LET r == evaluate_value(v.value, st)
                         IN  IF r.out = "ok" THEN Err("return", r.val, r.st) ELSE r
    [] v.v = "block"  -> evaluate_block(v.elements, st)
    [] v.v = "field"  -> LET r == evaluate_value(v.base, st)
                         IN  IF r.out = "ok" THEN Err("type_error", Unit, r.st) ELSE r
    [] v.v \in {"borrow", "deref"} -> Err("unsupported", Unit, st)

\* A body catches return; its result is the last value otherwise.
evaluate_function(body, params, tape) ==
  LET st == [locals |-> params, tape |-> tape, trace |-> << >>, loop_count |-> 0]
      r == evaluate_elements(body, 1, Unit, st)
  IN  IF r.out = "return" THEN Ok(r.val, r.st) ELSE r
=============================================================================
