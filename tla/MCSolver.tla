------------------------------ MODULE MCSolver ------------------------------
(* Programs for the solver, and what it must make of them.  The widths of   *)
(* the types are scaled down, in their order, to what TLC can enumerate.    *)
EXTENDS Solver, Bitwise

NarrowWidths == [k \in Signed \cup Unsigned |->
  CASE k \in {"i8", "u8"} -> 3 [] k \in {"i16", "u16"} -> 4 [] k \in {"i32", "u32"} -> 5
    [] k \in {"i64", "u64", "usize"} -> 6 [] OTHER -> 7]

(***************************************************************************)
(* Values as trees, and the store that holds one function's.               *)
(***************************************************************************)
Value(k, on) == [k |-> k, sp |-> 0, op |-> "", n |-> 0, t |-> NoType, r |-> 0, a |-> << >>, on |-> on, b |-> << >>]
Num(n) == [Value("inferred_int", << >>) EXCEPT !.n = n]
Sym(kind, r) == [Value(kind, << >>) EXCEPT !.r = r]
Bin(op, l, r) == [Value("binary", <<l, r>>) EXCEPT !.op = op]
Return(v) == Value("return", <<v>>)
Call(f, args) == [Value("call", <<Sym("function", f)>> \o args) EXCEPT !.a = [i \in DOMAIN args |-> 0]]
Method(object, name, args) == [Value("method_call", <<object>> \o args) EXCEPT !.op = name, !.a = [i \in DOMAIN args |-> 0]]
Object(def, fields) == [Value("struct_object", fields) EXCEPT !.r = def, !.a = [i \in DOMAIN fields |-> i]]
If(c, yes, no) == [Value("if", <<c>>) EXCEPT !.b = <<yes, no>>]
Expr(v) == [e |-> "expr", v |-> <<v>>, ty |-> NoType]
Let(ty, v) == [e |-> "local", v |-> <<v>>, ty |-> ty]

RECURSIVE Put(_, _)
RECURSIVE PutAll(_, _)
RECURSIVE PutElements(_, _)
RECURSIVE PutBlocks(_, _)
PutAll(st, vs) ==
  LET Rest(one) == Before(one.id, PutAll(one.st, Tail(vs)))
  IN  IF vs = << >> THEN [st |-> st, ids |-> << >>] ELSE Rest(Put(st, vs[1]))
PutElements(st, els) ==
  LET Rest(done, id) == Before([e |-> els[1].e, id |-> id], PutElements(done, Tail(els)))
      Local(one) == [one.st EXCEPT !.loc = Append(@, [ty |-> els[1].ty, init |-> one.id])]
      Held(one) == IF els[1].e = "expr" THEN Rest(one.st, one.id) ELSE Rest(Local(one), Len(one.st.loc) + 1)
  IN  IF els = << >> THEN [st |-> st, ids |-> << >>] ELSE Held(Put(st, els[1].v[1]))
PutBlocks(st, bs) ==
  LET Rest(one) == Before(Len(one.st.blk) + 1, PutBlocks([one.st EXCEPT !.blk = Append(@, one.ids)], Tail(bs)))
  IN  IF bs = << >> THEN [st |-> st, ids |-> << >>] ELSE Rest(PutElements(st, bs[1]))
Put(st, v) ==
  LET Made(kids, blocks, id) ==
        [st |-> [blocks.st EXCEPT !.val = Append(@, [v EXCEPT !.on = kids, !.b = blocks.ids, !.sp = id])], id |-> id]
      Parts(kids, blocks) == Made(kids, blocks, Len(blocks.st.val) + 1)
      Kids(kids) == Parts(kids.ids, PutBlocks(kids.st, v.b))
  IN  Kids(PutAll(st, v.on))

\* the items around the function: id<T>(x: T) -> T, takes(u8, i64), next(u8) -> u8,
\* peek(&u8) -> u8, Box<T> { v: T } and Pair { a: u8, b: i32 }
T == create_generic_placeholder(1)
Inferred == Prim("inferred")
Items ==
  LET fn(gen, params, ret) == [gen |-> gen, params |-> params, ret |-> ret, body |-> << >>]
      st == [val |-> << >>, blk |-> << >>, loc |-> << >>,
             par |-> <<NoType, NoType, NoType, T, Prim("u8"), Prim("i64"), Prim("u8"), Ref(Prim("u8"), 0, 0)>>,
             fun |-> <<fn(<< >>, <<1, 2, 3>>, NoType), fn(<<1>>, <<4>>, T), fn(<< >>, <<5, 6>>, Prim("unit")),
                       fn(<< >>, <<7>>, Prim("u8")), fn(<< >>, <<8>>, Prim("u8"))>>,
             str |-> ensure_range_structs \o <<[gen |-> <<1>>, fields |-> <<T>>],
                                               [gen |-> << >>, fields |-> <<Prim("u8"), Prim("i32")>>]>>,
             enu |-> <<<<Prim("u8"), Prim("unit")>>>>,
             meth |-> <<[ty |-> Prim("u8"), name |-> "next", fn |-> 4], [ty |-> Prim("u8"), name |-> "peek", fn |-> 5]>>,
             global |-> [ty |-> NoType, init |-> 0], self |-> 1, ret |-> NoType,
             tab |-> << >>, work |-> {}, room |-> 0, open |-> {}, moved |-> FALSE, errs |-> {},
             copies |-> << >>, scopies |-> << >>, tie |-> "u64", panic |-> "", was |-> << >>, size |-> 0]
      Template(put) == [put.st EXCEPT !.fun[2].body = put.ids]
  IN  Template(PutElements(st, <<Expr(Return(Sym("param", 4)))>>))

\* a function with the given parameter types, result and body
Function(params, ret, els) ==
  LET st == [Items EXCEPT !.par = [i \in DOMAIN @ |-> IF i <= 3 THEN params[i] ELSE @[i]], !.fun[1].ret = ret]
      Self(put) == [put.st EXCEPT !.fun[1].body = put.ids, !.size = Len(put.st.val)]
  IN  Self(PutElements(st, els))

\* a global with the given type and initialiser
Global(ty, v) ==
  LET Self(put) == [put.st EXCEPT !.global = [ty |-> ty, init |-> put.id], !.size = put.id]
  IN  Self(Put([Items EXCEPT !.self = 0], v))
Globals ==
  {Global(ty, v) : ty \in {Inferred, Prim("u8"), Prim("i64"), Refine(Prim("u8"), 1, 2)},
                   v \in {Num(1), Num(5), Bin("add", Num(1), Num(2)), Call(2, <<Num(2)>>), Object(7, <<Num(3)>>),
                          Value("list", <<Num(1), Call(4, <<Num(2)>>)>>), Bin("lt", Num(1), Call(4, <<Num(0)>>))}}

(***************************************************************************)
(* Arithmetic on operands whose ranges are known.                          *)
(***************************************************************************)
Intervals == {<<"u8", 0, 0>>, <<"u8", 0, 3>>, <<"u8", 1, 2>>, <<"u8", 2, 5>>, <<"u8", 1, 7>>,
              <<"i8", -3, 2>>, <<"i8", -1, 0>>, <<"i8", 0, 3>>}
Refined(i) == Refine(Prim(i[1]), i[2], i[3])
Operation(i, j, k, op) ==
  Function(<<Refined(i), Refined(j), Prim("bool")>>, Refined(k), <<Expr(Return(Bin(op, Sym("param", 1), Sym("param", 2))))>>)
Operators == {"add", "sub", "mul", "div", "mod", "and", "or", "xor", "shl", "shr"}
Sound(op) == op \notin {"and", "xor"}
Arithmetics == {Operation(i, j, k, op) : i, j, k \in {x \in Intervals : x[1] = "u8"}, op \in Operators}
                 \cup {Operation(i, j, k, op) : i, j, k \in {x \in Intervals : x[1] = "i8"}, op \in {x \in Operators : Sound(x)}}

\* what the operation computes, on the two's complement bits where it is about bits
Bits(base, x) == x % 2^Width[base]
OfBits(base, x) == IF base \in Signed /\ x >= 2^(Width[base] - 1) THEN x - 2^Width[base] ELSE x
Defined(op, y) == CASE op \in {"div", "mod"} -> y # 0 [] op \in {"shl", "shr"} -> y >= 0 [] OTHER -> TRUE
Result(op, base, x, y) ==
  CASE op = "add" -> x + y [] op = "sub" -> x - y [] op = "mul" -> x * y
    [] op = "div" -> Quotient(x, y) [] op = "mod" -> Remainder(x, y)
    [] op = "and" -> OfBits(base, Bits(base, x) & Bits(base, y))
    [] op = "or"  -> OfBits(base, Bits(base, x) | Bits(base, y))
    [] op = "xor" -> OfBits(base, Bits(base, x) ^^ Bits(base, y))
    [] op = "shl" -> x * 2^y [] op = "shr" -> x \div 2^y

Values(ty) == ty.n[1] .. ty.n[2]
Accepted == phase = "done" /\ s.errs = {}

\* A function that the solver accepts returns, for every value of its refined
\* parameters, a value of the refinement it promises: the bounds computed for the
\* result of an operation cover what the operation computes (bounds.rs:106-325),
\* and are read before the operands are told what the context wants of the result
\* (solve.rs:616-638).
RefinementsHold ==
  \A e \in {x \in DOMAIN s.val : Accepted /\ s.val[x].k = "return" /\ s.val[s.val[x].on[1]].k = "binary" /\ x <= s.size} :
    LET nd == s.val[s.val[e].on[1]]
        ty(i) == s.par[s.val[nd.on[i]].r]
    IN  (/\ \A i \in {1, 2} : s.val[nd.on[i]].k = "param" /\ ty(i).k = "refine"
         /\ s.ret.k = "refine")
        => \A x \in Values(ty(1)), y \in Values(ty(2)) :
             Defined(nd.op, y) => Result(nd.op, s.ret.on[1].k, x, y) \in Values(s.ret)

(***************************************************************************)
(* Programs of a variable and two statements.                              *)
(***************************************************************************)
X == Sym("local", 1)
P1 == Sym("param", 1)
P2 == Sym("param", 2)
P3 == Sym("param", 3)
Variables == <<
  Let(Inferred, Num(1)), Let(Inferred, P1), Let(Prim("u8"), Num(1)), Let(Inferred, Call(2, <<P1>>)),
  Let(Inferred, Value("list", <<Num(1), P2>>)), Let(Inferred, Object(7, <<P1>>)),
  Let(Inferred, [Value("range", <<Num(1), P1>>) EXCEPT !.a = <<1, 1>>]) >>
Statements == <<
  Call(3, <<X, Num(3)>>), Value("assign", <<X, P2>>), Call(2, <<X>>), Return(Bin("add", X, Num(1))), Return(Num(5)),
  If(P3, <<Expr(Num(1))>>, <<Expr(X)>>), Bin("lt", X, Num(2)), Method(X, "next", << >>), Call(2, <<Num(2)>>),
  Object(7, <<Num(3)>>), Value("index", <<X, Num(0)>>), Method(P1, "peek", << >>),
  Return(If(P3, <<Expr(Num(1))>>, <<Expr(Num(2))>>)), Call(3, <<Num(40), X>>),
  Call(2, <<P2>>), [Value("block", << >>) EXCEPT !.b = <<<<Let(Prim("u8"), Num(2)), Expr(Sym("local", 2))>>>>] >>
Kinds == (DOMAIN Variables) \X (DOMAIN Statements) \X (DOMAIN Statements)
Body(x) == [Function(<<Prim("u8"), Prim("i32"), Prim("bool")>>, Prim("i32"),
                    <<Variables[x[1]], Expr(Statements[x[2]]), Expr(Statements[x[3]])>>) EXCEPT !.was = x]

RECURSIVE Shape(_, _)
Shape(st, ty) ==
  IF ty.k = "struct" /\ ty.n[1] > 8
  THEN Ty("copy", << >>, [i \in DOMAIN st.str[ty.n[1]].fields |-> Shape(st, st.str[ty.n[1]].fields[i])])
  ELSE [ty EXCEPT !.on = [i \in DOMAIN @ |-> Shape(st, @[i])]]

Outcome(st) ==
  [panic |-> st.panic, errs |-> st.errs, vars |-> [l \in DOMAIN st.loc |-> Shape(st, st.loc[l].ty)],
   values |-> IF st.panic = "" THEN [e \in 1 .. st.size |-> <<st.val[e].k, Shape(st, determine_type(st, e))>>] ELSE << >>]

RECURSIVE Sorted(_)
Sorted(S) == IF S = {} THEN << >> ELSE <<Least(S)>> \o Sorted(S \ {Least(S)})

RECURSIVE Rounds(_)
Rounds(st) ==
  LET Again(synced) == IF synced.moved THEN Rounds(synced) ELSE synced
      Seen(seen) == IF seen.panic # "" THEN seen ELSE Again(sync_local_types(seen, st.fun[1].body))
  IN  IF st.work = {} THEN st ELSE Seen(visit_all([st EXCEPT !.work = {}, !.moved = FALSE], Sorted(st.work)))
SolveInOrder(st) ==
  LET Last_(last) == IF last.panic # "" THEN last ELSE Finished(last, last.fun[1].body)
  IN  Last_(Rounds(Resolved(st)))

InOrder == [x \in Kinds |-> Outcome(SolveInOrder(Body(x)))]
\* The queue of the solver is a hash set with a random seed, and the constraint
\* table hashes stale keys anew when it grows; whatever the order of the visits,
\* the types, the errors and the panic of a function are the same (solve.rs:1487-1501).
OrderIndependent == s.was # << >> /\ phase \in {"done", "crashed"} => Outcome(s) = InOrder[s.was]

\* A literal compared with a variable whose type is inferred is left out: with a
\* table that grows between two visits it becomes an i32 or a u8 as the order has it.
Compares(x) == 7 \in {x[2], x[3]} /\ Variables[x[1]].ty = Inferred
Mixed == {Body(x) : x \in {y \in Kinds : ~Compares(y)}}

\* a type that says all there is to say
RECURSIVE Known(_, _)
Known(st, ty) == /\ ty.k \notin {"none", "param", "parameterized"} /\ ~is_inferred(ty)
                 /\ ty.k = "struct" => st.str[ty.n[1]].gen = << >>
                 /\ \A i \in DOMAIN ty.on : Known(st, ty.on[i])

\* Once the type of a value is known, no later visit, copy of a generic, synchronised
\* variable or default changes it: what was constrained by it stays right
\* (solve.rs:476-509, 1525-1548, 1563-1613).
KnownIsFinal ==
  [][\A e \in 1 .. s.size : Known(s, determine_type(s, e)) => determine_type(s', e) = determine_type(s, e)]_s

\* The solver comes to an end: no run takes steps for ever, although every
\* constraint and every copy asks for another round (solve.rs:1486-1502).
Terminates == <>[][FALSE]_vars

\* return if c { takes(a, b); b } else { 0 }
Branching == {Function(<<Prim("u8"), Prim("i32"), Prim("bool")>>, Prim("i32"),
                       <<Expr(Return(If(P3, <<Expr(Call(3, <<P1, P2>>)), Expr(P2)>>, <<Expr(Num(0))>>)))>>)}

\* Fields are extracted before a mutable borrow "to avoid RefCell panics"
\* (solve.rs:480-481): no value is hashed while a block in it is borrowed mutably.
NoBorrowPanic == s.panic # "borrowed"

MCPrograms == Arithmetics \cup Mixed \cup Globals
=============================================================================
