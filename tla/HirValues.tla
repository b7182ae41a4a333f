----------------------------- MODULE HirValues -----------------------------
(***************************************************************************)
(* The values and block elements of the HIR (hir/src/expr.rs, item.rs).    *)
(* Literals are numbers (0 is false), and the operations that evaluate     *)
(* their operands and combine them (arithmetic, comparison, casts,         *)
(* aggregates) are one kind, told apart by a name.  "and" and "or" are the *)
(* logical ones.                                                           *)
(***************************************************************************)
EXTENDS Naturals, Sequences

UnitV == [v |-> "unit"]
LitV(k) == [v |-> "lit", lit |-> k]
\* The name of a local variable, and of a parameter.
SymV(n) == [v |-> "symbol", name |-> n]
ParamV(n) == [v |-> "parameter", name |-> n]
OpV(op, args) == [v |-> "op", op |-> op, args |-> args]
AssignV(place, value) == [v |-> "assign", place |-> place, value |-> value]
FieldV(base, name) == [v |-> "field", base |-> base, name |-> name]
DerefV(base) == [v |-> "deref", base |-> base]
BorrowV(kind, place) == [v |-> "borrow", kind |-> kind, place |-> place]
CallV(callee, args) == [v |-> "call", callee |-> callee, args |-> args]
ReturnV(value) == [v |-> "return", value |-> value]
\* else: no branch, or one.
IfV(cond, then, else) == [v |-> "if", cond |-> cond, then |-> then, else |-> else]
WhileV(cond, body) == [v |-> "while", cond |-> cond, body |-> body]
LoopV(body) == [v |-> "loop", body |-> body]
BreakV == [v |-> "break"]
ContinueV == [v |-> "continue"]
BlockV(elements) == [v |-> "block", elements |-> elements]

\* Block elements; init: no initialiser, or one.
Expr(value) == [el |-> "expr", value |-> value]
Let(name, init) == [el |-> "local", name |-> name, init |-> init]

(***************************************************************************)
(* The blocks the front end makes (hir_from_tree).                         *)
(***************************************************************************)
\* A block that ends in a statement gets a last element of its own, unit; the
\* empty block stays empty.
StatementBlock(values) ==
  IF values = << >> THEN << >>
  ELSE [i \in DOMAIN values |-> Expr(values[i])] \o << Expr(UnitV) >>
ValueBlock(values, result) == [i \in DOMAIN values |-> Expr(values[i])] \o << Expr(result) >>

\* A function body ends in return.
ensure_return_in_body(es) ==
  LET last == es[Len(es)]
  IN  IF es # << >> /\ last.el = "expr"
      THEN IF last.value.v = "return" THEN es ELSE [es EXCEPT ![Len(es)] = Expr(ReturnV(last.value))]
      ELSE Append(es, Expr(ReturnV(UnitV)))
=============================================================================
