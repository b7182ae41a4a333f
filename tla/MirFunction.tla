---------------------------- MODULE MirFunction ----------------------------
(***************************************************************************)
(* The body of a MIR function as the passes over it see it: locals, basic  *)
(* blocks with arguments, statements and terminators (mir/src/stmt.rs,     *)
(* rvalue.rs, operand.rs, func.rs).  A function is a record                *)
(*    ty, mutable, statics   see MirPlace                                  *)
(*    locals, params         the locals, and those that are parameters     *)
(*    entry                  the entry block                               *)
(*    blocks                 a sequence of [args, stmts, term]             *)
(*                                                                         *)
(* Operators, types and literals are abstracted: rvalues that only read    *)
(* operands (casts, arithmetic, aggregates) are one kind, "ops", and a     *)
(* terminator is the operands it reads, the place a call writes, and its   *)
(* edges, each with the operands that bind the target's block arguments.   *)
(***************************************************************************)
EXTENDS MirPlace

Const == [op |-> "const"]
Copy(p) == [op |-> "copy", place |-> p]
Move(p) == [op |-> "move", place |-> p]
IsPlaceOperand(o) == o.op \in {"copy", "move"}

Use(o) == [rv |-> "use", operand |-> o]
RefOf(kind, p) == [rv |-> "ref", kind |-> kind, place |-> p]
LenOf(p) == [rv |-> "len", place |-> p]
Ops(os) == [rv |-> "ops", operands |-> os]

Assign(dest, rv) == [st |-> "assign", dest |-> dest, rvalue |-> rv]
SetDiscriminant(p) == [st |-> "set_discriminant", place |-> p]
StorageLive(l) == [st |-> "storage_live", local |-> l]
StorageDead(l) == [st |-> "storage_dead", local |-> l]

Edge(b, os) == [to |-> b, args |-> os]
Terminator(kind, os, dest, edges) ==
  [tm |-> kind, operands |-> os, dest |-> dest, edges |-> edges]

Goto(b, os) == Terminator("goto", << >>, << >>, << Edge(b, os) >>)
If(c, e1, e2) == Terminator("if", << c >>, << >>, << e1, e2 >>)
SwitchInt(d, edges) == Terminator("switch_int", << d >>, << >>, edges)
Return(os) == Terminator("return", os, << >>, << >>)
Unreachable == Terminator("unreachable", << >>, << >>, << >>)
\* operands: the callee, then the arguments; dest and edges are empty when the
\* call diverges.
Call(callee, os, dest, edges) == Terminator("call", << callee >> \o os, dest, edges)

BasicBlock(args, stmts, term) == [args |-> args, stmts |-> stmts, term |-> term]

\* The blocks of f in positional order are 1..NBlocks(f).
Blocks(f) == DOMAIN f.blocks
Stmts(f, b) == f.blocks[b].stmts
Term(f, b) == f.blocks[b].term
successor_edges(f, b) == Term(f, b).edges
successors(f, b) == {e.to : e \in ToSet(successor_edges(f, b))}
ArgLocals(f, b) == ToSet(f.blocks[b].args)

(***************************************************************************)
(* The operands of an instruction, in the order they are evaluated.        *)
(***************************************************************************)
RvalueOperands(rv) ==
  CASE rv.rv = "use" -> << rv.operand >>
    [] rv.rv = "ops" -> rv.operands
    [] OTHER -> << >>

EdgeOperands(edges) == FlattenSeq([i \in DOMAIN edges |-> edges[i].args])

TermOperands(t) == t.operands \o EdgeOperands(t.edges)

\* Every block the function can enter.
Reachable(f) ==
  LET grow[n \in 0..Cardinality(Blocks(f))] ==
        IF n = 0 THEN {f.entry}
        ELSE LET seen == grow[n - 1] IN seen \cup UNION {successors(f, b) : b \in seen}
  IN  grow[Cardinality(Blocks(f))]

IsSequence(q) == q \in Seq(ToSet(q))

\* The variants of Statement and of Rvalue.
IsStatement(st) ==
  /\ st.st \in {"assign", "set_discriminant", "storage_live", "storage_dead"}
  /\ st.st = "assign" => st.rvalue.rv \in {"use", "ref", "len", "ops"}
  /\ st.st = "assign" /\ st.rvalue.rv = "ops" => IsSequence(st.rvalue.operands)

IsTerminator(t) ==
  /\ IsSequence(t.operands) /\ IsSequence(t.dest) /\ IsSequence(t.edges)
  /\ \A e \in ToSet(t.edges) : IsSequence(e.args)

\* The entry is a block, and every edge leads to a block and binds exactly its
\* arguments ("The number and types of operands per edge must match", stmt.rs:44).
EdgesBind(f) ==
  /\ f.entry \in Blocks(f)
  /\ \A b \in Blocks(f) :
       LET edges == successor_edges(f, b)
       IN  /\ Len(edges) \in Nat
           /\ \A i \in 1..Len(edges) : /\ edges[i].to \in Blocks(f)
                                       /\ Len(edges[i].args) = Len(f.blocks[edges[i].to].args)

\* And nothing is passed to the entry (mir_from_hir/src/lib.rs:158).
WellFormed(f) ==
  /\ IsSequence(f.blocks)
  /\ \A b \in Blocks(f) : /\ IsSequence(Stmts(f, b)) /\ \A st \in ToSet(Stmts(f, b)) : IsStatement(st)
                          /\ IsTerminator(Term(f, b))
  /\ EdgesBind(f) /\ f.blocks[f.entry].args = << >>
=============================================================================
