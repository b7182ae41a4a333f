---------------------------- MODULE LivenessOps ----------------------------
(***************************************************************************)
(* Uses, definitions and the transfer function of the borrow checker's     *)
(* liveness pass (mir_borrow_check/src/liveness.rs), and its result as a   *)
(* value.  MirLiveness is the loop that computes that value.               *)
(***************************************************************************)
EXTENDS MirFunction

(***************************************************************************)
(* Uses and definitions of one instruction.  Uses are a sequence, one      *)
(* entry per occurrence, because the checker also counts them.             *)
(***************************************************************************)
collect_place_locals(f, p) ==
  LET indices == SelectSeq(p.proj, LAMBDA s : s.step = "index")
      root == IF p.root \in f.statics THEN << >> ELSE << p.root >>
  IN  root \o [i \in DOMAIN indices |-> indices[i].by]

collect_operands(f, os) ==
  FlattenSeq([i \in DOMAIN os |->
                IF IsPlaceOperand(os[i]) THEN collect_place_locals(f, os[i].place) ELSE << >>])

\* A reference taken to a place is not a use of it.
collect_rvalue_usedef(f, rv) ==
  IF rv.rv = "len" THEN collect_place_locals(f, rv.place)
                   ELSE collect_operands(f, RvalueOperands(rv))

\* A whole local that is written is defined; a written projection uses the
\* locals it goes through.
written_uses(f, p) == IF IsRoot(p) THEN << >> ELSE collect_place_locals(f, p)
written_defs(f, p) == IF IsRoot(p) /\ p.root \notin f.statics THEN {p.root} ELSE {}

\* An assignment to a projection records no use of the locals it goes through.
stmt_uses(f, st) ==
  CASE st.st = "assign" -> collect_rvalue_usedef(f, st.rvalue)
    [] st.st = "set_discriminant" -> written_uses(f, st.place)
    [] OTHER -> << >>
stmt_defs(f, st) ==
  CASE st.st = "assign" -> written_defs(f, st.dest)
    [] st.st = "set_discriminant" -> written_defs(f, st.place)
    [] OTHER -> {}

term_uses(f, t) ==
  collect_operands(f, TermOperands(t))
    \o FlattenSeq([i \in DOMAIN t.dest |-> written_uses(f, t.dest[i])])
term_defs(f, t) == UNION {written_defs(f, p) : p \in ToSet(t.dest)}

\* Instruction i of block b; the terminator follows the last statement.
InstrUses(f, b, i) ==
  IF i <= Len(Stmts(f, b)) THEN stmt_uses(f, Stmts(f, b)[i]) ELSE term_uses(f, Term(f, b))
InstrDefs(f, b, i) ==
  IF i <= Len(Stmts(f, b)) THEN stmt_defs(f, Stmts(f, b)[i]) ELSE term_defs(f, Term(f, b))
InstrCount(f, b) == Len(Stmts(f, b)) + 1

\* Mutant of live_before_instr: a definition ends nothing.
mutant_no_definitions(f, b, i, live) == ToSet(InstrUses(f, b, i)) \cup live

\* The transfer function of one instruction, in the order of the source:
\* uses are added before definitions are removed.
live_before_instr(f, b, i, live) ==
  (ToSet(InstrUses(f, b, i)) \cup live) \ InstrDefs(f, b, i)

\* Liveness before every instruction of b, from the liveness after it.
per_stmt(f, b, out) ==
  LET n == InstrCount(f, b)
      before[i \in 1..n] ==
        live_before_instr(f, b, i, IF i = n THEN out ELSE before[i + 1])
  IN  [i \in 1..n |-> before[i]]

\* How often local l occurs as a use in the whole function.
use_counts(f, l) ==
  LET block_uses(b) == FlattenSeq([i \in 1..InstrCount(f, b) |-> InstrUses(f, b, i)])
      all == FlattenSeq([b \in Blocks(f) |-> block_uses(b)])
  IN  Len(SelectSeq(all, LAMBDA u : u = l))

\* The roots of the places passed directly as call arguments.
call_arg_uses(f) ==
  {o.place.root : o \in {o \in UNION {ToSet(Tail(t.operands)) :
                             t \in {Term(f, b) : b \in {b \in Blocks(f) : Term(f, b).tm = "call"}}} :
                          IsPlaceOperand(o)}} \ f.statics

\* Liveness at block entry after n rounds that visit every block; a fact moves
\* one block backwards per round, so one round per block reaches them all.
live_in_after(f) ==
  LET out(in, b) == UNION {in[s] : s \in successors(f, b)}
      round[n \in 0..Len(f.blocks) + 1] ==
        IF n = 0 THEN [b \in Blocks(f) |-> {}]
        ELSE LET in == round[n - 1]
             IN  [b \in Blocks(f) |-> per_stmt(f, b, out(in, b))[1]]
  IN  round[Len(f.blocks) + 1]

\* live_out and live_before of every block, and the locals whose only use is as
\* a direct call argument.
compute_liveness(f) ==
  LET in == live_in_after(f)
      out == [b \in Blocks(f) |-> UNION {in[s] : s \in successors(f, b)}]
  IN  [live_out |-> out,
       live_before |-> [b \in Blocks(f) |-> per_stmt(f, b, out[b])],
       call_once |-> {l \in call_arg_uses(f) : use_counts(f, l) = 1}]
=============================================================================
