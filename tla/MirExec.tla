------------------------------ MODULE MirExec ------------------------------
(***************************************************************************)
(* What a MIR function does when it runs, as code generation defines it    *)
(* (llvm_from_mir/src/{place,rvalue,stmt,func}.rs): every local is memory, *)
(* a place is an address computed by walking its projections and loading   *)
(* the reference at each Deref, a borrow is the address of its place, and  *)
(* the values passed along an edge are all read before any is bound.       *)
(*                                                                         *)
(* Beside the value, the memory of a reference remembers what the checker  *)
(* promises about it: which borrow it came from, whether it is exclusive,  *)
(* and whether an access that excludes it has happened since (stale).  A   *)
(* fault is a use the promise forbids: of uninitialised memory, of a stale *)
(* reference, or a returned reference to memory of the frame.              *)
(***************************************************************************)
EXTENDS LivenessOps

VARIABLES
  function,      \* the function that runs
  liveness,      \* its liveness: tells two-phase borrows
  run,           \* [block, index] of the next instruction; block 0 when stopped
  mem,           \* [cell -> value]
  faults         \* the faults of the run so far

execVars == <<run, mem, faults>>

Undef == [v |-> "undef"]
Data == [v |-> "data"]
RefValue(to, kind, tag, reserved) ==
  [v |-> "ref", to |-> to, kind |-> kind, tag |-> tag, reserved |-> reserved, stale |-> FALSE]
IsRef(val) == val.v = "ref"

\* The memory cells: every scalar or reference, and every field of a struct.
CellsOf(f, root) ==
  IF f.ty[root].ty = "struct"
  THEN {Field(Local(root), n) : n \in DOMAIN f.ty[root].fields}
  ELSE {Local(root)}
Cells(f) == UNION {CellsOf(f, r) : r \in f.locals \cup f.statics}
CellsUnder(m, p) == {c \in DOMAIN m : is_prefix(p, c)}

InitialMemory(f) ==
  [c \in Cells(f) |-> IF c.root \in f.params \cup f.statics THEN Data ELSE Undef]

(***************************************************************************)
(* Machine: [mem, faults].  gen_place walks a place to the cell it names,  *)
(* collecting the borrows it goes through.                                 *)
(***************************************************************************)
walk_step(m, w, st) ==
  IF st # DerefStep THEN [w EXCEPT !.addr = Project(@, st)]
  ELSE LET val == m.mem[w.addr]
       IN  IF IsRef(val)
           THEN [addr |-> val.to, via |-> w.via \cup {val.tag},
                 faults |-> w.faults \cup (IF val.stale THEN {"stale reference"} ELSE {})]
           ELSE [w EXCEPT !.faults = @ \cup {"uninitialised reference"}]

gen_place(m, p) ==
  FoldLeft(LAMBDA w, st : walk_step(m, w, st),
           [addr |-> Local(p.root), via |-> {}, faults |-> {}], p.proj)

Exclusive(mode) == mode \in {"write", "move", "borrow_mutable"}

\* An access excludes the references made by other borrows of that memory:
\* every one when it is exclusive, the active mutable ones when it is not.
Excluded(val, addr, via, mode) ==
  /\ IsRef(val)
  /\ val.tag \notin via
  /\ overlaps(addr, val.to)
  /\ Exclusive(mode) \/ (val.kind = "mutable" /\ ~val.reserved)

touch(m, addr, via, mode) ==
  [m EXCEPT !.mem =
     [c \in DOMAIN @ |-> IF Excluded(@[c], addr, via, mode) THEN [@[c] EXCEPT !.stale = TRUE] ELSE @[c]]]

access(m, p, mode) ==
  LET w == gen_place(m, p)
      cells == CellsUnder(m.mem, w.addr)
      unset == mode # "write" /\ \E c \in cells : m.mem[c] = Undef
      new == w.faults \cup (IF unset THEN {"uninitialised memory"} ELSE {})
      touched == touch([m EXCEPT !.faults = @ \cup new], w.addr, w.via, mode)
  IN  IF mode = "move"
      THEN [touched EXCEPT !.mem = [c \in DOMAIN @ |-> IF c \in cells THEN Undef ELSE @[c]]]
      ELSE touched

load(m, p) ==
  LET addr == gen_place(m, p).addr
  IN  IF addr \in DOMAIN m.mem THEN m.mem[addr] ELSE Data

store(m, p, val) ==
  LET written == access(m, p, "write")
      cells == CellsUnder(m.mem, gen_place(m, p).addr)
  IN  [written EXCEPT !.mem = [c \in DOMAIN @ |-> IF c \in cells THEN val ELSE @[c]]]

operand_value(m, o) == IF IsPlaceOperand(o) THEN load(m, o.place) ELSE Data
read_operand(m, o) ==
  IF IsPlaceOperand(o) THEN access(m, o.place, IF o.op = "move" THEN "move" ELSE "read") ELSE m
read_operands(m, os) == FoldLeft(read_operand, m, os)

(***************************************************************************)
(* Statements: the value first, then the store.                            *)
(***************************************************************************)
assign(m, dest, rv, loc) ==
  CASE rv.rv = "use" -> store(read_operand(m, rv.operand), dest, operand_value(m, rv.operand))
    [] rv.rv = "ref" ->
         LET reserved == rv.kind = "mutable" /\ IsRoot(dest) /\ dest.root \in liveness.call_once
             mode == IF rv.kind = "shared" THEN "read"
                     ELSE IF reserved THEN "read" ELSE "borrow_mutable"
         IN  store(access(m, rv.place, mode), dest,
                   RefValue(gen_place(m, rv.place).addr, rv.kind, loc, reserved))
    [] rv.rv = "len" -> store(access(m, rv.place, "read"), dest, Data)
    [] rv.rv = "ops" -> store(read_operands(m, rv.operands), dest, Data)

\* The memory of l ceases to be, and with it what refers to it.
storage(m, l) ==
  LET gone == touch(m, Local(l), {}, "write")
  IN  [gone EXCEPT !.mem = [c \in DOMAIN @ |-> IF c.root = l THEN Undef ELSE @[c]]]

gen_statement(m, st, loc) ==
  CASE st.st = "assign" -> assign(m, st.dest, st.rvalue, loc)
    [] st.st = "set_discriminant" -> store(m, st.place, Data)
    [] st.st \in {"storage_live", "storage_dead"} -> storage(m, st.local)

(***************************************************************************)
(* Terminators.                                                            *)
(***************************************************************************)
\* The callee uses every reference it is given, a mutable one exclusively.
use_argument(m, o) ==
  LET val == operand_value(m, o)
      old == IF IsRef(val) /\ val.stale THEN {"stale reference"} ELSE {}
      active == [m EXCEPT !.faults = @ \cup old,
                          !.mem = [c \in DOMAIN @ |-> IF IsRef(val) /\ IsRef(@[c]) /\ @[c].tag = val.tag
                                                      THEN [@[c] EXCEPT !.reserved = FALSE] ELSE @[c]]]
  IN  IF ~IsRef(val) THEN m
      ELSE touch(active, val.to, {val.tag}, IF val.kind = "mutable" THEN "write" ELSE "read")

call(m, t) ==
  LET args == FoldLeft(use_argument, read_operands(m, t.operands), Tail(t.operands))
  IN  FoldLeft(LAMBDA acc, p : store(acc, p, Data), args, t.dest)

\* A returned reference leaves the frame whose memory it may name.
return(m, os) ==
  LET vals == {operand_value(m, os[i]) : i \in DOMAIN os}
      left == {v \in vals : IsRef(v) /\ (v.stale \/ v.to.root \notin function.statics)}
      read == read_operands(m, os)
  IN  IF left = {} THEN read ELSE [read EXCEPT !.faults = @ \cup {"dangling return"}]

gen_terminator(m, t) ==
  CASE t.tm = "call" -> call(m, t)
    [] t.tm = "return" -> return(m, t.operands)
    [] OTHER -> read_operands(m, t.operands)

\* The values of an edge are read, then bound to the arguments of its target.
take_edge(m, e) ==
  LET vals == [i \in DOMAIN e.args |-> operand_value(m, e.args[i])]
      params == function.blocks[e.to].args
  IN  FoldLeft(LAMBDA acc, i : store(acc, Local(params[i]), vals[i]),
               read_operands(m, e.args), [i \in DOMAIN params |-> i])

ExecInit ==
  /\ run = [block |-> function.entry, index |-> 1]
  /\ mem = InitialMemory(function)
  /\ faults = {}

Machine == [mem |-> mem, faults |-> faults]
Becomes(m) == mem' = m.mem /\ faults' = m.faults

ExecStatement ==
  /\ run.block # 0
  /\ run.index <= Len(Stmts(function, run.block))
  /\ Becomes(gen_statement(Machine, Stmts(function, run.block)[run.index], <<run.block, run.index>>))
  /\ run' = [run EXCEPT !.index = @ + 1]

\* Which edge a branch takes depends on data the model leaves out.
ExecTerminator ==
  /\ run.block # 0
  /\ run.index = InstrCount(function, run.block)
  /\ LET t == Term(function, run.block)
         after == gen_terminator(Machine, t)
     IN  \/ \E i \in DOMAIN t.edges :
              /\ Becomes(take_edge(after, t.edges[i]))
              /\ run' = [block |-> t.edges[i].to, index |-> 1]
         \/ /\ t.edges = << >>
            /\ Becomes(after)
            /\ run' = [run EXCEPT !.block = 0]

ExecStep == ExecStatement \/ ExecTerminator
=============================================================================
