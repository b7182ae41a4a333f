---------------------------- MODULE BorrowRules ----------------------------
(***************************************************************************)
(* What one MIR instruction does to the borrow checker's dataflow state    *)
(* (mir_borrow_check/src/check.rs), as operators on that state:            *)
(*   borrows  active borrows [idx, kind, source, holders, two_phase,       *)
(*            activated]; idx is the creation order, holders a set         *)
(*   moved    places moved from on some path                               *)
(*   uninit   places possibly uninitialised on some path                   *)
(* joined with what the checker keeps beside it while it walks a block:    *)
(*   errors   the violations reported, one per location and kind           *)
(*   next     next_borrow_idx                                              *)
(* The wording of diagnostics is left out: an error is its kind, the place *)
(* and the location.                                                       *)
(***************************************************************************)
EXTENDS LivenessOps

Shared == "shared"
Mutable == "mutable"

EmptyState == [borrows |-> {}, moved |-> {}, uninit |-> {}]

report(s, kind, p, loc) == [s EXCEPT !.errors = @ \cup {[kind |-> kind, place |-> p, loc |-> loc]}]
report_if(cond, s, kind, p, loc) == IF cond THEN report(s, kind, p, loc) ELSE s

find_moved(s, p) == \E m \in s.moved : is_prefix(m, p)
find_uninit(s, p) == \E a \in init_chain(p) : a \in s.uninit

mark_initialized(s, p) ==
  [s EXCEPT !.moved = {m \in @ : ~is_prefix(p, m)},
            !.uninit = {u \in @ : ~is_prefix(p, u)}]

\* The borrows that the access to p may touch.
Conflicting(s, p) == {br \in s.borrows : overlaps(p, br.source)}
Exclusive(br) == br.kind = Mutable /\ br.activated

(***************************************************************************)
(* Accesses.                                                               *)
(***************************************************************************)
\* The use of moved memory takes precedence over the use of uninitialised one.
check_usable(s, p, loc, if_moved, if_uninit) ==
  IF find_moved(s, p) THEN report(s, if_moved, p, loc)
  ELSE report_if(find_uninit(s, p), s, if_uninit, p, loc)

read_place(s, p, loc, move_out) ==
  LET usable == check_usable(s, p, loc, "UseAfterMove", "UseBeforeInit")
      checked ==
        IF move_out
        THEN report_if(Conflicting(s, p) # {}, usable, "MoveWhileBorrowed", p, loc)
        ELSE report_if(\E br \in Conflicting(s, p) : Exclusive(br),
                       usable, "ReadWhileMutablyBorrowed", p, loc)
  IN  IF move_out
      THEN [checked EXCEPT !.moved = @ \cup {p}, !.uninit = @ \cup {p}]
      ELSE checked

\* Mutant of write_place: borrows do not forbid a write.
mutant_write_ignores_borrows(s, p, loc) ==
  report_if((init_chain(p) \ {p}) \cap s.moved # {}, s, "AssignToMoved", p, loc)

\* Writing into a moved parent is an error; writing the moved place itself
\* initialises it again.
write_place(s, p, loc) ==
  LET borrowed == report_if(Conflicting(s, p) # {}, s, "WriteWhileBorrowed", p, loc)
  IN  report_if((init_chain(p) \ {p}) \cap s.moved # {}, borrowed, "AssignToMoved", p, loc)

is_two_phase(lv, dest) == IsRoot(dest) /\ dest.root \in lv.call_once

borrow_place(f, lv, s, kind, p, dest, loc) ==
  LET usable == check_usable(s, p, loc, "BorrowOfMoved", "BorrowOfUninit")
      allowed == report_if(kind = Mutable /\ ~is_place_mutable(f, p),
                           usable, "MutableBorrowOfImmutable", p, loc)
      checked ==
        IF kind = Mutable
        THEN report_if(Conflicting(s, p) # {}, allowed, "MutableBorrowConflict", p, loc)
        ELSE report_if(\E br \in Conflicting(s, p) : Exclusive(br),
                       allowed, "SharedBorrowConflict", p, loc)
      two_phase == kind = Mutable /\ is_two_phase(lv, dest)
  IN  [checked EXCEPT
         !.next = @ + 1,
         !.borrows = @ \cup {[idx |-> s.next, kind |-> kind, source |-> p,
                              holders |-> {dest}, two_phase |-> two_phase,
                              activated |-> ~two_phase]}]

process_operand(s, o, loc) ==
  IF IsPlaceOperand(o) THEN read_place(s, o.place, loc, o.op = "move") ELSE s

process_operands(s, os, loc) == FoldLeft(LAMBDA acc, o : process_operand(acc, o, loc), s, os)

(***************************************************************************)
(* Holders: the places that store the value of a borrow.                   *)
(***************************************************************************)
\* Drop the holders that fail keep, then the borrows left without one.
RetainHolders(borrows, keep(_)) ==
  {br \in {[b EXCEPT !.holders = {h \in @ : keep(h)}] : b \in borrows} : br.holders # {}}

apply_kills(f, s, live) ==
  [s EXCEPT !.borrows =
     RetainHolders(@, LAMBDA h : h.root \in f.statics \/ h.root \in live)]

kill_holders_overwritten(s, dest) ==
  [s EXCEPT !.borrows = RetainHolders(@, LAMBDA h : ~is_prefix(dest, h))]

kill_borrows_at_local(f, s, l) ==
  [s EXCEPT !.borrows =
     {br \in RetainHolders(@, LAMBDA h : h.root # l) : br.source.root # l}]

propagate_holders(s, src, dest) ==
  [s EXCEPT !.borrows =
     {IF src \in br.holders THEN [br EXCEPT !.holders = @ \cup {dest}] ELSE br : br \in @}]

propagate_operand(f, s, o, dest) ==
  IF IsPlaceOperand(o) /\ is_reference_typed(f, o.place)
  THEN propagate_holders(s, o.place, dest)
  ELSE s

\* Reference values passed along an edge are held by the block arguments.
propagate_edge_holders(f, s, b) ==
  LET bind(acc, e) ==
        FoldLeft(LAMBDA a, i : propagate_operand(f, a, e.args[i], Local(f.blocks[e.to].args[i])),
                 acc, [i \in DOMAIN e.args |-> i])
  IN  FoldLeft(bind, s, successor_edges(f, b))

(***************************************************************************)
(* Statements and terminators.                                             *)
(***************************************************************************)
process_rvalue(f, lv, s, rv, dest, loc) ==
  CASE rv.rv = "use" -> propagate_operand(f, process_operand(s, rv.operand, loc), rv.operand, dest)
    [] rv.rv = "ref" -> borrow_place(f, lv, s, rv.kind, rv.place, dest, loc)
    [] rv.rv = "len" -> read_place(s, rv.place, loc, FALSE)
    [] rv.rv = "ops" -> process_operands(s, rv.operands, loc)

\* The destination of a write: checked, then no longer a holder.
overwrite(s, p, loc) == kill_holders_overwritten(write_place(s, p, loc), p)

storage_marker(f, s, l) ==
  kill_borrows_at_local(f, [s EXCEPT !.uninit = @ \cup {Local(l)}], l)

process_statement(f, lv, s, st, loc) ==
  CASE st.st = "assign" ->
         mark_initialized(process_rvalue(f, lv, overwrite(s, st.dest, loc), st.rvalue, st.dest, loc),
                          st.dest)
    [] st.st = "set_discriminant" -> mark_initialized(overwrite(s, st.place, loc), st.place)
    [] st.st \in {"storage_live", "storage_dead"} -> storage_marker(f, s, st.local)

\* A two-phase borrow passed directly as an argument becomes exclusive here.
activate_two_phase_borrows(s, args, loc) ==
  LET places == {o.place : o \in {o \in ToSet(args) : IsPlaceOperand(o)}}
      reserved == {br \in s.borrows : br.two_phase /\ ~br.activated}
      to_activate == {br \in reserved : br.holders \cap places # {}}
      clashing == {br \in to_activate :
                     \E o \in s.borrows : o.idx # br.idx /\ overlaps(br.source, o.source)}
  IN  [s EXCEPT
         !.borrows = (@ \ to_activate) \cup {[br EXCEPT !.activated = TRUE] : br \in to_activate},
         !.errors = @ \cup {[kind |-> "TwoPhaseActivationConflict", place |-> br.source, loc |-> loc] :
                              br \in clashing}]

check_returned_borrow(f, s, os, loc) ==
  LET returned == {o.place : o \in {o \in ToSet(os) : IsPlaceOperand(o)}}
      escaping == {br \in s.borrows : br.holders \cap returned # {} /\ ~is_escapable(f, br.source)}
  IN  [s EXCEPT !.errors = @ \cup {[kind |-> "BorrowOfLocalEscape", place |-> br.source, loc |-> loc] :
                                     br \in escaping}]

process_terminator(f, s, t, loc) ==
  LET read == process_operands(s, t.operands, loc)
      returned == IF t.tm = "return" THEN check_returned_borrow(f, read, t.operands, loc) ELSE read
      activated == IF t.tm = "call" THEN activate_two_phase_borrows(returned, Tail(t.operands), loc)
                                    ELSE returned
      written == FoldLeft(LAMBDA acc, p : mark_initialized(overwrite(acc, p, loc), p), activated, t.dest)
  IN  process_operands(written, EdgeOperands(t.edges), loc)

(***************************************************************************)
(* The join: what the exit of a block adds to the entry of a successor.    *)
(* A borrow already there keeps its record and gains the holders.          *)
(***************************************************************************)
merged_borrows(entry, exit) ==
  LET known == {br.idx : br \in entry.borrows}
      held(i) == UNION {br.holders : br \in {br \in exit.borrows : br.idx = i}}
  IN  {[br EXCEPT !.holders = @ \cup held(br.idx)] : br \in entry.borrows}
        \cup {br \in exit.borrows : br.idx \notin known}

\* Mutants of merge_state: the moved places of the exit replace those of the
\* entry; uninitialised places do not flow.
mutant_replaced_moves(entry, exit) ==
  [borrows |-> merged_borrows(entry, exit),
   moved |-> exit.moved,
   uninit |-> entry.uninit \cup exit.uninit]
mutant_uninit_stays(entry, exit) ==
  [borrows |-> merged_borrows(entry, exit),
   moved |-> entry.moved \cup exit.moved,
   uninit |-> entry.uninit]

merge_state(entry, exit) ==
  [borrows |-> merged_borrows(entry, exit),
   moved |-> entry.moved \cup exit.moved,
   uninit |-> entry.uninit \cup exit.uninit]

\* The block arguments of the target are bound on the edge.
bind_arguments(f, b, st) ==
  LET bound(p) == \E l \in ArgLocals(f, b) : is_prefix(Local(l), p)
  IN  [borrows |-> st.borrows,
       moved |-> {m \in st.moved : ~bound(m)},
       uninit |-> {u \in st.uninit : ~bound(u)}]
=============================================================================
