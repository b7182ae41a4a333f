------------------------- MODULE BorrowFlow_proofs -------------------------
(***************************************************************************)
(* Proofs about BorrowFlow, for every set of well-formed functions: the    *)
(* checker implements the analysis of Dataflow on moved and uninitialised  *)
(* places, and has its properties.  With what BorrowCheck_proofs shows of  *)
(* the borrows, it ends at a fixed point (EndsAtFixedPoint).               *)
(*                                                                         *)
(* The core is that a block transfers facts by gen and kill                *)
(* (BlockTransfers): whatever the block does to one place depends on that  *)
(* place alone, so the walk of a set of facts is the union of the walks of *)
(* its members and of nothing (WalkCarries).  It is shown of each          *)
(* operation of the checker, which only says what it does to the places,   *)
(* and carried through the loops by FoldFacts.                             *)
(*                                                                         *)
(* The invariant CheckerInv says of a block being walked that the state    *)
(* has the places that the same statements make of the entry's places      *)
(* alone, without its borrows: these do not matter for them.               *)
(***************************************************************************)
EXTENDS BorrowFlow, BorrowCheck_proofs, FiniteSetTheorems

(***************************************************************************)
(* States.                                                                 *)
(***************************************************************************)
\* t is a state with the same moved and uninitialised places as s.
SamePlaces(s, t) == IsState(t) /\ t.moved = s.moved /\ t.uninit = s.uninit

\* An error adds to the errors only (check.rs:813-819).
LEMMA ReportKeepsPlaces ==
  ASSUME NEW s, IsState(s), NEW cond, NEW kind, NEW p, NEW loc
  PROVE  SamePlaces(s, report_if(cond, s, kind, p, loc)) /\ SamePlaces(s, report(s, kind, p, loc))
BY DEF IsState, SamePlaces, report_if, report

\* The look-up of a moved or uninitialised place before a use changes no place
\* (check.rs:526-549).
LEMMA UsableKeepsPlaces ==
  ASSUME NEW s, IsState(s), NEW p, NEW loc, NEW kind, NEW other
  PROVE  SamePlaces(s, check_usable(s, p, loc, kind, other))
BY ReportKeepsPlaces DEF check_usable

\* Operations that keep the places compose.
LEMMA SameAgain ==
  ASSUME NEW s, NEW t, NEW u, SamePlaces(s, t), SamePlaces(t, u)
  PROVE  SamePlaces(s, u)
BY DEF SamePlaces

\* The places an operand moves out of.
MovedBy(o) == IF IsPlaceOperand(o) /\ o.op = "move" THEN {o.place} ELSE {}

\* t is a state with the places of s and those of P moved out of.
Moves(s, t, P) == IsState(t) /\ t.moved = s.moved \cup P /\ t.uninit = s.uninit \cup P

\* A read that moves its place out marks it moved and uninitialised, and nothing
\* else of the places (check.rs:525-583).
LEMMA ReadMoves ==
  ASSUME NEW s, IsState(s), NEW p, NEW loc, NEW move_out \in BOOLEAN
  PROVE  Moves(s, read_place(s, p, loc, move_out), IF move_out THEN {p} ELSE {})
<1> DEFINE usable == check_usable(s, p, loc, "UseAfterMove", "UseBeforeInit")
           checked ==
             IF move_out
             THEN report_if(Conflicting(s, p) # {}, usable, "MoveWhileBorrowed", p, loc)
             ELSE report_if(\E br \in Conflicting(s, p) : Exclusive(br),
                            usable, "ReadWhileMutablyBorrowed", p, loc)
<1>1. SamePlaces(s, usable)
  BY UsableKeepsPlaces
<1>2. SamePlaces(s, checked)
  <2>1. IsState(usable)
    BY <1>1 DEF SamePlaces
  <2>. HIDE DEF usable
  <2>2. SamePlaces(usable, checked)
    BY <2>1, ReportKeepsPlaces
  <2>. QED
    BY <1>1, <2>2, SameAgain
<1>3. read_place(s, p, loc, move_out) =
        IF move_out THEN [checked EXCEPT !.moved = @ \cup {p}, !.uninit = @ \cup {p}] ELSE checked
  BY DEF read_place
<1>. HIDE DEF checked
<1>. QED
  BY <1>2, <1>3 DEF SamePlaces, Moves, IsState

\* An operand marks what it moves, nothing when it copies or is a constant
\* (check.rs:458-464).
LEMMA OperandMoves ==
  ASSUME NEW s, IsState(s), NEW o, NEW loc
  PROVE  Moves(s, process_operand(s, o, loc), MovedBy(o))
<1>1. CASE IsPlaceOperand(o)
  <2>1. Moves(s, read_place(s, o.place, loc, o.op = "move"), IF o.op = "move" THEN {o.place} ELSE {})
    BY ReadMoves
  <2>. QED
    BY <1>1, <2>1 DEF process_operand, MovedBy
<1>2. CASE ~IsPlaceOperand(o)
  BY <1>2 DEF process_operand, MovedBy, Moves
<1>. QED
  BY <1>1, <1>2

(***************************************************************************)
(* The operands of an instruction.                                         *)
(***************************************************************************)
MovedByAll(os) == UNION {MovedBy(o) : o \in ToSet(os)}

\* A list of operands marks what any of them moves, in whatever order.
LEMMA OperandsMove ==
  ASSUME NEW s, IsState(s), NEW os, IsSequence(os), NEW loc
  PROVE  Moves(s, process_operands(s, os, loc), MovedByAll(os))
<1> DEFINE n == Len(os)
           Upto(i) == UNION {MovedBy(os[j]) : j \in 1..i}
<1>1. n \in Nat /\ DOMAIN os = 1..n
  BY DEF IsSequence
<1>2. PICK run : Operands!Iterates(0, 0, loc, s, os, n, run) /\ Operands!Fold(0, 0, loc, s, os) = run[n]
  BY <1>1, Operands!FoldIterates
<1>. HIDE DEF n
<1> DEFINE T == {i \in Nat : i <= n => Moves(s, run[i], Upto(i))}
<1>3. 0 \in T
  <2>1. run[0] = s
    BY <1>2 DEF Operands!Iterates
  <2>2. Upto(0) = {}
    OBVIOUS
  <2>. HIDE DEF Upto
  <2>. QED
    BY <2>1, <2>2 DEF Moves
<1>4. ASSUME NEW i \in Nat, i \in T PROVE i + 1 \in T
  <2>. SUFFICES ASSUME i + 1 <= n PROVE Moves(s, run[i + 1], Upto(i + 1))
    OBVIOUS
  <2>1. Moves(s, run[i], Upto(i)) /\ i \in 0..n-1
    BY <1>1, <1>4
  <2>2. run[i + 1] = process_operand(run[i], os[i + 1], loc)
    BY <1>2, <2>1 DEF Operands!Iterates, operand_step
  <2>3. Moves(run[i], run[i + 1], MovedBy(os[i + 1]))
    BY <2>1, <2>2, OperandMoves DEF Moves
  <2>4. Upto(i + 1) = Upto(i) \cup MovedBy(os[i + 1])
    OBVIOUS
  <2>. HIDE DEF Upto
  <2>. QED
    BY <2>1, <2>3, <2>4 DEF Moves
<1>. HIDE DEF T
<1>5. n \in T
  BY <1>1, <1>3, <1>4, Operands!Counting
<1>6. Moves(s, run[n], Upto(n))
  BY <1>1, <1>5 DEF T
<1>7. Upto(n) = MovedByAll(os)
  BY <1>1 DEF MovedByAll, ToSet
<1>. QED
  BY <1>2, <1>6, <1>7, OperandsFold

(***************************************************************************)
(* Statements.                                                             *)
(***************************************************************************)
\* A write to a place, before it is marked as initialised, changes errors and
\* holders only (check.rs:370-375, 589-621).
LEMMA OverwriteKeepsPlaces ==
  ASSUME NEW s, IsState(s), NEW p, NEW loc
  PROVE  SamePlaces(s, overwrite(s, p, loc))
<1>1. SamePlaces(s, write_place(s, p, loc))
  <2> DEFINE borrowed == report_if(Conflicting(s, p) # {}, s, "WriteWhileBorrowed", p, loc)
  <2>1. SamePlaces(s, borrowed)
    BY ReportKeepsPlaces
  <2>2. write_place(s, p, loc) =
          report_if((init_chain(p) \ {p}) \cap s.moved # {}, borrowed, "AssignToMoved", p, loc)
    BY DEF write_place
  <2>. HIDE DEF borrowed
  <2>3. SamePlaces(borrowed, write_place(s, p, loc))
    BY <2>1, <2>2, ReportKeepsPlaces DEF SamePlaces
  <2>. QED
    BY <2>1, <2>3, SameAgain
<1>2. SamePlaces(write_place(s, p, loc), overwrite(s, p, loc))
  BY <1>1 DEF overwrite, kill_holders_overwritten, SamePlaces, IsState
<1>. QED
  BY <1>1, <1>2, SameAgain

\* A borrow changes the borrows only (check.rs:623-703).
LEMMA BorrowKeepsPlaces ==
  ASSUME NEW f, NEW lv, NEW s, IsState(s), NEW kind, NEW p, NEW dest, NEW loc
  PROVE  SamePlaces(s, borrow_place(f, lv, s, kind, p, dest, loc))
<1> DEFINE usable == check_usable(s, p, loc, "BorrowOfMoved", "BorrowOfUninit")
           allowed == report_if(kind = Mutable /\ ~is_place_mutable(f, p),
                                usable, "MutableBorrowOfImmutable", p, loc)
           checked ==
             IF kind = Mutable
             THEN report_if(Conflicting(s, p) # {}, allowed, "MutableBorrowConflict", p, loc)
             ELSE report_if(\E br \in Conflicting(s, p) : Exclusive(br),
                            allowed, "SharedBorrowConflict", p, loc)
           two_phase == kind = Mutable /\ is_two_phase(lv, dest)
           made == {[idx |-> s.next, kind |-> kind, source |-> p, holders |-> {dest},
                     two_phase |-> two_phase, activated |-> ~two_phase]}
<1>1. borrow_place(f, lv, s, kind, p, dest, loc) =
        [checked EXCEPT !.next = @ + 1, !.borrows = @ \cup made]
  BY DEF borrow_place
<1>2. SamePlaces(s, usable)
  BY UsableKeepsPlaces
<1>. HIDE DEF made, two_phase
<1>3. SamePlaces(s, allowed)
  <2>. HIDE DEF usable
  <2>1. SamePlaces(usable, allowed)
    BY <1>2, ReportKeepsPlaces DEF SamePlaces
  <2>. HIDE DEF allowed
  <2>. QED
    BY <1>2, <2>1, SameAgain
<1>4. SamePlaces(s, checked)
  <2>. HIDE DEF allowed
  <2>2. IsState(allowed)
    BY <1>3 DEF SamePlaces
  <2>3. \/ checked = allowed
        \/ \E error : checked = report(allowed, error, p, loc)
    BY DEF report_if
  <2>1. SamePlaces(allowed, checked)
    <3>. HIDE DEF checked
    <3>. QED
      BY <2>2, <2>3, ReportKeepsPlaces DEF SamePlaces
  <2>. HIDE DEF checked
  <2>. QED
    BY <1>3, <2>1, SameAgain
<1>. HIDE DEF checked
<1>. QED
  BY <1>1, <1>4 DEF SamePlaces, IsState

\* The places an rvalue moves out of.
MovedByRvalue(rv) ==
  IF rv.rv = "use" THEN MovedBy(rv.operand)
  ELSE IF rv.rv = "ops" THEN MovedByAll(rv.operands) ELSE {}

\* A reference that is handed on changes holders only (check.rs:786-792).
LEMMA PropagateKeepsPlaces ==
  ASSUME NEW f, NEW s, IsState(s), NEW o, NEW dest
  PROVE  SamePlaces(s, propagate_operand(f, s, o, dest))
BY DEF propagate_operand, propagate_holders, SamePlaces, IsState

\* A right-hand side marks what its operands move; a borrow and a length move
\* nothing (check.rs:420-456).
LEMMA RvalueMoves ==
  ASSUME NEW f, NEW lv, NEW s, IsState(s), NEW rv, NEW dest, NEW loc,
         rv.rv \in {"use", "ref", "len", "ops"}, rv.rv = "ops" => IsSequence(rv.operands)
  PROVE  Moves(s, process_rvalue(f, lv, s, rv, dest, loc), MovedByRvalue(rv))
<1>1. CASE rv.rv = "use"
  <2> DEFINE read == process_operand(s, rv.operand, loc)
  <2>1. Moves(s, read, MovedBy(rv.operand))
    BY OperandMoves
  <2>2. process_rvalue(f, lv, s, rv, dest, loc) = propagate_operand(f, read, rv.operand, dest)
    BY <1>1 DEF process_rvalue
  <2>. HIDE DEF read
  <2>3. SamePlaces(read, propagate_operand(f, read, rv.operand, dest))
    BY <2>1, PropagateKeepsPlaces DEF Moves
  <2>. QED
    BY <1>1, <2>1, <2>2, <2>3 DEF Moves, SamePlaces, MovedByRvalue
<1>2. CASE rv.rv = "ref"
  <2>1. process_rvalue(f, lv, s, rv, dest, loc) = borrow_place(f, lv, s, rv.kind, rv.place, dest, loc)
    BY <1>2 DEF process_rvalue
  <2>. QED
    BY <1>2, <2>1, BorrowKeepsPlaces DEF Moves, SamePlaces, MovedByRvalue
<1>3. CASE rv.rv = "len"
  <2>1. process_rvalue(f, lv, s, rv, dest, loc) = read_place(s, rv.place, loc, FALSE)
    BY <1>3 DEF process_rvalue
  <2>2. Moves(s, read_place(s, rv.place, loc, FALSE), IF FALSE THEN {rv.place} ELSE {})
    BY ReadMoves
  <2>. QED
    BY <1>3, <2>1, <2>2 DEF MovedByRvalue
<1>4. CASE rv.rv = "ops"
  <2>1. process_rvalue(f, lv, s, rv, dest, loc) = process_operands(s, rv.operands, loc)
    BY <1>4 DEF process_rvalue
  <2>. QED
    BY <1>4, <2>1, OperandsMove DEF MovedByRvalue
<1>. QED
  BY <1>1, <1>2, <1>3, <1>4

\* What a statement does to a set of places: it moves out of some, initialises
\* what it writes, and marks a local uninitialised.
Initialised(p, P) == {q \in P : ~is_prefix(p, q)}

MovedAfter(st, P) ==
  IF st.st = "assign" THEN Initialised(st.dest, P \cup MovedByRvalue(st.rvalue))
  ELSE IF st.st = "set_discriminant" THEN Initialised(st.place, P) ELSE P

UninitAfter(st, P) ==
  IF st.st \in {"assign", "set_discriminant"} THEN MovedAfter(st, P) ELSE P \cup {Local(st.local)}

\* t is a state whose places are those of s after statement st.
StepsPlaces(s, t, st) ==
  IsState(t) /\ t.moved = MovedAfter(st, s.moved) /\ t.uninit = UninitAfter(st, s.uninit)

\* A place that is written loses the marks of itself and of what lies in it
\* (check.rs:779-782).
LEMMA MarkInitialises ==
  ASSUME NEW s, IsState(s), NEW p
  PROVE  /\ IsState(mark_initialized(s, p))
         /\ mark_initialized(s, p).moved = Initialised(p, s.moved)
         /\ mark_initialized(s, p).uninit = Initialised(p, s.uninit)
<1> DEFINE M == {m \in s.moved : ~is_prefix(p, m)}
           U == {u \in s.uninit : ~is_prefix(p, u)}
<1>1. M = Initialised(p, s.moved) /\ U = Initialised(p, s.uninit)
  BY DEF Initialised
<1>2. mark_initialized(s, p) = [s EXCEPT !.moved = M, !.uninit = U]
  BY DEF mark_initialized
<1>. HIDE DEF M, U
<1>. QED
  BY <1>1, <1>2 DEF IsState

\* What a statement does to the places depends on nothing but the places
\* (check.rs:393-418).
LEMMA StatementPlaces ==
  ASSUME NEW f, NEW lv, NEW s, IsState(s), NEW st, IsStatement(st), NEW loc
  PROVE  StepsPlaces(s, process_statement(f, lv, s, st, loc), st)
<1> DEFINE result == process_statement(f, lv, s, st, loc)
<1>1. CASE st.st = "assign"
  <2> DEFINE over == overwrite(s, st.dest, loc)
             value == process_rvalue(f, lv, over, st.rvalue, st.dest, loc)
  <2>1. SamePlaces(s, over)
    BY OverwriteKeepsPlaces
  <2>2. result = mark_initialized(value, st.dest)
    BY <1>1 DEF process_statement
  <2>. HIDE DEF over
  <2>3. Moves(over, value, MovedByRvalue(st.rvalue))
    BY <1>1, <2>1, RvalueMoves DEF SamePlaces, IsStatement
  <2>. HIDE DEF value, result
  <2>4. /\ IsState(result)
        /\ result.moved = Initialised(st.dest, value.moved)
        /\ result.uninit = Initialised(st.dest, value.uninit)
    BY <2>2, <2>3, MarkInitialises DEF Moves
  <2>5. value.moved = s.moved \cup MovedByRvalue(st.rvalue)
        /\ value.uninit = s.uninit \cup MovedByRvalue(st.rvalue)
    BY <2>1, <2>3 DEF Moves, SamePlaces
  <2>. QED
    BY <1>1, <2>4, <2>5 DEF StepsPlaces, MovedAfter, UninitAfter, result
<1>2. CASE st.st = "set_discriminant"
  <2> DEFINE over == overwrite(s, st.place, loc)
  <2>1. SamePlaces(s, over)
    BY OverwriteKeepsPlaces
  <2>2. result = mark_initialized(over, st.place)
    BY <1>2 DEF process_statement
  <2>. HIDE DEF over, result
  <2>3. /\ IsState(result)
        /\ result.moved = Initialised(st.place, over.moved)
        /\ result.uninit = Initialised(st.place, over.uninit)
    BY <2>1, <2>2, MarkInitialises DEF SamePlaces
  <2>. QED
    BY <1>2, <2>1, <2>3 DEF StepsPlaces, MovedAfter, UninitAfter, SamePlaces, result
<1>3. CASE st.st \in {"storage_live", "storage_dead"}
  <2>1. result = storage_marker(f, s, st.local)
    BY <1>3 DEF process_statement
  <2>. HIDE DEF result
  <2>2. IsState(result) /\ result.moved = s.moved /\ result.uninit = s.uninit \cup {Local(st.local)}
    BY <2>1 DEF storage_marker, kill_borrows_at_local, IsState
  <2>. QED
    BY <1>3, <2>2 DEF StepsPlaces, MovedAfter, UninitAfter, result
<1>. QED
  BY <1>1, <1>2, <1>3 DEF IsStatement

\* Ending the borrows that no live local holds changes no place (check.rs:354-367).
LEMMA KillsKeepPlaces ==
  ASSUME NEW f, NEW s, IsState(s), NEW live
  PROVE  SamePlaces(s, apply_kills(f, s, live))
BY DEF apply_kills, SamePlaces, IsState

\* The same of a statement with the kills after it (check.rs:239-245).
LEMMA WalkStatementPlaces ==
  ASSUME NEW f, NEW lv, NEW s, IsState(s), NEW b, NEW i, IsStatement(Stmts(f, b)[i])
  PROVE  StepsPlaces(s, walk_statement(f, lv, s, b, i), Stmts(f, b)[i])
<1> DEFINE done == process_statement(f, lv, s, Stmts(f, b)[i], <<b, i>>)
<1>1. StepsPlaces(s, done, Stmts(f, b)[i])
  BY StatementPlaces
<1>2. walk_statement(f, lv, s, b, i) = apply_kills(f, done, lv.live_before[b][i + 1])
  BY DEF walk_statement
<1>. HIDE DEF done
<1>3. SamePlaces(done, walk_statement(f, lv, s, b, i))
  BY <1>1, <1>2, KillsKeepPlaces DEF StepsPlaces
<1>. QED
  BY <1>1, <1>3 DEF StepsPlaces, SamePlaces

(***************************************************************************)
(* Terminators.                                                            *)
(***************************************************************************)
InitialisedAll(ps, P) == {q \in P : \A p \in ToSet(ps) : ~is_prefix(p, q)}

\* t is a state with the places of s, but for those that ps initialises.
Writes(s, t, ps) ==
  IsState(t) /\ t.moved = InitialisedAll(ps, s.moved) /\ t.uninit = InitialisedAll(ps, s.uninit)

\* It initialises the destination of the call, when there is one.
LEMMA DestsWrite ==
  ASSUME NEW s, IsState(s), NEW ps, IsSequence(ps), NEW loc
  PROVE  Writes(s, Dests!Fold(0, 0, loc, s, ps), ps)
<1> DEFINE n == Len(ps)
           Upto(i, P) == {q \in P : \A j \in 1..i : ~is_prefix(ps[j], q)}
           W(i, t) == /\ IsState(t) /\ t.moved = Upto(i, s.moved) /\ t.uninit = Upto(i, s.uninit)
<1>1. n \in Nat /\ DOMAIN ps = 1..n
  BY DEF IsSequence
<1>2. PICK run : Dests!Iterates(0, 0, loc, s, ps, n, run) /\ Dests!Fold(0, 0, loc, s, ps) = run[n]
  BY <1>1, Dests!FoldIterates
<1>. HIDE DEF n
<1> DEFINE T == {i \in Nat : i <= n => W(i, run[i])}
<1>3. 0 \in T
  <2>1. run[0] = s
    BY <1>2 DEF Dests!Iterates
  <2>2. \A P : Upto(0, P) = P
    OBVIOUS
  <2>. HIDE DEF Upto
  <2>. QED
    BY <2>1, <2>2
<1>4. ASSUME NEW i \in Nat, i \in T PROVE i + 1 \in T
  <2>. SUFFICES ASSUME i + 1 <= n PROVE W(i + 1, run[i + 1])
    OBVIOUS
  <2>1. W(i, run[i]) /\ i \in 0..n-1
    BY <1>1, <1>4
  <2> DEFINE over == overwrite(run[i], ps[i + 1], loc)
  <2>2. run[i + 1] = mark_initialized(over, ps[i + 1])
    BY <1>2, <2>1 DEF Dests!Iterates, dest_step
  <2>3. SamePlaces(run[i], over)
    BY <2>1, OverwriteKeepsPlaces
  <2>4. \A P : Upto(i + 1, P) = Initialised(ps[i + 1], Upto(i, P))
    BY DEF Initialised
  <2>. HIDE DEF Upto, over
  <2>5. /\ IsState(run[i + 1])
        /\ run[i + 1].moved = Initialised(ps[i + 1], over.moved)
        /\ run[i + 1].uninit = Initialised(ps[i + 1], over.uninit)
    BY <2>2, <2>3, MarkInitialises DEF SamePlaces
  <2>. QED
    BY <2>1, <2>3, <2>4, <2>5 DEF SamePlaces
<1>. HIDE DEF T
<1>5. n \in T
  BY <1>1, <1>3, <1>4, Operands!Counting
<1>6. W(n, run[n])
  BY <1>1, <1>5 DEF T
<1>7. \A P : Upto(n, P) = InitialisedAll(ps, P)
  BY <1>1 DEF InitialisedAll, ToSet
<1>. QED
  BY <1>2, <1>6, <1>7 DEF Writes

\* The check of a returned borrow and the activation of two-phase borrows change no
\* place (check.rs:709-765).
LEMMA ChecksKeepPlaces ==
  ASSUME NEW f, NEW s, IsState(s), NEW os, NEW loc
  PROVE  /\ SamePlaces(s, check_returned_borrow(f, s, os, loc))
         /\ SamePlaces(s, activate_two_phase_borrows(s, os, loc))
<1>1. \E errors : check_returned_borrow(f, s, os, loc) = [s EXCEPT !.errors = errors]
  BY DEF check_returned_borrow
<1>2. \E borrows, errors : activate_two_phase_borrows(s, os, loc) =
                           [s EXCEPT !.borrows = borrows, !.errors = errors]
  BY DEF activate_two_phase_borrows
<1>. QED
  BY <1>1, <1>2 DEF SamePlaces, IsState

\* What a terminator does to a set of places: the operands are moved out of, the
\* destination of a call initialised, and the operands of the edges moved out of.
PlacesAfter(t, P) ==
  InitialisedAll(t.dest, P \cup MovedByAll(t.operands)) \cup MovedByAll(EdgeOperands(t.edges))

\* What a terminator does to the places depends on nothing but the places
\* (check.rs:467-517).
LEMMA TerminatorPlaces ==
  ASSUME NEW f, NEW s, IsState(s), NEW t, IsTerminator(t), NEW loc
  PROVE  LET r == process_terminator(f, s, t, loc)
         IN  /\ IsState(r)
             /\ r.moved = PlacesAfter(t, s.moved)
             /\ r.uninit = PlacesAfter(t, s.uninit)
<1> DEFINE read == process_operands(s, t.operands, loc)
           returned == IF t.tm = "return" THEN check_returned_borrow(f, read, t.operands, loc) ELSE read
           activated == IF t.tm = "call"
                        THEN activate_two_phase_borrows(returned, Tail(t.operands), loc)
                        ELSE returned
           written == Dests!Fold(0, 0, loc, activated, t.dest)
           result == process_operands(written, EdgeOperands(t.edges), loc)
<1>1. Moves(s, read, MovedByAll(t.operands))
  BY OperandsMove DEF IsTerminator
<1>2. SamePlaces(read, returned)
  <2>. HIDE DEF read
  <2>. QED
    BY <1>1, ChecksKeepPlaces DEF Moves, SamePlaces
<1>3. SamePlaces(returned, activated)
  <2>. HIDE DEF returned
  <2>. QED
    BY <1>2, ChecksKeepPlaces DEF SamePlaces
<1>4. Writes(activated, written, t.dest)
  <2>. HIDE DEF activated
  <2>. QED
    BY <1>3, DestsWrite DEF SamePlaces, IsTerminator
<1>5. Moves(written, result, MovedByAll(EdgeOperands(t.edges)))
  <2>. HIDE DEF written
  <2>. QED
    BY <1>4, OperandsMove, EdgeOperandsAreSequence DEF Writes
<1>6. process_terminator(f, s, t, loc) = result
  BY DestsFold DEF process_terminator
<1>. HIDE DEF read, returned, activated, written, result
<1>. QED
  BY <1>1, <1>2, <1>3, <1>4, <1>5, <1>6 DEF Moves, SamePlaces, Writes, PlacesAfter

(***************************************************************************)
(* The edges of a block.                                                   *)
(***************************************************************************)
\* The references that an edge passes on change no place.
LEMMA ArgumentsKeepPlaces ==
  ASSUME NEW f, NEW e, NEW s, IsState(s), IsSequence(e.args)
  PROVE  SamePlaces(s, Arguments!Fold(f, e, 0, s, indices(e.args)))
<1> DEFINE n == Len(e.args)
           q == indices(e.args)
<1>1. n \in Nat /\ DOMAIN q = 1..n
  BY DEF IsSequence, indices
<1>. HIDE DEF n, q
<1>2. PICK run : Arguments!Iterates(f, e, 0, s, q, n, run) /\ Arguments!Fold(f, e, 0, s, q) = run[n]
  BY <1>1, Arguments!FoldIterates
<1> DEFINE T == {i \in Nat : i <= n => SamePlaces(s, run[i])}
<1>3. 0 \in T
  BY <1>2 DEF Arguments!Iterates, SamePlaces
<1>4. ASSUME NEW i \in Nat, i \in T PROVE i + 1 \in T
  <2>. SUFFICES ASSUME i + 1 <= n PROVE SamePlaces(s, run[i + 1])
    OBVIOUS
  <2>1. SamePlaces(s, run[i]) /\ i \in 0..n-1
    BY <1>1, <1>4
  <2>2. SamePlaces(run[i], run[i + 1])
    BY <1>2, <2>1, PropagateKeepsPlaces DEF Arguments!Iterates, argument_step, SamePlaces
  <2>. QED
    BY <2>1, <2>2, SameAgain
<1>. HIDE DEF T
<1>5. n \in T
  BY <1>1, <1>3, <1>4, Operands!Counting
<1>. QED
  BY <1>1, <1>2, <1>5 DEF T, q

\* Nor do those of all the edges of a block.
LEMMA EdgesKeepPlaces ==
  ASSUME NEW f, NEW s, IsState(s), NEW b, IsTerminator(Term(f, b))
  PROVE  SamePlaces(s, propagate_edge_holders(f, s, b))
<1> DEFINE q == successor_edges(f, b)
           n == Len(q)
<1>1. n \in Nat /\ DOMAIN q = 1..n /\ \A i \in 1..n : IsSequence(q[i].args)
  <2>1. IsSequence(q) /\ \A e \in ToSet(q) : IsSequence(e.args)
    BY DEF IsTerminator, successor_edges
  <2>. HIDE DEF q
  <2>2. n \in Nat /\ DOMAIN q = 1..n
    BY <2>1, SequenceFacts
  <2>. QED
    BY <2>1, <2>2 DEF ToSet
<1>. HIDE DEF n, q
<1>2. PICK run : Edges!Iterates(f, 0, 0, s, q, n, run) /\ Edges!Fold(f, 0, 0, s, q) = run[n]
  BY <1>1, Edges!FoldIterates
<1> DEFINE T == {i \in Nat : i <= n => SamePlaces(s, run[i])}
<1>3. 0 \in T
  BY <1>2 DEF Edges!Iterates, SamePlaces
<1>4. ASSUME NEW i \in Nat, i \in T PROVE i + 1 \in T
  <2>. SUFFICES ASSUME i + 1 <= n PROVE SamePlaces(s, run[i + 1])
    OBVIOUS
  <2>1. SamePlaces(s, run[i]) /\ i \in 0..n-1 /\ IsSequence(q[i + 1].args)
    BY <1>1, <1>4
  <2>2. run[i + 1] = Arguments!Fold(f, q[i + 1], 0, run[i], indices(q[i + 1].args))
    BY <1>2, <2>1, ArgumentsFold DEF Edges!Iterates, edge_step, indices
  <2>3. SamePlaces(run[i], run[i + 1])
    BY <2>1, <2>2, ArgumentsKeepPlaces DEF SamePlaces
  <2>. QED
    BY <2>1, <2>3, SameAgain
<1>. HIDE DEF T
<1>5. n \in T
  BY <1>1, <1>3, <1>4, Operands!Counting
<1>. QED
  BY <1>1, <1>2, <1>5, EdgesFold DEF T, q

\* A terminator with the edges and the kills after it (check.rs:246-257).
LEMMA WalkTerminatorPlaces ==
  ASSUME NEW f, NEW lv, NEW s, IsState(s), NEW b, IsTerminator(Term(f, b))
  PROVE  LET r == walk_terminator(f, lv, s, b)
         IN  /\ IsState(r)
             /\ r.moved = PlacesAfter(Term(f, b), s.moved)
             /\ r.uninit = PlacesAfter(Term(f, b), s.uninit)
<1> DEFINE after == process_terminator(f, s, Term(f, b), <<b, InstrCount(f, b)>>)
           held == propagate_edge_holders(f, after, b)
<1>1. /\ IsState(after)
      /\ after.moved = PlacesAfter(Term(f, b), s.moved)
      /\ after.uninit = PlacesAfter(Term(f, b), s.uninit)
  BY TerminatorPlaces
<1>2. walk_terminator(f, lv, s, b) = apply_kills(f, held, lv.live_out[b])
  BY DEF walk_terminator
<1>. HIDE DEF after
<1>3. SamePlaces(after, held)
  BY <1>1, EdgesKeepPlaces
<1>. HIDE DEF held
<1>4. SamePlaces(held, walk_terminator(f, lv, s, b))
  BY <1>2, <1>3, KillsKeepPlaces DEF SamePlaces
<1>. QED
  BY <1>1, <1>3, <1>4 DEF SamePlaces

(***************************************************************************)
(* A block.                                                                *)
(***************************************************************************)
\* Fact k of s is one of t.
Carries(s, t, k) == IsState(s) /\ IsState(t) /\ (k \in FactsOf(s) => k \in FactsOf(t))

\* A fact that t has if s has it: after the same statement of both it still is, for a
\* statement decides about a place without a look at the others.
LEMMA StatementCarries ==
  ASSUME NEW s, NEW t, NEW k, Carries(s, t, k), NEW u, NEW v, NEW st,
         StepsPlaces(s, u, st), StepsPlaces(t, v, st)
  PROVE  Carries(u, v, k)
<1>1. CASE k \notin FactsOf(u)
  BY <1>1 DEF Carries, StepsPlaces
<1>2. CASE k \in FactsOf(u)
  <2>1. CASE \E q \in u.moved : k = <<"moved", q>>
    <3>1. PICK q \in u.moved : k = <<"moved", q>>
      BY <2>1
    <3>2. q \in s.moved => q \in t.moved
      BY <3>1 DEF Carries, FactsOf
    <3>3. q \in MovedAfter(st, s.moved)
      BY <3>1 DEF StepsPlaces
    <3>4. q \in MovedAfter(st, t.moved)
      BY <3>2, <3>3 DEF MovedAfter, Initialised
    <3>. QED
      BY <3>1, <3>4 DEF StepsPlaces, Carries, FactsOf
  <2>2. CASE \E q \in u.uninit : k = <<"uninit", q>>
    <3>1. PICK q \in u.uninit : k = <<"uninit", q>>
      BY <2>2
    <3>2. q \in s.uninit => q \in t.uninit
      BY <3>1 DEF Carries, FactsOf
    <3>3. q \in UninitAfter(st, s.uninit)
      BY <3>1 DEF StepsPlaces
    <3>4. q \in UninitAfter(st, t.uninit)
      BY <3>2, <3>3 DEF UninitAfter, MovedAfter, Initialised
    <3>. QED
      BY <3>1, <3>4 DEF StepsPlaces, Carries, FactsOf
  <2>. QED
    BY <1>2, <2>1, <2>2 DEF FactsOf
<1>. QED
  BY <1>1, <1>2

\* The same of a terminator.
LEMMA TerminatorCarries ==
  ASSUME NEW f, NEW lv, NEW b, IsTerminator(Term(f, b)), NEW other,
         NEW s, NEW t, NEW k, Carries(s, t, k)
  PROVE  Carries(walk_terminator(f, lv, s, b), walk_terminator(f, other, t, b), k)
<1> DEFINE tm == Term(f, b)
           u == walk_terminator(f, lv, s, b)
           v == walk_terminator(f, other, t, b)
<1>1. /\ IsState(u) /\ u.moved = PlacesAfter(tm, s.moved) /\ u.uninit = PlacesAfter(tm, s.uninit)
      /\ IsState(v) /\ v.moved = PlacesAfter(tm, t.moved) /\ v.uninit = PlacesAfter(tm, t.uninit)
  BY WalkTerminatorPlaces DEF Carries
<1>. HIDE DEF u, v, tm
<1>2. ASSUME k \in FactsOf(u) PROVE k \in FactsOf(v)
  <2>1. CASE \E q \in u.moved : k = <<"moved", q>>
    <3>1. PICK q \in u.moved : k = <<"moved", q>>
      BY <2>1
    <3>2. q \in s.moved => q \in t.moved
      BY <3>1 DEF Carries, FactsOf
    <3>4. q \in PlacesAfter(tm, t.moved)
      BY <1>1, <3>1, <3>2 DEF PlacesAfter, InitialisedAll
    <3>. QED
      BY <1>1, <3>1, <3>4 DEF FactsOf
  <2>2. CASE \E q \in u.uninit : k = <<"uninit", q>>
    <3>1. PICK q \in u.uninit : k = <<"uninit", q>>
      BY <2>2
    <3>2. q \in s.uninit => q \in t.uninit
      BY <3>1 DEF Carries, FactsOf
    <3>4. q \in PlacesAfter(tm, t.uninit)
      BY <1>1, <3>1, <3>2 DEF PlacesAfter, InitialisedAll
    <3>. QED
      BY <1>1, <3>1, <3>4 DEF FactsOf
  <2>. QED
    BY <1>2, <2>1, <2>2 DEF FactsOf
<1>. QED
  BY <1>1, <1>2 DEF Carries, u, v

\* And of the walk of the statements of a block, whatever the liveness is.
LEMMA WalkCarries ==
  ASSUME NEW f \in Functions, NEW b \in Blocks(f), NEW lv, NEW other,
         NEW s, NEW t, NEW k, Carries(s, t, k)
  PROVE  \A n \in Nat : n <= Len(Stmts(f, b)) =>
           Carries(WalkUpto(f, lv, s, b, n), WalkUpto(f, other, t, b, n), k)
<1> DEFINE len == Len(Stmts(f, b))
           T == {n \in Nat : n <= len =>
                   Carries(WalkUpto(f, lv, s, b, n), WalkUpto(f, other, t, b, n), k)}
<1>1. len \in Nat /\ \A i \in 1..len : IsStatement(Stmts(f, b)[i])
  BY BlockParts
<1>. HIDE DEF len
<1>2. 0 \in T
  BY WalkStarts
<1>3. ASSUME NEW n \in Nat, n \in T PROVE n + 1 \in T
  <2>. SUFFICES ASSUME n + 1 <= len
                PROVE  Carries(WalkUpto(f, lv, s, b, n + 1), WalkUpto(f, other, t, b, n + 1), k)
    OBVIOUS
  <2> DEFINE u == WalkUpto(f, lv, s, b, n)
             v == WalkUpto(f, other, t, b, n)
             st == Stmts(f, b)[n + 1]
  <2>1. Carries(u, v, k) /\ IsStatement(st)
    BY <1>1, <1>3
  <2>2. /\ WalkUpto(f, lv, s, b, n + 1) = walk_statement(f, lv, u, b, n + 1)
        /\ WalkUpto(f, other, t, b, n + 1) = walk_statement(f, other, v, b, n + 1)
    BY WalkContinues
  <2>. HIDE DEF u, v
  <2>3. /\ StepsPlaces(u, walk_statement(f, lv, u, b, n + 1), st)
        /\ StepsPlaces(v, walk_statement(f, other, v, b, n + 1), st)
    BY <2>1, WalkStatementPlaces DEF Carries
  <2>. QED
    BY <2>1, <2>2, <2>3, StatementCarries
<1>. HIDE DEF T
<1>4. \A n \in Nat : n \in T
  BY <1>2, <1>3, Operands!Counting
<1>. QED
  BY <1>4 DEF T, len

\* A whole block carries every fact on its own, whatever else is known and live.
LEMMA BlockCarries ==
  ASSUME NEW f \in Functions, NEW b \in Blocks(f), NEW lv, NEW other,
         NEW s, NEW t, NEW k, Carries(s, t, k)
  PROVE  Carries(process_block(f, lv, s, b), process_block(f, other, t, b), k)
<1> DEFINE n == Len(Stmts(f, b))
<1>1. n \in Nat /\ IsSequence(Stmts(f, b)) /\ IsTerminator(Term(f, b))
  BY BlockParts
<1>2. Carries(WalkUpto(f, lv, s, b, n), WalkUpto(f, other, t, b, n), k)
  BY <1>1, WalkCarries
<1>. QED
  BY <1>1, <1>2, BlockIsWalk, TerminatorCarries

(***************************************************************************)
(* Facts.                                                                  *)
(***************************************************************************)
IsFacts(X) == \A k \in X : k[1] \in {"moved", "uninit"} /\ k = <<k[1], k[2]>>

\* A state with given facts has these facts.
LEMMA FactsBack ==
  ASSUME NEW X, IsFacts(X)
  PROVE  IsState(StateWith(X)) /\ FactsOf(StateWith(X)) = X
<1> DEFINE M == {k[2] : k \in {k \in X : k[1] = "moved"}}
           U == {k[2] : k \in {k \in X : k[1] = "uninit"}}
<1>1. StateWith(X) = [errors |-> {}, next |-> 0, borrows |-> {}, moved |-> M, uninit |-> U]
  BY DEF StateWith, WalkFrom
<1>2. FactsOf(StateWith(X)) = ({"moved"} \X M) \cup ({"uninit"} \X U)
  BY <1>1 DEF FactsOf
<1>3. ({"moved"} \X M) \cup ({"uninit"} \X U) = X
  <2>1. ASSUME NEW k \in X PROVE k \in ({"moved"} \X M) \cup ({"uninit"} \X U)
    BY DEF IsFacts
  <2>2. ASSUME NEW k \in ({"moved"} \X M) \cup ({"uninit"} \X U) PROVE k \in X
    BY DEF IsFacts
  <2>. QED
    BY <2>1, <2>2
<1>. QED
  BY <1>1, <1>2, <1>3 DEF IsState

\* Facts are marked places.
LEMMA FactsAreFacts == \A s : IsFacts(FactsOf(s))
BY DEF IsFacts, FactsOf

\* All of them.
LEMMA AllFactsAreFacts == IsFacts(AllFacts)
<1>1. ASSUME NEW f \in Functions PROVE IsFacts(StartFacts(f))
  BY DEF IsFacts, StartFacts
<1>2. ASSUME NEW f \in Functions, NEW b \in Blocks(f) PROVE IsFacts(FactsAfter(f, b, {}))
  BY FactsAreFacts DEF FactsAfter
<1>3. ASSUME NEW k \in AllFacts
      PROVE  \E f \in Functions : k \in StartFacts(f) \/ \E b \in Blocks(f) : k \in FactsAfter(f, b, {})
  BY DEF AllFacts
<1>. QED
  BY <1>1, <1>2, <1>3 DEF IsFacts

\* No statement of a function mentions a place outside those the analysis counts.
LEMMA GeneratedAreFacts ==
  ASSUME NEW f \in Functions
  PROVE  StartFacts(f) \subseteq AllFacts /\ \A b \in Blocks(f) : FactsAfter(f, b, {}) \subseteq AllFacts
BY DEF AllFacts

\* The effect of a block is that of its generated and killed facts.
LEMMA BlockTransfers ==
  ASSUME NEW f \in Functions, NEW b \in Blocks(f), NEW X, X \subseteq AllFacts
  PROVE  FactsAfter(f, b, X) = (X \ (AllFacts \ FactsAfter(f, b, AllFacts))) \cup FactsAfter(f, b, {})
<1>1. /\ IsState(StateWith(X)) /\ FactsOf(StateWith(X)) = X
      /\ IsState(StateWith(AllFacts)) /\ FactsOf(StateWith(AllFacts)) = AllFacts
      /\ IsState(StateWith({})) /\ FactsOf(StateWith({})) = {}
  <2>1. IsFacts(X) /\ IsFacts({})
    BY AllFactsAreFacts DEF IsFacts
  <2>. QED
    BY <2>1, AllFactsAreFacts, FactsBack
<1>2. ASSUME NEW Y, NEW Z, NEW k, k \in Y => k \in Z,
             IsState(StateWith(Y)), FactsOf(StateWith(Y)) = Y,
             IsState(StateWith(Z)), FactsOf(StateWith(Z)) = Z
      PROVE  k \in FactsAfter(f, b, Y) => k \in FactsAfter(f, b, Z)
  <2>1. Carries(StateWith(Y), StateWith(Z), k)
    BY <1>2 DEF Carries
  <2>2. Carries(process_block(f, NothingLive(f), StateWith(Y), b),
                process_block(f, NothingLive(f), StateWith(Z), b), k)
    BY <2>1, BlockCarries
  <2>. QED
    BY <2>2 DEF Carries, FactsAfter
<1>3. ASSUME NEW k
      PROVE  /\ k \in FactsAfter(f, b, {}) => k \in FactsAfter(f, b, X)
             /\ k \in FactsAfter(f, b, X) => k \in FactsAfter(f, b, AllFacts)
             /\ k \notin X /\ k \in FactsAfter(f, b, X) => k \in FactsAfter(f, b, {})
             /\ k \in X /\ k \in FactsAfter(f, b, AllFacts) => k \in FactsAfter(f, b, X)
  BY <1>1, <1>2
<1>. QED
  BY <1>3

(***************************************************************************)
(* The join.                                                               *)
(***************************************************************************)
\* The join of two states has the facts of both (check.rs:319-350).
LEMMA MergeJoins ==
  ASSUME NEW in, NEW out
  PROVE  FactsOf(merge_state(in, out)) = FactsOf(in) \cup FactsOf(out)
BY DEF FactsOf, merge_state

Dropped(f, b) == AllFacts \ FactsOf(bind_arguments(f, b, StateWith(AllFacts)))

\* Binding the arguments of a block takes away the facts about them and no other
\* (check.rs:209-217).
LEMMA BindDrops ==
  ASSUME NEW f, NEW b, NEW s, FactsOf(s) \subseteq AllFacts
  PROVE  FactsOf(bind_arguments(f, b, s)) = FactsOf(s) \ Dropped(f, b)
<1> DEFINE Bound(p) == \E l \in ArgLocals(f, b) : is_prefix(Local(l), p)
           Free(t) == ({"moved"} \X {m \in t.moved : ~Bound(m)}) \cup
                      ({"uninit"} \X {u \in t.uninit : ~Bound(u)})
           full == StateWith(AllFacts)
<1>1. \A t : FactsOf(bind_arguments(f, b, t)) = Free(t)
  BY DEF FactsOf, bind_arguments
<1>2. FactsOf(full) = AllFacts
  BY AllFactsAreFacts, FactsBack
<1>. HIDE DEF Bound, full
<1>3. \A k \in FactsOf(s) : k \in Free(s) <=> k \in Free(full)
  BY <1>2 DEF FactsOf
<1>4. Free(s) \subseteq FactsOf(s)
  BY DEF FactsOf
<1>5. Dropped(f, b) = AllFacts \ Free(full)
  BY <1>1 DEF Dropped, full
<1>. HIDE DEF Free
<1>. QED
  BY <1>1, <1>3, <1>4, <1>5

\* A block without arguments binds nothing.
LEMMA NothingDropped ==
  ASSUME NEW f, NEW b, f.blocks[b].args = << >>
  PROVE  Dropped(f, b) = {}
<1>1. ArgLocals(f, b) = {}
  BY DEF ArgLocals, ToSet
<1>2. FactsOf(bind_arguments(f, b, StateWith(AllFacts))) = FactsOf(StateWith(AllFacts))
  BY <1>1 DEF FactsOf, bind_arguments
<1>3. FactsOf(StateWith(AllFacts)) = AllFacts
  BY AllFactsAreFacts, FactsBack
<1>. QED
  BY <1>2, <1>3 DEF Dropped

\* The set of waiting blocks is that of the flags.
LEMMA HoldsSet ==
  ASSUME NEW w, NEW flags, NEW B, Holds(w, flags, B)
  PROVE  ToSet(w) = {b \in B : flags[b]} /\ (w = << >> => ToSet(w) = {})
BY DEF Holds, ToSet

\* The blocks of one function are among those of all.
LEMMA BlocksAreBlocks ==
  ASSUME NEW f \in Functions
  PROVE  Blocks(f) \subseteq AllBlocks
BY DEF AllBlocks

\* The graph of a function, part by part.
LEMMA GraphParts ==
  ASSUME NEW f \in Functions, NEW b \in Blocks(f)
  PROVE  /\ GraphOf(f).succ[b] = successors(f, b)
         /\ GraphOf(f).gen[b] = FactsAfter(f, b, {})
         /\ GraphOf(f).kill[b] = AllFacts \ FactsAfter(f, b, AllFacts)
         /\ GraphOf(f).bound[b] = Dropped(f, b)
<1>1. b \in AllBlocks
  BY BlocksAreBlocks
<1>. QED
  BY <1>1 DEF GraphOf, Dropped

(***************************************************************************)
(* The checker, step by step.                                              *)
(***************************************************************************)
\* The entry state of b holds facts, none about the arguments of b.
EntryOK(b) ==
  /\ entry_states[b] = [borrows |-> entry_states[b].borrows, moved |-> entry_states[b].moved,
                        uninit |-> entry_states[b].uninit]
  /\ FactsOf(entry_states[b]) \subseteq AllFacts
  /\ FactsOf(entry_states[b]) \cap Dropped(function, b) = {}

\* The walk from the entry facts alone, up to statement n of the block at hand.
Alone(n) ==
  WalkUpto(function, NothingLive(function), StateWith(FactsOf(entry_states[at.block])), at.block, n)

\* In the middle of a block the state knows the places that such a walk knows.
InWalk ==
  \E n \in Nat : /\ at.index = n + 1
                 /\ n <= Len(Stmts(function, at.block))
                 /\ IsState(state) /\ SamePlaces(state, Alone(n))

CheckerInv ==
  /\ WorklistInv
  /\ graph = GraphOf(function)
  /\ at = [phase |-> at.phase, block |-> at.block, index |-> at.index]
  /\ at.phase \in {"pop", "walk", "merge", "done"}
  /\ \A b \in Blocks(function) : EntryOK(b)
  /\ at.phase = "walk" => InWalk
  /\ at.phase = "merge" => IsState(state) /\ FactsOf(state) \subseteq AllFacts
  /\ at.phase = "done" => worklist = << >>
  /\ processed \subseteq Blocks(function)

\* More facts are more marked places.
LEMMA FactsOrderPlaces ==
  ASSUME NEW s, NEW t, FactsOf(s) \subseteq FactsOf(t)
  PROVE  s.moved \subseteq t.moved /\ s.uninit \subseteq t.uninit
<1>1. \A q \in s.moved : <<"moved", q>> \in FactsOf(s)
  BY DEF FactsOf
<1>2. \A q : <<"moved", q>> \in FactsOf(t) => q \in t.moved
  BY DEF FactsOf
<1>3. \A q \in s.uninit : <<"uninit", q>> \in FactsOf(s)
  BY DEF FactsOf
<1>4. \A q : <<"uninit", q>> \in FactsOf(t) => q \in t.uninit
  BY DEF FactsOf
<1>5. \A q \in s.moved : q \in t.moved
  BY <1>1, <1>2
<1>6. \A q \in s.uninit : q \in t.uninit
  BY <1>3, <1>4
<1>. QED
  BY <1>5, <1>6

\* The same facts are the same marked places.
LEMMA FactsFixPlaces ==
  ASSUME NEW s, NEW t, FactsOf(s) = FactsOf(t)
  PROVE  s.moved = t.moved /\ s.uninit = t.uninit
<1>1. s.moved \subseteq t.moved /\ s.uninit \subseteq t.uninit
  BY FactsOrderPlaces
<1>2. t.moved \subseteq s.moved /\ t.uninit \subseteq s.uninit
  BY FactsOrderPlaces
<1>. QED
  BY <1>1, <1>2

\* A step that leaves the entry states alone leaves the mapped entries alone.
LEMMA EntriesUnchanged ==
  ASSUME UNCHANGED <<function, entry_states>>
  PROVE  /\ Entries' = Entries
         /\ \A b : Entry(b)' = Entry(b)
         /\ (\A b \in Blocks(function) : EntryOK(b)) => (\A b \in Blocks(function) : EntryOK(b))'
<1>1. \A b : Entry(b)' = Entry(b)
  BY DEF Entry
<1>2. (\A b \in Blocks(function) : EntryOK(b)) => (\A b \in Blocks(function) : EntryOK(b))'
  BY DEF EntryOK
<1>. QED
  BY <1>1, <1>2 DEF Entries

\* What the invariant says, in the form the steps use.
LEMMA InvParts ==
  ASSUME CheckerInv
  PROVE  /\ function \in Functions /\ WellFormed(function)
         /\ DOMAIN entry_states = Blocks(function)
         /\ Holds(worklist, in_worklist, Blocks(function))
         /\ InBlock => at.block \in Blocks(function)
         /\ at.phase = "merge" => at.index \in Nat \ {0}
         /\ \A b \in Blocks(function) :
              b \in AllBlocks /\ Entry(b) = FactsOf(entry_states[b]) /\ Entries[b] = Entry(b)
BY FunctionsAssumption, BlocksAreBlocks DEF CheckerInv, WorklistInv, Types, InBlock, Entry, Entries

\* The checker starts where the analysis starts: the entry block waits, with every
\* local uninitialised (check.rs:189-200).
LEMMA CheckerInit == FInit => CheckerInv /\ Flow!Init
<1>. SUFFICES ASSUME FInit PROVE CheckerInv /\ Flow!Init
  OBVIOUS
<1>1. /\ WorklistInv /\ function \in Functions /\ graph = GraphOf(function) /\ at = Idle
      /\ processed = {}
  BY WorklistInit DEF FInit, Init
<1>2. function.entry \in Blocks(function) /\ function.blocks[function.entry].args = << >>
  BY <1>1, FunctionsAssumption DEF WellFormed, EdgesBind
<1>3. \A b \in Blocks(function) :
        entry_states[b] = IF b = function.entry
                          THEN [EmptyState EXCEPT !.uninit = {Local(l) : l \in function.locals \ function.params}]
                          ELSE EmptyState
  BY DEF FInit, Init
<1>4. ASSUME NEW b \in Blocks(function)
      PROVE  /\ EntryOK(b)
             /\ FactsOf(entry_states[b]) = IF b = function.entry THEN StartFacts(function) ELSE {}
  <2>1. CASE b = function.entry
    <3> DEFINE U == {Local(l) : l \in function.locals \ function.params}
    <3>1. entry_states[b] = [borrows |-> {}, moved |-> {}, uninit |-> U]
      BY <1>3, <2>1 DEF EmptyState
    <3>2. StartFacts(function) = {"uninit"} \X U
      BY DEF StartFacts
    <3>. HIDE DEF U
    <3>3. FactsOf(entry_states[b]) = StartFacts(function)
      BY <3>1, <3>2 DEF FactsOf
    <3>4. Dropped(function, b) = {} /\ StartFacts(function) \subseteq AllFacts
      BY <1>1, <1>2, <2>1, NothingDropped, GeneratedAreFacts
    <3>. QED
      BY <2>1, <3>1, <3>3, <3>4 DEF EntryOK
  <2>2. CASE b # function.entry
    <3>1. entry_states[b] = [borrows |-> {}, moved |-> {}, uninit |-> {}]
      BY <1>3, <2>2 DEF EmptyState
    <3>2. FactsOf(entry_states[b]) = {}
      BY <3>1 DEF FactsOf
    <3>. QED
      BY <2>2, <3>1, <3>2 DEF EntryOK
  <2>. QED
    BY <2>1, <2>2
<1>5. CheckerInv
  BY <1>1, <1>4 DEF CheckerInv, Idle
<1>6. graph \in AllGraphs /\ graph.root = function.entry /\ graph.start = StartFacts(function)
  BY <1>1 DEF AllGraphs, GraphOf
<1>7. Entries = [b \in AllBlocks |-> IF b = graph.root THEN graph.start ELSE {}]
  <2>1. ASSUME NEW b PROVE Entry(b) = IF b = graph.root THEN graph.start ELSE {}
    BY <1>2, <1>4, <1>6 DEF Entry
  <2>. QED
    BY <2>1 DEF Entries
<1>8. worklist = << function.entry >> /\ processed = {}
  BY DEF FInit, Init
<1>9. ToSet(worklist) = {graph.root}
  BY <1>6, <1>8 DEF ToSet
<1>10. Current = NoBlock /\ Exit = {} /\ Todo = {}
  BY <1>1 DEF Idle, Current, InBlock, Exit, Todo
<1>. QED
  BY <1>5, <1>6, <1>7, <1>8, <1>9, <1>10 DEF Flow!Init

\* Popping the worklist is the analysis taking the last of the waiting blocks
\* (check.rs:202-204).
LEMMA PopMaps ==
  ASSUME CheckerInv, WorklistInv', PopWorklist, graph' = graph
  PROVE  CheckerInv' /\ Flow!Take(Last(worklist))
<1> DEFINE b == Last(worklist)
<1>0. /\ at.phase = "pop" /\ worklist # << >>
      /\ in_worklist' = [in_worklist EXCEPT ![b] = FALSE]
      /\ state' = WalkFrom(entry_states[b], state.errors, state.next)
      /\ at' = [phase |-> "walk", block |-> b, index |-> 1]
      /\ processed' = processed \cup {b}
      /\ worklist' = Front(worklist)
      /\ UNCHANGED <<function, liveness, entry_states>>
  BY DEF PopWorklist
<1>1. b \in Blocks(function) /\ Holds(worklist', in_worklist', Blocks(function))
  BY <1>0, InvParts, PopHolds
<1>2. EntryOK(b) /\ in_worklist[b]
  <2>1. b = worklist[Len(worklist)] /\ Len(worklist) \in 1..Len(worklist)
    BY <1>0, InvParts DEF Holds, Last
  <2>. QED
    BY <1>1, <2>1, InvParts DEF CheckerInv, Holds
<1>3. ToSet(worklist') = ToSet(worklist) \ {b} /\ b \in ToSet(worklist)
  <2>1. ToSet(worklist) = {c \in Blocks(function) : in_worklist[c]}
    BY InvParts, HoldsSet
  <2>2. ToSet(worklist') = {c \in Blocks(function) : in_worklist'[c]}
    BY <1>1, HoldsSet
  <2>3. in_worklist \in [Blocks(function) -> BOOLEAN]
    BY InvParts DEF Holds
  <2>. QED
    BY <1>0, <1>1, <1>2, <2>1, <2>2, <2>3
<1>4. IsState(state') /\ state'.moved = entry_states[b].moved /\ state'.uninit = entry_states[b].uninit
  BY <1>0 DEF WalkFrom, IsState
<1>5. InWalk'
  <2> DEFINE s == StateWith(FactsOf(entry_states[b]))
  <2>1. IsState(s) /\ FactsOf(s) = FactsOf(entry_states[b])
    BY FactsBack, FactsAreFacts
  <2>2. s.moved = entry_states[b].moved /\ s.uninit = entry_states[b].uninit
    BY <2>1, FactsFixPlaces
  <2>3. Alone(0)' = s
    BY <1>0, WalkStarts DEF Alone
  <2>4. at'.index = 0 + 1 /\ 0 <= Len(Stmts(function, b))
    BY <1>0, <1>1, InvParts, BlockParts
  <2>. HIDE DEF s, b
  <2>5. IsState(state') /\ SamePlaces(state', Alone(0)')
    BY <1>4, <2>1, <2>2, <2>3 DEF SamePlaces
  <2>6. at'.block = b /\ function' = function
    BY <1>0
  <2>. QED
    BY <2>4, <2>5, <2>6 DEF InWalk
<1>6. (\A c \in Blocks(function) : EntryOK(c))' /\ Entries' = Entries
  BY <1>0, EntriesUnchanged DEF CheckerInv
<1>7. CheckerInv'
  BY <1>0, <1>1, <1>5, <1>6 DEF CheckerInv
<1>8. Current = NoBlock /\ Current' = b
  BY <1>0 DEF Current, InBlock
<1>9. Exit' = (Entries[b] \ graph.kill[b]) \cup graph.gen[b] /\ Todo' = graph.succ[b]
  BY <1>0, <1>1, InvParts DEF Exit, Todo, Entry
<1>. QED
  BY <1>0, <1>3, <1>6, <1>7, <1>8, <1>9 DEF Flow!Take, Flow!Transfer

\* A statement changes nothing the analysis sees: the block has not ended.
LEMMA StatementMaps ==
  ASSUME CheckerInv, WorklistInv', ProcessStatement, graph' = graph
  PROVE  CheckerInv' /\ UNCHANGED Flow!vars
<1> DEFINE b == at.block
           i == at.index
<1>0. /\ at.phase = "walk" /\ i <= Len(Stmts(function, b))
      /\ state' = walk_statement(function, liveness, state, b, i)
      /\ at' = [at EXCEPT !.index = @ + 1]
      /\ UNCHANGED <<function, liveness, entry_states, worklist, in_worklist, processed>>
  BY DEF ProcessStatement
<1>1. at'.phase = "walk" /\ at'.block = b /\ at'.index = i + 1
      /\ at' = [phase |-> at'.phase, block |-> at'.block, index |-> at'.index]
  BY <1>0 DEF CheckerInv
<1>2. PICK n \in Nat : /\ i = n + 1 /\ n <= Len(Stmts(function, b))
                       /\ IsState(state) /\ SamePlaces(state, Alone(n))
  BY <1>0 DEF CheckerInv, InWalk
<1>3. b \in Blocks(function) /\ function \in Functions
  BY <1>0, InvParts DEF InBlock
<1>4. IsStatement(Stmts(function, b)[i]) /\ n + 1 <= Len(Stmts(function, b))
  <2>1. Len(Stmts(function, b)) \in Nat
    BY <1>3, BlockParts
  <2>2. i \in 1..Len(Stmts(function, b))
    BY <1>0, <1>2, <2>1
  <2>. QED
    BY <1>2, <1>3, <2>1, <2>2, BlockParts
<1>5. Alone(n + 1)' = walk_statement(function, NothingLive(function), Alone(n), b, i)
  BY <1>0, <1>1, <1>2, WalkContinues DEF Alone
<1>6. /\ StepsPlaces(state, state', Stmts(function, b)[i])
      /\ StepsPlaces(Alone(n), Alone(n + 1)', Stmts(function, b)[i])
  <2>1. IsState(Alone(n))
    BY <1>2 DEF SamePlaces
  <2>. HIDE DEF b, i
  <2>. QED
    BY <1>0, <1>2, <1>4, <1>5, <2>1, WalkStatementPlaces
<1>7. IsState(state') /\ SamePlaces(state', Alone(n + 1)')
  BY <1>2, <1>6 DEF StepsPlaces, SamePlaces
<1>8. InWalk'
  <2> DEFINE m == n + 1
  <2>1. m \in Nat /\ at'.index = m + 1 /\ m <= Len(Stmts(function', at'.block))
        /\ IsState(state') /\ SamePlaces(state', Alone(m)')
    BY <1>0, <1>1, <1>2, <1>4, <1>7
  <2>. HIDE DEF m, b, i
  <2>. QED
    BY <2>1 DEF InWalk
<1>9. (\A c \in Blocks(function) : EntryOK(c))' /\ Entries' = Entries /\ Entry(b)' = Entry(b)
  BY <1>0, EntriesUnchanged DEF CheckerInv
<1>10. CheckerInv'
  BY <1>0, <1>1, <1>8, <1>9 DEF CheckerInv
<1>11. Current' = Current /\ Exit' = Exit /\ Todo' = Todo
  BY <1>0, <1>1, <1>9 DEF Current, InBlock, Exit, Todo
<1>. QED
  BY <1>0, <1>9, <1>10, <1>11 DEF Flow!vars

\* Nor does the terminator, after which the walked state is what the block sends on.
LEMMA TerminatorMaps ==
  ASSUME CheckerInv, WorklistInv', ProcessTerminator, graph' = graph
  PROVE  CheckerInv' /\ UNCHANGED Flow!vars
<1> DEFINE b == at.block
           len == Len(Stmts(function, b))
           from == StateWith(FactsOf(entry_states[b]))
           X == FactsOf(entry_states[b])
<1>0. /\ at.phase = "walk" /\ at.index = InstrCount(function, b)
      /\ state' = walk_terminator(function, liveness, state, b)
      /\ at' = [phase |-> "merge", block |-> b, index |-> 1]
      /\ UNCHANGED <<function, liveness, entry_states, worklist, in_worklist, processed>>
  BY DEF ProcessTerminator
<1>1. b \in Blocks(function) /\ function \in Functions
  BY <1>0, InvParts DEF InBlock
<1>2. len \in Nat /\ IsSequence(Stmts(function, b)) /\ IsTerminator(Term(function, b))
  BY <1>1, BlockParts
<1>3. IsState(state) /\ SamePlaces(state, Alone(len))
  <2>1. PICK n \in Nat : at.index = n + 1 /\ IsState(state) /\ SamePlaces(state, Alone(n))
    BY <1>0 DEF CheckerInv, InWalk
  <2>2. n = len
    BY <1>0, <1>2, <2>1 DEF InstrCount
  <2>. QED
    BY <2>1, <2>2
<1>4. process_block(function, NothingLive(function), from, b)
        = walk_terminator(function, NothingLive(function), Alone(len), b)
  BY <1>2, BlockIsWalk DEF Alone
<1>5. IsState(state') /\ FactsOf(state') = FactsAfter(function, b, X)
  <2> DEFINE alone == walk_terminator(function, NothingLive(function), Alone(len), b)
  <2>1. /\ IsState(state')
        /\ state'.moved = PlacesAfter(Term(function, b), state.moved)
        /\ state'.uninit = PlacesAfter(Term(function, b), state.uninit)
    BY <1>0, <1>2, <1>3, WalkTerminatorPlaces
  <2>2. /\ alone.moved = PlacesAfter(Term(function, b), Alone(len).moved)
        /\ alone.uninit = PlacesAfter(Term(function, b), Alone(len).uninit)
    BY <1>2, <1>3, WalkTerminatorPlaces DEF SamePlaces
  <2>3. FactsAfter(function, b, X) = FactsOf(alone)
    BY <1>4 DEF FactsAfter
  <2>. HIDE DEF alone, b, len
  <2>. QED
    BY <1>3, <2>1, <2>2, <2>3 DEF SamePlaces, FactsOf
<1>6. X \subseteq AllFacts /\ Entry(b) = X
  BY <1>1, InvParts DEF CheckerInv, EntryOK
<1>7. FactsOf(state') = Exit
  <2>1. Exit = (X \ graph.kill[b]) \cup graph.gen[b]
    BY <1>0, <1>6 DEF Exit
  <2>2. graph.kill[b] = AllFacts \ FactsAfter(function, b, AllFacts)
        /\ graph.gen[b] = FactsAfter(function, b, {})
    BY <1>1, GraphParts DEF CheckerInv
  <2>3. FactsAfter(function, b, X)
          = (X \ (AllFacts \ FactsAfter(function, b, AllFacts))) \cup FactsAfter(function, b, {})
    BY <1>1, <1>6, BlockTransfers
  <2>. QED
    BY <1>5, <2>1, <2>2, <2>3
<1>8. FactsOf(state') \subseteq AllFacts
  <2>1. FactsAfter(function, b, {}) \subseteq AllFacts
    BY <1>1, GeneratedAreFacts
  <2>2. FactsAfter(function, b, X)
          = (X \ (AllFacts \ FactsAfter(function, b, AllFacts))) \cup FactsAfter(function, b, {})
    BY <1>1, <1>6, BlockTransfers
  <2>. QED
    BY <1>5, <1>6, <2>1, <2>2
<1>9. (\A c \in Blocks(function) : EntryOK(c))' /\ Entries' = Entries
  BY <1>0, EntriesUnchanged DEF CheckerInv
<1>10. CheckerInv'
  <2>. HIDE DEF b
  <2>. QED
    BY <1>0, <1>5, <1>8, <1>9 DEF CheckerInv
<1>11. Current' = Current /\ Exit' = Exit
  BY <1>0, <1>7 DEF Current, InBlock, Exit
<1>12. Todo' = Todo
  <2> DEFINE edges == successor_edges(function, b)
  <2>1. Todo = {e.to : e \in ToSet(edges)}
    BY <1>0, <1>1, GraphParts DEF Todo, CheckerInv, successors
  <2>2. Todo' = {edges[i].to : i \in 1..Len(edges)}
    BY <1>0 DEF Todo
  <2>3. IsSequence(edges)
    BY <1>2 DEF IsTerminator, successor_edges
  <2>. HIDE DEF edges
  <2>4. DOMAIN edges = 1..Len(edges)
    BY <2>3, SequenceFacts
  <2>. QED
    BY <2>1, <2>2, <2>4 DEF ToSet
<1>. QED
  BY <1>0, <1>9, <1>10, <1>11, <1>12 DEF Flow!vars

\* The merge into one successor is the analysis' merge, and the block is pushed
\* exactly when its entry grew or it was never reached (check.rs:206-222).
LEMMA MergeMaps ==
  ASSUME CheckerInv, WorklistInv', MergeEdge, graph' = graph
  PROVE  CheckerInv' /\ \E s \in AllBlocks : Flow!Merge(s)
<1> DEFINE edges == successor_edges(function, at.block)
           i == at.index
           s == edges[at.index].to
           X == FactsOf(state)
<1>0. /\ at.phase = "merge" /\ i <= Len(edges)
      /\ at' = [at EXCEPT !.index = @ + 1]
      /\ UNCHANGED <<function, liveness, state, processed>>
  BY DEF MergeEdge
<1>1. at'.phase = "merge" /\ at'.block = at.block /\ at'.index = i + 1
      /\ at' = [phase |-> at'.phase, block |-> at'.block, index |-> at'.index]
  BY <1>0 DEF CheckerInv
<1>2. /\ at.block \in Blocks(function) /\ function \in Functions /\ i \in Nat \ {0}
      /\ Len(edges) \in Nat /\ i \in 1..Len(edges) /\ s \in Blocks(function)
  <2>1. at.block \in Blocks(function) /\ function \in Functions /\ i \in Nat \ {0}
        /\ WellFormed(function)
    BY <1>0, InvParts DEF InBlock
  <2>2. Len(edges) \in Nat /\ \A j \in 1..Len(edges) : edges[j].to \in Blocks(function)
    BY <2>1 DEF WellFormed, EdgesBind
  <2>. HIDE DEF edges
  <2>3. i \in 1..Len(edges)
    BY <1>0, <2>1, <2>2
  <2>. QED
    BY <2>1, <2>2, <2>3
<1>3. Todo = {edges[j].to : j \in i..Len(edges)} /\ Todo' = {edges[j].to : j \in i+1..Len(edges)}
  BY <1>0, <1>1 DEF Todo
<1>4. s \in Todo /\ Todo' \in {Todo, Todo \ {s}}
  <2>. HIDE DEF edges
  <2>1. i..Len(edges) = {i} \cup (i+1..Len(edges))
    BY <1>2
  <2>2. Todo = {s} \cup Todo'
    BY <1>3, <2>1
  <2>. QED
    BY <2>2
<1>5. Exit = X /\ Exit' = Exit /\ Current' = Current
  BY <1>0, <1>1 DEF Exit, Current, InBlock
<1>6. IsState(state) /\ X \subseteq AllFacts
  BY <1>0 DEF CheckerInv
<1>7. EntryOK(s) /\ Entries[s] = FactsOf(entry_states[s]) /\ s \in AllBlocks
      /\ graph.bound[s] = Dropped(function, s)
  BY <1>2, InvParts, GraphParts DEF CheckerInv
<1> DEFINE joined == merge_state(entry_states[s], state)
           bound == bind_arguments(function, s, joined)
<1>8. FactsOf(joined) = Entries[s] \cup X /\ FactsOf(joined) \subseteq AllFacts
  BY <1>6, <1>7, MergeJoins DEF EntryOK
<1>9. FactsOf(bound) = (Entries[s] \cup X) \ graph.bound[s]
  BY <1>7, <1>8, BindDrops
<1>10. CASE MergeChanges(s)
  <2>1. /\ entry_states' = [entry_states EXCEPT ![s] = bound]
        /\ push_worklist(s)
    BY <1>10 DEF MergeEdge
  <2>2. ToSet(worklist') = ToSet(worklist) \cup {s}
    <3>1. Holds(worklist, in_worklist, Blocks(function)) /\ Holds(worklist', in_worklist', Blocks(function))
      BY <1>0, InvParts DEF WorklistInv
    <3>2. in_worklist' = [in_worklist EXCEPT ![s] = TRUE] /\ in_worklist \in [Blocks(function) -> BOOLEAN]
      BY <2>1, <3>1 DEF push_worklist, Holds
    <3>3. ToSet(worklist) = {c \in Blocks(function) : in_worklist[c]}
          /\ ToSet(worklist') = {c \in Blocks(function) : in_worklist'[c]}
      BY <3>1, HoldsSet
    <3>. HIDE DEF s
    <3>. QED
      BY <1>2, <3>2, <3>3
  <2>3. entry_states'[s] = bound /\ \A c \in Blocks(function) \ {s} : entry_states'[c] = entry_states[c]
    BY <1>2, <2>1, InvParts
  <2>4. Entries' = [Entries EXCEPT ![s] = FactsOf(bound)]
    <3>. HIDE DEF s, bound
    <3>1. ASSUME NEW c \in AllBlocks
          PROVE  Entry(c)' = IF c = s THEN FactsOf(bound) ELSE Entry(c)
      BY <1>0, <1>2, <2>3 DEF Entry
    <3>. QED
      BY <1>7, <3>1 DEF Entries
  <2>5. (\A c \in Blocks(function) : EntryOK(c))'
    <3>1. ASSUME NEW c \in Blocks(function) PROVE EntryOK(c)'
      <4>1. CASE c = s
        <5>1. bound = [borrows |-> bound.borrows, moved |-> bound.moved, uninit |-> bound.uninit]
          BY DEF bind_arguments
        <5>. HIDE DEF s, bound
        <5>2. FactsOf(bound) \subseteq AllFacts /\ FactsOf(bound) \cap Dropped(function, s) = {}
          BY <1>7, <1>8, <1>9
        <5>. QED
          BY <1>0, <2>3, <4>1, <5>1, <5>2 DEF EntryOK
      <4>2. CASE c # s
        <5>1. entry_states'[c] = entry_states[c] /\ EntryOK(c)
          BY <2>3, <4>2 DEF CheckerInv
        <5>. QED
          BY <1>0, <5>1 DEF EntryOK
      <4>. QED
        BY <4>1, <4>2
    <3>. QED
      BY <1>0, <3>1
  <2>6. CheckerInv'
    BY <1>0, <1>1, <1>6, <2>5 DEF CheckerInv
  <2>7. Flow!Merge(s)
    <3>1. Entries' = [Entries EXCEPT ![s] = (Entries[s] \cup Exit) \ graph.bound[s]]
      BY <1>5, <1>9, <2>4
    <3>. HIDE DEF s
    <3>. QED
      BY <1>0, <1>4, <1>5, <2>2, <3>1 DEF Flow!Merge, Flow!Cross
  <2>. QED
    BY <1>7, <2>6, <2>7
<1>11. CASE ~MergeChanges(s)
  <2>1. UNCHANGED <<entry_states, worklist, in_worklist>>
    BY <1>11 DEF MergeEdge
  <2>2. X \subseteq Entries[s]
    BY <1>7, <1>8, <1>11 DEF MergeChanges
  <2>3. (\A c \in Blocks(function) : EntryOK(c))' /\ Entries' = Entries
    BY <1>0, <2>1, EntriesUnchanged DEF CheckerInv
  <2>4. CheckerInv'
    BY <1>0, <1>1, <1>6, <2>1, <2>3 DEF CheckerInv
  <2>5. Entries[s] = (Entries[s] \cup Exit) \ graph.bound[s]
    BY <1>5, <1>7, <2>2 DEF EntryOK
  <2>6. Entries' = [Entries EXCEPT ![s] = (Entries[s] \cup Exit) \ graph.bound[s]]
    <3>. HIDE DEF s
    <3>. QED
      BY <2>3, <2>5 DEF Entries
  <2>7. Flow!Merge(s)
    <3>. HIDE DEF s
    <3>. QED
      BY <1>0, <1>4, <1>5, <2>1, <2>2, <2>6 DEF Flow!Merge, Flow!Cross
  <2>. QED
    BY <1>7, <2>4, <2>7
<1>. QED
  BY <1>10, <1>11

\* After the last edge the analysis ends the block too.
LEMMA EndMaps ==
  ASSUME CheckerInv, WorklistInv', EndBlock, graph' = graph
  PROVE  CheckerInv' /\ Flow!EndBlock
<1>0. /\ at.phase = "merge" /\ at.index > Len(successor_edges(function, at.block))
      /\ at' = [phase |-> "pop", block |-> 0, index |-> 0]
      /\ UNCHANGED <<function, liveness, entry_states, worklist, in_worklist, state, processed>>
  BY DEF EndBlock, Idle
<1>1. (\A c \in Blocks(function) : EntryOK(c))' /\ Entries' = Entries
  BY <1>0, EntriesUnchanged DEF CheckerInv
<1>2. CheckerInv'
  BY <1>0, <1>1 DEF CheckerInv
<1>3. Todo = {} /\ Todo' = {} /\ Exit' = {}
  <2>1. Len(successor_edges(function, at.block)) \in Nat /\ at.index \in Nat
    BY <1>0, InvParts DEF WellFormed, EdgesBind, InBlock
  <2>2. at.index..Len(successor_edges(function, at.block)) = {}
    BY <1>0, <2>1
  <2>. QED
    BY <1>0, <2>2 DEF Todo, Exit
<1>4. Current # NoBlock /\ Current' = NoBlock
  BY <1>0, InvParts, NoBlockAssumption DEF Current, InBlock
<1>. QED
  BY <1>0, <1>1, <1>2, <1>3, <1>4 DEF Flow!EndBlock

\* When the worklist is empty both stand still.
LEMMA FinishMaps ==
  ASSUME CheckerInv, WorklistInv', Finish, graph' = graph
  PROVE  CheckerInv' /\ UNCHANGED Flow!vars
<1>0. /\ at.phase = "pop" /\ at' = [at EXCEPT !.phase = "done"] /\ worklist = << >>
      /\ UNCHANGED <<function, liveness, entry_states, worklist, in_worklist, state, processed>>
  BY DEF Finish
<1>1. (\A c \in Blocks(function) : EntryOK(c))' /\ Entries' = Entries
  BY <1>0, EntriesUnchanged DEF CheckerInv
<1>2. at'.phase = "done" /\ at' = [phase |-> at'.phase, block |-> at'.block, index |-> at'.index]
  BY <1>0 DEF CheckerInv
<1>3. CheckerInv'
  BY <1>0, <1>1, <1>2 DEF CheckerInv
<1>4. UNCHANGED <<Current, Exit, Todo>>
  BY <1>0, <1>2 DEF Current, InBlock, Exit, Todo
<1>. QED
  BY <1>0, <1>1, <1>3, <1>4 DEF Flow!vars

\* A step that changes nothing of the checker changes nothing of the analysis.
LEMMA StandStillMaps ==
  ASSUME CheckerInv, UNCHANGED vars, graph' = graph
  PROVE  CheckerInv' /\ UNCHANGED Flow!vars
<1>0. UNCHANGED <<function, liveness, entry_states, worklist, in_worklist, at, state, processed>>
  BY DEF vars
<1>1. (\A c \in Blocks(function) : EntryOK(c))' /\ Entries' = Entries /\ \A b : Entry(b)' = Entry(b)
  BY <1>0, EntriesUnchanged DEF CheckerInv
<1>2. WorklistInv'
  BY <1>0 DEF CheckerInv, WorklistInv, Types
<1>3. InWalk' <=> InWalk
  BY <1>0 DEF InWalk, Alone
<1>4. CheckerInv'
  BY <1>0, <1>1, <1>2, <1>3 DEF CheckerInv
<1>5. UNCHANGED <<Current, Exit, Todo>>
  BY <1>0 DEF Current, InBlock, Exit, Todo, Entry
<1>. QED
  BY <1>0, <1>1, <1>4, <1>5 DEF Flow!vars

\* Every step of the checker keeps the invariant and is a step of the analysis or
\* none.
LEMMA CheckerStep ==
  CheckerInv /\ [FNext]_<<vars, graph>> => CheckerInv' /\ [Flow!Next]_Flow!vars
<1>. SUFFICES ASSUME CheckerInv, [FNext]_<<vars, graph>> PROVE CheckerInv' /\ [Flow!Next]_Flow!vars
  OBVIOUS
<1>0. graph' = graph /\ [Next]_vars
  BY DEF FNext
<1>1. WorklistInv'
  BY <1>0, WorklistStep DEF CheckerInv
<1>2. CASE PopWorklist
  <2>1. Last(worklist) \in AllBlocks
    BY <1>2, InvParts, PopHolds DEF PopWorklist
  <2>. QED
    BY <1>0, <1>1, <1>2, <2>1, PopMaps DEF Flow!Next
<1>3. CASE ProcessStatement
  BY <1>0, <1>1, <1>3, StatementMaps
<1>4. CASE ProcessTerminator
  BY <1>0, <1>1, <1>4, TerminatorMaps
<1>5. CASE MergeEdge
  BY <1>0, <1>1, <1>5, MergeMaps DEF Flow!Next
<1>6. CASE EndBlock
  BY <1>0, <1>1, <1>6, EndMaps DEF Flow!Next
<1>7. CASE Finish
  BY <1>0, <1>1, <1>7, FinishMaps
<1>8. CASE UNCHANGED vars
  BY <1>0, <1>8, StandStillMaps
<1>. QED
  BY <1>0, <1>2, <1>3, <1>4, <1>5, <1>6, <1>7, <1>8 DEF Next, Step, Terminated

\* For every set of well-formed functions, the checker's handling of moved and
\* uninitialised places implements the abstract analysis: the worklist, the walk of
\* a block as gen and kill, the arguments bound at an edge and the merge
\* (check.rs:186-258).
THEOREM CheckerRefinesDataflow == FSpec => RefinesDataflow
<1>1. FInit => CheckerInv /\ Flow!Init
  BY CheckerInit
<1>2. CheckerInv /\ [FNext]_<<vars, graph>> => CheckerInv' /\ [Flow!Next]_Flow!vars
  BY CheckerStep
<1>. QED
  BY <1>1, <1>2, PTL DEF FSpec, RefinesDataflow, Flow!Spec

(***************************************************************************)
(* What is proved of the analysis, for the checker.                        *)
(***************************************************************************)
Analysis ==
  INSTANCE Dataflow_proofs WITH
    Block <- AllBlocks,
    Fact <- AllFacts,
    None <- NoBlock,
    Graphs <- AllGraphs,
    entry <- Entries,
    pending <- ToSet(worklist),
    current <- Current,
    exit <- Exit,
    todo <- Todo,
    visited <- processed,
    here <- NoBlock,
    true <- {}

\* The graphs of the functions are graphs the analysis is proved for.
LEMMA AnalysisAssumptions == Analysis!NoneAssumption /\ Analysis!GraphsAssumption
<1>1. NoBlock \notin AllBlocks
  BY NoBlockAssumption DEF AllBlocks
<1>2. ASSUME NEW f \in Functions PROVE GraphOf(f) \in Analysis!Graph
  <2> DEFINE g == GraphOf(f)
  <2>1. f.entry \in Blocks(f) /\ f.blocks[f.entry].args = << >> /\ Blocks(f) \subseteq AllBlocks
    BY FunctionsAssumption, BlocksAreBlocks DEF WellFormed, EdgesBind
  <2>2. \A b \in Blocks(f) : successors(f, b) \subseteq AllBlocks
    <3>. SUFFICES ASSUME NEW b \in Blocks(f) PROVE successors(f, b) \subseteq Blocks(f)
      BY <2>1
    <3> DEFINE edges == successor_edges(f, b)
    <3>1. IsTerminator(Term(f, b)) /\ \A i \in 1..Len(edges) : edges[i].to \in Blocks(f)
      BY FunctionsAssumption DEF WellFormed, EdgesBind
    <3>2. DOMAIN edges = 1..Len(edges)
      BY <3>1, SequenceFacts DEF IsTerminator, successor_edges
    <3>. QED
      BY <3>1, <3>2 DEF successors, ToSet
  <2>3. \A b \in Blocks(f) : FactsAfter(f, b, {}) \subseteq AllFacts
    BY GeneratedAreFacts
  <2>4. g = [root |-> g.root, start |-> g.start, succ |-> g.succ, gen |-> g.gen, kill |-> g.kill,
             bound |-> g.bound]
    BY DEF GraphOf
  <2>5. g.root = f.entry /\ g.start = StartFacts(f)
    BY DEF GraphOf
  <2>6. g.succ \in [AllBlocks -> SUBSET AllBlocks]
    BY <2>2 DEF GraphOf
  <2>7. g.gen \in [AllBlocks -> SUBSET AllFacts]
    BY <2>3 DEF GraphOf
  <2>8. g.kill \in [AllBlocks -> SUBSET AllFacts]
    BY DEF GraphOf
  <2>9. g.bound \in [AllBlocks -> SUBSET AllFacts]
    BY DEF GraphOf
  <2>10. g.bound[g.root] = {}
    BY <2>1, <2>5, GraphParts, NothingDropped
  <2>11. g.root \in AllBlocks /\ g.start \in SUBSET AllFacts
    BY <2>1, <2>5, GeneratedAreFacts
  <2>. HIDE DEF g
  <2>12. g \in [root : AllBlocks, start : SUBSET AllFacts, succ : [AllBlocks -> SUBSET AllBlocks],
                gen : [AllBlocks -> SUBSET AllFacts], kill : [AllBlocks -> SUBSET AllFacts],
                bound : [AllBlocks -> SUBSET AllFacts]]
    BY <2>4, <2>6, <2>7, <2>8, <2>9, <2>11
  <2>13. g \in Analysis!Graph
    BY <2>10, <2>12 DEF Analysis!Graph
  <2>. QED
    BY <2>13 DEF g
<1>3. AllGraphs \subseteq Analysis!Graph
  BY <1>2 DEF AllGraphs
<1>. QED
  BY <1>1, <1>3 DEF Analysis!NoneAssumption, Analysis!GraphsAssumption

\* What is known of the checker at each step: its own state, and the analysis.
KnownInv == CheckerInv /\ Analysis!FlowInv /\ Analysis!ReachInv

\* Whatever is proved of the analysis holds of the checker.
LEMMA KnownAlways == FSpec => []KnownInv
<1>1. FInit => KnownInv
  <2>1. FInit => CheckerInv /\ Flow!Init
    BY CheckerInit
  <2>2. Flow!Init => Analysis!Init
    BY DEF Flow!Init, Analysis!Init
  <2>3. Analysis!Init => Analysis!FlowInv /\ Analysis!ReachInv
    BY AnalysisAssumptions, Analysis!FlowInit, Analysis!ReachInit
  <2>. QED
    BY <2>1, <2>2, <2>3 DEF KnownInv
<1>2. KnownInv /\ [FNext]_<<vars, graph>> => KnownInv'
  <2>1. CheckerInv /\ [FNext]_<<vars, graph>> => CheckerInv' /\ [Flow!Next]_Flow!vars
    BY CheckerStep
  <2>2. [Flow!Next]_Flow!vars => [Analysis!Next]_Analysis!vars
    BY DEF Flow!Next, Analysis!Next, Flow!vars, Analysis!vars, Flow!Take, Analysis!Take, Flow!Merge,
           Analysis!Merge, Flow!EndBlock, Analysis!EndBlock, Flow!Terminated, Analysis!Terminated,
           Flow!Done, Analysis!Done, Flow!Transfer, Analysis!Transfer, Flow!Cross, Analysis!Cross
  <2>3. Analysis!FlowInv /\ [Analysis!Next]_Analysis!vars => Analysis!FlowInv'
    BY AnalysisAssumptions, Analysis!FlowStep
  <2>4. Analysis!FlowInv /\ Analysis!ReachInv /\ [Analysis!Next]_Analysis!vars => Analysis!ReachInv'
    BY AnalysisAssumptions, Analysis!ReachStep
  <2>. QED
    BY <2>1, <2>2, <2>3, <2>4 DEF KnownInv
<1>. QED
  BY <1>1, <1>2, PTL DEF FSpec

\* At the end the worklist is empty, and each walked block has been merged.
LEMMA FinishedIsDone ==
  ASSUME KnownInv, Finished
  PROVE  /\ Analysis!Solved /\ Analysis!Done
         /\ \A b \in processed : Analysis!Settled(b)
<1>1. at.phase = "done" /\ worklist = << >>
  BY DEF KnownInv, CheckerInv, Finished
<1>2. Current = NoBlock /\ ToSet(worklist) = {}
  BY <1>1 DEF Current, InBlock, ToSet
<1>3. Analysis!Done
  BY <1>2 DEF Analysis!Done
<1>4. \A b \in processed : Analysis!Settled(b)
  <2>1. processed \subseteq AllBlocks /\ NoBlock \notin AllBlocks
    BY AnalysisAssumptions DEF KnownInv, Analysis!FlowInv, Analysis!TypeOK, Analysis!NoneAssumption
  <2>. QED
    BY <1>2, <2>1 DEF Analysis!Settled
<1>5. Analysis!Solved
  BY <1>4 DEF KnownInv, Analysis!FlowInv, Analysis!TypeOK, Analysis!Solved
<1>. QED
  BY <1>3, <1>4, <1>5

\* The final walk of a block leaves the facts that the analysis computes.
LEMMA FinalWalkTransfers ==
  ASSUME CheckerInv, NEW b \in Blocks(function)
  PROVE  FactsOf(FinalWalk(b)) = Analysis!Transfer(b, Entries[b])
<1> DEFINE X == FactsOf(entry_states[b])
           s == WalkFrom(entry_states[b], {}, state.next)
           t == StateWith(X)
<1>1. function \in Functions /\ Entries[b] = X /\ graph = GraphOf(function) /\ X \subseteq AllFacts
  BY InvParts DEF CheckerInv, EntryOK
<1>2. IsState(s) /\ FactsOf(s) = X
  BY DEF WalkFrom, IsState, FactsOf
<1>3. IsState(t) /\ FactsOf(t) = X
  BY FactsBack, FactsAreFacts
<1>4. FinalWalk(b) = process_block(function, liveness, s, b)
  BY DEF FinalWalk
<1>5. FactsAfter(function, b, X) = FactsOf(process_block(function, NothingLive(function), t, b))
  BY DEF FactsAfter
<1>. HIDE DEF s, t, X
<1>6. \A k : k \in FactsOf(FinalWalk(b)) <=> k \in FactsAfter(function, b, X)
  <2>. SUFFICES ASSUME NEW k
                PROVE  k \in FactsOf(FinalWalk(b)) <=> k \in FactsAfter(function, b, X)
    OBVIOUS
  <2>1. Carries(s, t, k) /\ Carries(t, s, k)
    BY <1>2, <1>3 DEF Carries
  <2>2. /\ Carries(process_block(function, liveness, s, b),
                   process_block(function, NothingLive(function), t, b), k)
        /\ Carries(process_block(function, NothingLive(function), t, b),
                   process_block(function, liveness, s, b), k)
    BY <1>1, <2>1, BlockCarries
  <2>. QED
    BY <1>4, <1>5, <2>2 DEF Carries
<1>7. FactsAfter(function, b, X) = (X \ graph.kill[b]) \cup graph.gen[b]
  <2>1. graph.kill[b] = AllFacts \ FactsAfter(function, b, AllFacts)
        /\ graph.gen[b] = FactsAfter(function, b, {})
    BY <1>1, GraphParts
  <2>. QED
    BY <1>1, <2>1, BlockTransfers
<1>. QED
  BY <1>1, <1>6, <1>7 DEF Analysis!Transfer

\* When the check ends, what leaves a block that was walked as moved or as
\* uninitialised is known at the entry of each successor, in every function
\* (check.rs:204-223).
THEOREM PlacesAreSolved == FSpec => []PlacesSolve
<1>1. KnownInv => PlacesSolve
  <2>. SUFFICES ASSUME KnownInv, Finished, NEW b \in processed, NEW n \in successors(function, b)
                PROVE  LET in == bind_arguments(function, n, merge_state(EmptyState, FinalWalk(b)))
                       IN  /\ in.moved \subseteq entry_states[n].moved
                           /\ in.uninit \subseteq entry_states[n].uninit
    BY DEF PlacesSolve
  <2> DEFINE in == bind_arguments(function, n, merge_state(EmptyState, FinalWalk(b)))
  <2>1. CheckerInv /\ b \in Blocks(function) /\ function \in Functions /\ graph = GraphOf(function)
    BY InvParts DEF KnownInv, CheckerInv
  <2>2. n \in graph.succ[b]
    BY <2>1, GraphParts
  <2>3. n \in Blocks(function)
    <3>1. graph.succ[b] = successors(function, b)
      BY <2>1, GraphParts
    <3> DEFINE edges == successor_edges(function, b)
    <3>2. IsTerminator(Term(function, b)) /\ \A i \in 1..Len(edges) : edges[i].to \in Blocks(function)
      BY <2>1, FunctionsAssumption DEF WellFormed, EdgesBind
    <3>3. DOMAIN edges = 1..Len(edges)
      BY <3>2, SequenceFacts DEF IsTerminator, successor_edges
    <3>. QED
      BY <3>2, <3>3 DEF successors, ToSet
  <2>4. Analysis!Known(b, n)
    BY <2>2, FinishedIsDone DEF Analysis!Solved
  <2>5. Entries[n] = FactsOf(entry_states[n]) /\ graph.bound[n] = Dropped(function, n)
    BY <2>1, <2>3, InvParts, GraphParts
  <2>6. FactsOf(FinalWalk(b)) = Analysis!Transfer(b, Entries[b])
    BY <2>1, FinalWalkTransfers
  <2>7. FactsOf(FinalWalk(b)) \subseteq AllFacts
    <3>2. Entries[b] \subseteq AllFacts
      BY <2>1, InvParts DEF CheckerInv, EntryOK
    <3>3. graph.gen[b] \subseteq AllFacts
      BY <2>1, GraphParts, GeneratedAreFacts
    <3>. QED
      BY <2>6, <3>2, <3>3 DEF Analysis!Transfer
  <2>8. FactsOf(merge_state(EmptyState, FinalWalk(b))) = FactsOf(FinalWalk(b))
    BY MergeJoins DEF FactsOf, EmptyState
  <2>9. FactsOf(in) = FactsOf(FinalWalk(b)) \ graph.bound[n]
    BY <2>5, <2>7, <2>8, BindDrops
  <2>10. FactsOf(in) \subseteq FactsOf(entry_states[n])
    BY <2>4, <2>5, <2>6, <2>9 DEF Analysis!Known, Analysis!Cross
  <2>. HIDE DEF in
  <2>11. in.moved \subseteq entry_states[n].moved /\ in.uninit \subseteq entry_states[n].uninit
    BY <2>10, FactsOrderPlaces
  <2>. QED
    BY <2>11 DEF in
<1>. QED
  BY <1>1, KnownAlways, PTL

(***************************************************************************)
(* Every reachable block is walked.                                        *)
(***************************************************************************)
\* A place that no instruction writes stays uninitialised through a walk.
LEMMA WalkKeepsUnwritten ==
  ASSUME NEW f \in Functions, NEW b \in Blocks(f), NEW lv, NEW p, Unwritten(f, p),
         NEW s, IsState(s), p \in s.uninit
  PROVE  \A n \in Nat : n <= Len(Stmts(f, b)) =>
           IsState(WalkUpto(f, lv, s, b, n)) /\ p \in WalkUpto(f, lv, s, b, n).uninit
<1> DEFINE len == Len(Stmts(f, b))
           T == {n \in Nat : n <= len =>
                   IsState(WalkUpto(f, lv, s, b, n)) /\ p \in WalkUpto(f, lv, s, b, n).uninit}
<1>1. len \in Nat /\ \A i \in 1..len : IsStatement(Stmts(f, b)[i])
  BY BlockParts
<1>2. \A i \in 1..len : /\ Stmts(f, b)[i].st = "assign" => ~is_prefix(Stmts(f, b)[i].dest, p)
                        /\ Stmts(f, b)[i].st = "set_discriminant" => ~is_prefix(Stmts(f, b)[i].place, p)
  <2>1. DOMAIN Stmts(f, b) = 1..len
    BY BlockParts, SequenceFacts
  <2>. QED
    BY <2>1 DEF Unwritten, ToSet
<1>. HIDE DEF len
<1>3. 0 \in T
  BY WalkStarts
<1>4. ASSUME NEW n \in Nat, n \in T PROVE n + 1 \in T
  <2>. SUFFICES ASSUME n + 1 <= len
                PROVE  /\ IsState(WalkUpto(f, lv, s, b, n + 1))
                       /\ p \in WalkUpto(f, lv, s, b, n + 1).uninit
    OBVIOUS
  <2> DEFINE u == WalkUpto(f, lv, s, b, n)
             v == WalkUpto(f, lv, s, b, n + 1)
             st == Stmts(f, b)[n + 1]
  <2>1. IsState(u) /\ p \in u.uninit /\ n + 1 \in 1..len /\ IsStatement(st)
    BY <1>1, <1>4
  <2>2. v = walk_statement(f, lv, u, b, n + 1)
    BY WalkContinues
  <2>. HIDE DEF u, v
  <2>3. StepsPlaces(u, v, st)
    BY <2>1, <2>2, WalkStatementPlaces
  <2>4. /\ st.st = "assign" => ~is_prefix(st.dest, p)
        /\ st.st = "set_discriminant" => ~is_prefix(st.place, p)
    BY <1>2, <2>1
  <2>. HIDE DEF st
  <2>5. p \in UninitAfter(st, u.uninit)
    BY <2>1, <2>4 DEF UninitAfter, MovedAfter, Initialised
  <2>6. IsState(v) /\ p \in v.uninit
    BY <2>3, <2>5 DEF StepsPlaces
  <2>. QED
    BY <2>6 DEF v
<1>. HIDE DEF T
<1>5. \A n \in Nat : n \in T
  BY <1>3, <1>4, Operands!Counting
<1>. QED
  BY <1>5 DEF T, len

\* A local that nothing writes is uninitialised in every state that reaches a block.
LEMMA UnwrittenLasts ==
  ASSUME CheckerInv, HasUnwrittenLocal(function)
  PROVE  \E k \in AllFacts : Analysis!Lasting(k)
<1>1. PICK l \in function.locals \ function.params : Unwritten(function, Local(l))
  BY DEF HasUnwrittenLocal
<1> DEFINE p == Local(l)
           k == <<"uninit", p>>
<1>2. function \in Functions /\ graph = GraphOf(function)
  BY InvParts DEF CheckerInv
<1>3. k \in StartFacts(function) /\ k \in AllFacts /\ graph.start = StartFacts(function)
  BY <1>2, GeneratedAreFacts DEF StartFacts, GraphOf
<1> DEFINE full == StateWith(AllFacts)
<1>4. IsState(full) /\ p \in full.uninit
  <2>1. IsState(full) /\ FactsOf(full) = AllFacts
    BY AllFactsAreFacts, FactsBack
  <2>. HIDE DEF full, p
  <2>. QED
    BY <1>3, <2>1 DEF FactsOf
<1>. HIDE DEF p, full
<1>5. ASSUME NEW b \in Blocks(function)
      PROVE  k \notin graph.kill[b] /\ k \notin graph.bound[b]
  <2> DEFINE n == Len(Stmts(function, b))
             w == WalkUpto(function, NothingLive(function), full, b, n)
             r == walk_terminator(function, NothingLive(function), w, b)
  <2>1. n \in Nat /\ IsSequence(Stmts(function, b)) /\ IsTerminator(Term(function, b))
    BY <1>2, BlockParts
  <2>2. IsState(w) /\ p \in w.uninit
    BY <1>1, <1>2, <1>4, <2>1, WalkKeepsUnwritten DEF p
  <2>3. FactsAfter(function, b, AllFacts) = FactsOf(r)
    BY <2>1, BlockIsWalk DEF FactsAfter, full
  <2>. HIDE DEF w
  <2>4. r.uninit = PlacesAfter(Term(function, b), w.uninit)
    BY <2>1, <2>2, WalkTerminatorPlaces
  <2>. HIDE DEF r
  <2>5. p \in PlacesAfter(Term(function, b), w.uninit)
    BY <1>1, <2>2 DEF PlacesAfter, InitialisedAll, Unwritten, p
  <2>6. k \in FactsAfter(function, b, AllFacts)
    BY <2>3, <2>4, <2>5 DEF FactsOf
  <2>7. k \in FactsOf(bind_arguments(function, b, full))
    <3>1. \A a \in ArgLocals(function, b) : ~is_prefix(Local(a), p)
      BY <1>1 DEF Unwritten, p
    <3>. QED
      BY <1>4, <3>1 DEF FactsOf, bind_arguments
  <2>8. graph.kill[b] = AllFacts \ FactsAfter(function, b, AllFacts)
        /\ graph.bound[b] = AllFacts \ FactsOf(bind_arguments(function, b, full))
    BY <1>2, GraphParts DEF Dropped, full
  <2>. HIDE DEF k
  <2>. QED
    BY <2>6, <2>7, <2>8
<1>6. ASSUME NEW b \in AllBlocks, b \notin Blocks(function)
      PROVE  graph.kill[b] = {} /\ graph.bound[b] = {}
  BY <1>2, <1>6 DEF GraphOf
<1>. QED
  BY <1>3, <1>5, <1>6 DEF Analysis!Lasting

\* g holds what is reached within each number of edges up to n.
Grows(f, n, g) ==
  g = [i \in 0..n |-> IF i = 0 THEN {f.entry}
                      ELSE LET seen == g[i - 1] IN seen \cup UNION {successors(f, b) : b \in seen}]

\* The blocks found in so many steps from the entry exist for each number of steps.
LEMMA GrowsExists ==
  ASSUME NEW f
  PROVE  \A n \in Nat : \E g : Grows(f, n, g)
<1> DEFINE T == {n \in Nat : \E g : Grows(f, n, g)}
           More(seen) == seen \cup UNION {successors(f, b) : b \in seen}
<1>1. 0 \in T
  <2> DEFINE g == [i \in 0..0 |-> {f.entry}]
  <2>1. Grows(f, 0, g)
    BY DEF Grows
  <2>. HIDE DEF g
  <2>. QED
    BY <2>1
<1>2. ASSUME NEW n \in Nat, n \in T PROVE n + 1 \in T
  <2>1. PICK g : Grows(f, n, g)
    BY <1>2
  <2> DEFINE h == [i \in 0..n+1 |-> IF i = n + 1 THEN More(g[n]) ELSE g[i]]
  <2>2. (\A i \in 0..n : h[i] = g[i]) /\ h[n + 1] = More(g[n]) /\ h = [i \in 0..n+1 |-> h[i]]
    OBVIOUS
  <2>. HIDE DEF h
  <2>3. ASSUME NEW i \in 0..n+1 PROVE h[i] = IF i = 0 THEN {f.entry} ELSE More(h[i - 1])
    <3>1. CASE i \in 0..n
      <4>1. g[i] = IF i = 0 THEN {f.entry} ELSE More(g[i - 1])
        BY <2>1, <3>1 DEF Grows
      <4>2. i # 0 => i - 1 \in 0..n
        BY <3>1
      <4>. HIDE DEF More
      <4>. QED
        BY <2>2, <3>1, <4>1, <4>2
    <3>2. CASE i = n + 1
      <4>1. i # 0 /\ i - 1 = n /\ n \in 0..n
        BY <3>2
      <4>. HIDE DEF More
      <4>. QED
        BY <2>2, <3>2, <4>1
    <3>. QED
      BY <3>1, <3>2
  <2>4. Grows(f, n + 1, h)
    BY <2>2, <2>3 DEF Grows
  <2>. QED
    BY <2>4
<1>. HIDE DEF T
<1>3. \A n \in Nat : n \in T
  BY <1>1, <1>2, Operands!Counting
<1>. QED
  BY <1>3 DEF T

\* What holds the entry and is closed under the edges holds what is reachable.
LEMMA ReachableIsLeast ==
  ASSUME NEW f \in Functions, NEW S, f.entry \in S, \A b \in S : successors(f, b) \subseteq S
  PROVE  Reachable(f) \subseteq S
<1> DEFINE n == Cardinality(Blocks(f))
           g == CHOOSE g : Grows(f, n, g)
<1>1. n \in Nat
  <2>1. IsSequence(f.blocks)
    BY FunctionsAssumption DEF WellFormed, EdgesBind
  <2>2. Len(f.blocks) \in Nat /\ Blocks(f) = 1..Len(f.blocks)
    BY <2>1, SequenceFacts DEF Blocks
  <2> DEFINE m == Len(f.blocks)
  <2>3. n = Cardinality(1..m) /\ m \in Nat
    BY <2>2
  <2>. HIDE DEF m, n
  <2>4. Cardinality(1..m) = IF 1 > m THEN 0 ELSE m - 1 + 1
    BY <2>3, FS_Interval
  <2>. QED
    BY <2>3, <2>4
<1>2. Reachable(f) = g[n]
  BY DEF Reachable, Grows
<1>3. Grows(f, n, g)
  BY <1>1, GrowsExists
<1>. HIDE DEF g, n
<1> DEFINE T == {i \in Nat : i <= n => g[i] \subseteq S}
<1>4. 0 \in T
  BY <1>1, <1>3 DEF Grows
<1>5. ASSUME NEW i \in Nat, i \in T PROVE i + 1 \in T
  <2>. SUFFICES ASSUME i + 1 <= n PROVE g[i + 1] \subseteq S
    OBVIOUS
  <2> DEFINE j == i + 1
  <2>1. j \in 0..n /\ j # 0 /\ j - 1 = i
    BY <1>1
  <2>2. g[i] \subseteq S
    BY <1>1, <1>5
  <2>. HIDE DEF j
  <2>3. g[j] = LET seen == g[j - 1] IN seen \cup UNION {successors(f, b) : b \in seen}
    BY <1>3, <2>1 DEF Grows
  <2>4. g[j] = g[i] \cup UNION {successors(f, b) : b \in g[i]}
    BY <2>1, <2>3
  <2>5. g[j] \subseteq S
    BY <2>2, <2>4
  <2>. QED
    BY <2>5 DEF j
<1>. HIDE DEF T
<1>6. \A i \in Nat : i \in T
  BY <1>4, <1>5, Operands!Counting
<1>. QED
  BY <1>1, <1>2, <1>6 DEF T

\* A function with a local that nothing writes: every block the program can enter
\* has been walked when the checker ends (check.rs:202-224).  Without such a local a
\* block whose entry would be empty is never pushed (check.rs:218).
THEOREM ReachableAreChecked == FSpec => [](HasUnwrittenLocal(function) => EveryBlockChecked)
<1>1. KnownInv => (HasUnwrittenLocal(function) => EveryBlockChecked)
  <2>. SUFFICES ASSUME KnownInv, HasUnwrittenLocal(function), Finished
                PROVE  Reachable(function) \subseteq processed
    BY DEF EveryBlockChecked
  <2>1. CheckerInv /\ function \in Functions /\ graph = GraphOf(function) /\ processed \subseteq Blocks(function)
    BY InvParts DEF KnownInv, CheckerInv
  <2>2. PICK k \in AllFacts : Analysis!Lasting(k)
    BY <2>1, UnwrittenLasts
  <2>3. Analysis!Done /\ \A b \in processed : Analysis!Settled(b)
    BY FinishedIsDone
  <2>4. Analysis!Met = processed
    BY <2>3 DEF Analysis!Met, Analysis!Done
  <2>5. function.entry \in processed
    <3>1. graph.root = function.entry
      BY <2>1 DEF GraphOf
    <3>. QED
      BY <2>4, <3>1 DEF KnownInv, Analysis!ReachInv
  <2>6. ASSUME NEW b \in processed PROVE successors(function, b) \subseteq processed
    <3>1. graph.succ[b] \subseteq Analysis!Met
      BY <2>2, <2>3 DEF KnownInv, Analysis!ReachInv, Analysis!Settled
    <3>. QED
      BY <2>1, <2>4, <3>1, GraphParts
  <2>. QED
    BY <2>1, <2>5, <2>6, ReachableIsLeast
<1>. QED
  BY <1>1, KnownAlways, PTL

\* The checker ends at a fixed point of all that it tracks, and decides as that does
\* (check.rs:204-223).
THEOREM EndsAtFixedPoint == FSpec => []FixedPoint
<1>1. FInit => Init
  BY DEF FInit
<1>2. [FNext]_<<vars, graph>> => [Next]_vars
  BY DEF FNext
<1>3. FSpec => []FixInv
  BY <1>1, <1>2, FixInit, FixStep, PTL DEF FSpec
<1>. QED
  BY <1>3, BorrowsAtEnd, VerdictAtEnd, PlacesAreSolved, PTL DEF FixedPoint
=============================================================================
