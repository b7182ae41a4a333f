---------------------------- MODULE BorrowCheck ----------------------------
(***************************************************************************)
(* The forward dataflow of the borrow checker, BorrowChecker::run          *)
(* (mir_borrow_check/src/check.rs): a last-in first-out worklist of        *)
(* blocks; a block popped from it is walked instruction by instruction     *)
(* from its entry state, and its exit state is then merged into the entry  *)
(* state of each successor, which is pushed when that changed it.          *)
(***************************************************************************)
EXTENDS BorrowRules

CONSTANTS
  Functions,       \* the functions that may be checked
  MaxBorrows       \* bound of the model on next_borrow_idx (a usize in the code)

ASSUME FunctionsAssumption == \A f \in Functions : WellFormed(f)
ASSUME MaxBorrowsAssumption == MaxBorrows \in Nat

VARIABLES
  function,        \* the function under check
  liveness,        \* compute_liveness of it
  entry_states,    \* [block -> dataflow state at its entry]
  worklist,        \* sequence of blocks, popped from the end
  in_worklist,     \* [block -> BOOLEAN]
  at,              \* where the checker is: the phase, the block and the index
                   \* of the instruction or edge it handles next
  state,           \* the dataflow state there, with errors and next_borrow_idx
  processed        \* the blocks walked at least once (history)

vars == <<function, liveness, entry_states, worklist, in_worklist, at, state, processed>>

Idle == [phase |-> "pop", block |-> 0, index |-> 0]

\* What the walk of a block starts from: a dataflow state, beside the errors and
\* the counter that the checker keeps.
WalkFrom(entry, errors, next) ==
  [errors |-> errors, next |-> next,
   borrows |-> entry.borrows, moved |-> entry.moved, uninit |-> entry.uninit]

Init ==
  /\ function \in Functions
  /\ liveness = compute_liveness(function)
  /\ entry_states =
       [b \in Blocks(function) |->
          IF b = function.entry
          THEN [EmptyState EXCEPT !.uninit = {Local(l) : l \in function.locals \ function.params}]
          ELSE EmptyState]
  /\ worklist = << function.entry >>
  /\ in_worklist = [b \in Blocks(function) |-> b = function.entry]
  /\ at = Idle
  /\ state = WalkFrom(EmptyState, {}, 0)
  /\ processed = {}

\* Mutant of PopWorklist: the flag stays set.
MutantFlagStays ==
  /\ at.phase = "pop"
  /\ worklist # << >>
  /\ state' = WalkFrom(entry_states[Last(worklist)], state.errors, state.next)
  /\ at' = [phase |-> "walk", block |-> Last(worklist), index |-> 1]
  /\ processed' = processed \cup {Last(worklist)}
  /\ worklist' = Front(worklist)
  /\ UNCHANGED <<function, liveness, entry_states, in_worklist>>

\* worklist.pop(); the walk starts from the entry state of the block.
PopWorklist ==
  /\ at.phase = "pop"
  /\ worklist # << >>
  /\ LET b == Last(worklist)
     IN  /\ in_worklist' = [in_worklist EXCEPT ![b] = FALSE]
         /\ state' = WalkFrom(entry_states[b], state.errors, state.next)
         /\ at' = [phase |-> "walk", block |-> b, index |-> 1]
         /\ processed' = processed \cup {b}
  /\ worklist' = Front(worklist)
  /\ UNCHANGED <<function, liveness, entry_states>>

\* The bound of the model: the counter is not taken past MaxBorrows.
BorrowRoom(st) ==
  (st.st = "assign" /\ st.rvalue.rv = "ref") => state.next < MaxBorrows

\* One statement and the liveness kill after it.
walk_statement(f, lv, s, b, i) ==
  apply_kills(f, process_statement(f, lv, s, Stmts(f, b)[i], <<b, i>>), lv.live_before[b][i + 1])

ProcessStatement ==
  LET b == at.block
      i == at.index
  IN  /\ at.phase = "walk"
      /\ i <= Len(Stmts(function, b))
      /\ BorrowRoom(Stmts(function, b)[i])
      /\ state' = walk_statement(function, liveness, state, b, i)
      /\ at' = [at EXCEPT !.index = @ + 1]
      /\ UNCHANGED <<function, liveness, entry_states, worklist, in_worklist, processed>>

\* The terminator; borrows flow into block arguments before the kill.
walk_terminator(f, lv, s, b) ==
  LET after == process_terminator(f, s, Term(f, b), <<b, InstrCount(f, b)>>)
  IN  apply_kills(f, propagate_edge_holders(f, after, b), lv.live_out[b])

ProcessTerminator ==
  LET b == at.block
  IN  /\ at.phase = "walk"
      /\ at.index = InstrCount(function, b)
      /\ state' = walk_terminator(function, liveness, state, b)
      /\ at' = [phase |-> "merge", block |-> b, index |-> 1]
      /\ UNCHANGED <<function, liveness, entry_states, worklist, in_worklist, processed>>

\* Mutant of push_worklist: a block that was walked is not walked again.
mutant_push_once(b) ==
  /\ worklist' = IF in_worklist[b] \/ b \in processed THEN worklist ELSE Append(worklist, b)
  /\ in_worklist' = [in_worklist EXCEPT ![b] = @ \/ b \notin processed]

push_worklist(b) ==
  /\ worklist' = IF in_worklist[b] THEN worklist ELSE Append(worklist, b)
  /\ in_worklist' = [in_worklist EXCEPT ![b] = TRUE]

\* Mutant of MergeChanges: every merge counts as a change.
mutant_always_changed(b) == b \in Blocks(function)

\* Whether the exit state adds anything to the entry of successor b.
MergeChanges(b) == merge_state(entry_states[b], state) # entry_states[b]

\* One successor edge of the block just walked.
MergeEdge ==
  LET edges == successor_edges(function, at.block)
      target == edges[at.index].to
  IN  /\ at.phase = "merge"
      /\ at.index <= Len(edges)
      /\ IF MergeChanges(target)
         THEN /\ entry_states' = [entry_states EXCEPT ![target] =
                   bind_arguments(function, target, merge_state(@, state))]
              /\ push_worklist(target)
         ELSE UNCHANGED <<entry_states, worklist, in_worklist>>
      /\ at' = [at EXCEPT !.index = @ + 1]
      /\ UNCHANGED <<function, liveness, state, processed>>

\* Mutant of EndBlock: the last edge may be left out.
MutantSkipsLastEdge ==
  /\ at.phase = "merge"
  /\ at.index >= Len(successor_edges(function, at.block))
  /\ at' = Idle
  /\ UNCHANGED <<function, liveness, entry_states, worklist, in_worklist, state, processed>>

\* The loop over the edges ends; back to the worklist.
EndBlock ==
  /\ at.phase = "merge"
  /\ at.index > Len(successor_edges(function, at.block))
  /\ at' = Idle
  /\ UNCHANGED <<function, liveness, entry_states, worklist, in_worklist, state, processed>>

\* The worklist is empty: a fixed point.
Finish ==
  /\ at.phase = "pop"
  /\ worklist = << >>
  /\ at' = [at EXCEPT !.phase = "done"]
  /\ UNCHANGED <<function, liveness, entry_states, worklist, in_worklist, state, processed>>

Finished == at.phase = "done"
Terminated == Finished /\ UNCHANGED vars

Step == PopWorklist \/ ProcessStatement \/ ProcessTerminator \/ MergeEdge \/ EndBlock \/ Finish
Next == Step \/ Terminated

\* The check is one sequential computation that nothing interrupts.
Spec == Init /\ [][Next]_vars /\ WF_vars(Step)

\* The result of the check: collect_errors is empty.
Accepted == Finished /\ state.errors = {}

(***************************************************************************)
(* Properties.                                                             *)
(***************************************************************************)
\* in_worklist tells what is in the worklist, where no block is twice: a block is
\* pushed again only after it was popped (check.rs:204-205, 226-231).
WorklistConsistent ==
  /\ IsInjective(worklist)
  /\ \A b \in Blocks(function) : in_worklist[b] <=> Contains(worklist, b)

\* Every block the execution can enter has been walked when the check ends: no
\* access of the function is left unchecked (check.rs:207-221).
EveryBlockChecked == Finished => Reachable(function) \subseteq processed

\* A local that starts uninitialised and that no instruction and no edge writes.
\* Where a function has one, every merge into a block not met before changes it.
Unwritten(f, p) ==
  \A b \in Blocks(f) :
    /\ \A st \in ToSet(Stmts(f, b)) :
         /\ st.st = "assign" => ~is_prefix(st.dest, p)
         /\ st.st = "set_discriminant" => ~is_prefix(st.place, p)
    /\ \A q \in ToSet(Term(f, b).dest) : ~is_prefix(q, p)
    /\ \A l \in ArgLocals(f, b) : ~is_prefix(Local(l), p)
HasUnwrittenLocal(f) == \E l \in f.locals \ f.params : Unwritten(f, Local(l))

\* The walk of a whole block.
process_block(f, lv, s, b) ==
  walk_terminator(f, lv,
    FoldLeft(LAMBDA acc, i : walk_statement(f, lv, acc, b, i), s, [i \in DOMAIN Stmts(f, b) |-> i]),
    b)

FinalWalk(b) ==
  process_block(function, liveness, WalkFrom(entry_states[b], {}, state.next), b)

\* A borrow is covered by another of the same kind and place that has at least
\* its holders.  Their numbers differ, and so may whether they are activated: the
\* merge keeps the record it finds, a reservation that a loop activates is one again
\* at the head of the loop (check.rs:324-334).
CoveredBorrow(br, borrows) ==
  \E c \in borrows : /\ c.kind = br.kind /\ c.source = br.source /\ c.two_phase = br.two_phase
                     /\ br.holders \subseteq c.holders

\* When the worklist runs empty the entry states solve the dataflow equations:
\* what leaves a block that was walked is known at the entry of every successor,
\* the moved and uninitialised places and the borrows.
PlacesSolve ==
  Finished =>
    \A b \in processed : \A n \in successors(function, b) :
      LET in == bind_arguments(function, n, merge_state(EmptyState, FinalWalk(b)))
      IN  /\ in.moved \subseteq entry_states[n].moved
          /\ in.uninit \subseteq entry_states[n].uninit
BorrowsSolve ==
  Finished =>
    \A b \in processed : \A n \in successors(function, b) :
      \A br \in FinalWalk(b).borrows : CoveredBorrow(br, entry_states[n].borrows)

\* The errors reported on the way, from states that were not final yet, decide
\* as the final states do: the verdict neither misses an error of the fixed
\* point nor rejects a function whose fixed point has none.
VerdictIsFinal ==
  Finished => (state.errors = {} <=> \A b \in processed : FinalWalk(b).errors = {})

\* The worklist ends at a fixed point, and its verdict is that of the fixed
\* point (check.rs:204-223).
FixedPoint == PlacesSolve /\ BorrowsSolve /\ VerdictIsFinal

\* A place known to be moved or uninitialised at a block entry is never forgotten,
\* except when it belongs to the arguments bound there (check.rs:207-221, 319-350).
FactsOnlyGrow ==
  [][\A b \in Blocks(function) :
       LET old == bind_arguments(function, b, entry_states[b])
       IN  /\ old.moved \subseteq entry_states'[b].moved
           /\ old.uninit \subseteq entry_states'[b].uninit]_vars

\* The check ends ("Run the borrow check to a fixed point", check.rs:188).
Termination == <>Finished
=============================================================================
