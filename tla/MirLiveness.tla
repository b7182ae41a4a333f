---------------------------- MODULE MirLiveness ----------------------------
(***************************************************************************)
(* The loop of compute_liveness (mir_borrow_check/src/liveness.rs): sweeps *)
(* over the blocks in positional order, each block reading the live_in its *)
(* successors have at that moment, until a sweep changes nothing.          *)
(***************************************************************************)
EXTENDS LivenessOps

CONSTANT Functions       \* the functions the pass is run on

ASSUME FunctionsAssumption == \A f \in Functions : WellFormed(f)

VARIABLES
  function,      \* the function under analysis
  live_in,       \* [block -> locals live at its entry]
  live_out,      \* [block -> locals live after its terminator]
  live_before,   \* [block -> liveness before each instruction, << >> at first]
  next_block,    \* the block the sweep visits next
  changed,       \* whether this sweep changed anything
  finished

vars == <<function, live_in, live_out, live_before, next_block, changed, finished>>

Init ==
  /\ function \in Functions
  /\ live_in = [b \in Blocks(function) |-> {}]
  /\ live_out = [b \in Blocks(function) |-> {}]
  /\ live_before = [b \in Blocks(function) |-> << >>]
  /\ next_block = 1
  /\ changed = FALSE
  /\ finished = FALSE

\* The join over the successors, as they stand.
new_out(b) == UNION {live_in[s] : s \in successors(function, b)}

\* Mutant of VisitBlock: every visit counts as a change.
MutantAlwaysChanged ==
  /\ ~finished
  /\ next_block \in Blocks(function)
  /\ LET b == next_block
         before == per_stmt(function, b, new_out(b))
     IN  /\ live_out' = [live_out EXCEPT ![b] = new_out(b)]
         /\ live_before' = [live_before EXCEPT ![b] = before]
         /\ live_in' = [live_in EXCEPT ![b] = before[1]]
  /\ changed' = TRUE
  /\ next_block' = next_block + 1
  /\ UNCHANGED <<function, finished>>

\* One iteration of `for b in 0..nblocks`.
VisitBlock ==
  /\ ~finished
  /\ next_block \in Blocks(function)
  /\ LET b == next_block
         before == per_stmt(function, b, new_out(b))
     IN  /\ live_out' = [live_out EXCEPT ![b] = new_out(b)]
         /\ live_before' = [live_before EXCEPT ![b] = before]
         /\ live_in' = [live_in EXCEPT ![b] = before[1]]
         /\ changed' = (changed \/ live_out'[b] # live_out[b] \/ before # live_before[b])
  /\ next_block' = next_block + 1
  /\ UNCHANGED <<function, finished>>

\* The end of a sweep that changed something starts another.
SweepAgain ==
  /\ ~finished
  /\ next_block = Len(function.blocks) + 1
  /\ changed
  /\ next_block' = 1
  /\ changed' = FALSE
  /\ UNCHANGED <<function, live_in, live_out, live_before, finished>>

Finish ==
  /\ ~finished
  /\ next_block = Len(function.blocks) + 1
  /\ ~changed
  /\ finished' = TRUE
  /\ UNCHANGED <<function, live_in, live_out, live_before, next_block, changed>>

Terminated == finished /\ UNCHANGED vars

Next == VisitBlock \/ SweepAgain \/ Finish \/ Terminated

\* The pass is one sequential computation that nothing interrupts.
Spec == Init /\ [][Next]_vars /\ WF_vars(VisitBlock \/ SweepAgain \/ Finish)

(***************************************************************************)
(* Properties.                                                             *)
(***************************************************************************)
\* The instructions of f, and which may run right after which.
Points(f) == UNION {{<<b, i>> : i \in 1..InstrCount(f, b)} : b \in Blocks(f)}
RunsAfter(f, p, q) ==
  \/ q = <<p[1], p[2] + 1>>
  \/ /\ p[2] = InstrCount(f, p[1])
     /\ q[1] \in successors(f, p[1]) /\ q[2] = 1

UsesAt(f, p) == ToSet(InstrUses(f, p[1], p[2]))
DefsAt(f, p) == InstrDefs(f, p[1], p[2])

\* The instructions that use l, and those that may run right before nearer and
\* do not define l.
UsesOf(f, l) == {p \in Points(f) : l \in UsesAt(f, p) \ DefsAt(f, p)}
Before(f, l, nearer) ==
  {p \in Points(f) : l \notin DefsAt(f, p) /\ \E q \in nearer : RunsAfter(f, p, q)}

\* The instructions from which some path leads to a use of l, in at most as many
\* steps as there are instructions, that do not define l.
UsedAhead(f, l) ==
  LET within[n \in 0..Cardinality(Points(f))] ==
        IF n = 0 THEN UsesOf(f, l)
        ELSE LET nearer == within[n - 1] IN nearer \cup Before(f, l, nearer)
  IN  within[Cardinality(Points(f))]

\* A local is live before an instruction exactly when some path from it reaches
\* a use before any definition; a use by an instruction that defines the same
\* local does not count, against the formula in the comment of liveness.rs:146
\* (liveness.rs:131-163).
LiveIsUsedAhead ==
  finished =>
    \A l \in function.locals :
      UsedAhead(function, l) = {p \in Points(function) : l \in live_before[p[1]][p[2]]}

\* The sweeps come to an end ("to a fixed point", liveness.rs:124).
Termination == <>finished
=============================================================================
