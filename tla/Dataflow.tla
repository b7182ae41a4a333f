------------------------------ MODULE Dataflow ------------------------------
(***************************************************************************)
(* What the borrow checker's worklist promises about the facts it carries  *)
(* along the control-flow graph (mir_borrow_check/src/check.rs): a forward *)
(* may analysis.  A fact is "this place may be moved" or "this place may   *)
(* be uninitialised"; a block keeps a fact unless it kills it and adds the *)
(* ones it generates; an edge drops the facts about the block arguments it *)
(* binds.  The order in which pending blocks are taken is left open.       *)
(***************************************************************************)
EXTENDS Naturals

CONSTANTS
  Block,     \* the basic blocks
  Fact,      \* the facts about places
  Graphs,    \* the control-flow graphs that may be analysed
  None       \* no block

\* start: the facts at the function entry; bound: the facts about the
\* arguments of a block, which its incoming edges settle.
Graph ==
  {g \in [root : Block, start : SUBSET Fact, succ : [Block -> SUBSET Block],
          gen : [Block -> SUBSET Fact], kill : [Block -> SUBSET Fact],
          bound : [Block -> SUBSET Fact]] :
     g.start \cap g.bound[g.root] = {}}

ASSUME NoneAssumption == None \notin Block
ASSUME GraphsAssumption == Graphs \subseteq Graph

VARIABLES
  graph,     \* [root, start, succ, gen, kill, bound]: the function's graph
  entry,     \* [block -> facts known at its entry]
  pending,   \* the blocks on the worklist
  current,   \* the block whose exit is being merged, or None
  exit,      \* the facts at the exit of that block
  todo,      \* the successors it has still to be merged into
  visited    \* the blocks taken at least once

vars == <<graph, entry, pending, current, exit, todo, visited>>

Transfer(b, facts) == (facts \ graph.kill[b]) \cup graph.gen[b]

\* The facts that cross the edge into s.
Cross(s, facts) == facts \ graph.bound[s]

Init ==
  /\ graph \in Graphs
  /\ entry = [b \in Block |-> IF b = graph.root THEN graph.start ELSE {}]
  /\ pending = {graph.root}
  /\ current = None
  /\ exit = {}
  /\ todo = {}
  /\ visited = {}

\* A pending block is walked from its entry facts.
Take(b) ==
  /\ current = None
  /\ b \in pending
  /\ pending' = pending \ {b}
  /\ current' = b
  /\ exit' = Transfer(b, entry[b])
  /\ todo' = graph.succ[b]
  /\ visited' = visited \cup {b}
  /\ UNCHANGED <<graph, entry>>

\* Mutants of Merge: the facts about the arguments of s cross the edge; s is not
\* pending again once it was walked; the exit replaces what was known.
MutantUnboundMerge(s) ==
  /\ s \in todo
  /\ entry' = [entry EXCEPT ![s] = @ \cup exit]
  /\ pending' = pending \cup {s}
  /\ todo' = todo \ {s}
  /\ UNCHANGED <<graph, current, exit, visited>>
MutantMergeOnce(s) ==
  /\ s \in todo
  /\ entry' = [entry EXCEPT ![s] = Cross(s, @ \cup exit)]
  /\ pending' = pending \cup ({s} \ visited)
  /\ todo' = todo \ {s}
  /\ UNCHANGED <<graph, current, exit, visited>>
MutantMergeReplaces(s) ==
  /\ s \in todo
  /\ entry' = [entry EXCEPT ![s] = Cross(s, exit)]
  /\ pending' = IF exit \subseteq entry[s] THEN pending ELSE pending \cup {s}
  /\ todo' = todo \ {s}
  /\ UNCHANGED <<graph, current, exit, visited>>

\* The exit is merged into successor s, which is pending again when that adds a
\* fact; it may be without (borrows are compared too).  Two edges may lead to s.
Merge(s) ==
  /\ s \in todo
  /\ entry' = [entry EXCEPT ![s] = Cross(s, @ \cup exit)]
  /\ \/ pending' = pending \cup {s}
     \/ /\ exit \subseteq entry[s]
        /\ pending' = pending
  /\ todo' \in {todo, todo \ {s}}
  /\ UNCHANGED <<graph, current, exit, visited>>

\* Mutant of EndBlock: some edges may be left out.
MutantEndsEarly ==
  /\ current # None
  /\ current' = None
  /\ exit' = {}
  /\ todo' = {}
  /\ UNCHANGED <<graph, entry, pending, visited>>

\* Every edge is done.
EndBlock ==
  /\ current # None
  /\ todo = {}
  /\ current' = None
  /\ exit' = {}
  /\ UNCHANGED <<graph, entry, pending, todo, visited>>

Done == current = None /\ pending = {}
Terminated == Done /\ UNCHANGED vars

Next ==
  \/ \E b \in Block : Take(b)
  \/ \E s \in Block : Merge(s)
  \/ EndBlock
  \/ Terminated

Spec == Init /\ [][Next]_vars

(***************************************************************************)
(* Properties.                                                             *)
(***************************************************************************)
\* Types, and that no block knows a fact about its own arguments.
TypeOK ==
  /\ graph \in Graph
  /\ entry \in [Block -> SUBSET Fact]
  /\ pending \in SUBSET Block
  /\ current \in Block \cup {None}
  /\ exit \in SUBSET Fact
  /\ todo \in SUBSET Block
  /\ visited \in SUBSET Block
  /\ \A b \in Block : entry[b] \cap graph.bound[b] = {}

\* The facts a walked block hands to a successor.
Known(b, s) == Cross(s, Transfer(b, entry[b])) \subseteq entry[s]

\* When the worklist is empty the facts solve the equations of the analysis for
\* every block that was walked (check.rs:204-223).
Solved == Done => \A b \in visited : \A s \in graph.succ[b] : Known(b, s)

\* Every edge out of a walked block leads to a block that was walked, provided
\* that some fact of the entry is never killed or bound: without it, a merge may
\* change nothing and the successor is not pushed (check.rs:210-221, 349).
Lasting(f) ==
  /\ f \in graph.start
  /\ \A b \in Block : f \notin graph.kill[b] /\ f \notin graph.bound[b]
AllReached ==
  (Done /\ \E f \in Fact : Lasting(f)) => \A b \in visited : graph.succ[b] \subseteq visited
=============================================================================
