--------------------------- MODULE DataflowPaths ---------------------------
(***************************************************************************)
(* The worklist and, once it is empty, an execution of the function: a     *)
(* walk along the edges that carries the facts true on its path.           *)
(***************************************************************************)
EXTENDS Dataflow

VARIABLES
  here,      \* the block the execution is about to run
  true       \* the facts true there, on the path taken

pathVars == <<here, true>>

PInit == Init /\ here = graph.root /\ true = graph.start

Analyse == Next /\ UNCHANGED pathVars

\* The execution runs the block and follows one of its edges.
Follow(s) ==
  /\ Done
  /\ s \in graph.succ[here]
  /\ here' = s
  /\ true' = Cross(s, Transfer(here, true))
  /\ UNCHANGED vars

PNext == Analyse \/ \E s \in Block : Follow(s)
PSpec == PInit /\ [][PNext]_<<vars, pathVars>>

\* What the checker knows at a block entry covers what is true there, on every
\* path and after any number of steps: the analysis misses no moved and no
\* uninitialised place ("never accepts memory-unsafe ones", lib.rs:50-52).
PathsCovered ==
  (Done /\ \E f \in Fact : Lasting(f)) => here \in visited /\ true \subseteq entry[here]
=============================================================================
