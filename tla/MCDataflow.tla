----------------------------- MODULE MCDataflow -----------------------------
(***************************************************************************)
(* Small graphs for DataflowPaths: three blocks with the branches, joins   *)
(* and loops they allow, one fact that blocks gen, kill and bind in every  *)
(* combination, and one that nothing settles.                              *)
(***************************************************************************)
EXTENDS DataflowPaths

CONSTANTS local, moved    \* a lasting fact, and one that comes and goes

Blocks == 1..3

Shapes ==
  { << {2}, {3}, {} >>,             \* a chain
    << {2, 3}, {3}, {} >>,          \* a branch and a join
    << {2, 3}, {}, {} >>,           \* a branch
    << {2}, {2, 3}, {} >>,          \* a loop of one block
    << {2}, {3}, {2} >>,            \* a loop of two blocks, never left
    << {2, 3}, {3}, {2} >>,         \* a loop with two entries
    << {1, 2}, {3}, {1} >> }        \* loops through the entry

Sets == SUBSET {moved}

SmallGraphs ==
  {[root |-> 1, start |-> start, succ |-> succ, gen |-> gen, kill |-> kill,
    bound |-> << {}, b, c >>] :
     start \in {{local}, {local, moved}, {moved}}, succ \in Shapes,
     gen \in [Blocks -> Sets], kill \in [Blocks -> Sets], b \in Sets, c \in Sets}
=============================================================================
