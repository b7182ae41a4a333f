-------------------------- MODULE Dataflow_proofs --------------------------
(***************************************************************************)
(* Proofs about the worklist of the borrow checker, for every graph, every *)
(* set of facts and every order in which blocks are taken: its types, that *)
(* an empty worklist is a solution (Solved), that every reachable block is *)
(* then walked if some fact lasts (AllReached), and that what is known at  *)
(* a block covers what is true there on every path (PathsCovered).         *)
(*                                                                         *)
(* None of the three is inductive.  FlowInv says what is known while the   *)
(* worklist still runs: a block that is neither pending nor current has    *)
(* been merged into all its successors, the current one into those that    *)
(* are not in todo.  ReachInv says that a lasting fact is at the entry of  *)
(* each block that is walked or pending, and that the other entries are    *)
(* empty: the merge that reaches such a block changes it.                  *)
(***************************************************************************)
EXTENDS DataflowPaths, TLAPS

(***************************************************************************)
(* The inductive invariants.                                               *)
(***************************************************************************)
Settled(b) == b \in visited /\ b \notin pending /\ b # current

\* The control state: only a block that is being merged has edges to do.
Control ==
  /\ current # None => current \in visited
  /\ current = None => todo = {} /\ exit = {}

FlowInv ==
  /\ TypeOK
  /\ Control
  /\ \A b \in Block : Settled(b) => \A s \in graph.succ[b] : Known(b, s)
  /\ current # None =>
       /\ current \notin pending => exit = Transfer(current, entry[current])
       /\ \A s \in graph.succ[current] \ todo : Cross(s, exit) \subseteq entry[s]

Met == visited \cup pending

ReachInv ==
  /\ graph.root \in Met
  /\ \A b \in Block \ Met : entry[b] = {}
  /\ \A f \in Fact : Lasting(f) =>
       /\ \A b \in Met : f \in entry[b]
       /\ current # None => f \in exit /\ graph.succ[current] \subseteq Met \cup todo
       /\ \A b \in visited : b # current => graph.succ[b] \subseteq Met

PathInv ==
  /\ here \in Block
  /\ true \subseteq Fact
  /\ graph.start \subseteq entry[graph.root]
  /\ ~Done => here = graph.root /\ true = graph.start
  /\ PathsCovered

(***************************************************************************)
(* Types.                                                                  *)
(***************************************************************************)
\* The fields of a graph have their types.
LEMMA GraphFields ==
  ASSUME NEW g \in Graph
  PROVE  /\ g.root \in Block
         /\ g.start \subseteq Fact
         /\ g.succ \in [Block -> SUBSET Block]
         /\ g.gen \in [Block -> SUBSET Fact]
         /\ g.kill \in [Block -> SUBSET Fact]
         /\ g.bound \in [Block -> SUBSET Fact]
         /\ g.start \cap g.bound[g.root] = {}
BY DEF Graph

\* What a block leaves and what an edge carries are facts.
LEMMA TransferType ==
  ASSUME graph \in Graph, NEW b \in Block, NEW facts \in SUBSET Fact
  PROVE  /\ Transfer(b, facts) \in SUBSET Fact
         /\ Cross(b, facts) \in SUBSET Fact
         /\ Cross(b, facts) \cap graph.bound[b] = {}
BY GraphFields DEF Transfer, Cross

LEMMA TypeInit == Init => TypeOK
<1>. SUFFICES ASSUME Init PROVE TypeOK
  OBVIOUS
<1>1. graph \in Graph
  BY GraphsAssumption DEF Init
<1>2. entry \in [Block -> SUBSET Fact]
  BY <1>1, GraphFields DEF Init
<1>3. \A b \in Block : entry[b] \cap graph.bound[b] = {}
  BY <1>1, GraphFields DEF Init
<1>. QED
  BY <1>1, <1>2, <1>3, GraphFields DEF Init, TypeOK

LEMMA TypeStep == TypeOK /\ [Next]_vars => TypeOK'
<1>. SUFFICES ASSUME TypeOK, [Next]_vars PROVE TypeOK'
  OBVIOUS
<1>. USE DEF TypeOK
<1>1. ASSUME NEW b \in Block, Take(b) PROVE TypeOK'
  <2>1. Transfer(b, entry[b]) \in SUBSET Fact
    BY TransferType
  <2>2. graph.succ[b] \in SUBSET Block
    BY GraphFields
  <2>. QED
    BY <1>1, <2>1, <2>2 DEF Take
<1>2. ASSUME NEW s \in Block, Merge(s) PROVE TypeOK'
  <2>1. graph' = graph /\ todo' \in SUBSET Block /\ pending' \in SUBSET Block
    BY <1>2 DEF Merge
  <2>2. /\ Cross(s, entry[s] \cup exit) \in SUBSET Fact
        /\ Cross(s, entry[s] \cup exit) \cap graph.bound[s] = {}
    BY TransferType
  <2>3. entry' = [entry EXCEPT ![s] = Cross(s, entry[s] \cup exit)]
    BY <1>2 DEF Merge
  <2>4. entry' \in [Block -> SUBSET Fact]
    BY <2>2, <2>3
  <2>5. \A b \in Block : entry'[b] \cap graph.bound[b] = {}
    BY <2>2, <2>3
  <2>. QED
    BY <1>2, <2>1, <2>4, <2>5 DEF Merge
<1>3. CASE EndBlock
  BY <1>3 DEF EndBlock
<1>4. CASE UNCHANGED vars
  BY <1>4 DEF vars
<1>. QED
  BY <1>1, <1>2, <1>3, <1>4 DEF Next, Terminated

\* The analysis keeps its types, and no block ever knows a fact about its own
\* arguments: merge_state is followed by the binding of the target's arguments
\* on every edge (check.rs:210-221).
THEOREM TypeCorrect == Spec => []TypeOK
<1>1. Init => TypeOK
  BY TypeInit
<1>2. TypeOK /\ [Next]_vars => TypeOK'
  BY TypeStep
<1>. QED
  BY <1>1, <1>2, PTL DEF Spec

(***************************************************************************)
(* Solved: the fixed point.                                                *)
(***************************************************************************)
\* A block's exit and what an edge carries grow with the facts.
LEMMA Monotone ==
  ASSUME NEW b, NEW facts, NEW more, facts \subseteq more
  PROVE  /\ Transfer(b, facts) \subseteq Transfer(b, more)
         /\ Cross(b, facts) \subseteq Cross(b, more)
BY DEF Transfer, Cross

\* A merge adds the facts of the exit that cross the edge, keeps the rest, and
\* changes nothing when the exit adds nothing.
LEMMA MergeEffect ==
  ASSUME TypeOK, NEW s \in Block, Merge(s)
  PROVE  /\ graph' = graph /\ exit' = exit /\ current' = current /\ visited' = visited
         /\ \A b \in Block \ {s} : entry'[b] = entry[b]
         /\ entry'[s] = entry[s] \cup Cross(s, exit)
         /\ s \notin pending' => entry' = entry
<1>1. entry' = [entry EXCEPT ![s] = Cross(s, entry[s] \cup exit)]
  BY DEF Merge
<1>2. entry[s] \cap graph.bound[s] = {} /\ entry \in [Block -> SUBSET Fact]
  BY DEF TypeOK
<1>3. Cross(s, entry[s] \cup exit) = entry[s] \cup Cross(s, exit)
  BY <1>2 DEF Cross
<1>4. ASSUME s \notin pending' PROVE entry' = entry
  <2>1. exit \subseteq entry[s]
    BY <1>4 DEF Merge
  <2>2. Cross(s, exit) \subseteq entry[s]
    BY <2>1 DEF Cross
  <2>. QED
    BY <1>1, <1>2, <1>3, <2>2
<1>. QED
  BY <1>1, <1>2, <1>3, <1>4 DEF Merge

LEMMA FlowInit == Init => FlowInv
BY TypeInit DEF Init, FlowInv, Control, Settled

LEMMA FlowStep == FlowInv /\ [Next]_vars => FlowInv'
<1>. SUFFICES ASSUME FlowInv, [Next]_vars PROVE FlowInv'
  OBVIOUS
<1>. TypeOK /\ TypeOK'
  BY TypeStep DEF FlowInv
<1>1. ASSUME NEW b \in Block, Take(b) PROVE FlowInv'
  <2>1. b # None
    BY NoneAssumption
  <2>2. Control'
    BY <1>1, <2>1 DEF Take, Control
  <2>3. ASSUME NEW c \in Block, Settled(c)', NEW s \in graph'.succ[c] PROVE Known(c, s)'
    <3>1. Settled(c)
      BY <1>1, <2>1, <2>3, NoneAssumption DEF Take, Settled
    <3>2. Known(c, s)
      BY <1>1, <2>3, <3>1 DEF FlowInv, Take
    <3>. QED
      BY <1>1, <3>2 DEF Take, Known, Cross, Transfer
  <2>4. (exit = Transfer(current, entry[current]))'
    BY <1>1 DEF Take, Transfer
  <2>5. (graph.succ[current] \ todo)' = {}
    BY <1>1 DEF Take
  <2>. QED
    BY <2>2, <2>3, <2>4, <2>5 DEF FlowInv
<1>2. ASSUME NEW s \in Block, Merge(s) PROVE FlowInv'
  <2>. /\ graph' = graph /\ exit' = exit /\ current' = current /\ visited' = visited
       /\ \A b \in Block \ {s} : entry'[b] = entry[b]
       /\ entry'[s] = entry[s] \cup Cross(s, exit)
       /\ s \notin pending' => entry' = entry
    BY <1>2, MergeEffect
  <2>. s \in todo /\ pending \subseteq pending' /\ (todo' = todo \/ todo' = todo \ {s})
    BY <1>2 DEF Merge
  <2>1. Control' /\ current # None
    BY DEF FlowInv, Control
  <2>2. \A b \in Block : entry[b] \subseteq entry'[b]
    OBVIOUS
  <2>3. ASSUME NEW b \in Block, b \notin pending' PROVE entry'[b] = entry[b]
    BY <2>3
  <2>4. ASSUME NEW c \in Block, Settled(c)', NEW t \in graph.succ[c] PROVE Known(c, t)'
    <3>1. Settled(c) /\ t \in Block
      BY <2>4, GraphFields DEF Settled, TypeOK
    <3>2. Known(c, t)
      BY <3>1 DEF FlowInv
    <3>3. entry'[c] = entry[c]
      BY <2>3, <2>4 DEF Settled
    <3>. QED
      BY <2>2, <3>1, <3>2, <3>3 DEF Known, Cross, Transfer
  <2>5. ASSUME current \notin pending' PROVE exit = Transfer(current, entry[current])'
    <3>1. current \in Block /\ current \notin pending
      BY <2>1, <2>5 DEF TypeOK
    <3>2. entry'[current] = entry[current]
      BY <2>3, <2>5, <3>1
    <3>. QED
      BY <2>1, <3>1, <3>2 DEF FlowInv, Transfer
  <2>6. ASSUME NEW t \in graph.succ[current] \ todo' PROVE Cross(t, exit) \subseteq entry'[t]
    <3>1. CASE t = s
      BY <3>1
    <3>2. CASE t # s
      <4>1. t \in graph.succ[current] \ todo /\ t \in Block
        BY <2>1, <2>6, <3>2, GraphFields DEF TypeOK
      <4>2. Cross(t, exit) \subseteq entry[t]
        BY <2>1, <4>1 DEF FlowInv
      <4>. QED
        BY <2>2, <4>1, <4>2
    <3>. QED
      BY <3>1, <3>2
  <2>. QED
    BY <2>1, <2>4, <2>5, <2>6 DEF FlowInv, Cross
<1>3. CASE EndBlock
  <2>1. Control'
    BY <1>3 DEF EndBlock, Control
  <2>2. ASSUME NEW c \in Block, Settled(c)', NEW s \in graph'.succ[c] PROVE Known(c, s)'
    <3>1. CASE c = current
      <4>1. /\ current # None /\ current \notin pending /\ todo = {}
            /\ s \in graph.succ[current]
        BY <1>3, <2>2, <3>1 DEF EndBlock, Settled
      <4>2. Cross(s, Transfer(current, entry[current])) \subseteq entry[s]
        BY <4>1 DEF FlowInv
      <4>. QED
        BY <1>3, <3>1, <4>2 DEF EndBlock, Known, Cross, Transfer
    <3>2. CASE c # current
      <4>1. Known(c, s)
        BY <1>3, <2>2, <3>2 DEF EndBlock, Settled, FlowInv
      <4>. QED
        BY <1>3, <4>1 DEF EndBlock, Known, Cross, Transfer
    <3>. QED
      BY <3>1, <3>2
  <2>. QED
    BY <1>3, <2>1, <2>2 DEF FlowInv, EndBlock
<1>4. CASE UNCHANGED vars
  BY <1>4 DEF FlowInv, vars, Control, Settled, Known, Cross, Transfer
<1>. QED
  BY <1>1, <1>2, <1>3, <1>4 DEF Next, Terminated

\* When the worklist runs empty, what leaves each walked block is known at the
\* entry of every successor: the loop "to a fixed point" of check.rs:188-223
\* ends in a solution whatever the graph and the order of the blocks.
THEOREM SolvedAtFixedPoint == Spec => []Solved
<1>1. Init => FlowInv
  BY FlowInit
<1>2. FlowInv /\ [Next]_vars => FlowInv'
  BY FlowStep
<1>3. FlowInv => Solved
  <2>. SUFFICES ASSUME FlowInv, Done, NEW b \in visited, NEW s \in graph.succ[b]
                PROVE  Known(b, s)
    BY DEF Solved
  <2>. QED
    BY NoneAssumption DEF FlowInv, TypeOK, Done, Settled
<1>. QED
  BY <1>1, <1>2, <1>3, PTL DEF Spec

(***************************************************************************)
(* AllReached: every reachable block is walked.                            *)
(***************************************************************************)
LEMMA ReachInit == Init => ReachInv
BY GraphsAssumption, GraphFields DEF Init, ReachInv, Met, Lasting

LEMMA ReachStep == FlowInv /\ ReachInv /\ [Next]_vars => ReachInv'
<1>. SUFFICES ASSUME FlowInv, ReachInv, [Next]_vars PROVE ReachInv'
  OBVIOUS
<1>. TypeOK /\ Control
  BY DEF FlowInv
<1>1. ASSUME NEW b \in Block, Take(b) PROVE ReachInv'
  <2>. /\ graph' = graph /\ entry' = entry /\ current' = b /\ todo' = graph.succ[b]
       /\ exit' = Transfer(b, entry[b]) /\ visited' = visited \cup {b}
       /\ pending' = pending \ {b} /\ b \in pending /\ current = None
    BY <1>1 DEF Take
  <2>1. Met' = Met
    BY DEF Met
  <2>2. \A f \in Fact : Lasting(f)' <=> Lasting(f)
    BY DEF Lasting
  <2>3. ASSUME NEW f \in Fact, Lasting(f)
        PROVE  /\ \A c \in Met' : f \in entry'[c]
               /\ f \in exit' /\ graph.succ[b] \subseteq Met' \cup todo'
               /\ \A c \in visited' : c # current' => graph.succ[c] \subseteq Met'
    <3>1. f \in entry[b]
      BY <2>3 DEF ReachInv, Met
    <3>2. f \in exit'
      BY <2>3, <3>1 DEF Transfer, Lasting
    <3>3. \A c \in visited : c # current => graph.succ[c] \subseteq Met
      BY <2>3 DEF ReachInv
    <3>4. \A c \in Met : f \in entry[c]
      BY <2>3 DEF ReachInv
    <3>. QED
      BY <2>1, <3>2, <3>3, <3>4, NoneAssumption DEF TypeOK
  <2>. QED
    BY <2>1, <2>2, <2>3 DEF ReachInv
<1>2. ASSUME NEW s \in Block, Merge(s) PROVE ReachInv'
  <2>. /\ graph' = graph /\ exit' = exit /\ current' = current /\ visited' = visited
       /\ \A b \in Block \ {s} : entry'[b] = entry[b]
       /\ entry'[s] = entry[s] \cup Cross(s, exit)
       /\ s \notin pending' => entry' = entry
    BY <1>2, MergeEffect
  <2>. /\ s \in todo /\ (todo' = todo \/ todo' = todo \ {s})
       /\ pending' = pending \cup {s} \/ pending' = pending
    BY <1>2 DEF Merge
  <2>1. Met \subseteq Met' /\ Met' \subseteq Met \cup {s} /\ graph.root \in Met'
    BY DEF Met, ReachInv
  <2>2. \A b \in Block \ Met' : entry'[b] = {}
    <3>1. ASSUME NEW b \in Block, b \notin Met' PROVE entry'[b] = entry[b]
      BY <3>1 DEF Met
    <3>. QED
      BY <2>1, <3>1 DEF ReachInv
  <2>3. \A f \in Fact : Lasting(f)' <=> Lasting(f)
    BY DEF Lasting
  <2>4. ASSUME NEW f \in Fact, Lasting(f)
        PROVE  /\ \A c \in Met' : f \in entry'[c]
               /\ f \in exit /\ graph.succ[current] \subseteq Met' \cup todo'
               /\ \A c \in visited : c # current => graph.succ[c] \subseteq Met'
    <3>1. f \in exit /\ graph.succ[current] \subseteq Met \cup todo
      BY <2>4 DEF ReachInv, Control
    <3>2. f \in entry'[s]
      BY <2>4, <3>1 DEF Cross, Lasting
    <3>3. \A c \in Met : f \in entry[c]
      BY <2>4 DEF ReachInv
    <3>4. \A c \in Met' : f \in entry'[c]
      BY <2>1, <3>2, <3>3 DEF Met, TypeOK
    <3>5. s \in Met'
      <4>1. CASE s \in pending'
        BY <4>1 DEF Met
      <4>2. CASE s \notin pending'
        <5>1. s \in Met
          BY <3>2, <4>2 DEF ReachInv
        <5>. QED
          BY <2>1, <5>1
      <4>. QED
        BY <4>1, <4>2
    <3>6. \A c \in visited : c # current => graph.succ[c] \subseteq Met
      BY <2>4 DEF ReachInv
    <3>. QED
      BY <2>1, <3>1, <3>4, <3>5, <3>6
  <2>. QED
    BY <2>1, <2>2, <2>3, <2>4 DEF ReachInv
<1>3. CASE EndBlock
  <2>. /\ graph' = graph /\ entry' = entry /\ pending' = pending /\ visited' = visited
       /\ current' = None /\ todo = {} /\ current # None
    BY <1>3 DEF EndBlock
  <2>1. Met' = Met /\ \A f \in Fact : Lasting(f)' <=> Lasting(f)
    BY DEF Met, Lasting
  <2>2. ASSUME NEW f \in Fact, Lasting(f), NEW c \in visited PROVE graph.succ[c] \subseteq Met
    BY <2>2 DEF ReachInv
  <2>. QED
    BY <2>1, <2>2 DEF ReachInv
<1>4. CASE UNCHANGED vars
  BY <1>4 DEF ReachInv, vars, Met, Lasting
<1>. QED
  BY <1>1, <1>2, <1>3, <1>4 DEF Next, Terminated

\* No reachable block goes unchecked, provided that one fact holds at the entry
\* and is never settled: then each first merge into a block changes its entry
\* and pushes it (check.rs:210-221, 226-231).
THEOREM EveryBlockReached == Spec => []AllReached
<1>1. Init => FlowInv /\ ReachInv
  BY FlowInit, ReachInit
<1>2. FlowInv /\ ReachInv /\ [Next]_vars => (FlowInv /\ ReachInv)'
  BY FlowStep, ReachStep
<1>3. FlowInv /\ ReachInv => AllReached
  BY NoneAssumption DEF FlowInv, TypeOK, ReachInv, AllReached, Done, Met
<1>. QED
  BY <1>1, <1>2, <1>3, PTL DEF Spec

(***************************************************************************)
(* PathsCovered: the analysis misses nothing on any path.                  *)
(***************************************************************************)
LEMMA PathInit == PInit => PathInv
<1>. SUFFICES ASSUME PInit PROVE PathInv
  OBVIOUS
<1>1. graph \in Graph /\ here = graph.root /\ true = graph.start /\ ~Done
  BY GraphsAssumption DEF PInit, Init, Done
<1>. QED
  BY <1>1, GraphFields DEF PInit, Init, PathInv, PathsCovered

LEMMA PathStep ==
  FlowInv /\ ReachInv /\ PathInv /\ [PNext]_<<vars, pathVars>> => PathInv'
<1>. SUFFICES ASSUME FlowInv, ReachInv, PathInv, [PNext]_<<vars, pathVars>> PROVE PathInv'
  OBVIOUS
<1>. TypeOK
  BY DEF FlowInv
<1>1. CASE Analyse
  <2>. here' = here /\ true' = true
    BY <1>1 DEF Analyse, pathVars
  <2>1. CASE Done
    <3>1. UNCHANGED vars
      BY <1>1, <2>1, NoneAssumption
         DEF Analyse, Next, Take, Merge, EndBlock, Terminated, Done, FlowInv, Control
    <3>. QED
      BY <3>1 DEF PathInv, PathsCovered, Done, Lasting, vars
  <2>2. CASE ~Done
    <3>1. graph' = graph
      BY <1>1 DEF Analyse, Next, Take, Merge, EndBlock, Terminated, vars
    <3>2. here = graph.root /\ true = graph.start /\ graph.start \subseteq entry[graph.root]
      BY <2>2 DEF PathInv
    <3>3. \A b \in Block : entry[b] \subseteq entry'[b]
      <4>1. ASSUME NEW s \in Block, Merge(s) PROVE \A b \in Block : entry[b] \subseteq entry'[b]
        BY <4>1, MergeEffect
      <4>2. ASSUME NEW b \in Block, Take(b) PROVE entry' = entry
        BY <4>2 DEF Take
      <4>. QED
        BY <1>1, <4>1, <4>2 DEF Analyse, Next, EndBlock, Terminated, vars
    <3>4. graph.root \in Block
      BY GraphFields DEF TypeOK
    <3>5. ASSUME Done' PROVE here \in visited'
      <4>1. FlowInv' /\ ReachInv'
        BY <1>1, FlowStep, ReachStep DEF Analyse
      <4>. QED
        BY <3>1, <3>2, <3>5, <4>1 DEF ReachInv, Met, Done
    <3>. QED
      BY <3>1, <3>2, <3>3, <3>4, <3>5 DEF PathInv, PathsCovered
  <2>. QED
    BY <2>1, <2>2
<1>2. ASSUME NEW s \in Block, Follow(s) PROVE PathInv'
  <2>. /\ Done /\ s \in graph.succ[here] /\ here' = s
       /\ true' = Cross(s, Transfer(here, true)) /\ UNCHANGED vars
    BY <1>2 DEF Follow
  <2>1. true' \subseteq Fact
    <3>1. Transfer(here, true) \in SUBSET Fact
      BY TransferType DEF PathInv, TypeOK
    <3>. QED
      BY <3>1, TransferType DEF TypeOK
  <2>2. ASSUME NEW f \in Fact, Lasting(f) PROVE s \in visited /\ true' \subseteq entry[s]
    <3>1. here \in visited /\ true \subseteq entry[here]
      BY <2>2 DEF PathInv, PathsCovered
    <3>2. s \in visited
      BY <2>2, <3>1, NoneAssumption DEF ReachInv, Met, Done, TypeOK
    <3>3. Settled(here)
      BY <3>1, NoneAssumption DEF Settled, Done, PathInv
    <3>4. Cross(s, Transfer(here, entry[here])) \subseteq entry[s]
      BY <3>3 DEF FlowInv, Known, PathInv
    <3>5. Transfer(here, true) \subseteq Transfer(here, entry[here])
      BY <3>1, Monotone
    <3>6. true' \subseteq Cross(s, Transfer(here, entry[here]))
      BY <3>5, Monotone
    <3>. QED
      BY <3>2, <3>4, <3>6
  <2>. QED
    BY <2>1, <2>2 DEF PathInv, PathsCovered, Done, Lasting, vars
<1>3. CASE UNCHANGED <<vars, pathVars>>
  BY <1>3 DEF PathInv, PathsCovered, Done, Lasting, vars, pathVars
<1>. QED
  BY <1>1, <1>2, <1>3 DEF PNext

\* On every path through the function and after any number of blocks, what is
\* true there is known to the checker: no moved and no uninitialised place is
\* missed (lib.rs:50-52), in a function where some fact lasts.
THEOREM NothingMissed == PSpec => []PathsCovered
<1> DEFINE Inv == FlowInv /\ ReachInv /\ PathInv
<1>1. PInit => Inv
  BY FlowInit, ReachInit, PathInit DEF PInit
<1>2. Inv /\ [PNext]_<<vars, pathVars>> => Inv'
  <2>. SUFFICES ASSUME Inv, [PNext]_<<vars, pathVars>> PROVE Inv'
    OBVIOUS
  <2>1. [Next]_vars
    BY DEF PNext, Analyse, Follow
  <2>. QED
    BY <2>1, FlowStep, ReachStep, PathStep
<1>3. Inv => PathsCovered
  BY DEF PathInv
<1>. QED
  BY <1>1, <1>2, <1>3, PTL DEF PSpec
=============================================================================
