----------------------------- MODULE BorrowFlow -----------------------------
(***************************************************************************)
(* BorrowCheck implements Dataflow.  The facts are the moved and the       *)
(* uninitialised places; a block generates the facts that it leaves from   *)
(* an empty state, and kills those that do not survive it.                 *)
(***************************************************************************)
EXTENDS BorrowCheck

VARIABLE graph     \* the function's control-flow graph, as Dataflow sees it

CONSTANT NoBlock

ASSUME NoBlockAssumption == \A f \in Functions : NoBlock \notin Blocks(f)

FactsOf(s) == ({"moved"} \X s.moved) \cup ({"uninit"} \X s.uninit)

StateWith(facts) ==
  WalkFrom([borrows |-> {},
            moved |-> {f[2] : f \in {f \in facts : f[1] = "moved"}},
            uninit |-> {f[2] : f \in {f \in facts : f[1] = "uninit"}}],
           {}, 0)

StartFacts(f) == {"uninit"} \X {Local(l) : l \in f.locals \ f.params}

\* Liveness ends borrows and has no part in these facts.
NothingLive(f) ==
  [live_out |-> [b \in Blocks(f) |-> {}],
   live_before |-> [b \in Blocks(f) |-> [i \in 1..InstrCount(f, b) |-> {}]],
   call_once |-> {}]

FactsAfter(f, b, facts) == FactsOf(process_block(f, NothingLive(f), StateWith(facts), b))

AllFacts ==
  UNION {StartFacts(f) \cup UNION {FactsAfter(f, b, {}) : b \in Blocks(f)} : f \in Functions}

AllBlocks == UNION {Blocks(f) : f \in Functions}

\* Blocks that a function lacks have no edges and no facts.
GraphOf(f) ==
  LET per_block(value(_)) == [b \in AllBlocks |-> IF b \in Blocks(f) THEN value(b) ELSE {}]
  IN  [root |-> f.entry,
       start |-> StartFacts(f),
       succ |-> per_block(LAMBDA b : successors(f, b)),
       gen |-> per_block(LAMBDA b : FactsAfter(f, b, {})),
       kill |-> per_block(LAMBDA b : AllFacts \ FactsAfter(f, b, AllFacts)),
       bound |-> per_block(LAMBDA b :
                   AllFacts \ FactsOf(bind_arguments(f, b, StateWith(AllFacts))))]

AllGraphs == {GraphOf(f) : f \in Functions}

FInit == Init /\ graph = GraphOf(function)
FNext == Next /\ graph' = graph
FSpec == FInit /\ [][FNext]_<<vars, graph>> /\ WF_<<vars, graph>>(Step /\ graph' = graph)

(***************************************************************************)
(* The variables of Dataflow.                                              *)
(***************************************************************************)
InBlock == at.phase \in {"walk", "merge"}
Entry(b) == IF b \in Blocks(function) THEN FactsOf(entry_states[b]) ELSE {}
Entries == [b \in AllBlocks |-> Entry(b)]
Current == IF InBlock THEN at.block ELSE NoBlock

\* The walk of a block is one step of Dataflow.
Exit ==
  CASE at.phase = "walk" -> (Entry(at.block) \ graph.kill[at.block]) \cup graph.gen[at.block]
    [] at.phase = "merge" -> FactsOf(state)
    [] OTHER -> {}

\* The successors along the edges from the one at hand on.
Todo ==
  CASE at.phase = "walk" -> graph.succ[at.block]
    [] at.phase = "merge" ->
         LET edges == successor_edges(function, at.block)
         IN  {edges[i].to : i \in at.index..Len(edges)}
    [] OTHER -> {}

Flow ==
  INSTANCE Dataflow WITH
    Block <- AllBlocks,
    Fact <- AllFacts,
    None <- NoBlock,
    Graphs <- AllGraphs,
    entry <- Entries,
    pending <- ToSet(worklist),
    current <- Current,
    exit <- Exit,
    todo <- Todo,
    visited <- processed

\* The checker's worklist, with its LIFO order, its in_worklist flags and the
\* walk of a block instruction by instruction, is the abstract may analysis of
\* moved and uninitialised places (check.rs:189-258, 319-350): what is proved
\* of the analysis holds of the checker.
RefinesDataflow == Flow!Spec
=============================================================================
