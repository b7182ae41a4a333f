--------------------------- MODULE MCBorrowFacts ---------------------------
(***************************************************************************)
(* What the checker knows of a function before it walks its blocks: which  *)
(* locals are live where, and, once that is computed, how the places of    *)
(* the function relate.  The relations are explored after the analysis of  *)
(* one of the functions; they do not depend on which.                      *)
(***************************************************************************)
EXTENDS MirLiveness, MirSamples

VARIABLES left, right      \* two places

(***************************************************************************)
(* Places.  Locals of every shape a place can go through: a struct with a  *)
(* scalar, a shared and a mutable reference, an enum, an array of structs, *)
(* a mutable and a shared slice, and references to those.                  *)
(***************************************************************************)
Leaf == Struct([u |-> Scalar])
Pair == Struct([u |-> Scalar, r |-> Ref(FALSE, Leaf), w |-> Ref(TRUE, Leaf)])

SampleFunction ==
  [ty |-> [x |-> Pair, p |-> Ref(TRUE, Pair), q |-> Ref(FALSE, Pair),
           e |-> Enum([some |-> Pair]), k |-> ArrayOf(Leaf), z |-> Slice(TRUE, Leaf),
           g |-> Ref(TRUE, Ref(FALSE, Leaf)), h |-> Leaf],
   mutable |-> {"x", "k", "h"},
   statics |-> {"h"}]

SampleSteps ==
  {DerefStep, FieldStep("u"), FieldStep("r"), FieldStep("w"), DowncastStep("some"),
   IndexStep("i"), IndexStep("j")}

Places == INSTANCE PlaceRelations WITH
  a <- left, b <- right, Function <- SampleFunction, Steps <- SampleSteps, MaxDepth <- 4

(***************************************************************************)
(* Functions.                                                              *)
(***************************************************************************)
\* SelfP uses the local it defines.
Acts == {WriteX, ReadX, ReadP, ShareX, SelfP, WriteP}

DiamondFunctions ==
  {Fn({"x", "t", "p", "q"}, {}, Diamond(<< a >>, << b >>, << c >>, << e >>)) :
     a \in Acts, b \in Acts, c \in Acts, e \in Acts}

LoopFunctions ==
  {Fn({"x", "t", "p", "q"}, {}, Loop(<< a >>, << b, c >>, << e >>)) :
     a \in Acts, b \in Acts, c \in Acts, e \in Acts}

\* A loop in a loop, whose blocks stand in an order that the sweeps go against.
NestedLoops(outer, inner, last) ==
  << BasicBlock(<< >>, << >>, Goto(4, << >>)),
     BasicBlock(<< >>, last, Return(<< >>)),
     BasicBlock(<< >>, inner, If(Copy(VarT), Edge(3, << >>), Edge(4, << >>))),
     BasicBlock(<< >>, outer, If(Const, Edge(3, << >>), Edge(2, << >>))) >>
NestedFunctions ==
  {Fn({"x", "t", "p", "q"}, {}, NestedLoops(<< a >>, << b >>, << c >>)) :
     a \in Acts, b \in Acts, c \in Acts}

\* The locals passed to and from a call and along an edge.
CallFunctions ==
  {Fn({"x", "t", "p", "q"}, {}, CallBetween(<< a >>, << o >>, << d >>, << e >>)) :
     a \in Acts, o \in {Copy(VarP), Move(Deref(VarP))}, d \in {VarX, Deref(VarQ)}, e \in Acts}
  \cup
  {Fn({"x", "t", "p", "q", "m"}, {},
      JoinArgument(<< a >>, << b >>, Copy(VarP), << >>, Copy(VarQ), << ReadM >>)) :
     a \in Acts, b \in Acts}

AllFunctions == DiamondFunctions \cup LoopFunctions \cup NestedFunctions \cup CallFunctions

(***************************************************************************)
(* Both.                                                                   *)
(***************************************************************************)
\* The function after which places are compared.
First == Fn({"x", "t", "p", "q"}, {}, Diamond(<< WriteX >>, << ReadX >>, << ReadP >>, << ShareX >>))

FactsInit ==
  /\ Init
  /\ \/ Places!Init /\ function = First
     \/ left = Local("x") /\ right = Local("x") /\ function # First

ComparePlaces == finished /\ function = First /\ Places!Next /\ UNCHANGED vars

FactsNext == (Next /\ UNCHANGED <<left, right>>) \/ ComparePlaces

FactsSpec ==
  FactsInit /\ [][FactsNext]_<<vars, left, right>> /\ WF_vars(VisitBlock \/ SweepAgain \/ Finish)

\* What the checker decides from the projections of two places is what their
\* memory says (place.rs:60-223).
RelationsMeanMemory == Places!RelationsMeanMemory
=============================================================================
