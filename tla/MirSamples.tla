----------------------------- MODULE MirSamples -----------------------------
(***************************************************************************)
(* Small MIR functions for the model checker: control-flow skeletons whose *)
(* blocks are filled with every combination of a few statements.           *)
(*                                                                         *)
(* The locals are a mutable scalar x, a scalar t, a mutable pair s with    *)
(* fields a and b, two references p and q, a block argument m of reference *)
(* type, a reference g to a reference, and a scalar d that nothing writes, *)
(* so that every state has at least one uninitialised place.               *)
(***************************************************************************)
EXTENDS MirFunction

VarX == Local("x")
VarT == Local("t")
VarS == Local("s")
VarP == Local("p")
VarQ == Local("q")
VarM == Local("m")
VarG == Local("g")
SA == Field(VarS, "a")
SB == Field(VarS, "b")

LocalTypes ==
  [l \in {"x", "t", "d", "s", "p", "q", "m", "g"} |->
     CASE l \in {"x", "t", "d"} -> Scalar
       [] l = "s" -> Struct([a |-> Scalar, b |-> Scalar])
       [] l = "g" -> Ref(TRUE, Ref(TRUE, Scalar))
       [] OTHER -> Ref(TRUE, Scalar)]

Fn(locals, params, blocks) ==
  [ty |-> LocalTypes, mutable |-> {"x", "s"}, statics |-> {},
   locals |-> locals, params |-> params, entry |-> 1, blocks |-> blocks]

WriteX == Assign(VarX, Use(Const))
ReadX == Assign(VarT, Use(Copy(VarX)))
MoveX == Assign(VarT, Use(Move(VarX)))
ShareX == Assign(VarP, RefOf("shared", VarX))
BorrowX == Assign(VarP, RefOf("mutable", VarX))
ShareXq == Assign(VarQ, RefOf("shared", VarX))
BorrowXq == Assign(VarQ, RefOf("mutable", VarX))
CopyP == Assign(VarQ, Use(Copy(VarP)))
SelfP == Assign(VarP, Use(Copy(VarP)))
ReadP == Assign(VarT, Use(Copy(Deref(VarP))))
ReadQ == Assign(VarT, Use(Copy(Deref(VarQ))))
ReadGG == Assign(VarT, Use(Copy(Deref(Deref(VarG)))))
WriteP == Assign(Deref(VarP), Use(Const))
DeadX == StorageDead("x")

\* The same accesses on the pair s and its fields.
InitS == Assign(VarS, Use(Const))
MoveM == Assign(VarQ, Use(Move(VarM)))
ReadM == Assign(VarT, Use(Copy(Deref(VarM))))
ReadA == Assign(VarT, Use(Copy(SA)))
WriteA == Assign(SA, Use(Const))
WriteB == Assign(SB, Use(Const))
MoveA == Assign(VarT, Use(Move(SA)))
ShareA == Assign(VarP, RefOf("shared", SA))
BorrowA == Assign(VarP, RefOf("mutable", SA))
BorrowB == Assign(VarQ, RefOf("mutable", SB))
ShareS == Assign(VarQ, RefOf("shared", VarS))

\* Every sequence of at most n members of A.
UpTo(A, n) == UNION {[1..k -> A] : k \in 0..n}

\* One block.
Straight(body) == << BasicBlock(<< >>, body, Return(<< >>)) >>

\* if c { then } else { other }; last
Diamond(first, then, other, last) ==
  << BasicBlock(<< >>, first, If(Const, Edge(2, << >>), Edge(3, << >>))),
     BasicBlock(<< >>, then, Goto(4, << >>)),
     BasicBlock(<< >>, other, Goto(4, << >>)),
     BasicBlock(<< >>, last, Return(<< >>)) >>

\* first; f(args); last
CallBetween(first, args, dest, last) ==
  << BasicBlock(<< >>, first, Call(Const, args, dest, << Edge(2, << >>) >>)),
     BasicBlock(<< >>, last, Return(<< >>)) >>

\* if c { then; m = a } else { other; m = b }; last
JoinArgument(first, then, a, other, b, last) ==
  << BasicBlock(<< >>, first, If(Const, Edge(2, << >>), Edge(3, << >>))),
     BasicBlock(<< >>, then, Goto(4, << a >>)),
     BasicBlock(<< >>, other, Goto(4, << b >>)),
     BasicBlock(<< "m" >>, last, Return(<< >>)) >>

\* first; while c { body }; last
Loop(first, body, last) ==
  << BasicBlock(<< >>, first, Goto(2, << >>)),
     BasicBlock(<< >>, << >>, If(Const, Edge(3, << >>), Edge(4, << >>))),
     BasicBlock(<< >>, body, Goto(2, << >>)),
     BasicBlock(<< >>, last, Return(<< >>)) >>

\* first; while c { body; f(args) }; last
LoopCall(first, body, args, last) ==
  << BasicBlock(<< >>, first, Goto(2, << >>)),
     BasicBlock(<< >>, << >>, If(Const, Edge(3, << >>), Edge(4, << >>))),
     BasicBlock(<< >>, body, Call(Const, args, << >>, << Edge(2, << >>) >>)),
     BasicBlock(<< >>, last, Return(<< >>)) >>
=============================================================================
