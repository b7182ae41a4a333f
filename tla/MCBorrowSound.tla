--------------------------- MODULE MCBorrowSound ---------------------------
(***************************************************************************)
(* The checker and then the program: a function the checker accepts is     *)
(* compiled and run.                                                       *)
(***************************************************************************)
EXTENDS BorrowCheck, MirSamples

VARIABLES run, mem, faults

Exec == INSTANCE MirExec

allVars == <<vars, run, mem, faults>>

SInit == Init /\ Exec!ExecInit

Check == Next /\ UNCHANGED <<run, mem, faults>>

\* Only code whose check reported nothing reaches code generation.
Execute == Accepted /\ Exec!ExecStep /\ UNCHANGED vars

SNext == Check \/ Execute
SSpec == SInit /\ [][SNext]_allVars

\* A function the checker accepted runs without a fault.
AcceptedIsSafe == Accepted => faults = {}

-----------------------------------------------------------------------------
(* Families of functions.                                                  *)

Acts == {WriteX, ShareX, BorrowX, ShareXq, BorrowXq, CopyP, ReadP, ReadQ, MoveX, ReadX}
DiamondFunctions ==
  {Fn({"x", "t", "d", "p", "q"}, {}, Diamond(<< WriteX, a >>, << b >>, << c >>, << d >>)) :
     a \in Acts, b \in Acts, c \in Acts, d \in Acts}

\* No borrow is made inside the loop.
LoopActs == {WriteX, CopyP, ReadP, ReadQ, MoveX, ReadX}
LoopFunctions ==
  {Fn({"x", "t", "d", "p", "q"}, {}, Loop(<< WriteX, a, b >>, << c, d >>, << e >>)) :
     a \in {ShareX, BorrowX}, b \in {ShareXq, CopyP, WriteX},
     c \in LoopActs, d \in LoopActs, e \in LoopActs}

\* A whole pair and its fields; no field is moved out, which lib.rs:64-67 says
\* the checker does not follow.
FieldActs == {WriteA, WriteB, ShareA, BorrowA, BorrowB, ShareS, ReadA, ReadP, ReadQ, InitS}
FieldFunctions ==
  {Fn({"s", "t", "d", "p", "q"}, {}, Straight(<< InitS, a, b, c, e >>)) :
     a \in FieldActs, b \in FieldActs, c \in FieldActs, e \in FieldActs}

\* A mutable borrow reserved at its creation and activated at a call.
CallFunctions ==
  {Fn({"x", "t", "d", "p", "q"}, {}, CallBetween(<< WriteX, a, b, c >>, << Copy(o) >>, << >>, << e >>)) :
     a \in {ShareX, BorrowX}, b \in {ShareXq, BorrowXq, WriteX, ReadX, CopyP},
     c \in {ReadQ, ReadX, WriteX, CopyP, ShareXq}, o \in {VarP, VarQ}, e \in Acts}

\* A reference that reaches its last use through a block argument.
ArgumentFunctions ==
  {Fn({"x", "t", "d", "p", "q", "m"}, {},
      JoinArgument(<< WriteX, a, b >>, << c >>, Copy(VarP), << >>, Copy(VarQ), << e, g >>)) :
     a \in {ShareX, BorrowX}, b \in {ShareXq, BorrowXq, CopyP}, c \in {ReadX, WriteX, MoveX},
     e \in Acts, g \in {ReadM, WriteX, ReadP}}

AllFunctions ==
  DiamondFunctions \cup LoopFunctions \cup CallFunctions \cup ArgumentFunctions \cup FieldFunctions

=============================================================================
