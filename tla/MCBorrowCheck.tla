--------------------------- MODULE MCBorrowCheck ---------------------------
EXTENDS BorrowFlow, MirSamples

Acts == {WriteX, ShareX, BorrowX, CopyP, ReadP, ReadQ, MoveX}

DiamondFunctions ==
  {Fn({"x", "t", "d", "p", "q"}, {}, Diamond(<< WriteX, a >>, << b >>, << c >>, << e >>)) :
     a \in Acts, b \in Acts, c \in Acts, e \in Acts}

LoopActs == {WriteX, CopyP, ReadP, ReadQ, MoveX}
LoopFunctions ==
  {Fn({"x", "t", "d", "p", "q"}, {}, Loop(<< WriteX, a >>, << b, c >>, << e >>)) :
     a \in {ShareX, BorrowX, WriteX}, b \in LoopActs, c \in LoopActs, e \in LoopActs}

ArgumentFunctions ==
  {Fn({"x", "t", "d", "p", "q", "m"}, {},
      JoinArgument(<< WriteX, a >>, << b >>, Copy(VarP), << c >>, Move(VarP), << e >>)) :
     a \in {ShareX, BorrowX}, b \in LoopActs, c \in LoopActs, e \in {ReadM, WriteX, ReadP}}

\* The end of a local's storage, and moves along both edges of a join.
StorageActs == {WriteX, MoveX, DeadX, ReadX}
StorageFunctions ==
  {Fn({"x", "t", "d"}, {}, Diamond(<< a >>, << b >>, << c >>, << MoveX >>)) :
     a \in StorageActs, b \in StorageActs, c \in StorageActs}
  \cup
  {Fn({"x", "t", "d"}, {}, Loop(<< a >>, << b, c >>, << MoveX >>)) :
     a \in {WriteX, ReadX}, b \in StorageActs, c \in StorageActs}
  \cup
  {Fn({"x", "t", "d", "p", "m"}, {},
      JoinArgument(<< a >>, << b >>, Copy(VarX), << c >>, Move(VarX), << MoveM, e >>)) :
     a \in {WriteX, DeadX}, b \in StorageActs, c \in {WriteX, MoveX}, e \in {ReadX, MoveX}}

\* A reference that a call in the loop uses: the borrow it activates comes back
\* to the start of the loop.
LoopCallFunctions ==
  {Fn({"x", "t", "d", "p", "q"}, {}, LoopCall(<< WriteX, a >>, << b >>, << Copy(o) >>, << e >>)) :
     a \in {ShareX, BorrowX}, b \in LoopActs \cup {ReadX}, o \in {VarP, VarQ}, e \in {ReadX, WriteX, ReadP}}

AllFunctions ==
  DiamondFunctions \cup LoopFunctions \cup ArgumentFunctions \cup StorageFunctions \cup LoopCallFunctions

\* The functions are as BorrowFlow_proofs assumes where it needs more than
\* well-formedness.
ASSUME SamplesHaveUnwrittenLocals == \A f \in AllFunctions : HasUnwrittenLocal(f)
=============================================================================
