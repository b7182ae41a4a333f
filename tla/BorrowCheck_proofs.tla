------------------------- MODULE BorrowCheck_proofs -------------------------
(***************************************************************************)
(* Proofs about the worklist of the borrow checker as the code keeps it, a *)
(* vector popped from its end beside a vector of flags, for all functions: *)
(* the two agree (WorklistConsistent), and the moved and uninitialised     *)
(* places of the entry states only grow (FactsOnlyGrow).  When the check   *)
(* ends, its entry states are a fixed point also of the borrows            *)
(* (BorrowsSolve), and its verdict is that of this fixed point             *)
(* (VerdictIsFinal).                                                       *)
(*                                                                         *)
(* WorklistInv adds what consistency needs to be inductive: the types, and *)
(* that the block and edge at hand exist.                                  *)
(*                                                                         *)
(* The fixed point rests on a comparison of two walks of one block: of a   *)
(* state that knows more (Covers), each operation of the checker makes a   *)
(* state that knows more, and an error where the other state has one       *)
(* (BlockSteps).  The numbers of borrows differ between the walks, but     *)
(* only by where they begin (Renumbered).  Two-phase borrows are the       *)
(* exception: a reservation and an activated borrow do not conflict with   *)
(* the same, and so they must agree until the terminator, where borrows    *)
(* are activated (Match).  FixInv says of each block that was walked and   *)
(* does not wait to be walked again that its walk was told: its errors are *)
(* reported, and its borrows covered behind the edges merged so far.       *)
(***************************************************************************)
EXTENDS BorrowCheck, SequenceTheorems, TLAPS

\* The sequence w holds the blocks of B that flags marks, each once.
Holds(w, flags, B) ==
  /\ w \in Seq(B)
  /\ flags \in [B -> BOOLEAN]
  /\ \A i, j \in 1..Len(w) : w[i] = w[j] => i = j
  /\ \A b \in B : flags[b] <=> \E i \in 1..Len(w) : w[i] = b

Types ==
  /\ function \in Functions
  /\ DOMAIN entry_states = Blocks(function)
  /\ at.phase \in {"walk", "merge"} => at.block \in Blocks(function)
  /\ at.phase = "merge" => at.index \in Nat \ {0}

WorklistInv == Types /\ Holds(worklist, in_worklist, Blocks(function))

\* A worklist with one element.
LEMMA OneHolds ==
  ASSUME NEW B, NEW t \in B
  PROVE  Holds(<< t >>, [b \in B |-> b = t], B)
<1>1. Len(<< t >>) = 1 /\ << t >>[1] = t /\ << t >> \in Seq(B)
  OBVIOUS
<1>2. ASSUME NEW b \in B PROVE (b = t) <=> \E i \in 1..Len(<< t >>) : << t >>[i] = b
  BY <1>1
<1>3. \A i, j \in 1..Len(<< t >>) : i = j
  BY <1>1
<1>. QED
  BY <1>1, <1>2, <1>3 DEF Holds

\* Removing the last element.
LEMMA PopHolds ==
  ASSUME NEW B, NEW w, NEW flags, Holds(w, flags, B), w # << >>
  PROVE  Last(w) \in B /\ Holds(Front(w), [flags EXCEPT ![Last(w)] = FALSE], B)
<1>. /\ w \in Seq(B) /\ flags \in [B -> BOOLEAN]
     /\ \A i, j \in 1..Len(w) : w[i] = w[j] => i = j
     /\ \A b \in B : flags[b] <=> \E i \in 1..Len(w) : w[i] = b
  BY DEF Holds
<1>1. Len(w) \in Nat \ {0} /\ Last(w) = w[Len(w)] /\ Last(w) \in B
  BY DEF Last
<1>2. /\ Front(w) \in Seq(B) /\ Len(Front(w)) = Len(w) - 1
      /\ \A i \in 1..Len(w) - 1 : Front(w)[i] = w[i]
  <2> DEFINE n == Len(w) - 1
  <2>1. n \in Nat /\ \A i \in 1..n : w[i] \in B
    BY <1>1
  <2>. HIDE DEF n
  <2>2. /\ SubSeq(w, 1, n) \in Seq(B)
        /\ Len(SubSeq(w, 1, n)) = IF 1 <= n THEN n - 1 + 1 ELSE 0
        /\ \A i \in 1..n - 1 + 1 : SubSeq(w, 1, n)[i] = w[1 + i - 1]
    BY <2>1, SubSeqProperties
  <2>3. Len(SubSeq(w, 1, n)) = n /\ \A i \in 1..n : SubSeq(w, 1, n)[i] = w[i]
    BY <2>1, <2>2
  <2>. QED
    BY <2>2, <2>3 DEF Front, n
<1>3. \A i, j \in 1..Len(Front(w)) : Front(w)[i] = Front(w)[j] => i = j
  BY <1>1, <1>2
<1>4. ASSUME NEW b \in B
      PROVE  [flags EXCEPT ![Last(w)] = FALSE][b] <=> \E i \in 1..Len(Front(w)) : Front(w)[i] = b
  <2>1. CASE b = Last(w)
    BY <1>1, <1>2, <2>1
  <2>2. CASE b # Last(w)
    <3>1. (\E i \in 1..Len(w) : w[i] = b) <=> \E i \in 1..Len(w) - 1 : w[i] = b
      BY <1>1, <2>2
    <3>. QED
      BY <1>1, <1>2, <2>2, <3>1
  <2>. QED
    BY <2>1, <2>2
<1>. QED
  BY <1>1, <1>2, <1>3, <1>4 DEF Holds

\* Appending an element that is not there.
LEMMA PushHolds ==
  ASSUME NEW B, NEW w, NEW flags, Holds(w, flags, B), NEW t \in B, ~flags[t]
  PROVE  Holds(Append(w, t), [flags EXCEPT ![t] = TRUE], B)
<1>. /\ w \in Seq(B) /\ flags \in [B -> BOOLEAN]
     /\ \A i, j \in 1..Len(w) : w[i] = w[j] => i = j
     /\ \A b \in B : flags[b] <=> \E i \in 1..Len(w) : w[i] = b
  BY DEF Holds
<1>1. /\ Append(w, t) \in Seq(B) /\ Len(Append(w, t)) = Len(w) + 1 /\ Len(w) \in Nat
      /\ \A i \in 1..Len(w) : Append(w, t)[i] = w[i]
      /\ Append(w, t)[Len(w) + 1] = t
  OBVIOUS
<1>2. \A i \in 1..Len(w) : w[i] # t
  OBVIOUS
<1>3. ASSUME NEW i \in 1..Len(w) + 1, NEW j \in 1..Len(w) + 1, Append(w, t)[i] = Append(w, t)[j]
      PROVE  i = j
  <2>1. CASE i \in 1..Len(w) /\ j \in 1..Len(w)
    BY <1>1, <1>3, <2>1
  <2>2. CASE i = Len(w) + 1 \/ j = Len(w) + 1
    BY <1>1, <1>2, <1>3, <2>2
  <2>. QED
    BY <1>1, <2>1, <2>2
<1>4. ASSUME NEW b \in B
      PROVE  [flags EXCEPT ![t] = TRUE][b] <=> \E i \in 1..Len(Append(w, t)) : Append(w, t)[i] = b
  <2>1. CASE b = t
    BY <1>1, <2>1
  <2>2. CASE b # t
    <3>1. (\E i \in 1..Len(w) + 1 : Append(w, t)[i] = b) <=> \E i \in 1..Len(w) : w[i] = b
      BY <1>1, <2>2
    <3>. QED
      BY <1>1, <2>2, <3>1
  <2>. QED
    BY <2>1, <2>2
<1>. QED
  BY <1>1, <1>3, <1>4 DEF Holds

\* Holds is the property, in the words of the library.
LEMMA HoldsIsProperty ==
  Holds(worklist, in_worklist, Blocks(function)) => WorklistConsistent
BY DEF Holds, WorklistConsistent, IsInjective, Contains

\* The checker starts with the entry block waiting, once and flagged
\* (check.rs:196-200).
LEMMA WorklistInit == Init => WorklistInv
<1>. SUFFICES ASSUME Init PROVE WorklistInv
  OBVIOUS
<1>1. function.entry \in Blocks(function) /\ function \in Functions
  BY FunctionsAssumption DEF Init, WellFormed, EdgesBind
<1>2. Holds(worklist, in_worklist, Blocks(function))
  BY <1>1, OneHolds DEF Init
<1>. QED
  BY <1>1, <1>2 DEF Init, Idle, WorklistInv, Types

\* A step that leaves the worklist alone keeps the invariant, if the block and
\* the edge it moves to exist.
LEMMA Elsewhere ==
  ASSUME WorklistInv, UNCHANGED <<function, worklist, in_worklist>>,
         DOMAIN entry_states' = Blocks(function),
         at'.phase \in {"walk", "merge"} => at'.block \in Blocks(function),
         at'.phase = "merge" => at'.index \in Nat \ {0}
  PROVE  WorklistInv'
BY DEF WorklistInv, Types

\* Every step keeps the invariant: a pop clears the flag of what it pops, and a push
\* happens only where the flag is clear (check.rs:202-204, 226-231).
LEMMA WorklistStep == WorklistInv /\ [Next]_vars => WorklistInv'
<1>. SUFFICES ASSUME WorklistInv, [Next]_vars PROVE WorklistInv'
  OBVIOUS
<1>. USE DEF WorklistInv
<1>1. CASE PopWorklist
  <2>. /\ function' = function /\ entry_states' = entry_states /\ worklist # << >>
       /\ worklist' = Front(worklist)
       /\ in_worklist' = [in_worklist EXCEPT ![Last(worklist)] = FALSE]
       /\ at' = [phase |-> "walk", block |-> Last(worklist), index |-> 1]
    BY <1>1 DEF PopWorklist
  <2>1. Last(worklist) \in Blocks(function) /\ Holds(worklist', in_worklist', Blocks(function))
    BY PopHolds
  <2>. QED
    BY <2>1 DEF Types
<1>2. CASE ProcessStatement
  <2>1. at' = [at EXCEPT !.index = at.index + 1] /\ at.phase = "walk"
    BY <1>2 DEF ProcessStatement
  <2>2. at'.phase \in {"walk", "merge"} => at'.block \in Blocks(function)
    BY <2>1 DEF Types
  <2>. QED
    BY <1>2, <2>1, <2>2, Elsewhere DEF ProcessStatement, Types
<1>3. CASE ProcessTerminator
  BY <1>3, Elsewhere DEF ProcessTerminator, Types
<1>4. CASE MergeEdge
  <2> DEFINE edges == successor_edges(function, at.block)
             target == edges[at.index].to
  <2>1. at.phase = "merge" /\ at.index <= Len(edges) /\ at.block \in Blocks(function)
    BY <1>4 DEF MergeEdge, Types
  <2>2. target \in Blocks(function)
    <3>1. WellFormed(function) /\ at.index \in Nat \ {0}
      BY <2>1, FunctionsAssumption DEF Types
    <3>2. Len(edges) \in Nat /\ \A i \in 1..Len(edges) : edges[i].to \in Blocks(function)
      BY <2>1, <3>1 DEF WellFormed, EdgesBind
    <3>. HIDE DEF edges
    <3>. QED
      BY <2>1, <3>1, <3>2
  <2>3. at' = [at EXCEPT !.index = at.index + 1] /\ function' = function
    BY <1>4 DEF MergeEdge
  <2>4. /\ at'.phase \in {"walk", "merge"} => at'.block \in Blocks(function)
        /\ at'.phase = "merge" => at'.index \in Nat \ {0}
    BY <2>1, <2>3 DEF Types
  <2>5. DOMAIN entry_states' = Blocks(function)
    BY <1>4 DEF MergeEdge, Types
  <2>6. CASE UNCHANGED <<entry_states, worklist, in_worklist>>
    BY <2>3, <2>4, <2>5, <2>6, Elsewhere
  <2>7. CASE push_worklist(target)
    <3>1. in_worklist' = [in_worklist EXCEPT ![target] = TRUE]
      BY <2>7 DEF push_worklist
    <3>3. CASE in_worklist[target]
      <4>1. in_worklist' = in_worklist /\ worklist' = worklist
        BY <2>2, <2>7, <3>1, <3>3 DEF push_worklist, Holds
      <4>. QED
        BY <2>3, <2>4, <2>5, <4>1, Elsewhere
    <3>4. CASE ~in_worklist[target]
      <4>1. worklist' = Append(worklist, target)
        BY <2>7, <3>4 DEF push_worklist
      <4>2. Holds(worklist', in_worklist', Blocks(function))
        BY <2>2, <3>1, <3>4, <4>1, PushHolds
      <4>. QED
        BY <2>3, <2>4, <2>5, <4>2 DEF Types
    <3>. QED
      BY <3>3, <3>4
  <2>. QED
    BY <1>4, <2>6, <2>7 DEF MergeEdge
<1>5. CASE EndBlock
  BY <1>5, Elsewhere DEF EndBlock, Idle, Types
<1>6. CASE Finish
  BY <1>6, Elsewhere DEF Finish, Types
<1>7. CASE UNCHANGED vars
  BY <1>7, Elsewhere DEF vars, Types
<1>. QED
  BY <1>1, <1>2, <1>3, <1>4, <1>5, <1>6, <1>7 DEF Next, Step, Terminated

\* The flags of the worklist tell exactly what is in it, and no block is in it
\* twice, whatever the function (check.rs:204-205, 226-231).
THEOREM WorklistIsConsistent == Spec => []WorklistConsistent
<1>1. Init => WorklistInv
  BY WorklistInit
<1>2. WorklistInv /\ [Next]_vars => WorklistInv'
  BY WorklistStep
<1>3. WorklistInv => WorklistConsistent
  BY HoldsIsProperty DEF WorklistInv
<1>. QED
  BY <1>1, <1>2, <1>3, PTL DEF Spec

\* Merging keeps the moved and uninitialised places of the entry, and so does
\* binding arguments, but for the places that belong to them.
LEMMA MergeKeepsFacts ==
  ASSUME NEW f, NEW b, NEW in, NEW out
  PROVE  /\ bind_arguments(f, b, in).moved \subseteq bind_arguments(f, b, merge_state(in, out)).moved
         /\ bind_arguments(f, b, in).uninit \subseteq bind_arguments(f, b, merge_state(in, out)).uninit
         /\ bind_arguments(f, b, in).moved \subseteq in.moved
         /\ bind_arguments(f, b, in).uninit \subseteq in.uninit
BY DEF bind_arguments, merge_state

\* No step of the checker forgets that a place may be moved or uninitialised at
\* the entry of a block, unless it belongs to a block argument, which the edge
\* binds (check.rs:207-221).
THEOREM FactsNeverForgotten == Spec => FactsOnlyGrow
<1> DEFINE Kept == \A b \in Blocks(function) :
                     LET old == bind_arguments(function, b, entry_states[b])
                     IN  /\ old.moved \subseteq entry_states'[b].moved
                         /\ old.uninit \subseteq entry_states'[b].uninit
<1>1. WorklistInv /\ [Next]_vars => [Kept]_vars
  <2>. SUFFICES ASSUME WorklistInv, Next PROVE Kept
    OBVIOUS
  <2>1. CASE entry_states' = entry_states
    BY <2>1, MergeKeepsFacts
  <2>2. CASE MergeEdge
    <3> DEFINE target == successor_edges(function, at.block)[at.index].to
    <3>1. \/ entry_states' = entry_states
          \/ entry_states' = [entry_states EXCEPT ![target] =
                                bind_arguments(function, target, merge_state(entry_states[target], state))]
      BY <2>2 DEF MergeEdge
    <3>2. DOMAIN entry_states = Blocks(function)
      BY DEF WorklistInv, Types
    <3>3. ASSUME NEW b \in Blocks(function)
          PROVE  \/ entry_states'[b] = entry_states[b]
                 \/ entry_states'[b] = bind_arguments(function, b, merge_state(entry_states[b], state))
      BY <3>1, <3>2
    <3>4. ASSUME NEW b \in Blocks(function)
          PROVE  /\ bind_arguments(function, b, entry_states[b]).moved \subseteq entry_states'[b].moved
                 /\ bind_arguments(function, b, entry_states[b]).uninit \subseteq entry_states'[b].uninit
      <4>1. /\ bind_arguments(function, b, entry_states[b]).moved \subseteq
                 bind_arguments(function, b, merge_state(entry_states[b], state)).moved
            /\ bind_arguments(function, b, entry_states[b]).uninit \subseteq
                 bind_arguments(function, b, merge_state(entry_states[b], state)).uninit
        BY MergeKeepsFacts
      <4>2. /\ bind_arguments(function, b, entry_states[b]).moved \subseteq entry_states[b].moved
            /\ bind_arguments(function, b, entry_states[b]).uninit \subseteq entry_states[b].uninit
        BY MergeKeepsFacts
      <4>. QED
        BY <3>3, <4>1, <4>2
    <3>. QED
      BY <3>4
  <2>. QED
    BY <2>1, <2>2 DEF Next, Step, PopWorklist, ProcessStatement, ProcessTerminator, EndBlock,
                      Finish, Terminated, vars
<1>2. Spec => [][WorklistInv /\ Next]_vars
  BY WorklistInit, WorklistStep, PTL DEF Spec
<1>. QED
  BY <1>1, <1>2, WorklistInit, WorklistStep, PTL DEF Spec, FactsOnlyGrow

(***************************************************************************)
(* States, and the loops of the checker as folds.                          *)
(***************************************************************************)
\* A state of the walk: the dataflow state with the errors and the counter.
IsState(s) ==
  s = [errors |-> s.errors, next |-> s.next, borrows |-> s.borrows,
       moved |-> s.moved, uninit |-> s.uninit]

operand_step(b, c, loc, s, o) == process_operand(s, o, loc)
Operands == INSTANCE FoldFacts WITH Op <- operand_step

\* The loop over operands, as a fold of FoldFacts (check.rs:442-454).
LEMMA OperandsFold ==
  ASSUME NEW s, NEW os, NEW loc
  PROVE  process_operands(s, os, loc) = Operands!Fold(0, 0, loc, s, os)
BY DEF process_operands, operand_step, Operands!Fold, FoldLeft, Operands!FoldLeft,
       MapThenFoldSet, Operands!MapThenFoldSet, Max, Operands!Max

\* g holds the concatenations of the first sequences of qs.
Flat(qs, n, g) == g = [i \in 1..n |-> IF i = 1 THEN qs[i] ELSE g[i - 1] \o qs[i]]

\* The joined prefixes of a sequence of sequences exist.
LEMMA FlatExists ==
  ASSUME NEW qs
  PROVE  \A n \in Nat : \E g : Flat(qs, n, g)
<1> DEFINE T == {n \in Nat : \E g : Flat(qs, n, g)}
<1>1. 0 \in T
  <2> DEFINE g == [i \in 1..0 |-> qs[i]]
  <2>1. Flat(qs, 0, g)
    BY DEF Flat
  <2>. HIDE DEF g
  <2>. QED
    BY <2>1
<1>2. ASSUME NEW n \in Nat, n \in T PROVE n + 1 \in T
  <2>1. PICK g : Flat(qs, n, g)
    BY <1>2
  <2> DEFINE h == [i \in 1..n+1 |->
                     IF i = n + 1 THEN (IF i = 1 THEN qs[i] ELSE g[n] \o qs[i]) ELSE g[i]]
  <2>2. \A i \in 1..n : h[i] = g[i]
    OBVIOUS
  <2>3. h[n + 1] = IF n + 1 = 1 THEN qs[n + 1] ELSE g[n] \o qs[n + 1]
    OBVIOUS
  <2>4. h = [i \in 1..n+1 |-> h[i]]
    OBVIOUS
  <2>. HIDE DEF h
  <2>5. ASSUME NEW i \in 1..n+1
        PROVE  h[i] = IF i = 1 THEN qs[i] ELSE h[i - 1] \o qs[i]
    <3>1. CASE i \in 1..n
      <4>1. g[i] = IF i = 1 THEN qs[i] ELSE g[i - 1] \o qs[i]
        BY <2>1, <3>1 DEF Flat
      <4>2. i # 1 => i - 1 \in 1..n
        BY <3>1
      <4>. QED
        BY <2>2, <3>1, <4>1, <4>2
    <3>2. CASE i = n + 1
      <4>1. i # 1 => n \in 1..n /\ i - 1 = n
        BY <3>2
      <4>. QED
        BY <2>2, <2>3, <3>2, <4>1
    <3>. QED
      BY <3>1, <3>2
  <2>6. Flat(qs, n + 1, h)
    BY <2>4, <2>5 DEF Flat
  <2>. QED
    BY <2>6
<1>. HIDE DEF T
<1>3. \A n \in Nat : n \in T
  BY <1>1, <1>2, Operands!Counting
<1>. QED
  BY <1>3 DEF T

\* Each of them is a sequence over the same set.
LEMMA FlatInSeq ==
  ASSUME NEW S, NEW qs, NEW n \in Nat, \A i \in 1..n : qs[i] \in Seq(S),
         NEW g, Flat(qs, n, g)
  PROVE  \A i \in 1..n : g[i] \in Seq(S)
<1> DEFINE T == {i \in Nat : i \in 1..n => g[i] \in Seq(S)}
<1>1. 0 \in T
  OBVIOUS
<1>2. ASSUME NEW i \in Nat, i \in T PROVE i + 1 \in T
  <2>. SUFFICES ASSUME i + 1 \in 1..n PROVE g[i + 1] \in Seq(S)
    OBVIOUS
  <2>1. i + 1 - 1 = i /\ (i + 1 # 1 => i \in 1..n)
    OBVIOUS
  <2>2. g[i + 1] = IF i + 1 = 1 THEN qs[i + 1] ELSE g[i] \o qs[i + 1]
    <3> DEFINE j == i + 1
    <3>1. j \in 1..n /\ j - 1 = i
      OBVIOUS
    <3>. HIDE DEF j
    <3>2. g[j] = IF j = 1 THEN qs[j] ELSE g[j - 1] \o qs[j]
      BY <3>1 DEF Flat
    <3>. QED
      BY <3>1, <3>2 DEF j
  <2>3. qs[i + 1] \in Seq(S)
    OBVIOUS
  <2>. QED
    BY <1>2, <2>1, <2>2, <2>3
<1>. HIDE DEF T
<1>3. \A i \in Nat : i \in T
  BY <1>1, <1>2, Operands!Counting
<1>. QED
  BY <1>3 DEF T

\* So is the whole, joined.
LEMMA FlattenInSeq ==
  ASSUME NEW S, NEW qs, NEW n \in Nat, Len(qs) = n, n = 0 => qs = << >>,
         \A i \in 1..n : qs[i] \in Seq(S)
  PROVE  FlattenSeq(qs) \in Seq(S)
<1>1. CASE n = 0
  <2>1. FlattenSeq(qs) = << >>
    BY <1>1 DEF FlattenSeq
  <2>. QED
    BY <2>1
<1>2. CASE n # 0
  <2> DEFINE g == CHOOSE g : Flat(qs, n, g)
  <2>1. FlattenSeq(qs) = g[n]
    BY <1>2 DEF FlattenSeq, Flat
  <2>2. Flat(qs, n, g)
    BY FlatExists
  <2>. HIDE DEF g
  <2>. QED
    BY <1>2, <2>1, <2>2, FlatInSeq
<1>. QED
  BY <1>1, <1>2

\* Sequences, as the library's set and as WellFormed states it.
LEMMA SequenceFacts ==
  ASSUME NEW q
  PROVE  /\ IsSequence(q) => Len(q) \in Nat /\ DOMAIN q = 1..Len(q) /\ (Len(q) = 0 => q = << >>)
         /\ \A S : q \in Seq(S) => IsSequence(q)
<1>1. ASSUME NEW S, q \in Seq(S) PROVE IsSequence(q)
  <2>1. Len(q) \in Nat /\ q = [i \in 1..Len(q) |-> q[i]]
    BY <1>1
  <2>2. \A i \in 1..Len(q) : q[i] \in ToSet(q)
    BY <2>1 DEF ToSet
  <2>3. q \in [1..Len(q) -> ToSet(q)]
    BY <2>1, <2>2
  <2>. QED
    BY <2>1, <2>3, SeqDef DEF IsSequence
<1>. QED
  BY <1>1 DEF IsSequence

\* The operands of all edges of a terminator form a sequence (check.rs:506-515).
LEMMA EdgeOperandsAreSequence ==
  ASSUME NEW t, IsTerminator(t)
  PROVE  IsSequence(EdgeOperands(t.edges))
<1> DEFINE qs == [i \in DOMAIN t.edges |-> t.edges[i].args]
           n == Len(t.edges)
           S == UNION {ToSet(e.args) : e \in ToSet(t.edges)}
<1>1. n \in Nat /\ DOMAIN t.edges = 1..n
  BY SequenceFacts DEF IsTerminator
<1>2. ASSUME NEW i \in 1..n PROVE qs[i] \in Seq(S)
  <2>1. qs[i] = t.edges[i].args /\ t.edges[i] \in ToSet(t.edges)
    BY <1>1 DEF ToSet
  <2>2. t.edges[i].args \in Seq(ToSet(t.edges[i].args))
    BY <2>1 DEF IsTerminator, IsSequence
  <2>3. ToSet(t.edges[i].args) \subseteq S
    BY <2>1
  <2>. QED
    BY <2>1, <2>2, <2>3, SeqMonotonic
<1>3. Len(qs) = n /\ (n = 0 => qs = << >>)
  BY <1>1
<1>4. EdgeOperands(t.edges) = FlattenSeq(qs)
  BY DEF EdgeOperands
<1>. HIDE DEF qs, n, S
<1>5. FlattenSeq(qs) \in Seq(S)
  BY <1>1, <1>2, <1>3, FlattenInSeq
<1>. QED
  BY <1>4, <1>5, SequenceFacts

dest_step(b, c, loc, s, p) == mark_initialized(overwrite(s, p, loc), p)
Dests == INSTANCE FoldFacts WITH Op <- dest_step

\* The store of a call's result, as a fold (check.rs:497-505).
LEMMA DestsFold ==
  ASSUME NEW s, NEW ps, NEW loc
  PROVE  FoldLeft(LAMBDA acc, p : mark_initialized(overwrite(acc, p, loc), p), s, ps)
           = Dests!Fold(0, 0, loc, s, ps)
BY DEF dest_step, Dests!Fold, FoldLeft, Dests!FoldLeft, MapThenFoldSet, Dests!MapThenFoldSet,
       Max, Dests!Max

argument_step(f, e, c, s, i) == propagate_operand(f, s, e.args[i], Local(f.blocks[e.to].args[i]))
Arguments == INSTANCE FoldFacts WITH Op <- argument_step

indices(q) == [i \in DOMAIN q |-> i]
edge_step(f, b, c, s, e) ==
  FoldLeft(LAMBDA a, i : propagate_operand(f, a, e.args[i], Local(f.blocks[e.to].args[i])),
           s, [i \in DOMAIN e.args |-> i])
Edges == INSTANCE FoldFacts WITH Op <- edge_step

\* The arguments of one edge, as a fold (check.rs:263-285).
LEMMA ArgumentsFold ==
  ASSUME NEW f, NEW e, NEW s
  PROVE  FoldLeft(LAMBDA a, i : propagate_operand(f, a, e.args[i], Local(f.blocks[e.to].args[i])),
                  s, [i \in DOMAIN e.args |-> i])
           = Arguments!Fold(f, e, 0, s, indices(e.args))
BY DEF indices, argument_step, Arguments!Fold, FoldLeft, Arguments!FoldLeft, MapThenFoldSet,
       Arguments!MapThenFoldSet, Max, Arguments!Max

\* The edges of a block, as a fold of those.
LEMMA EdgesFold ==
  ASSUME NEW f, NEW s, NEW b
  PROVE  propagate_edge_holders(f, s, b) = Edges!Fold(f, 0, 0, s, successor_edges(f, b))
BY DEF propagate_edge_holders, edge_step, Edges!Fold, FoldLeft, Edges!FoldLeft, MapThenFoldSet,
       Edges!MapThenFoldSet, Max, Edges!Max

statement_step(f, lv, b, s, i) == walk_statement(f, lv, s, b, i)
Walks == INSTANCE FoldFacts WITH Op <- statement_step

\* The state after the first n statements of b.
WalkUpto(f, lv, s, b, n) == Walks!Fold(f, lv, b, s, [i \in 1..n |-> i])

\* process_block is the walk of the statements and then of the terminator
\* (check.rs:236-258).
LEMMA BlockIsWalk ==
  ASSUME NEW f, NEW lv, NEW s, NEW b, IsSequence(Stmts(f, b))
  PROVE  process_block(f, lv, s, b)
           = walk_terminator(f, lv, WalkUpto(f, lv, s, b, Len(Stmts(f, b))), b)
<1>1. FoldLeft(LAMBDA acc, i : walk_statement(f, lv, acc, b, i), s, [i \in DOMAIN Stmts(f, b) |-> i])
        = Walks!Fold(f, lv, b, s, [i \in DOMAIN Stmts(f, b) |-> i])
  BY DEF statement_step, Walks!Fold, FoldLeft, Walks!FoldLeft, MapThenFoldSet, Walks!MapThenFoldSet,
         Max, Walks!Max
<1>2. DOMAIN Stmts(f, b) = 1..Len(Stmts(f, b))
  BY SequenceFacts
<1>. QED
  BY <1>1, <1>2 DEF process_block, WalkUpto

\* The walk starts from the state it is given.
LEMMA WalkStarts ==
  ASSUME NEW f, NEW lv, NEW s, NEW b
  PROVE  WalkUpto(f, lv, s, b, 0) = s
<1>1. DOMAIN [i \in 1..0 |-> i] = 1..0
  OBVIOUS
<1>. QED
  BY <1>1, Walks!FoldOfNothing DEF WalkUpto

\* It takes the statements one by one, as ProcessStatement does.
LEMMA WalkContinues ==
  ASSUME NEW f, NEW lv, NEW s, NEW b, NEW n \in Nat
  PROVE  WalkUpto(f, lv, s, b, n + 1) = walk_statement(f, lv, WalkUpto(f, lv, s, b, n), b, n + 1)
<1> DEFINE q == [i \in 1..n |-> i]
           r == [i \in 1..n+1 |-> i]
<1>1. DOMAIN q = 1..n /\ DOMAIN r = 1..n+1 /\ (\A i \in 1..n : q[i] = r[i]) /\ r[n + 1] = n + 1
  OBVIOUS
<1>2. WalkUpto(f, lv, s, b, n) = Walks!Fold(f, lv, b, s, q)
      /\ WalkUpto(f, lv, s, b, n + 1) = Walks!Fold(f, lv, b, s, r)
  BY DEF WalkUpto
<1>. HIDE DEF q, r
<1>3. Walks!Fold(f, lv, b, s, r) = statement_step(f, lv, b, Walks!Fold(f, lv, b, s, q), r[n + 1])
  BY <1>1, Walks!FoldExtends
<1>. QED
  BY <1>1, <1>2, <1>3 DEF statement_step

\* What a function's blocks are made of.
LEMMA BlockParts ==
  ASSUME NEW f \in Functions, NEW b \in Blocks(f)
  PROVE  /\ IsSequence(Stmts(f, b)) /\ Len(Stmts(f, b)) \in Nat
         /\ \A i \in 1..Len(Stmts(f, b)) : IsStatement(Stmts(f, b)[i])
         /\ IsTerminator(Term(f, b))
<1>1. /\ IsSequence(Stmts(f, b)) /\ \A st \in ToSet(Stmts(f, b)) : IsStatement(st)
      /\ IsTerminator(Term(f, b))
  BY FunctionsAssumption DEF WellFormed, EdgesBind
<1>2. Len(Stmts(f, b)) \in Nat /\ DOMAIN Stmts(f, b) = 1..Len(Stmts(f, b))
  BY <1>1, SequenceFacts
<1>. QED
  BY <1>1, <1>2 DEF ToSet

(***************************************************************************)
(* Comparing walks.                                                        *)
(***************************************************************************)
IsBorrow(br) ==
  /\ br = [idx |-> br.idx, kind |-> br.kind, source |-> br.source, holders |-> br.holders,
           two_phase |-> br.two_phase, activated |-> br.activated]
  /\ br.idx \in Nat /\ br.two_phase \in BOOLEAN /\ br.activated \in BOOLEAN

IsGood(s) == IsState(s) /\ s.next \in Nat /\ \A br \in s.borrows : IsBorrow(br)

\* Walks that begin with the counter at k and at K number the borrows they make alike,
\* and those they find keep their numbers.
Renumbered(k, K, i, j) ==
  \/ i < k /\ j < K /\ i = j
  \/ i >= k /\ j >= K /\ i - k = j - K

SameBorrow(br, c) == br.kind = c.kind /\ br.source = c.source /\ br.two_phase = c.two_phase

\* c forbids what br forbids.  Before two-phase borrows are activated the two agree on
\* which are.
Match(when, k, K, br, c) ==
  /\ Renumbered(k, K, br.idx, c.idx)
  /\ SameBorrow(br, c)
  /\ br.holders \subseteq c.holders
  /\ br.activated => c.activated
  /\ when = "before" => (c.activated => br.activated)

\* t knows whatever s knows.
Covers(when, k, K, s, t) ==
  /\ IsGood(s) /\ IsGood(t) /\ k \in Nat /\ K \in Nat
  /\ s.next >= k /\ t.next >= K /\ s.next - k = t.next - K
  /\ s.moved \subseteq t.moved /\ s.uninit \subseteq t.uninit
  /\ s.errors # {} => t.errors # {}
  /\ \A br \in s.borrows : \E c \in t.borrows : Match(when, k, K, br, c)

\* The number of a borrow tells which it is, and those from n on are free.
Numbered(B, n) ==
  /\ \A br \in B : br.idx \in Nat /\ br.idx < n
  /\ \A br \in B : \A c \in B : br.idx = c.idx => SameBorrow(br, c)

\* From s to u errors are only added, and numbers are not used twice.
Adds(s, u) ==
  /\ s.errors \subseteq u.errors
  /\ \A X : Numbered(X \cup s.borrows, s.next) => Numbered(X \cup u.borrows, u.next)

\* s becomes u, which v covers.
Steps(when, k, K, s, u, v) == Covers(when, k, K, u, v) /\ Adds(s, u)

\* Steps compose.
LEMMA StepsAgain ==
  ASSUME NEW when, NEW k, NEW K, NEW s, NEW u, NEW v, NEW w, NEW z,
         Steps(when, k, K, s, u, v), Steps(when, k, K, u, w, z)
  PROVE  Steps(when, k, K, s, w, z)
BY DEF Steps, Adds

\* A state covers itself.
LEMMA GoodCovers ==
  ASSUME NEW s, IsGood(s)
  PROVE  Covers("before", 0, 0, s, s)
<1>1. \A br \in s.borrows : Match("before", 0, 0, br, br)
  BY DEF IsGood, IsBorrow, Match, Renumbered, SameBorrow
<1>. QED
  BY <1>1 DEF Covers, IsGood

\* A step that makes no borrow.
LEMMA Rewrites ==
  ASSUME NEW when, NEW after, NEW k, NEW K, NEW s, NEW t, Covers(when, k, K, s, t),
         NEW u, NEW v, IsGood(u), IsGood(v), u.next = s.next, v.next = t.next,
         u.moved \subseteq v.moved, u.uninit \subseteq v.uninit,
         s.errors \subseteq u.errors, u.errors # {} => v.errors # {},
         \A br \in u.borrows : \E c \in v.borrows : Match(after, k, K, br, c),
         \A br \in u.borrows : \E c \in s.borrows : br.idx = c.idx /\ SameBorrow(br, c)
  PROVE  Steps(after, k, K, s, u, v)
<1>1. Covers(after, k, K, u, v)
  BY DEF Covers
<1>2. ASSUME NEW X, Numbered(X \cup s.borrows, s.next)
      PROVE  Numbered(X \cup u.borrows, u.next)
  <2>1. ASSUME NEW br \in X \cup u.borrows
        PROVE  \E c \in X \cup s.borrows : br.idx = c.idx /\ SameBorrow(br, c)
    BY DEF SameBorrow
  <2>2. \A br \in X \cup u.borrows : br.idx \in Nat /\ br.idx < u.next
    BY <1>2, <2>1 DEF Numbered
  <2>3. ASSUME NEW br \in X \cup u.borrows, NEW c \in X \cup u.borrows, br.idx = c.idx
        PROVE  SameBorrow(br, c)
    <3>1. PICK b2 \in X \cup s.borrows : br.idx = b2.idx /\ SameBorrow(br, b2)
      BY <2>1
    <3>2. PICK c2 \in X \cup s.borrows : c.idx = c2.idx /\ SameBorrow(c, c2)
      BY <2>1
    <3>3. SameBorrow(b2, c2)
      BY <1>2, <2>3, <3>1, <3>2 DEF Numbered
    <3>. QED
      BY <3>1, <3>2, <3>3 DEF SameBorrow
  <2>. QED
    BY <2>2, <2>3 DEF Numbered
<1>. QED
  BY <1>1, <1>2 DEF Steps, Adds

\* A step that leaves the borrows as they are.
LEMMA KeepsBorrows ==
  ASSUME NEW when, NEW k, NEW K, NEW s, NEW t, Covers(when, k, K, s, t),
         NEW u, NEW v, IsState(u), IsState(v), u.next = s.next, v.next = t.next,
         u.borrows = s.borrows, v.borrows = t.borrows,
         u.moved \subseteq v.moved, u.uninit \subseteq v.uninit,
         s.errors \subseteq u.errors, u.errors # {} => v.errors # {}
  PROVE  Steps(when, k, K, s, u, v)
<1>1. IsGood(u) /\ IsGood(v)
  BY DEF Covers, IsGood
<1>2. \A br \in u.borrows : \E c \in v.borrows : Match(when, k, K, br, c)
  BY DEF Covers
<1>3. \A br \in u.borrows : \E c \in s.borrows : br.idx = c.idx /\ SameBorrow(br, c)
  BY DEF SameBorrow
<1>. QED
  BY <1>1, <1>2, <1>3, Rewrites

\* An error that the larger state reports where the smaller one does (check.rs:813-819).
LEMMA ReportSteps ==
  ASSUME NEW when, NEW k, NEW K, NEW s, NEW t, Covers(when, k, K, s, t),
         NEW cond \in BOOLEAN, NEW other \in BOOLEAN, cond => other, NEW kind, NEW kinds, NEW p, NEW loc
  PROVE  Steps(when, k, K, s, report_if(cond, s, kind, p, loc), report_if(other, t, kinds, p, loc))
<1> DEFINE u == report_if(cond, s, kind, p, loc)
           v == report_if(other, t, kinds, p, loc)
<1>1. /\ IsState(u) /\ u.next = s.next /\ u.borrows = s.borrows /\ u.moved = s.moved /\ u.uninit = s.uninit
      /\ u.errors = IF cond THEN s.errors \cup {[kind |-> kind, place |-> p, loc |-> loc]} ELSE s.errors
  BY DEF Covers, IsGood, IsState, report_if, report
<1>2. /\ IsState(v) /\ v.next = t.next /\ v.borrows = t.borrows /\ v.moved = t.moved /\ v.uninit = t.uninit
      /\ v.errors = IF other THEN t.errors \cup {[kind |-> kinds, place |-> p, loc |-> loc]} ELSE t.errors
  BY DEF Covers, IsGood, IsState, report_if, report
<1>. HIDE DEF u, v
<1>3. u.errors # {} => v.errors # {}
  BY <1>1, <1>2 DEF Covers
<1>4. Steps(when, k, K, s, u, v)
  BY <1>1, <1>2, <1>3, KeepsBorrows DEF Covers
<1>. QED
  BY <1>4 DEF u, v

\* A use of moved or uninitialised memory is one in a state that knows more
\* (check.rs:526-549).
LEMMA UsableSteps ==
  ASSUME NEW when, NEW k, NEW K, NEW s, NEW t, Covers(when, k, K, s, t),
         NEW p, NEW loc, NEW if_moved, NEW if_uninit
  PROVE  Steps(when, k, K, s, check_usable(s, p, loc, if_moved, if_uninit),
               check_usable(t, p, loc, if_moved, if_uninit))
<1>1. \A u : \A cond, other \in BOOLEAN :
        check_usable(u, p, loc, if_moved, if_uninit)
          = IF find_moved(u, p) THEN report_if(TRUE, u, if_moved, p, loc)
            ELSE report_if(find_uninit(u, p), u, if_uninit, p, loc)
  BY DEF check_usable, report_if
<1>2. (find_moved(s, p) => find_moved(t, p)) /\ (find_uninit(s, p) => find_uninit(t, p))
  BY DEF Covers, find_moved, find_uninit
<1>. DEFINE cond == find_moved(s, p) \/ find_uninit(s, p)
            other == find_moved(t, p) \/ find_uninit(t, p)
            kind == IF find_moved(s, p) THEN if_moved ELSE if_uninit
            kinds == IF find_moved(t, p) THEN if_moved ELSE if_uninit
<1>3. check_usable(s, p, loc, if_moved, if_uninit) = report_if(cond, s, kind, p, loc)
  BY DEF check_usable, report_if
<1>4. check_usable(t, p, loc, if_moved, if_uninit) = report_if(other, t, kinds, p, loc)
  BY DEF check_usable, report_if
<1>5. (cond => other) /\ cond \in BOOLEAN /\ other \in BOOLEAN
  BY <1>2
<1>. HIDE DEF cond, other, kind, kinds
<1>. QED
  BY <1>3, <1>4, <1>5, ReportSteps

\* What an access may clash with in s it may clash with in t.
LEMMA ClashesCovered ==
  ASSUME NEW when, NEW k, NEW K, NEW s, NEW t, Covers(when, k, K, s, t), NEW p
  PROVE  /\ Conflicting(s, p) # {} => Conflicting(t, p) # {}
         /\ (\E br \in Conflicting(s, p) : Exclusive(br)) => (\E br \in Conflicting(t, p) : Exclusive(br))
<1>1. ASSUME NEW br \in Conflicting(s, p)
      PROVE  \E c \in Conflicting(t, p) : Exclusive(br) => Exclusive(c)
  <2>1. br \in s.borrows /\ overlaps(p, br.source)
    BY DEF Conflicting
  <2>2. PICK c \in t.borrows : Match(when, k, K, br, c)
    BY <2>1 DEF Covers
  <2>3. c \in Conflicting(t, p)
    BY <2>1, <2>2 DEF Match, SameBorrow, Conflicting
  <2>4. Exclusive(br) => Exclusive(c)
    BY <2>2 DEF Match, SameBorrow, Exclusive
  <2>. QED
    BY <2>3, <2>4
<1>. QED
  BY <1>1

\* The parts of a state.
Parts(u, E, N, B, M, U) ==
  /\ IsState(u) /\ u.errors = E /\ u.next = N /\ u.borrows = B /\ u.moved = M /\ u.uninit = U

\* Those of a state that was changed in one or two of them.
LEMMA Updated ==
  ASSUME NEW s, IsState(s), NEW E, NEW N, NEW B, NEW M, NEW U, NEW u
  PROVE  /\ u = [s EXCEPT !.moved = M, !.uninit = U] => Parts(u, s.errors, s.next, s.borrows, M, U)
         /\ u = [s EXCEPT !.uninit = U] => Parts(u, s.errors, s.next, s.borrows, s.moved, U)
         /\ u = [s EXCEPT !.borrows = B] => Parts(u, s.errors, s.next, B, s.moved, s.uninit)
         /\ u = [s EXCEPT !.next = N, !.borrows = B] => Parts(u, s.errors, N, B, s.moved, s.uninit)
         /\ u = [s EXCEPT !.errors = E] => Parts(u, E, s.next, s.borrows, s.moved, s.uninit)
         /\ u = [s EXCEPT !.borrows = B, !.errors = E] => Parts(u, E, s.next, B, s.moved, s.uninit)
<1>1. u = [s EXCEPT !.moved = M, !.uninit = U] => Parts(u, s.errors, s.next, s.borrows, M, U)
  BY DEF IsState, Parts
<1>2. u = [s EXCEPT !.uninit = U] => Parts(u, s.errors, s.next, s.borrows, s.moved, U)
  BY DEF IsState, Parts
<1>3. u = [s EXCEPT !.borrows = B] => Parts(u, s.errors, s.next, B, s.moved, s.uninit)
  BY DEF IsState, Parts
<1>4. u = [s EXCEPT !.next = N, !.borrows = B] => Parts(u, s.errors, N, B, s.moved, s.uninit)
  BY DEF IsState, Parts
<1>5. u = [s EXCEPT !.errors = E] => Parts(u, E, s.next, s.borrows, s.moved, s.uninit)
  BY DEF IsState, Parts
<1>6. u = [s EXCEPT !.borrows = B, !.errors = E] => Parts(u, E, s.next, B, s.moved, s.uninit)
  BY DEF IsState, Parts
<1>. QED
  BY <1>1, <1>2, <1>3, <1>4, <1>5, <1>6

\* Moving out marks the place.
LEMMA MoveOutSteps ==
  ASSUME NEW when, NEW k, NEW K, NEW s, NEW t, Covers(when, k, K, s, t), NEW p
  PROVE  Steps(when, k, K, s, [s EXCEPT !.moved = @ \cup {p}, !.uninit = @ \cup {p}],
               [t EXCEPT !.moved = @ \cup {p}, !.uninit = @ \cup {p}])
<1> DEFINE u == [s EXCEPT !.moved = @ \cup {p}, !.uninit = @ \cup {p}]
           v == [t EXCEPT !.moved = @ \cup {p}, !.uninit = @ \cup {p}]
           M(a) == a.moved \cup {p}
           U(a) == a.uninit \cup {p}
<1>1. u = [s EXCEPT !.moved = M(s), !.uninit = U(s)] /\ v = [t EXCEPT !.moved = M(t), !.uninit = U(t)]
  OBVIOUS
<1>2. IsState(s) /\ IsState(t) /\ M(s) \subseteq M(t) /\ U(s) \subseteq U(t)
  BY DEF Covers, IsGood
<1>. HIDE DEF u, v, M, U
<1>3. Parts(u, s.errors, s.next, s.borrows, M(s), U(s)) /\ Parts(v, t.errors, t.next, t.borrows, M(t), U(t))
  BY <1>1, <1>2, Updated
<1>4. Steps(when, k, K, s, u, v)
  BY <1>2, <1>3, KeepsBorrows DEF Covers, Parts
<1>. QED
  BY <1>4 DEF u, v

\* A read (check.rs:525-583).
LEMMA ReadSteps ==
  ASSUME NEW when, NEW k, NEW K, NEW s, NEW t, Covers(when, k, K, s, t),
         NEW p, NEW loc, NEW move_out \in BOOLEAN
  PROVE  Steps(when, k, K, s, read_place(s, p, loc, move_out), read_place(t, p, loc, move_out))
<1> DEFINE u == check_usable(s, p, loc, "UseAfterMove", "UseBeforeInit")
           v == check_usable(t, p, loc, "UseAfterMove", "UseBeforeInit")
           hs == Conflicting(s, p) # {}
           ht == Conflicting(t, p) # {}
           xs == \E br \in Conflicting(s, p) : Exclusive(br)
           xt == \E br \in Conflicting(t, p) : Exclusive(br)
           w == IF move_out THEN report_if(hs, u, "MoveWhileBorrowed", p, loc)
                ELSE report_if(xs, u, "ReadWhileMutablyBorrowed", p, loc)
           z == IF move_out THEN report_if(ht, v, "MoveWhileBorrowed", p, loc)
                ELSE report_if(xt, v, "ReadWhileMutablyBorrowed", p, loc)
<1>1. /\ read_place(s, p, loc, move_out)
           = IF move_out THEN [w EXCEPT !.moved = @ \cup {p}, !.uninit = @ \cup {p}] ELSE w
      /\ read_place(t, p, loc, move_out)
           = IF move_out THEN [z EXCEPT !.moved = @ \cup {p}, !.uninit = @ \cup {p}] ELSE z
  BY DEF read_place
<1>2. Steps(when, k, K, s, u, v)
  BY UsableSteps
<1>3. hs \in BOOLEAN /\ ht \in BOOLEAN /\ xs \in BOOLEAN /\ xt \in BOOLEAN /\ (hs => ht) /\ (xs => xt)
  BY ClashesCovered
<1>. HIDE DEF u, v, hs, ht, xs, xt
<1>4. Steps(when, k, K, u, w, z)
  <2>1. Covers(when, k, K, u, v)
    BY <1>2 DEF Steps
  <2>2. Steps(when, k, K, u, report_if(hs, u, "MoveWhileBorrowed", p, loc),
              report_if(ht, v, "MoveWhileBorrowed", p, loc))
    BY <1>3, <2>1, ReportSteps
  <2>3. Steps(when, k, K, u, report_if(xs, u, "ReadWhileMutablyBorrowed", p, loc),
              report_if(xt, v, "ReadWhileMutablyBorrowed", p, loc))
    BY <1>3, <2>1, ReportSteps
  <2>. QED
    BY <2>2, <2>3
<1>. HIDE DEF w, z
<1>5. Steps(when, k, K, s, w, z)
  BY <1>2, <1>4, StepsAgain
<1>6. CASE move_out
  <2>1. Steps(when, k, K, w, [w EXCEPT !.moved = @ \cup {p}, !.uninit = @ \cup {p}],
              [z EXCEPT !.moved = @ \cup {p}, !.uninit = @ \cup {p}])
    BY <1>5, MoveOutSteps DEF Steps
  <2>. QED
    BY <1>1, <1>5, <1>6, <2>1, StepsAgain
<1>7. CASE ~move_out
  BY <1>1, <1>5, <1>7
<1>. QED
  BY <1>6, <1>7

\* The check of a write (check.rs:586-620).
LEMMA WriteSteps ==
  ASSUME NEW when, NEW k, NEW K, NEW s, NEW t, Covers(when, k, K, s, t), NEW p, NEW loc
  PROVE  Steps(when, k, K, s, write_place(s, p, loc), write_place(t, p, loc))
<1> DEFINE hs == Conflicting(s, p) # {}
           ht == Conflicting(t, p) # {}
           ps == (init_chain(p) \ {p}) \cap s.moved # {}
           pt == (init_chain(p) \ {p}) \cap t.moved # {}
           u == report_if(hs, s, "WriteWhileBorrowed", p, loc)
           v == report_if(ht, t, "WriteWhileBorrowed", p, loc)
<1>1. /\ write_place(s, p, loc) = report_if(ps, u, "AssignToMoved", p, loc)
      /\ write_place(t, p, loc) = report_if(pt, v, "AssignToMoved", p, loc)
  BY DEF write_place
<1>2. hs \in BOOLEAN /\ ht \in BOOLEAN /\ ps \in BOOLEAN /\ pt \in BOOLEAN /\ (hs => ht) /\ (ps => pt)
  BY ClashesCovered DEF Covers
<1>. HIDE DEF hs, ht, ps, pt
<1>3. Steps(when, k, K, s, u, v)
  BY <1>2, ReportSteps
<1>. HIDE DEF u, v
<1>4. Steps(when, k, K, u, write_place(s, p, loc), write_place(t, p, loc))
  BY <1>1, <1>2, <1>3, ReportSteps DEF Steps
<1>. QED
  BY <1>3, <1>4, StepsAgain

\* An operand (check.rs:458-464).
LEMMA OperandSteps ==
  ASSUME NEW when, NEW k, NEW K, NEW s, NEW t, Covers(when, k, K, s, t), NEW o, NEW loc
  PROVE  Steps(when, k, K, s, process_operand(s, o, loc), process_operand(t, o, loc))
<1>1. CASE IsPlaceOperand(o)
  <2>1. Steps(when, k, K, s, read_place(s, o.place, loc, o.op = "move"),
              read_place(t, o.place, loc, o.op = "move"))
    BY ReadSteps
  <2>. QED
    BY <1>1, <2>1 DEF process_operand
<1>2. CASE ~IsPlaceOperand(o)
  BY <1>2 DEF process_operand, Steps, Adds
<1>. QED
  BY <1>1, <1>2

\* Nothing done.
LEMMA StepsNowhere ==
  ASSUME NEW when, NEW k, NEW K, NEW s, NEW t, Covers(when, k, K, s, t)
  PROVE  Steps(when, k, K, s, s, t)
BY DEF Steps, Adds

\* The operands of an instruction.
LEMMA OperandsStep ==
  ASSUME NEW when, NEW k, NEW K, NEW s, NEW t, Covers(when, k, K, s, t),
         NEW os, IsSequence(os), NEW loc
  PROVE  Steps(when, k, K, s, process_operands(s, os, loc), process_operands(t, os, loc))
<1> DEFINE n == Len(os)
<1>1. n \in Nat /\ DOMAIN os = 1..n
  BY DEF IsSequence
<1>. HIDE DEF n
<1>2. PICK run : Operands!Iterates(0, 0, loc, s, os, n, run) /\ Operands!Fold(0, 0, loc, s, os) = run[n]
  BY <1>1, Operands!FoldIterates
<1>3. PICK other : Operands!Iterates(0, 0, loc, t, os, n, other) /\ Operands!Fold(0, 0, loc, t, os) = other[n]
  BY <1>1, Operands!FoldIterates
<1> DEFINE T == {i \in Nat : i <= n => Steps(when, k, K, s, run[i], other[i])}
<1>4. 0 \in T
  BY <1>2, <1>3, StepsNowhere DEF Operands!Iterates
<1>5. ASSUME NEW i \in Nat, i \in T PROVE i + 1 \in T
  <2>. SUFFICES ASSUME i + 1 <= n PROVE Steps(when, k, K, s, run[i + 1], other[i + 1])
    OBVIOUS
  <2>1. Steps(when, k, K, s, run[i], other[i]) /\ i \in 0..n-1
    BY <1>1, <1>5
  <2>2. /\ run[i + 1] = process_operand(run[i], os[i + 1], loc)
        /\ other[i + 1] = process_operand(other[i], os[i + 1], loc)
    BY <1>2, <1>3, <2>1 DEF Operands!Iterates, operand_step
  <2>3. Steps(when, k, K, run[i], run[i + 1], other[i + 1])
    BY <2>1, <2>2, OperandSteps DEF Steps
  <2>. QED
    BY <2>1, <2>3, StepsAgain
<1>. HIDE DEF T
<1>6. n \in T
  BY <1>1, <1>4, <1>5, Operands!Counting
<1>. QED
  BY <1>1, <1>2, <1>3, <1>6, OperandsFold DEF T

(***************************************************************************)
(* Holders.                                                                *)
(***************************************************************************)
\* A borrow with other holders.
With(br, H) == [br EXCEPT !.holders = H]

\* It is the same borrow but for them.
LEMMA Held ==
  ASSUME NEW br, IsBorrow(br), NEW H
  PROVE  /\ IsBorrow(With(br, H)) /\ With(br, H).holders = H /\ With(br, H).idx = br.idx
         /\ SameBorrow(br, With(br, H)) /\ With(br, H).activated = br.activated
<1>1. ASSUME NEW c, c = [br EXCEPT !.holders = H]
      PROVE  /\ IsBorrow(c) /\ c.holders = H /\ c.idx = br.idx /\ SameBorrow(br, c)
             /\ c.activated = br.activated
  BY <1>1 DEF IsBorrow, SameBorrow
<1>. QED
  BY <1>1 DEF With

\* The borrows of B with their holders in G, those without one left out.
Retained(B, G) == {r \in {With(b, b.holders \cap G) : b \in B} : r.holders # {}}

\* Holders are dropped alike in s and in t.
LEMMA RetainSteps ==
  ASSUME NEW when, NEW k, NEW K, NEW s, NEW t, Covers(when, k, K, s, t), NEW G,
         NEW u, NEW v, u = [s EXCEPT !.borrows = Retained(s.borrows, G)],
         v = [t EXCEPT !.borrows = Retained(t.borrows, G)]
  PROVE  Steps(when, k, K, s, u, v)
<1> DEFINE R == Retained(s.borrows, G)
           Q == Retained(t.borrows, G)
<1>1. /\ Parts(u, s.errors, s.next, R, s.moved, s.uninit)
      /\ Parts(v, t.errors, t.next, Q, t.moved, t.uninit)
  BY Updated DEF Covers, IsGood
<1>2. \A b \in s.borrows \cup t.borrows : IsBorrow(b)
  BY DEF Covers, IsGood
<1>3. ASSUME NEW r \in R \cup Q PROVE IsBorrow(r)
  <2>1. PICK b \in s.borrows \cup t.borrows : r = With(b, b.holders \cap G)
    BY DEF Retained
  <2>. QED
    BY <1>2, <2>1, Held
<1>4. IsGood(u) /\ IsGood(v)
  <2>. HIDE DEF R, Q
  <2>. QED
    BY <1>1, <1>3 DEF Covers, IsGood, Parts
<1>5. ASSUME NEW r \in R
      PROVE  /\ \E c \in Q : Match(when, k, K, r, c)
             /\ \E c \in s.borrows : r.idx = c.idx /\ SameBorrow(r, c)
  <2>1. PICK b \in s.borrows : r = With(b, b.holders \cap G)
    BY DEF Retained
  <2>2. PICK c \in t.borrows : Match(when, k, K, b, c)
    BY DEF Covers
  <2> DEFINE q == With(c, c.holders \cap G)
  <2>3. /\ r.holders = b.holders \cap G /\ r.idx = b.idx /\ SameBorrow(b, r) /\ r.activated = b.activated
        /\ q.holders = c.holders \cap G /\ q.idx = c.idx /\ SameBorrow(c, q) /\ q.activated = c.activated
    BY <1>2, <2>1, Held
  <2>5. q \in Q
    <3>1. r.holders # {}
      BY DEF Retained
    <3>2. c.holders \cap G # {}
      BY <2>2, <2>3, <3>1 DEF Match
    <3>. QED
      BY <2>3, <3>2 DEF Retained
  <2>. HIDE DEF q, Q, R
  <2>4. Match(when, k, K, r, q)
    BY <2>2, <2>3 DEF Match, SameBorrow
  <2>. QED
    BY <2>3, <2>4, <2>5 DEF SameBorrow
<1>. HIDE DEF R, Q
<1>6. u.errors # {} => v.errors # {}
  BY <1>1 DEF Covers, Parts
<1>. QED
  BY <1>1, <1>4, <1>5, <1>6, Rewrites DEF Covers, Parts

\* The end of the borrows that no live local holds (check.rs:354-367).
LEMMA KillsStep ==
  ASSUME NEW when, NEW k, NEW K, NEW s, NEW t, Covers(when, k, K, s, t), NEW f, NEW live
  PROVE  Steps(when, k, K, s, apply_kills(f, s, live), apply_kills(f, t, live))
<1> DEFINE kept(b) == {h \in b.holders : h.root \in f.statics \/ h.root \in live}
           G == UNION {kept(b) : b \in s.borrows \cup t.borrows}
<1>1. \A b \in s.borrows \cup t.borrows : b.holders \cap G = kept(b)
  OBVIOUS
<1> DEFINE R == RetainHolders(s.borrows, LAMBDA h : h.root \in f.statics \/ h.root \in live)
           Q == RetainHolders(t.borrows, LAMBDA h : h.root \in f.statics \/ h.root \in live)
<1>2. /\ R = {r \in {With(b, kept(b)) : b \in s.borrows} : r.holders # {}}
      /\ Q = {r \in {With(b, kept(b)) : b \in t.borrows} : r.holders # {}}
  BY DEF RetainHolders, With
<1>3. apply_kills(f, s, live) = [s EXCEPT !.borrows = R] /\ apply_kills(f, t, live) = [t EXCEPT !.borrows = Q]
  BY DEF apply_kills
<1>. HIDE DEF G, kept, R, Q
<1>4. R = Retained(s.borrows, G) /\ Q = Retained(t.borrows, G)
  <2>1. /\ {With(b, kept(b)) : b \in s.borrows} = {With(b, b.holders \cap G) : b \in s.borrows}
        /\ {With(b, kept(b)) : b \in t.borrows} = {With(b, b.holders \cap G) : b \in t.borrows}
    BY <1>1
  <2>. QED
    BY <1>2, <2>1 DEF Retained
<1>. QED
  BY <1>3, <1>4, RetainSteps

\* A place that is written holds no borrow (check.rs:769-777).
LEMMA OverwrittenStep ==
  ASSUME NEW when, NEW k, NEW K, NEW s, NEW t, Covers(when, k, K, s, t), NEW dest
  PROVE  Steps(when, k, K, s, kill_holders_overwritten(s, dest), kill_holders_overwritten(t, dest))
<1> DEFINE kept(b) == {h \in b.holders : ~is_prefix(dest, h)}
           G == UNION {kept(b) : b \in s.borrows \cup t.borrows}
           R == RetainHolders(s.borrows, LAMBDA h : ~is_prefix(dest, h))
           Q == RetainHolders(t.borrows, LAMBDA h : ~is_prefix(dest, h))
<1>1. \A b \in s.borrows \cup t.borrows : b.holders \cap G = kept(b)
  OBVIOUS
<1>2. /\ R = {r \in {With(b, kept(b)) : b \in s.borrows} : r.holders # {}}
      /\ Q = {r \in {With(b, kept(b)) : b \in t.borrows} : r.holders # {}}
  BY DEF RetainHolders, With
<1>3. /\ kill_holders_overwritten(s, dest) = [s EXCEPT !.borrows = R]
      /\ kill_holders_overwritten(t, dest) = [t EXCEPT !.borrows = Q]
  BY DEF kill_holders_overwritten
<1>. HIDE DEF G, kept, R, Q
<1>4. R = Retained(s.borrows, G) /\ Q = Retained(t.borrows, G)
  <2>1. /\ {With(b, kept(b)) : b \in s.borrows} = {With(b, b.holders \cap G) : b \in s.borrows}
        /\ {With(b, kept(b)) : b \in t.borrows} = {With(b, b.holders \cap G) : b \in t.borrows}
    BY <1>1
  <2>. QED
    BY <1>2, <2>1 DEF Retained
<1>. QED
  BY <1>3, <1>4, RetainSteps

\* The borrows of other locals' places.
OfOthers(B, l) == {br \in B : br.source.root # l}

\* Those of a local's are dropped alike.
LEMMA SourceStep ==
  ASSUME NEW when, NEW k, NEW K, NEW s, NEW t, Covers(when, k, K, s, t), NEW l, NEW u, NEW v,
         u = [s EXCEPT !.borrows = OfOthers(s.borrows, l)],
         v = [t EXCEPT !.borrows = OfOthers(t.borrows, l)]
  PROVE  Steps(when, k, K, s, u, v)
<1> DEFINE R == OfOthers(s.borrows, l)
           Q == OfOthers(t.borrows, l)
<1>1. /\ Parts(u, s.errors, s.next, R, s.moved, s.uninit)
      /\ Parts(v, t.errors, t.next, Q, t.moved, t.uninit)
  BY Updated DEF Covers, IsGood
<1>2. \A r \in R \cup Q : IsBorrow(r)
  BY DEF Covers, IsGood, OfOthers
<1>3. ASSUME NEW r \in R
      PROVE  /\ \E c \in Q : Match(when, k, K, r, c)
             /\ \E c \in s.borrows : r.idx = c.idx /\ SameBorrow(r, c)
  <2>1. PICK c \in t.borrows : Match(when, k, K, r, c)
    BY DEF Covers, OfOthers
  <2>2. r \in s.borrows /\ c \in Q
    BY <2>1 DEF Match, SameBorrow, OfOthers
  <2>. QED
    BY <2>1, <2>2 DEF SameBorrow
<1>. HIDE DEF R, Q
<1>4. IsGood(u) /\ IsGood(v)
  BY <1>1, <1>2 DEF Covers, IsGood, Parts
<1>5. u.errors # {} => v.errors # {}
  BY <1>1 DEF Covers, Parts
<1>. QED
  BY <1>1, <1>3, <1>4, <1>5, Rewrites DEF Covers, Parts

\* A local that starts or ends its storage holds no borrow, and nothing of it is
\* borrowed (check.rs:369-391).
LEMMA LocalStep ==
  ASSUME NEW when, NEW k, NEW K, NEW s, NEW t, Covers(when, k, K, s, t), NEW f, NEW l
  PROVE  Steps(when, k, K, s, kill_borrows_at_local(f, s, l), kill_borrows_at_local(f, t, l))
<1> DEFINE kept(b) == {h \in b.holders : h.root # l}
           G == UNION {kept(b) : b \in s.borrows \cup t.borrows}
           R == RetainHolders(s.borrows, LAMBDA h : h.root # l)
           Q == RetainHolders(t.borrows, LAMBDA h : h.root # l)
           u == [s EXCEPT !.borrows = Retained(s.borrows, G)]
           v == [t EXCEPT !.borrows = Retained(t.borrows, G)]
<1>1. \A b \in s.borrows \cup t.borrows : b.holders \cap G = kept(b)
  OBVIOUS
<1>2. /\ R = {r \in {With(b, kept(b)) : b \in s.borrows} : r.holders # {}}
      /\ Q = {r \in {With(b, kept(b)) : b \in t.borrows} : r.holders # {}}
  BY DEF RetainHolders, With
<1>3. /\ kill_borrows_at_local(f, s, l) = [s EXCEPT !.borrows = OfOthers(R, l)]
      /\ kill_borrows_at_local(f, t, l) = [t EXCEPT !.borrows = OfOthers(Q, l)]
  BY DEF kill_borrows_at_local, OfOthers
<1>. HIDE DEF G, kept, R, Q
<1>4. R = Retained(s.borrows, G) /\ Q = Retained(t.borrows, G)
  <2>1. /\ {With(b, kept(b)) : b \in s.borrows} = {With(b, b.holders \cap G) : b \in s.borrows}
        /\ {With(b, kept(b)) : b \in t.borrows} = {With(b, b.holders \cap G) : b \in t.borrows}
    BY <1>1
  <2>. QED
    BY <1>2, <2>1 DEF Retained
<1>5. Steps(when, k, K, s, u, v)
  BY RetainSteps
<1>6. u.borrows = R /\ v.borrows = Q
  <2>1. u = [s EXCEPT !.borrows = R] /\ v = [t EXCEPT !.borrows = Q]
    BY <1>4
  <2>2. IsState(s) /\ IsState(t)
    BY DEF Covers, IsGood
  <2>. HIDE DEF u, v
  <2>3. /\ Parts(u, s.errors, s.next, R, s.moved, s.uninit)
        /\ Parts(v, t.errors, t.next, Q, t.moved, t.uninit)
    BY <2>1, <2>2, Updated
  <2>. QED
    BY <2>3 DEF Parts
<1>7. /\ kill_borrows_at_local(f, s, l) = [u EXCEPT !.borrows = OfOthers(u.borrows, l)]
      /\ kill_borrows_at_local(f, t, l) = [v EXCEPT !.borrows = OfOthers(v.borrows, l)]
  <2>1. \A X, Y, a : [[a EXCEPT !.borrows = X] EXCEPT !.borrows = Y] = [a EXCEPT !.borrows = Y]
    OBVIOUS
  <2>. QED
    BY <1>3, <1>6, <2>1
<1>. HIDE DEF u, v
<1>8. Steps(when, k, K, u, kill_borrows_at_local(f, s, l), kill_borrows_at_local(f, t, l))
  BY <1>5, <1>7, SourceStep DEF Steps
<1>. QED
  BY <1>5, <1>8, StepsAgain

\* What holds a borrow hands it on (check.rs:784-797).
LEMMA HoldersStep ==
  ASSUME NEW when, NEW k, NEW K, NEW s, NEW t, Covers(when, k, K, s, t), NEW src, NEW dest
  PROVE  Steps(when, k, K, s, propagate_holders(s, src, dest), propagate_holders(t, src, dest))
<1> DEFINE more(b) == IF src \in b.holders THEN With(b, b.holders \cup {dest}) ELSE b
           R == {more(b) : b \in s.borrows}
           Q == {more(b) : b \in t.borrows}
           u == propagate_holders(s, src, dest)
           v == propagate_holders(t, src, dest)
<1>1. u = [s EXCEPT !.borrows = R] /\ v = [t EXCEPT !.borrows = Q]
  BY DEF propagate_holders, With
<1>2. ASSUME NEW b \in s.borrows \cup t.borrows
      PROVE  /\ IsBorrow(more(b)) /\ more(b).idx = b.idx /\ SameBorrow(b, more(b))
             /\ more(b).activated = b.activated
             /\ more(b).holders = IF src \in b.holders THEN b.holders \cup {dest} ELSE b.holders
  <2>1. IsBorrow(b)
    BY DEF Covers, IsGood
  <2>. QED
    BY <2>1, Held DEF SameBorrow
<1>3. \A r \in R : \E b \in s.borrows : r = more(b)
  OBVIOUS
<1>4. \A c \in t.borrows : more(c) \in Q
  OBVIOUS
<1>5. \A r \in R \cup Q : IsBorrow(r)
  BY <1>2
<1>. HIDE DEF u, v, R, Q, more
<1>6. /\ Parts(u, s.errors, s.next, R, s.moved, s.uninit)
      /\ Parts(v, t.errors, t.next, Q, t.moved, t.uninit)
  BY <1>1, Updated DEF Covers, IsGood
<1>7. IsGood(u) /\ IsGood(v) /\ (u.errors # {} => v.errors # {})
  BY <1>5, <1>6 DEF Covers, IsGood, Parts
<1>8. ASSUME NEW r \in R
      PROVE  /\ \E c \in Q : Match(when, k, K, r, c)
             /\ \E c \in s.borrows : r.idx = c.idx /\ SameBorrow(r, c)
  <2>1. PICK b \in s.borrows : r = more(b)
    BY <1>3
  <2>2. PICK c \in t.borrows : Match(when, k, K, b, c)
    BY DEF Covers
  <2>3. Match(when, k, K, r, more(c))
    BY <1>2, <2>1, <2>2 DEF Match, SameBorrow
  <2>. QED
    BY <1>2, <1>4, <2>1, <2>3 DEF SameBorrow
<1>9. Steps(when, k, K, s, u, v)
  BY <1>6, <1>7, <1>8, Rewrites DEF Covers, Parts
<1>. QED
  BY <1>9 DEF u, v

\* A reference that is handed on has one more holder in both (check.rs:786-792).
LEMMA PropagateSteps ==
  ASSUME NEW when, NEW k, NEW K, NEW s, NEW t, Covers(when, k, K, s, t), NEW f, NEW o, NEW dest
  PROVE  Steps(when, k, K, s, propagate_operand(f, s, o, dest), propagate_operand(f, t, o, dest))
BY HoldersStep, StepsNowhere DEF propagate_operand

\* What is written is initialised (check.rs:779-782).
LEMMA MarkSteps ==
  ASSUME NEW when, NEW k, NEW K, NEW s, NEW t, Covers(when, k, K, s, t), NEW p
  PROVE  Steps(when, k, K, s, mark_initialized(s, p), mark_initialized(t, p))
<1> DEFINE u == mark_initialized(s, p)
           v == mark_initialized(t, p)
           M(a) == {m \in a.moved : ~is_prefix(p, m)}
           U(a) == {m \in a.uninit : ~is_prefix(p, m)}
<1>1. u = [s EXCEPT !.moved = M(s), !.uninit = U(s)] /\ v = [t EXCEPT !.moved = M(t), !.uninit = U(t)]
  BY DEF mark_initialized
<1>2. IsState(s) /\ IsState(t) /\ M(s) \subseteq M(t) /\ U(s) \subseteq U(t)
  BY DEF Covers, IsGood
<1>. HIDE DEF u, v, M, U
<1>3. Parts(u, s.errors, s.next, s.borrows, M(s), U(s)) /\ Parts(v, t.errors, t.next, t.borrows, M(t), U(t))
  BY <1>1, <1>2, Updated
<1>4. Steps(when, k, K, s, u, v)
  BY <1>2, <1>3, KeepsBorrows DEF Covers, Parts
<1>. QED
  BY <1>4 DEF u, v

\* A write, checked and no longer a holder.
LEMMA OverwriteSteps ==
  ASSUME NEW when, NEW k, NEW K, NEW s, NEW t, Covers(when, k, K, s, t), NEW p, NEW loc
  PROVE  Steps(when, k, K, s, overwrite(s, p, loc), overwrite(t, p, loc))
<1> DEFINE u == write_place(s, p, loc)
           v == write_place(t, p, loc)
<1>1. Steps(when, k, K, s, u, v)
  BY WriteSteps
<1>2. overwrite(s, p, loc) = kill_holders_overwritten(u, p) /\ overwrite(t, p, loc) = kill_holders_overwritten(v, p)
  BY DEF overwrite
<1>. HIDE DEF u, v
<1>3. Steps(when, k, K, u, overwrite(s, p, loc), overwrite(t, p, loc))
  BY <1>1, <1>2, OverwrittenStep DEF Steps
<1>. QED
  BY <1>1, <1>3, StepsAgain

\* The borrow that is made: it takes the next number.
Made(n, kind, p, dest, two_phase) ==
  [idx |-> n, kind |-> kind, source |-> p, holders |-> {dest}, two_phase |-> two_phase,
   activated |-> ~two_phase]

\* Borrows with the same counters at their start get matching numbers.
LEMMA MadeSteps ==
  ASSUME NEW when, NEW k, NEW K, NEW s, NEW t, Covers(when, k, K, s, t),
         NEW kind, NEW p, NEW dest, NEW two_phase \in BOOLEAN, NEW u, NEW v,
         u = [s EXCEPT !.next = s.next + 1, !.borrows = s.borrows \cup {Made(s.next, kind, p, dest, two_phase)}],
         v = [t EXCEPT !.next = t.next + 1, !.borrows = t.borrows \cup {Made(t.next, kind, p, dest, two_phase)}]
  PROVE  Steps(when, k, K, s, u, v)
<1> DEFINE ms == Made(s.next, kind, p, dest, two_phase)
           mt == Made(t.next, kind, p, dest, two_phase)
           R == s.borrows \cup {ms}
           Q == t.borrows \cup {mt}
           n == s.next + 1
           m == t.next + 1
<1>1. /\ s.next \in Nat /\ t.next \in Nat /\ k \in Nat /\ K \in Nat
      /\ s.next >= k /\ t.next >= K /\ s.next - k = t.next - K
      /\ \A br \in s.borrows \cup t.borrows : IsBorrow(br)
  BY DEF Covers, IsGood
<1>2. IsBorrow(ms) /\ IsBorrow(mt) /\ Match(when, k, K, ms, mt) /\ ms.idx = s.next
  <2>1. IsBorrow(ms) /\ IsBorrow(mt) /\ ms.idx = s.next /\ mt.idx = t.next
    BY <1>1 DEF Made, IsBorrow
  <2>2. ms.kind = mt.kind /\ ms.source = mt.source /\ ms.two_phase = mt.two_phase
        /\ ms.holders = mt.holders /\ ms.activated = mt.activated
    BY DEF Made
  <2>. HIDE DEF ms, mt
  <2>. QED
    BY <1>1, <2>1, <2>2 DEF Match, Renumbered, SameBorrow
<1>3. n \in Nat /\ m \in Nat /\ n >= k /\ m >= K /\ n - k = m - K /\ s.next < n /\ s.next <= n
  BY <1>1
<1>. HIDE DEF ms, mt, n, m
<1>4. (\A r \in R \cup Q : IsBorrow(r)) /\ s.borrows \subseteq R /\ t.borrows \subseteq Q /\ ms \in R /\ mt \in Q
      /\ \A r \in R : r \in s.borrows \/ r = ms
  BY <1>1, <1>2
<1>5. u = [s EXCEPT !.next = n, !.borrows = R] /\ v = [t EXCEPT !.next = m, !.borrows = Q]
  BY DEF ms, mt, n, m
<1>. HIDE DEF R, Q
<1>6. /\ Parts(u, s.errors, n, R, s.moved, s.uninit)
      /\ Parts(v, t.errors, m, Q, t.moved, t.uninit)
  BY <1>5, Updated DEF Covers, IsGood
<1>7. IsGood(u) /\ IsGood(v)
  BY <1>3, <1>4, <1>6 DEF IsGood, Parts
<1>8. \A r \in R : \E c \in Q : Match(when, k, K, r, c)
  BY <1>2, <1>4 DEF Covers
<1>9. Covers(when, k, K, u, v)
  BY <1>1, <1>3, <1>6, <1>7, <1>8 DEF Covers, Parts
<1>10. ASSUME NEW X, Numbered(X \cup s.borrows, s.next)
       PROVE  Numbered(X \cup R, n)
  <2>1. \A br \in X \cup R : br \in X \cup s.borrows \/ br = ms
    BY <1>4
  <2>2. \A br \in X \cup s.borrows : br.idx \in Nat /\ br.idx < s.next
    BY <1>10 DEF Numbered
  <2>3. ASSUME NEW br \in X \cup R PROVE br.idx \in Nat /\ br.idx < n
    <3>1. CASE br = ms
      BY <1>1, <1>2, <1>3, <3>1
    <3>2. CASE br \in X \cup s.borrows
      BY <1>1, <1>3, <2>2, <3>2 DEF n
    <3>. QED
      BY <2>1, <3>1, <3>2
  <2>4. ASSUME NEW br \in X \cup R, NEW c \in X \cup R, br.idx = c.idx
        PROVE  SameBorrow(br, c)
    <3>1. CASE br = ms /\ c = ms
      BY <3>1 DEF SameBorrow
    <3>2. CASE br \in X \cup s.borrows /\ c \in X \cup s.borrows
      BY <1>10, <2>4, <3>2 DEF Numbered
    <3>3. CASE (br \in X \cup s.borrows /\ c = ms) \/ (c \in X \cup s.borrows /\ br = ms)
      BY <1>1, <1>2, <2>2, <2>4, <3>3
    <3>. QED
      BY <2>1, <3>1, <3>2, <3>3
  <2>. QED
    BY <2>3, <2>4 DEF Numbered
<1>11. Adds(s, u)
  BY <1>6, <1>10 DEF Adds, Parts
<1>. QED
  BY <1>9, <1>11 DEF Steps

\* An error does not count as a borrow.
LEMMA ReportKeepsNext ==
  ASSUME NEW s, IsState(s), NEW cond, NEW kind, NEW p, NEW loc
  PROVE  /\ IsState(report_if(cond, s, kind, p, loc)) /\ report_if(cond, s, kind, p, loc).next = s.next
         /\ IsState(report(s, kind, p, loc)) /\ report(s, kind, p, loc).next = s.next
BY DEF IsState, report_if, report

\* A borrow (check.rs:623-703).
LEMMA BorrowSteps ==
  ASSUME NEW when, NEW k, NEW K, NEW s, NEW t, Covers(when, k, K, s, t),
         NEW f, NEW lv, NEW kind, NEW p, NEW dest, NEW loc
  PROVE  Steps(when, k, K, s, borrow_place(f, lv, s, kind, p, dest, loc),
               borrow_place(f, lv, t, kind, p, dest, loc))
<1> DEFINE u == check_usable(s, p, loc, "BorrowOfMoved", "BorrowOfUninit")
           v == check_usable(t, p, loc, "BorrowOfMoved", "BorrowOfUninit")
           im == kind = Mutable /\ ~is_place_mutable(f, p)
           w == report_if(im, u, "MutableBorrowOfImmutable", p, loc)
           z == report_if(im, v, "MutableBorrowOfImmutable", p, loc)
           hs == Conflicting(s, p) # {}
           ht == Conflicting(t, p) # {}
           xs == \E br \in Conflicting(s, p) : Exclusive(br)
           xt == \E br \in Conflicting(t, p) : Exclusive(br)
           cs == IF kind = Mutable THEN report_if(hs, w, "MutableBorrowConflict", p, loc)
                 ELSE report_if(xs, w, "SharedBorrowConflict", p, loc)
           ct == IF kind = Mutable THEN report_if(ht, z, "MutableBorrowConflict", p, loc)
                 ELSE report_if(xt, z, "SharedBorrowConflict", p, loc)
           two_phase == kind = Mutable /\ is_two_phase(lv, dest)
           es == [cs EXCEPT !.next = cs.next + 1, !.borrows = cs.borrows \cup {Made(cs.next, kind, p, dest, two_phase)}]
           et == [ct EXCEPT !.next = ct.next + 1, !.borrows = ct.borrows \cup {Made(ct.next, kind, p, dest, two_phase)}]
<1>1. /\ borrow_place(f, lv, s, kind, p, dest, loc)
           = [cs EXCEPT !.next = cs.next + 1, !.borrows = cs.borrows \cup {Made(s.next, kind, p, dest, two_phase)}]
      /\ borrow_place(f, lv, t, kind, p, dest, loc)
           = [ct EXCEPT !.next = ct.next + 1, !.borrows = ct.borrows \cup {Made(t.next, kind, p, dest, two_phase)}]
  BY DEF borrow_place, Made
<1>2. Steps(when, k, K, s, u, v)
  BY UsableSteps
<1>3. /\ hs \in BOOLEAN /\ ht \in BOOLEAN /\ xs \in BOOLEAN /\ xt \in BOOLEAN /\ im \in BOOLEAN
      /\ two_phase \in BOOLEAN /\ (hs => ht) /\ (xs => xt)
  BY ClashesCovered
<1>4. cs.next = s.next /\ ct.next = t.next
  <2>1. IsState(s) /\ IsState(t)
    BY DEF Covers, IsGood
  <2>2. IsState(u) /\ IsState(v) /\ u.next = s.next /\ v.next = t.next
    BY <2>1, ReportKeepsNext DEF check_usable
  <2>. HIDE DEF u, v
  <2>3. IsState(w) /\ IsState(z) /\ w.next = s.next /\ z.next = t.next
    BY <2>2, ReportKeepsNext
  <2>. HIDE DEF w, z, hs, ht, xs, xt
  <2>4. /\ report_if(hs, w, "MutableBorrowConflict", p, loc).next = w.next
        /\ report_if(xs, w, "SharedBorrowConflict", p, loc).next = w.next
        /\ report_if(ht, z, "MutableBorrowConflict", p, loc).next = z.next
        /\ report_if(xt, z, "SharedBorrowConflict", p, loc).next = z.next
    BY <2>3, ReportKeepsNext
  <2>. QED
    BY <2>3, <2>4
<1>. HIDE DEF u, v, hs, ht, xs, xt, im, two_phase
<1>5. Steps(when, k, K, u, w, z)
  BY <1>2, <1>3, ReportSteps DEF Steps
<1>6. Steps(when, k, K, s, w, z)
  BY <1>2, <1>5, StepsAgain
<1>. HIDE DEF w, z
<1>7. Covers(when, k, K, w, z)
  BY <1>6 DEF Steps
<1>8. Steps(when, k, K, w, cs, ct)
  <2>1. Steps(when, k, K, w, report_if(hs, w, "MutableBorrowConflict", p, loc),
              report_if(ht, z, "MutableBorrowConflict", p, loc))
    BY <1>3, <1>7, ReportSteps
  <2>2. Steps(when, k, K, w, report_if(xs, w, "SharedBorrowConflict", p, loc),
              report_if(xt, z, "SharedBorrowConflict", p, loc))
    BY <1>3, <1>7, ReportSteps
  <2>. QED
    BY <2>1, <2>2
<1>. HIDE DEF cs, ct
<1>9. Steps(when, k, K, s, cs, ct)
  BY <1>6, <1>8, StepsAgain
<1>10. /\ borrow_place(f, lv, s, kind, p, dest, loc) = es
       /\ borrow_place(f, lv, t, kind, p, dest, loc) = et
  BY <1>1, <1>4
<1>11. Steps(when, k, K, cs, es, et)
  <2>1. Covers(when, k, K, cs, ct)
    BY <1>9 DEF Steps
  <2>. QED
    BY <1>3, <2>1, MadeSteps
<1>. HIDE DEF es, et
<1>. QED
  BY <1>9, <1>10, <1>11, StepsAgain

\* A right-hand side (check.rs:420-456).
LEMMA RvalueSteps ==
  ASSUME NEW when, NEW k, NEW K, NEW s, NEW t, Covers(when, k, K, s, t),
         NEW f, NEW lv, NEW rv, NEW dest, NEW loc,
         rv.rv \in {"use", "ref", "len", "ops"}, rv.rv = "ops" => IsSequence(rv.operands)
  PROVE  Steps(when, k, K, s, process_rvalue(f, lv, s, rv, dest, loc), process_rvalue(f, lv, t, rv, dest, loc))
<1>1. CASE rv.rv = "use"
  <2> DEFINE u == process_operand(s, rv.operand, loc)
             v == process_operand(t, rv.operand, loc)
  <2>1. Steps(when, k, K, s, u, v)
    BY OperandSteps
  <2>2. /\ process_rvalue(f, lv, s, rv, dest, loc) = propagate_operand(f, u, rv.operand, dest)
        /\ process_rvalue(f, lv, t, rv, dest, loc) = propagate_operand(f, v, rv.operand, dest)
    BY <1>1 DEF process_rvalue
  <2>. HIDE DEF u, v
  <2>3. Steps(when, k, K, u, propagate_operand(f, u, rv.operand, dest), propagate_operand(f, v, rv.operand, dest))
    BY <2>1, PropagateSteps DEF Steps
  <2>. QED
    BY <2>1, <2>2, <2>3, StepsAgain
<1>2. CASE rv.rv = "ref"
  BY <1>2, BorrowSteps DEF process_rvalue
<1>3. CASE rv.rv = "len"
  BY <1>3, ReadSteps DEF process_rvalue
<1>4. CASE rv.rv = "ops"
  BY <1>4, OperandsStep DEF process_rvalue
<1>. QED
  BY <1>1, <1>2, <1>3, <1>4

\* The marker of a local's storage (check.rs:409-416).
LEMMA MarkerSteps ==
  ASSUME NEW when, NEW k, NEW K, NEW s, NEW t, Covers(when, k, K, s, t), NEW f, NEW l
  PROVE  Steps(when, k, K, s, storage_marker(f, s, l), storage_marker(f, t, l))
<1> DEFINE U(a) == a.uninit \cup {Local(l)}
           u == [s EXCEPT !.uninit = U(s)]
           v == [t EXCEPT !.uninit = U(t)]
<1>1. storage_marker(f, s, l) = kill_borrows_at_local(f, u, l) /\ storage_marker(f, t, l) = kill_borrows_at_local(f, v, l)
  BY DEF storage_marker
<1>2. IsState(s) /\ IsState(t) /\ U(s) \subseteq U(t)
  BY DEF Covers, IsGood
<1>3. u = [s EXCEPT !.uninit = U(s)] /\ v = [t EXCEPT !.uninit = U(t)]
  OBVIOUS
<1>. HIDE DEF u, v, U
<1>4. Parts(u, s.errors, s.next, s.borrows, s.moved, U(s)) /\ Parts(v, t.errors, t.next, t.borrows, t.moved, U(t))
  BY <1>2, <1>3, Updated
<1>5. Steps(when, k, K, s, u, v)
  BY <1>2, <1>4, KeepsBorrows DEF Covers, Parts
<1>6. Steps(when, k, K, u, storage_marker(f, s, l), storage_marker(f, t, l))
  BY <1>1, <1>5, LocalStep DEF Steps
<1>. QED
  BY <1>5, <1>6, StepsAgain

\* A statement (check.rs:393-418).
LEMMA StatementSteps ==
  ASSUME NEW when, NEW k, NEW K, NEW s, NEW t, Covers(when, k, K, s, t),
         NEW f, NEW lv, NEW st, IsStatement(st), NEW loc
  PROVE  Steps(when, k, K, s, process_statement(f, lv, s, st, loc), process_statement(f, lv, t, st, loc))
<1>1. CASE st.st = "assign"
  <2> DEFINE u == overwrite(s, st.dest, loc)
             v == overwrite(t, st.dest, loc)
             w == process_rvalue(f, lv, u, st.rvalue, st.dest, loc)
             z == process_rvalue(f, lv, v, st.rvalue, st.dest, loc)
  <2>1. Steps(when, k, K, s, u, v)
    BY OverwriteSteps
  <2>2. /\ process_statement(f, lv, s, st, loc) = mark_initialized(w, st.dest)
        /\ process_statement(f, lv, t, st, loc) = mark_initialized(z, st.dest)
    BY <1>1 DEF process_statement
  <2>. HIDE DEF u, v
  <2>3. Steps(when, k, K, u, w, z)
    BY <1>1, <2>1, RvalueSteps DEF Steps, IsStatement
  <2>. HIDE DEF w, z
  <2>4. Steps(when, k, K, s, w, z)
    BY <2>1, <2>3, StepsAgain
  <2>5. Steps(when, k, K, w, mark_initialized(w, st.dest), mark_initialized(z, st.dest))
    BY <2>4, MarkSteps DEF Steps
  <2>. QED
    BY <2>2, <2>4, <2>5, StepsAgain
<1>2. CASE st.st = "set_discriminant"
  <2> DEFINE u == overwrite(s, st.place, loc)
             v == overwrite(t, st.place, loc)
  <2>1. Steps(when, k, K, s, u, v)
    BY OverwriteSteps
  <2>2. /\ process_statement(f, lv, s, st, loc) = mark_initialized(u, st.place)
        /\ process_statement(f, lv, t, st, loc) = mark_initialized(v, st.place)
    BY <1>2 DEF process_statement
  <2>. HIDE DEF u, v
  <2>3. Steps(when, k, K, u, mark_initialized(u, st.place), mark_initialized(v, st.place))
    BY <2>1, MarkSteps DEF Steps
  <2>. QED
    BY <2>1, <2>2, <2>3, StepsAgain
<1>3. CASE st.st \in {"storage_live", "storage_dead"}
  <2>1. /\ process_statement(f, lv, s, st, loc) = storage_marker(f, s, st.local)
        /\ process_statement(f, lv, t, st, loc) = storage_marker(f, t, st.local)
    BY <1>3 DEF process_statement
  <2>. QED
    BY <2>1, MarkerSteps
<1>. QED
  BY <1>1, <1>2, <1>3 DEF IsStatement

\* A statement with the kills after it (check.rs:239-245).
LEMMA WalkStatementSteps ==
  ASSUME NEW when, NEW k, NEW K, NEW s, NEW t, Covers(when, k, K, s, t),
         NEW f, NEW lv, NEW b, NEW i, IsStatement(Stmts(f, b)[i])
  PROVE  Steps(when, k, K, s, walk_statement(f, lv, s, b, i), walk_statement(f, lv, t, b, i))
<1> DEFINE u == process_statement(f, lv, s, Stmts(f, b)[i], <<b, i>>)
           v == process_statement(f, lv, t, Stmts(f, b)[i], <<b, i>>)
<1>1. Steps(when, k, K, s, u, v)
  BY StatementSteps
<1>2. /\ walk_statement(f, lv, s, b, i) = apply_kills(f, u, lv.live_before[b][i + 1])
      /\ walk_statement(f, lv, t, b, i) = apply_kills(f, v, lv.live_before[b][i + 1])
  BY DEF walk_statement
<1>. HIDE DEF u, v
<1>3. Steps(when, k, K, u, walk_statement(f, lv, s, b, i), walk_statement(f, lv, t, b, i))
  BY <1>1, <1>2, KillsStep DEF Steps
<1>. QED
  BY <1>1, <1>3, StepsAgain

(***************************************************************************)
(* Terminators.                                                            *)
(***************************************************************************)
\* Agreement on what is activated may be given up.
LEMMA StepsThen ==
  ASSUME NEW k, NEW K, NEW s, NEW u, NEW v, NEW w, NEW z,
         Steps("before", k, K, s, u, v), Steps("after", k, K, u, w, z)
  PROVE  Steps("after", k, K, s, w, z)
BY DEF Steps, Adds

\* So may it be of two states.
LEMMA CoversAfter ==
  ASSUME NEW k, NEW K, NEW s, NEW t, Covers("before", k, K, s, t)
  PROVE  Covers("after", k, K, s, t)
<1>1. \A br \in s.borrows : \E c \in t.borrows : Match("after", k, K, br, c)
  BY DEF Covers, Match
<1>. QED
  BY <1>1 DEF Covers

\* Borrows with different numbers match borrows with different numbers.
LEMMA NumbersApart ==
  ASSUME NEW when, NEW k \in Nat, NEW K \in Nat, NEW b, NEW c, NEW o, NEW q,
         IsBorrow(b), IsBorrow(c), IsBorrow(o), IsBorrow(q),
         Match(when, k, K, b, c), Match(when, k, K, o, q), b.idx # o.idx
  PROVE  c.idx # q.idx
<1>1. b.idx \in Nat /\ c.idx \in Nat /\ o.idx \in Nat /\ q.idx \in Nat
  BY DEF IsBorrow
<1>2. Renumbered(k, K, b.idx, c.idx) /\ Renumbered(k, K, o.idx, q.idx)
  BY DEF Match
<1>. QED
  BY <1>1, <1>2 DEF Renumbered

\* Errors, when the other walk has errors too.
LEMMA ErrorsStep ==
  ASSUME NEW when, NEW k, NEW K, NEW s, NEW t, Covers(when, k, K, s, t),
         NEW E, NEW F, E # {} => F # {}, NEW u, NEW v,
         u = [s EXCEPT !.errors = s.errors \cup E], v = [t EXCEPT !.errors = t.errors \cup F]
  PROVE  Steps(when, k, K, s, u, v)
<1> DEFINE es == s.errors \cup E
           et == t.errors \cup F
<1>1. s.errors \subseteq es /\ (es # {} => et # {})
  BY DEF Covers
<1>2. u = [s EXCEPT !.errors = es] /\ v = [t EXCEPT !.errors = et]
  OBVIOUS
<1>. HIDE DEF es, et
<1>3. /\ Parts(u, es, s.next, s.borrows, s.moved, s.uninit)
      /\ Parts(v, et, t.next, t.borrows, t.moved, t.uninit)
  BY <1>2, Updated DEF Covers, IsGood
<1>. QED
  BY <1>1, <1>3, KeepsBorrows DEF Covers, Parts

\* The check of a returned borrow (check.rs:741-765).
LEMMA ReturnedSteps ==
  ASSUME NEW when, NEW k, NEW K, NEW s, NEW t, Covers(when, k, K, s, t), NEW f, NEW os, NEW loc
  PROVE  Steps(when, k, K, s, check_returned_borrow(f, s, os, loc), check_returned_borrow(f, t, os, loc))
<1> DEFINE returned == {o.place : o \in {o \in ToSet(os) : IsPlaceOperand(o)}}
           escapes(br) == br.holders \cap returned # {} /\ ~is_escapable(f, br.source)
           error(br) == [kind |-> "BorrowOfLocalEscape", place |-> br.source, loc |-> loc]
           E == {error(br) : br \in {br \in s.borrows : escapes(br)}}
           F == {error(br) : br \in {br \in t.borrows : escapes(br)}}
<1>1. /\ check_returned_borrow(f, s, os, loc) = [s EXCEPT !.errors = s.errors \cup E]
      /\ check_returned_borrow(f, t, os, loc) = [t EXCEPT !.errors = t.errors \cup F]
  BY DEF check_returned_borrow
<1>. HIDE DEF returned, error
<1>2. ASSUME NEW br \in s.borrows, escapes(br) PROVE \E c \in t.borrows : escapes(c)
  <2>1. PICK c \in t.borrows : Match(when, k, K, br, c)
    BY DEF Covers
  <2>. QED
    BY <1>2, <2>1 DEF Match, SameBorrow
<1>. HIDE DEF escapes
<1>3. E # {} => F # {}
  BY <1>2
<1>. HIDE DEF E, F
<1>. QED
  BY <1>1, <1>3, ErrorsStep

\* A borrow that is activated.
Activated(br) == [br EXCEPT !.activated = TRUE]

\* It is the same borrow but for that.
LEMMA ActivatedParts ==
  ASSUME NEW br, IsBorrow(br)
  PROVE  /\ IsBorrow(Activated(br)) /\ Activated(br).holders = br.holders
         /\ Activated(br).idx = br.idx /\ SameBorrow(br, Activated(br)) /\ Activated(br).activated = TRUE
<1>1. ASSUME NEW c, c = [br EXCEPT !.activated = TRUE]
      PROVE  /\ IsBorrow(c) /\ c.holders = br.holders /\ c.idx = br.idx /\ SameBorrow(br, c)
             /\ c.activated = TRUE
  BY <1>1 DEF IsBorrow, SameBorrow
<1>. QED
  BY <1>1 DEF Activated

\* The activation of two-phase borrows (check.rs:709-739).
LEMMA ActivateSteps ==
  ASSUME NEW k, NEW K, NEW s, NEW t, Covers("before", k, K, s, t), NEW os, NEW loc
  PROVE  Steps("after", k, K, s, activate_two_phase_borrows(s, os, loc), activate_two_phase_borrows(t, os, loc))
<1> DEFINE places == {o.place : o \in {o \in ToSet(os) : IsPlaceOperand(o)}}
           taken(B) == {br \in {br \in B : br.two_phase /\ ~br.activated} : br.holders \cap places # {}}
           error(br) == [kind |-> "TwoPhaseActivationConflict", place |-> br.source, loc |-> loc]
           clashing(B) == {br \in taken(B) : \E o \in B : o.idx # br.idx /\ overlaps(br.source, o.source)}
           E(B) == {error(br) : br \in clashing(B)}
           R(B) == (B \ taken(B)) \cup {Activated(br) : br \in taken(B)}
           u == activate_two_phase_borrows(s, os, loc)
           v == activate_two_phase_borrows(t, os, loc)
           es == s.errors \cup E(s.borrows)
           et == t.errors \cup E(t.borrows)
<1>1. /\ u = [s EXCEPT !.borrows = R(s.borrows), !.errors = es]
      /\ v = [t EXCEPT !.borrows = R(t.borrows), !.errors = et]
  BY DEF activate_two_phase_borrows, Activated
<1>. HIDE DEF places, error
<1>2. /\ k \in Nat /\ K \in Nat /\ \A b \in s.borrows \cup t.borrows : IsBorrow(b)
      /\ \A b \in s.borrows : \E c \in t.borrows : Match("before", k, K, b, c)
  BY DEF Covers, IsGood
<1>3. ASSUME NEW b \in s.borrows, NEW c \in t.borrows, Match("before", k, K, b, c)
      PROVE  b \in taken(s.borrows) => c \in taken(t.borrows)
  BY <1>3 DEF Match, SameBorrow
<1>4. ASSUME NEW b \in clashing(s.borrows) PROVE clashing(t.borrows) # {}
  <2>1. PICK o \in s.borrows : o.idx # b.idx /\ overlaps(b.source, o.source)
    OBVIOUS
  <2>2. PICK c \in t.borrows : Match("before", k, K, b, c)
    BY <1>2
  <2>3. PICK q \in t.borrows : Match("before", k, K, o, q)
    BY <1>2
  <2>4. q.idx # c.idx
    BY <1>2, <2>1, <2>2, <2>3, NumbersApart
  <2>5. overlaps(c.source, q.source)
    BY <2>1, <2>2, <2>3 DEF Match, SameBorrow
  <2>6. c \in taken(t.borrows)
    BY <1>3, <2>2
  <2>. HIDE DEF taken
  <2>. QED
    BY <2>4, <2>5, <2>6
<1>5. \A B : /\ \A r \in R(B) : (r \in B /\ r \notin taken(B)) \/ \E b \in taken(B) : r = Activated(b)
             /\ \A b \in B : b \notin taken(B) => b \in R(B)
             /\ \A b \in taken(B) : Activated(b) \in R(B)
             /\ taken(B) \subseteq B
  <2>. SUFFICES ASSUME NEW B
                PROVE /\ \A r \in R(B) : (r \in B /\ r \notin taken(B)) \/ \E b \in taken(B) : r = Activated(b)
                      /\ \A b \in B : b \notin taken(B) => b \in R(B)
                      /\ \A b \in taken(B) : Activated(b) \in R(B)
                      /\ taken(B) \subseteq B
    OBVIOUS
  <2>1. taken(B) \subseteq B
    OBVIOUS
  <2>. HIDE DEF taken
  <2>. QED
    BY <2>1
<1>6. es # {} => et # {}
  <2>1. E(s.borrows) # {} => E(t.borrows) # {}
    <3>. HIDE DEF clashing
    <3>. QED
      BY <1>4
  <2>. HIDE DEF E
  <2>. QED
    BY <2>1 DEF Covers
<1>7. s.errors \subseteq es
  OBVIOUS
<1>. HIDE DEF es, et, E, R, taken, clashing
<1>8. ASSUME NEW r \in R(s.borrows) \cup R(t.borrows) PROVE IsBorrow(r)
  <2>1. \E b \in s.borrows \cup t.borrows : r = b \/ r = Activated(b)
    BY <1>5
  <2>. QED
    BY <1>2, <2>1, ActivatedParts
<1>9. ASSUME NEW r \in R(s.borrows)
      PROVE  /\ \E c \in R(t.borrows) : Match("after", k, K, r, c)
             /\ \E c \in s.borrows : r.idx = c.idx /\ SameBorrow(r, c)
  <2>1. PICK b \in s.borrows : IF b \in taken(s.borrows) THEN r = Activated(b) ELSE r = b
    BY <1>5
  <2>2. PICK c \in t.borrows : Match("before", k, K, b, c)
    BY <1>2
  <2> DEFINE q == IF c \in taken(t.borrows) THEN Activated(c) ELSE c
  <2>3. q \in R(t.borrows)
    BY <1>5
  <2>4. /\ r.idx = b.idx /\ r.holders = b.holders /\ SameBorrow(b, r)
        /\ IF b \in taken(s.borrows) THEN r.activated = TRUE ELSE r.activated = b.activated
    BY <1>2, <2>1, ActivatedParts DEF SameBorrow
  <2>5. /\ q.idx = c.idx /\ q.holders = c.holders /\ SameBorrow(c, q)
        /\ IF c \in taken(t.borrows) THEN q.activated = TRUE ELSE q.activated = c.activated
    BY <1>2, ActivatedParts DEF SameBorrow
  <2>6. b \in taken(s.borrows) => c \in taken(t.borrows)
    BY <1>3, <2>2
  <2>. HIDE DEF q
  <2>7. Match("after", k, K, r, q)
    BY <2>2, <2>4, <2>5, <2>6 DEF Match, SameBorrow
  <2>. QED
    BY <2>3, <2>4, <2>7 DEF SameBorrow
<1>. HIDE DEF u, v
<1>10. /\ Parts(u, es, s.next, R(s.borrows), s.moved, s.uninit)
       /\ Parts(v, et, t.next, R(t.borrows), t.moved, t.uninit)
  BY <1>1, Updated DEF Covers, IsGood
<1>11. IsGood(u) /\ IsGood(v)
  BY <1>8, <1>10 DEF Covers, IsGood, Parts
<1>12. Steps("after", k, K, s, u, v)
  BY <1>6, <1>7, <1>9, <1>10, <1>11, Rewrites DEF Covers, Parts
<1>. QED
  BY <1>12 DEF u, v

\* The store of a call's result (check.rs:497-505).
LEMMA DestsSteps ==
  ASSUME NEW when, NEW k, NEW K, NEW s, NEW t, Covers(when, k, K, s, t),
         NEW ps, IsSequence(ps), NEW loc
  PROVE  Steps(when, k, K, s, Dests!Fold(0, 0, loc, s, ps), Dests!Fold(0, 0, loc, t, ps))
<1> DEFINE n == Len(ps)
<1>1. n \in Nat /\ DOMAIN ps = 1..n
  BY DEF IsSequence
<1>. HIDE DEF n
<1>2. PICK run : Dests!Iterates(0, 0, loc, s, ps, n, run) /\ Dests!Fold(0, 0, loc, s, ps) = run[n]
  BY <1>1, Dests!FoldIterates
<1>3. PICK other : Dests!Iterates(0, 0, loc, t, ps, n, other) /\ Dests!Fold(0, 0, loc, t, ps) = other[n]
  BY <1>1, Dests!FoldIterates
<1> DEFINE T == {i \in Nat : i <= n => Steps(when, k, K, s, run[i], other[i])}
<1>4. 0 \in T
  BY <1>2, <1>3, StepsNowhere DEF Dests!Iterates
<1>5. ASSUME NEW i \in Nat, i \in T PROVE i + 1 \in T
  <2>. SUFFICES ASSUME i + 1 <= n PROVE Steps(when, k, K, s, run[i + 1], other[i + 1])
    OBVIOUS
  <2> DEFINE u == overwrite(run[i], ps[i + 1], loc)
             v == overwrite(other[i], ps[i + 1], loc)
  <2>1. Steps(when, k, K, s, run[i], other[i]) /\ i \in 0..n-1
    BY <1>1, <1>5
  <2>2. run[i + 1] = mark_initialized(u, ps[i + 1]) /\ other[i + 1] = mark_initialized(v, ps[i + 1])
    BY <1>2, <1>3, <2>1 DEF Dests!Iterates, dest_step
  <2>3. Steps(when, k, K, run[i], u, v)
    BY <2>1, OverwriteSteps DEF Steps
  <2>. HIDE DEF u, v
  <2>4. Steps(when, k, K, u, run[i + 1], other[i + 1])
    BY <2>2, <2>3, MarkSteps DEF Steps
  <2>. QED
    BY <2>1, <2>3, <2>4, StepsAgain
<1>. HIDE DEF T
<1>6. n \in T
  BY <1>1, <1>4, <1>5, Operands!Counting
<1>. QED
  BY <1>1, <1>2, <1>3, <1>6 DEF T

\* A terminator (check.rs:467-517).
LEMMA TerminatorSteps ==
  ASSUME NEW k, NEW K, NEW s, NEW t, Covers("before", k, K, s, t), NEW f, NEW tm, IsTerminator(tm), NEW loc
  PROVE  Steps("after", k, K, s, process_terminator(f, s, tm, loc), process_terminator(f, t, tm, loc))
<1> DEFINE r1 == process_operands(s, tm.operands, loc)
           q1 == process_operands(t, tm.operands, loc)
           r2 == IF tm.tm = "return" THEN check_returned_borrow(f, r1, tm.operands, loc) ELSE r1
           q2 == IF tm.tm = "return" THEN check_returned_borrow(f, q1, tm.operands, loc) ELSE q1
           r3 == IF tm.tm = "call" THEN activate_two_phase_borrows(r2, Tail(tm.operands), loc) ELSE r2
           q3 == IF tm.tm = "call" THEN activate_two_phase_borrows(q2, Tail(tm.operands), loc) ELSE q2
           r4 == Dests!Fold(0, 0, loc, r3, tm.dest)
           q4 == Dests!Fold(0, 0, loc, q3, tm.dest)
           r5 == process_operands(r4, EdgeOperands(tm.edges), loc)
           q5 == process_operands(q4, EdgeOperands(tm.edges), loc)
<1>1. process_terminator(f, s, tm, loc) = r5 /\ process_terminator(f, t, tm, loc) = q5
  BY DestsFold DEF process_terminator
<1>2. IsSequence(tm.operands) /\ IsSequence(tm.dest) /\ IsSequence(EdgeOperands(tm.edges))
  BY EdgeOperandsAreSequence DEF IsTerminator
<1>3. Steps("before", k, K, s, r1, q1)
  BY <1>2, OperandsStep
<1>. HIDE DEF r1, q1
<1>4. Steps("before", k, K, r1, r2, q2)
  BY <1>3, ReturnedSteps, StepsNowhere DEF Steps
<1>. HIDE DEF r2, q2
<1>5. Steps("before", k, K, s, r2, q2)
  BY <1>3, <1>4, StepsAgain
<1>6. Steps("after", k, K, r2, r3, q3)
  <2>1. Covers("before", k, K, r2, q2)
    BY <1>5 DEF Steps
  <2>2. CASE tm.tm = "call"
    BY <2>1, <2>2, ActivateSteps
  <2>3. CASE tm.tm # "call"
    BY <2>1, <2>3, CoversAfter, StepsNowhere
  <2>. QED
    BY <2>2, <2>3
<1>. HIDE DEF r3, q3
<1>7. Steps("after", k, K, s, r3, q3)
  BY <1>5, <1>6, StepsThen
<1>8. Steps("after", k, K, r3, r4, q4)
  BY <1>2, <1>7, DestsSteps DEF Steps
<1>. HIDE DEF r4, q4
<1>9. Steps("after", k, K, s, r4, q4)
  BY <1>7, <1>8, StepsAgain
<1>10. Steps("after", k, K, r4, r5, q5)
  BY <1>2, <1>9, OperandsStep DEF Steps
<1>. HIDE DEF r5, q5
<1>. QED
  BY <1>1, <1>9, <1>10, StepsAgain

\* The references that an edge passes on.
LEMMA ArgumentsStep ==
  ASSUME NEW when, NEW k, NEW K, NEW s, NEW t, Covers(when, k, K, s, t),
         NEW f, NEW e, IsSequence(e.args)
  PROVE  Steps(when, k, K, s, Arguments!Fold(f, e, 0, s, indices(e.args)),
               Arguments!Fold(f, e, 0, t, indices(e.args)))
<1> DEFINE n == Len(e.args)
           q == indices(e.args)
<1>1. n \in Nat /\ DOMAIN q = 1..n
  BY DEF IsSequence, indices
<1>. HIDE DEF n, q
<1>2. PICK run : Arguments!Iterates(f, e, 0, s, q, n, run) /\ Arguments!Fold(f, e, 0, s, q) = run[n]
  BY <1>1, Arguments!FoldIterates
<1>3. PICK other : Arguments!Iterates(f, e, 0, t, q, n, other) /\ Arguments!Fold(f, e, 0, t, q) = other[n]
  BY <1>1, Arguments!FoldIterates
<1> DEFINE T == {i \in Nat : i <= n => Steps(when, k, K, s, run[i], other[i])}
<1>4. 0 \in T
  BY <1>2, <1>3, StepsNowhere DEF Arguments!Iterates
<1>5. ASSUME NEW i \in Nat, i \in T PROVE i + 1 \in T
  <2>. SUFFICES ASSUME i + 1 <= n PROVE Steps(when, k, K, s, run[i + 1], other[i + 1])
    OBVIOUS
  <2>1. Steps(when, k, K, s, run[i], other[i]) /\ i \in 0..n-1
    BY <1>1, <1>5
  <2>2. Steps(when, k, K, run[i], run[i + 1], other[i + 1])
    BY <1>2, <1>3, <2>1, PropagateSteps DEF Arguments!Iterates, argument_step, Steps
  <2>. QED
    BY <2>1, <2>2, StepsAgain
<1>. HIDE DEF T
<1>6. n \in T
  BY <1>1, <1>4, <1>5, Operands!Counting
<1>. QED
  BY <1>1, <1>2, <1>3, <1>6 DEF T, q

\* The references passed along the edges of a block (check.rs:263-285).
LEMMA EdgesSteps ==
  ASSUME NEW when, NEW k, NEW K, NEW s, NEW t, Covers(when, k, K, s, t),
         NEW f, NEW b, IsTerminator(Term(f, b))
  PROVE  Steps(when, k, K, s, propagate_edge_holders(f, s, b), propagate_edge_holders(f, t, b))
<1> DEFINE q == successor_edges(f, b)
           n == Len(q)
<1>1. n \in Nat /\ DOMAIN q = 1..n /\ \A i \in 1..n : IsSequence(q[i].args)
  <2>1. IsSequence(q) /\ \A e \in ToSet(q) : IsSequence(e.args)
    BY DEF IsTerminator, successor_edges
  <2>. HIDE DEF q
  <2>2. n \in Nat /\ DOMAIN q = 1..n
    BY <2>1, SequenceFacts
  <2>. QED
    BY <2>1, <2>2 DEF ToSet
<1>. HIDE DEF n, q
<1>2. PICK run : Edges!Iterates(f, 0, 0, s, q, n, run) /\ Edges!Fold(f, 0, 0, s, q) = run[n]
  BY <1>1, Edges!FoldIterates
<1>3. PICK other : Edges!Iterates(f, 0, 0, t, q, n, other) /\ Edges!Fold(f, 0, 0, t, q) = other[n]
  BY <1>1, Edges!FoldIterates
<1> DEFINE T == {i \in Nat : i <= n => Steps(when, k, K, s, run[i], other[i])}
<1>4. 0 \in T
  BY <1>2, <1>3, StepsNowhere DEF Edges!Iterates
<1>5. ASSUME NEW i \in Nat, i \in T PROVE i + 1 \in T
  <2>. SUFFICES ASSUME i + 1 <= n PROVE Steps(when, k, K, s, run[i + 1], other[i + 1])
    OBVIOUS
  <2>1. Steps(when, k, K, s, run[i], other[i]) /\ i \in 0..n-1 /\ IsSequence(q[i + 1].args)
    BY <1>1, <1>5
  <2>2. /\ run[i + 1] = Arguments!Fold(f, q[i + 1], 0, run[i], indices(q[i + 1].args))
        /\ other[i + 1] = Arguments!Fold(f, q[i + 1], 0, other[i], indices(q[i + 1].args))
    BY <1>2, <1>3, <2>1, ArgumentsFold DEF Edges!Iterates, edge_step, indices
  <2>3. Steps(when, k, K, run[i], run[i + 1], other[i + 1])
    BY <2>1, <2>2, ArgumentsStep DEF Steps
  <2>. QED
    BY <2>1, <2>3, StepsAgain
<1>. HIDE DEF T
<1>6. n \in T
  BY <1>1, <1>4, <1>5, Operands!Counting
<1>. QED
  BY <1>1, <1>2, <1>3, <1>6, EdgesFold DEF T, q

\* A terminator with the edges and the kills after it (check.rs:246-257).
LEMMA WalkTerminatorSteps ==
  ASSUME NEW k, NEW K, NEW s, NEW t, Covers("before", k, K, s, t),
         NEW f, NEW lv, NEW b, IsTerminator(Term(f, b))
  PROVE  Steps("after", k, K, s, walk_terminator(f, lv, s, b), walk_terminator(f, lv, t, b))
<1> DEFINE u == process_terminator(f, s, Term(f, b), <<b, InstrCount(f, b)>>)
           v == process_terminator(f, t, Term(f, b), <<b, InstrCount(f, b)>>)
           w == propagate_edge_holders(f, u, b)
           z == propagate_edge_holders(f, v, b)
<1>1. Steps("after", k, K, s, u, v)
  BY TerminatorSteps
<1>2. walk_terminator(f, lv, s, b) = apply_kills(f, w, lv.live_out[b])
      /\ walk_terminator(f, lv, t, b) = apply_kills(f, z, lv.live_out[b])
  BY DEF walk_terminator
<1>. HIDE DEF u, v
<1>3. Steps("after", k, K, u, w, z)
  BY <1>1, EdgesSteps DEF Steps
<1>. HIDE DEF w, z
<1>4. Steps("after", k, K, s, w, z)
  BY <1>1, <1>3, StepsAgain
<1>5. Steps("after", k, K, w, walk_terminator(f, lv, s, b), walk_terminator(f, lv, t, b))
  BY <1>2, <1>4, KillsStep DEF Steps
<1>. QED
  BY <1>4, <1>5, StepsAgain

\* The walk of the first n statements of a block.
LEMMA WalkSteps ==
  ASSUME NEW f \in Functions, NEW b \in Blocks(f), NEW lv, NEW k, NEW K, NEW s, NEW t,
         Covers("before", k, K, s, t)
  PROVE  \A n \in Nat : n <= Len(Stmts(f, b)) =>
           Steps("before", k, K, s, WalkUpto(f, lv, s, b, n), WalkUpto(f, lv, t, b, n))
<1> DEFINE len == Len(Stmts(f, b))
           T == {n \in Nat : n <= len =>
                   Steps("before", k, K, s, WalkUpto(f, lv, s, b, n), WalkUpto(f, lv, t, b, n))}
<1>1. len \in Nat /\ \A i \in 1..len : IsStatement(Stmts(f, b)[i])
  BY BlockParts
<1>. HIDE DEF len
<1>2. 0 \in T
  BY WalkStarts, StepsNowhere
<1>3. ASSUME NEW n \in Nat, n \in T PROVE n + 1 \in T
  <2>. SUFFICES ASSUME n + 1 <= len
                PROVE  Steps("before", k, K, s, WalkUpto(f, lv, s, b, n + 1), WalkUpto(f, lv, t, b, n + 1))
    OBVIOUS
  <2> DEFINE u == WalkUpto(f, lv, s, b, n)
             v == WalkUpto(f, lv, t, b, n)
  <2>1. Steps("before", k, K, s, u, v) /\ IsStatement(Stmts(f, b)[n + 1])
    BY <1>1, <1>3
  <2>2. /\ WalkUpto(f, lv, s, b, n + 1) = walk_statement(f, lv, u, b, n + 1)
        /\ WalkUpto(f, lv, t, b, n + 1) = walk_statement(f, lv, v, b, n + 1)
    BY WalkContinues
  <2>. HIDE DEF u, v
  <2>3. Steps("before", k, K, u, walk_statement(f, lv, u, b, n + 1), walk_statement(f, lv, v, b, n + 1))
    BY <2>1, WalkStatementSteps DEF Steps
  <2>. QED
    BY <2>1, <2>2, <2>3, StepsAgain
<1>. HIDE DEF T
<1>4. \A n \in Nat : n \in T
  BY <1>2, <1>3, Operands!Counting
<1>. QED
  BY <1>4 DEF T, len

\* The walk of a block.
LEMMA BlockSteps ==
  ASSUME NEW f \in Functions, NEW b \in Blocks(f), NEW lv, NEW k, NEW K, NEW s, NEW t,
         Covers("before", k, K, s, t)
  PROVE  Steps("after", k, K, s, process_block(f, lv, s, b), process_block(f, lv, t, b))
<1> DEFINE n == Len(Stmts(f, b))
           u == WalkUpto(f, lv, s, b, n)
           v == WalkUpto(f, lv, t, b, n)
<1>1. n \in Nat /\ IsSequence(Stmts(f, b)) /\ IsTerminator(Term(f, b))
  BY BlockParts
<1>2. Steps("before", k, K, s, u, v)
  BY <1>1, WalkSteps
<1>3. process_block(f, lv, s, b) = walk_terminator(f, lv, u, b) /\ process_block(f, lv, t, b) = walk_terminator(f, lv, v, b)
  BY <1>1, BlockIsWalk
<1>. HIDE DEF u, v
<1>4. Steps("after", k, K, u, process_block(f, lv, s, b), process_block(f, lv, t, b))
  BY <1>1, <1>2, <1>3, WalkTerminatorSteps DEF Steps
<1>. QED
  BY <1>2, <1>4, StepsThen

(***************************************************************************)
(* The fixed point.                                                        *)
(***************************************************************************)
\* The counter n is past the numbers of the entry state e.
Ahead(e, n) == n \in Nat /\ \A br \in e.borrows : br.idx < n

\* The walk of block b from e.
Walk(f, lv, e, b, E, n) == process_block(f, lv, WalkFrom(e, E, n), b)

\* Whatever the borrows are numbered from, the walk of b from e finds an error.
Rejects(f, lv, e, b) == \A n : Ahead(e, n) => Walk(f, lv, e, b, {}, n).errors # {}

\* From some number on it does.
MayReject(f, lv, e, b) == \E n : Ahead(e, n) /\ Walk(f, lv, e, b, {}, n).errors # {}

\* The borrows that the walk of b from e leaves are covered by B.
Sends(f, lv, e, b, B) ==
  \A n : Ahead(e, n) => \A br \in Walk(f, lv, e, b, {}, n).borrows : CoveredBorrow(br, B)

\* An entry state of b: its arguments are bound.
IsEntry(f, b, e) ==
  /\ \A br \in e.borrows : IsBorrow(br)
  /\ bind_arguments(f, b, e).moved = e.moved /\ bind_arguments(f, b, e).uninit = e.uninit

\* The entry state e became d: it keeps the records of its borrows, which gain holders.
Extends(e, d) ==
  /\ e.moved \subseteq d.moved /\ e.uninit \subseteq d.uninit
  /\ \A br \in e.borrows : \E c \in d.borrows :
       /\ br.idx = c.idx /\ SameBorrow(br, c) /\ br.holders \subseteq c.holders
       /\ br.activated = c.activated

\* A walk starts from a proper state.
LEMMA WalkStartsGood ==
  ASSUME NEW e, NEW n, Ahead(e, n), \A br \in e.borrows : IsBorrow(br), NEW E
  PROVE  /\ IsGood(WalkFrom(e, E, n))
         /\ WalkFrom(e, E, n).borrows = e.borrows /\ WalkFrom(e, E, n).errors = E
         /\ WalkFrom(e, E, n).next = n /\ WalkFrom(e, E, n).moved = e.moved
         /\ WalkFrom(e, E, n).uninit = e.uninit
BY DEF WalkFrom, IsGood, IsState, Ahead

\* A walk from a state that knows more, numbered otherwise and with errors already
\* reported, covers the walk.
LEMMA StartsCover ==
  ASSUME NEW e, NEW d, Extends(e, d), NEW k, Ahead(e, k), NEW K, Ahead(d, K), NEW E,
         \A br \in e.borrows : IsBorrow(br), \A br \in d.borrows : IsBorrow(br)
  PROVE  Covers("before", k, K, WalkFrom(e, {}, k), WalkFrom(d, E, K))
<1> DEFINE s == WalkFrom(e, {}, k)
           t == WalkFrom(d, E, K)
<1>1. IsGood(s) /\ s.borrows = e.borrows /\ s.errors = {} /\ s.next = k /\ s.moved = e.moved /\ s.uninit = e.uninit
  BY WalkStartsGood
<1>2. IsGood(t) /\ t.borrows = d.borrows /\ t.next = K /\ t.moved = d.moved /\ t.uninit = d.uninit
  BY WalkStartsGood
<1>. HIDE DEF s, t
<1>3. ASSUME NEW br \in s.borrows PROVE \E c \in t.borrows : Match("before", k, K, br, c)
  <2>1. PICK c \in d.borrows : /\ br.idx = c.idx /\ SameBorrow(br, c) /\ br.holders \subseteq c.holders
                               /\ br.activated = c.activated
    BY <1>1 DEF Extends
  <2>2. br.idx < k /\ c.idx < K
    BY <1>1, <2>1 DEF Ahead
  <2>. QED
    BY <1>2, <2>1, <2>2 DEF Match, Renumbered
<1>4. k \in Nat /\ K \in Nat /\ k >= k /\ K >= K /\ k - k = K - K
  BY DEF Ahead
<1>5. Covers("before", k, K, s, t)
  BY <1>1, <1>2, <1>3, <1>4 DEF Covers, Extends
<1>. QED
  BY <1>5 DEF s, t

\* An entry that stays as it is.
LEMMA ExtendsItself ==
  \A e : Extends(e, e)
BY DEF Extends, SameBorrow

\* What is ahead of the larger entry is ahead of the smaller.
LEMMA AheadOfLess ==
  ASSUME NEW e, NEW d, Extends(e, d), NEW n, Ahead(d, n)
  PROVE  Ahead(e, n)
BY DEF Extends, Ahead

\* The walk of a block from a larger entry finds an error where the walk from the
\* smaller one does, and covers the borrows that the other leaves.
LEMMA WalksCover ==
  ASSUME NEW f \in Functions, NEW b \in Blocks(f), NEW lv,
         NEW e, NEW d, Extends(e, d), NEW k, Ahead(e, k), NEW K, Ahead(d, K), NEW E,
         \A br \in e.borrows : IsBorrow(br), \A br \in d.borrows : IsBorrow(br)
  PROVE  /\ Walk(f, lv, e, b, {}, k).errors # {} => Walk(f, lv, d, b, E, K).errors # {}
         /\ \A br \in Walk(f, lv, e, b, {}, k).borrows : CoveredBorrow(br, Walk(f, lv, d, b, E, K).borrows)
<1>1. Covers("before", k, K, WalkFrom(e, {}, k), WalkFrom(d, E, K))
  BY StartsCover
<1>2. Covers("after", k, K, Walk(f, lv, e, b, {}, k), Walk(f, lv, d, b, E, K))
  BY <1>1, BlockSteps DEF Steps, Walk
<1>. QED
  BY <1>2 DEF Covers, Match, SameBorrow, CoveredBorrow

\* Covering goes on.
LEMMA CoveredAgain ==
  ASSUME NEW br, NEW B, CoveredBorrow(br, B), NEW C, \A c \in B : CoveredBorrow(c, C)
  PROVE  CoveredBorrow(br, C)
BY DEF CoveredBorrow

\* An entry that grows rejects what it rejected.
LEMMA RejectsStays ==
  ASSUME NEW f \in Functions, NEW b \in Blocks(f), NEW lv, NEW e, NEW d, Extends(e, d),
         \A br \in e.borrows : IsBorrow(br), \A br \in d.borrows : IsBorrow(br),
         Rejects(f, lv, e, b)
  PROVE  Rejects(f, lv, d, b)
<1>. SUFFICES ASSUME NEW n, Ahead(d, n) PROVE Walk(f, lv, d, b, {}, n).errors # {}
  BY DEF Rejects
<1>1. Ahead(e, n)
  BY AheadOfLess
<1>2. Walk(f, lv, e, b, {}, n).errors # {}
  BY <1>1 DEF Rejects
<1>3. Walk(f, lv, e, b, {}, n).errors # {} => Walk(f, lv, d, b, {}, n).errors # {}
  <2> DEFINE none == {}
  <2>. HIDE DEF none
  <2>1. Walk(f, lv, e, b, {}, n).errors # {} => Walk(f, lv, d, b, none, n).errors # {}
    BY <1>1, WalksCover
  <2>. QED
    BY <2>1 DEF none
<1>. QED
  BY <1>2, <1>3

\* An error in a walk without earlier errors is an error of the walk from any number.
LEMMA ErrorRejects ==
  ASSUME NEW f \in Functions, NEW b \in Blocks(f), NEW lv, NEW e, NEW k, Ahead(e, k),
         \A br \in e.borrows : IsBorrow(br), Walk(f, lv, e, b, {}, k).errors # {}
  PROVE  Rejects(f, lv, e, b)
BY WalksCover, ExtendsItself DEF Rejects

\* Errors stay.
LEMMA ErrorsStay ==
  ASSUME NEW f \in Functions, NEW b \in Blocks(f), NEW lv, NEW s, IsGood(s),
         NEW n \in Nat, n <= Len(Stmts(f, b))
  PROVE  WalkUpto(f, lv, s, b, n).errors \subseteq process_block(f, lv, s, b).errors
<1> DEFINE len == Len(Stmts(f, b))
           w(i) == WalkUpto(f, lv, s, b, i)
           T == {i \in Nat : n <= i /\ i <= len => w(n).errors \subseteq w(i).errors}
<1>1. len \in Nat /\ (\A i \in 1..len : IsStatement(Stmts(f, b)[i]))
      /\ IsSequence(Stmts(f, b)) /\ IsTerminator(Term(f, b))
  BY BlockParts
<1>2. Covers("before", 0, 0, s, s)
  BY GoodCovers
<1>3. \A i \in Nat : i <= len => Covers("before", 0, 0, w(i), w(i))
  BY <1>2, WalkSteps DEF Steps
<1>. HIDE DEF len
<1>4. 0 \in T
  <2>1. n <= 0 => n = 0
    OBVIOUS
  <2>. QED
    BY <2>1
<1>5. ASSUME NEW i \in Nat, i \in T PROVE i + 1 \in T
  <2>. SUFFICES ASSUME n <= i + 1, i + 1 <= len PROVE w(n).errors \subseteq w(i + 1).errors
    OBVIOUS
  <2>1. CASE n = i + 1
    BY <2>1
  <2>2. CASE n <= i
    <3>1. w(n).errors \subseteq w(i).errors /\ i <= len /\ IsStatement(Stmts(f, b)[i + 1])
      BY <1>1, <1>5, <2>2
    <3>2. w(i + 1) = walk_statement(f, lv, w(i), b, i + 1)
      BY WalkContinues
    <3>3. Covers("before", 0, 0, w(i), w(i))
      BY <1>3, <3>1
    <3>. HIDE DEF w
    <3>4. Steps("before", 0, 0, w(i), w(i + 1), w(i + 1))
      BY <3>1, <3>2, <3>3, WalkStatementSteps
    <3>5. w(i).errors \subseteq w(i + 1).errors
      BY <3>4 DEF Steps, Adds
    <3>. QED
      BY <3>1, <3>5
  <2>3. n = i + 1 \/ n <= i
    OBVIOUS
  <2>. QED
    BY <2>1, <2>2, <2>3
<1>. HIDE DEF T
<1>6. len \in T
  BY <1>1, <1>4, <1>5, Operands!Counting
<1>7. w(n).errors \subseteq w(len).errors
  BY <1>1, <1>6 DEF T, len
<1>8. process_block(f, lv, s, b) = walk_terminator(f, lv, w(len), b)
  BY <1>1, BlockIsWalk DEF len
<1>9. Covers("before", 0, 0, w(len), w(len))
  BY <1>1, <1>3
<1>. HIDE DEF w
<1>10. Steps("after", 0, 0, w(len), process_block(f, lv, s, b), process_block(f, lv, s, b))
  BY <1>1, <1>8, <1>9, WalkTerminatorSteps
<1>11. w(len).errors \subseteq process_block(f, lv, s, b).errors
  BY <1>10 DEF Steps, Adds
<1>. QED
  BY <1>7, <1>11 DEF w

(***************************************************************************)
(* The join.                                                               *)
(***************************************************************************)
\* The holders of the borrows of B that are numbered i.
HeldBy(B, i) == UNION {br.holders : br \in {br \in B : br.idx = i}}

\* What is in a joined set of borrows (check.rs:322-336).
LEMMA MergedMembers ==
  ASSUME NEW e, NEW s, NEW B, B = merged_borrows(e, s)
  PROVE  /\ \A br \in e.borrows : With(br, br.holders \cup HeldBy(s.borrows, br.idx)) \in B
         /\ \A br \in s.borrows : (\A c \in e.borrows : c.idx # br.idx) => br \in B
         /\ \A d \in B :
              \/ d \in s.borrows
              \/ \E br \in e.borrows : d = With(br, br.holders \cup HeldBy(s.borrows, br.idx))
<1> DEFINE Old == {[br EXCEPT !.holders = @ \cup HeldBy(s.borrows, br.idx)] : br \in e.borrows}
           New == {br \in s.borrows : br.idx \notin {c.idx : c \in e.borrows}}
<1>1. B = Old \cup New
  BY DEF merged_borrows, HeldBy
<1>2. ASSUME NEW br \in e.borrows
      PROVE  With(br, br.holders \cup HeldBy(s.borrows, br.idx)) \in Old
  BY DEF With
<1>3. ASSUME NEW d \in Old
      PROVE  \E br \in e.borrows : d = With(br, br.holders \cup HeldBy(s.borrows, br.idx))
  BY DEF With
<1>4. \A br \in s.borrows : (\A c \in e.borrows : c.idx # br.idx) => br \in New
  OBVIOUS
<1>5. New \subseteq s.borrows
  OBVIOUS
<1>. HIDE DEF Old, New
<1>. QED
  BY <1>1, <1>2, <1>3, <1>4, <1>5

\* Binding arguments a second time changes nothing.
LEMMA BoundAgain ==
  ASSUME NEW f, NEW b, NEW e, NEW d, d = bind_arguments(f, b, e)
  PROVE  bind_arguments(f, b, d).moved = d.moved /\ bind_arguments(f, b, d).uninit = d.uninit
BY DEF bind_arguments

\* The places of an entry whose arguments are bound survive the join.
LEMMA BoundStays ==
  ASSUME NEW f, NEW b, NEW e, IsEntry(f, b, e), NEW s
  PROVE  /\ e.moved \subseteq bind_arguments(f, b, merge_state(e, s)).moved
         /\ e.uninit \subseteq bind_arguments(f, b, merge_state(e, s)).uninit
BY MergeKeepsFacts DEF IsEntry

\* The join of a state into an entry extends the entry, covers the borrows of the
\* state, and makes no borrow (check.rs:319-350).
LEMMA MergeExtends ==
  ASSUME NEW f, NEW b, NEW e, IsEntry(f, b, e), NEW s, IsGood(s),
         NEW n, Numbered(e.borrows \cup s.borrows, n),
         NEW d, d = bind_arguments(f, b, merge_state(e, s))
  PROVE  /\ IsEntry(f, b, d) /\ Extends(e, d)
         /\ \A br \in s.borrows : CoveredBorrow(br, d.borrows)
         /\ \A br \in d.borrows : \E c \in e.borrows \cup s.borrows : br.idx = c.idx /\ SameBorrow(br, c)
<1>1. d.borrows = merged_borrows(e, s)
  BY DEF bind_arguments, merge_state
<1>2. /\ \A br \in e.borrows : With(br, br.holders \cup HeldBy(s.borrows, br.idx)) \in d.borrows
      /\ \A br \in s.borrows : (\A c \in e.borrows : c.idx # br.idx) => br \in d.borrows
      /\ \A c \in d.borrows :
           \/ c \in s.borrows
           \/ \E br \in e.borrows : c = With(br, br.holders \cup HeldBy(s.borrows, br.idx))
  <2> DEFINE B == d.borrows
  <2>1. B = merged_borrows(e, s)
    BY <1>1
  <2>. HIDE DEF B
  <2>2. /\ \A br \in e.borrows : With(br, br.holders \cup HeldBy(s.borrows, br.idx)) \in B
        /\ \A br \in s.borrows : (\A c \in e.borrows : c.idx # br.idx) => br \in B
    BY <2>1, MergedMembers
  <2>3. ASSUME NEW c \in B
        PROVE  \/ c \in s.borrows
               \/ \E br \in e.borrows : c = With(br, br.holders \cup HeldBy(s.borrows, br.idx))
    BY <2>1, MergedMembers
  <2>. QED
    BY <2>2, <2>3 DEF B
<1>3. /\ \A br \in e.borrows : IsBorrow(br)
      /\ \A br \in s.borrows : IsBorrow(br)
  BY DEF IsEntry, IsGood
<1>4. ASSUME NEW br \in e.borrows
      PROVE  \E c \in d.borrows :
               /\ br.idx = c.idx /\ SameBorrow(br, c) /\ br.holders \subseteq c.holders
               /\ br.activated = c.activated /\ c.holders = br.holders \cup HeldBy(s.borrows, br.idx)
  <2> DEFINE c == With(br, br.holders \cup HeldBy(s.borrows, br.idx))
  <2>1. c \in d.borrows
    BY <1>2
  <2>2. /\ br.idx = c.idx /\ SameBorrow(br, c) /\ br.activated = c.activated
        /\ c.holders = br.holders \cup HeldBy(s.borrows, br.idx)
    BY <1>3, Held
  <2>. HIDE DEF c
  <2>. QED
    BY <2>1, <2>2
<1>5. ASSUME NEW br \in s.borrows PROVE CoveredBorrow(br, d.borrows)
  <2>1. CASE \A c \in e.borrows : c.idx # br.idx
    BY <1>2, <2>1 DEF CoveredBorrow
  <2>2. CASE \E c \in e.borrows : c.idx = br.idx
    <3>1. PICK g \in e.borrows : g.idx = br.idx
      BY <2>2
    <3>2. SameBorrow(g, br)
      BY <3>1 DEF Numbered
    <3>3. PICK c \in d.borrows : SameBorrow(g, c) /\ c.holders = g.holders \cup HeldBy(s.borrows, g.idx)
      BY <1>4
    <3>4. br.holders \subseteq HeldBy(s.borrows, g.idx)
      BY <3>1 DEF HeldBy
    <3>. QED
      BY <3>2, <3>3, <3>4 DEF CoveredBorrow, SameBorrow
  <2>. QED
    BY <2>1, <2>2
<1>6. ASSUME NEW c \in d.borrows
      PROVE  IsBorrow(c) /\ \E br \in e.borrows \cup s.borrows : c.idx = br.idx /\ SameBorrow(c, br)
  <2>1. CASE c \in s.borrows
    BY <1>3, <2>1 DEF SameBorrow
  <2>2. CASE \E br \in e.borrows : c = With(br, br.holders \cup HeldBy(s.borrows, br.idx))
    <3>1. PICK br \in e.borrows : c = With(br, br.holders \cup HeldBy(s.borrows, br.idx))
      BY <2>2
    <3>2. IsBorrow(c) /\ c.idx = br.idx /\ SameBorrow(br, c)
      BY <1>3, <3>1, Held
    <3>. QED
      BY <3>2 DEF SameBorrow
  <2>. QED
    BY <1>2, <2>1, <2>2
<1>7. IsEntry(f, b, d)
  BY <1>6, BoundAgain DEF IsEntry
<1>8. Extends(e, d)
  BY <1>4, BoundStays DEF Extends
<1>. QED
  BY <1>5, <1>6, <1>7, <1>8

\* A join that leaves the entry as it is covers the borrows of the state as well.
LEMMA UnchangedCovers ==
  ASSUME NEW e, \A br \in e.borrows : IsBorrow(br), NEW s, IsGood(s),
         NEW n, Numbered(e.borrows \cup s.borrows, n), merge_state(e, s) = e
  PROVE  \A br \in s.borrows : CoveredBorrow(br, e.borrows)
<1>1. e.borrows = merged_borrows(e, s)
  BY DEF merge_state
<1>2. /\ \A br \in e.borrows : With(br, br.holders \cup HeldBy(s.borrows, br.idx)) \in e.borrows
      /\ \A br \in s.borrows : (\A c \in e.borrows : c.idx # br.idx) => br \in e.borrows
  BY <1>1, MergedMembers
<1>3. ASSUME NEW br \in s.borrows PROVE CoveredBorrow(br, e.borrows)
  <2>1. CASE \A c \in e.borrows : c.idx # br.idx
    BY <1>2, <2>1 DEF CoveredBorrow
  <2>2. CASE \E c \in e.borrows : c.idx = br.idx
    <3>1. PICK g \in e.borrows : g.idx = br.idx
      BY <2>2
    <3>2. SameBorrow(g, br)
      BY <3>1 DEF Numbered
    <3> DEFINE c == With(g, g.holders \cup HeldBy(s.borrows, g.idx))
    <3>3. c \in e.borrows /\ SameBorrow(g, c) /\ c.holders = g.holders \cup HeldBy(s.borrows, g.idx)
      BY <1>2, Held
    <3>. HIDE DEF c
    <3>4. br.holders \subseteq HeldBy(s.borrows, g.idx)
      BY <3>1 DEF HeldBy
    <3>. QED
      BY <3>2, <3>3, <3>4 DEF CoveredBorrow, SameBorrow
  <2>. QED
    BY <2>1, <2>2
<1>. QED
  BY <1>3

\* Numbers stay apart where borrows repeat those that are there.
LEMMA NumbersRepeat ==
  ASSUME NEW B, NEW C, NEW n, Numbered(B, n),
         \A c \in C : \E br \in B : c.idx = br.idx /\ SameBorrow(c, br)
  PROVE  Numbered(C, n)
<1>1. \A c \in C : c.idx \in Nat /\ c.idx < n
  BY DEF Numbered
<1>2. ASSUME NEW c \in C, NEW d \in C, c.idx = d.idx PROVE SameBorrow(c, d)
  <2>1. PICK br \in B : c.idx = br.idx /\ SameBorrow(c, br)
    OBVIOUS
  <2>2. PICK g \in B : d.idx = g.idx /\ SameBorrow(d, g)
    OBVIOUS
  <2>3. SameBorrow(br, g)
    BY <1>2, <2>1, <2>2 DEF Numbered
  <2>. QED
    BY <2>1, <2>2, <2>3 DEF SameBorrow
<1>. QED
  BY <1>1, <1>2 DEF Numbered

(***************************************************************************)
(* The invariant.                                                          *)
(***************************************************************************)
\* The borrows that the checker knows anywhere.
Known(f, in, s) == s.borrows \cup UNION {in[b].borrows : b \in Blocks(f)}

\* A block of P that its entry state rejects.
Rejected(f, lv, in, P) == \E b \in P : Rejects(f, lv, in[b], b)

\* s is the walk of b up to its statement n, from its entry state e.  Errors that the
\* checker had before are due to a block it rejects.
WalkedUpto(f, lv, e, b, n, s, rejected) ==
  \E E, k : /\ Ahead(e, k) /\ s = WalkUpto(f, lv, WalkFrom(e, E, k), b, n)
            /\ E # {} => rejected

\* s is the walk of b from its entry state e.
Walked(f, lv, e, b, s) == \E E, k : Ahead(e, k) /\ s = Walk(f, lv, e, b, E, k)

\* The walk of b was told: an error it may find is reported, and the entries behind its
\* edges before n cover the borrows it leaves.
Told(f, lv, in, b, E, n) ==
  /\ MayReject(f, lv, in[b], b) => E # {}
  /\ \A i \in 1..Len(successor_edges(f, b)) :
       i < n => Sends(f, lv, in[b], b, in[successor_edges(f, b)[i].to].borrows)

\* The edge of b to merge next.
NextEdge(b) ==
  IF at.phase = "merge" /\ at.block = b THEN at.index ELSE Len(successor_edges(function, b)) + 1

PlaceInv ==
  /\ at = [phase |-> at.phase, block |-> at.block, index |-> at.index]
  /\ at.phase \in {"pop", "walk", "merge", "done"}
  /\ at.phase = "done" => worklist = << >>
  /\ at.phase \in {"walk", "merge"} => at.block \in processed
  /\ processed \subseteq Blocks(function)

StateInv ==
  /\ IsGood(state)
  /\ \A b \in Blocks(function) : IsEntry(function, b, entry_states[b])
  /\ Numbered(Known(function, entry_states, state), state.next)
  /\ state.errors # {} => Rejected(function, liveness, entry_states, processed)

WalkInv ==
  /\ at.phase = "walk" =>
       \E n \in Nat :
         /\ at.index = n + 1 /\ n <= Len(Stmts(function, at.block))
         /\ WalkedUpto(function, liveness, entry_states[at.block], at.block, n, state,
                       Rejected(function, liveness, entry_states, processed))
  /\ at.phase = "merge" /\ ~in_worklist[at.block] =>
       Walked(function, liveness, entry_states[at.block], at.block, state)

ToldInv ==
  \A b \in processed :
    ~in_worklist[b] /\ (at.phase = "walk" => at.block # b) =>
      Told(function, liveness, entry_states, b, state.errors, NextEdge(b))

FixInv == WorklistInv /\ PlaceInv /\ StateInv /\ WalkInv /\ ToldInv

\* The edges of a block lead to blocks.
LEMMA EdgesExist ==
  ASSUME NEW f \in Functions, NEW b \in Blocks(f)
  PROVE  /\ Len(successor_edges(f, b)) \in Nat
         /\ \A i \in 1..Len(successor_edges(f, b)) : successor_edges(f, b)[i].to \in Blocks(f)
         /\ \A n \in successors(f, b) :
              \E i \in 1..Len(successor_edges(f, b)) : successor_edges(f, b)[i].to = n
<1> DEFINE edges == successor_edges(f, b)
<1>1. Len(edges) \in Nat /\ \A i \in 1..Len(edges) : edges[i].to \in Blocks(f)
  BY FunctionsAssumption DEF WellFormed, EdgesBind
<1>2. DOMAIN edges = 1..Len(edges)
  <2>1. IsTerminator(Term(f, b))
    BY FunctionsAssumption DEF WellFormed
  <2>. QED
    BY <2>1, SequenceFacts DEF IsTerminator, successor_edges
<1>3. \A n \in successors(f, b) : \E i \in 1..Len(edges) : edges[i].to = n
  BY <1>2 DEF successors, ToSet
<1>. QED
  BY <1>1, <1>3

\* The entry of the function has no arguments, and every entry state starts without
\* borrows (check.rs:189-200).
LEMMA FixInit == Init => FixInv
<1>. SUFFICES ASSUME Init PROVE FixInv
  OBVIOUS
<1>1. WorklistInv
  BY WorklistInit
<1>2. PlaceInv
  BY DEF Init, Idle, PlaceInv
<1>3. /\ state.next = 0 /\ state.borrows = {} /\ state.errors = {} /\ IsGood(state)
  BY DEF Init, WalkFrom, EmptyState, IsGood, IsState
<1>4. ASSUME NEW b \in Blocks(function)
      PROVE  entry_states[b].borrows = {} /\ IsEntry(function, b, entry_states[b])
  <2>1. CASE b = function.entry
    <3>1. function.blocks[b].args = << >>
      BY <2>1, FunctionsAssumption DEF Init, WellFormed
    <3>2. ArgLocals(function, b) = {}
      BY <3>1 DEF ArgLocals, ToSet
    <3>3. entry_states[b].borrows = {} /\ entry_states[b].moved = {}
      BY <2>1 DEF Init, EmptyState
    <3>. QED
      BY <3>2, <3>3 DEF IsEntry, bind_arguments
  <2>2. CASE b # function.entry
    <3>1. entry_states[b] = EmptyState
      BY <2>2 DEF Init
    <3>. QED
      BY <3>1 DEF IsEntry, bind_arguments, EmptyState
  <2>. QED
    BY <2>1, <2>2
<1>5. Known(function, entry_states, state) = {}
  BY <1>3, <1>4 DEF Known
<1>6. StateInv
  BY <1>3, <1>4, <1>5 DEF StateInv, Numbered
<1>7. WalkInv /\ ToldInv
  BY DEF Init, Idle, WalkInv, ToldInv
<1>. QED
  BY <1>1, <1>2, <1>6, <1>7 DEF FixInv

\* More errors change nothing that was told.
LEMMA ToldOn ==
  ASSUME NEW f, NEW lv, NEW in, NEW b, NEW E, NEW n, Told(f, lv, in, b, E, n), NEW D, E \subseteq D
  PROVE  Told(f, lv, in, b, D, n)
BY DEF Told

\* What the invariant says of numbers.
LEMMA EntriesAhead ==
  ASSUME NEW f, NEW in, NEW s, IsGood(s), Numbered(Known(f, in, s), s.next)
  PROVE  \A b \in Blocks(f) : Ahead(in[b], s.next) /\ Numbered(in[b].borrows \cup s.borrows, s.next)
<1>. SUFFICES ASSUME NEW b \in Blocks(f)
              PROVE  Ahead(in[b], s.next) /\ Numbered(in[b].borrows \cup s.borrows, s.next)
  OBVIOUS
<1>1. in[b].borrows \cup s.borrows \subseteq Known(f, in, s)
  BY DEF Known
<1>2. Numbered(in[b].borrows \cup s.borrows, s.next)
  BY <1>1 DEF Numbered
<1>. QED
  BY <1>2 DEF Ahead, Numbered, IsGood

\* A walk begins from the entry state as it is (check.rs:203-206, 236-239).
LEMMA FixPop ==
  ASSUME FixInv, WorklistInv', PopWorklist
  PROVE  FixInv'
<1> DEFINE b == Last(worklist)
           s == WalkFrom(entry_states[b], state.errors, state.next)
<1>1. /\ worklist # << >> /\ in_worklist' = [in_worklist EXCEPT ![b] = FALSE]
      /\ state' = s /\ at' = [phase |-> "walk", block |-> b, index |-> 1]
      /\ processed' = processed \cup {b} /\ at.phase = "pop"
      /\ function' = function /\ liveness' = liveness /\ entry_states' = entry_states
  BY DEF PopWorklist
<1>2. b \in Blocks(function) /\ function \in Functions /\ in_worklist \in [Blocks(function) -> BOOLEAN]
  BY <1>1, PopHolds DEF FixInv, WorklistInv, Types, Holds
<1>3. PlaceInv'
  BY <1>1, <1>2 DEF FixInv, PlaceInv
<1>4. Ahead(entry_states[b], state.next)
  BY <1>2, EntriesAhead DEF FixInv, StateInv
<1>5. /\ IsGood(s) /\ s.borrows = entry_states[b].borrows /\ s.errors = state.errors /\ s.next = state.next
  BY <1>2, <1>4, WalkStartsGood DEF FixInv, StateInv, IsEntry
<1>6. Rejected(function, liveness, entry_states, processed)
        => Rejected(function, liveness, entry_states, processed')
  BY <1>1 DEF Rejected
<1>7. StateInv'
  <2>1. Known(function, entry_states, s) \subseteq Known(function, entry_states, state)
    BY <1>2, <1>5 DEF Known
  <2>2. Numbered(Known(function, entry_states, s), s.next)
    BY <1>5, <2>1 DEF FixInv, StateInv, Numbered
  <2>. HIDE DEF s, b
  <2>. QED
    BY <1>1, <1>5, <1>6, <2>2 DEF FixInv, StateInv
<1>8. WalkInv'
  <2>1. WalkUpto(function, liveness, s, b, 0) = s
    BY WalkStarts
  <2>2. Len(Stmts(function, b)) \in Nat
    BY <1>2, BlockParts
  <2>3. state.errors # {} => Rejected(function, liveness, entry_states, processed')
    BY <1>6 DEF FixInv, StateInv
  <2>4. WalkedUpto(function, liveness, entry_states[b], b, 0, s,
                   Rejected(function, liveness, entry_states, processed'))
    BY <1>4, <2>1, <2>3 DEF WalkedUpto
  <2>. HIDE DEF s, b
  <2>. QED
    BY <1>1, <2>2, <2>4 DEF WalkInv
<1>9. ToldInv'
  <2>. SUFFICES ASSUME NEW c \in processed', ~in_worklist'[c], at'.block # c
                PROVE  Told(function, liveness, entry_states, c, s.errors, NextEdge(c)')
    BY <1>1 DEF ToldInv
  <2>1. c \in processed /\ c # b
    BY <1>1
  <2>2. ~in_worklist[c]
    BY <1>1, <1>2, <2>1 DEF FixInv, PlaceInv
  <2>3. NextEdge(c)' = NextEdge(c)
    BY <1>1 DEF NextEdge
  <2>. HIDE DEF s, b
  <2>. QED
    BY <1>1, <1>5, <2>1, <2>2, <2>3 DEF FixInv, ToldInv
<1>. QED
  BY <1>3, <1>7, <1>8, <1>9 DEF FixInv

\* An error of a walk that began without errors is an error of the block.
LEMMA WalkReports ==
  ASSUME NEW f \in Functions, NEW b \in Blocks(f), NEW lv, NEW e, NEW k, Ahead(e, k),
         \A br \in e.borrows : IsBorrow(br), NEW E, NEW n \in Nat, n <= Len(Stmts(f, b)),
         \/ WalkUpto(f, lv, WalkFrom(e, E, k), b, n).errors # {}
         \/ n = Len(Stmts(f, b)) /\ Walk(f, lv, e, b, E, k).errors # {}
  PROVE  E # {} \/ Rejects(f, lv, e, b)
<1>. SUFFICES ASSUME E = {} PROVE Rejects(f, lv, e, b)
  OBVIOUS
<1> DEFINE s == WalkFrom(e, {}, k)
<1>1. IsGood(s)
  BY WalkStartsGood
<1>. HIDE DEF s
<1>2. WalkUpto(f, lv, s, b, n).errors \subseteq process_block(f, lv, s, b).errors
  BY <1>1, ErrorsStay
<1>3. Walk(f, lv, e, b, {}, k).errors # {}
  BY <1>2 DEF Walk, s
<1>. QED
  BY <1>3, ErrorRejects

\* A walk that goes on adds errors and keeps the numbers apart.
LEMMA GoesOn ==
  ASSUME NEW f, NEW in, NEW s, NEW u, NEW when, NEW k, NEW K, NEW v, Steps(when, k, K, s, u, v),
         Numbered(Known(f, in, s), s.next)
  PROVE  IsGood(u) /\ s.errors \subseteq u.errors /\ Numbered(Known(f, in, u), u.next)
<1> DEFINE X == UNION {in[b].borrows : b \in Blocks(f)}
<1>1. Known(f, in, s) = X \cup s.borrows /\ Known(f, in, u) = X \cup u.borrows
  BY DEF Known
<1>. HIDE DEF X
<1>. QED
  BY <1>1 DEF Steps, Covers, Adds

\* One statement of the walk (check.rs:240-247).
LEMMA FixStatement ==
  ASSUME FixInv, WorklistInv', ProcessStatement
  PROVE  FixInv'
<1> DEFINE b == at.block
           u == walk_statement(function, liveness, state, b, at.index)
           rejected == Rejected(function, liveness, entry_states, processed)
<1>1. /\ at.phase = "walk" /\ at.index <= Len(Stmts(function, b))
      /\ state' = u /\ at' = [at EXCEPT !.index = @ + 1]
      /\ UNCHANGED <<function, liveness, entry_states, worklist, in_worklist, processed>>
  BY DEF ProcessStatement
<1>2. b \in Blocks(function) /\ b \in processed /\ function \in Functions
  BY <1>1 DEF FixInv, PlaceInv, WorklistInv, Types
<1>3. PICK n \in Nat :
        /\ at.index = n + 1 /\ n <= Len(Stmts(function, b))
        /\ WalkedUpto(function, liveness, entry_states[b], b, n, state, rejected)
  BY <1>1 DEF FixInv, WalkInv
<1>4. PICK E, k : /\ Ahead(entry_states[b], k)
                  /\ state = WalkUpto(function, liveness, WalkFrom(entry_states[b], E, k), b, n)
                  /\ E # {} => rejected
  BY <1>3 DEF WalkedUpto
<1> DEFINE m == n + 1
<1>5. m \in Nat /\ m = at.index /\ m <= Len(Stmts(function, b)) /\ IsStatement(Stmts(function, b)[m])
  <2>1. m \in 1..Len(Stmts(function, b))
    BY <1>1, <1>2, <1>3, BlockParts
  <2>. QED
    BY <1>1, <1>2, <1>3, <2>1, BlockParts
<1>6. u = WalkUpto(function, liveness, WalkFrom(entry_states[b], E, k), b, m)
  BY <1>3, <1>4, WalkContinues
<1>7. at' = [phase |-> "walk", block |-> b, index |-> m + 1]
  BY <1>1, <1>5 DEF FixInv, PlaceInv
<1>. HIDE DEF m
<1>8. IsGood(u) /\ state.errors \subseteq u.errors /\ Numbered(Known(function, entry_states, u), u.next)
  <2>1. Covers("before", 0, 0, state, state)
    BY GoodCovers DEF FixInv, StateInv
  <2>2. Steps("before", 0, 0, state, u, u)
    BY <1>5, <2>1, WalkStatementSteps
  <2>. HIDE DEF u
  <2>. QED
    BY <2>2, GoesOn DEF FixInv, StateInv
<1>. HIDE DEF u
<1>9. PlaceInv'
  BY <1>1, <1>2, <1>7 DEF FixInv, PlaceInv
<1>10. u.errors # {} => rejected
  <2>1. \A br \in entry_states[b].borrows : IsBorrow(br)
    BY <1>2 DEF FixInv, StateInv, IsEntry
  <2>2. u.errors # {} => E # {} \/ Rejects(function, liveness, entry_states[b], b)
    BY <1>2, <1>4, <1>5, <1>6, <2>1, WalkReports
  <2>. QED
    BY <1>2, <1>4, <2>2 DEF Rejected
<1>11. StateInv'
  BY <1>1, <1>8, <1>10 DEF FixInv, StateInv
<1>12. WalkInv'
  <2>1. WalkedUpto(function, liveness, entry_states[b], b, m, u, rejected)
    BY <1>4, <1>6 DEF WalkedUpto
  <2>. HIDE DEF b
  <2>. QED
    BY <1>1, <1>5, <1>7, <2>1 DEF WalkInv
<1>13. ToldInv'
  <2>. SUFFICES ASSUME NEW c \in processed, ~in_worklist[c], b # c
                PROVE  Told(function, liveness, entry_states, c, u.errors, NextEdge(c)')
    BY <1>1, <1>7 DEF ToldInv
  <2>1. NextEdge(c)' = NextEdge(c)
    BY <1>1, <1>7 DEF NextEdge
  <2>2. Told(function, liveness, entry_states, c, state.errors, NextEdge(c))
    BY <1>1 DEF FixInv, ToldInv
  <2>. QED
    BY <1>8, <2>1, <2>2, ToldOn
<1>. QED
  BY <1>9, <1>11, <1>12, <1>13 DEF FixInv

\* The walk that ends tells of every error that a walk of the block finds.
LEMMA WalkTells ==
  ASSUME NEW f \in Functions, NEW b \in Blocks(f), NEW lv, NEW in, NEW E, NEW k, Ahead(in[b], k),
         \A br \in in[b].borrows : IsBorrow(br)
  PROVE  /\ MayReject(f, lv, in[b], b) => Walk(f, lv, in[b], b, E, k).errors # {}
         /\ Told(f, lv, in, b, Walk(f, lv, in[b], b, E, k).errors, 1)
<1>1. MayReject(f, lv, in[b], b) => Walk(f, lv, in[b], b, E, k).errors # {}
  <2>. SUFFICES ASSUME NEW n, Ahead(in[b], n), Walk(f, lv, in[b], b, {}, n).errors # {}
                PROVE  Walk(f, lv, in[b], b, E, k).errors # {}
    BY DEF MayReject
  <2>1. Extends(in[b], in[b])
    BY ExtendsItself
  <2>2. Walk(f, lv, in[b], b, {}, n).errors # {} => Walk(f, lv, in[b], b, E, k).errors # {}
    BY <2>1, WalksCover
  <2>. QED
    BY <2>2
<1>. QED
  BY <1>1 DEF Told

\* The terminator ends the walk (check.rs:248-258).
LEMMA FixTerminator ==
  ASSUME FixInv, WorklistInv', ProcessTerminator
  PROVE  FixInv'
<1> DEFINE b == at.block
           u == walk_terminator(function, liveness, state, b)
           rejected == Rejected(function, liveness, entry_states, processed)
<1>1. /\ at.phase = "walk" /\ at.index = InstrCount(function, b)
      /\ state' = u /\ at' = [phase |-> "merge", block |-> b, index |-> 1]
      /\ UNCHANGED <<function, liveness, entry_states, worklist, in_worklist, processed>>
  BY DEF ProcessTerminator
<1>2. b \in Blocks(function) /\ b \in processed /\ function \in Functions
  BY <1>1 DEF FixInv, PlaceInv, WorklistInv, Types
<1>3. PICK n \in Nat :
        /\ at.index = n + 1 /\ n <= Len(Stmts(function, b))
        /\ WalkedUpto(function, liveness, entry_states[b], b, n, state, rejected)
  BY <1>1 DEF FixInv, WalkInv
<1>4. PICK E, k : /\ Ahead(entry_states[b], k)
                  /\ state = WalkUpto(function, liveness, WalkFrom(entry_states[b], E, k), b, n)
                  /\ E # {} => rejected
  BY <1>3 DEF WalkedUpto
<1>5. n = Len(Stmts(function, b)) /\ IsSequence(Stmts(function, b)) /\ IsTerminator(Term(function, b))
  BY <1>1, <1>2, <1>3, BlockParts DEF InstrCount
<1>6. u = Walk(function, liveness, entry_states[b], b, E, k)
  BY <1>4, <1>5, BlockIsWalk DEF Walk
<1>7. IsGood(u) /\ state.errors \subseteq u.errors /\ Numbered(Known(function, entry_states, u), u.next)
  <2>1. Covers("before", 0, 0, state, state)
    BY GoodCovers DEF FixInv, StateInv
  <2>2. Steps("after", 0, 0, state, u, u)
    BY <1>5, <2>1, WalkTerminatorSteps
  <2>. HIDE DEF u
  <2>. QED
    BY <2>2, GoesOn DEF FixInv, StateInv
<1>. HIDE DEF u
<1>8. \A br \in entry_states[b].borrows : IsBorrow(br)
  BY <1>2 DEF FixInv, StateInv, IsEntry
<1>9. PlaceInv'
  BY <1>1, <1>2 DEF FixInv, PlaceInv
<1>10. u.errors # {} => rejected
  <2>1. u.errors # {} => E # {} \/ Rejects(function, liveness, entry_states[b], b)
    BY <1>2, <1>3, <1>4, <1>5, <1>6, <1>8, WalkReports
  <2>. QED
    BY <1>2, <1>4, <2>1 DEF Rejected
<1>11. StateInv'
  BY <1>1, <1>7, <1>10 DEF FixInv, StateInv
<1>12. WalkInv'
  <2>1. Walked(function, liveness, entry_states[b], b, u)
    BY <1>4, <1>6 DEF Walked
  <2>. HIDE DEF b
  <2>. QED
    BY <1>1, <2>1 DEF WalkInv
<1>13. ToldInv'
  <2>. SUFFICES ASSUME NEW c \in processed, ~in_worklist[c]
                PROVE  Told(function, liveness, entry_states, c, u.errors, NextEdge(c)')
    BY <1>1 DEF ToldInv
  <2>1. CASE c = b
    <3>1. NextEdge(c)' = 1
      BY <1>1, <2>1 DEF NextEdge
    <3>2. Told(function, liveness, entry_states, b, u.errors, 1)
      BY <1>2, <1>4, <1>6, <1>8, WalkTells
    <3>. QED
      BY <2>1, <3>1, <3>2
  <2>2. CASE c # b
    <3>1. NextEdge(c)' = NextEdge(c)
      BY <1>1, <2>2 DEF NextEdge
    <3>2. Told(function, liveness, entry_states, c, state.errors, NextEdge(c))
      BY <1>1, <2>2 DEF FixInv, ToldInv
    <3>. QED
      BY <1>7, <3>1, <3>2, ToldOn
  <2>. QED
    BY <2>1, <2>2
<1>. QED
  BY <1>9, <1>11, <1>12, <1>13 DEF FixInv

\* What was sent is covered by entries that grow.
LEMMA SendsOn ==
  ASSUME NEW f, NEW lv, NEW e, NEW b, NEW B, Sends(f, lv, e, b, B),
         NEW C, \A c \in B : CoveredBorrow(c, C)
  PROVE  Sends(f, lv, e, b, C)
BY CoveredAgain DEF Sends

\* An entry that extends another covers its borrows.
LEMMA ExtendsCovers ==
  ASSUME NEW e, NEW d, Extends(e, d)
  PROVE  \A br \in e.borrows : CoveredBorrow(br, d.borrows)
BY DEF Extends, SameBorrow, CoveredBorrow

\* Every walk of b from its entry sends what one of them sends.
LEMMA WalkSends ==
  ASSUME NEW f \in Functions, NEW b \in Blocks(f), NEW lv, NEW e, \A br \in e.borrows : IsBorrow(br),
         NEW s, Walked(f, lv, e, b, s), NEW C, \A c \in s.borrows : CoveredBorrow(c, C)
  PROVE  Sends(f, lv, e, b, C)
<1>1. PICK E, k : Ahead(e, k) /\ s = Walk(f, lv, e, b, E, k)
  BY DEF Walked
<1>. SUFFICES ASSUME NEW n, Ahead(e, n), NEW br \in Walk(f, lv, e, b, {}, n).borrows
              PROVE  CoveredBorrow(br, C)
  BY DEF Sends
<1>2. Extends(e, e)
  BY ExtendsItself
<1>3. CoveredBorrow(br, s.borrows)
  BY <1>1, <1>2, WalksCover
<1>. QED
  BY <1>3, CoveredAgain

\* What one merge does: the entry of the target grows, and covers the exit state.
LEMMA MergeResult ==
  ASSUME FixInv, MergeEdge, NEW t, t = successor_edges(function, at.block)[at.index].to,
         t \in Blocks(function)
  PROVE  /\ \A b \in Blocks(function) :
              /\ entry_states'[b] = entry_states[b] \/ in_worklist'[b]
              /\ in_worklist[b] => in_worklist'[b]
              /\ IsEntry(function, b, entry_states'[b])
              /\ Extends(entry_states[b], entry_states'[b])
              /\ \A br \in entry_states'[b].borrows : \E c \in Known(function, entry_states, state) :
                   br.idx = c.idx /\ SameBorrow(br, c)
         /\ \A br \in state.borrows : CoveredBorrow(br, entry_states'[t].borrows)
<1> DEFINE e == entry_states[t]
           d == bind_arguments(function, t, merge_state(e, state))
<1>1. /\ DOMAIN entry_states = Blocks(function) /\ in_worklist \in [Blocks(function) -> BOOLEAN]
      /\ IsGood(state) /\ \A b \in Blocks(function) : IsEntry(function, b, entry_states[b])
  BY DEF FixInv, WorklistInv, Types, Holds, StateInv
<1>2. Numbered(e.borrows \cup state.borrows, state.next)
  BY EntriesAhead DEF FixInv, StateInv
<1>3. \A b \in Blocks(function) : entry_states[b].borrows \subseteq Known(function, entry_states, state)
      /\ state.borrows \subseteq Known(function, entry_states, state)
  BY DEF Known
<1>4. ASSUME NEW b \in Blocks(function), entry_states'[b] = entry_states[b]
      PROVE  /\ IsEntry(function, b, entry_states'[b]) /\ Extends(entry_states[b], entry_states'[b])
             /\ \A br \in entry_states'[b].borrows : \E c \in Known(function, entry_states, state) :
                  br.idx = c.idx /\ SameBorrow(br, c)
  BY <1>1, <1>3, <1>4, ExtendsItself DEF SameBorrow
<1>5. CASE MergeChanges(t)
  <2>1. /\ entry_states' = [entry_states EXCEPT ![t] = d]
        /\ in_worklist' = [in_worklist EXCEPT ![t] = TRUE]
    BY <1>5 DEF MergeEdge, push_worklist
  <2>2. entry_states'[t] = d /\ in_worklist'[t]
    BY <1>1, <2>1
  <2>3. \A b \in Blocks(function) : b # t => entry_states'[b] = entry_states[b]
    BY <1>1, <2>1
  <2>4. \A b \in Blocks(function) : in_worklist[b] => in_worklist'[b]
    BY <1>1, <2>1
  <2>5. /\ IsEntry(function, t, d) /\ Extends(e, d)
        /\ \A br \in state.borrows : CoveredBorrow(br, d.borrows)
        /\ \A br \in d.borrows : \E c \in e.borrows \cup state.borrows : br.idx = c.idx /\ SameBorrow(br, c)
    <3> DEFINE dd == d
    <3>1. dd = bind_arguments(function, t, merge_state(e, state))
      OBVIOUS
    <3>2. IsEntry(function, t, e)
      BY <1>1
    <3>. HIDE DEF dd, e
    <3>3. /\ IsEntry(function, t, dd) /\ Extends(e, dd)
          /\ \A br \in state.borrows : CoveredBorrow(br, dd.borrows)
          /\ \A br \in dd.borrows : \E c \in e.borrows \cup state.borrows : br.idx = c.idx /\ SameBorrow(br, c)
      BY <1>1, <1>2, <3>1, <3>2, MergeExtends
    <3>. QED
      BY <3>3 DEF dd
  <2>. HIDE DEF d
  <2>6. \A br \in d.borrows : \E c \in Known(function, entry_states, state) : br.idx = c.idx /\ SameBorrow(br, c)
    BY <1>3, <2>5
  <2>. QED
    BY <1>4, <2>2, <2>3, <2>4, <2>5, <2>6
<1>6. CASE ~MergeChanges(t)
  <2>1. entry_states' = entry_states /\ in_worklist' = in_worklist
    BY <1>6 DEF MergeEdge
  <2>2. merge_state(e, state) = e
    BY <1>6 DEF MergeChanges
  <2>3. \A br \in e.borrows : IsBorrow(br)
    BY <1>1 DEF IsEntry
  <2>. HIDE DEF e
  <2>4. \A br \in state.borrows : CoveredBorrow(br, e.borrows)
    BY <1>1, <1>2, <2>2, <2>3, UnchangedCovers
  <2>. QED
    BY <1>4, <2>1, <2>4 DEF e
<1>. QED
  BY <1>5, <1>6

\* One edge: the target that changed waits to be walked again, and every other entry
\* is as it was (check.rs:207-221).
LEMMA FixMerge ==
  ASSUME FixInv, WorklistInv', MergeEdge
  PROVE  FixInv'
<1> DEFINE b == at.block
           i == at.index
           t == successor_edges(function, b)[i].to
           known == Known(function, entry_states, state)
           known2 == Known(function, entry_states', state)
<1>1. /\ at.phase = "merge" /\ i <= Len(successor_edges(function, b))
      /\ at' = [at EXCEPT !.index = @ + 1]
      /\ UNCHANGED <<function, liveness, state, processed>>
  BY DEF MergeEdge
<1>2. b \in Blocks(function) /\ b \in processed /\ function \in Functions /\ i \in Nat \ {0}
      /\ processed \subseteq Blocks(function)
  BY <1>1 DEF FixInv, PlaceInv, WorklistInv, Types
<1>3. at' = [phase |-> "merge", block |-> b, index |-> i + 1]
  BY <1>1 DEF FixInv, PlaceInv
<1>4. t \in Blocks(function)
  <2>1. i \in 1..Len(successor_edges(function, b))
    BY <1>1, <1>2, EdgesExist
  <2>. QED
    BY <1>2, <2>1, EdgesExist
<1>5. /\ \A c \in Blocks(function) :
           /\ entry_states'[c] = entry_states[c] \/ in_worklist'[c]
           /\ in_worklist[c] => in_worklist'[c]
           /\ IsEntry(function, c, entry_states'[c])
           /\ Extends(entry_states[c], entry_states'[c])
           /\ \A br \in entry_states'[c].borrows : \E g \in known :
                br.idx = g.idx /\ SameBorrow(br, g)
      /\ \A br \in state.borrows : CoveredBorrow(br, entry_states'[t].borrows)
  BY <1>4, MergeResult
<1>6. PlaceInv'
  BY <1>1, <1>2, <1>3 DEF FixInv, PlaceInv
<1>7. \A c \in Blocks(function) : \A br \in entry_states[c].borrows : IsBorrow(br)
  BY DEF FixInv, StateInv, IsEntry
<1>8. Numbered(known2, state.next)
  <2>1. ASSUME NEW br \in known2 PROVE \E g \in known : br.idx = g.idx /\ SameBorrow(br, g)
    <3>1. CASE br \in state.borrows
      BY <3>1 DEF Known, SameBorrow
    <3>2. CASE \E c \in Blocks(function) : br \in entry_states'[c].borrows
      <4>. HIDE DEF known
      <4>. QED
        BY <1>5, <3>2
    <3>. QED
      BY <3>1, <3>2 DEF Known
  <2>2. Numbered(known, state.next)
    BY DEF FixInv, StateInv
  <2>. HIDE DEF known, known2
  <2>. QED
    BY <2>1, <2>2, NumbersRepeat
<1>9. Rejected(function, liveness, entry_states, processed) => Rejected(function, liveness, entry_states', processed)
  <2>. SUFFICES ASSUME NEW c \in processed, Rejects(function, liveness, entry_states[c], c)
                PROVE  Rejects(function, liveness, entry_states'[c], c)
    BY DEF Rejected
  <2>1. c \in Blocks(function) /\ Extends(entry_states[c], entry_states'[c])
        /\ \A br \in entry_states'[c].borrows : IsBorrow(br)
    BY <1>2, <1>5 DEF IsEntry
  <2>. QED
    BY <1>2, <1>7, <2>1, RejectsStays
<1>10. StateInv'
  BY <1>1, <1>5, <1>8, <1>9 DEF FixInv, StateInv
<1>11. WalkInv'
  <2>1. ~in_worklist'[b] => ~in_worklist[b] /\ entry_states'[b] = entry_states[b]
    BY <1>2, <1>5
  <2>2. ~in_worklist[b] => Walked(function, liveness, entry_states[b], b, state)
    BY <1>1 DEF FixInv, WalkInv
  <2>. HIDE DEF b, i
  <2>. QED
    BY <1>1, <1>3, <2>1, <2>2 DEF WalkInv
<1>12. ASSUME NEW c \in processed, ~in_worklist'[c]
       PROVE  Told(function, liveness, entry_states', c, state.errors, NextEdge(c)')
  <2>1. c \in Blocks(function) /\ ~in_worklist[c] /\ entry_states'[c] = entry_states[c]
    BY <1>2, <1>5, <1>12
  <2>2. Told(function, liveness, entry_states, c, state.errors, NextEdge(c))
    BY <1>1, <2>1 DEF FixInv, ToldInv
  <2> DEFINE edges == successor_edges(function, c)
  <2>3. ASSUME NEW j \in 1..Len(edges), j < NextEdge(c)'
        PROVE  Sends(function, liveness, entry_states[c], c, entry_states'[edges[j].to].borrows)
    <3>1. edges[j].to \in Blocks(function) /\ Len(edges) \in Nat
      BY <1>2, <2>1, EdgesExist
    <3>2. CASE j < NextEdge(c)
      <4>1. Sends(function, liveness, entry_states[c], c, entry_states[edges[j].to].borrows)
        BY <2>2, <3>2 DEF Told
      <4>2. \A br \in entry_states[edges[j].to].borrows :
               CoveredBorrow(br, entry_states'[edges[j].to].borrows)
        BY <1>5, <3>1, ExtendsCovers
      <4>. HIDE DEF edges
      <4>. QED
        BY <4>1, <4>2, SendsOn
    <3>3. CASE ~(j < NextEdge(c))
      <4>1. c = b /\ j = i
        <5>1. NextEdge(c)' = IF c = b THEN i + 1 ELSE Len(edges) + 1
          BY <1>1, <1>3 DEF NextEdge
        <5>2. NextEdge(c) = IF c = b THEN i ELSE Len(edges) + 1
          BY <1>1 DEF NextEdge
        <5>. HIDE DEF edges, b, i
        <5>. QED
          BY <1>2, <2>3, <3>1, <3>3, <5>1, <5>2
      <4>2. Walked(function, liveness, entry_states[b], b, state)
        BY <1>1, <2>1, <4>1 DEF FixInv, WalkInv
      <4>3. Sends(function, liveness, entry_states[b], b, entry_states'[t].borrows)
        BY <1>2, <1>5, <1>7, <4>2, WalkSends
      <4>. QED
        BY <4>1, <4>3
    <3>. QED
      BY <3>2, <3>3
  <2>4. MayReject(function, liveness, entry_states[c], c) => state.errors # {}
    BY <2>2 DEF Told
  <2>. QED
    BY <2>1, <2>3, <2>4 DEF Told
<1>13. ToldInv'
  BY <1>1, <1>12 DEF ToldInv
<1>. QED
  BY <1>6, <1>10, <1>11, <1>13 DEF FixInv

\* The edges are all merged, or nothing waits (check.rs:203, 221).
LEMMA FixRest ==
  ASSUME FixInv, WorklistInv', EndBlock \/ Finish \/ UNCHANGED vars
  PROVE  FixInv'
<1>1. UNCHANGED <<function, liveness, entry_states, worklist, in_worklist, state, processed>>
  BY DEF EndBlock, Finish, vars
<1>2. StateInv'
  BY <1>1 DEF FixInv, StateInv
<1>3. CASE EndBlock
  <2>1. /\ at.phase = "merge" /\ at.index > Len(successor_edges(function, at.block)) /\ at' = Idle
    BY <1>3 DEF EndBlock
  <2>2. PlaceInv' /\ WalkInv'
    BY <1>1, <2>1 DEF FixInv, PlaceInv, WalkInv, Idle
  <2>3. ASSUME NEW c \in processed, ~in_worklist[c]
        PROVE  Told(function, liveness, entry_states, c, state.errors, NextEdge(c)')
    <3> DEFINE len == Len(successor_edges(function, c))
    <3>1. Told(function, liveness, entry_states, c, state.errors, NextEdge(c))
      BY <2>1, <2>3 DEF FixInv, ToldInv
    <3>2. NextEdge(c)' = len + 1
      BY <1>1, <2>1 DEF NextEdge, Idle
    <3>3. len \in Nat /\ at.index \in Nat
      <4>1. function \in Functions /\ c \in Blocks(function)
        BY DEF FixInv, WorklistInv, Types, PlaceInv
      <4>2. len \in Nat
        BY <4>1, EdgesExist
      <4>. QED
        BY <2>1, <4>2 DEF FixInv, WorklistInv, Types
    <3>4. NextEdge(c) > len
      BY <2>1, <3>3 DEF NextEdge
    <3>5. \A j \in 1..len : j < NextEdge(c)
      <4>1. NextEdge(c) \in Nat
        BY <3>3 DEF NextEdge
      <4>. HIDE DEF len
      <4>. QED
        BY <3>3, <3>4, <4>1
    <3>. QED
      BY <3>1, <3>5 DEF Told
  <2>4. ToldInv'
    BY <1>1, <2>3 DEF ToldInv
  <2>. QED
    BY <1>2, <2>2, <2>4 DEF FixInv
<1>4. CASE Finish
  <2>1. at.phase = "pop" /\ worklist = << >> /\ at' = [at EXCEPT !.phase = "done"]
    BY <1>4 DEF Finish
  <2>2. at'.phase = "done" /\ at' = [phase |-> "done", block |-> at'.block, index |-> at'.index]
    BY <2>1 DEF FixInv, PlaceInv
  <2>3. PlaceInv' /\ WalkInv'
    BY <1>1, <2>1, <2>2 DEF FixInv, PlaceInv, WalkInv
  <2>4. \A c : NextEdge(c)' = NextEdge(c)
    BY <1>1, <2>1, <2>2 DEF NextEdge
  <2>5. ToldInv'
    BY <1>1, <2>1, <2>4 DEF FixInv, ToldInv
  <2>. QED
    BY <1>2, <2>3, <2>5 DEF FixInv
<1>5. CASE UNCHANGED vars
  <2>1. at' = at
    BY <1>5 DEF vars
  <2>2. \A c : NextEdge(c)' = NextEdge(c)
    BY <1>1, <2>1 DEF NextEdge
  <2>. QED
    BY <1>1, <1>2, <2>1, <2>2 DEF FixInv, PlaceInv, WalkInv, ToldInv
<1>. QED
  BY <1>3, <1>4, <1>5

\* Every step of the checker keeps the invariant.
LEMMA FixStep == FixInv /\ [Next]_vars => FixInv'
<1>. SUFFICES ASSUME FixInv, [Next]_vars PROVE FixInv'
  OBVIOUS
<1>1. WorklistInv'
  BY WorklistStep DEF FixInv
<1>. QED
  BY <1>1, FixPop, FixStatement, FixTerminator, FixMerge, FixRest DEF Next, Step, Terminated

\* At the end no walk is left to do, and all were told.
LEMMA FinishedIsTold ==
  ASSUME FixInv, Finished, NEW b \in processed
  PROVE  /\ b \in Blocks(function) /\ function \in Functions
         /\ Told(function, liveness, entry_states, b, state.errors, Len(successor_edges(function, b)) + 1)
         /\ Ahead(entry_states[b], state.next)
         /\ FinalWalk(b) = Walk(function, liveness, entry_states[b], b, {}, state.next)
<1>1. at.phase = "done" /\ worklist = << >> /\ b \in Blocks(function) /\ function \in Functions
  BY DEF FixInv, PlaceInv, WorklistInv, Types, Finished
<1>2. ~in_worklist[b]
  BY <1>1 DEF FixInv, WorklistInv, Holds
<1>3. NextEdge(b) = Len(successor_edges(function, b)) + 1
  BY <1>1 DEF NextEdge
<1>4. Told(function, liveness, entry_states, b, state.errors, NextEdge(b))
  BY <1>1, <1>2 DEF FixInv, ToldInv
<1>5. Ahead(entry_states[b], state.next)
  BY <1>1, EntriesAhead DEF FixInv, StateInv
<1>. QED
  BY <1>1, <1>3, <1>4, <1>5 DEF FinalWalk, Walk

\* The invariant holds throughout.
LEMMA FixAlways == Spec => []FixInv
BY FixInit, FixStep, PTL DEF Spec

\* What a walk leaves was sent along each edge.
LEMMA BorrowsAtEnd == FixInv => BorrowsSolve
<1>. SUFFICES ASSUME FixInv, Finished, NEW b \in processed, NEW n \in successors(function, b),
                     NEW br \in FinalWalk(b).borrows
              PROVE  CoveredBorrow(br, entry_states[n].borrows)
  BY DEF BorrowsSolve
<1>1. /\ b \in Blocks(function) /\ function \in Functions
      /\ Told(function, liveness, entry_states, b, state.errors, Len(successor_edges(function, b)) + 1)
      /\ Ahead(entry_states[b], state.next)
      /\ FinalWalk(b) = Walk(function, liveness, entry_states[b], b, {}, state.next)
  BY FinishedIsTold
<1> DEFINE edges == successor_edges(function, b)
<1>2. Len(edges) \in Nat /\ \E i \in 1..Len(edges) : edges[i].to = n
  BY <1>1, EdgesExist
<1>3. PICK i \in 1..Len(edges) : edges[i].to = n
  BY <1>2
<1>4. i < Len(edges) + 1
  BY <1>2
<1>5. Sends(function, liveness, entry_states[b], b, entry_states[n].borrows)
  BY <1>1, <1>3, <1>4 DEF Told
<1>. QED
  BY <1>1, <1>5 DEF Sends

\* An error of a final walk was told, and an error told is one of a final walk.
LEMMA VerdictAtEnd == FixInv => VerdictIsFinal
<1>. SUFFICES ASSUME FixInv, Finished
              PROVE  state.errors = {} <=> \A b \in processed : FinalWalk(b).errors = {}
  BY DEF VerdictIsFinal
<1>1. ASSUME NEW b \in processed, FinalWalk(b).errors # {} PROVE state.errors # {}
  <2>1. /\ Told(function, liveness, entry_states, b, state.errors, Len(successor_edges(function, b)) + 1)
        /\ Ahead(entry_states[b], state.next)
        /\ FinalWalk(b) = Walk(function, liveness, entry_states[b], b, {}, state.next)
    BY FinishedIsTold
  <2>2. MayReject(function, liveness, entry_states[b], b)
    BY <1>1, <2>1 DEF MayReject
  <2>. QED
    BY <2>1, <2>2 DEF Told
<1>2. ASSUME state.errors # {} PROVE \E b \in processed : FinalWalk(b).errors # {}
  <2>1. PICK b \in processed : Rejects(function, liveness, entry_states[b], b)
    BY <1>2 DEF FixInv, StateInv, Rejected
  <2>2. /\ Ahead(entry_states[b], state.next)
        /\ FinalWalk(b) = Walk(function, liveness, entry_states[b], b, {}, state.next)
    BY FinishedIsTold
  <2>. QED
    BY <2>1, <2>2 DEF Rejects
<1>. QED
  BY <1>1, <1>2

\* When the check ends, every borrow that leaves a block that was walked is covered at
\* the entry of each successor by one of the same kind and place with at least its
\* holders, in every function and whatever the numbers of the borrows
\* (check.rs:204-223, 319-350).
THEOREM BorrowsAreSolved == Spec => []BorrowsSolve
BY BorrowsAtEnd, FixAlways, PTL

\* The errors that the checker reports on the way, from entry states that are not final
\* and numbers that change from walk to walk, are the verdict of the fixed point: it
\* accepts a function exactly if no walk from a final entry state finds an error
\* (check.rs:204-223).
THEOREM VerdictIsOfFixedPoint == Spec => []VerdictIsFinal
BY VerdictAtEnd, FixAlways, PTL
=============================================================================
