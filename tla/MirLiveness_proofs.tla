------------------------- MODULE MirLiveness_proofs -------------------------
(***************************************************************************)
(* Proofs about MirLiveness, for every well-formed function: where the     *)
(* sweeps end, a local is live exactly where some path leads to a use.     *)
(*                                                                         *)
(* The result of the sweeps is a solution of the liveness equations, so it *)
(* has whatever UsedAhead has; this needs that a block visited in a sweep  *)
(* that has changed nothing yet is solved against its successors as they   *)
(* stand (SweepInv).  And no local is live, at any time, where no path     *)
(* leads to a use (LiveInv).  That UsedAhead, a bounded number of steps    *)
(* backwards, is closed under further steps is a counting argument: an     *)
(* unfinished search finds a new instruction in every step.                *)
(***************************************************************************)
EXTENDS MirLiveness, FiniteSetTheorems, TLAPS

TransferOp(f, b, unused, live, i) == live_before_instr(f, b, i, live)
Transfers == INSTANCE FoldFacts WITH Op <- TransferOp

BeforeOp(f, l, unused, nearer, n) == nearer \cup Before(f, l, nearer)
Searches == INSTANCE FoldFacts WITH Op <- BeforeOp

(***************************************************************************)
(* The transfer of a block.                                                *)
(***************************************************************************)
\* Every block has statements, one by one, and a terminator after them.
LEMMA InstructionsCounted ==
  ASSUME NEW f, WellFormed(f), NEW b \in Blocks(f)
  PROVE  InstrCount(f, b) \in Nat /\ InstrCount(f, b) >= 1
<1>1. Len(Stmts(f, b)) \in Nat
  BY DEF WellFormed, EdgesBind, IsSequence
<1>. QED
  BY <1>1 DEF InstrCount

\* The liveness of a block (liveness.rs:138-157) is that of every instruction
\* computed from the one after it, the last one from what leaves the block.
LEMMA BlockTransfer ==
  ASSUME NEW f, WellFormed(f), NEW b \in Blocks(f), NEW out
  PROVE  LET n == InstrCount(f, b)
             live == per_stmt(f, b, out)
         IN  /\ DOMAIN live = 1..n
             /\ \A i \in 1..n :
                  live[i] = live_before_instr(f, b, i, IF i = n THEN out ELSE live[i + 1])
<1> DEFINE n == InstrCount(f, b)
           g == CHOOSE g : g = [i \in 1..n |-> live_before_instr(f, b, i, IF i = n THEN out ELSE g[i + 1])]
<1>1. n \in Nat
  BY InstructionsCounted
<1>2. \E h : h = [i \in 1..n |-> live_before_instr(f, b, i, IF i = n THEN out ELSE h[i + 1])]
  <2>. HIDE DEF n
  <2>1. PICK h : Transfers!Backward(f, b, {}, out, n, h)
    BY <1>1, Transfers!BackwardRecursionExists
  <2>. QED
    BY <2>1 DEF Transfers!Backward, TransferOp
<1>3. g = [i \in 1..n |-> live_before_instr(f, b, i, IF i = n THEN out ELSE g[i + 1])]
  BY <1>2
<1>4. per_stmt(f, b, out) = [i \in 1..n |-> g[i]]
  BY DEF per_stmt
<1>. HIDE DEF g
<1>5. \A i \in 1..n : i # n => i + 1 \in 1..n
  BY <1>1
<1>. HIDE DEF n
<1>. QED
  BY <1>3, <1>4, <1>5 DEF n

(***************************************************************************)
(* The search for uses.                                                    *)
(***************************************************************************)
\* An instruction is a block and a position in it.
LEMMA PointIsPair ==
  ASSUME NEW f
  PROVE  /\ \A p \in Points(f) :
              p = <<p[1], p[2]>> /\ p[1] \in Blocks(f) /\ p[2] \in 1..InstrCount(f, p[1])
         /\ \A b \in Blocks(f) : \A i \in 1..InstrCount(f, b) : <<b, i>> \in Points(f)
BY DEF Points

\* The values of a function on a finite set are finitely many.
LEMMA FiniteImage ==
  ASSUME NEW S, IsFiniteSet(S), NEW T, NEW g \in [S -> T], T = {g[x] : x \in S}
  PROVE  IsFiniteSet(T)
<1>1. g \in Surjection(S, T)
  BY DEF Surjection
<1>. QED
  BY <1>1, FS_Surjection

\* A function has finitely many instructions.
LEMMA PointsFinite ==
  ASSUME NEW f, WellFormed(f)
  PROVE  IsFiniteSet(Points(f)) /\ Cardinality(Points(f)) \in Nat
<1> DEFINE PointsIn(b) == {<<b, i>> : i \in 1..InstrCount(f, b)}
           block == [b \in Blocks(f) |-> PointsIn(b)]
           P == {block[b] : b \in Blocks(f)}
<1>1. IsFiniteSet(Blocks(f))
  <2>1. Len(f.blocks) \in Nat /\ Blocks(f) = 1..Len(f.blocks)
    BY DEF WellFormed, EdgesBind, IsSequence, Blocks
  <2>. QED
    BY <2>1, FS_Interval
<1>2. IsFiniteSet(P)
  <2>1. block \in [Blocks(f) -> P]
    OBVIOUS
  <2>. HIDE DEF block
  <2>. QED
    BY <1>1, <2>1, FiniteImage
<1>3. ASSUME NEW b \in Blocks(f) PROVE IsFiniteSet(PointsIn(b))
  <2>1. InstrCount(f, b) \in Nat
    BY InstructionsCounted
  <2>2. IsFiniteSet(1..InstrCount(f, b))
    BY <2>1, FS_Interval
  <2> DEFINE I == 1..InstrCount(f, b)
         pair == [i \in I |-> <<b, i>>]
  <2>3. IsFiniteSet(I) /\ pair \in [I -> PointsIn(b)]
    BY <2>2
  <2>4. PointsIn(b) = {pair[i] : i \in I}
    OBVIOUS
  <2>. HIDE DEF I, pair, PointsIn
  <2>. QED
    BY <2>3, <2>4, FiniteImage
<1>4. IsFiniteSet(UNION P)
  <2>1. \A S \in P : IsFiniteSet(S)
    BY <1>3
  <2>. HIDE DEF P
  <2>. QED
    BY <1>2, <2>1, FS_UNION
<1>5. Points(f) = UNION P
  <2>1. P = {PointsIn(b) : b \in Blocks(f)}
    OBVIOUS
  <2>. QED
    BY <2>1 DEF Points
<1>. HIDE DEF P
<1>. QED
  BY <1>4, <1>5, FS_CardinalityType

\* w holds the instructions found in 0, 1, 2 ... steps.
IsSearch(f, l, w) ==
  /\ w[0] = UsesOf(f, l)
  /\ \A n \in 0..Cardinality(Points(f))-1 : w[n + 1] = w[n] \cup Before(f, l, w[n])

\* UsedAhead is the last step of a search backwards from the uses.
LEMMA SearchExists ==
  ASSUME NEW f, WellFormed(f), NEW l
  PROVE  \E w : IsSearch(f, l, w) /\ UsedAhead(f, l) = w[Cardinality(Points(f))]
<1> DEFINE N == Cardinality(Points(f))
           w == CHOOSE w : w = [n \in 0..N |-> IF n = 0 THEN UsesOf(f, l)
                                               ELSE w[n - 1] \cup Before(f, l, w[n - 1])]
<1>1. N \in Nat
  BY PointsFinite
<1>2. UsedAhead(f, l) = w[N]
  BY DEF UsedAhead
<1>3. \E h : h = [n \in 0..N |-> IF n = 0 THEN UsesOf(f, l)
                                 ELSE h[n - 1] \cup Before(f, l, h[n - 1])]
  <2>. HIDE DEF N
  <2>1. PICK h : Searches!Forward(f, l, {}, UsesOf(f, l), N, h)
    BY <1>1, Searches!RecursionExists
  <2>. QED
    BY <2>1 DEF Searches!Forward, BeforeOp
<1>4. w = [n \in 0..N |-> IF n = 0 THEN UsesOf(f, l) ELSE w[n - 1] \cup Before(f, l, w[n - 1])]
  BY <1>3
<1>. HIDE DEF w
<1>5. w[0] = UsesOf(f, l)
  <2>. HIDE DEF N
  <2>1. 0 \in 0..N
    BY <1>1
  <2>. QED
    BY <1>4, <2>1
<1>6. ASSUME NEW n \in 0..N-1 PROVE w[n + 1] = w[n] \cup Before(f, l, w[n])
  <2>. HIDE DEF N
  <2> DEFINE m == n + 1
  <2>1. m \in 0..N /\ m # 0 /\ m - 1 = n
    BY <1>1
  <2>. HIDE DEF m
  <2>2. w[m] = w[m - 1] \cup Before(f, l, w[m - 1])
    BY <1>4, <2>1
  <2>. QED
    BY <2>1, <2>2 DEF m
<1>7. IsSearch(f, l, w)
  BY <1>5, <1>6 DEF IsSearch
<1>. QED
  BY <1>2, <1>7

\* A search finds nothing outside a set that is closed under its steps.
LEMMA SearchFinds ==
  ASSUME NEW f, WellFormed(f), NEW l, NEW w, IsSearch(f, l, w), NEW T, UsesOf(f, l) \subseteq T,
         \A p \in Points(f) : \A q \in T : l \notin DefsAt(f, p) /\ RunsAfter(f, p, q) => p \in T
  PROVE  \A n \in 0..Cardinality(Points(f)) : w[n] \subseteq T
<1> DEFINE N == Cardinality(Points(f))
           K == {n \in Nat : n <= N => w[n] \subseteq T}
<1>1. N \in Nat
  BY PointsFinite
<1>2. 0 \in K
  BY DEF IsSearch
<1>3. ASSUME NEW n \in Nat, n \in K PROVE n + 1 \in K
  <2>. SUFFICES ASSUME n + 1 <= N PROVE w[n + 1] \subseteq T
    OBVIOUS
  <2>1. n \in 0..N-1 /\ w[n] \subseteq T
    BY <1>1, <1>3
  <2>2. w[n + 1] = w[n] \cup Before(f, l, w[n])
    BY <2>1 DEF IsSearch
  <2>3. Before(f, l, w[n]) \subseteq T
    BY <2>1 DEF Before
  <2>. QED
    BY <2>1, <2>2, <2>3
<1>. HIDE DEF K
<1>4. \A n \in Nat : n \in K
  BY <1>2, <1>3, Searches!Counting
<1>. QED
  BY <1>4 DEF K

\* As long as the search is unfinished, every step finds an instruction; so it
\* is finished after as many steps as there are instructions.
LEMMA SearchEnds ==
  ASSUME NEW f, WellFormed(f), NEW l, NEW w, IsSearch(f, l, w)
  PROVE  LET found == w[Cardinality(Points(f))]
         IN  /\ UsesOf(f, l) \subseteq found /\ found \subseteq Points(f)
             /\ Before(f, l, found) \subseteq found
<1> DEFINE P == Points(f)
           N == Cardinality(P)
           Closed(n) == Before(f, l, w[n]) \subseteq w[n]
           K == {n \in Nat : n <= N => /\ UsesOf(f, l) \subseteq w[n] /\ w[n] \subseteq P
                                       /\ Closed(n) \/ Cardinality(w[n]) >= n}
<1>1. N \in Nat /\ IsFiniteSet(P)
  BY PointsFinite
<1>2. UsesOf(f, l) \subseteq P
  BY DEF UsesOf
<1>3. 0 \in K
  <2>1. w[0] = UsesOf(f, l) /\ IsFiniteSet(w[0])
    BY <1>1, <1>2, FS_Subset DEF IsSearch
  <2>2. Cardinality(w[0]) >= 0
    BY <2>1, FS_CardinalityType
  <2>. QED
    BY <1>2, <2>1, <2>2
<1>4. ASSUME NEW n \in Nat, n \in K PROVE n + 1 \in K
  <2>. SUFFICES ASSUME n + 1 <= N
                PROVE  /\ UsesOf(f, l) \subseteq w[n + 1] /\ w[n + 1] \subseteq P
                       /\ Closed(n + 1) \/ Cardinality(w[n + 1]) >= n + 1
    OBVIOUS
  <2>1. n \in 0..N-1 /\ UsesOf(f, l) \subseteq w[n] /\ w[n] \subseteq P
    BY <1>1, <1>4
  <2>2. w[n + 1] = w[n] \cup Before(f, l, w[n])
    BY <2>1 DEF IsSearch
  <2>3. Before(f, l, w[n]) \subseteq P
    BY DEF Before
  <2>4. CASE Closed(n)
    <3>1. w[n + 1] = w[n]
      BY <2>2, <2>4
    <3>. QED
      BY <2>1, <2>4, <3>1
  <2>5. CASE ~Closed(n)
    <3>1. Cardinality(w[n]) >= n
      BY <1>1, <1>4, <2>1, <2>5
    <3>2. PICK p : p \in w[n + 1] /\ p \notin w[n]
      BY <2>2, <2>5
    <3> DEFINE A == w[n]
               B == w[n + 1]
    <3>3. IsFiniteSet(B) /\ IsFiniteSet(A)
      BY <1>1, <2>1, <2>2, <2>3, FS_Subset
    <3>4. A \cup {p} \in SUBSET B
      BY <2>2, <3>2
    <3>5. p \notin A /\ Cardinality(A) >= n
      BY <3>1, <3>2
    <3>. HIDE DEF A, B
    <3>6. Cardinality(A \cup {p}) = Cardinality(A) + 1 /\ Cardinality(A) \in Nat
      BY <3>3, <3>5, FS_AddElement, FS_CardinalityType
    <3>7. Cardinality(A \cup {p}) <= Cardinality(B) /\ Cardinality(B) \in Nat
      BY <3>3, <3>4, FS_Subset, FS_CardinalityType
    <3>8. Cardinality(B) >= n + 1
      BY <3>5, <3>6, <3>7
    <3>. QED
      BY <2>1, <2>2, <2>3, <3>8 DEF B
  <2>. QED
    BY <2>4, <2>5
<1>. HIDE DEF K
<1>5. \A n \in Nat : n \in K
  BY <1>3, <1>4, Searches!Counting
<1>6. UsesOf(f, l) \subseteq w[N] /\ w[N] \subseteq P /\ (Closed(N) \/ Cardinality(w[N]) >= N)
  BY <1>1, <1>5 DEF K
<1>7. CASE Cardinality(w[N]) >= N
  <2> DEFINE W == w[N]
  <2>1. W \in SUBSET P
    BY <1>6
  <2>2. Cardinality(W) >= N
    BY <1>7
  <2>. HIDE DEF W
  <2>3. Cardinality(W) <= N /\ Cardinality(W) \in Nat
    BY <1>1, <2>1, FS_Subset, FS_CardinalityType
  <2>4. Cardinality(W) = Cardinality(P)
    BY <1>1, <2>2, <2>3
  <2>5. W = P
    BY <1>1, <2>1, <2>4, FS_Subset
  <2>6. Before(f, l, w[N]) \subseteq P
    BY DEF Before
  <2>. QED
    BY <1>6, <2>5, <2>6 DEF W
<1>. QED
  BY <1>6, <1>7

\* A local is used ahead of an instruction that uses it, and of one that does not
\* define it and that may run right before one it is used ahead of.
LEMMA UsedAheadClosed ==
  ASSUME NEW f, WellFormed(f), NEW l
  PROVE  /\ UsesOf(f, l) \subseteq UsedAhead(f, l)
         /\ UsedAhead(f, l) \subseteq Points(f)
         /\ Before(f, l, UsedAhead(f, l)) \subseteq UsedAhead(f, l)
<1>1. PICK w : IsSearch(f, l, w) /\ UsedAhead(f, l) = w[Cardinality(Points(f))]
  BY SearchExists
<1>. QED
  BY <1>1, SearchEnds

\* And it is used ahead of no others.
LEMMA UsedAheadLeast ==
  ASSUME NEW f, WellFormed(f), NEW l, NEW T, UsesOf(f, l) \subseteq T,
         \A p \in Points(f) : \A q \in T : l \notin DefsAt(f, p) /\ RunsAfter(f, p, q) => p \in T
  PROVE  UsedAhead(f, l) \subseteq T
<1>1. PICK w : IsSearch(f, l, w) /\ UsedAhead(f, l) = w[Cardinality(Points(f))]
  BY SearchExists
<1>2. Cardinality(Points(f)) \in 0..Cardinality(Points(f))
  BY PointsFinite
<1>. QED
  BY <1>1, <1>2, SearchFinds

(***************************************************************************)
(* The inductive invariant.                                                *)
(***************************************************************************)
\* The state has the shape that compute_liveness gives it.
LivenessType ==
  /\ function \in Functions
  /\ next_block \in 1..Len(function.blocks) + 1
  /\ DOMAIN live_in = Blocks(function) /\ live_in = [b \in DOMAIN live_in |-> live_in[b]]
  /\ DOMAIN live_out = Blocks(function) /\ live_out = [b \in DOMAIN live_out |-> live_out[b]]
  /\ DOMAIN live_before = Blocks(function)
  /\ live_before = [b \in DOMAIN live_before |-> live_before[b]]

\* A block not visited yet has nothing; another has the transfer of what it last
\* saw live after it.
Transferred(b) ==
  live_before[b] = per_stmt(function, b, live_out[b]) /\ live_in[b] = live_before[b][1]
BlocksTransferred ==
  \A b \in Blocks(function) : (live_before[b] = << >> /\ live_in[b] = {}) \/ Transferred(b)

\* As long as a sweep has changed nothing, the blocks it has visited are solved
\* against their successors as these are.
SweepInv ==
  /\ ~changed => \A b \in Blocks(function) :
                   b < next_block => Transferred(b) /\ live_out[b] = new_out(b)
  /\ finished => ~changed /\ next_block = Len(function.blocks) + 1

\* A local that is live is used ahead.
LiveInv ==
  \A b \in Blocks(function) :
    Transferred(b) =>
      \A i \in 1..InstrCount(function, b) : \A l \in live_before[b][i] :
        <<b, i>> \in UsedAhead(function, l)

LivenessInv == LivenessType /\ BlocksTransferred /\ SweepInv /\ LiveInv

\* An edge leads to a block.
LEMMA SuccessorIsBlock ==
  ASSUME NEW f, WellFormed(f), NEW b \in Blocks(f), NEW s \in successors(f, b)
  PROVE  s \in Blocks(f)
<1> DEFINE edges == successor_edges(f, b)
<1>1. IsSequence(edges) /\ \A i \in 1..Len(edges) : edges[i].to \in Blocks(f)
  BY DEF WellFormed, EdgesBind, IsTerminator, successor_edges
<1>2. PICK e \in ToSet(edges) : s = e.to
  BY DEF successors
<1>. HIDE DEF edges
<1>3. PICK i \in 1..Len(edges) : e = edges[i]
  BY <1>1, <1>2 DEF IsSequence, ToSet
<1>. QED
  BY <1>1, <1>2, <1>3

\* What one transfer finds live is used ahead, if what is live after the block is.
LEMMA TransferSound ==
  ASSUME NEW f, WellFormed(f), NEW b \in Blocks(f), NEW out,
         \A l \in out : \E s \in successors(f, b) : <<s, 1>> \in UsedAhead(f, l)
  PROVE  \A i \in 1..InstrCount(f, b) : \A l \in per_stmt(f, b, out)[i] :
           <<b, i>> \in UsedAhead(f, l)
<1> DEFINE n == InstrCount(f, b)
           live == per_stmt(f, b, out)
           Sound(i) == \A l \in live[i] : <<b, i>> \in UsedAhead(f, l)
           K == {k \in Nat : \A i \in 1..n : n - i = k => Sound(i)}
<1>1. n \in Nat
  BY InstructionsCounted
<1>2. \A i \in 1..n : live[i] = live_before_instr(f, b, i, IF i = n THEN out ELSE live[i + 1])
  BY BlockTransfer
<1>3. ASSUME NEW i \in 1..n, NEW l, l \in live[i],
             i = n \/ Sound(i + 1)
      PROVE  <<b, i>> \in UsedAhead(f, l)
  <2>1. <<b, i>> \in Points(f) /\ l \notin DefsAt(f, <<b, i>>)
        /\ (l \in UsesAt(f, <<b, i>>) \/ l \in IF i = n THEN out ELSE live[i + 1])
    BY <1>2, <1>3, PointIsPair DEF live_before_instr, DefsAt, UsesAt
  <2>2. CASE l \in UsesAt(f, <<b, i>>)
    BY <2>1, <2>2, UsedAheadClosed DEF UsesOf
  <2>3. CASE i = n /\ l \in out
    <3>1. PICK s \in successors(f, b) : <<s, 1>> \in UsedAhead(f, l)
      BY <2>3
    <3>2. RunsAfter(f, <<b, i>>, <<s, 1>>)
      BY <2>3 DEF RunsAfter
    <3>3. <<b, i>> \in Before(f, l, UsedAhead(f, l))
      BY <2>1, <3>1, <3>2 DEF Before
    <3>. QED
      BY <3>3, UsedAheadClosed
  <2>4. CASE i # n /\ l \in live[i + 1]
    <3>1. <<b, i + 1>> \in UsedAhead(f, l)
      BY <1>3, <2>4
    <3>2. RunsAfter(f, <<b, i>>, <<b, i + 1>>)
      BY DEF RunsAfter
    <3>3. <<b, i>> \in Before(f, l, UsedAhead(f, l))
      BY <2>1, <3>1, <3>2 DEF Before
    <3>. QED
      BY <3>3, UsedAheadClosed
  <2>. QED
    BY <2>1, <2>2, <2>3, <2>4
<1>. HIDE DEF n, live
<1>4. 0 \in K
  <2>1. \A i \in 1..n : n - i = 0 => i = n
    BY <1>1
  <2>. QED
    BY <1>3, <2>1
<1>5. ASSUME NEW k \in Nat, k \in K PROVE k + 1 \in K
  <2>. SUFFICES ASSUME NEW i \in 1..n, n - i = k + 1 PROVE Sound(i)
    OBVIOUS
  <2>1. i + 1 \in 1..n /\ n - (i + 1) = k
    BY <1>1
  <2>2. Sound(i + 1)
    BY <1>5, <2>1
  <2>. QED
    BY <1>3, <2>2
<1>. HIDE DEF K
<1>6. \A k \in Nat : k \in K
  BY <1>4, <1>5, Transfers!Counting
<1>7. ASSUME NEW i \in 1..n PROVE Sound(i)
  <2>1. n - i \in Nat
    BY <1>1
  <2>. QED
    BY <1>6, <2>1 DEF K
<1>. QED
  BY <1>7 DEF n, live

\* What is live after b, where in has what is live at the entry of every block.
out_of(f, in, b) == UNION {in[s] : s \in successors(f, b)}

\* in solves the liveness equations.
Solution(f, in) == \A b \in Blocks(f) : in[b] = per_stmt(f, b, out_of(f, in, b))[1]

\* Every solution has whatever is used ahead.
LEMMA SolutionComplete ==
  ASSUME NEW f, WellFormed(f), NEW in, Solution(f, in), NEW l
  PROVE  \A p \in UsedAhead(f, l) : l \in per_stmt(f, p[1], out_of(f, in, p[1]))[p[2]]
<1> DEFINE live(b) == per_stmt(f, b, out_of(f, in, b))
           T == {p \in Points(f) : l \in live(p[1])[p[2]]}
           after(b, i) == IF i = InstrCount(f, b) THEN out_of(f, in, b) ELSE live(b)[i + 1]
<1>1. ASSUME NEW b \in Blocks(f), NEW i \in 1..InstrCount(f, b)
      PROVE  live(b)[i] = live_before_instr(f, b, i, after(b, i))
  BY BlockTransfer
<1>2. \A b \in Blocks(f) : in[b] = live(b)[1]
  BY DEF Solution
<1>. HIDE DEF live
<1>3. UsesOf(f, l) \subseteq T
  <2>. SUFFICES ASSUME NEW p \in UsesOf(f, l) PROVE p \in T
    OBVIOUS
  <2> DEFINE b == p[1]
             i == p[2]
  <2>1. b \in Blocks(f) /\ i \in 1..InstrCount(f, b) /\ p = <<b, i>>
    BY PointIsPair DEF UsesOf
  <2>. QED
    BY <1>1, <2>1 DEF UsesOf, UsesAt, DefsAt, live_before_instr
<1>4. ASSUME NEW p \in Points(f), NEW q \in T, l \notin DefsAt(f, p), RunsAfter(f, p, q)
      PROVE  p \in T
  <2> DEFINE b == p[1]
             i == p[2]
             c == q[1]
             j == q[2]
  <2>1. b \in Blocks(f) /\ i \in 1..InstrCount(f, b) /\ p = <<b, i>>
    BY PointIsPair
  <2>2. c \in Blocks(f) /\ j \in 1..InstrCount(f, c) /\ q = <<c, j>>
    BY PointIsPair
  <2>3. l \in live(c)[j]
    BY <2>2
  <2>4. InstrCount(f, b) \in Nat
    BY <2>1, InstructionsCounted
  <2>5. l \in after(b, i)
    <3>1. CASE c = b /\ j = i + 1
      BY <2>2, <2>3, <2>4, <3>1
    <3>2. CASE i = InstrCount(f, b) /\ c \in successors(f, b) /\ j = 1
      <4>1. in[c] = live(c)[j] /\ after(b, i) = out_of(f, in, b)
        BY <1>2, <2>2, <3>2
      <4>. HIDE DEF b, c, i, j, after
      <4>. QED
        BY <2>3, <3>2, <4>1 DEF out_of
    <3>. QED
      BY <1>4, <2>1, <2>2, <3>1, <3>2 DEF RunsAfter
  <2>. QED
    BY <1>1, <1>4, <2>1, <2>5 DEF live_before_instr, DefsAt
<1>. HIDE DEF T
<1>5. UsedAhead(f, l) \subseteq T
  BY <1>3, <1>4, UsedAheadLeast
<1>. QED
  BY <1>5 DEF T, live

\* The sweeps end with a solution.
LEMMA SweepsSolve ==
  ASSUME LivenessInv, finished
  PROVE  /\ WellFormed(function) /\ Solution(function, live_in)
         /\ \A b \in Blocks(function) :
              /\ Transferred(b) /\ live_out[b] = out_of(function, live_in, b)
              /\ live_before[b] = per_stmt(function, b, out_of(function, live_in, b))
<1>1. WellFormed(function)
  BY FunctionsAssumption DEF LivenessInv, LivenessType
<1>2. Blocks(function) = 1..Len(function.blocks) /\ Len(function.blocks) \in Nat
  BY <1>1 DEF WellFormed, EdgesBind, IsSequence, Blocks
<1>3. \A b \in Blocks(function) : Transferred(b) /\ live_out[b] = new_out(b)
  BY <1>2 DEF LivenessInv, SweepInv
<1>4. \A b : new_out(b) = out_of(function, live_in, b)
  BY DEF new_out, out_of
<1>. QED
  BY <1>1, <1>3, <1>4 DEF Solution, Transferred

\* So a local is live before an instruction exactly where it is used ahead.
LEMMA LiveIsAhead ==
  ASSUME LivenessInv, finished, NEW l
  PROVE  UsedAhead(function, l) = {p \in Points(function) : l \in live_before[p[1]][p[2]]}
<1>1. ASSUME NEW p \in Points(function), l \in live_before[p[1]][p[2]]
      PROVE  p \in UsedAhead(function, l)
  <2>1. p[1] \in Blocks(function) /\ p[2] \in 1..InstrCount(function, p[1]) /\ p = <<p[1], p[2]>>
    BY PointIsPair
  <2>. QED
    BY <1>1, <2>1, SweepsSolve DEF LivenessInv, LiveInv
<1>2. ASSUME NEW p \in UsedAhead(function, l)
      PROVE  p \in Points(function) /\ l \in live_before[p[1]][p[2]]
  <2>1. p \in Points(function) /\ p[1] \in Blocks(function)
    BY SweepsSolve, UsedAheadClosed, PointIsPair
  <2>. QED
    BY <2>1, SweepsSolve, SolutionComplete
<1>. QED
  BY <1>1, <1>2

(***************************************************************************)
(* Every state has it.                                                     *)
(***************************************************************************)
LEMMA InitLiveness == Init => LivenessInv
<1>. SUFFICES ASSUME Init PROVE LivenessInv
  OBVIOUS
<1>1. WellFormed(function)
  BY FunctionsAssumption DEF Init
<1>2. Blocks(function) = 1..Len(function.blocks) /\ Len(function.blocks) \in Nat
  BY <1>1 DEF WellFormed, EdgesBind, IsSequence, Blocks
<1>3. LivenessType
  BY <1>2 DEF Init, LivenessType
<1>4. \A b \in Blocks(function) : live_before[b] = << >> /\ live_in[b] = {}
  BY DEF Init
<1>5. ASSUME NEW b \in Blocks(function) PROVE ~Transferred(b)
  <2>1. 1 \in DOMAIN per_stmt(function, b, live_out[b])
    BY <1>1, BlockTransfer, InstructionsCounted
  <2>. QED
    BY <1>4, <2>1 DEF Transferred
<1>6. SweepInv
  BY <1>2 DEF Init, SweepInv
<1>. QED
  BY <1>3, <1>4, <1>5, <1>6 DEF LivenessInv, BlocksTransferred, LiveInv

\* A visit transfers one block, and leaves the others as they are.
LEMMA VisitKeeps ==
  ASSUME LivenessInv, VisitBlock
  PROVE  LivenessInv'
<1>. SUFFICES ASSUME NEW f, f = function, NEW v, v = next_block
              PROVE  LivenessInv'
  OBVIOUS
<1> DEFINE before == per_stmt(f, v, new_out(v))
<1>1. WellFormed(f)
  BY FunctionsAssumption DEF LivenessInv, LivenessType
<1>2. Blocks(f) = 1..Len(f.blocks) /\ Len(f.blocks) \in Nat /\ v \in Blocks(f) /\ function' = f
  BY <1>1 DEF WellFormed, EdgesBind, IsSequence, Blocks, VisitBlock
<1>3. /\ live_out' = [live_out EXCEPT ![v] = new_out(v)]
      /\ live_before' = [live_before EXCEPT ![v] = before]
      /\ live_in' = [live_in EXCEPT ![v] = before[1]]
      /\ changed' = (changed \/ live_out'[v] # live_out[v] \/ before # live_before[v])
      /\ next_block' = v + 1 /\ ~finished /\ finished' = finished
  BY DEF VisitBlock
<1>. HIDE DEF before
<1>4. /\ live_out'[v] = new_out(v) /\ live_before'[v] = before /\ live_in'[v] = before[1]
      /\ \A b \in Blocks(f) \ {v} : /\ live_out'[b] = live_out[b] /\ live_in'[b] = live_in[b]
                                    /\ live_before'[b] = live_before[b]
  BY <1>2, <1>3 DEF LivenessInv, LivenessType
<1>5. LivenessType'
  <2>1. function' \in Functions /\ next_block' \in 1..Len(function'.blocks) + 1
    BY <1>2, <1>3 DEF LivenessInv, LivenessType
  <2>2. /\ DOMAIN live_in' = Blocks(f) /\ live_in' = [b \in DOMAIN live_in' |-> live_in'[b]]
        /\ DOMAIN live_out' = Blocks(f) /\ live_out' = [b \in DOMAIN live_out' |-> live_out'[b]]
        /\ DOMAIN live_before' = Blocks(f)
        /\ live_before' = [b \in DOMAIN live_before' |-> live_before'[b]]
    BY <1>3 DEF LivenessInv, LivenessType
  <2>. QED
    BY <1>2, <2>1, <2>2 DEF LivenessType
<1>6. Transferred(v)' /\ \A b \in Blocks(f) \ {v} : Transferred(b)' = Transferred(b)
  BY <1>2, <1>4 DEF Transferred, before
<1>7. BlocksTransferred'
  BY <1>2, <1>4, <1>6 DEF LivenessInv, BlocksTransferred
<1>8. 1 \in DOMAIN before /\ 1 \in 1..InstrCount(f, v)
  BY <1>1, <1>2, BlockTransfer, InstructionsCounted DEF before
<1>9. SweepInv'
  <2>. SUFFICES ASSUME ~changed', NEW b \in Blocks(f), b < v + 1
                PROVE  Transferred(b)' /\ live_out'[b] = new_out(b)'
    BY <1>2, <1>3 DEF SweepInv
  <2>1. ~changed /\ live_out[v] = new_out(v) /\ before = live_before[v]
    BY <1>3, <1>4
  <2>2. live_in[v] = before[1]
    <3>1. live_before[v] # << >>
      BY <1>8, <2>1
    <3>. QED
      BY <1>2, <2>1, <3>1 DEF LivenessInv, BlocksTransferred, Transferred
  <2>3. live_in' = live_in /\ live_out' = live_out
    BY <1>2, <1>3, <2>1, <2>2 DEF LivenessInv, LivenessType
  <2>4. new_out(b)' = new_out(b)
    BY <1>2, <2>3 DEF new_out
  <2>5. CASE b = v
    BY <1>4, <1>6, <2>4, <2>5
  <2>6. CASE b # v
    <3>1. b < v
      BY <1>2, <2>6
    <3>. QED
      BY <1>4, <1>6, <2>1, <2>4, <2>6, <3>1 DEF LivenessInv, SweepInv
  <2>. QED
    BY <2>5, <2>6
<1>10. LiveInv'
  <2>1. ASSUME NEW l \in new_out(v)
        PROVE  \E s \in successors(f, v) : <<s, 1>> \in UsedAhead(f, l)
    <3>1. PICK s \in successors(f, v) : l \in live_in[s]
      BY DEF new_out
    <3>2. s \in Blocks(f)
      BY <1>1, <1>2, SuccessorIsBlock
    <3>3. Transferred(s)
      BY <3>1, <3>2 DEF LivenessInv, BlocksTransferred
    <3>4. 1 \in 1..InstrCount(f, s)
      BY <1>1, <3>2, InstructionsCounted
    <3>. QED
      BY <3>1, <3>2, <3>3, <3>4 DEF LivenessInv, LiveInv, Transferred
  <2>2. \A i \in 1..InstrCount(f, v) : \A l \in before[i] : <<v, i>> \in UsedAhead(f, l)
    BY <1>1, <1>2, <2>1, TransferSound DEF before
  <2>3. ASSUME NEW b \in Blocks(f), Transferred(b)',
               NEW i \in 1..InstrCount(f, b), NEW l \in live_before'[b][i]
        PROVE  <<b, i>> \in UsedAhead(f, l)
    <3>1. CASE b = v
      BY <1>4, <2>2, <2>3, <3>1
    <3>2. CASE b # v
      BY <1>4, <1>6, <2>3, <3>2 DEF LivenessInv, LiveInv
    <3>. QED
      BY <3>1, <3>2
  <2>. QED
    BY <1>2, <2>3 DEF LiveInv
<1>. QED
  BY <1>5, <1>7, <1>9, <1>10 DEF LivenessInv

\* A new sweep has visited no block; an end needs a sweep that changed nothing.
LEMMA StepKeepsLiveness ==
  ASSUME LivenessInv, [Next]_vars
  PROVE  LivenessInv'
<1>1. ASSUME SweepAgain PROVE LivenessInv'
  <2>1. WellFormed(function)
    BY FunctionsAssumption DEF LivenessInv, LivenessType
  <2>2. Blocks(function) = 1..Len(function.blocks) /\ Len(function.blocks) \in Nat
    BY <2>1 DEF WellFormed, EdgesBind, IsSequence, Blocks
  <2>. QED
    BY <1>1, <2>2 DEF SweepAgain, LivenessInv, LivenessType, BlocksTransferred, Transferred, SweepInv, LiveInv
<1>2. ASSUME Finish PROVE LivenessInv'
  BY <1>2 DEF Finish, LivenessInv, LivenessType, BlocksTransferred, Transferred, SweepInv, LiveInv, new_out
<1>3. ASSUME UNCHANGED vars PROVE LivenessInv'
  BY <1>3 DEF vars, LivenessInv, LivenessType, BlocksTransferred, Transferred, SweepInv, LiveInv, new_out
<1>. QED
  BY <1>1, <1>2, <1>3, VisitKeeps DEF Next, Terminated

\* At the end of compute_liveness a local is live before an instruction exactly
\* where some path leads to a use of it that no definition comes before
\* (liveness.rs:124-163), in every function and whatever the order of its blocks.
THEOREM LivenessCorrect == Spec => []LiveIsUsedAhead
<1>1. LivenessInv => LiveIsUsedAhead
  BY LiveIsAhead DEF LiveIsUsedAhead
<1>. QED
  BY InitLiveness, StepKeepsLiveness, <1>1, PTL DEF Spec

(***************************************************************************)
(* The sweeps compute compute_liveness, the value BorrowCheck starts from: *)
(* its number of rounds, one per block and one more, is enough.            *)
(***************************************************************************)
\* More live after a block is more live in it, for every local by itself.
LEMMA TransferMonotone ==
  ASSUME NEW f, WellFormed(f), NEW b \in Blocks(f), NEW out, NEW more, NEW l,
         l \in out => l \in more
  PROVE  \A i \in 1..InstrCount(f, b) : l \in per_stmt(f, b, out)[i] => l \in per_stmt(f, b, more)[i]
<1> DEFINE n == InstrCount(f, b)
           few == per_stmt(f, b, out)
           many == per_stmt(f, b, more)
           Keeps(i) == l \in few[i] => l \in many[i]
           K == {k \in Nat : \A i \in 1..n : n - i = k => Keeps(i)}
<1>1. n \in Nat
  BY InstructionsCounted
<1>2. \A i \in 1..n : /\ few[i] = live_before_instr(f, b, i, IF i = n THEN out ELSE few[i + 1])
                      /\ many[i] = live_before_instr(f, b, i, IF i = n THEN more ELSE many[i + 1])
  BY BlockTransfer
<1>. HIDE DEF n, few, many
<1>3. ASSUME NEW i \in 1..n, i = n \/ Keeps(i + 1) PROVE Keeps(i)
  BY <1>2, <1>3 DEF live_before_instr
<1>4. 0 \in K
  <2>1. \A i \in 1..n : n - i = 0 => i = n
    BY <1>1
  <2>. QED
    BY <1>3, <2>1
<1>5. ASSUME NEW k \in Nat, k \in K PROVE k + 1 \in K
  <2>. SUFFICES ASSUME NEW i \in 1..n, n - i = k + 1 PROVE Keeps(i)
    OBVIOUS
  <2>1. i + 1 \in 1..n /\ n - (i + 1) = k
    BY <1>1
  <2>2. Keeps(i + 1)
    BY <1>5, <2>1
  <2>. QED
    BY <1>3, <2>2
<1>. HIDE DEF K
<1>6. \A k \in Nat : k \in K
  BY <1>4, <1>5, Transfers!Counting
<1>7. ASSUME NEW i \in 1..n PROVE Keeps(i)
  <2>1. n - i \in Nat
    BY <1>1
  <2>. QED
    BY <1>6, <2>1 DEF K
<1>. QED
  BY <1>7 DEF n, few, many

\* The liveness at block entry after one round more than in.
RoundOp(f, unused, unused2, in, n) == [b \in Blocks(f) |-> per_stmt(f, b, out_of(f, in, b))[1]]
Rounds == INSTANCE FoldFacts WITH Op <- RoundOp

IsRounds(f, round) ==
  /\ round[0] = [b \in Blocks(f) |-> {}]
  /\ \A n \in 0..Len(f.blocks) : \A b \in Blocks(f) :
       round[n + 1][b] = per_stmt(f, b, out_of(f, round[n], b))[1]

\* The liveness compute_liveness returns is that of the last of the rounds
\* (liveness.rs:128-159).
LEMMA RoundsExist ==
  ASSUME NEW f, WellFormed(f)
  PROVE  \E round : IsRounds(f, round) /\ live_in_after(f) = round[Len(f.blocks) + 1]
<1> DEFINE N == Len(f.blocks) + 1
           none == [b \in Blocks(f) |-> {}]
           next(in) == [b \in Blocks(f) |-> per_stmt(f, b, out_of(f, in, b))[1]]
           r == CHOOSE r : r = [n \in 0..N |-> IF n = 0 THEN none ELSE next(r[n - 1])]
<1>1. N \in Nat /\ N - 1 = Len(f.blocks) /\ Len(f.blocks) \in Nat
  BY DEF WellFormed, EdgesBind, IsSequence
<1>2. live_in_after(f) = r[N]
  BY DEF live_in_after, out_of
<1>3. \E h : h = [n \in 0..N |-> IF n = 0 THEN none ELSE next(h[n - 1])]
  <2>. HIDE DEF N, none
  <2>1. PICK h : Rounds!Forward(f, {}, {}, none, N, h)
    BY <1>1, Rounds!RecursionExists
  <2>. QED
    BY <2>1 DEF Rounds!Forward, RoundOp
<1>4. r = [n \in 0..N |-> IF n = 0 THEN none ELSE next(r[n - 1])]
  BY <1>3
<1>. HIDE DEF r, next
<1>5. r[0] = none
  <2>. HIDE DEF N, none
  <2>1. 0 \in 0..N
    BY <1>1
  <2>. QED
    BY <1>4, <2>1
<1>6. ASSUME NEW n \in 0..Len(f.blocks), NEW b \in Blocks(f)
      PROVE  r[n + 1][b] = per_stmt(f, b, out_of(f, r[n], b))[1]
  <2> DEFINE m == n + 1
  <2>1. m \in 0..N /\ m # 0 /\ m - 1 = n
    BY <1>1
  <2>. HIDE DEF m, N, none
  <2>2. r[m] = next(r[m - 1])
    BY <1>4, <2>1
  <2>. QED
    BY <2>1, <2>2 DEF m, next
<1>7. IsRounds(f, r)
  BY <1>5, <1>6 DEF IsRounds
<1>. QED
  BY <1>2, <1>7

\* What a round finds live is used ahead.
LEMMA RoundsSound ==
  ASSUME NEW f, WellFormed(f), NEW round, IsRounds(f, round)
  PROVE  \A n \in 0..Len(f.blocks) + 1 : \A b \in Blocks(f) : \A l \in round[n][b] :
           <<b, 1>> \in UsedAhead(f, l)
<1> DEFINE Sound(n) == \A b \in Blocks(f) : \A l \in round[n][b] : <<b, 1>> \in UsedAhead(f, l)
           K == {n \in Nat : n <= Len(f.blocks) + 1 => Sound(n)}
<1>1. Len(f.blocks) \in Nat
  BY DEF WellFormed, EdgesBind, IsSequence
<1>2. 0 \in K
  BY DEF IsRounds
<1>3. ASSUME NEW n \in Nat, n \in K PROVE n + 1 \in K
  <2>. SUFFICES ASSUME n + 1 <= Len(f.blocks) + 1, NEW b \in Blocks(f), NEW l \in round[n + 1][b]
                PROVE  <<b, 1>> \in UsedAhead(f, l)
    OBVIOUS
  <2>1. n \in 0..Len(f.blocks) /\ Sound(n)
    BY <1>1, <1>3
  <2>2. round[n + 1][b] = per_stmt(f, b, out_of(f, round[n], b))[1]
    BY <2>1 DEF IsRounds
  <2>3. \A k \in out_of(f, round[n], b) : \E s \in successors(f, b) : <<s, 1>> \in UsedAhead(f, k)
    BY <2>1, SuccessorIsBlock DEF out_of
  <2>4. 1 \in 1..InstrCount(f, b)
    BY InstructionsCounted
  <2>5. \A i \in 1..InstrCount(f, b) : \A k \in per_stmt(f, b, out_of(f, round[n], b))[i] :
          <<b, i>> \in UsedAhead(f, k)
    BY <2>3, TransferSound
  <2>. QED
    BY <2>2, <2>4, <2>5
<1>. HIDE DEF K
<1>4. \A n \in Nat : n \in K
  BY <1>2, <1>3, Rounds!Counting
<1>5. ASSUME NEW n \in 0..Len(f.blocks) + 1 PROVE Sound(n)
  <2>1. n \in Nat /\ n <= Len(f.blocks) + 1
    BY <1>1
  <2>. QED
    BY <1>4, <2>1 DEF K
<1>. QED
  BY <1>5

\* The blocks at whose entry l is live after n rounds.
LiveAfter(f, round, l, n) == {b \in Blocks(f) : l \in round[n][b]}

\* From them alone follow those of the next round, the more the more they are.
LEMMA RoundMonotone ==
  ASSUME NEW f, WellFormed(f), NEW round, IsRounds(f, round), NEW l,
         NEW n \in 0..Len(f.blocks), NEW m \in 0..Len(f.blocks),
         LiveAfter(f, round, l, n) \subseteq LiveAfter(f, round, l, m)
  PROVE  LiveAfter(f, round, l, n + 1) \subseteq LiveAfter(f, round, l, m + 1)
<1>. SUFFICES ASSUME NEW b \in Blocks(f), l \in round[n + 1][b] PROVE l \in round[m + 1][b]
  BY DEF LiveAfter
<1>1. l \in out_of(f, round[n], b) => l \in out_of(f, round[m], b)
  <2>. SUFFICES ASSUME NEW s \in successors(f, b), l \in round[n][s] PROVE l \in round[m][s]
    BY DEF out_of
  <2>. QED
    BY SuccessorIsBlock DEF LiveAfter
<1>2. /\ round[n + 1][b] = per_stmt(f, b, out_of(f, round[n], b))[1]
      /\ round[m + 1][b] = per_stmt(f, b, out_of(f, round[m], b))[1]
  BY DEF IsRounds
<1>3. 1 \in 1..InstrCount(f, b)
  BY InstructionsCounted
<1>. QED
  BY <1>1, <1>2, <1>3, TransferMonotone

\* As long as the rounds go on for a local, each finds a block, so the last round
\* finds none.
LEMMA RoundsEnd ==
  ASSUME NEW f, WellFormed(f), NEW round, IsRounds(f, round), NEW l
  PROVE  LiveAfter(f, round, l, Len(f.blocks) + 1) = LiveAfter(f, round, l, Len(f.blocks))
<1> DEFINE N == Len(f.blocks)
           S(n) == LiveAfter(f, round, l, n)
           K == {n \in Nat : n <= N => S(n) \subseteq S(n + 1) /\ (S(n + 1) = S(n) \/ Cardinality(S(n)) >= n)}
<1>1. N \in Nat /\ Blocks(f) = 1..N /\ IsFiniteSet(Blocks(f)) /\ Cardinality(Blocks(f)) = N
  <2>1. N \in Nat /\ Blocks(f) = 1..N
    BY DEF WellFormed, EdgesBind, IsSequence, Blocks
  <2>. HIDE DEF N
  <2>2. IsFiniteSet(1..N) /\ Cardinality(1..N) = N
    BY <2>1, FS_Interval
  <2>. QED
    BY <2>1, <2>2
<1>2. \A n : S(n) \subseteq Blocks(f) /\ IsFiniteSet(S(n)) /\ Cardinality(S(n)) \in Nat
  <2>1. \A n : S(n) \in SUBSET Blocks(f)
    BY DEF LiveAfter
  <2>. HIDE DEF S
  <2>. QED
    BY <1>1, <2>1, FS_Subset, FS_CardinalityType
<1>3. 0 \in K
  <2>1. S(0) = {}
    BY DEF IsRounds, LiveAfter
  <2>. HIDE DEF S
  <2>. QED
    BY <1>2, <2>1
<1>4. ASSUME NEW n \in Nat, n \in K PROVE n + 1 \in K
  <2>. SUFFICES ASSUME n + 1 <= N
                PROVE  /\ S(n + 1) \subseteq S(n + 1 + 1)
                       /\ S(n + 1 + 1) = S(n + 1) \/ Cardinality(S(n + 1)) >= n + 1
    OBVIOUS
  <2> DEFINE m == n + 1
  <2>1. n \in 0..N /\ m \in 0..N
    BY <1>1
  <2>2. S(n) \subseteq S(m) /\ (S(m) = S(n) \/ Cardinality(S(n)) >= n)
    BY <1>4, <2>1
  <2>3. S(m) \subseteq S(m + 1)
    <3>. HIDE DEF m
    <3>1. LiveAfter(f, round, l, n + 1) \subseteq LiveAfter(f, round, l, m + 1)
      BY <2>1, <2>2, RoundMonotone
    <3>. QED
      BY <3>1 DEF m
  <2>4. CASE S(m) = S(n)
    <3>. HIDE DEF m
    <3>1. LiveAfter(f, round, l, m + 1) \subseteq LiveAfter(f, round, l, n + 1)
      BY <2>1, <2>4, RoundMonotone
    <3>2. S(m + 1) \subseteq S(n + 1)
      BY <3>1
    <3>. QED
      BY <2>3, <3>2 DEF m
  <2>5. CASE S(m) # S(n) /\ Cardinality(S(n)) >= n
    <3>1. PICK x : x \in S(m) /\ x \notin S(n)
      BY <2>2, <2>5
    <3> DEFINE A == S(n)
               B == S(m)
    <3>2. A \cup {x} \in SUBSET B /\ IsFiniteSet(A) /\ IsFiniteSet(B) /\ x \notin A
          /\ Cardinality(A) \in Nat /\ Cardinality(B) \in Nat /\ Cardinality(A) >= n
      BY <1>2, <2>2, <2>5, <3>1
    <3>. HIDE DEF A, B
    <3>3. Cardinality(A \cup {x}) = Cardinality(A) + 1
      BY <3>2, FS_AddElement
    <3>4. Cardinality(A \cup {x}) <= Cardinality(B)
      BY <3>2, FS_Subset
    <3>5. Cardinality(B) >= n + 1
      BY <3>2, <3>3, <3>4
    <3>. QED
      BY <2>3, <3>5 DEF B
  <2>. QED
    BY <2>2, <2>3, <2>4, <2>5
<1>. HIDE DEF K, S
<1>5. \A n \in Nat : n \in K
  BY <1>3, <1>4, Rounds!Counting
<1>6. S(N) \subseteq S(N + 1) /\ (S(N + 1) = S(N) \/ Cardinality(S(N)) >= N)
  BY <1>1, <1>5 DEF K
<1>7. CASE Cardinality(S(N)) >= N
  <2> DEFINE W == S(N)
  <2>1. W \in SUBSET Blocks(f) /\ Cardinality(W) >= N /\ Cardinality(W) \in Nat
    BY <1>2, <1>7
  <2>. HIDE DEF W
  <2>2. Cardinality(W) <= Cardinality(Blocks(f))
    BY <1>1, <2>1, FS_Subset
  <2>3. Cardinality(W) = Cardinality(Blocks(f))
    BY <1>1, <2>1, <2>2
  <2>4. W = Blocks(f)
    BY <1>1, <2>1, <2>3, FS_Subset
  <2>. QED
    BY <1>2, <1>6, <2>4 DEF W, S
<1>. QED
  BY <1>6, <1>7 DEF S

\* The rounds end with a solution.
LEMMA RoundsSolve ==
  ASSUME NEW f, WellFormed(f)
  PROVE  Solution(f, live_in_after(f))
<1>1. PICK round : IsRounds(f, round) /\ live_in_after(f) = round[Len(f.blocks) + 1]
  BY RoundsExist
<1> DEFINE N == Len(f.blocks)
           in == live_in_after(f)
<1>2. N \in Nat /\ N \in 0..N
  BY DEF WellFormed, EdgesBind, IsSequence
<1>3. ASSUME NEW b \in Blocks(f) PROVE round[N][b] = in[b]
  <2>1. \A l : l \in round[N + 1][b] <=> l \in round[N][b]
    <3>. SUFFICES ASSUME NEW l PROVE l \in round[N + 1][b] <=> l \in round[N][b]
      OBVIOUS
    <3>1. LiveAfter(f, round, l, N + 1) = LiveAfter(f, round, l, N)
      BY <1>1, RoundsEnd
    <3>2. b \in LiveAfter(f, round, l, N + 1) <=> b \in LiveAfter(f, round, l, N)
      BY <3>1
    <3>. QED
      BY <3>2 DEF LiveAfter
  <2>. QED
    BY <1>1, <2>1
<1>4. ASSUME NEW b \in Blocks(f) PROVE out_of(f, round[N], b) = out_of(f, in, b)
  <2>1. \A s \in successors(f, b) : round[N][s] = in[s]
    BY <1>3, SuccessorIsBlock
  <2>. HIDE DEF in
  <2>. QED
    BY <2>1 DEF out_of
<1>5. ASSUME NEW b \in Blocks(f) PROVE in[b] = per_stmt(f, b, out_of(f, in, b))[1]
  <2>1. round[N + 1][b] = per_stmt(f, b, out_of(f, round[N], b))[1]
    BY <1>1, <1>2 DEF IsRounds
  <2>. QED
    BY <1>1, <1>4, <2>1
<1>. QED
  BY <1>5 DEF Solution

\* Every local is live in the result exactly where it is used ahead.
LEMMA SolutionUsesAhead ==
  ASSUME NEW f, WellFormed(f), NEW in, Solution(f, in),
         \A b \in Blocks(f) : \A l \in in[b] : <<b, 1>> \in UsedAhead(f, l)
  PROVE  /\ \A b \in Blocks(f) : \A i \in 1..InstrCount(f, b) : \A l :
              l \in per_stmt(f, b, out_of(f, in, b))[i] <=> <<b, i>> \in UsedAhead(f, l)
         /\ \A b \in Blocks(f) : \A l : l \in in[b] <=> <<b, 1>> \in UsedAhead(f, l)
<1>1. ASSUME NEW b \in Blocks(f), NEW i \in 1..InstrCount(f, b), NEW l
      PROVE  l \in per_stmt(f, b, out_of(f, in, b))[i] <=> <<b, i>> \in UsedAhead(f, l)
  <2>1. \A k \in out_of(f, in, b) : \E s \in successors(f, b) : <<s, 1>> \in UsedAhead(f, k)
    BY SuccessorIsBlock DEF out_of
  <2>2. l \in per_stmt(f, b, out_of(f, in, b))[i] => <<b, i>> \in UsedAhead(f, l)
    BY <2>1, TransferSound
  <2>3. <<b, i>> \in UsedAhead(f, l) => l \in per_stmt(f, b, out_of(f, in, b))[i]
    <3> DEFINE p == <<b, i>>
    <3>1. p[1] = b /\ p[2] = i
      OBVIOUS
    <3>. HIDE DEF p
    <3>2. p \in UsedAhead(f, l) => l \in per_stmt(f, p[1], out_of(f, in, p[1]))[p[2]]
      BY SolutionComplete
    <3>. QED
      BY <3>1, <3>2 DEF p
  <2>. QED
    BY <2>2, <2>3
<1>2. ASSUME NEW b \in Blocks(f), NEW l PROVE l \in in[b] <=> <<b, 1>> \in UsedAhead(f, l)
  <2>1. 1 \in 1..InstrCount(f, b)
    BY InstructionsCounted
  <2>. QED
    BY <1>1, <2>1 DEF Solution
<1>. QED
  BY <1>1, <1>2

\* What the rounds find live at the entry of a block is used ahead of it.
LEMMA RoundsAhead ==
  ASSUME NEW f, WellFormed(f)
  PROVE  \A b \in Blocks(f) : \A l \in live_in_after(f)[b] : <<b, 1>> \in UsedAhead(f, l)
<1>1. PICK round : IsRounds(f, round) /\ live_in_after(f) = round[Len(f.blocks) + 1]
  BY RoundsExist
<1>2. Len(f.blocks) + 1 \in 0..Len(f.blocks) + 1
  BY DEF WellFormed, EdgesBind, IsSequence
<1>. QED
  BY <1>1, <1>2, RoundsSound

\* The value the borrow checker takes for liveness (check.rs:167), of any function:
\* a local is live before an instruction exactly where some path leads to a use of
\* it that no definition comes before (liveness.rs:124-163).
THEOREM ComputedLiveness ==
  ASSUME NEW f \in Functions, NEW b \in Blocks(f), NEW i \in 1..InstrCount(f, b), NEW l
  PROVE  l \in compute_liveness(f).live_before[b][i] <=> <<b, i>> \in UsedAhead(f, l)
<1>1. WellFormed(f)
  BY FunctionsAssumption
<1>2. compute_liveness(f).live_before[b][i] = per_stmt(f, b, out_of(f, live_in_after(f), b))[i]
  BY DEF compute_liveness, out_of
<1>. QED
  BY <1>1, <1>2, RoundsSolve, RoundsAhead, SolutionUsesAhead

\* The sweeps end with it.
LEMMA SweepsEqualRounds ==
  ASSUME LivenessInv, finished
  PROVE  /\ live_out = compute_liveness(function).live_out
         /\ live_before = compute_liveness(function).live_before
<1>. SUFFICES ASSUME NEW f, f = function
              PROVE  /\ live_out = compute_liveness(f).live_out
                     /\ live_before = compute_liveness(f).live_before
  OBVIOUS
<1> DEFINE in == live_in_after(f)
<1>1. WellFormed(f) /\ Solution(f, live_in) /\ Solution(f, in)
  BY SweepsSolve, RoundsSolve
<1>2. ASSUME NEW b \in Blocks(f), NEW l \in live_in[b] PROVE <<b, 1>> \in UsedAhead(f, l)
  <2>1. Transferred(b) /\ 1 \in 1..InstrCount(f, b)
    BY <1>1, SweepsSolve, InstructionsCounted
  <2>. QED
    BY <1>2, <2>1 DEF LivenessInv, LiveInv, Transferred
<1>3. \A b \in Blocks(f) : \A l : l \in live_in[b] <=> <<b, 1>> \in UsedAhead(f, l)
  BY <1>1, <1>2, SolutionUsesAhead
<1>4. \A b \in Blocks(f) : \A l : l \in in[b] <=> <<b, 1>> \in UsedAhead(f, l)
  BY <1>1, RoundsAhead, SolutionUsesAhead
<1>. HIDE DEF in
<1>5. ASSUME NEW b \in Blocks(f) PROVE live_in[b] = in[b]
  <2>1. \A l : l \in live_in[b] <=> l \in in[b]
    BY <1>3, <1>4
  <2>. QED
    BY <2>1
<1>6. ASSUME NEW b \in Blocks(f) PROVE out_of(f, live_in, b) = out_of(f, in, b)
  <2>1. \A s \in successors(f, b) : live_in[s] = in[s]
    BY <1>1, <1>5, SuccessorIsBlock
  <2>. QED
    BY <2>1 DEF out_of
<1>7. \A b \in Blocks(f) : /\ live_out[b] = out_of(f, in, b)
                           /\ live_before[b] = per_stmt(f, b, out_of(f, in, b))
  BY <1>6, SweepsSolve
<1>8. /\ live_out = [b \in Blocks(f) |-> live_out[b]]
      /\ live_before = [b \in Blocks(f) |-> live_before[b]]
  BY DEF LivenessInv, LivenessType
<1>9. /\ compute_liveness(f).live_out = [b \in Blocks(f) |-> out_of(f, in, b)]
      /\ compute_liveness(f).live_before = [b \in Blocks(f) |-> per_stmt(f, b, out_of(f, in, b))]
  BY DEF compute_liveness, in, out_of
<1>. QED
  BY <1>7, <1>8, <1>9

\* The loop of compute_liveness (liveness.rs:124-163) ends with the liveness that
\* the model of the borrow checker starts from: sweeps that read the successors
\* as they stand, in any order of the blocks, and rounds that do not, agree.
THEOREM SweepsCompute ==
  Spec => [](finished => /\ live_out = compute_liveness(function).live_out
                         /\ live_before = compute_liveness(function).live_before)
<1>1. LivenessInv => (finished => /\ live_out = compute_liveness(function).live_out
                                  /\ live_before = compute_liveness(function).live_before)
  BY SweepsEqualRounds
<1>. QED
  BY InitLiveness, StepKeepsLiveness, <1>1, PTL DEF Spec
=============================================================================
