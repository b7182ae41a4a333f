----------------------------- MODULE FoldFacts -----------------------------
(***************************************************************************)
(* Loops over sequences and definitions by recursion on a number, for any  *)
(* operation.  Op is a constant of the module: each loop of the code is an *)
(* instance of it, with its body for Op, what the body reads beside the    *)
(* state for the first three arguments, the state for the fourth and the   *)
(* element for the last.                                                   *)
(*                                                                         *)
(* Counting is induction, from the well-foundedness of < on the numbers.   *)
(* Everything else follows from it: a function that is defined in terms of *)
(* itself exists, and the fold of SequencesExt runs through the values     *)
(* that the loop has.                                                      *)
(***************************************************************************)
EXTENDS SequencesExt, WellFoundedInduction, TLAPS

CONSTANT Op(_, _, _, _, _)

\* `for x in q { s = Op(s, x) }', in an environment of three values.
Fold(b, c, d, s, q) == FoldLeft(LAMBDA acc, x : Op(b, c, d, acc, x), s, q)

\* What holds of 0 and of the successor of whatever it holds of holds of every number,
\* as sets: the step to a set is what each use states.
LEMMA Counting ==
  ASSUME NEW T, 0 \in T, \A n \in Nat : n \in T => n + 1 \in T
  PROVE  \A n \in Nat : n \in T
<1>. SUFFICES ASSUME Nat \ T # {} PROVE FALSE
  OBVIOUS
<1>1. PICK x \in Nat \ T : \A y \in Nat \ T : <<y, x>> \notin OpToRel(<, Nat)
  BY NatLessThanWellFounded, WFMin
<1>2. x # 0 /\ x \in Nat /\ x \notin T
  OBVIOUS
<1>3. x - 1 \in Nat /\ x - 1 < x /\ x - 1 + 1 = x
  BY <1>2
<1>4. <<x - 1, x>> \in OpToRel(<, Nat)
  BY <1>2, <1>3 DEF OpToRel
<1>5. x - 1 \in T
  BY <1>1, <1>3, <1>4
<1>6. x - 1 + 1 \in T
  BY <1>3, <1>5
<1>. QED
  BY <1>2, <1>3, <1>6

\* g is defined by recursion: up from 0, and down from n.
Forward(b, c, d, s, n, g) ==
  g = [i \in 0..n |-> IF i = 0 THEN s ELSE Op(b, c, d, g[i - 1], i)]
Backward(b, c, d, s, n, g) ==
  g = [i \in 1..n |-> Op(b, c, d, IF i = n THEN s ELSE g[i + 1], i)]

\* A function that is defined upwards exists, for each bound.
LEMMA RecursionExists ==
  ASSUME NEW b, NEW c, NEW d, NEW s
  PROVE  \A n \in Nat : \E g : Forward(b, c, d, s, n, g)
<1> DEFINE T == {n \in Nat : \E g : g = [i \in 0..n |-> IF i = 0 THEN s ELSE Op(b, c, d, g[i - 1], i)]}
<1>1. 0 \in T
  <2> DEFINE g == [i \in 0..0 |-> s]
  <2>1. \A i \in 0..0 : i = 0
    OBVIOUS
  <2>2. g = [i \in 0..0 |-> IF i = 0 THEN s ELSE Op(b, c, d, g[i - 1], i)]
    BY <2>1
  <2>. HIDE DEF g
  <2>. QED
    BY <2>2
<1>2. ASSUME NEW n \in Nat, n \in T PROVE n + 1 \in T
  <2>1. PICK g : g = [i \in 0..n |-> IF i = 0 THEN s ELSE Op(b, c, d, g[i - 1], i)]
    BY <1>2
  <2> DEFINE h == [i \in 0..n+1 |-> IF i = n + 1 THEN Op(b, c, d, g[n], n + 1) ELSE g[i]]
  <2>2. ASSUME NEW i \in 0..n+1
        PROVE  h[i] = IF i = 0 THEN s ELSE Op(b, c, d, h[i - 1], i)
    <3>1. CASE i = n + 1
      <4>1. h[i] = Op(b, c, d, g[n], n + 1) /\ h[n] = g[n] /\ i - 1 = n /\ i # 0
        BY <3>1
      <4>. HIDE DEF h
      <4>. QED
        BY <3>1, <4>1
    <3>2. CASE i # n + 1
      <4>1. i \in 0..n /\ h[i] = g[i]
        BY <3>2
      <4>2. g[i] = IF i = 0 THEN s ELSE Op(b, c, d, g[i - 1], i)
        BY <2>1, <4>1
      <4>3. i # 0 => h[i - 1] = g[i - 1]
        BY <4>1
      <4>. HIDE DEF h
      <4>. QED
        BY <4>1, <4>2, <4>3
    <3>. QED
      BY <3>1, <3>2
  <2>3. h = [i \in 0..n+1 |-> h[i]]
    OBVIOUS
  <2>. HIDE DEF h
  <2>4. h = [i \in 0..n+1 |-> IF i = 0 THEN s ELSE Op(b, c, d, h[i - 1], i)]
    BY <2>2, <2>3
  <2>. QED
    BY <2>4
<1>. HIDE DEF T
<1>3. \A n \in Nat : n \in T
  BY <1>1, <1>2, Counting
<1>. QED
  BY <1>3 DEF T, Forward

\* So does one that is defined downwards, as compute_liveness fills the states of
\* a block from its end (liveness.rs:145-152).
LEMMA BackwardRecursionExists ==
  ASSUME NEW b, NEW c, NEW d, NEW s, NEW n \in Nat
  PROVE  \E g : Backward(b, c, d, s, n, g)
<1> DEFINE Suffix(k, g) ==
             \A i \in 1..n : n - i < k => g[i] = Op(b, c, d, IF i = n THEN s ELSE g[i + 1], i)
           T == {k \in Nat : \E g : g = [i \in 1..n |-> g[i]] /\ Suffix(k, g)}
<1>1. 0 \in T
  <2> DEFINE g == [i \in 1..n |-> s]
  <2>1. g = [i \in 1..n |-> g[i]] /\ Suffix(0, g)
    OBVIOUS
  <2>. HIDE DEF g, Suffix
  <2>. QED
    BY <2>1
<1>2. ASSUME NEW k \in Nat, k \in T PROVE k + 1 \in T
  <2>1. PICK g : g = [i \in 1..n |-> g[i]] /\ Suffix(k, g)
    BY <1>2
  <2> DEFINE h == [i \in 1..n |-> IF n - i = k THEN Op(b, c, d, IF i = n THEN s ELSE g[i + 1], i)
                                   ELSE g[i]]
  <2>2. h = [i \in 1..n |-> h[i]]
    OBVIOUS
  <2>3. ASSUME NEW i \in 1..n, n - i < k + 1
        PROVE  h[i] = Op(b, c, d, IF i = n THEN s ELSE h[i + 1], i)
    <3>1. h[i] = Op(b, c, d, IF i = n THEN s ELSE g[i + 1], i)
      <4>1. CASE n - i = k
        BY <4>1
      <4>2. CASE n - i < k
        BY <2>1, <4>2
      <4>. QED
        BY <2>3, <4>1, <4>2
    <3>2. i # n => h[i + 1] = g[i + 1]
      BY <2>3
    <3>. HIDE DEF h
    <3>. QED
      BY <3>1, <3>2
  <2>. HIDE DEF h
  <2>4. Suffix(k + 1, h)
    BY <2>3
  <2>. HIDE DEF Suffix
  <2>. QED
    BY <2>2, <2>4
<1>. HIDE DEF T
<1>3. \A k \in Nat : k \in T
  BY <1>1, <1>2, Counting
<1>4. PICK g : g = [i \in 1..n |-> g[i]] /\ Suffix(n, g)
  BY <1>3 DEF T
<1>5. \A i \in 1..n : g[i] = Op(b, c, d, IF i = n THEN s ELSE g[i + 1], i)
  <2>1. Suffix(n, g)
    BY <1>4
  <2>2. \A i \in 1..n : n - i < n
    OBVIOUS
  <2>. QED
    BY <2>1, <2>2, Zenon
<1>. QED
  BY <1>4, <1>5 DEF Backward

Good(b, c, d, s, q, n, g) ==
  g = [S \in SUBSET (1..n) |->
         IF S = {} THEN s ELSE LET x == Max(S) IN Op(b, c, d, g[S \ {x}], q[x])]

\* The library's fold is an entry of a function it chooses; Good says which
\* functions it chooses from.
LEMMA FoldIsChosen ==
  ASSUME NEW b, NEW c, NEW d, NEW s, NEW q, NEW n, DOMAIN q = 1..n
  PROVE  Fold(b, c, d, s, q) = (CHOOSE g : Good(b, c, d, s, q, n, g))[1..n]
BY DEF Fold, FoldLeft, MapThenFoldSet, Good

\* The fold takes the greatest index first.
LEMMA MaxOfInterval ==
  ASSUME NEW n \in Nat, NEW S \in SUBSET (1..n+1), n + 1 \in S
  PROVE  Max(S) = n + 1
<1>1. \A y \in S : n + 1 >= y
  OBVIOUS
<1>2. \A x \in S : (\A y \in S : x >= y) => x = n + 1
  OBVIOUS
<1>. QED
  BY <1>1, <1>2 DEF Max

\* There is a function to choose.
LEMMA GoodExists ==
  ASSUME NEW b, NEW c, NEW d, NEW s, NEW q
  PROVE  \A n \in Nat : \E g : Good(b, c, d, s, q, n, g)
<1> DEFINE T == {n \in Nat : \E g : Good(b, c, d, s, q, n, g)}
<1>1. 0 \in T
  <2> DEFINE g == [S \in SUBSET (1..0) |-> s]
  <2>1. SUBSET (1..0) = {{}}
    OBVIOUS
  <2>2. Good(b, c, d, s, q, 0, g)
    BY <2>1 DEF Good
  <2>. QED
    BY <2>2
<1>2. ASSUME NEW n \in Nat, n \in T PROVE n + 1 \in T
  <2>1. PICK g : Good(b, c, d, s, q, n, g)
    BY <1>2
  <2> DEFINE h == [S \in SUBSET (1..n+1) |->
                     IF n + 1 \in S THEN Op(b, c, d, g[S \ {n + 1}], q[n + 1]) ELSE g[S]]
  <2>2. ASSUME NEW S \in SUBSET (1..n+1)
        PROVE  h[S] = IF S = {} THEN s ELSE LET x == Max(S) IN Op(b, c, d, h[S \ {x}], q[x])
    <3>1. CASE n + 1 \in S
      <4>1. Max(S) = n + 1
        BY <3>1, MaxOfInterval
      <4>2. S \ {n + 1} \in SUBSET (1..n+1) /\ n + 1 \notin S \ {n + 1}
        OBVIOUS
      <4>3. h[S \ {n + 1}] = g[S \ {n + 1}]
        BY <4>2
      <4>4. h[S] = Op(b, c, d, g[S \ {n + 1}], q[n + 1])
        BY <3>1
      <4>. HIDE DEF h
      <4>. QED
        BY <3>1, <4>1, <4>3, <4>4
    <3>2. CASE n + 1 \notin S
      <4>1. S \in SUBSET (1..n)
        BY <3>2
      <4>2. S \ {Max(S)} \in SUBSET (1..n) /\ S \ {Max(S)} \in SUBSET (1..n+1)
        BY <4>1
      <4>3. h[S] = g[S] /\ h[S \ {Max(S)}] = g[S \ {Max(S)}]
        BY <3>2, <4>2
      <4>4. g[S] = IF S = {} THEN s ELSE LET x == Max(S) IN Op(b, c, d, g[S \ {x}], q[x])
        BY <2>1, <4>1 DEF Good
      <4>. HIDE DEF h
      <4>. QED
        BY <4>3, <4>4
    <3>. QED
      BY <3>1, <3>2
  <2>3. Good(b, c, d, s, q, n + 1, h)
    <3>1. h = [S \in SUBSET (1..n+1) |-> h[S]]
      OBVIOUS
    <3>. HIDE DEF h
    <3>. QED
      BY <2>2, <3>1 DEF Good
  <2>. QED
    BY <2>3
<1>. HIDE DEF T
<1>3. \A n \in Nat : n \in T
  BY <1>1, <1>2, Counting
<1>. QED
  BY <1>3 DEF T

\* run holds the values of a fold of the first n elements of q, one by one.
Iterates(b, c, d, s, q, n, run) ==
  /\ run[0] = s
  /\ \A i \in 0..n-1 : run[i + 1] = Op(b, c, d, run[i], q[i + 1])

\* A fold over a sequence is the last of the values that a loop over it has, one
\* element after the other: `for x in q { state = op(state, x) }'.
THEOREM FoldIterates ==
  ASSUME NEW b, NEW c, NEW d, NEW s, NEW q, NEW n \in Nat, DOMAIN q = 1..n
  PROVE  \E run : Iterates(b, c, d, s, q, n, run) /\ Fold(b, c, d, s, q) = run[n]
<1> DEFINE g == CHOOSE g : Good(b, c, d, s, q, n, g)
           run == [i \in 0..n |-> g[1..i]]
<1>1. Good(b, c, d, s, q, n, g)
  BY GoodExists
<1>. HIDE DEF g
<1>2. ASSUME NEW i \in 0..n-1 PROVE g[1..i+1] = Op(b, c, d, g[1..i], q[i + 1])
  <2>1. 1..i+1 \in SUBSET (1..n) /\ i \in Nat /\ i + 1 \in 1..i+1
    OBVIOUS
  <2>2. Max(1..i+1) = i + 1
    BY <2>1, MaxOfInterval
  <2>3. (1..i+1) \ {i + 1} = 1..i
    BY <2>1
  <2>. QED
    BY <1>1, <2>1, <2>2, <2>3 DEF Good
<1>3. g[1..0] = s
  BY <1>1 DEF Good
<1>4. Iterates(b, c, d, s, q, n, run)
  BY <1>2, <1>3 DEF Iterates
<1>5. Fold(b, c, d, s, q) = run[n]
  BY FoldIsChosen DEF g
<1>. QED
  BY <1>4, <1>5

\* Two runs that agree on the elements agree.
LEMMA IteratesUnique ==
  ASSUME NEW b, NEW c, NEW d, NEW s, NEW q, NEW r, NEW n \in Nat, NEW run, NEW other,
         Iterates(b, c, d, s, q, n, run), Iterates(b, c, d, s, r, n, other),
         \A i \in 1..n : q[i] = r[i]
  PROVE  \A i \in 0..n : run[i] = other[i]
<1> DEFINE T == {i \in Nat : i <= n => run[i] = other[i]}
<1>1. 0 \in T
  BY DEF Iterates
<1>2. ASSUME NEW i \in Nat, i \in T PROVE i + 1 \in T
  <2>. SUFFICES ASSUME i + 1 <= n PROVE run[i + 1] = other[i + 1]
    OBVIOUS
  <2>1. i \in 0..n-1 /\ i + 1 \in 1..n /\ run[i] = other[i]
    BY <1>2
  <2>. QED
    BY <2>1 DEF Iterates
<1>. HIDE DEF T
<1>3. \A i \in Nat : i \in T
  BY <1>1, <1>2, Counting
<1>. QED
  BY <1>3 DEF T

\* One more element is one more step after the fold of those before it.
THEOREM FoldExtends ==
  ASSUME NEW b, NEW c, NEW d, NEW s, NEW q, NEW r, NEW n \in Nat,
         DOMAIN q = 1..n, DOMAIN r = 1..n+1, \A i \in 1..n : q[i] = r[i]
  PROVE  Fold(b, c, d, s, r) = Op(b, c, d, Fold(b, c, d, s, q), r[n + 1])
<1>1. PICK run : Iterates(b, c, d, s, q, n, run) /\ Fold(b, c, d, s, q) = run[n]
  BY FoldIterates
<1>2. PICK other : Iterates(b, c, d, s, r, n + 1, other) /\ Fold(b, c, d, s, r) = other[n + 1]
  <2> DEFINE m == n + 1
  <2>1. m \in Nat /\ DOMAIN r = 1..m
    OBVIOUS
  <2>. HIDE DEF m
  <2>2. \E other : Iterates(b, c, d, s, r, m, other) /\ Fold(b, c, d, s, r) = other[m]
    BY <2>1, FoldIterates
  <2>. QED
    BY <2>2 DEF m
<1>3. Iterates(b, c, d, s, r, n, other) /\ other[n + 1] = Op(b, c, d, other[n], r[n + 1])
  <2>1. 0..n-1 \subseteq 0..(n+1)-1 /\ n \in 0..(n+1)-1
    OBVIOUS
  <2>. QED
    BY <1>2, <2>1 DEF Iterates
<1>4. run[n] = other[n]
  <2>1. Iterates(b, c, d, s, q, n, run)
    BY <1>1
  <2>2. Iterates(b, c, d, s, r, n, other)
    BY <1>3
  <2>3. \A i \in 0..n : run[i] = other[i]
    BY <2>1, <2>2, IteratesUnique, SMT
  <2>. QED
    BY <2>3
<1>. QED
  BY <1>1, <1>2, <1>3, <1>4

\* A loop over nothing leaves the state alone.
THEOREM FoldOfNothing ==
  ASSUME NEW b, NEW c, NEW d, NEW s, NEW q, DOMAIN q = 1..0
  PROVE  Fold(b, c, d, s, q) = s
<1>1. PICK run : Iterates(b, c, d, s, q, 0, run) /\ Fold(b, c, d, s, q) = run[0]
  BY FoldIterates
<1>. QED
  BY <1>1 DEF Iterates
=============================================================================
