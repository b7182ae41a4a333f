-------------------------- MODULE Lowering_proofs --------------------------
EXTENDS Lowering, SequenceTheorems, TLAPS

(***************************************************************************)
(* The builder.                                                            *)
(***************************************************************************)
BuilderFields == {"blocks", "locals", "current", "ended", "panicked"}

\* Blocks that were reserved and are neither ended nor current.
Waiting(b) == DOMAIN b.blocks \ (ToSet(b.ended) \cup {b.current})

AreBlocks(blocks) ==
  /\ IsSequence(blocks)
  /\ \A n \in DOMAIN blocks : DOMAIN blocks[n] = {"args", "stmts", "term"}
Built(b) ==
  /\ DOMAIN b = BuilderFields /\ AreBlocks(b.blocks)
  /\ IsSequence(b.ended) /\ IsInjective(b.ended)
  /\ ToSet(b.ended) \subseteq DOMAIN b.blocks
  /\ b.current \in DOMAIN b.blocks \cup {None}
  /\ b.current \notin ToSet(b.ended)

\* c has more statements than b and locals, and nothing else.
Like(b, c) ==
  /\ DOMAIN c = BuilderFields /\ AreBlocks(c.blocks)
  /\ DOMAIN c.blocks = DOMAIN b.blocks
  /\ \A n \in DOMAIN b.blocks : /\ c.blocks[n].args = b.blocks[n].args
                                /\ c.blocks[n].term = b.blocks[n].term
  /\ c.current = b.current /\ c.ended = b.ended

\* Blocks stay, and so do their arguments.
Grows(b, c) ==
  \A n \in DOMAIN b.blocks : n \in DOMAIN c.blocks /\ c.blocks[n].args = b.blocks[n].args

\* The block n has a arguments.
Takes(b, n, a) == n \in DOMAIN b.blocks /\ Len(b.blocks[n].args) = a

\* Every edge of the terminator binds the arguments of its target.
Binds(b, term) ==
  /\ Len(term.edges) \in Nat
  /\ \A i \in 1..Len(term.edges) : Takes(b, term.edges[i].to, Len(term.edges[i].args))
Edges(b) == \A n \in DOMAIN b.blocks : Binds(b, b.blocks[n].term)

(***************************************************************************)
(* The tasks.                                                              *)
(***************************************************************************)
\* The blocks that a task will switch to, and the task that needs no block when
\* it starts.
Owned(t) ==
  CASE t.do = "switch" -> {t.block}
    [] t.do = "merge" -> {t.merge}
    [] t.do = "test" -> {t.header + 1, t.header + 2}
    [] t.do = "end_loop" -> {t.break}
    [] OTHER -> {}
Resumes(t) == t.do \in {"switch", "merge"}
Plain(t) == t.do \notin {"switch", "merge", "test", "end_loop", "end_branch"}

IsTask(t) ==
  /\ t.do \in {"value", "place"} => t.value \in Values
  /\ t.do = "elements" => t.elements # << >> /\ AreElements(t.elements, Values)
  /\ t.do = "branch" => t.value \in Values /\ t.value.v = "if"
  /\ t.do = "test" => t.header \in Nat /\ AreElements(t.body, Values)

Returns(t) ==
  \/ t.do = "return"
  \/ t.do = "value" /\ t.value.v = "return"
  \/ /\ t.do = "elements"
     /\ LET last == t.elements[Len(t.elements)] IN ~IsLocal(last) /\ last.value.v = "return"

\* The tasks of q own the blocks of W, each block one task.
Shares(q, W) ==
  /\ \A i \in DOMAIN q : Owned(q[i]) \subseteq W
  /\ \A i, j \in DOMAIN q : i # j => Owned(q[i]) \cap Owned(q[j]) = {}
  /\ \A n \in W : \E i \in DOMAIN q : n \in Owned(q[i])

\* What follows a branch comes right after its end.
Ordered(q) == \A i \in DOMAIN q : Resumes(q[i]) /\ i > 1 => q[i - 1].do = "end_branch"

\* LoopsNested, of any tasks and any stack.
Ends(q) == {i \in DOMAIN q : q[i].do = "end_loop"}
Nested(q, ls) ==
  \E at \in [DOMAIN ls -> Ends(q)] :
    /\ \A i \in Ends(q) : \E n \in DOMAIN ls : at[n] = i
    /\ \A m, n \in DOMAIN ls : m < n => at[m] > at[n]
    /\ \A n \in DOMAIN ls : ls[n] = [continue |-> q[at[n]].continue, break |-> q[at[n]].break]

IsTodo == IsSequence(todo) /\ \A t \in ToSet(todo) : IsTask(t)
Stopped == todo # << >> /\ Resumes(todo[1]) => func.current = None
Returning ==
  IF todo = << >> THEN func.current = None ELSE Returns(todo[Len(todo)])

Inv ==
  /\ Built(func) /\ IsTodo
  /\ Shares(todo, Waiting(func))
  /\ Ordered(todo) /\ Stopped /\ Returning
  /\ IsSequence(loop_stack) /\ Nested(todo, loop_stack)

(***************************************************************************)
(* The arguments of the blocks.                                            *)
(***************************************************************************)
\* A value that a task lowers for its operand joins its branches.
Used(t) ==
  /\ t.do \in {"value", "branch"} => t.tail \/ Joins(t.value)
  /\ t.do = "place" => Joins(t.value)
  /\ t.do = "elements" => ElementsJoin(t.elements)
  /\ t.do = "test" => ElementsJoin(t.body)

\* The blocks that a task will lead to take the arguments that it will bind.
Leads(b, t) ==
  /\ t.do = "test" => Takes(b, t.header, 0) /\ Takes(b, t.header + 1, 0) /\ Takes(b, t.header + 2, 0)
  /\ t.do = "end_loop" => Takes(b, t.continue, 0) /\ Takes(b, t.break, 0)
  /\ t.do = "end_branch" => Takes(b, t.merge, IF t.tail THEN 0 ELSE 1)

EdgeInv ==
  /\ Edges(func) /\ func.blocks # << >>
  /\ \A t \in ToSet(todo) : Used(t) /\ Leads(func, t)

(***************************************************************************)
(* The current block.                                                      *)
(***************************************************************************)
\* After the task t there may be no current block.
MayLeave(t, S) ==
  \/ t.do \in {"return", "end_branch"}
  \/ t.do = "call" /\ t.tail
  \/ t.do = "value" /\ (t.value \in S \/ (t.tail /\ t.value.v = "call"))
  \/ t.do = "elements" /\ ~StaysIn(t.elements, S)

\* The task t needs no current block.
AllQuiet(es) == \A i \in DOMAIN es : ~IsLocal(es[i]) /\ Quiet(es[i].value)
Tolerant(t) ==
  \/ t.do \in {"drop", "switch", "merge", "end_branch"}
  \/ t.do = "value" /\ Quiet(t.value)
  \/ t.do = "elements" /\ AllQuiet(t.elements)

\* There may be no current block after the first i tasks of q only when i is in
\* D, and then the next one needs none.
Flow(q, D, S) ==
  \A i \in 1..Len(q) :
    /\ i - 1 \in D => Tolerant(q[i])
    /\ i - 1 \in D \/ MayLeave(q[i], S) => Resumes(q[i]) \/ i \in D

\* The values that a task waits for leave the current block as it is.
Stays(t, S) ==
  /\ t.do = "place" /\ t.value.v \notin {"symbol", "parameter", "field", "deref"} => t.value \notin S
  /\ t.do = "elements" => QuietAfter(t.elements, S)
  /\ t.do = "test" => QuietAfter(t.body, S) /\ StaysIn(t.body, S)

\* The builder has not panicked; it has a current block.
Sound(b) == DOMAIN b = BuilderFields /\ ~b.panicked
Running(b) == Sound(b) /\ b.current # None

FlowInv(S) ==
  /\ ~func.panicked
  /\ \A t \in ToSet(todo) : Stays(t, S)
  /\ \E D \in SUBSET Nat : Flow(todo, D, S) /\ (func.current = None => 0 \in D)

(***************************************************************************)
(* Sequences.                                                              *)
(***************************************************************************)
\* A sequence over any set is a sequence over its elements.
LEMMA SequenceOf ==
  ASSUME NEW S, NEW s \in Seq(S)
  PROVE  /\ IsSequence(s)
         /\ Len(s) \in Nat /\ DOMAIN s = 1..Len(s)
         /\ s = << >> <=> Len(s) = 0
         /\ ToSet(s) \subseteq S
<1>1. Len(s) \in Nat /\ s \in [1..Len(s) -> S] /\ DOMAIN s = 1..Len(s)
  BY LenProperties
<1>2. s \in [1..Len(s) -> ToSet(s)]
  BY <1>1 DEF ToSet
<1>3. s \in Seq(ToSet(s))
  BY <1>1, <1>2, SeqDef
<1>4. s = << >> <=> Len(s) = 0
  BY EmptySeq
<1> QED BY <1>1, <1>3, <1>4 DEF IsSequence, ToSet

\* What a sequence is, over its own elements.
LEMMA SequenceFacts ==
  ASSUME NEW s, IsSequence(s)
  PROVE  /\ Len(s) \in Nat /\ DOMAIN s = 1..Len(s)
         /\ s = << >> <=> Len(s) = 0
         /\ \A i \in 1..Len(s) : s[i] \in ToSet(s)
BY SequenceOf DEF IsSequence, ToSet

\* The elements of a concatenation are those of its parts, in their order.
LEMMA ConcatFacts ==
  ASSUME NEW s, NEW t, IsSequence(s), IsSequence(t)
  PROVE  /\ IsSequence(s \o t)
         /\ Len(s \o t) = Len(s) + Len(t)
         /\ \A i \in 1..Len(s) : (s \o t)[i] = s[i]
         /\ \A i \in 1..Len(t) : (s \o t)[Len(s) + i] = t[i]
         /\ \A i \in DOMAIN (s \o t) :
              \/ i \in 1..Len(s)
              \/ i - Len(s) \in 1..Len(t) /\ i = Len(s) + (i - Len(s))
         /\ ToSet(s \o t) = ToSet(s) \cup ToSet(t)
<1> DEFINE S == ToSet(s) \cup ToSet(t)
<1>1. s \in Seq(S) /\ t \in Seq(S)
  BY SeqMonotonic DEF IsSequence
<1>2. /\ s \o t \in Seq(S)
      /\ Len(s \o t) = Len(s) + Len(t)
      /\ \A i \in 1..Len(s) + Len(t) : (s \o t)[i] = IF i <= Len(s) THEN s[i] ELSE t[i - Len(s)]
  BY <1>1, ConcatProperties
<1>3. /\ Len(s) \in Nat /\ Len(t) \in Nat /\ DOMAIN s = 1..Len(s) /\ DOMAIN t = 1..Len(t)
      /\ DOMAIN (s \o t) = 1..(Len(s) + Len(t))
  BY SequenceFacts, <1>2, LenProperties
<1>4. IsSequence(s \o t)
  BY <1>2, SequenceOf
<1>5. \A i \in 1..Len(s) : (s \o t)[i] = s[i]
  BY <1>2, <1>3
<1>6. \A i \in 1..Len(t) : (s \o t)[Len(s) + i] = t[i]
  <2> TAKE i \in 1..Len(t)
  <2>1. Len(s) + i \in 1..Len(s) + Len(t) /\ ~(Len(s) + i <= Len(s)) /\ Len(s) + i - Len(s) = i
    BY <1>3
  <2> QED BY <2>1, <1>2
<1>7. \A i \in DOMAIN (s \o t) :
        \/ i \in 1..Len(s)
        \/ i - Len(s) \in 1..Len(t) /\ i = Len(s) + (i - Len(s))
  BY <1>3
<1>8. ToSet(s \o t) \subseteq S
  BY <1>2, SequenceOf
<1>9. \A i \in 1..Len(s) : s[i] \in ToSet(s \o t)
  <2> TAKE i \in 1..Len(s)
  <2>1. i \in DOMAIN (s \o t) BY <1>3
  <2> QED BY <2>1, <1>5 DEF ToSet
<1>10. \A i \in 1..Len(t) : t[i] \in ToSet(s \o t)
  <2> TAKE i \in 1..Len(t)
  <2>1. Len(s) + i \in DOMAIN (s \o t) BY <1>3
  <2> QED BY <2>1, <1>6 DEF ToSet
<1>11. S \subseteq ToSet(s \o t)
  BY <1>3, <1>9, <1>10 DEF ToSet
<1> QED BY <1>2, <1>4, <1>5, <1>6, <1>7, <1>8, <1>11

\* A sequence is its head and its tail.
LEMMA TailFacts ==
  ASSUME NEW s, IsSequence(s), s # << >>
  PROVE  /\ Len(s) >= 1 /\ Head(s) = s[1] /\ Head(s) \in ToSet(s)
         /\ IsSequence(Tail(s)) /\ Len(Tail(s)) = Len(s) - 1
         /\ \A i \in 1..Len(Tail(s)) : Tail(s)[i] = s[i + 1] /\ i + 1 \in 1..Len(s)
         /\ ToSet(Tail(s)) \subseteq ToSet(s)
<1>1. Len(s) \in Nat /\ Len(s) # 0 /\ DOMAIN s = 1..Len(s)
  BY SequenceFacts
<1>2. Head(s) = s[1] /\ 1 \in DOMAIN s
  BY <1>1 DEF IsSequence
<1>3. /\ Tail(s) \in Seq(ToSet(s)) /\ Len(Tail(s)) = Len(s) - 1
      /\ \A i \in 1..Len(Tail(s)) : Tail(s)[i] = s[i + 1]
  BY HeadTailProperties DEF IsSequence
<1>4. IsSequence(Tail(s)) /\ ToSet(Tail(s)) \subseteq ToSet(s)
  BY <1>3, SequenceOf
<1>5. \A i \in 1..Len(Tail(s)) : i + 1 \in 1..Len(s)
  BY <1>1, <1>3
<1>6. Head(s) \in ToSet(s)
  BY <1>2 DEF ToSet
<1> QED BY <1>1, <1>2, <1>3, <1>4, <1>5, <1>6

\* Appending adds one element, the last.
LEMMA AppendFacts ==
  ASSUME NEW s, IsSequence(s), NEW e
  PROVE  /\ IsSequence(Append(s, e))
         /\ Len(Append(s, e)) = Len(s) + 1
         /\ \A i \in 1..Len(s) : Append(s, e)[i] = s[i]
         /\ Append(s, e)[Len(s) + 1] = e
         /\ ToSet(Append(s, e)) = ToSet(s) \cup {e}
<1> DEFINE S == ToSet(s) \cup {e}
<1>1. s \in Seq(S) /\ e \in S
  BY SeqMonotonic DEF IsSequence
<1>2. /\ Append(s, e) \in Seq(S) /\ Len(Append(s, e)) = Len(s) + 1
      /\ \A i \in 1..Len(s) : Append(s, e)[i] = s[i]
      /\ Append(s, e)[Len(s) + 1] = e
  BY <1>1, AppendProperties
<1>3. /\ IsSequence(Append(s, e)) /\ ToSet(Append(s, e)) \subseteq S
      /\ DOMAIN Append(s, e) = 1..(Len(s) + 1)
      /\ Len(s) \in Nat /\ DOMAIN s = 1..Len(s)
  BY <1>1, <1>2, SequenceOf
<1>4. S \subseteq ToSet(Append(s, e))
  BY <1>2, <1>3 DEF ToSet
<1> QED BY <1>2, <1>3, <1>4

\* A replaced element leaves a sequence a sequence.
LEMMA SequenceReplaced ==
  ASSUME NEW s, IsSequence(s), NEW i, NEW e
  PROVE  IsSequence([s EXCEPT ![i] = e])
<1> DEFINE t == [s EXCEPT ![i] = e]
<1>1. Len(s) \in Nat /\ DOMAIN t = 1..Len(s)
  BY SequenceFacts
<1>2. \A n \in DOMAIN t : t[n] \in ToSet(t)
  BY DEF ToSet
<1>3. t = [n \in DOMAIN t |-> t[n]]
  OBVIOUS
<1> HIDE DEF t
<1>4. t \in [1..Len(s) -> ToSet(t)]
  BY <1>1, <1>2, <1>3
<1>5. t \in Seq(ToSet(t))
  BY <1>1, <1>4, SeqDef
<1> QED BY <1>5 DEF IsSequence, t

(***************************************************************************)
(* What the operations of the builder keep.                                *)
(***************************************************************************)
\* What an edge binds, it binds when there are more blocks.
LEMMA TakesKept ==
  ASSUME NEW b, NEW c, Grows(b, c)
  PROVE  /\ \A n, a : Takes(b, n, a) => Takes(c, n, a)
         /\ \A term : Binds(b, term) => Binds(c, term)
<1>1. ASSUME NEW n, NEW a, Takes(b, n, a)
      PROVE  Takes(c, n, a)
  BY <1>1 DEF Takes, Grows
<1>2. ASSUME NEW term, Binds(b, term)
      PROVE  Binds(c, term)
  BY <1>1, <1>2 DEF Binds
<1> QED BY <1>1, <1>2

\* Statements and locals change nothing that the control flow depends on.
LEMMA LikeKeeps ==
  ASSUME NEW b, NEW c, Built(b), Like(b, c)
  PROVE  /\ Built(c) /\ Waiting(c) = Waiting(b) /\ c.current = b.current
         /\ Grows(b, c) /\ Len(c.blocks) = Len(b.blocks)
         /\ Edges(b) => Edges(c)
<1>1. Built(c) /\ Waiting(c) = Waiting(b) /\ c.current = b.current
  BY DEF Built, Like, Waiting
<1>2. Grows(b, c)
  BY DEF Grows, Like
<1>3. Len(c.blocks) = Len(b.blocks)
  BY SequenceFacts DEF Built, Like, AreBlocks
<1>4. Edges(b) => Edges(c)
  BY <1>2, TakesKept DEF Edges, Like
<1> QED BY <1>1, <1>2, <1>3, <1>4

\* None is never a block.
LEMMA NoneNoBlock ==
  ASSUME NEW b, Built(b)
  PROVE  None \notin DOMAIN b.blocks
BY NoneIsNoBlock, SequenceFacts DEF Built, AreBlocks

LEMMA LikeTransitive ==
  ASSUME NEW b, NEW c, NEW d, Like(b, c), Like(c, d)
  PROVE  Like(b, d)
BY DEF Like

LEMMA NewTempLike ==
  ASSUME NEW b, Built(b)
  PROVE  Like(b, new_temp(b)) /\ Built(new_temp(b))
<1>1. Like(b, new_temp(b))
  BY DEF Built, Like, new_temp, BuilderFields
<1> QED BY <1>1, LikeKeeps

LEMMA PushLike ==
  ASSUME NEW b, NEW st, Built(b)
  PROVE  Like(b, push_stmt(b, st)) /\ Built(push_stmt(b, st))
<1> DEFINE c == push_stmt(b, st)
<1>1. ASSUME b.current = None PROVE Like(b, c)
  BY <1>1 DEF Built, Like, push_stmt, BuilderFields
<1>2. ASSUME b.current # None PROVE Like(b, c)
  <2> DEFINE r == b.blocks[b.current]
  <2>1. b.current \in DOMAIN b.blocks
    BY <1>2 DEF Built
  <2>2. /\ c.blocks = [b.blocks EXCEPT ![b.current] = [r EXCEPT !.stmts = Append(r.stmts, st)]]
        /\ DOMAIN c = BuilderFields /\ c.current = b.current /\ c.ended = b.ended
    BY <1>2 DEF Built, push_stmt, BuilderFields
  <2>3. DOMAIN c.blocks = DOMAIN b.blocks
    BY <2>2
  <2>4. \A n \in DOMAIN b.blocks : /\ DOMAIN c.blocks[n] = {"args", "stmts", "term"}
                                   /\ c.blocks[n].args = b.blocks[n].args
                                   /\ c.blocks[n].term = b.blocks[n].term
    BY <2>2 DEF Built, AreBlocks
  <2>5. IsSequence(c.blocks)
    <3>1. IsSequence(b.blocks) BY DEF Built, AreBlocks
    <3> DEFINE e == [r EXCEPT !.stmts = Append(r.stmts, st)]
    <3> HIDE DEF e
    <3>2. IsSequence([b.blocks EXCEPT ![b.current] = e])
      BY <3>1, SequenceReplaced
    <3> QED BY <3>2, <2>2 DEF e
  <2>6. AreBlocks(c.blocks)
    BY <2>3, <2>4, <2>5 DEF AreBlocks
  <2>7. DOMAIN c = BuilderFields /\ c.current = b.current /\ c.ended = b.ended
    BY <2>2
  <2> HIDE DEF c
  <2> QED BY <2>3, <2>4, <2>6, <2>7 DEF Like
<1>3. Like(b, c)
  BY <1>1, <1>2
<1> QED BY <1>3, LikeKeeps

LEMMA PushAssignLike ==
  ASSUME NEW b, NEW place, NEW rv, Built(b)
  PROVE  Like(b, push_assign(b, place, rv)) /\ Built(push_assign(b, place, rv))
BY PushLike DEF push_assign

\* A reserved block is new and waits.
LEMMA Reserved ==
  ASSUME NEW b, NEW a \in {0, 1}, Built(b)
  PROVE  LET c == reserve_block_with_args(b, a)
             n == Len(b.blocks) + 1
         IN  /\ Built(c) /\ c.current = b.current
             /\ Len(b.blocks) \in Nat /\ Len(c.blocks) = n
             /\ n \notin DOMAIN b.blocks /\ Waiting(c) = Waiting(b) \cup {n}
             /\ Grows(b, c) /\ Takes(c, n, a)
             /\ Edges(b) => Edges(c)
<1> DEFINE c == reserve_block_with_args(b, a)
           n == Len(b.blocks) + 1
           new == BasicBlock([i \in 1..a |-> b.locals + i], << >>, Unreachable)
<1>1. /\ c.blocks = Append(b.blocks, new) /\ DOMAIN c = BuilderFields
      /\ c.current = b.current /\ c.ended = b.ended
  BY DEF Built, reserve_block_with_args, BuilderFields
<1>2. Len(new.args) = a /\ new.term.edges = << >> /\ DOMAIN new = {"args", "stmts", "term"}
  BY DEF BasicBlock, Unreachable, Terminator
<1>3. IsSequence(b.blocks) /\ Len(b.blocks) \in Nat /\ DOMAIN b.blocks = 1..Len(b.blocks)
  BY SequenceFacts DEF Built, AreBlocks
<1>4. /\ IsSequence(c.blocks) /\ Len(c.blocks) = n /\ DOMAIN c.blocks = 1..n
      /\ \A i \in DOMAIN b.blocks : c.blocks[i] = b.blocks[i]
      /\ c.blocks[n] = new
  BY <1>1, <1>3, AppendFacts, SequenceFacts
<1>5. n \notin DOMAIN b.blocks /\ DOMAIN c.blocks = DOMAIN b.blocks \cup {n} /\ n # None
  BY <1>3, <1>4, NoneIsNoBlock
<1> HIDE DEF c, n, new
<1>6. AreBlocks(c.blocks)
  BY <1>2, <1>4, <1>5 DEF Built, AreBlocks
<1>7. Built(c)
  BY <1>1, <1>5, <1>6 DEF Built
<1>8. Waiting(c) = Waiting(b) \cup {n}
  BY <1>1, <1>5 DEF Built, Waiting
<1>9. Grows(b, c) /\ Takes(c, n, a)
  BY <1>2, <1>4, <1>5 DEF Grows, Takes
<1>10. ASSUME Edges(b) PROVE Edges(c)
  <2>1. \A i \in DOMAIN b.blocks : Binds(c, c.blocks[i].term)
    BY <1>4, <1>9, <1>10, TakesKept DEF Edges
  <2>2. Binds(c, c.blocks[n].term)
    BY <1>2, <1>4 DEF Binds
  <2> QED BY <1>5, <2>1, <2>2 DEF Edges
<1> QED BY <1>1, <1>3, <1>4, <1>5, <1>7, <1>8, <1>9, <1>10 DEF c, n

\* A terminator ends the current block if there is one; no block starts to wait.
LEMMA Ended ==
  ASSUME NEW b, NEW term, Built(b)
  PROVE  LET c == set_terminator(b, term)
         IN  /\ Built(c) /\ c.current = None /\ Waiting(c) = Waiting(b)
             /\ Len(c.blocks) = Len(b.blocks) /\ Grows(b, c)
             /\ Edges(b) /\ Binds(b, term) => Edges(c)
<1> DEFINE c == set_terminator(b, term)
<1>1. CASE b.current = None
  <2>1. /\ DOMAIN c = BuilderFields /\ c.blocks = b.blocks
        /\ c.current = b.current /\ c.ended = b.ended
    BY <1>1 DEF Built, set_terminator, BuilderFields
  <2>2. Like(b, c)
    BY <2>1 DEF Built, Like
  <2> QED BY <1>1, <2>2, LikeKeeps
<1>2. CASE b.current # None
  <2> DEFINE r == b.blocks[b.current]
  <2>1. b.current \in DOMAIN b.blocks /\ b.current \notin ToSet(b.ended)
    BY <1>2 DEF Built
  <2>2. /\ c.blocks = [b.blocks EXCEPT ![b.current] = [r EXCEPT !.term = term]]
        /\ DOMAIN c = BuilderFields /\ c.current = None /\ c.ended = Append(b.ended, b.current)
    BY <1>2 DEF Built, set_terminator, BuilderFields
  <2>3. DOMAIN c.blocks = DOMAIN b.blocks
    BY <2>2
  <2>4. \A n \in DOMAIN b.blocks : /\ DOMAIN c.blocks[n] = {"args", "stmts", "term"}
                                   /\ c.blocks[n].args = b.blocks[n].args
                                   /\ c.blocks[n].term = IF n = b.current THEN term ELSE b.blocks[n].term
    BY <2>2 DEF Built, AreBlocks
  <2>5. IsSequence(c.blocks)
    <3>1. IsSequence(b.blocks) BY DEF Built, AreBlocks
    <3> DEFINE e == [r EXCEPT !.term = term]
    <3> HIDE DEF e
    <3>2. IsSequence([b.blocks EXCEPT ![b.current] = e])
      BY <3>1, SequenceReplaced
    <3> QED BY <3>2, <2>2 DEF e
  <2>6. /\ IsSequence(c.ended) /\ ToSet(c.ended) = ToSet(b.ended) \cup {b.current}
    BY <2>2, AppendFacts DEF Built
  <2>7. IsInjective(c.ended)
    <3>1. /\ Len(b.ended) \in Nat /\ DOMAIN b.ended = 1..Len(b.ended)
          /\ DOMAIN c.ended = 1..(Len(b.ended) + 1)
          /\ \A i \in 1..Len(b.ended) : c.ended[i] = b.ended[i] /\ b.ended[i] \in ToSet(b.ended)
          /\ c.ended[Len(b.ended) + 1] = b.current
      BY <2>2, <2>6, AppendFacts, SequenceFacts DEF Built
    <3>2. \A i, j \in 1..Len(b.ended) : b.ended[i] = b.ended[j] => i = j
      BY <3>1 DEF Built, IsInjective
    <3>3. \A i \in DOMAIN c.ended : i \in 1..Len(b.ended) \/ i = Len(b.ended) + 1
      BY <3>1
    <3> QED BY <2>1, <3>1, <3>2, <3>3 DEF IsInjective
  <2>8. Built(c)
    <3>1. AreBlocks(c.blocks)
      BY <2>3, <2>4, <2>5 DEF AreBlocks
    <3>2. ToSet(c.ended) \subseteq DOMAIN c.blocks
      BY <2>1, <2>3, <2>6 DEF Built
    <3>3. None \notin ToSet(c.ended)
      BY <3>2, <2>3, NoneNoBlock
    <3> HIDE DEF c
    <3> QED BY <2>2, <2>6, <2>7, <3>1, <3>2, <3>3 DEF Built
  <2>9. Waiting(c) = Waiting(b) /\ Grows(b, c)
    BY <1>2, <2>2, <2>3, <2>4, <2>6, NoneNoBlock DEF Waiting, Grows
  <2>10. Len(c.blocks) = Len(b.blocks)
    BY <2>3, <2>5, SequenceFacts DEF Built, AreBlocks
  <2>11. Edges(b) /\ Binds(b, term) => Edges(c)
    <3> SUFFICES ASSUME Edges(b), Binds(b, term), NEW n \in DOMAIN c.blocks
                 PROVE  Binds(c, c.blocks[n].term)
      BY DEF Edges
    <3>1. Binds(b, c.blocks[n].term)
      BY <2>3, <2>4 DEF Edges
    <3> QED BY <3>1, <2>9, TakesKept
  <2> QED BY <2>2, <2>8, <2>9, <2>10, <2>11
<1> QED BY <1>1, <1>2

\* A waiting block becomes the current one.
LEMMA Switched ==
  ASSUME NEW b, Built(b), b.current = None, NEW n \in Waiting(b)
  PROVE  LET c == switch_to_block(b, n)
         IN  /\ Built(c) /\ c.current = n /\ Waiting(c) = Waiting(b) \ {n}
             /\ Len(c.blocks) = Len(b.blocks) /\ Grows(b, c)
             /\ Edges(b) => Edges(c)
<1> DEFINE c == switch_to_block(b, n)
<1>1. /\ DOMAIN c = BuilderFields /\ c.blocks = b.blocks
      /\ c.current = n /\ c.ended = b.ended
  BY DEF Built, switch_to_block, BuilderFields
<1>2. n \in DOMAIN b.blocks /\ n \notin ToSet(b.ended)
  BY DEF Waiting
<1>3. Built(c)
  BY <1>1, <1>2 DEF Built
<1>4. Waiting(c) = Waiting(b) \ {n}
  BY <1>1, NoneNoBlock DEF Waiting
<1>5. Grows(b, c) /\ (Edges(b) => Edges(c))
  BY <1>1 DEF Grows, Edges, Binds, Takes
<1> QED BY <1>1, <1>3, <1>4, <1>5

(***************************************************************************)
(* What the tasks share, their order and the loops among them, when the    *)
(* first is replaced by others.                                            *)
(***************************************************************************)
LEMMA SharesTail ==
  ASSUME NEW q, NEW W, IsSequence(q), q # << >>, Shares(q, W)
  PROVE  /\ Owned(Head(q)) \subseteq W
         /\ Shares(Tail(q), W \ Owned(Head(q)))
<1>1. /\ Len(q) \in Nat /\ DOMAIN q = 1..Len(q) /\ Len(q) >= 1 /\ Head(q) = q[1]
      /\ Len(Tail(q)) = Len(q) - 1 /\ DOMAIN Tail(q) = 1..Len(Tail(q))
      /\ \A i \in DOMAIN Tail(q) : Tail(q)[i] = q[i + 1] /\ i + 1 \in DOMAIN q /\ i + 1 # 1
  BY TailFacts, SequenceFacts
<1>2. Owned(Head(q)) \subseteq W
  BY <1>1 DEF Shares
<1>3. \A i \in DOMAIN Tail(q) : Owned(Tail(q)[i]) \subseteq W \ Owned(Head(q))
  BY <1>1 DEF Shares
<1>4. \A i, j \in DOMAIN Tail(q) : i # j => Owned(Tail(q)[i]) \cap Owned(Tail(q)[j]) = {}
  <2> SUFFICES ASSUME NEW i \in DOMAIN Tail(q), NEW j \in DOMAIN Tail(q), i # j
               PROVE  Owned(q[i + 1]) \cap Owned(q[j + 1]) = {}
    BY <1>1
  <2>1. i + 1 # j + 1 BY <1>1
  <2> QED BY <1>1, <2>1 DEF Shares
<1>5. \A n \in W \ Owned(Head(q)) : \E i \in DOMAIN Tail(q) : n \in Owned(Tail(q)[i])
  <2> TAKE n \in W \ Owned(Head(q))
  <2>1. PICK i \in DOMAIN q : n \in Owned(q[i])
    BY DEF Shares
  <2>2. i # 1
    BY <1>1, <2>1
  <2>3. i - 1 \in DOMAIN Tail(q) /\ (i - 1) + 1 = i
    BY <1>1, <2>2
  <2> QED BY <1>1, <2>1, <2>3
<1> QED BY <1>2, <1>3, <1>4, <1>5 DEF Shares

LEMMA SharesConcat ==
  ASSUME NEW s, NEW t, NEW X, NEW Y, IsSequence(s), IsSequence(t),
         Shares(s, X), Shares(t, Y), X \cap Y = {}
  PROVE  Shares(s \o t, X \cup Y)
<1> DEFINE r == s \o t
<1>1. /\ Len(s) \in Nat /\ DOMAIN s = 1..Len(s) /\ Len(t) \in Nat /\ DOMAIN t = 1..Len(t)
      /\ Len(r) = Len(s) + Len(t) /\ DOMAIN r = 1..Len(r)
  BY SequenceFacts, ConcatFacts
<1>2. /\ \A i \in DOMAIN s : i \in DOMAIN r /\ r[i] = s[i]
      /\ \A i \in DOMAIN t : Len(s) + i \in DOMAIN r /\ r[Len(s) + i] = t[i]
  BY <1>1, ConcatFacts
<1>3. \A i \in DOMAIN r :
        \/ i \in DOMAIN s /\ r[i] = s[i]
        \/ i - Len(s) \in DOMAIN t /\ r[i] = t[i - Len(s)]
  BY <1>1, ConcatFacts
<1> HIDE DEF r
<1>4. \A i \in DOMAIN r : Owned(r[i]) \subseteq X \cup Y
  BY <1>3 DEF Shares
<1>5. \A i, j \in DOMAIN r : i # j => Owned(r[i]) \cap Owned(r[j]) = {}
  <2> SUFFICES ASSUME NEW i \in DOMAIN r, NEW j \in DOMAIN r, i # j
               PROVE  Owned(r[i]) \cap Owned(r[j]) = {}
    OBVIOUS
  <2>1. CASE i \in DOMAIN s /\ r[i] = s[i] /\ j \in DOMAIN s /\ r[j] = s[j]
    BY <2>1 DEF Shares
  <2>2. CASE i \in DOMAIN s /\ r[i] = s[i] /\ j - Len(s) \in DOMAIN t /\ r[j] = t[j - Len(s)]
    BY <2>2 DEF Shares
  <2>3. CASE i - Len(s) \in DOMAIN t /\ r[i] = t[i - Len(s)] /\ j \in DOMAIN s /\ r[j] = s[j]
    BY <2>3 DEF Shares
  <2>4. CASE i - Len(s) \in DOMAIN t /\ r[i] = t[i - Len(s)] /\ j - Len(s) \in DOMAIN t /\ r[j] = t[j - Len(s)]
    <3>1. i - Len(s) # j - Len(s)
      BY <1>1
    <3> QED BY <2>4, <3>1 DEF Shares
  <2> QED BY <1>3, <2>1, <2>2, <2>3, <2>4
<1>6. \A n \in X \cup Y : \E i \in DOMAIN r : n \in Owned(r[i])
  BY <1>2 DEF Shares
<1> QED BY <1>4, <1>5, <1>6 DEF Shares, r

\* Plain tasks own nothing.
LEMMA SharesPlain ==
  ASSUME NEW s, \A t \in ToSet(s) : Plain(t)
  PROVE  Shares(s, {}) /\ Ordered(s) /\ Ends(s) = {}
<1>1. \A i \in DOMAIN s : Plain(s[i])
  BY DEF ToSet
<1>2. \A i \in DOMAIN s : Owned(s[i]) = {} /\ ~Resumes(s[i]) /\ s[i].do # "end_loop"
  BY <1>1 DEF Plain, Owned, Resumes
<1> QED BY <1>2 DEF Shares, Ordered, Ends

LEMMA OrderedTail ==
  ASSUME NEW q, IsSequence(q), q # << >>, Ordered(q)
  PROVE  /\ Ordered(Tail(q))
         /\ Head(q).do # "end_branch" => Tail(q) = << >> \/ ~Resumes(Tail(q)[1])
<1>1. /\ Len(q) \in Nat /\ DOMAIN q = 1..Len(q) /\ Len(q) >= 1 /\ Head(q) = q[1]
      /\ Len(Tail(q)) = Len(q) - 1 /\ DOMAIN Tail(q) = 1..Len(Tail(q))
      /\ Tail(q) = << >> <=> Len(Tail(q)) = 0
      /\ \A i \in DOMAIN Tail(q) : Tail(q)[i] = q[i + 1] /\ i + 1 \in DOMAIN q
  BY TailFacts, SequenceFacts
<1>2. Ordered(Tail(q))
  <2> SUFFICES ASSUME NEW i \in DOMAIN Tail(q), Resumes(Tail(q)[i]), i > 1
               PROVE  Tail(q)[i - 1].do = "end_branch"
    BY DEF Ordered
  <2>1. i - 1 \in DOMAIN Tail(q) /\ (i - 1) + 1 = i /\ (i + 1) - 1 = i /\ i + 1 > 1
    BY <1>1
  <2>2. q[(i + 1) - 1].do = "end_branch"
    BY <1>1, <2>1 DEF Ordered
  <2> QED BY <1>1, <2>1, <2>2
<1>3. ASSUME Head(q).do # "end_branch", Tail(q) # << >>
      PROVE  ~Resumes(Tail(q)[1])
  <2>1. 1 \in DOMAIN Tail(q) /\ Tail(q)[1] = q[2] /\ 2 \in DOMAIN q /\ q[2 - 1] = Head(q)
    BY <1>1, <1>3
  <2> QED BY <1>3, <2>1 DEF Ordered
<1> QED BY <1>2, <1>3

LEMMA OrderedConcat ==
  ASSUME NEW s, NEW t, IsSequence(s), IsSequence(t), Ordered(s), Ordered(t),
         t = << >> \/ ~Resumes(t[1])
  PROVE  Ordered(s \o t)
<1> DEFINE r == s \o t
<1>1. /\ Len(s) \in Nat /\ DOMAIN s = 1..Len(s) /\ Len(t) \in Nat /\ DOMAIN t = 1..Len(t)
      /\ Len(r) = Len(s) + Len(t) /\ DOMAIN r = 1..Len(r)
      /\ t = << >> <=> Len(t) = 0
  BY SequenceFacts, ConcatFacts
<1>2. /\ \A i \in 1..Len(s) : r[i] = s[i]
      /\ \A i \in 1..Len(t) : r[Len(s) + i] = t[i]
  BY ConcatFacts
<1> SUFFICES ASSUME NEW i \in DOMAIN r, Resumes(r[i]), i > 1
             PROVE  r[i - 1].do = "end_branch"
  BY DEF Ordered
<1> HIDE DEF r
<1>3. CASE i <= Len(s)
  <2>1. i \in DOMAIN s /\ i - 1 \in 1..Len(s) /\ r[i] = s[i] /\ r[i - 1] = s[i - 1]
    BY <1>1, <1>2, <1>3
  <2> QED BY <2>1 DEF Ordered
<1>4. CASE i > Len(s)
  <2> DEFINE k == i - Len(s)
  <2>1. k \in 1..Len(t) /\ Len(s) + k = i
    BY <1>1, <1>4
  <2>2. r[i] = t[k] /\ k # 1
    BY <1>1, <1>2, <2>1
  <2>3. k - 1 \in 1..Len(t) /\ Len(s) + (k - 1) = i - 1 /\ k > 1
    BY <1>1, <2>1, <2>2
  <2> QED BY <1>1, <1>2, <2>1, <2>2, <2>3 DEF Ordered
<1> QED BY <1>1, <1>3, <1>4

\* The ends of the loops may move together.
LEMMA NestedShift ==
  ASSUME NEW q, NEW r, NEW ls, NEW d \in Int, IsSequence(q), IsSequence(r),
         Nested(q, ls),
         \A i \in Ends(q) : i + d \in Ends(r) /\ r[i + d] = q[i],
         \A i \in Ends(r) : i - d \in Ends(q)
  PROVE  Nested(r, ls)
<1>1. PICK at \in [DOMAIN ls -> Ends(q)] :
        /\ \A i \in Ends(q) : \E n \in DOMAIN ls : at[n] = i
        /\ \A m, n \in DOMAIN ls : m < n => at[m] > at[n]
        /\ \A n \in DOMAIN ls : ls[n] = [continue |-> q[at[n]].continue, break |-> q[at[n]].break]
  BY DEF Nested
<1>2. Ends(q) \subseteq Int /\ Ends(r) \subseteq Int
  BY SequenceFacts DEF Ends
<1> DEFINE to == [n \in DOMAIN ls |-> at[n] + d]
<1>3. \A n \in DOMAIN ls : at[n] \in Ends(q) /\ at[n] \in Int /\ to[n] = at[n] + d
  BY <1>2
<1>4. to \in [DOMAIN ls -> Ends(r)]
  BY <1>3
<1>5. \A i \in Ends(r) : \E n \in DOMAIN ls : to[n] = i
  <2> TAKE i \in Ends(r)
  <2>1. PICK n \in DOMAIN ls : at[n] = i - d
    BY <1>1
  <2>2. to[n] = i
    BY <1>2, <1>3, <2>1
  <2> QED BY <2>2
<1>6. \A m, n \in DOMAIN ls : m < n => to[m] > to[n]
  BY <1>1, <1>3
<1>7. \A n \in DOMAIN ls : ls[n] = [continue |-> r[to[n]].continue, break |-> r[to[n]].break]
  BY <1>1, <1>3
<1> HIDE DEF to
<1> QED BY <1>4, <1>5, <1>6, <1>7 DEF Nested

LEMMA NestedTail ==
  ASSUME NEW q, NEW ls, IsSequence(q), q # << >>, Nested(q, ls), Head(q).do # "end_loop"
  PROVE  Nested(Tail(q), ls)
<1>1. /\ Len(q) \in Nat /\ DOMAIN q = 1..Len(q) /\ Len(q) >= 1 /\ Head(q) = q[1]
      /\ Len(Tail(q)) = Len(q) - 1 /\ DOMAIN Tail(q) = 1..Len(Tail(q)) /\ IsSequence(Tail(q))
      /\ \A i \in DOMAIN Tail(q) : Tail(q)[i] = q[i + 1] /\ i + 1 \in DOMAIN q
  BY TailFacts, SequenceFacts
<1>2. \A i \in Ends(q) : i + (-1) \in Ends(Tail(q)) /\ Tail(q)[i + (-1)] = q[i]
  <2> TAKE i \in Ends(q)
  <2>1. i \in 1..Len(q) /\ i # 1 /\ q[i].do = "end_loop"
    BY <1>1 DEF Ends
  <2>2. i + (-1) \in DOMAIN Tail(q) /\ (i + (-1)) + 1 = i
    BY <1>1, <2>1
  <2> QED BY <1>1, <2>1, <2>2 DEF Ends
<1>3. \A i \in Ends(Tail(q)) : i - (-1) \in Ends(q)
  <2> TAKE i \in Ends(Tail(q))
  <2>1. i \in DOMAIN Tail(q) /\ i - (-1) = i + 1
    BY <1>1 DEF Ends
  <2> QED BY <1>1, <2>1 DEF Ends
<1>4. -1 \in Int
  OBVIOUS
<1> QED BY <1>1, <1>2, <1>3, <1>4, NestedShift

LEMMA NestedConcat ==
  ASSUME NEW s, NEW q, NEW ls, IsSequence(s), IsSequence(q), Nested(q, ls), Ends(s) = {}
  PROVE  Nested(s \o q, ls)
<1> DEFINE r == s \o q
<1>1. /\ Len(s) \in Nat /\ DOMAIN s = 1..Len(s) /\ Len(q) \in Nat /\ DOMAIN q = 1..Len(q)
      /\ Len(r) = Len(s) + Len(q) /\ DOMAIN r = 1..Len(r) /\ IsSequence(r)
  BY SequenceFacts, ConcatFacts
<1>2. /\ \A i \in 1..Len(s) : r[i] = s[i]
      /\ \A i \in 1..Len(q) : r[Len(s) + i] = q[i]
  BY ConcatFacts
<1> HIDE DEF r
<1>3. \A i \in Ends(q) : i + Len(s) \in Ends(r) /\ r[i + Len(s)] = q[i]
  <2> TAKE i \in Ends(q)
  <2>1. i \in 1..Len(q) /\ i + Len(s) \in DOMAIN r /\ i + Len(s) = Len(s) + i
    BY <1>1 DEF Ends
  <2> QED BY <1>2, <2>1 DEF Ends
<1>4. \A i \in Ends(r) : i - Len(s) \in Ends(q)
  <2> TAKE i \in Ends(r)
  <2>1. i \in 1..Len(r) /\ r[i].do = "end_loop"
    BY <1>1 DEF Ends
  <2>2. ~(i <= Len(s))
    BY <1>1, <1>2, <2>1 DEF Ends
  <2>3. i - Len(s) \in 1..Len(q) /\ Len(s) + (i - Len(s)) = i
    BY <1>1, <2>1, <2>2
  <2> QED BY <1>1, <1>2, <2>1, <2>3 DEF Ends
<1>5. Len(s) \in Int
  BY <1>1
<1> QED BY <1>1, <1>3, <1>4, <1>5, NestedShift DEF r

\* A loop begins: its end is the first of the tasks, its entry the last.
LEMMA NestedPush ==
  ASSUME NEW e, NEW q, NEW ls, IsSequence(q), IsSequence(ls), Nested(q, ls), e.do = "end_loop"
  PROVE  Nested(<< e >> \o q, Append(ls, [continue |-> e.continue, break |-> e.break]))
<1> DEFINE r == << e >> \o q
           top == [continue |-> e.continue, break |-> e.break]
           ms == Append(ls, top)
<1>1. IsSequence(<< e >>) /\ Len(<< e >>) = 1 /\ << e >>[1] = e
  BY DEF IsSequence, ToSet
<1>2. /\ Len(q) \in Nat /\ DOMAIN q = 1..Len(q)
      /\ Len(r) = Len(q) + 1 /\ DOMAIN r = 1..Len(r) /\ IsSequence(r)
      /\ r[1] = e /\ \A i \in DOMAIN q : r[1 + i] = q[i]
  BY <1>1, SequenceFacts, ConcatFacts
<1>3. /\ Len(ls) \in Nat /\ DOMAIN ls = 1..Len(ls) /\ DOMAIN ms = 1..(Len(ls) + 1)
      /\ \A n \in DOMAIN ls : ms[n] = ls[n]
      /\ ms[Len(ls) + 1] = top
  BY SequenceFacts, AppendFacts
<1>4. PICK at \in [DOMAIN ls -> Ends(q)] :
        /\ \A i \in Ends(q) : \E n \in DOMAIN ls : at[n] = i
        /\ \A m, n \in DOMAIN ls : m < n => at[m] > at[n]
        /\ \A n \in DOMAIN ls : ls[n] = [continue |-> q[at[n]].continue, break |-> q[at[n]].break]
  BY DEF Nested
<1> DEFINE to == [n \in DOMAIN ms |-> IF n \in DOMAIN ls THEN at[n] + 1 ELSE 1]
<1> HIDE DEF r, ms
<1>5. /\ Ends(q) \subseteq 1..Len(q)
      /\ \A i \in Ends(q) : i + 1 \in Ends(r) /\ r[i + 1] = q[i]
      /\ 1 \in Ends(r)
      /\ \A i \in Ends(r) : i = 1 \/ i - 1 \in Ends(q)
  <2>1. Ends(q) \subseteq 1..Len(q)
    BY <1>2 DEF Ends
  <2>2. \A i \in Ends(q) : i + 1 \in Ends(r) /\ r[i + 1] = q[i]
    <3> TAKE i \in Ends(q)
    <3>1. i \in DOMAIN q /\ i + 1 \in DOMAIN r /\ i + 1 = 1 + i
      BY <1>2 DEF Ends
    <3> QED BY <1>2, <3>1 DEF Ends
  <2>3. 1 \in Ends(r)
    BY <1>2 DEF Ends
  <2>4. ASSUME NEW i \in Ends(r), i # 1 PROVE i - 1 \in Ends(q)
    <3>1. i - 1 \in DOMAIN q /\ 1 + (i - 1) = i
      BY <1>2, <2>4 DEF Ends
    <3> QED BY <1>2, <3>1 DEF Ends
  <2> QED BY <2>1, <2>2, <2>3, <2>4
<1>6. \A n \in DOMAIN ls : at[n] \in Ends(q) /\ at[n] \in 1..Len(q)
  BY <1>5
<1>7. /\ \A n \in DOMAIN ls : n \in DOMAIN ms /\ to[n] = at[n] + 1 /\ n < Len(ls) + 1 /\ n # Len(ls) + 1
      /\ Len(ls) + 1 \in DOMAIN ms /\ to[Len(ls) + 1] = 1
      /\ \A n \in DOMAIN ms : n \in DOMAIN ls \/ n = Len(ls) + 1
  BY <1>3
<1>8. to \in [DOMAIN ms -> Ends(r)]
  BY <1>5, <1>6
<1> HIDE DEF to
<1>9. \A i \in Ends(r) : \E n \in DOMAIN ms : to[n] = i
  <2> TAKE i \in Ends(r)
  <2>1. CASE i = 1
    BY <1>7, <2>1
  <2>2. CASE i # 1
    <3>1. i - 1 \in Ends(q) /\ (i - 1) + 1 = i
      BY <1>2, <1>5, <2>2 DEF Ends
    <3>2. PICK n \in DOMAIN ls : at[n] = i - 1
      BY <1>4, <3>1
    <3> QED BY <1>7, <3>1, <3>2
  <2> QED BY <2>1, <2>2
<1>10. ASSUME NEW m \in DOMAIN ms, NEW n \in DOMAIN ms, m < n
       PROVE  to[m] > to[n]
  <2>1. m \in DOMAIN ls
    BY <1>3, <1>10
  <2>2. CASE n \in DOMAIN ls
    BY <1>4, <1>6, <1>7, <1>10, <2>1, <2>2
  <2>3. CASE n = Len(ls) + 1
    BY <1>2, <1>6, <1>7, <2>1, <2>3
  <2> QED BY <1>7, <2>2, <2>3
<1>11. ASSUME NEW n \in DOMAIN ms
       PROVE  ms[n] = [continue |-> r[to[n]].continue, break |-> r[to[n]].break]
  <2>1. CASE n \in DOMAIN ls
    BY <1>3, <1>4, <1>5, <1>6, <1>7, <2>1
  <2>2. CASE n = Len(ls) + 1
    BY <1>2, <1>3, <1>7, <2>2
  <2> QED BY <1>7, <2>1, <2>2
<1>12. Nested(r, ms)
  BY <1>8, <1>9, <1>10, <1>11 DEF Nested
<1> QED BY <1>12 DEF r, ms

\* A loop ends: its entry is the last.
LEMMA NestedPop ==
  ASSUME NEW q, NEW ls, IsSequence(q), q # << >>, IsSequence(ls), Nested(q, ls),
         Head(q).do = "end_loop"
  PROVE  IsSequence(Front(ls)) /\ Nested(Tail(q), Front(ls))
<1> DEFINE r == Tail(q)
           ms == Front(ls)
<1>1. /\ Len(q) \in Nat /\ DOMAIN q = 1..Len(q) /\ Len(q) >= 1 /\ q[1].do = "end_loop"
      /\ Len(r) = Len(q) - 1 /\ DOMAIN r = 1..Len(r)
      /\ \A i \in DOMAIN r : r[i] = q[i + 1] /\ i + 1 \in DOMAIN q
  BY TailFacts, SequenceFacts
<1>2. PICK at \in [DOMAIN ls -> Ends(q)] :
        /\ \A i \in Ends(q) : \E n \in DOMAIN ls : at[n] = i
        /\ \A m, n \in DOMAIN ls : m < n => at[m] > at[n]
        /\ \A n \in DOMAIN ls : ls[n] = [continue |-> q[at[n]].continue, break |-> q[at[n]].break]
  BY DEF Nested
<1>3. Len(ls) \in Nat /\ DOMAIN ls = 1..Len(ls)
  BY SequenceFacts
<1>4. \A n \in DOMAIN ls : at[n] \in Ends(q) /\ at[n] \in 1..Len(q)
  BY <1>1 DEF Ends
<1>5. PICK last \in DOMAIN ls : at[last] = 1
  <2>1. 1 \in Ends(q) BY <1>1 DEF Ends
  <2> QED BY <1>2, <2>1
<1>6. last = Len(ls)
  <2> SUFFICES ASSUME last < Len(ls) PROVE FALSE
    BY <1>3
  <2>1. Len(ls) \in DOMAIN ls
    BY <1>3
  <2>2. at[last] > at[Len(ls)] /\ at[Len(ls)] \in 1..Len(q)
    BY <1>2, <1>4, <2>1
  <2> QED BY <1>1, <1>5, <2>2
<1>7. /\ ms \in Seq(ToSet(ls)) /\ Len(ms) = Len(ls) - 1
      /\ \A i \in 1..Len(ms) : ms[i] = ls[i]
  <2>1. \A i \in 1..(Len(ls) - 1) : ls[i] \in ToSet(ls)
    BY <1>3, SequenceFacts
  <2>2. 1 \in Int /\ Len(ls) - 1 \in Int /\ (Len(ls) - 1) - 1 + 1 = Len(ls) - 1 /\ Len(ls) >= 1
    BY <1>3, <1>6
  <2>3. /\ SubSeq(ls, 1, Len(ls) - 1) \in Seq(ToSet(ls))
        /\ Len(SubSeq(ls, 1, Len(ls) - 1)) = IF 1 <= Len(ls) - 1 THEN Len(ls) - 1 - 1 + 1 ELSE 0
        /\ \A i \in 1..(Len(ls) - 1) - 1 + 1 : SubSeq(ls, 1, Len(ls) - 1)[i] = ls[1 + i - 1]
    BY <2>1, <2>2, SubSeqProperties
  <2> QED BY <1>3, <2>2, <2>3 DEF Front
<1>8. IsSequence(ms) /\ DOMAIN ms = 1..(Len(ls) - 1)
  BY <1>7, SequenceOf
<1> DEFINE to == [n \in DOMAIN ms |-> at[n] - 1]
<1> HIDE DEF r, ms
<1>9. \A n \in DOMAIN ms : n \in DOMAIN ls /\ n < last /\ ms[n] = ls[n]
  BY <1>3, <1>6, <1>7, <1>8
<1>10. \A n \in DOMAIN ms : at[n] \in Ends(q) /\ at[n] \in 2..Len(q)
  <2> TAKE n \in DOMAIN ms
  <2>1. at[n] > 1 /\ at[n] \in 1..Len(q)
    BY <1>2, <1>4, <1>5, <1>9
  <2> QED BY <1>1, <1>4, <1>9, <2>1
<1>11. \A i \in Ends(q) : i # 1 => i - 1 \in Ends(r) /\ r[i - 1] = q[i]
  <2> SUFFICES ASSUME NEW i \in Ends(q), i # 1 PROVE i - 1 \in Ends(r) /\ r[i - 1] = q[i]
    OBVIOUS
  <2>1. i - 1 \in DOMAIN r /\ (i - 1) + 1 = i
    BY <1>1 DEF Ends
  <2> QED BY <1>1, <2>1 DEF Ends
<1>12. to \in [DOMAIN ms -> Ends(r)]
  BY <1>10, <1>11
<1>13. \A n \in DOMAIN ms : to[n] = at[n] - 1
  OBVIOUS
<1> HIDE DEF to
<1>14. \A i \in Ends(r) : \E n \in DOMAIN ms : to[n] = i
  <2> TAKE i \in Ends(r)
  <2>1. i \in DOMAIN r /\ i + 1 \in Ends(q) /\ i + 1 # 1 /\ (i + 1) - 1 = i
    BY <1>1 DEF Ends
  <2>2. PICK n \in DOMAIN ls : at[n] = i + 1
    BY <1>2, <2>1
  <2>3. n \in DOMAIN ms
    BY <1>3, <1>5, <1>6, <1>8, <2>1, <2>2
  <2> QED BY <1>13, <2>1, <2>2, <2>3
<1>15. \A m, n \in DOMAIN ms : m < n => to[m] > to[n]
  BY <1>2, <1>9, <1>10, <1>13
<1>16. \A n \in DOMAIN ms : ms[n] = [continue |-> r[to[n]].continue, break |-> r[to[n]].break]
  BY <1>2, <1>9, <1>10, <1>11, <1>13
<1>17. Nested(r, ms)
  BY <1>12, <1>14, <1>15, <1>16 DEF Nested
<1> QED BY <1>8, <1>17 DEF r, ms

\* The last entry is that of a loop whose end is still to come.
LEMMA NestedLast ==
  ASSUME NEW q, NEW ls, IsSequence(ls), ls # << >>, Nested(q, ls)
  PROVE  \E t \in ToSet(q) : /\ t.do = "end_loop"
                             /\ Last(ls).continue = t.continue /\ Last(ls).break = t.break
<1>1. Len(ls) \in DOMAIN ls /\ Last(ls) = ls[Len(ls)]
  BY SequenceFacts DEF Last
<1>2. PICK i \in Ends(q) : ls[Len(ls)] = [continue |-> q[i].continue, break |-> q[i].break]
  BY <1>1 DEF Nested
<1>3. q[i] \in ToSet(q) /\ q[i].do = "end_loop"
  BY DEF Ends, ToSet
<1> QED BY <1>1, <1>2, <1>3

(***************************************************************************)
(* Lists of tasks.                                                         *)
(***************************************************************************)
\* Tasks that own no block and end no loop.
Tame(s) == IsSequence(s) /\ \A t \in ToSet(s) : Plain(t) /\ IsTask(t)

LEMMA NoTasks == IsSequence(<< >>) /\ Len(<< >>) = 0 /\ ToSet(<< >>) = {} /\ Tame(<< >>)
<1>1. IsSequence(<< >>)
  BY SequenceOf, EmptySeq
<1> QED BY <1>1 DEF Tame, ToSet

LEMMA OneTask ==
  ASSUME NEW t
  PROVE  /\ IsSequence(<< t >>) /\ Len(<< t >>) = 1 /\ << t >>[1] = t /\ ToSet(<< t >>) = {t}
         /\ Plain(t) /\ IsTask(t) => Tame(<< t >>)
BY DEF IsSequence, ToSet, Tame

LEMMA TwoTasks ==
  ASSUME NEW t, NEW u
  PROVE  /\ IsSequence(<< t, u >>) /\ Len(<< t, u >>) = 2
         /\ << t, u >>[1] = t /\ << t, u >>[2] = u /\ ToSet(<< t, u >>) = {t, u}
         /\ Plain(t) /\ IsTask(t) /\ Plain(u) /\ IsTask(u) => Tame(<< t, u >>)
<1>1. ToSet(<< t, u >>) = {t, u}
  BY DEF ToSet
<1> QED BY <1>1 DEF IsSequence, Tame

LEMMA ThreeTasks ==
  ASSUME NEW t, NEW u, NEW w
  PROVE  /\ IsSequence(<< t, u, w >>) /\ Len(<< t, u, w >>) = 3
         /\ << t, u, w >>[3] = w /\ ToSet(<< t, u, w >>) = {t, u, w}
         /\ (Plain(t) /\ IsTask(t) /\ Plain(u) /\ IsTask(u) /\ Plain(w) /\ IsTask(w)) => Tame(<< t, u, w >>)
<1>1. ToSet(<< t, u, w >>) = {t, u, w}
  BY DEF ToSet
<1> QED BY <1>1 DEF IsSequence, Tame

LEMMA TameConcat ==
  ASSUME NEW s, NEW t, Tame(s), Tame(t)
  PROVE  Tame(s \o t)
BY ConcatFacts DEF Tame

LEMMA LowerAllTame ==
  ASSUME NEW values \in Seq(Values)
  PROVE  Tame(LowerAll(values))
<1> DEFINE s == LowerAll(values)
<1>1. /\ Len(values) \in Nat /\ DOMAIN values = 1..Len(values)
      /\ \A i \in 1..Len(values) : values[i] \in Values
  BY LenProperties, ElementOfSeq
<1>2. s \in [1..Len(values) -> ToSet(s)]
  BY <1>1 DEF LowerAll, ToSet
<1>3. s \in Seq(ToSet(s))
  <2> HIDE DEF s
  <2> QED BY <1>1, <1>2, SeqDef
<1>4. \A t \in ToSet(s) : Plain(t) /\ IsTask(t)
  BY <1>1 DEF ToSet, LowerAll, Lower, Plain, IsTask
<1> QED BY <1>3, <1>4 DEF Tame, IsSequence

LEMMA BlockTasksTame ==
  ASSUME NEW es, AreElements(es, Values)
  PROVE  Tame(BlockTasks(es)) /\ BlockTasks(es) # << >>
<1> DEFINE first == IF es = << >> THEN << >> ELSE << Elements(es) >>
           rest == IF es = << >> \/ IsLocal(es[Len(es)]) THEN << Lower(UnitV, FALSE) >> ELSE << >>
<1>1. UnitV \in Values
  BY BodiesMadeOfValues DEF MadeOf
<1>2. Tame(first) /\ (es # << >> => Len(first) = 1)
  <2>1. CASE es = << >> BY <2>1, NoTasks
  <2>2. CASE es # << >>
    <3>1. Plain(Elements(es)) /\ IsTask(Elements(es))
      BY <2>2 DEF Elements, Plain, IsTask
    <3> QED BY <2>2, <3>1, OneTask
  <2> QED BY <2>1, <2>2
<1>3. Tame(rest) /\ (es = << >> => Len(rest) = 1)
  <2>1. Plain(Lower(UnitV, FALSE)) /\ IsTask(Lower(UnitV, FALSE))
    BY <1>1 DEF Lower, Plain, IsTask
  <2> QED BY <2>1, NoTasks, OneTask
<1>4. BlockTasks(es) = first \o rest
  BY DEF BlockTasks
<1> HIDE DEF first, rest
<1>5. Len(first \o rest) # 0 /\ Tame(first \o rest)
  <2>1. Len(first) \in Nat /\ Len(rest) \in Nat /\ Len(first \o rest) = Len(first) + Len(rest)
    BY <1>2, <1>3, SequenceFacts, ConcatFacts DEF Tame
  <2> QED BY <1>2, <1>3, <2>1, TameConcat
<1> QED BY <1>4, <1>5, NoTasks

(***************************************************************************)
(* The first task is replaced by others.                                   *)
(***************************************************************************)
\* The tasks ts take the place of the first one: they own the blocks of X, which
\* are new or were its own.
LEMMA Replaced ==
  ASSUME Inv, todo # << >>, NEW ts, NEW X,
         todo' = ts \o Tail(todo),
         IsSequence(ts), \A t \in ToSet(ts) : IsTask(t),
         Shares(ts, X), Ordered(ts),
         ts # << >> => ~Resumes(ts[1]) /\ Head(todo).do # "end_branch",
         ts = << >> /\ Head(todo).do = "end_branch" => (func').current = None,
         Returns(Head(todo)) => IF ts = << >> THEN (func').current = None ELSE Returns(ts[Len(ts)]),
         Built(func'),
         X \cap (Waiting(func) \ Owned(Head(todo))) = {},
         Waiting(func') = X \cup (Waiting(func) \ Owned(Head(todo))),
         IsSequence(loop_stack'), Nested(todo', loop_stack')
  PROVE  Inv'
<1> DEFINE rest == Tail(todo)
<1>1. IsSequence(todo)
  BY DEF Inv, IsTodo
<1>2. /\ Len(todo) \in Nat /\ Len(todo) >= 1 /\ DOMAIN todo = 1..Len(todo) /\ Head(todo) = todo[1]
      /\ IsSequence(rest) /\ Len(rest) = Len(todo) - 1
      /\ \A i \in 1..Len(rest) : rest[i] = todo[i + 1]
      /\ ToSet(rest) \subseteq ToSet(todo)
      /\ rest = << >> <=> Len(rest) = 0
  BY <1>1, TailFacts, SequenceFacts
<1>3. /\ IsSequence(todo') /\ Len(todo') = Len(ts) + Len(rest)
      /\ ToSet(todo') = ToSet(ts) \cup ToSet(rest)
      /\ \A i \in 1..Len(ts) : (todo')[i] = ts[i]
      /\ \A i \in 1..Len(rest) : (todo')[Len(ts) + i] = rest[i]
      /\ Len(ts) \in Nat /\ (ts = << >> <=> Len(ts) = 0)
      /\ todo' = << >> <=> Len(todo') = 0
  BY <1>2, ConcatFacts, SequenceFacts
<1>4. IsTodo'
  BY <1>2, <1>3 DEF Inv, IsTodo
<1>5. Shares(todo', Waiting(func'))
  <2>1. Shares(rest, Waiting(func) \ Owned(Head(todo)))
    BY <1>1, SharesTail DEF Inv
  <2> QED BY <1>2, <2>1, SharesConcat
<1>6. ts = << >> => todo' = rest
  BY <1>2, ConcatEmptySeq DEF IsSequence
<1>7. Ordered(rest) /\ (Head(todo).do # "end_branch" => rest = << >> \/ ~Resumes(rest[1]))
  BY <1>1, OrderedTail DEF Inv
<1>8. Ordered(todo')
  <2>1. CASE ts = << >> BY <1>6, <1>7, <2>1
  <2>2. CASE ts # << >> BY <1>2, <1>7, <2>2, OrderedConcat
  <2> QED BY <2>1, <2>2
<1>9. Stopped'
  <2>1. CASE ts = << >>
    BY <1>6, <1>7, <2>1 DEF Stopped
  <2>2. CASE ts # << >>
    <3>1. (todo')[1] = ts[1]
      BY <1>3, <2>2
    <3> QED BY <2>2, <3>1 DEF Stopped
  <2> QED BY <2>1, <2>2
<1>10. Returning'
  <2> HIDE DEF rest
  <2>1. Returns(todo[Len(todo)])
    BY DEF Inv, Returning
  <2>2. CASE Len(rest) = 0
    <3>0. Len(todo) = 1
      BY <1>2, <2>2
    <3>1. Returns(Head(todo)) /\ Len(todo') = Len(ts)
      BY <1>2, <1>3, <2>1, <2>2, <3>0
    <3>2. ts # << >> => (todo')[Len(ts)] = ts[Len(ts)]
      BY <1>3
    <3> QED BY <1>3, <3>1, <3>2 DEF Returning
  <2>3. CASE Len(rest) # 0
    <3>1. (todo')[Len(todo')] = rest[Len(rest)] /\ Len(todo') # 0
      BY <1>2, <1>3, <2>3
    <3>2. rest[Len(rest)] = todo[Len(todo)]
      BY <1>2, <2>3
    <3> QED BY <1>3, <2>1, <3>1, <3>2 DEF Returning
  <2> QED BY <2>2, <2>3
<1> QED BY <1>4, <1>5, <1>8, <1>9, <1>10 DEF Inv

\* A plain task is replaced by plain tasks, and no block waits more or less.
LEMMA PlainStep ==
  ASSUME Inv, todo # << >>, NEW ts,
         Plain(Head(todo)), Tame(ts), todo' = ts \o Tail(todo),
         Returns(Head(todo)) => IF ts = << >> THEN (func').current = None ELSE Returns(ts[Len(ts)]),
         Built(func'), Waiting(func') = Waiting(func), loop_stack' = loop_stack
  PROVE  Inv'
<1>1. IsSequence(todo) /\ IsSequence(ts)
  BY DEF Inv, IsTodo, Tame
<1>2. Shares(ts, {}) /\ Ordered(ts) /\ Ends(ts) = {}
  BY SharesPlain DEF Tame
<1>3. /\ Owned(Head(todo)) = {}
      /\ Head(todo).do \notin {"end_branch", "end_loop"}
  BY DEF Plain, Owned
<1>4. ts # << >> => ~Resumes(ts[1])
  <2>1. ts # << >> => ts[1] \in ToSet(ts)
    BY <1>1, SequenceFacts
  <2> QED BY <2>1 DEF Tame, Plain, Resumes
<1>5. IsSequence(Tail(todo))
  BY <1>1, TailFacts
<1>6. Nested(Tail(todo), loop_stack)
  BY <1>1, <1>3, NestedTail DEF Inv
<1>7. Nested(todo', loop_stack')
  BY <1>1, <1>2, <1>5, <1>6, NestedConcat
<1>8. \A t \in ToSet(ts) : IsTask(t)
  BY DEF Tame
<1>9. IsSequence(loop_stack')
  BY DEF Inv
<1>10. {} \cap (Waiting(func) \ Owned(Head(todo))) = {} /\ Waiting(func') = {} \cup (Waiting(func) \ Owned(Head(todo)))
  BY <1>3
<1> QED BY <1>1, <1>2, <1>3, <1>4, <1>7, <1>8, <1>9, <1>10, Replaced

\* The same, when nothing takes the place of the task.
LEMMA PlainDone ==
  ASSUME Inv, todo # << >>, Plain(Head(todo)), Done,
         ~Returns(Head(todo)) \/ (func').current = None,
         Built(func'), Waiting(func') = Waiting(func), loop_stack' = loop_stack
  PROVE  Inv'
<1>1. Tail(todo) \in Seq(ToSet(Tail(todo)))
  BY TailFacts DEF Inv, IsTodo, IsSequence
<1>2. todo' = << >> \o Tail(todo)
  BY <1>1, ConcatEmptySeq DEF Done
<1> QED BY <1>2, NoTasks, PlainStep

\* The task in hand, and its parts.
LEMMA TaskFacts ==
  ASSUME Inv, todo # << >>
  PROVE  /\ IsSequence(todo) /\ Task = Head(todo) /\ Task \in ToSet(todo) /\ IsTask(Task)
         /\ Task.do \in {"value", "place"} => HasParts(Task.value, Values)
         /\ Task.do = "branch" => HasParts(Task.value, Values)
BY TailFacts, BodiesMadeOfValues DEF Inv, IsTodo, Task, IsTask, MadeOf

LEMMA OperandStep ==
  ASSUME Inv, LowerOperand
  PROVE  Inv'
<1>1. todo # << >>
  BY DEF LowerOperand, LowerLiteral, LowerSymbol, LowerOperation, LowerBorrow, LowerProjection,
         DoingValue, Doing, Ready
<1>2. /\ IsTask(Task) /\ Task = Head(todo) /\ HasParts(Task.value, Values)
      /\ Plain(Task) /\ ~Returns(Task)
  BY <1>1, TaskFacts
     DEF LowerOperand, LowerLiteral, LowerSymbol, LowerOperation, LowerBorrow, LowerProjection,
         DoingValue, Doing, Plain, Returns
<1>3. /\ func' = func /\ loop_stack' = loop_stack
      /\ Built(func') /\ Waiting(func') = Waiting(func)
  BY DEF LowerOperand, LowerLiteral, LowerSymbol, LowerOperation, LowerBorrow, LowerProjection, Inv
<1>4. CASE LowerLiteral \/ LowerSymbol
  BY <1>1, <1>2, <1>3, <1>4, PlainDone DEF LowerLiteral, LowerSymbol
<1>5. CASE LowerOperation
  <2> DEFINE temp == [do |-> "temp", op |-> Task.value.op, n |-> Len(Task.value.args)]
             ts == LowerAll(Task.value.args) \o << temp >>
  <2>1. Tame(LowerAll(Task.value.args))
    BY <1>2, <1>5, LowerAllTame DEF LowerOperation, DoingValue, Task, HasParts
  <2>2. Tame(<< temp >>)
    BY OneTask DEF Plain, IsTask
  <2>3. Tame(ts)
    BY <2>1, <2>2, TameConcat
  <2>4. todo' = ts \o Tail(todo)
    BY <1>5 DEF LowerOperation, Then
  <2> HIDE DEF ts
  <2> QED BY <1>1, <1>2, <1>3, <2>3, <2>4, PlainStep
<1>6. CASE LowerBorrow
  <2> DEFINE t == LowerAsPlace(Task.value.place)
             u == [do |-> "ref", kind |-> Task.value.kind]
  <2>1. Plain(t) /\ IsTask(t) /\ Plain(u) /\ IsTask(u)
    BY <1>2, <1>6 DEF LowerBorrow, DoingValue, Task, HasParts, LowerAsPlace, Plain, IsTask
  <2>2. todo' = << t, u >> \o Tail(todo)
    BY <1>6 DEF LowerBorrow, Then
  <2>3. Tame(<< t, u >>)
    BY <2>1, TwoTasks
  <2> HIDE DEF t, u
  <2> QED BY <1>1, <1>2, <1>3, <2>2, <2>3, PlainStep
<1>7. CASE LowerProjection
  <2> DEFINE t == LowerAsPlace(Task.value)
  <2>1. Plain(t) /\ IsTask(t)
    BY <1>2, <1>7 DEF LowerProjection, DoingValue, Doing, Task, LowerAsPlace, Plain, IsTask
  <2>2. todo' = << t >> \o Tail(todo)
    BY <1>7 DEF LowerProjection, Then
  <2>3. Tame(<< t >>)
    BY <2>1, OneTask
  <2> HIDE DEF t
  <2> QED BY <1>1, <1>2, <1>3, <2>2, <2>3, PlainStep
<1> QED BY <1>4, <1>5, <1>6, <1>7 DEF LowerOperand

\* A new local, and a statement about it.
LEMMA TempLike ==
  ASSUME NEW b, NEW st, Built(b)
  PROVE  LET c == push_stmt(new_temp(b), st)
         IN  Like(b, c) /\ Built(c) /\ Waiting(c) = Waiting(b)
<1> DEFINE t == new_temp(b)
           c == push_stmt(t, st)
<1>1. Like(b, t) /\ Built(t)
  BY NewTempLike
<1>2. Like(t, c) /\ Built(c)
  BY <1>1, PushLike
<1>3. Like(b, c)
  BY <1>1, <1>2, LikeTransitive
<1> QED BY <1>2, <1>3, LikeKeeps

LEMMA PlaceStep ==
  ASSUME Inv, LowerPlace
  PROVE  Inv'
<1>1. todo # << >>
  BY DEF LowerPlace, PlaceSymbol, PlaceProjection, ProjectPlace, PlaceOfValue, operand_to_place,
         DoingPlace, Doing, Ready
<1>2. /\ IsTask(Task) /\ Task = Head(todo) /\ (Task.do = "place" => HasParts(Task.value, Values))
      /\ Plain(Task) /\ ~Returns(Task)
  BY <1>1, TaskFacts
     DEF LowerPlace, PlaceSymbol, PlaceProjection, ProjectPlace, PlaceOfValue, operand_to_place,
         DoingPlace, Doing, Task, Plain, Returns
<1>3. Built(func)
  BY DEF Inv
<1>4. Like(func, func') \/ func' = func
  <2>1. Like(func, new_temp(func))
    BY <1>3, NewTempLike
  <2>2. CASE operand_to_place
    BY <1>3, <2>2, TempLike DEF operand_to_place, push_assign
  <2>3. CASE PlaceSymbol \/ PlaceProjection \/ ProjectPlace \/ PlaceOfValue
    BY <2>1, <2>3 DEF PlaceSymbol, PlaceProjection, ProjectPlace, PlaceOfValue
  <2> QED BY <2>2, <2>3 DEF LowerPlace
<1>5. Built(func') /\ Waiting(func') = Waiting(func)
  BY <1>3, <1>4, LikeKeeps
<1>6. loop_stack' = loop_stack
  BY DEF LowerPlace, PlaceSymbol, PlaceProjection, ProjectPlace, PlaceOfValue, operand_to_place
<1>7. CASE PlaceSymbol \/ ProjectPlace \/ operand_to_place
  <2>1. Done
    BY <1>7 DEF PlaceSymbol, ProjectPlace, operand_to_place
  <2> QED BY <1>1, <1>2, <1>5, <1>6, <2>1, PlainDone
<1>8. CASE PlaceProjection
  <2> DEFINE t == LowerAsPlace(Task.value.base)
             u == [do |-> "project",
                   step |-> IF Task.value.v = "deref" THEN DerefStep ELSE FieldStep(Task.value.name)]
  <2>1. Plain(t) /\ IsTask(t) /\ Plain(u) /\ IsTask(u)
    BY <1>2, <1>8 DEF PlaceProjection, DoingPlace, Doing, Task, HasParts, LowerAsPlace, Plain, IsTask
  <2>2. todo' = << t, u >> \o Tail(todo)
    BY <1>8 DEF PlaceProjection, Then
  <2>3. Tame(<< t, u >>)
    BY <2>1, TwoTasks
  <2> HIDE DEF t, u
  <2> QED BY <1>1, <1>2, <1>5, <1>6, <2>2, <2>3, PlainStep
<1>9. CASE PlaceOfValue
  <2> DEFINE t == Lower(Task.value, FALSE)
             u == Do("operand_to_place")
  <2>1. Plain(t) /\ IsTask(t) /\ Plain(u) /\ IsTask(u)
    BY <1>2, <1>9 DEF PlaceOfValue, Doing, Task, Lower, Do, Plain, IsTask
  <2>2. todo' = << t, u >> \o Tail(todo)
    BY <1>9 DEF PlaceOfValue, Then
  <2>3. Tame(<< t, u >>)
    BY <2>1, TwoTasks
  <2> HIDE DEF t, u
  <2> QED BY <1>1, <1>2, <1>5, <1>6, <2>2, <2>3, PlainStep
<1> QED BY <1>7, <1>8, <1>9 DEF LowerPlace

LEMMA EffectStep ==
  ASSUME Inv, LowerEffect
  PROVE  Inv'
<1>1. todo # << >>
  BY DEF LowerEffect, LowerAssign, LowerCall, LowerReturn, Jump, DoingValue, Doing, Ready
<1>2. /\ IsTask(Task) /\ Task = Head(todo) /\ HasParts(Task.value, Values)
      /\ Task.do = "value" /\ Plain(Task)
  BY <1>1, TaskFacts
     DEF LowerEffect, LowerAssign, LowerCall, LowerReturn, Jump, DoingValue, Doing, Task, Plain
<1>3. Built(func) /\ loop_stack' = loop_stack
  BY DEF Inv, LowerEffect, LowerAssign, LowerCall, LowerReturn, Jump
<1>4. CASE LowerAssign
  <2> DEFINE t == LowerAsPlace(Task.value.place)
             u == Lower(Task.value.value, FALSE)
             w == Do("store")
  <2>1. Plain(t) /\ IsTask(t) /\ Plain(u) /\ IsTask(u) /\ Plain(w) /\ IsTask(w) /\ ~Returns(Task)
    BY <1>2, <1>4
       DEF LowerAssign, DoingValue, Task, HasParts, LowerAsPlace, Lower, Do, Plain, IsTask, Returns
  <2>2. todo' = << t, u, w >> \o Tail(todo)
    BY <1>4 DEF LowerAssign, Then
  <2>3. Tame(<< t, u, w >>)
    BY <2>1, ThreeTasks
  <2>4. Waiting(func') = Waiting(func) /\ Built(func')
    BY <1>3, <1>4 DEF LowerAssign
  <2> HIDE DEF t, u, w
  <2> QED BY <1>1, <1>2, <1>3, <2>1, <2>2, <2>3, <2>4, PlainStep
<1>5. CASE LowerCall
  <2> DEFINE c == [do |-> "call", callee |-> Copy(Static(Task.value.callee)),
                   n |-> Len(Task.value.args), tail |-> Task.tail]
             ts == LowerAll(Task.value.args) \o << c >>
  <2>1. Tame(LowerAll(Task.value.args)) /\ ~Returns(Task)
    BY <1>2, <1>5, LowerAllTame DEF LowerCall, DoingValue, Task, HasParts, Returns
  <2>2. Tame(<< c >>)
    BY OneTask DEF Plain, IsTask
  <2>3. Tame(ts)
    BY <2>1, <2>2, TameConcat
  <2>4. todo' = ts \o Tail(todo)
    BY <1>5 DEF LowerCall, Then
  <2>5. Waiting(func') = Waiting(func) /\ Built(func')
    BY <1>3, <1>5 DEF LowerCall
  <2> HIDE DEF ts
  <2> QED BY <1>1, <1>2, <1>3, <2>1, <2>3, <2>4, <2>5, PlainStep
<1>6. CASE LowerReturn
  <2> DEFINE t == Lower(Task.value.value, FALSE)
             u(n) == [do |-> "return", n |-> n]
             ts == IF Task.value.value = UnitV THEN << u(0) >> ELSE << t, u(1) >>
  <2>1. /\ Plain(t) /\ IsTask(t)
        /\ Plain(u(0)) /\ IsTask(u(0)) /\ Returns(u(0))
        /\ Plain(u(1)) /\ IsTask(u(1)) /\ Returns(u(1))
    BY <1>2, <1>6 DEF LowerReturn, DoingValue, Task, HasParts, Lower, Plain, IsTask, Returns
  <2>2. todo' = ts \o Tail(todo)
    BY <1>6 DEF LowerReturn, Then
  <2> HIDE DEF t, u
  <2>3. Tame(ts) /\ ts # << >> /\ Returns(ts[Len(ts)])
    <3>1. CASE Task.value.value = UnitV
      BY <2>1, <3>1, OneTask, NoTasks
    <3>2. CASE Task.value.value # UnitV
      BY <2>1, <3>2, TwoTasks, NoTasks
    <3> QED BY <3>1, <3>2
  <2>4. Waiting(func') = Waiting(func) /\ Built(func')
    BY <1>3, <1>6 DEF LowerReturn
  <2> HIDE DEF ts
  <2> QED BY <1>1, <1>2, <1>3, <2>2, <2>3, <2>4, PlainStep
<1>7. CASE Jump
  <2>1. Built(func') /\ Waiting(func') = Waiting(func)
    BY <1>3, <1>7, Ended DEF Jump, unreachable, goto
  <2>2. Done /\ ~Returns(Task)
    BY <1>2, <1>7 DEF Jump, DoingValue, Task, Returns
  <2> QED BY <1>1, <1>2, <1>3, <2>1, <2>2, PlainDone
<1> QED BY <1>4, <1>5, <1>6, <1>7 DEF LowerEffect

LEMMA EmitStep ==
  ASSUME Inv, Emit
  PROVE  Inv'
<1>1. todo # << >>
  BY DEF Emit, AssignOperation, AssignBorrow, Store, EmitCall, EmitReturn, Doing, Ready
<1>2. /\ Task = Head(todo) /\ Plain(Task) /\ Done /\ loop_stack' = loop_stack
      /\ Returns(Task) => EmitReturn
  BY <1>1, TaskFacts
     DEF Emit, AssignOperation, AssignBorrow, Store, EmitCall, EmitReturn, Doing, Task, Plain, Returns
<1>3. Built(func)
  BY DEF Inv
<1>4. CASE AssignOperation \/ AssignBorrow
  <2>1. Built(func') /\ Waiting(func') = Waiting(func)
    BY <1>3, <1>4, TempLike DEF AssignOperation, AssignBorrow, assign_rvalue_to_temp, push_assign
  <2>2. ~Returns(Task)
    BY <1>4 DEF AssignOperation, AssignBorrow, Doing, Task, Returns
  <2> QED BY <1>1, <1>2, <2>1, <2>2, PlainDone
<1>5. CASE Store
  <2>1. Built(func') /\ Waiting(func') = Waiting(func)
    BY <1>3, <1>5, PushAssignLike, LikeKeeps DEF Store
  <2>2. ~Returns(Task)
    BY <1>5 DEF Store, Doing, Task, Returns
  <2> QED BY <1>1, <1>2, <2>1, <2>2, PlainDone
<1>6. CASE EmitCall
  <2>1. ~Returns(Task)
    BY <1>6 DEF EmitCall, Doing, Task, Returns
  <2>2. CASE Task.tail
    <3>1. Built(func') /\ Waiting(func') = Waiting(func)
      BY <1>3, <1>6, <2>2, Ended DEF EmitCall, call
    <3> QED BY <1>1, <1>2, <2>1, <3>1, PlainDone
  <2>3. CASE ~Task.tail
    <3> DEFINE t == new_temp(func)
               b == reserve_block(t)
               n == LastBlock(b)
               e == call_return(b, Task.callee, Latest(Task.n), Local(LastLocal(b)), n)
    <3>1. func' = switch_to_block(e, n)
      BY <1>6, <2>3 DEF EmitCall
    <3>2. Built(t) /\ Waiting(t) = Waiting(func)
      BY <1>3, NewTempLike, LikeKeeps
    <3>3. Built(b) /\ n \notin DOMAIN t.blocks /\ Waiting(b) = Waiting(t) \cup {n}
      BY <3>2, Reserved DEF reserve_block, LastBlock
    <3>4. Built(e) /\ e.current = None /\ Waiting(e) = Waiting(b)
      BY <3>3, Ended DEF call_return
    <3> HIDE DEF e, b
    <3>5. Built(func') /\ Waiting(func') = Waiting(e) \ {n}
      BY <3>1, <3>3, <3>4, Switched
    <3>6. Waiting(func') = Waiting(func)
      BY <3>2, <3>3, <3>4, <3>5 DEF Waiting
    <3> QED BY <1>1, <1>2, <2>1, <3>5, <3>6, PlainDone
  <2> QED BY <2>2, <2>3
<1>7. CASE EmitReturn
  <2>1. Built(func') /\ Waiting(func') = Waiting(func) /\ (func').current = None
    BY <1>3, <1>7, Ended DEF EmitReturn, ret
  <2> QED BY <1>1, <1>2, <2>1, PlainDone
<1> QED BY <1>4, <1>5, <1>6, <1>7 DEF Emit

\* The elements of a block after the first.
LEMMA OtherElementsTame ==
  ASSUME NEW es, es # << >>, AreElements(es, Values)
  PROVE  /\ Len(es) \in Nat /\ Len(es) >= 1 /\ IsElement(Head(es), Values) /\ Head(es) = es[1]
         /\ Len(es) # 1 => /\ Tail(es) # << >> /\ AreElements(Tail(es), Values)
                           /\ Tail(es)[Len(Tail(es))] = es[Len(es)]
                           /\ Plain(Elements(Tail(es))) /\ IsTask(Elements(Tail(es)))
                           /\ Returns(Elements(es)) => Returns(Elements(Tail(es)))
<1>1. IsSequence(es) /\ DOMAIN es = 1..Len(es) /\ Len(es) \in Nat
  BY SequenceOf DEF AreElements
<1>2. /\ Len(es) >= 1 /\ Head(es) = es[1]
      /\ IsSequence(Tail(es)) /\ Len(Tail(es)) = Len(es) - 1 /\ DOMAIN Tail(es) = 1..Len(Tail(es))
      /\ Tail(es) = << >> <=> Len(Tail(es)) = 0
      /\ \A i \in 1..Len(Tail(es)) : Tail(es)[i] = es[i + 1] /\ i + 1 \in DOMAIN es
  BY <1>1, TailFacts, SequenceFacts
<1>3. IsElement(Head(es), Values)
  BY <1>1, <1>2 DEF AreElements
<1>4. ASSUME Len(es) # 1
      PROVE  /\ Tail(es) # << >> /\ AreElements(Tail(es), Values)
             /\ Tail(es)[Len(Tail(es))] = es[Len(es)]
  <2>1. Tail(es) # << >>
    BY <1>1, <1>2, <1>4
  <2>2. AreElements(Tail(es), Values)
    BY <1>2 DEF AreElements, IsSequence
  <2>3. Len(Tail(es)) \in 1..Len(Tail(es)) /\ Len(Tail(es)) + 1 = Len(es)
    BY <1>1, <1>2, <1>4
  <2> QED BY <1>2, <2>1, <2>2, <2>3
<1>5. ASSUME Len(es) # 1
      PROVE  /\ Plain(Elements(Tail(es))) /\ IsTask(Elements(Tail(es)))
             /\ Returns(Elements(es)) => Returns(Elements(Tail(es)))
  BY <1>4, <1>5 DEF Elements, Plain, IsTask, Returns
<1> QED BY <1>1, <1>2, <1>3, <1>4, <1>5

LEMMA BlockStep ==
  ASSUME Inv, LowerBlocks
  PROVE  Inv'
<1>1. todo # << >>
  BY DEF LowerBlocks, LowerBlock, LowerElement, DropOperand, lower_local_declaration, Initialise,
         DoingValue, Doing, Ready
<1>2. /\ Task = Head(todo) /\ IsTask(Task) /\ Plain(Task) /\ loop_stack' = loop_stack
      /\ Task.do = "value" => HasParts(Task.value, Values)
  BY <1>1, TaskFacts
     DEF LowerBlocks, LowerBlock, LowerElement, DropOperand, lower_local_declaration, Initialise,
         DoingValue, Doing, Task, Plain
<1>3. Built(func)
  BY DEF Inv
<1>4. CASE LowerBlock
  <2> DEFINE ts == BlockTasks(Task.value.elements)
  <2>1. Tame(ts) /\ ~Returns(Task)
    BY <1>2, <1>4, BlockTasksTame DEF LowerBlock, DoingValue, Doing, Task, HasParts, Returns
  <2>2. todo' = ts \o Tail(todo) /\ func' = func
    BY <1>4 DEF LowerBlock, Then
  <2> HIDE DEF ts
  <2> QED BY <1>1, <1>2, <1>3, <2>1, <2>2, PlainStep
<1>5. CASE DropOperand \/ Initialise
  <2>1. Built(func') /\ Waiting(func') = Waiting(func)
    BY <1>3, <1>5, PushAssignLike, LikeKeeps DEF DropOperand, Initialise
  <2>2. Done /\ ~Returns(Task)
    BY <1>5 DEF DropOperand, Initialise, Doing, Task, Returns
  <2> QED BY <1>1, <1>2, <2>1, <2>2, PlainDone
<1> DEFINE es == Task.elements
           others == Elements(Tail(es))
<1>6. ASSUME LowerElement \/ lower_local_declaration
      PROVE  /\ es # << >> /\ AreElements(es, Values)
             /\ Returns(Task) <=> Returns(Elements(es))
             /\ OtherElements = IF Len(es) = 1 THEN << >> ELSE << others >>
  BY <1>2, <1>6
     DEF LowerElement, lower_local_declaration, Doing, Task, IsTask, Returns, Elements, OtherElements, IsLast
<1>7. CASE LowerElement
  <2> DEFINE t == Lower(Element.value, IsLast)
             u == Do("drop")
             ts == << t >> \o (IF IsLast THEN << >> ELSE << u >>) \o OtherElements
  <2>1. /\ IsElement(es[1], Values) /\ ~IsLocal(es[1]) /\ Element = es[1]
        /\ IsLast <=> Len(es) = 1
    BY <1>6, <1>7, OtherElementsTame DEF LowerElement, Element, IsLast
  <2>2. Plain(t) /\ IsTask(t) /\ Plain(u) /\ IsTask(u)
    BY <2>1 DEF IsElement, IsLocal, Lower, Do, Plain, IsTask
  <2>3. todo' = ts \o Tail(todo) /\ func' = func
    BY <1>7 DEF LowerElement, Then
  <2>4. Tame(ts) /\ (Returns(Task) => ts # << >> /\ Returns(ts[Len(ts)]))
    <3>1. CASE Len(es) = 1
      <4>1. ts = << t >> \o << >> \o << >>
        BY <1>6, <1>7, <2>1, <3>1
      <4>2. ts = << t >>
        <5> HIDE DEF t
        <5>1. << t >> \in Seq({t}) OBVIOUS
        <5> QED BY <4>1, <5>1, ConcatEmptySeq
      <4>3. Returns(Task) => Returns(t)
        BY <1>6, <1>7, <2>1, <3>1 DEF Returns, Elements, Lower
      <4> HIDE DEF t, ts
      <4> QED BY <2>2, <4>2, <4>3, OneTask, NoTasks
    <3>2. CASE Len(es) # 1
      <4>1. /\ Plain(others) /\ IsTask(others)
            /\ Returns(Task) => Returns(others)
        BY <1>6, <1>7, <3>2, OtherElementsTame
      <4>2. ts = << t >> \o << u >> \o << others >>
        BY <1>6, <1>7, <2>1, <3>2
      <4> HIDE DEF t, u, others, ts
      <4>3. Tame(<< t >>) /\ Tame(<< u >>) /\ Tame(<< others >>)
        BY <2>2, <4>1, OneTask
      <4>4. Tame(ts)
        BY <4>2, <4>3, TameConcat
      <4>5. Len(ts) = Len(<< t >> \o << u >>) + 1 /\ ts[Len(<< t >> \o << u >>) + 1] = others
        BY <4>2, <4>3, TameConcat, OneTask, ConcatFacts DEF Tame
      <4>6. ts # << >>
        BY <4>5, <4>3, TameConcat, NoTasks, SequenceFacts DEF Tame
      <4> QED BY <4>1, <4>4, <4>5, <4>6
    <3> QED BY <3>1, <3>2
  <2> HIDE DEF ts
  <2> QED BY <1>1, <1>2, <1>3, <2>3, <2>4, PlainStep
<1>8. CASE lower_local_declaration
  <2> DEFINE t == Lower(Element.init[1], FALSE)
             u == [do |-> "initialise", local |-> LastLocal(new_temp(func))]
             first == IF Element.init = << >> THEN << >> ELSE << t, u >>
             ts == first \o OtherElements
  <2>1. /\ IsElement(es[1], Values) /\ IsLocal(es[1]) /\ Element = es[1]
    BY <1>6, <1>8, OtherElementsTame DEF lower_local_declaration, Element
  <2>2. Element.init # << >> => Plain(t) /\ IsTask(t) /\ Plain(u) /\ IsTask(u)
    <3>1. Element.init \in Seq(Values)
      BY <2>1 DEF IsElement, IsLocal
    <3>2. Element.init # << >> => Element.init[1] \in Values
      BY <3>1
    <3> QED BY <3>2 DEF Lower, Plain, IsTask
  <2>3. todo' = ts \o Tail(todo) /\ Built(func') /\ Waiting(func') = Waiting(func)
    BY <1>3, <1>8, TempLike DEF lower_local_declaration, Then
  <2> HIDE DEF t, u
  <2>4. Tame(first)
    BY <2>2, NoTasks, TwoTasks
  <2>5. CASE Len(es) = 1
    <3>1. ts = first
      <4>1. first \in Seq(ToSet(first))
        BY <2>4 DEF Tame, IsSequence
      <4> HIDE DEF first
      <4> QED BY <1>6, <1>8, <2>5, <4>1, ConcatEmptySeq
    <3>2. ~Returns(Task)
      BY <1>6, <1>8, <2>1, <2>5 DEF Returns, Elements
    <3> HIDE DEF ts, first
    <3> QED BY <1>1, <1>2, <2>3, <2>4, <3>1, <3>2, PlainStep
  <2>6. CASE Len(es) # 1
    <3>1. /\ Plain(others) /\ IsTask(others)
          /\ Returns(Task) => Returns(others)
      BY <1>6, <1>8, <2>6, OtherElementsTame
    <3>2. ts = first \o << others >>
      BY <1>6, <1>8, <2>6
    <3> HIDE DEF first, others, ts
    <3>3. Tame(<< others >>)
      BY <3>1, OneTask
    <3>4. Tame(ts) /\ Len(ts) = Len(first) + 1 /\ ts[Len(first) + 1] = others /\ ts # << >>
      BY <2>4, <3>2, <3>3, TameConcat, OneTask, NoTasks, ConcatFacts, SequenceFacts DEF Tame
    <3> QED BY <1>1, <1>2, <2>3, <3>1, <3>4, PlainStep
  <2> QED BY <2>5, <2>6
<1> QED BY <1>4, <1>5, <1>7, <1>8 DEF LowerBlocks

\* Tasks that end no loop and, among them, own the blocks of X.
Neat(s, X) ==
  /\ IsSequence(s) /\ \A t \in ToSet(s) : IsTask(t) /\ t.do # "end_loop"
  /\ Shares(s, X) /\ Ordered(s)
  /\ s # << >> => ~Resumes(s[1])

LEMMA NeatTame ==
  ASSUME NEW s, Tame(s)
  PROVE  Neat(s, {})
<1>1. s # << >> => s[1] \in ToSet(s)
  BY SequenceFacts DEF Tame
<1> QED BY <1>1, SharesPlain DEF Tame, Neat, Plain, Resumes

LEMMA NeatConcat ==
  ASSUME NEW s, NEW t, NEW X, NEW Y, Neat(s, X), Neat(t, Y), X \cap Y = {}
  PROVE  Neat(s \o t, X \cup Y)
<1>1. IsSequence(s) /\ IsSequence(t)
  BY DEF Neat
<1>2. IsSequence(s \o t) /\ ToSet(s \o t) = ToSet(s) \cup ToSet(t)
  BY <1>1, ConcatFacts
<1>3. Shares(s \o t, X \cup Y)
  BY <1>1, SharesConcat DEF Neat
<1>4. Ordered(s \o t)
  BY <1>1, OrderedConcat DEF Neat
<1>5. s \o t # << >> => ~Resumes((s \o t)[1])
  <2>1. CASE s = << >>
    <3>1. s \o t = t
      BY <1>1, <2>1, ConcatEmptySeq DEF IsSequence
    <3> QED BY <3>1 DEF Neat
  <2>2. CASE s # << >>
    <3>1. (s \o t)[1] = s[1]
      BY <1>1, <2>2, ConcatFacts, SequenceFacts
    <3> QED BY <2>2, <3>1 DEF Neat
  <2> QED BY <2>1, <2>2
<1> QED BY <1>2, <1>3, <1>4, <1>5 DEF Neat

\* The end of a branch, and what follows it.
LEMMA NeatPair ==
  ASSUME NEW e, NEW r, NEW n, e.do = "end_branch",
         (r.do = "switch" /\ r.block = n) \/ (r.do = "merge" /\ r.merge = n)
  PROVE  Neat(<< e, r >>, {n})
<1> DEFINE s == << e, r >>
<1>1. IsSequence(s) /\ ToSet(s) = {e, r} /\ DOMAIN s = {1, 2} /\ s[1] = e /\ s[2] = r
  BY TwoTasks
<1>2. Owned(e) = {} /\ Owned(r) = {n} /\ ~Resumes(e)
  BY DEF Owned, Resumes
<1>3. IsTask(e) /\ IsTask(r)
  BY DEF IsTask
<1> HIDE DEF s
<1>4. Shares(s, {n})
  BY <1>1, <1>2 DEF Shares
<1>5. Ordered(s)
  BY <1>1, <1>2 DEF Ordered
<1> QED BY <1>1, <1>2, <1>3, <1>4, <1>5 DEF Neat, s

\* A task is replaced while no loop begins or ends.
LEMMA NeatStep ==
  ASSUME Inv, todo # << >>, NEW ts, NEW X, Neat(ts, X), todo' = ts \o Tail(todo),
         Head(todo).do # "end_loop", ~Returns(Head(todo)),
         Head(todo).do = "end_branch" => ts = << >> /\ (func').current = None,
         Built(func'),
         X \cap (Waiting(func) \ Owned(Head(todo))) = {},
         Waiting(func') = X \cup (Waiting(func) \ Owned(Head(todo))),
         loop_stack' = loop_stack
  PROVE  Inv'
<1>1. IsSequence(todo) /\ IsSequence(Tail(todo)) /\ IsSequence(ts) /\ IsSequence(loop_stack')
  BY TailFacts DEF Inv, IsTodo, Neat
<1>2. Ends(ts) = {}
  BY DEF Neat, Ends, ToSet
<1>3. Nested(Tail(todo), loop_stack)
  BY <1>1, NestedTail DEF Inv
<1>4. Nested(todo', loop_stack')
  BY <1>1, <1>2, <1>3, NestedConcat
<1> QED BY <1>1, <1>4, Replaced DEF Neat

LEMMA NeatDone ==
  ASSUME Inv, todo # << >>, Done, Head(todo).do # "end_loop", ~Returns(Head(todo)),
         Head(todo).do = "end_branch" => (func').current = None,
         Built(func'), Waiting(func') = Waiting(func) \ Owned(Head(todo)),
         loop_stack' = loop_stack
  PROVE  Inv'
<1>1. Tail(todo) \in Seq(ToSet(Tail(todo)))
  BY TailFacts DEF Inv, IsTodo, IsSequence
<1>2. todo' = << >> \o Tail(todo)
  BY <1>1, ConcatEmptySeq DEF Done
<1>3. Neat(<< >>, {})
  BY NoTasks, NeatTame
<1> QED BY <1>2, <1>3, NeatStep

\* A loop begins: the tasks of its body, and its end.
LEMMA LoopBegins ==
  ASSUME Inv, todo # << >>, NEW s, Tame(s), s # << >>, NEW continue, NEW break,
         todo' = (s \o << [do |-> "end_loop", continue |-> continue, break |-> break] >>) \o Tail(todo),
         Head(todo).do \notin {"end_loop", "end_branch"}, ~Returns(Head(todo)),
         Built(func'),
         break \notin Waiting(func) \ Owned(Head(todo)),
         Waiting(func') = {break} \cup (Waiting(func) \ Owned(Head(todo))),
         loop_stack' = Append(loop_stack, [continue |-> continue, break |-> break])
  PROVE  Inv'
<1> DEFINE e == [do |-> "end_loop", continue |-> continue, break |-> break]
           ts == s \o << e >>
<1>1. /\ IsSequence(todo) /\ IsSequence(Tail(todo)) /\ IsSequence(s)
      /\ IsSequence(<< e >>) /\ ToSet(<< e >>) = {e} /\ DOMAIN << e >> = {1} /\ << e >>[1] = e
  BY TailFacts, OneTask DEF Inv, IsTodo, Tame
<1>2. e.do = "end_loop" /\ Owned(e) = {break} /\ ~Resumes(e) /\ IsTask(e)
      /\ e.continue = continue /\ e.break = break
  BY DEF Owned, Resumes, IsTask
<1> HIDE DEF e
<1>3. Shares(<< e >>, {break}) /\ Ordered(<< e >>)
  BY <1>1, <1>2 DEF Shares, Ordered
<1>4. Neat(s, {}) /\ Ends(s) = {}
  BY NeatTame, SharesPlain DEF Tame
<1>5. Shares(ts, {break})
  <2>1. {} \cap {break} = {} /\ {} \cup {break} = {break}
    OBVIOUS
  <2>2. Shares(s, {})
    BY <1>4 DEF Neat
  <2>3. Shares(s \o << e >>, {} \cup {break})
    BY <1>1, <1>3, <2>1, <2>2, SharesConcat
  <2> QED BY <2>1, <2>3
<1>6. Ordered(ts)
  BY <1>1, <1>2, <1>3, <1>4, OrderedConcat DEF Neat
<1>7. ts[1] = s[1] /\ ~Resumes(ts[1])
  BY <1>1, <1>4, ConcatFacts, SequenceFacts DEF Neat
<1>8. /\ IsSequence(ts) /\ \A t \in ToSet(ts) : IsTask(t)
      /\ ts # << >>
  <2>1. IsSequence(ts) /\ ToSet(ts) = ToSet(s) \cup {e} /\ Len(ts) = Len(s) + Len(<< e >>)
    BY <1>1, ConcatFacts
  <2>2. ts # << >>
    <3>1. Len(s) \in Nat /\ Len(s) # 0 /\ Len(<< e >>) \in Nat
      BY <1>1, SequenceFacts
    <3> HIDE DEF ts
    <3>2. Len(ts) # 0
      BY <2>1, <3>1
    <3> QED BY <2>1, <3>2, SequenceFacts
  <2> QED BY <1>2, <2>1, <2>2 DEF Tame
<1>9. Nested(Tail(todo), loop_stack)
  BY <1>1, NestedTail DEF Inv
<1>10. Nested(<< e >> \o Tail(todo), loop_stack')
  BY <1>1, <1>2, <1>9, NestedPush DEF Inv
<1>11. IsSequence(<< e >> \o Tail(todo))
  BY <1>1, ConcatFacts
<1>12. Nested(s \o (<< e >> \o Tail(todo)), loop_stack')
  BY <1>1, <1>4, <1>10, <1>11, NestedConcat
<1>13. s \o (<< e >> \o Tail(todo)) = ts \o Tail(todo)
  <2> DEFINE S == ToSet(s) \cup {e} \cup ToSet(Tail(todo))
  <2>1. s \in Seq(S) /\ << e >> \in Seq(S) /\ Tail(todo) \in Seq(S)
    BY <1>1, SeqMonotonic DEF IsSequence
  <2> QED BY <2>1, ConcatAssociative
<1>14. todo' = ts \o Tail(todo)
  BY DEF e
<1>15. IsSequence(loop_stack')
  BY AppendFacts DEF Inv
<1>16. {break} \cap (Waiting(func) \ Owned(Head(todo))) = {}
  OBVIOUS
<1>17. Nested(todo', loop_stack')
  BY <1>12, <1>13, <1>14
<1> HIDE DEF ts
<1> QED BY <1>5, <1>6, <1>7, <1>8, <1>14, <1>15, <1>16, <1>17, Replaced

LEMMA BranchStep ==
  ASSUME Inv, LowerBranches
  PROVE  Inv'
<1>1. todo # << >>
  BY DEF LowerBranches, LowerIf, Branch, EndBranch, StartElse, Merge, DoingValue, Doing, Ready
<1>2. /\ Task = Head(todo) /\ IsTask(Task) /\ loop_stack' = loop_stack
      /\ Task.do \in {"value", "branch"} => HasParts(Task.value, Values)
      /\ Task.do # "end_loop" /\ ~Returns(Task)
  BY <1>1, TaskFacts
     DEF LowerBranches, LowerIf, Branch, EndBranch, StartElse, Merge, DoingValue, Doing, Task, Returns
<1>3. Built(func) /\ (Resumes(Task) => func.current = None) /\ Owned(Task) \subseteq Waiting(func)
  BY <1>1, <1>2, TaskFacts, TailFacts, SharesTail DEF Inv, Stopped
<1>4. CASE LowerIf
  <2> DEFINE t == Lower(Task.value.cond, FALSE)
             u == [do |-> "branch", value |-> Task.value, tail |-> Task.tail]
  <2>1. Plain(t) /\ IsTask(t) /\ Plain(u) /\ IsTask(u) /\ Plain(Task)
    BY <1>2, <1>4 DEF LowerIf, DoingValue, Doing, Task, HasParts, Lower, Plain, IsTask
  <2>2. todo' = << t, u >> \o Tail(todo) /\ func' = func
    BY <1>4 DEF LowerIf, Then
  <2>3. Tame(<< t, u >>)
    BY <2>1, TwoTasks
  <2> HIDE DEF t, u
  <2> QED BY <1>1, <1>2, <1>3, <2>1, <2>2, <2>3, PlainStep
<1>5. CASE Branch
  <2> DEFINE arity == IF Task.tail THEN 0 ELSE 1
             n == Len(func.blocks)
             merge == n + 1
             with_merge == reserve_block_with_args(func, arity)
             then == merge + 1
             with_then == reserve_block(with_merge)
             has_else == Task.value.else # << >>
             else == IF has_else THEN merge + 2 ELSE merge
             reserved == IF has_else THEN reserve_block(with_then) ELSE with_then
             ended == if_br(reserved, Top, then, else)
             end == [do |-> "end_branch", merge |-> merge, tail |-> Task.tail]
             s == [do |-> "switch", block |-> else]
             m == [do |-> "merge", merge |-> merge]
             B1 == BlockTasks(Task.value.then)
             B2 == BlockTasks(Task.value.else[1])
             mid == IF has_else THEN << end, s >> \o B2 ELSE << >>
             ts == B1 \o mid \o << end, m >>
             X == IF has_else THEN {else, merge} ELSE {merge}
  <2>1. func' = switch_to_block(ended, then) /\ todo' = ts \o Tail(todo) /\ Task.do = "branch"
    BY <1>5 DEF Branch, Then, Doing, Task
  <2>2. Owned(Task) = {} /\ Tame(B1) /\ (has_else => Tame(B2))
    BY <1>2, <2>1, BlockTasksTame DEF Owned, IsTask, HasParts
  <2>3. /\ Built(with_merge) /\ n \in Nat /\ Len(with_merge.blocks) = n + 1
        /\ merge \notin DOMAIN func.blocks /\ Waiting(with_merge) = Waiting(func) \cup {merge}
    <3>1. arity \in {0, 1} OBVIOUS
    <3> HIDE DEF arity
    <3> QED BY <1>3, <3>1, Reserved
  <2> HIDE DEF with_merge
  <2>4. /\ Built(with_then) /\ Len(with_then.blocks) = n + 2
        /\ then \notin DOMAIN with_merge.blocks /\ Waiting(with_then) = Waiting(with_merge) \cup {then}
    BY <2>3, Reserved DEF reserve_block
  <2> HIDE DEF with_then
  <2>5. ASSUME NEW b, Built(b), then \in Waiting(b)
        PROVE  LET c == if_br(b, Top, then, else)
                   d == switch_to_block(c, then)
               IN  Built(d) /\ Waiting(d) = Waiting(b) \ {then}
    <3> DEFINE c == if_br(b, Top, then, else)
    <3>1. Built(c) /\ c.current = None /\ Waiting(c) = Waiting(b)
      BY <2>5, Ended DEF if_br
    <3> HIDE DEF c, then
    <3> QED BY <2>5, <3>1, Switched DEF c
  <2>6. Neat(B1, {}) /\ Neat(<< end, m >>, {merge}) /\ Neat(<< end, s >>, {else})
    <3>1. /\ end.do = "end_branch" /\ m.do = "merge" /\ m.merge = merge
          /\ s.do = "switch" /\ s.block = else
      OBVIOUS
    <3> HIDE DEF end, m, s, B1, merge, else
    <3>2. Neat(<< end, m >>, {merge})
      BY <3>1, NeatPair
    <3>3. Neat(<< end, s >>, {else})
      <4>1. (s.do = "switch" /\ s.block = else) \/ (s.do = "merge" /\ s.merge = else)
        BY <3>1
      <4>2. end.do = "end_branch"
        BY <3>1
      <4> QED BY <4>1, <4>2, NeatPair
    <3> QED BY <2>2, <3>2, <3>3, NeatTame
  <2>7. n + 1 # n + 2 /\ n + 1 # n + 3 /\ n + 2 # n + 3
    BY <2>3
  <2>8. n \in Nat /\ Waiting(func) \subseteq 1..n
    BY <1>3, SequenceFacts DEF Waiting, Built, AreBlocks
  <2>9. Waiting(func) \cap {n + 1, n + 2, n + 3} = {}
    BY <2>8
  <2>10. CASE has_else
    <3>1. /\ Built(reserved) /\ Waiting(reserved) = Waiting(with_then) \cup {n + 3}
      BY <2>3, <2>4, <2>10, Reserved DEF reserve_block
    <3>2. else = n + 3 /\ then = n + 2 /\ X = {n + 1, n + 3} /\ mid = << end, s >> \o B2
      BY <2>3, <2>10
    <3>3. Built(func') /\ Waiting(func') = (Waiting(func) \cup {n + 1, n + 2, n + 3}) \ {n + 2}
      <4>1. Waiting(reserved) = Waiting(func) \cup {n + 1, n + 2, n + 3}
        BY <2>3, <2>4, <3>1, <3>2
      <4> QED BY <2>1, <2>5, <3>1, <3>2, <4>1
    <3>4. Neat(B2, {})
      BY <2>2, <2>10, NeatTame
    <3> HIDE DEF B1, B2, end, s, m, mid, ts, X, reserved
    <3>5. Neat(mid, {n + 3})
      <4>1. {n + 3} \cap {} = {} /\ {n + 3} \cup {} = {n + 3}
        OBVIOUS
      <4> HIDE DEF n
      <4> QED BY <2>6, <3>2, <3>4, <4>1, NeatConcat
    <3>6. Neat(B1 \o mid, {n + 3})
      <4>1. {} \cap {n + 3} = {} /\ {} \cup {n + 3} = {n + 3}
        OBVIOUS
      <4> HIDE DEF n
      <4> QED BY <2>6, <3>5, <4>1, NeatConcat
    <3>7. Neat(ts, X)
      <4>1. {n + 3} \cap {merge} = {} /\ {n + 3} \cup {merge} = X
        BY <2>7, <3>2
      <4> HIDE DEF n, merge
      <4> QED BY <2>6, <3>6, <4>1, NeatConcat DEF ts
    <3>8. /\ X \cap (Waiting(func) \ Owned(Task)) = {}
          /\ Waiting(func') = X \cup (Waiting(func) \ Owned(Task))
      BY <2>2, <2>7, <2>9, <3>2, <3>3
    <3> HIDE DEF n
    <3> QED BY <1>1, <1>2, <2>1, <3>3, <3>7, <3>8, NeatStep
  <2>11. CASE ~has_else
    <3>1. /\ reserved = with_then /\ then = n + 2 /\ X = {n + 1} /\ mid = << >>
      BY <2>3, <2>11
    <3>2. Built(func') /\ Waiting(func') = (Waiting(func) \cup {n + 1, n + 2}) \ {n + 2}
      <4>1. Waiting(reserved) = Waiting(func) \cup {n + 1, n + 2} /\ Built(reserved)
        BY <2>3, <2>4, <3>1
      <4> QED BY <2>1, <2>5, <3>1, <4>1
    <3> HIDE DEF B1, B2, end, s, m, mid, ts, X, reserved
    <3>3. Neat(mid, {})
      BY <3>1, NoTasks, NeatTame
    <3>4. Neat(B1 \o mid, {})
      <4>1. {} \cap {} = {} /\ {} \cup {} = {}
        OBVIOUS
      <4> QED BY <2>6, <3>3, <4>1, NeatConcat
    <3>5. Neat(ts, X)
      <4>1. {} \cap {merge} = {} /\ {} \cup {merge} = X
        BY <3>1
      <4> HIDE DEF n, merge
      <4> QED BY <2>6, <3>4, <4>1, NeatConcat DEF ts
    <3>6. /\ X \cap (Waiting(func) \ Owned(Task)) = {}
          /\ Waiting(func') = X \cup (Waiting(func) \ Owned(Task))
      BY <2>2, <2>7, <2>9, <3>1, <3>2
    <3> HIDE DEF n
    <3> QED BY <1>1, <1>2, <2>1, <3>2, <3>5, <3>6, NeatStep
  <2> QED BY <2>10, <2>11
<1>6. CASE EndBranch
  <2>1. Done /\ Task.do = "end_branch" /\ Owned(Task) = {}
    BY <1>6 DEF EndBranch, Doing, Task, Owned
  <2>2. Built(func') /\ (func').current = None /\ Waiting(func') = Waiting(func)
    BY <1>3, <1>6, Ended DEF EndBranch, end_branch, goto, goto_with_args
  <2> QED BY <1>1, <1>2, <2>1, <2>2, NeatDone
<1>7. CASE StartElse \/ Merge
  <2> DEFINE n == IF StartElse THEN Task.block ELSE Task.merge
  <2>1. /\ Done /\ Resumes(Task) /\ Task.do # "end_branch"
        /\ func' = switch_to_block(func, n) /\ Owned(Task) = {n}
    BY <1>7 DEF StartElse, Merge, Doing, Task, Owned, Resumes
  <2> HIDE DEF n
  <2>2. Built(func') /\ Waiting(func') = Waiting(func) \ Owned(Task)
    BY <1>3, <2>1, Switched
  <2> QED BY <1>1, <1>2, <2>1, <2>2, NeatDone
<1> QED BY <1>4, <1>5, <1>6, <1>7 DEF LowerBranches

LEMMA LoopStep ==
  ASSUME Inv, LowerLoops
  PROVE  Inv'
<1>1. todo # << >>
  BY DEF LowerLoops, LowerWhile, TestLoop, LowerLoop, EndLoop, DoingValue, Doing, Ready
<1>2. /\ Task = Head(todo) /\ IsTask(Task) /\ ~Returns(Task)
      /\ Task.do = "value" => HasParts(Task.value, Values)
  BY <1>1, TaskFacts
     DEF LowerLoops, LowerWhile, TestLoop, LowerLoop, EndLoop, DoingValue, Doing, Task, Returns
<1>3. Built(func) /\ Owned(Task) \subseteq Waiting(func)
  BY <1>1, <1>2, TaskFacts, SharesTail DEF Inv
<1> DEFINE n == Len(func.blocks)
<1>4. n \in Nat /\ Waiting(func) \subseteq 1..n
  BY <1>3, SequenceFacts DEF Waiting, Built, AreBlocks
<1>5. Waiting(func) \cap {n + 1, n + 2, n + 3} = {} /\ n + 1 # n + 2 /\ n + 1 # n + 3 /\ n + 2 # n + 3
  BY <1>4
\* The current block ends, and another one is next.
<1>6. ASSUME NEW b, NEW term, NEW k, Built(b), k \in Waiting(b)
      PROVE  LET c == set_terminator(b, term)
                 d == switch_to_block(c, k)
             IN  Built(d) /\ Waiting(d) = Waiting(b) \ {k}
  <2> DEFINE c == set_terminator(b, term)
  <2>1. Built(c) /\ c.current = None /\ Waiting(c) = Waiting(b)
    BY <1>6, Ended
  <2> HIDE DEF c
  <2> QED BY <1>6, <2>1, Switched DEF c
\* Two blocks are reserved.
<1> DEFINE one == reserve_block(func)
           two == reserve_block(one)
<1>7. /\ Built(two) /\ Len(two.blocks) = n + 2
      /\ Waiting(two) = Waiting(func) \cup {n + 1, n + 2}
  <2>1. Built(one) /\ Len(one.blocks) = n + 1 /\ Waiting(one) = Waiting(func) \cup {n + 1}
    BY <1>3, Reserved DEF reserve_block
  <2> HIDE DEF one
  <2>2. Built(two) /\ Len(two.blocks) = n + 1 + 1 /\ Waiting(two) = Waiting(one) \cup {n + 1 + 1}
    BY <2>1, Reserved DEF reserve_block
  <2> QED BY <1>4, <2>1, <2>2
<1> HIDE DEF two
<1>8. CASE LowerWhile
  <2> DEFINE t == Lower(Task.value.cond, FALSE)
             u == [do |-> "test", header |-> n + 1, body |-> Task.value.body]
             X == {n + 2, n + 3}
             three == reserve_block(two)
  <2>1. /\ Task.do = "value" /\ Owned(Task) = {}
        /\ Task.value.cond \in Values /\ AreElements(Task.value.body, Values)
    BY <1>2, <1>8 DEF LowerWhile, DoingValue, Doing, Task, HasParts, Owned
  <2>2. /\ todo' = << t, u >> \o Tail(todo) /\ loop_stack' = loop_stack
        /\ func' = switch_to_block(goto(three, n + 1), n + 1)
    BY <1>8 DEF LowerWhile, Then, two
  <2>3. Built(three) /\ Waiting(three) = Waiting(func) \cup {n + 1, n + 2, n + 3}
    <3>1. Built(three) /\ Waiting(three) = Waiting(two) \cup {n + 2 + 1}
      BY <1>7, Reserved DEF reserve_block
    <3> QED BY <1>4, <1>7, <3>1
  <2>4. Built(func') /\ Waiting(func') = Waiting(three) \ {n + 1}
    <3> HIDE DEF three, n
    <3> QED BY <1>6, <2>2, <2>3 DEF goto
  <2>5. X \cap (Waiting(func) \ Owned(Task)) = {} /\ Waiting(func') = X \cup (Waiting(func) \ Owned(Task))
    BY <1>5, <2>1, <2>3, <2>4
  <2>6. IsTask(t) /\ Plain(t) /\ t.do # "end_loop" /\ ~Resumes(t) /\ Owned(t) = {}
    BY <2>1 DEF Lower, Plain, IsTask, Resumes, Owned
  <2>7. IsTask(u) /\ u.do = "test" /\ ~Resumes(u) /\ Owned(u) = X
    BY <1>4, <2>1 DEF IsTask, Resumes, Owned
  <2>8. Neat(<< t, u >>, X)
    <3> HIDE DEF t, u, X
    <3> DEFINE ts == << t, u >>
    <3>1. IsSequence(ts) /\ ToSet(ts) = {t, u} /\ DOMAIN ts = {1, 2} /\ ts[1] = t /\ ts[2] = u
      BY TwoTasks
    <3> HIDE DEF ts
    <3>2. Shares(ts, X)
      BY <2>6, <2>7, <3>1 DEF Shares
    <3>3. Ordered(ts)
      BY <2>6, <2>7, <3>1 DEF Ordered
    <3>4. Neat(ts, X)
      BY <2>6, <2>7, <3>1, <3>2, <3>3 DEF Neat
    <3> QED BY <3>4 DEF ts
  <2> HIDE DEF t, u, X
  <2> QED BY <1>1, <1>2, <2>1, <2>2, <2>4, <2>5, <2>8, NeatStep
<1>9. CASE TestLoop
  <2> DEFINE h == Task.header
             s == BlockTasks(Task.body)
             next == if_br(func, Top, h + 1, h + 2)
  <2>1. /\ Task.do = "test" /\ h \in Nat /\ Owned(Task) = {h + 1, h + 2} /\ h + 1 # h + 2
        /\ Tame(s) /\ s # << >>
    BY <1>2, <1>9, BlockTasksTame DEF TestLoop, Doing, Task, IsTask, Owned
  <2>2. /\ todo' = (s \o << [do |-> "end_loop", continue |-> h, break |-> h + 2] >>) \o Tail(todo)
        /\ loop_stack' = Append(loop_stack, [continue |-> h, break |-> h + 2])
        /\ func' = switch_to_block(next, h + 1)
    BY <1>9 DEF TestLoop, Then, LoopTasks, PushLoop
  <2>3. Built(func') /\ Waiting(func') = Waiting(func) \ {h + 1}
    BY <1>3, <1>6, <2>1, <2>2 DEF if_br
  <2>4. /\ h + 2 \notin Waiting(func) \ Owned(Task)
        /\ Waiting(func') = {h + 2} \cup (Waiting(func) \ Owned(Task))
    BY <1>3, <2>1, <2>3
  <2> HIDE DEF s, h
  <2> QED BY <1>1, <1>2, <2>1, <2>2, <2>3, <2>4, LoopBegins
<1>10. CASE LowerLoop
  <2> DEFINE s == BlockTasks(Task.value.body)
  <2>1. /\ Task.do = "value" /\ Owned(Task) = {} /\ Tame(s) /\ s # << >>
    BY <1>2, <1>10, BlockTasksTame DEF LowerLoop, DoingValue, Doing, Task, HasParts, Owned
  <2>2. /\ todo' = (s \o << [do |-> "end_loop", continue |-> n + 1, break |-> n + 1 + 1] >>) \o Tail(todo)
        /\ loop_stack' = Append(loop_stack, [continue |-> n + 1, break |-> n + 1 + 1])
        /\ func' = switch_to_block(goto(two, n + 1), n + 1)
    BY <1>10 DEF LowerLoop, Then, LoopTasks, PushLoop, two
  <2>3. Built(func') /\ Waiting(func') = Waiting(two) \ {n + 1}
    BY <1>6, <1>7, <2>2 DEF goto
  <2>4. n + 1 + 1 = n + 2
    BY <1>4
  <2>5. /\ n + 2 \notin Waiting(func) \ Owned(Task)
        /\ Waiting(func') = {n + 2} \cup (Waiting(func) \ Owned(Task))
    BY <1>5, <1>7, <2>1, <2>3
  <2> HIDE DEF s, n
  <2> QED BY <1>1, <1>2, <2>1, <2>2, <2>3, <2>4, <2>5, LoopBegins
<1>11. CASE EndLoop
  <2>1. /\ Task.do = "end_loop" /\ Owned(Task) = {Task.break} /\ Done
        /\ loop_stack' = Front(loop_stack)
        /\ func' = switch_to_block(goto(func, Task.continue), Task.break)
    BY <1>11 DEF EndLoop, Doing, Task, Owned, popped_loop, end_of_loop
  <2>2. Built(func') /\ Waiting(func') = Waiting(func) \ Owned(Task)
    BY <1>3, <1>6, <2>1 DEF goto
  <2>3. IsSequence(loop_stack') /\ Nested(todo', loop_stack')
    BY <1>1, <1>2, <2>1, NestedPop DEF Inv, IsTodo, Done
  <2>4. todo' = << >> \o Tail(todo)
    <3>1. Tail(todo) \in Seq(ToSet(Tail(todo)))
      BY <1>1, TailFacts DEF Inv, IsTodo, IsSequence
    <3> QED BY <2>1, <3>1, ConcatEmptySeq DEF Done
  <2>5. Neat(<< >>, {})
    BY NoTasks, NeatTame
  <2>6. /\ {} \cap (Waiting(func) \ Owned(Task)) = {}
        /\ Waiting(func') = {} \cup (Waiting(func) \ Owned(Task))
    BY <2>2
  <2> QED BY <1>1, <1>2, <2>1, <2>2, <2>3, <2>4, <2>5, <2>6, Replaced DEF Neat
<1> QED BY <1>8, <1>9, <1>10, <1>11 DEF LowerLoops

(***************************************************************************)
(* The invariant.                                                          *)
(***************************************************************************)
\* A body is not empty and ends in return.
LEMMA BodyReturns ==
  ASSUME NEW es \in Bodies
  PROVE  LET r == ensure_return_in_body(es)
         IN  r # << >> /\ AreElements(r, Values) /\ Returns(Elements(r))
<1> DEFINE r == ensure_return_in_body(es)
           last == es[Len(es)]
<1>1. IsSequence(es) /\ AreElements(r, Values) /\ IsSequence(r)
  BY BodiesMadeOfValues DEF MadeOf, AreElements, IsSequence
<1>2. Len(es) \in Nat /\ DOMAIN es = 1..Len(es) /\ (es = << >> <=> Len(es) = 0)
  BY <1>1, SequenceFacts
<1>3. Len(r) \in Nat /\ DOMAIN r = 1..Len(r) /\ (r = << >> <=> Len(r) = 0)
  BY <1>1, SequenceFacts
<1>4. /\ Len(r) # 0
      /\ r[Len(r)].el = "expr" /\ r[Len(r)].value.v = "return"
  <2>1. CASE es # << >> /\ last.el = "expr" /\ last.value.v = "return"
    BY <1>2, <2>1 DEF ensure_return_in_body
  <2>2. CASE es # << >> /\ last.el = "expr" /\ last.value.v # "return"
    <3>1. r = [es EXCEPT ![Len(es)] = Expr(ReturnV(last.value))]
      BY <2>2 DEF ensure_return_in_body
    <3> DEFINE e == Expr(ReturnV(last.value))
    <3>2. e.el = "expr" /\ e.value.v = "return"
      BY DEF Expr, ReturnV
    <3> HIDE DEF e, r
    <3>3. DOMAIN r = DOMAIN es /\ r[Len(es)] = e
      BY <1>2, <2>2, <3>1 DEF e
    <3>4. Len(r) = Len(es)
      <4>1. Len(es) \in 1..Len(r)
        BY <1>2, <1>3, <2>2, <3>3
      <4>2. Len(r) \in 1..Len(es)
        BY <1>3, <3>3, <4>1
      <4>3. Len(es) \in Nat /\ Len(r) \in Nat
        BY <1>2, <1>3
      <4>4. \A i, j \in Nat : i \in 1..j /\ j \in 1..i => i = j
        OBVIOUS
      <4> QED BY <4>1, <4>2, <4>3, <4>4
    <3> QED BY <1>2, <2>2, <3>2, <3>3, <3>4
  <2>3. CASE ~(es # << >> /\ last.el = "expr")
    <3> DEFINE e == Expr(ReturnV(UnitV))
    <3>1. r = Append(es, e)
      BY <2>3 DEF ensure_return_in_body
    <3>2. e.el = "expr" /\ e.value.v = "return"
      BY DEF Expr, ReturnV
    <3> HIDE DEF e, r
    <3>3. Len(r) = Len(es) + 1 /\ r[Len(es) + 1] = e
      BY <1>1, <3>1, AppendFacts
    <3> QED BY <1>2, <3>2, <3>3
  <2> QED BY <2>1, <2>2, <2>3
<1> HIDE DEF r
<1> QED BY <1>1, <1>3, <1>4 DEF Returns, Elements, IsLocal, r

\* The function starts with one block, the current one.
LEMMA Started ==
  LET b == create_block([start_function EXCEPT !.locals = Len(Params)])
  IN  Built(b) /\ Waiting(b) = {} /\ Edges(b) /\ b.blocks # << >>
<1> DEFINE s == [start_function EXCEPT !.locals = Len(Params)]
           r == reserve_block(s)
           b == create_block(s)
<1>1. /\ DOMAIN s = BuilderFields /\ s.blocks = << >> /\ s.ended = << >> /\ s.current = None
  BY DEF start_function, BuilderFields
<1> HIDE DEF s
<1>2. Built(s) /\ Waiting(s) = {} /\ Edges(s) /\ Len(s.blocks) = 0
  <2>1. IsSequence(s.blocks) /\ ToSet(s.ended) = {} /\ IsInjective(s.ended) /\ DOMAIN s.blocks = {}
    BY <1>1, NoTasks DEF IsInjective
  <2> QED BY <1>1, <2>1, NoTasks DEF Built, AreBlocks, Waiting, Edges
<1>3. /\ Built(r) /\ r.current = None /\ Waiting(r) = {1} /\ Edges(r) /\ Len(r.blocks) = 1
  <2>1. Waiting(s) \cup {0 + 1} = {1}
    BY <1>2
  <2> QED BY <1>1, <1>2, <2>1, Reserved DEF reserve_block
<1>4. b = switch_to_block(r, 1)
  BY <1>3 DEF create_block, LastBlock
<1> HIDE DEF r, b
<1>5. Built(b) /\ Waiting(b) = {} /\ Edges(b) /\ Len(b.blocks) = 1
  BY <1>3, <1>4, Switched
<1>6. b.blocks # << >>
  BY <1>5, NoTasks
<1> QED BY <1>5, <1>6 DEF s, b

LEMMA InitInv ==
  ASSUME Init
  PROVE  Inv
<1>1. PICK es \in Bodies : body = ensure_return_in_body(es)
  BY DEF Init
<1>2. body # << >> /\ AreElements(body, Values) /\ Returns(Elements(body))
  BY <1>1, BodyReturns
<1>3. Built(func) /\ Waiting(func) = {}
  BY Started DEF Init
<1> DEFINE t == Elements(body)
<1>4. todo = << t >> /\ loop_stack = << >>
  BY DEF Init
<1>5. Plain(t) /\ IsTask(t) /\ ~Resumes(t)
  BY <1>2 DEF Elements, Plain, IsTask, Resumes
<1>6. Returns(t)
  BY <1>2
<1> HIDE DEF t
<1>7. Tame(todo) /\ IsSequence(todo) /\ Len(todo) = 1 /\ todo[1] = t /\ todo # << >>
  BY <1>4, <1>5, OneTask, NoTasks
<1>8. Shares(todo, Waiting(func)) /\ Ordered(todo) /\ Ends(todo) = {}
  BY <1>3, <1>7, SharesPlain DEF Tame
<1>9. Stopped /\ Returning /\ IsTodo
  BY <1>5, <1>6, <1>7 DEF Stopped, Returning, IsTodo, Tame
<1>10. IsSequence(loop_stack) /\ Nested(todo, loop_stack)
  <2>1. IsSequence(loop_stack) /\ DOMAIN loop_stack = {}
    BY <1>4, NoTasks
  <2>2. [n \in {} |-> 0] \in [DOMAIN loop_stack -> Ends(todo)]
    BY <2>1
  <2> QED BY <1>8, <2>1, <2>2 DEF Nested
<1> QED BY <1>3, <1>8, <1>9, <1>10, <1>7 DEF Inv

LEMMA StepInv ==
  ASSUME Inv, [Next]_vars
  PROVE  Inv'
<1>1. CASE Step
  BY <1>1, OperandStep, PlaceStep, EffectStep, EmitStep, BranchStep, LoopStep, BlockStep DEF Step
<1>2. CASE Terminated \/ UNCHANGED vars
  <2>1. UNCHANGED <<todo, func, loop_stack>>
    BY <1>2 DEF Terminated, vars
  <2> QED BY <2>1 DEF Inv, IsTodo, Stopped, Returning
<1> QED BY <1>1, <1>2 DEF Next

THEOREM InvAlways == Spec => []Inv
<1> QED BY InitInv, StepInv, PTL DEF Spec

\* When nothing is left to lower, no block waits and none is current.
LEMMA InvEnds ==
  ASSUME Inv
  PROVE  BlocksEndOnce /\ LoopsNested
<1>1. LoopsNested
  BY DEF Inv, LoopsNested, Nested, LoopEnds, Ends
<1>2. IsInjective(func.ended) /\ func.current \notin ToSet(func.ended)
  BY DEF Inv, Built
<1>3. ASSUME Lowered
      PROVE  ToSet(func.ended) = DOMAIN func.blocks
  <2>1. todo = << >> /\ func.current = None
    BY <1>3 DEF Lowered, Inv, Returning
  <2>2. Waiting(func) = {}
    BY <2>1 DEF Inv, Shares
  <2>3. None \notin DOMAIN func.blocks
    BY NoneNoBlock DEF Inv
  <2>4. ToSet(func.ended) \subseteq DOMAIN func.blocks
    BY DEF Inv, Built
  <2>5. DOMAIN func.blocks \subseteq ToSet(func.ended) \cup {None}
    BY <2>1, <2>2 DEF Waiting
  <2> QED BY <2>3, <2>4, <2>5
<1> QED BY <1>1, <1>2, <1>3 DEF BlocksEndOnce

\* Whatever the nesting of ifs, loops, returns and calls, a block is ended once,
\* and none that was reserved is forgotten (builder.rs reserve_block,
\* switch_to_block, set_terminator; expr.rs lower_if, lower_while, lower_loop).
THEOREM BlocksEndOnceAlways == Spec => []BlocksEndOnce
<1> QED BY InvAlways, InvEnds, PTL

\* The loop stack is that of the loops around the value being lowered (expr.rs
\* lower_while, lower_loop: loop_stack.push and pop).
THEOREM LoopsAlwaysNested == Spec => []LoopsNested
<1> QED BY InvAlways, InvEnds, PTL

(***************************************************************************)
(* The arguments that the edges bind.                                      *)
(***************************************************************************)
\* Plain tasks whose operands may be used.
Fit(s) == IsSequence(s) /\ \A t \in ToSet(s) : Plain(t) /\ Used(t)

LEMMA FitTasks ==
  ASSUME NEW t, NEW u, NEW w
  PROVE  /\ Fit(<< >>)
         /\ Plain(t) /\ Used(t) => Fit(<< t >>)
         /\ Plain(t) /\ Used(t) /\ Plain(u) /\ Used(u) => Fit(<< t, u >>)
         /\ Plain(t) /\ Used(t) /\ Plain(u) /\ Used(u) /\ Plain(w) /\ Used(w) => Fit(<< t, u, w >>)
<1>1. Fit(<< >>)
  BY NoTasks DEF Fit
<1>2. Plain(t) /\ Used(t) => Fit(<< t >>)
  BY OneTask DEF Fit
<1>3. Plain(t) /\ Used(t) /\ Plain(u) /\ Used(u) => Fit(<< t, u >>)
  BY TwoTasks DEF Fit
<1>4. Plain(t) /\ Used(t) /\ Plain(u) /\ Used(u) /\ Plain(w) /\ Used(w) => Fit(<< t, u, w >>)
  BY ThreeTasks DEF Fit
<1> QED BY <1>1, <1>2, <1>3, <1>4

LEMMA FitConcat ==
  ASSUME NEW s, NEW t, Fit(s), Fit(t)
  PROVE  Fit(s \o t)
BY ConcatFacts DEF Fit

LEMMA LowerAllFit ==
  ASSUME NEW values \in Seq(Values), \A i \in DOMAIN values : Joins(values[i])
  PROVE  Fit(LowerAll(values))
<1>1. IsSequence(LowerAll(values))
  BY LowerAllTame DEF Tame
<1>2. \A t \in ToSet(LowerAll(values)) : Plain(t) /\ Used(t)
  BY DEF ToSet, LowerAll, Lower, Plain, Used
<1> QED BY <1>1, <1>2 DEF Fit

LEMMA BlockTasksFit ==
  ASSUME NEW es, ElementsJoin(es)
  PROVE  Fit(BlockTasks(es))
<1> DEFINE first == IF es = << >> THEN << >> ELSE << Elements(es) >>
           rest == IF es = << >> \/ IsLocal(es[Len(es)]) THEN << Lower(UnitV, FALSE) >> ELSE << >>
<1>1. Plain(Elements(es)) /\ Used(Elements(es))
  BY DEF Elements, Plain, Used
<1>2. Plain(Lower(UnitV, FALSE)) /\ Used(Lower(UnitV, FALSE))
  BY DEF Lower, Plain, Used, Joins, UnitV
<1>3. Fit(first) /\ Fit(rest)
  BY <1>1, <1>2, FitTasks
<1>4. BlockTasks(es) = first \o rest
  BY DEF BlockTasks
<1> QED BY <1>3, <1>4, FitConcat

\* What of a block is used, is used of the elements after the first.
LEMMA ElementsFit ==
  ASSUME NEW es, es # << >>, AreElements(es, Values), ElementsJoin(es)
  PROVE  /\ ~IsLocal(es[1]) /\ Len(es) # 1 => Joins(es[1].value)
         /\ IsLocal(es[1]) /\ es[1].init # << >> => Joins(es[1].init[1])
         /\ Len(es) # 1 => Fit(<< Elements(Tail(es)) >>)
<1>1. IsSequence(es) /\ DOMAIN es = 1..Len(es) /\ Len(es) \in Nat
  BY SequenceOf DEF AreElements
<1>2. /\ Len(es) >= 1 /\ 1 \in DOMAIN es
      /\ IsSequence(Tail(es)) /\ Len(Tail(es)) = Len(es) - 1 /\ DOMAIN Tail(es) = 1..Len(Tail(es))
      /\ \A i \in 1..Len(Tail(es)) : Tail(es)[i] = es[i + 1] /\ i + 1 \in DOMAIN es
  BY <1>1, TailFacts, SequenceFacts
<1>3. ~IsLocal(es[1]) /\ Len(es) # 1 => Joins(es[1].value)
  BY <1>1, <1>2 DEF ElementsJoin
<1>4. IsLocal(es[1]) /\ es[1].init # << >> => Joins(es[1].init[1])
  <2>1. IsLocal(es[1]) => es[1].init \in Seq(Values)
    BY <1>2 DEF AreElements, IsElement, IsLocal
  <2>2. IsLocal(es[1]) /\ es[1].init # << >> => 1 \in DOMAIN es[1].init
    BY <2>1
  <2> QED BY <1>2, <2>2 DEF ElementsJoin
<1>5. ElementsJoin(Tail(es))
  <2> SUFFICES ASSUME NEW i \in DOMAIN Tail(es)
               PROVE  IF IsLocal(Tail(es)[i]) THEN \A j \in DOMAIN Tail(es)[i].init : Joins(Tail(es)[i].init[j])
                      ELSE i < Len(Tail(es)) => Joins(Tail(es)[i].value)
    BY DEF ElementsJoin
  <2>1. Tail(es)[i] = es[i + 1] /\ i + 1 \in DOMAIN es /\ (i < Len(Tail(es)) => i + 1 < Len(es))
    BY <1>1, <1>2
  <2> QED BY <2>1 DEF ElementsJoin
<1>6. Fit(<< Elements(Tail(es)) >>)
  <2>1. Plain(Elements(Tail(es))) /\ Used(Elements(Tail(es)))
    BY <1>5 DEF Elements, Plain, Used
  <2> QED BY <2>1, FitTasks
<1> QED BY <1>3, <1>4, <1>6

\* The tasks ts take the place of the first one.
LEMMA EdgeReplaced ==
  ASSUME Inv, EdgeInv, todo # << >>, NEW ts, todo' = ts \o Tail(todo), IsSequence(ts),
         \A t \in ToSet(ts) : Used(t) /\ Leads(func', t),
         Grows(func, func'), Edges(func'), Built(func')
  PROVE  EdgeInv'
<1>1. IsSequence(todo) /\ IsSequence(Tail(todo)) /\ ToSet(Tail(todo)) \subseteq ToSet(todo)
  BY TailFacts DEF Inv, IsTodo
<1>2. ToSet(todo') = ToSet(ts) \cup ToSet(Tail(todo))
  BY <1>1, ConcatFacts
<1>3. ASSUME NEW t \in ToSet(Tail(todo))
      PROVE  Used(t) /\ Leads(func', t)
  BY <1>1, <1>3, TakesKept DEF EdgeInv, Leads
<1>4. (func').blocks # << >>
  <2>1. 1 \in DOMAIN func.blocks
    BY SequenceFacts DEF Inv, Built, AreBlocks, EdgeInv
  <2>2. 1 \in DOMAIN (func').blocks
    BY <2>1 DEF Grows
  <2> QED BY <2>2, SequenceFacts DEF Built, AreBlocks
<1> QED BY <1>2, <1>3, <1>4 DEF EdgeInv

LEMMA EdgeFit ==
  ASSUME Inv, EdgeInv, todo # << >>, NEW ts, todo' = ts \o Tail(todo), Fit(ts),
         Grows(func, func'), Edges(func'), Built(func')
  PROVE  EdgeInv'
<1>1. \A t \in ToSet(ts) : Used(t) /\ Leads(func', t)
  BY DEF Fit, Plain, Leads
<1> QED BY <1>1, EdgeReplaced DEF Fit

LEMMA EdgeDone ==
  ASSUME Inv, EdgeInv, todo # << >>, Done,
         Grows(func, func'), Edges(func'), Built(func')
  PROVE  EdgeInv'
<1>1. Tail(todo) \in Seq(ToSet(Tail(todo)))
  BY TailFacts DEF Inv, IsTodo, IsSequence
<1>2. todo' = << >> \o Tail(todo)
  BY <1>1, ConcatEmptySeq DEF Done
<1> QED BY <1>2, FitTasks, EdgeFit

\* The task in hand, and the builder, before a step.
LEMMA EdgeFacts ==
  ASSUME Inv, EdgeInv, IfsJoin, todo # << >>
  PROVE  /\ Task = Head(todo) /\ IsTask(Task) /\ Used(Task) /\ Leads(func, Task)
         /\ Task.do \in {"value", "place", "branch"} =>
              HasParts(Task.value, Values) /\ PartsJoin(Task.value)
         /\ Built(func) /\ Edges(func) /\ Grows(func, func)
<1>1. Task = Head(todo) /\ Task \in ToSet(todo) /\ IsTask(Task)
  BY TaskFacts
<1>2. Grows(func, func)
  BY DEF Grows
<1>3. Task.do \in {"value", "place", "branch"} => HasParts(Task.value, Values) /\ PartsJoin(Task.value)
  BY <1>1, BodiesMadeOfValues DEF IsTask, MadeOf, IfsJoin
<1> QED BY <1>1, <1>2, <1>3 DEF EdgeInv, Inv

\* Steps that end no block: the tasks change, or the current block grows.
LEMMA EdgeOperand ==
  ASSUME Inv, EdgeInv, IfsJoin, LowerOperand
  PROVE  EdgeInv'
<1>1. todo # << >> /\ func' = func
  BY DEF LowerOperand, LowerLiteral, LowerSymbol, LowerOperation, LowerBorrow, LowerProjection,
         DoingValue, Doing, Ready
<1>2. /\ Task = Head(todo) /\ HasParts(Task.value, Values) /\ PartsJoin(Task.value)
      /\ Built(func') /\ Edges(func') /\ Grows(func, func')
  BY <1>1, EdgeFacts
     DEF LowerOperand, LowerLiteral, LowerSymbol, LowerOperation, LowerBorrow, LowerProjection,
         DoingValue, Doing, Task
<1>3. CASE LowerLiteral \/ LowerSymbol
  BY <1>1, <1>2, <1>3, EdgeDone DEF LowerLiteral, LowerSymbol
<1>4. CASE LowerOperation
  <2> DEFINE temp == [do |-> "temp", op |-> Task.value.op, n |-> Len(Task.value.args)]
             ts == LowerAll(Task.value.args) \o << temp >>
  <2>1. Fit(LowerAll(Task.value.args))
    BY <1>2, <1>4, LowerAllFit DEF LowerOperation, DoingValue, Task, HasParts, PartsJoin
  <2>2. Plain(temp) /\ Used(temp)
    BY DEF Plain, Used
  <2>3. todo' = ts \o Tail(todo)
    BY <1>4 DEF LowerOperation, Then
  <2> HIDE DEF temp
  <2>4. Fit(ts)
    BY <2>1, <2>2, FitTasks, FitConcat
  <2> HIDE DEF ts
  <2> QED BY <1>1, <1>2, <2>3, <2>4, EdgeFit
<1>5. CASE LowerBorrow
  <2> DEFINE t == LowerAsPlace(Task.value.place)
             u == [do |-> "ref", kind |-> Task.value.kind]
  <2>1. Plain(t) /\ Used(t) /\ Plain(u) /\ Used(u)
    BY <1>2, <1>5 DEF LowerBorrow, DoingValue, Task, PartsJoin, LowerAsPlace, Plain, Used
  <2>2. todo' = << t, u >> \o Tail(todo)
    BY <1>5 DEF LowerBorrow, Then
  <2> HIDE DEF t, u
  <2> QED BY <1>1, <1>2, <2>1, <2>2, FitTasks, EdgeFit
<1>6. CASE LowerProjection
  <2> DEFINE t == LowerAsPlace(Task.value)
  <2>1. Plain(t) /\ Used(t)
    BY <1>6 DEF LowerProjection, DoingValue, Task, Joins, LowerAsPlace, Plain, Used
  <2>2. todo' = << t >> \o Tail(todo)
    BY <1>6 DEF LowerProjection, Then
  <2> HIDE DEF t
  <2> QED BY <1>1, <1>2, <2>1, <2>2, FitTasks, EdgeFit
<1> QED BY <1>3, <1>4, <1>5, <1>6 DEF LowerOperand

LEMMA EdgePlace ==
  ASSUME Inv, EdgeInv, IfsJoin, LowerPlace
  PROVE  EdgeInv'
<1>1. todo # << >>
  BY DEF LowerPlace, PlaceSymbol, PlaceProjection, ProjectPlace, PlaceOfValue, operand_to_place,
         DoingPlace, Doing, Ready
<1>2. /\ Task = Head(todo) /\ Built(func) /\ Edges(func) /\ Grows(func, func) /\ Used(Task)
      /\ Task.do = "place" => HasParts(Task.value, Values) /\ PartsJoin(Task.value)
  BY <1>1, EdgeFacts
<1>3. Like(func, func') \/ func' = func
  <2>1. Like(func, new_temp(func))
    BY <1>2, NewTempLike
  <2>2. CASE operand_to_place
    BY <1>2, <2>2, TempLike DEF operand_to_place, push_assign
  <2>3. CASE PlaceSymbol \/ PlaceProjection \/ ProjectPlace \/ PlaceOfValue
    BY <2>1, <2>3 DEF PlaceSymbol, PlaceProjection, ProjectPlace, PlaceOfValue
  <2> QED BY <2>2, <2>3 DEF LowerPlace
<1>4. Built(func') /\ Edges(func') /\ Grows(func, func')
  BY <1>2, <1>3, LikeKeeps
<1>5. CASE PlaceSymbol \/ ProjectPlace \/ operand_to_place
  <2>1. Done
    BY <1>5 DEF PlaceSymbol, ProjectPlace, operand_to_place
  <2> QED BY <1>1, <1>4, <2>1, EdgeDone
<1>6. CASE PlaceProjection
  <2> DEFINE t == LowerAsPlace(Task.value.base)
             u == [do |-> "project",
                   step |-> IF Task.value.v = "deref" THEN DerefStep ELSE FieldStep(Task.value.name)]
  <2>1. Plain(t) /\ Used(t) /\ Plain(u) /\ Used(u)
    BY <1>2, <1>6 DEF PlaceProjection, DoingPlace, Doing, Task, PartsJoin, LowerAsPlace, Plain, Used
  <2>2. todo' = << t, u >> \o Tail(todo)
    BY <1>6 DEF PlaceProjection, Then
  <2> HIDE DEF t, u
  <2> QED BY <1>1, <1>4, <2>1, <2>2, FitTasks, EdgeFit
<1>7. CASE PlaceOfValue
  <2> DEFINE t == Lower(Task.value, FALSE)
             u == Do("operand_to_place")
  <2>1. Plain(t) /\ Used(t) /\ Plain(u) /\ Used(u)
    BY <1>2, <1>7 DEF PlaceOfValue, Doing, Task, Lower, Do, Plain, Used
  <2>2. todo' = << t, u >> \o Tail(todo)
    BY <1>7 DEF PlaceOfValue, Then
  <2> HIDE DEF t, u
  <2> QED BY <1>1, <1>4, <2>1, <2>2, FitTasks, EdgeFit
<1> QED BY <1>5, <1>6, <1>7 DEF LowerPlace

\* A block that ends with an edge to a block without arguments, or with none.
LEMMA EndedTo ==
  ASSUME NEW b, Built(b), Edges(b), NEW term,
         \/ term.edges = << >>
         \/ \E n : term.edges = << Edge(n, << >>) >> /\ Takes(b, n, 0)
         \/ \E m, n : term.edges = << Edge(m, << >>), Edge(n, << >>) >> /\ Takes(b, m, 0) /\ Takes(b, n, 0)
  PROVE  LET c == set_terminator(b, term)
         IN  /\ Built(c) /\ Edges(c) /\ Grows(b, c) /\ c.current = None /\ Waiting(c) = Waiting(b)
<1>1. Binds(b, term)
  <2>1. Len(<< >>) = 0
    OBVIOUS
  <2>2. CASE term.edges = << >>
    BY <2>2 DEF Binds
  <2>3. ASSUME NEW n, term.edges = << Edge(n, << >>) >>, Takes(b, n, 0)
        PROVE  Binds(b, term)
    <3>1. /\ Len(term.edges) = 1 /\ term.edges[1] = Edge(n, << >>)
      BY <2>3
    <3>2. term.edges[1].to = n /\ term.edges[1].args = << >>
      BY <3>1 DEF Edge
    <3> QED BY <2>1, <2>3, <3>1, <3>2 DEF Binds
  <2>4. ASSUME NEW m, NEW n, term.edges = << Edge(m, << >>), Edge(n, << >>) >>,
               Takes(b, m, 0), Takes(b, n, 0)
        PROVE  Binds(b, term)
    <3>1. /\ Len(term.edges) = 2
          /\ term.edges[1] = Edge(m, << >>) /\ term.edges[2] = Edge(n, << >>)
      BY <2>4
    <3>2. /\ term.edges[1].to = m /\ term.edges[1].args = << >>
          /\ term.edges[2].to = n /\ term.edges[2].args = << >>
      BY <3>1 DEF Edge
    <3>3. \A i \in 1..2 : i = 1 \/ i = 2
      OBVIOUS
    <3> QED BY <2>1, <2>4, <3>1, <3>2, <3>3 DEF Binds
  <2> QED BY <2>2, <2>3, <2>4
<1> QED BY <1>1, Ended

\* The two blocks of a jump's loop take no arguments.
LEMMA JumpTarget ==
  ASSUME Inv, EdgeInv, loop_stack # << >>, NEW kind
  PROVE  Takes(func, jump_target(kind), 0)
<1>1. PICK t \in ToSet(todo) : /\ t.do = "end_loop"
                               /\ Last(loop_stack).continue = t.continue /\ Last(loop_stack).break = t.break
  BY NestedLast DEF Inv
<1>2. Takes(func, t.continue, 0) /\ Takes(func, t.break, 0)
  BY <1>1 DEF EdgeInv, Leads
<1> QED BY <1>1, <1>2 DEF jump_target

LEMMA EdgeEffect ==
  ASSUME Inv, EdgeInv, IfsJoin, LowerEffect
  PROVE  EdgeInv'
<1>1. todo # << >>
  BY DEF LowerEffect, LowerAssign, LowerCall, LowerReturn, Jump, DoingValue, Doing, Ready
<1>2. /\ Task = Head(todo) /\ HasParts(Task.value, Values) /\ PartsJoin(Task.value)
      /\ Built(func) /\ Edges(func) /\ Grows(func, func)
  BY <1>1, EdgeFacts
     DEF LowerEffect, LowerAssign, LowerCall, LowerReturn, Jump, DoingValue, Doing, Task
<1>3. CASE LowerAssign
  <2> DEFINE t == LowerAsPlace(Task.value.place)
             u == Lower(Task.value.value, FALSE)
             w == Do("store")
  <2>1. Plain(t) /\ Used(t) /\ Plain(u) /\ Used(u) /\ Plain(w) /\ Used(w)
    BY <1>2, <1>3 DEF LowerAssign, DoingValue, Task, PartsJoin, LowerAsPlace, Lower, Do, Plain, Used
  <2>2. todo' = << t, u, w >> \o Tail(todo) /\ func' = func
    BY <1>3 DEF LowerAssign, Then
  <2> HIDE DEF t, u, w
  <2> QED BY <1>1, <1>2, <2>1, <2>2, FitTasks, EdgeFit
<1>4. CASE LowerCall
  <2> DEFINE c == [do |-> "call", callee |-> Copy(Static(Task.value.callee)),
                   n |-> Len(Task.value.args), tail |-> Task.tail]
             ts == LowerAll(Task.value.args) \o << c >>
  <2>1. Fit(LowerAll(Task.value.args))
    BY <1>2, <1>4, LowerAllFit DEF LowerCall, DoingValue, Task, HasParts, PartsJoin
  <2>2. Plain(c) /\ Used(c)
    BY DEF Plain, Used
  <2>3. todo' = ts \o Tail(todo) /\ func' = func
    BY <1>4 DEF LowerCall, Then
  <2> HIDE DEF c
  <2>4. Fit(ts)
    BY <2>1, <2>2, FitTasks, FitConcat
  <2> HIDE DEF ts
  <2> QED BY <1>1, <1>2, <2>3, <2>4, EdgeFit
<1>5. CASE LowerReturn
  <2> DEFINE t == Lower(Task.value.value, FALSE)
             r0 == [do |-> "return", n |-> 0]
             r1 == [do |-> "return", n |-> 1]
             ts == IF Task.value.value = UnitV THEN << r0 >> ELSE << t, r1 >>
  <2>1. Plain(t) /\ Used(t) /\ Plain(r0) /\ Used(r0) /\ Plain(r1) /\ Used(r1)
    BY <1>2, <1>5 DEF LowerReturn, DoingValue, Task, PartsJoin, Lower, Plain, Used
  <2>2. todo' = ts \o Tail(todo) /\ func' = func
    BY <1>5 DEF LowerReturn, Then
  <2> HIDE DEF t, r0, r1
  <2>3. Fit(ts)
    BY <2>1, FitTasks
  <2> HIDE DEF ts
  <2> QED BY <1>1, <1>2, <2>2, <2>3, EdgeFit
<1>6. CASE Jump
  <2>1. Built(func') /\ Edges(func') /\ Grows(func, func')
    <3>1. CASE loop_stack = << >>
      <4>1. Unreachable.edges = << >>
        BY DEF Unreachable, Terminator
      <4> QED BY <1>2, <1>6, <3>1, <4>1, EndedTo DEF Jump, unreachable
    <3>2. CASE loop_stack # << >>
      <4> DEFINE n == jump_target(Task.value.v)
      <4>1. Takes(func, n, 0)
        BY <3>2, JumpTarget
      <4>2. func' = goto(func, n)
        BY <1>6, <3>2 DEF Jump
      <4> HIDE DEF n
      <4>3. Goto(n, << >>).edges = << Edge(n, << >>) >>
        BY DEF Goto, Terminator
      <4> QED BY <1>2, <4>1, <4>2, <4>3, EndedTo DEF goto
    <3> QED BY <3>1, <3>2
  <2> QED BY <1>1, <1>6, <2>1, EdgeDone DEF Jump
<1> QED BY <1>3, <1>4, <1>5, <1>6 DEF LowerEffect

LEMMA EdgeEmit ==
  ASSUME Inv, EdgeInv, IfsJoin, Emit
  PROVE  EdgeInv'
<1>1. todo # << >> /\ Done
  BY DEF Emit, AssignOperation, AssignBorrow, Store, EmitCall, EmitReturn, Doing, Ready
<1>2. Built(func) /\ Edges(func)
  BY <1>1, EdgeFacts
<1> SUFFICES Built(func') /\ Edges(func') /\ Grows(func, func')
  BY <1>1, EdgeDone
<1>3. CASE AssignOperation \/ AssignBorrow
  BY <1>2, <1>3, TempLike, LikeKeeps DEF AssignOperation, AssignBorrow, assign_rvalue_to_temp, push_assign
<1>4. CASE Store
  BY <1>2, <1>4, PushAssignLike, LikeKeeps DEF Store
<1>5. CASE EmitCall
  <2>1. CASE Task.tail
    <3> DEFINE term == Call(Task.callee, Latest(Task.n), << >>, << >>)
    <3>1. term.edges = << >>
      BY DEF Call, Terminator
    <3>2. func' = set_terminator(func, term)
      BY <1>5, <2>1 DEF EmitCall, call
    <3> HIDE DEF term
    <3> QED BY <1>2, <3>1, <3>2, EndedTo
  <2>2. CASE ~Task.tail
    <3> DEFINE t == new_temp(func)
               b == reserve_block(t)
               n == LastBlock(b)
               term == Call(Task.callee, Latest(Task.n), << Local(LastLocal(b)) >>, << Edge(n, << >>) >>)
               e == set_terminator(b, term)
    <3>1. func' = switch_to_block(e, n)
      BY <1>5, <2>2 DEF EmitCall, call_return
    <3>2. Built(t) /\ Edges(t) /\ Grows(func, t)
      BY <1>2, NewTempLike, LikeKeeps
    <3> HIDE DEF t
    <3>3. Built(b) /\ Edges(b) /\ Grows(t, b) /\ Takes(b, n, 0) /\ n \in Waiting(b)
      BY <3>2, Reserved DEF reserve_block, LastBlock
    <3>4. term.edges = << Edge(n, << >>) >>
      BY DEF Call, Terminator
    <3> HIDE DEF b, n, term
    <3>5. Built(e) /\ Edges(e) /\ Grows(b, e) /\ e.current = None /\ Waiting(e) = Waiting(b)
      BY <3>3, <3>4, EndedTo
    <3> HIDE DEF e
    <3>6. Built(func') /\ Edges(func') /\ Grows(e, func')
      BY <3>1, <3>3, <3>5, Switched
    <3>7. Grows(func, func')
      BY <3>2, <3>3, <3>5, <3>6 DEF Grows
    <3> QED BY <3>6, <3>7
  <2> QED BY <2>1, <2>2
<1>6. CASE EmitReturn
  <2>1. Return(Latest(Task.n)).edges = << >>
    BY DEF Return, Terminator
  <2> QED BY <1>2, <1>6, <2>1, EndedTo DEF EmitReturn, ret
<1> QED BY <1>3, <1>4, <1>5, <1>6 DEF Emit

LEMMA EdgeBlocks ==
  ASSUME Inv, EdgeInv, IfsJoin, LowerBlocks
  PROVE  EdgeInv'
<1>1. todo # << >>
  BY DEF LowerBlocks, LowerBlock, LowerElement, DropOperand, lower_local_declaration, Initialise,
         DoingValue, Doing, Ready
<1>2. /\ Task = Head(todo) /\ IsTask(Task) /\ Used(Task) /\ Built(func) /\ Edges(func) /\ Grows(func, func)
      /\ Task.do = "value" => HasParts(Task.value, Values) /\ PartsJoin(Task.value)
  BY <1>1, EdgeFacts
<1>3. CASE LowerBlock
  <2> DEFINE ts == BlockTasks(Task.value.elements)
  <2>1. Fit(ts)
    BY <1>2, <1>3, BlockTasksFit DEF LowerBlock, DoingValue, Doing, Task, PartsJoin
  <2>2. todo' = ts \o Tail(todo) /\ func' = func
    BY <1>3 DEF LowerBlock, Then
  <2> HIDE DEF ts
  <2> QED BY <1>1, <1>2, <2>1, <2>2, EdgeFit
<1>4. CASE DropOperand \/ Initialise
  <2>1. Built(func') /\ Edges(func') /\ Grows(func, func')
    BY <1>2, <1>4, PushAssignLike, LikeKeeps DEF DropOperand, Initialise
  <2> QED BY <1>1, <1>4, <2>1, EdgeDone DEF DropOperand, Initialise
<1> DEFINE es == Task.elements
<1>5. ASSUME LowerElement \/ lower_local_declaration
      PROVE  /\ es # << >> /\ AreElements(es, Values) /\ ElementsJoin(es)
             /\ Fit(OtherElements) /\ Element = es[1] /\ (IsLast <=> Len(es) = 1)
  <2>1. es # << >> /\ AreElements(es, Values) /\ ElementsJoin(es)
    BY <1>2, <1>5 DEF LowerElement, lower_local_declaration, Doing, Task, IsTask, Used
  <2>2. Element = es[1]
    BY <2>1, OtherElementsTame DEF Element
  <2>3. Len(es) # 1 => Fit(<< Elements(Tail(es)) >>)
    BY <2>1, ElementsFit
  <2>4. Fit(OtherElements)
    BY <2>3, FitTasks DEF OtherElements, IsLast
  <2> QED BY <2>1, <2>2, <2>4 DEF IsLast
<1>6. CASE LowerElement
  <2> DEFINE t == Lower(Element.value, IsLast)
             u == Do("drop")
             drop == IF IsLast THEN << >> ELSE << u >>
             ts == << t >> \o drop \o OtherElements
  <2>1. ~IsLast => Joins(Element.value)
    BY <1>5, <1>6, ElementsFit DEF LowerElement
  <2>2. Plain(t) /\ Used(t) /\ Plain(u) /\ Used(u)
    BY <2>1 DEF Lower, Do, Plain, Used
  <2>3. todo' = ts \o Tail(todo) /\ func' = func
    BY <1>6 DEF LowerElement, Then
  <2> HIDE DEF t, u
  <2>4. Fit(<< t >>) /\ Fit(drop)
    BY <2>2, FitTasks
  <2> HIDE DEF drop
  <2>5. Fit(ts)
    BY <1>5, <1>6, <2>4, FitConcat
  <2> HIDE DEF ts
  <2> QED BY <1>1, <1>2, <2>3, <2>5, EdgeFit
<1>7. CASE lower_local_declaration
  <2> DEFINE t == Lower(Element.init[1], FALSE)
             u == [do |-> "initialise", local |-> LastLocal(new_temp(func))]
             first == IF Element.init = << >> THEN << >> ELSE << t, u >>
             ts == first \o OtherElements
  <2>1. Element.init # << >> => Joins(Element.init[1])
    BY <1>5, <1>7, ElementsFit DEF lower_local_declaration
  <2>2. Element.init # << >> => Plain(t) /\ Used(t) /\ Plain(u) /\ Used(u)
    BY <2>1 DEF Lower, Plain, Used
  <2>3. todo' = ts \o Tail(todo)
    BY <1>7 DEF lower_local_declaration, Then
  <2>4. Built(func') /\ Edges(func') /\ Grows(func, func')
    BY <1>2, <1>7, TempLike, LikeKeeps DEF lower_local_declaration
  <2> HIDE DEF t, u
  <2>5. Fit(first)
    BY <2>2, FitTasks
  <2> HIDE DEF first
  <2>6. Fit(ts)
    BY <1>5, <1>7, <2>5, FitConcat
  <2> HIDE DEF ts
  <2> QED BY <1>1, <2>3, <2>4, <2>6, EdgeFit
<1> QED BY <1>3, <1>4, <1>6, <1>7 DEF LowerBlocks

LEMMA GrowsTransitive ==
  ASSUME NEW b, NEW c, NEW d, Grows(b, c), Grows(c, d)
  PROVE  Grows(b, d)
BY DEF Grows

LEMMA EdgeBranches ==
  ASSUME Inv, EdgeInv, IfsJoin, LowerBranches
  PROVE  EdgeInv'
<1>1. todo # << >>
  BY DEF LowerBranches, LowerIf, Branch, EndBranch, StartElse, Merge, DoingValue, Doing, Ready
<1>2. /\ Task = Head(todo) /\ IsTask(Task) /\ Used(Task) /\ Leads(func, Task)
      /\ Built(func) /\ Edges(func) /\ Grows(func, func)
      /\ Task.do \in {"value", "branch"} => HasParts(Task.value, Values) /\ PartsJoin(Task.value)
  BY <1>1, EdgeFacts
<1>3. (Resumes(Task) => func.current = None) /\ Owned(Task) \subseteq Waiting(func)
  BY <1>1, <1>2, TaskFacts, TailFacts, SharesTail DEF Inv, Stopped
<1>4. CASE LowerIf
  <2> DEFINE t == Lower(Task.value.cond, FALSE)
             u == [do |-> "branch", value |-> Task.value, tail |-> Task.tail]
  <2>1. Plain(t) /\ Used(t) /\ Plain(u) /\ Used(u)
    BY <1>2, <1>4 DEF LowerIf, DoingValue, Doing, Task, PartsJoin, Lower, Plain, Used
  <2>2. todo' = << t, u >> \o Tail(todo) /\ func' = func
    BY <1>4 DEF LowerIf, Then
  <2> HIDE DEF t, u
  <2> QED BY <1>1, <1>2, <2>1, <2>2, FitTasks, EdgeFit
<1>5. CASE Branch
  <2> DEFINE arity == IF Task.tail THEN 0 ELSE 1
             n == Len(func.blocks)
             merge == n + 1
             b1 == reserve_block_with_args(func, arity)
             then == merge + 1
             b2 == reserve_block(b1)
             has_else == Task.value.else # << >>
             else == IF has_else THEN merge + 2 ELSE merge
             b3 == IF has_else THEN reserve_block(b2) ELSE b2
             ended == if_br(b3, Top, then, else)
             end == [do |-> "end_branch", merge |-> merge, tail |-> Task.tail]
             s == [do |-> "switch", block |-> else]
             m == [do |-> "merge", merge |-> merge]
             B1 == BlockTasks(Task.value.then)
             B2 == BlockTasks(Task.value.else[1])
             mid == IF has_else THEN << end, s >> \o B2 ELSE << >>
             ts == B1 \o mid \o << end, m >>
  <2>1. func' = switch_to_block(ended, then) /\ todo' = ts \o Tail(todo) /\ Task.do = "branch"
    BY <1>5 DEF Branch, Then, Doing, Task
  <2>2. /\ Fit(B1) /\ (has_else => Fit(B2)) /\ (~has_else => arity = 0)
        /\ arity \in {0, 1} /\ n \in Nat
    <3>1. Fit(B1) /\ (has_else => Fit(B2))
      BY <1>2, <2>1, BlockTasksFit DEF IsTask, PartsJoin
    <3>2. ~has_else => Task.tail
      BY <1>2, <2>1 DEF IsTask, Used, Joins
    <3>3. n \in Nat
      BY <1>2, SequenceFacts DEF Built, AreBlocks
    <3> QED BY <3>1, <3>2, <3>3
  <2>3. /\ Built(b1) /\ Edges(b1) /\ Grows(func, b1) /\ Takes(b1, merge, arity) /\ Len(b1.blocks) = merge
        /\ merge \in Nat
    <3> HIDE DEF arity
    <3> QED BY <1>2, <2>2, Reserved
  <2> HIDE DEF b1, merge
  <2>4. /\ Built(b2) /\ Edges(b2) /\ Grows(b1, b2) /\ Takes(b2, then, 0) /\ Len(b2.blocks) = then
        /\ then \in Waiting(b2) /\ then \in Nat
    BY <2>3, Reserved DEF reserve_block
  <2>5. Takes(b2, merge, arity)
    BY <2>3, <2>4, TakesKept
  <2> HIDE DEF b2, then
  <2>6. /\ Built(b3) /\ Edges(b3) /\ Grows(b2, b3) /\ Takes(b3, else, 0) /\ then \in Waiting(b3)
    <3>1. CASE has_else
      <4>1. then + 1 = else
        BY <2>3, <3>1 DEF then
      <4>2. /\ Built(b3) /\ Edges(b3) /\ Grows(b2, b3) /\ Takes(b3, then + 1, 0)
            /\ Waiting(b3) = Waiting(b2) \cup {then + 1}
        BY <2>4, <3>1, Reserved DEF reserve_block
      <4> QED BY <2>4, <4>1, <4>2
    <3>2. CASE ~has_else
      <4>1. else = merge /\ b3 = b2 /\ arity = 0
        BY <2>2, <3>2
      <4> HIDE DEF b3, arity, else
      <4> QED BY <2>4, <2>5, <4>1 DEF Grows
    <3> QED BY <3>1, <3>2
  <2>7. Takes(b3, merge, arity) /\ Takes(b3, then, 0)
    BY <2>4, <2>5, <2>6, TakesKept
  <2> HIDE DEF b3, else
  <2>8. Built(ended) /\ Edges(ended) /\ Grows(b3, ended) /\ ended.current = None /\ then \in Waiting(ended)
    <3> DEFINE term == If(Top, Edge(then, << >>), Edge(else, << >>))
    <3>1. term.edges = << Edge(then, << >>), Edge(else, << >>) >>
      BY DEF If, Terminator
    <3>2. ended = set_terminator(b3, term)
      BY DEF if_br
    <3> HIDE DEF term, ended
    <3> QED BY <2>6, <2>7, <3>1, <3>2, EndedTo
  <2> HIDE DEF ended
  <2>9. Built(func') /\ Edges(func') /\ Grows(ended, func')
    BY <2>1, <2>8, Switched
  <2>10. Grows(func, func')
    BY <2>3, <2>4, <2>6, <2>8, <2>9, GrowsTransitive
  <2>11. Takes(func', merge, arity)
    BY <2>7, <2>8, <2>9, TakesKept
  <2>12. /\ Used(end) /\ Leads(func', end) /\ Used(s) /\ Leads(func', s) /\ Used(m) /\ Leads(func', m)
    BY <2>11 DEF Used, Leads
  <2>13. IsSequence(ts) /\ \A t \in ToSet(ts) : Used(t) /\ Leads(func', t)
    <3> DEFINE Good(q) == IsSequence(q) /\ \A t \in ToSet(q) : Used(t) /\ Leads(func', t)
    <3>1. ASSUME NEW q, Fit(q)
          PROVE  Good(q)
      BY <3>1 DEF Fit, Plain, Leads
    <3>2. ASSUME NEW q, NEW r, Good(q), Good(r)
          PROVE  Good(q \o r)
      BY <3>2, ConcatFacts
    <3> HIDE DEF end, s, m, B1, B2
    <3>3. Good(<< end, s >>) /\ Good(<< end, m >>)
      BY <2>12, TwoTasks
    <3>4. Good(<< >>)
      BY NoTasks
    <3> HIDE DEF Good
    <3>5. Good(mid)
      <4>1. CASE has_else
        BY <2>2, <3>1, <3>2, <3>3, <4>1
      <4>2. CASE ~has_else
        BY <3>4, <4>2
      <4> QED BY <4>1, <4>2
    <3> HIDE DEF mid
    <3>6. Good(ts)
      BY <2>2, <3>1, <3>2, <3>3, <3>5
    <3> HIDE DEF ts
    <3> QED BY <3>6 DEF Good
  <2> HIDE DEF ts
  <2> QED BY <1>1, <2>1, <2>9, <2>10, <2>13, EdgeReplaced
<1>6. CASE EndBranch
  <2>1. Task.do = "end_branch" /\ Done /\ func' = end_branch(Task.merge, Task.tail, Top)
    BY <1>6 DEF EndBranch, Doing, Task
  <2>2. Takes(func, Task.merge, IF Task.tail THEN 0 ELSE 1)
    BY <1>2, <2>1 DEF Leads
  <2>3. Built(func') /\ Edges(func') /\ Grows(func, func')
    <3>1. CASE func.current = None
      BY <1>2, <2>1, <3>1 DEF end_branch
    <3>2. CASE func.current # None /\ Task.tail
      <4> DEFINE term == Goto(Task.merge, << >>)
      <4>1. term.edges = << Edge(Task.merge, << >>) >>
        BY DEF Goto, Terminator
      <4>2. func' = set_terminator(func, term)
        BY <2>1, <3>2 DEF end_branch, goto
      <4>3. Takes(func, Task.merge, 0)
        BY <2>2, <3>2
      <4> HIDE DEF term
      <4> QED BY <1>2, <4>1, <4>2, <4>3, EndedTo
    <3>3. CASE func.current # None /\ ~Task.tail
      <4> DEFINE e == Edge(Task.merge, << Top >>)
                 term == Goto(Task.merge, << Top >>)
      <4>1. term.edges = << e >> /\ e.to = Task.merge /\ Len(e.args) = 1
        BY DEF Goto, Terminator, Edge
      <4>2. func' = set_terminator(func, term)
        BY <2>1, <3>3 DEF end_branch, goto_with_args
      <4>3. Takes(func, Task.merge, 1)
        BY <2>2, <3>3
      <4> HIDE DEF term, e
      <4>4. Binds(func, term)
        <5>1. Len(term.edges) = 1 /\ term.edges[1] = e
          BY <4>1
        <5>2. \A i \in 1..1 : i = 1
          OBVIOUS
        <5>3. Takes(func, term.edges[1].to, Len(term.edges[1].args))
          BY <4>1, <4>3, <5>1
        <5> QED BY <5>1, <5>2, <5>3 DEF Binds
      <4> QED BY <1>2, <4>2, <4>4, Ended
    <3> QED BY <3>1, <3>2, <3>3
  <2> QED BY <1>1, <2>1, <2>3, EdgeDone
<1>7. CASE StartElse \/ Merge
  <2> DEFINE n == IF StartElse THEN Task.block ELSE Task.merge
  <2>1. /\ Done /\ Resumes(Task) /\ func' = switch_to_block(func, n) /\ Owned(Task) = {n}
    BY <1>7 DEF StartElse, Merge, Doing, Task, Owned, Resumes
  <2> HIDE DEF n
  <2>2. Built(func') /\ Edges(func') /\ Grows(func, func')
    BY <1>2, <1>3, <2>1, Switched
  <2> QED BY <1>1, <2>1, <2>2, EdgeDone
<1> QED BY <1>4, <1>5, <1>6, <1>7 DEF LowerBranches

LEMMA EdgeLoops ==
  ASSUME Inv, EdgeInv, IfsJoin, LowerLoops
  PROVE  EdgeInv'
<1>1. todo # << >>
  BY DEF LowerLoops, LowerWhile, TestLoop, LowerLoop, EndLoop, DoingValue, Doing, Ready
<1>2. /\ Task = Head(todo) /\ IsTask(Task) /\ Used(Task) /\ Leads(func, Task)
      /\ Built(func) /\ Edges(func) /\ Grows(func, func)
      /\ Task.do = "value" => HasParts(Task.value, Values) /\ PartsJoin(Task.value)
  BY <1>1, EdgeFacts
<1>3. Owned(Task) \subseteq Waiting(func)
  BY <1>1, <1>2, TaskFacts, SharesTail DEF Inv
<1> DEFINE n == Len(func.blocks)
<1>4. n \in Nat
  BY <1>2, SequenceFacts DEF Built, AreBlocks
\* The current block ends with an edge to one that was reserved, or with two.
<1>5. ASSUME NEW b, NEW k, NEW j, NEW o, Built(b), Edges(b), k \in Waiting(b), Takes(b, k, 0), Takes(b, j, 0)
      PROVE  /\ LET d == switch_to_block(goto(b, j), k)
                IN  Built(d) /\ Edges(d) /\ Grows(b, d)
             /\ LET d == switch_to_block(if_br(b, o, k, j), k)
                IN  Built(d) /\ Edges(d) /\ Grows(b, d)
  <2> DEFINE one == Goto(j, << >>)
             two == If(o, Edge(k, << >>), Edge(j, << >>))
             c == set_terminator(b, one)
             e == set_terminator(b, two)
  <2>1. one.edges = << Edge(j, << >>) >> /\ two.edges = << Edge(k, << >>), Edge(j, << >>) >>
    BY DEF Goto, If, Terminator
  <2>2. goto(b, j) = c /\ if_br(b, o, k, j) = e
    BY DEF goto, if_br
  <2> HIDE DEF one, two
  <2>3. /\ Built(c) /\ Edges(c) /\ Grows(b, c) /\ c.current = None /\ Waiting(c) = Waiting(b)
    BY <1>5, <2>1, EndedTo
  <2>4. /\ Built(e) /\ Edges(e) /\ Grows(b, e) /\ e.current = None /\ Waiting(e) = Waiting(b)
    BY <1>5, <2>1, EndedTo
  <2> HIDE DEF c, e
  <2> DEFINE d == switch_to_block(c, k)
             f == switch_to_block(e, k)
  <2>5. Built(d) /\ Edges(d) /\ Grows(c, d)
    BY <1>5, <2>3, Switched
  <2>6. Built(f) /\ Edges(f) /\ Grows(e, f)
    BY <1>5, <2>4, Switched
  <2> HIDE DEF d, f
  <2>7. Grows(b, d) /\ Grows(b, f)
    BY <2>3, <2>4, <2>5, <2>6, GrowsTransitive
  <2> QED BY <2>2, <2>5, <2>6, <2>7 DEF d, f
\* Two blocks are reserved.
<1> DEFINE one == reserve_block(func)
           two == reserve_block(one)
<1>6. /\ Built(two) /\ Edges(two) /\ Grows(func, two) /\ Len(two.blocks) = n + 2
      /\ Takes(two, n + 1, 0) /\ Takes(two, n + 2, 0)
      /\ n + 1 \in Waiting(two) /\ n + 2 \in Waiting(two)
  <2>1. /\ Built(one) /\ Edges(one) /\ Grows(func, one) /\ Takes(one, n + 1, 0)
        /\ Len(one.blocks) = n + 1 /\ n + 1 \in Waiting(one)
    BY <1>2, Reserved DEF reserve_block
  <2> HIDE DEF one
  <2>2. /\ Built(two) /\ Edges(two) /\ Grows(one, two) /\ Takes(two, n + 1 + 1, 0)
        /\ Len(two.blocks) = n + 1 + 1 /\ Waiting(two) = Waiting(one) \cup {n + 1 + 1}
    BY <2>1, Reserved DEF reserve_block
  <2>3. n + 1 + 1 = n + 2
    BY <1>4
  <2> HIDE DEF two
  <2> QED BY <2>1, <2>2, <2>3, GrowsTransitive, TakesKept
<1> HIDE DEF two
<1>7. CASE LowerWhile
  <2> DEFINE t == Lower(Task.value.cond, FALSE)
             u == [do |-> "test", header |-> n + 1, body |-> Task.value.body]
             three == reserve_block(two)
  <2>1. /\ todo' = << t, u >> \o Tail(todo)
        /\ func' = switch_to_block(goto(three, n + 1), n + 1)
    BY <1>7 DEF LowerWhile, Then, two
  <2>2. /\ Built(three) /\ Edges(three) /\ Grows(func, three) /\ n + 1 \in Waiting(three)
        /\ Takes(three, n + 1, 0) /\ Takes(three, n + 2, 0) /\ Takes(three, n + 3, 0)
    <3>1. /\ Built(three) /\ Edges(three) /\ Grows(two, three) /\ Takes(three, n + 2 + 1, 0)
          /\ Waiting(three) = Waiting(two) \cup {n + 2 + 1}
      BY <1>6, Reserved DEF reserve_block
    <3>2. n + 2 + 1 = n + 3
      BY <1>4
    <3> HIDE DEF three
    <3> QED BY <1>6, <3>1, <3>2, GrowsTransitive, TakesKept
  <2> HIDE DEF three
  <2>3. Built(func') /\ Edges(func') /\ Grows(three, func')
    BY <1>5, <2>1, <2>2
  <2>4. Grows(func, func')
    BY <2>2, <2>3, GrowsTransitive
  <2>5. Takes(func', n + 1, 0) /\ Takes(func', n + 2, 0) /\ Takes(func', n + 3, 0)
    BY <2>2, <2>3, TakesKept
  <2>6. Used(t) /\ Leads(func', t)
    BY <1>2, <1>7 DEF LowerWhile, DoingValue, Doing, Task, PartsJoin, Lower, Used, Leads
  <2>7. Used(u) /\ Leads(func', u)
    <3>1. ElementsJoin(Task.value.body)
      BY <1>2, <1>7 DEF LowerWhile, DoingValue, Doing, Task, PartsJoin
    <3>2. n + 1 + 1 = n + 2 /\ n + 1 + 2 = n + 3
      BY <1>4
    <3> HIDE DEF n
    <3> QED BY <2>5, <3>1, <3>2 DEF Used, Leads
  <2> HIDE DEF t, u
  <2>8. IsSequence(<< t, u >>) /\ \A w \in ToSet(<< t, u >>) : Used(w) /\ Leads(func', w)
    BY <2>6, <2>7, TwoTasks
  <2> QED BY <1>1, <2>1, <2>3, <2>4, <2>8, EdgeReplaced
\* The body of a loop, and its end.
<1>8. ASSUME NEW es, ElementsJoin(es), NEW continue, NEW break,
             Built(func'), Edges(func'), Grows(func, func'),
             Takes(func', continue, 0), Takes(func', break, 0),
             todo' = LoopTasks(es, continue, break) \o Tail(todo)
      PROVE  EdgeInv'
  <2> DEFINE e == [do |-> "end_loop", continue |-> continue, break |-> break]
             s == BlockTasks(es)
             ts == s \o << e >>
  <2>1. Used(e) /\ Leads(func', e)
    BY <1>8 DEF Used, Leads
  <2>2. Fit(s)
    BY <1>8, BlockTasksFit
  <2>3. todo' = ts \o Tail(todo)
    BY <1>8 DEF LoopTasks
  <2>4. \A t \in ToSet(s) : Used(t) /\ Leads(func', t)
    BY <2>2 DEF Fit, Plain, Leads
  <2> HIDE DEF e, s
  <2>5. IsSequence(ts) /\ \A t \in ToSet(ts) : Used(t) /\ Leads(func', t)
    BY <2>1, <2>2, <2>4, OneTask, ConcatFacts DEF Fit
  <2> HIDE DEF ts
  <2> QED BY <1>1, <1>8, <2>3, <2>5, EdgeReplaced
<1>9. CASE TestLoop
  <2> DEFINE h == Task.header
  <2>1. /\ Task.do = "test" /\ h \in Nat /\ Owned(Task) = {h + 1, h + 2}
        /\ Takes(func, h, 0) /\ Takes(func, h + 1, 0) /\ Takes(func, h + 2, 0) /\ ElementsJoin(Task.body)
    BY <1>2, <1>9 DEF TestLoop, Doing, Task, IsTask, Owned, Used, Leads
  <2>2. /\ todo' = LoopTasks(Task.body, h, h + 2) \o Tail(todo)
        /\ func' = switch_to_block(if_br(func, Top, h + 1, h + 2), h + 1)
    BY <1>9 DEF TestLoop, Then
  <2> HIDE DEF h
  <2>3. Built(func') /\ Edges(func') /\ Grows(func, func')
    BY <1>2, <1>3, <1>5, <2>1, <2>2
  <2>4. Takes(func', h, 0) /\ Takes(func', h + 2, 0)
    BY <2>1, <2>3, TakesKept
  <2> QED BY <1>8, <2>1, <2>2, <2>3, <2>4
<1>10. CASE LowerLoop
  <2>1. ElementsJoin(Task.value.body)
    BY <1>2, <1>10 DEF LowerLoop, DoingValue, Doing, Task, PartsJoin
  <2>2. /\ todo' = LoopTasks(Task.value.body, n + 1, n + 1 + 1) \o Tail(todo)
        /\ func' = switch_to_block(goto(two, n + 1), n + 1)
    BY <1>10 DEF LowerLoop, Then, two
  <2>3. n + 1 + 1 = n + 2
    BY <1>4
  <2> HIDE DEF n
  <2>4. Built(func') /\ Edges(func') /\ Grows(two, func')
    BY <1>5, <1>6, <2>2
  <2>5. Grows(func, func')
    BY <1>6, <2>4, GrowsTransitive
  <2>6. Takes(func', n + 1, 0) /\ Takes(func', n + 2, 0)
    BY <1>6, <2>4, TakesKept
  <2> QED BY <1>8, <2>1, <2>2, <2>3, <2>4, <2>5, <2>6
<1>11. CASE EndLoop
  <2>1. /\ Task.do = "end_loop" /\ Owned(Task) = {Task.break} /\ Done
        /\ func' = switch_to_block(goto(func, Task.continue), Task.break)
    BY <1>11 DEF EndLoop, Doing, Task, Owned, end_of_loop
  <2>2. Takes(func, Task.continue, 0) /\ Takes(func, Task.break, 0)
    BY <1>2, <2>1 DEF Leads
  <2>3. Built(func') /\ Edges(func') /\ Grows(func, func')
    BY <1>2, <1>3, <1>5, <2>1, <2>2
  <2> QED BY <1>1, <2>1, <2>3, EdgeDone
<1> QED BY <1>7, <1>9, <1>10, <1>11 DEF LowerLoops

LEMMA EdgeInit ==
  ASSUME Init, IfsJoin
  PROVE  EdgeInv
<1>1. PICK es \in Bodies : body = ensure_return_in_body(es)
  BY DEF Init
<1>2. ElementsJoin(body)
  BY <1>1 DEF IfsJoin
<1>3. Used(Elements(body)) /\ Leads(func, Elements(body))
  BY <1>2 DEF Elements, Used, Leads
<1>4. ToSet(todo) = {Elements(body)}
  BY OneTask DEF Init
<1>5. Edges(func) /\ func.blocks # << >>
  BY Started DEF Init
<1> QED BY <1>3, <1>4, <1>5 DEF EdgeInv

LEMMA EdgeStep ==
  ASSUME IfsJoin, Inv, EdgeInv, [Next]_vars
  PROVE  EdgeInv'
<1>1. CASE Step
  BY <1>1, EdgeOperand, EdgePlace, EdgeEffect, EdgeEmit, EdgeBranches, EdgeLoops, EdgeBlocks DEF Step
<1>2. CASE Terminated \/ UNCHANGED vars
  <2>1. UNCHANGED <<todo, func>>
    BY <1>2 DEF Terminated, vars
  <2> QED BY <2>1 DEF EdgeInv
<1> QED BY <1>1, <1>2 DEF Next

\* The implicit return ends the last block and leads nowhere.
LEMMA EdgesAreBound ==
  ASSUME Inv, EdgeInv
  PROVE  EdgesBindArguments
<1> DEFINE b == implicit_return(func)
<1>1. Built(func) /\ Edges(func) /\ func.blocks # << >>
  BY DEF Inv, EdgeInv
<1>2. Return(<< >>).edges = << >>
  BY DEF Return, Terminator
<1>3. Built(b) /\ Edges(b) /\ Grows(func, b)
  <2>1. CASE func.current = None
    BY <1>1, <2>1 DEF implicit_return, Grows
  <2>2. CASE func.current # None
    <3>1. b = set_terminator(func, Return(<< >>))
      BY <2>2 DEF implicit_return, ret
    <3> HIDE DEF b
    <3> QED BY <1>1, <1>2, <3>1, EndedTo
  <2> QED BY <2>1, <2>2
<1>4. 1 \in DOMAIN b.blocks
  <2>1. 1 \in DOMAIN func.blocks
    BY <1>1, SequenceFacts DEF Built, AreBlocks
  <2> QED BY <1>3, <2>1 DEF Grows
<1> HIDE DEF b
<1> DEFINE f == finish_function(b)
<1>5. f.entry = 1 /\ f.blocks = b.blocks /\ f = Function
  BY DEF finish_function, Function, b
<1> HIDE DEF f
<1>6. EdgesBind(f)
  <2>1. f.entry \in Blocks(f)
    BY <1>4, <1>5 DEF Blocks
  <2>2. ASSUME NEW n \in Blocks(f)
        PROVE  /\ Len(successor_edges(f, n)) \in Nat
               /\ \A i \in 1..Len(successor_edges(f, n)) :
                    /\ successor_edges(f, n)[i].to \in Blocks(f)
                    /\ Len(successor_edges(f, n)[i].args) = Len(f.blocks[successor_edges(f, n)[i].to].args)
    <3>1. n \in DOMAIN b.blocks /\ successor_edges(f, n) = b.blocks[n].term.edges
      BY <1>5 DEF Blocks, successor_edges, Term
    <3>2. Binds(b, b.blocks[n].term)
      BY <1>3, <3>1 DEF Edges
    <3> QED BY <1>5, <3>1, <3>2 DEF Blocks, Binds, Takes
  <2> QED BY <2>1, <2>2 DEF EdgesBind
<1> QED BY <1>5, <1>6 DEF EdgesBindArguments

\* When no if without else is used as a value, the code is well formed at every
\* moment (stmt.rs:44-46: an edge binds the arguments of its target).
THEOREM CodeAlwaysWellFormed == IfsJoin => (Spec => []CodeWellFormed)
<1>1. ASSUME IfsJoin
      PROVE  Init => EdgeInv
  BY <1>1, EdgeInit
<1>2. ASSUME IfsJoin
      PROVE  Inv /\ EdgeInv /\ [Next]_vars => EdgeInv'
  BY <1>2, EdgeStep
<1>3. Inv /\ EdgeInv => CodeWellFormed
  BY InvEnds, EdgesAreBound DEF CodeWellFormed
<1> SUFFICES ASSUME IfsJoin
             PROVE  Spec => []CodeWellFormed
  OBVIOUS
<1>4. Init => EdgeInv
  BY <1>1
<1>5. Inv /\ EdgeInv /\ [Next]_vars => EdgeInv'
  BY <1>2
<1> QED BY <1>3, <1>4, <1>5, InvAlways, PTL DEF Spec

(***************************************************************************)
(* The current block.                                                      *)
(***************************************************************************)
LEMMA FlowTail ==
  ASSUME NEW q, NEW D, NEW S, IsSequence(q), q # << >>, Flow(q, D, S)
  PROVE  /\ Flow(Tail(q), {i \in Nat : i + 1 \in D}, S)
         /\ 0 \in D => Tolerant(Head(q))
         /\ 0 \in D \/ MayLeave(Head(q), S) => Resumes(Head(q)) \/ 1 \in D
<1>1. /\ Len(q) \in Nat /\ Len(q) >= 1 /\ Head(q) = q[1] /\ Len(Tail(q)) = Len(q) - 1
      /\ \A i \in 1..Len(Tail(q)) : Tail(q)[i] = q[i + 1] /\ i + 1 \in 1..Len(q)
  BY TailFacts, SequenceFacts
<1> DEFINE E == {i \in Nat : i + 1 \in D}
<1>2. ASSUME NEW i \in 1..Len(Tail(q))
      PROVE  /\ i - 1 \in E => Tolerant(Tail(q)[i])
             /\ i - 1 \in E \/ MayLeave(Tail(q)[i], S) => Resumes(Tail(q)[i]) \/ i \in E
  <2>1. /\ i \in Nat /\ i + 1 \in 1..Len(q) /\ Tail(q)[i] = q[i + 1]
        /\ i - 1 \in E => i + 1 - 1 \in D
        /\ i + 1 \in D => i \in E
    BY <1>1
  <2> HIDE DEF E
  <2> QED BY <2>1 DEF Flow
<1>3. 1 \in 1..Len(q) /\ 1 - 1 = 0
  BY <1>1
<1>4. 0 \in D => Tolerant(Head(q))
  BY <1>1, <1>3 DEF Flow
<1>5. 0 \in D \/ MayLeave(Head(q), S) => Resumes(Head(q)) \/ 1 \in D
  BY <1>1, <1>3 DEF Flow
<1> HIDE DEF E
<1>6. Flow(Tail(q), E, S)
  BY <1>2 DEF Flow
<1> QED BY <1>4, <1>5, <1>6 DEF E

LEMMA FlowConcat ==
  ASSUME NEW s, NEW t, NEW S, NEW D \in SUBSET Nat, NEW E \in SUBSET Nat,
         IsSequence(s), IsSequence(t), Flow(s, D, S), Flow(t, E, S), Len(s) \in D => 0 \in E
  PROVE  \E both \in SUBSET Nat : /\ Flow(s \o t, both, S)
                                  /\ 0 \in D => 0 \in both
                                  /\ Len(s \o t) \in both => Len(t) \in E
<1> DEFINE both == {i \in D : i < Len(s)} \cup {i \in Nat : i >= Len(s) /\ i - Len(s) \in E}
           r == s \o t
<1>1. /\ Len(s) \in Nat /\ Len(t) \in Nat /\ Len(r) = Len(s) + Len(t)
      /\ \A i \in 1..Len(s) : r[i] = s[i]
      /\ \A i \in 1..Len(t) : r[Len(s) + i] = t[i]
  BY ConcatFacts, SequenceFacts
<1> HIDE DEF r
<1>2. ASSUME NEW i \in 1..Len(s)
      PROVE  /\ i - 1 \in both => Tolerant(r[i])
             /\ i - 1 \in both \/ MayLeave(r[i], S) => Resumes(r[i]) \/ i \in both
  <2>1. i \in Nat /\ r[i] = s[i] /\ (i - 1 \in both => i - 1 \in D)
    BY <1>1
  <2>2. i \in D => i \in both
    <3>1. CASE i < Len(s)
      BY <3>1
    <3>2. CASE i = Len(s)
      <4>1. i - Len(s) = 0 /\ i >= Len(s)
        BY <1>1, <3>2
      <4> QED BY <2>1, <3>2, <4>1
    <3> QED BY <1>1, <3>1, <3>2
  <2> HIDE DEF both
  <2> QED BY <2>1, <2>2 DEF Flow
<1>3. ASSUME NEW i \in 1..Len(t)
      PROVE  /\ Len(s) + i - 1 \in both => Tolerant(r[Len(s) + i])
             /\ Len(s) + i - 1 \in both \/ MayLeave(r[Len(s) + i], S) =>
                  Resumes(r[Len(s) + i]) \/ Len(s) + i \in both
  <2>1. i \in Nat /\ r[Len(s) + i] = t[i]
    BY <1>1
  <2>2. Len(s) + i - 1 \in both => i - 1 \in E
    <3>1. /\ ~(Len(s) + i - 1 < Len(s))
          /\ Len(s) + i - 1 - Len(s) = i - 1
      BY <1>1, <2>1
    <3> QED BY <3>1
  <2>3. i \in E => Len(s) + i \in both
    <3>1. Len(s) + i \in Nat /\ Len(s) + i >= Len(s) /\ Len(s) + i - Len(s) = i
      BY <1>1, <2>1
    <3> QED BY <3>1
  <2> HIDE DEF both
  <2> QED BY <2>1, <2>2, <2>3 DEF Flow
<1>4. Flow(r, both, S)
  <2> SUFFICES ASSUME NEW i \in 1..Len(r)
               PROVE  /\ i - 1 \in both => Tolerant(r[i])
                      /\ i - 1 \in both \/ MayLeave(r[i], S) => Resumes(r[i]) \/ i \in both
    BY DEF Flow
  <2> HIDE DEF both
  <2>1. CASE i \in 1..Len(s)
    BY <1>2, <2>1
  <2>2. CASE i \notin 1..Len(s)
    <3>1. i - Len(s) \in 1..Len(t) /\ Len(s) + (i - Len(s)) = i
      BY <1>1, <2>2
    <3> DEFINE j == i - Len(s)
    <3>2. j \in 1..Len(t) /\ Len(s) + j = i
      BY <3>1
    <3> HIDE DEF j
    <3> QED BY <1>3, <3>2
  <2> QED BY <2>1, <2>2
<1>5. both \in SUBSET Nat
  OBVIOUS
<1>6. 0 \in D => 0 \in both
  <2>1. CASE Len(s) = 0
    BY <2>1
  <2>2. CASE Len(s) # 0
    BY <1>1, <2>2
  <2> QED BY <2>1, <2>2
<1>7. Len(r) \in both => Len(t) \in E
  BY <1>1
<1> HIDE DEF both
<1> QED BY <1>4, <1>5, <1>6, <1>7 DEF r

\* Tasks of which only the last may leave.
LEMMA FlowLast ==
  ASSUME NEW s, NEW t, NEW S, IsSequence(s), \A u \in ToSet(s) : ~MayLeave(u, S)
  PROVE  /\ Flow(s, {}, S)
         /\ LET q == s \o << t >>
            IN  /\ Flow(q, {Len(s) + 1}, S) /\ Len(q) = Len(s) + 1
                /\ ~MayLeave(t, S) => Flow(q, {}, S)
<1> DEFINE q == s \o << t >>
<1>1. /\ Len(s) \in Nat /\ Len(q) = Len(s) + 1
      /\ \A i \in 1..Len(s) : q[i] = s[i] /\ s[i] \in ToSet(s)
      /\ q[Len(s) + 1] = t
  BY OneTask, ConcatFacts, SequenceFacts
<1> HIDE DEF q
<1>2. Flow(s, {}, S)
  BY <1>1 DEF Flow
<1>3. \A i \in 1..Len(q) : ~MayLeave(q[i], S) \/ i = Len(s) + 1
  BY <1>1
<1>4. \A i \in 1..Len(q) : i - 1 \notin {Len(s) + 1}
  BY <1>1
<1>5. Flow(q, {Len(s) + 1}, S)
  BY <1>3, <1>4 DEF Flow
<1>6. ~MayLeave(t, S) => Flow(q, {}, S)
  BY <1>1, <1>3 DEF Flow
<1> QED BY <1>1, <1>2, <1>5, <1>6 DEF q

\* Tasks that need no current block.
LEMMA FlowTolerant ==
  ASSUME NEW s, NEW S, IsSequence(s), \A u \in ToSet(s) : Tolerant(u)
  PROVE  Flow(s, Nat, S)
<1>1. \A i \in 1..Len(s) : s[i] \in ToSet(s) /\ i \in Nat
  BY SequenceFacts
<1> QED BY <1>1 DEF Flow

\* The tasks of a block, when it may be left and when it is not.
LEMMA FlowBlock ==
  ASSUME NEW es, NEW S, AreElements(es, Values), UnitV \notin S
  PROVE  LET s == BlockTasks(es)
         IN  /\ IsSequence(s) /\ Flow(s, Nat \ {0}, S)
             /\ StaysIn(es, S) => \A t \in ToSet(s) : ~MayLeave(t, S)
             /\ QuietAfter(es, S) => \A t \in ToSet(s) : Stays(t, S)
<1> DEFINE e == Elements(es)
           u == Lower(UnitV, FALSE)
           first == IF es = << >> THEN << >> ELSE << e >>
           rest == IF es = << >> \/ IsLocal(es[Len(es)]) THEN << u >> ELSE << >>
           s == first \o rest
<1>1. s = BlockTasks(es)
  BY DEF BlockTasks
<1>2. /\ Tolerant(u) /\ ~MayLeave(u, S) /\ Stays(u, S)
      /\ StaysIn(es, S) => ~MayLeave(e, S)
      /\ QuietAfter(es, S) => Stays(e, S)
  BY DEF Lower, Elements, UnitV, Tolerant, Quiet, MayLeave, Stays
<1> HIDE DEF e, u
<1>3. /\ IsSequence(first) /\ IsSequence(rest) /\ ToSet(first) \subseteq {e} /\ ToSet(rest) \subseteq {u}
      /\ Len(first) \in {0, 1}
  BY NoTasks, OneTask
<1> HIDE DEF first, rest
<1>4. /\ IsSequence(s) /\ ToSet(s) \subseteq {e, u} /\ Len(s) = Len(first) + Len(rest)
      /\ \A i \in 1..Len(rest) : s[Len(first) + i] = rest[i] /\ rest[i] \in ToSet(rest)
      /\ Len(rest) \in Nat
  <2>1. /\ IsSequence(s) /\ ToSet(s) = ToSet(first) \cup ToSet(rest) /\ Len(s) = Len(first) + Len(rest)
        /\ \A i \in 1..Len(rest) : s[Len(first) + i] = rest[i]
    BY <1>3, ConcatFacts
  <2>2. Len(rest) \in Nat /\ \A i \in 1..Len(rest) : rest[i] \in ToSet(rest)
    BY <1>3, SequenceFacts
  <2>3. ToSet(s) \subseteq {e, u}
    BY <1>3, <2>1
  <2> QED BY <2>1, <2>2, <2>3
<1> HIDE DEF s
<1>5. ASSUME NEW i \in 1..Len(s), i # 1
      PROVE  Tolerant(s[i])
  <2> DEFINE j == i - Len(first)
  <2> DEFINE n == Len(first)
             m == Len(rest)
  <2>0. n \in {0, 1} /\ m \in Nat /\ i \in 1..(n + m)
    BY <1>3, <1>4
  <2> HIDE DEF n, m
  <2>1. j \in 1..Len(rest) /\ Len(first) + j = i
    <3>1. i - n \in 1..m /\ n + (i - n) = i
      BY <1>5, <2>0
    <3> QED BY <3>1 DEF n, m
  <2> HIDE DEF j
  <2>2. s[i] = u
    BY <1>3, <1>4, <2>1
  <2> QED BY <1>2, <2>2
<1>6. Flow(s, Nat \ {0}, S)
  <2>1. ASSUME NEW i \in 1..Len(s)
        PROVE  i \in Nat \ {0} /\ (i - 1 \in Nat \ {0} => i # 1)
    BY <1>3, <1>4
  <2> QED BY <1>5, <2>1 DEF Flow
<1> QED BY <1>1, <1>2, <1>4, <1>6

\* What the builder keeps while it has a current block.
LEMMA Calm ==
  ASSUME NEW b, Running(b)
  PROVE  /\ Running(new_temp(b))
         /\ \A st : Running(push_stmt(b, st))
         /\ \A n : Running(reserve_block_with_args(b, n))
         /\ \A term : Sound(set_terminator(b, term))
<1>1. Running(new_temp(b))
  BY DEF Running, Sound, new_temp, BuilderFields
<1>2. \A st : Running(push_stmt(b, st))
  BY DEF Running, Sound, push_stmt, BuilderFields
<1>3. \A n : Running(reserve_block_with_args(b, n))
  BY DEF Running, Sound, reserve_block_with_args, BuilderFields
<1>4. \A term : Sound(set_terminator(b, term))
  BY DEF Running, Sound, set_terminator, BuilderFields
<1> QED BY <1>1, <1>2, <1>3, <1>4

LEMMA CalmSwitch ==
  ASSUME NEW b, Sound(b), NEW n \in Nat
  PROVE  Running(switch_to_block(b, n))
BY NoneIsNoBlock DEF Running, Sound, switch_to_block, BuilderFields

\* The task in hand, and the builder, before a step.
LEMMA FlowFacts ==
  ASSUME NEW S, NothingAfter(S), Inv, FlowInv(S), todo # << >>
  PROVE  /\ Task = Head(todo) /\ IsTask(Task) /\ Stays(Task, S) /\ UnitV \notin S
         /\ Task.do \in {"value", "place", "branch"} => HasParts(Task.value, Values) /\ PartsStay(Task.value, S)
         /\ Built(func) /\ Sound(func) /\ (Tolerant(Task) \/ Running(func))
<1>1. /\ Task = Head(todo) /\ Task \in ToSet(todo) /\ IsTask(Task) /\ IsSequence(todo)
  BY TaskFacts
<1>2. Task.do \in {"value", "place", "branch"} => HasParts(Task.value, Values) /\ PartsStay(Task.value, S)
  BY <1>1, BodiesMadeOfValues DEF IsTask, MadeOf, NothingAfter
<1>3. Stays(Task, S) /\ UnitV \notin S
  BY <1>1 DEF FlowInv, NothingAfter
<1>4. Built(func) /\ Sound(func)
  BY DEF Inv, FlowInv, Built, Sound
<1>5. Tolerant(Task) \/ Running(func)
  <2>1. PICK D \in SUBSET Nat : Flow(todo, D, S) /\ (func.current = None => 0 \in D)
    BY DEF FlowInv
  <2>2. 0 \in D => Tolerant(Task)
    BY <1>1, <2>1, FlowTail
  <2> QED BY <1>4, <2>1, <2>2 DEF Running
<1> QED BY <1>1, <1>2, <1>3, <1>4, <1>5

\* The tasks ts take the place of the first one.
LEMMA FlowStep ==
  ASSUME NEW S, NEW ts, NEW E \in SUBSET Nat, Inv, FlowInv(S), todo # << >>,
         IsSequence(ts), todo' = ts \o Tail(todo), \A t \in ToSet(ts) : Stays(t, S), Sound(func'),
         Flow(ts, E, S), Len(ts) \in E => MayLeave(Task, S),
         func.current # None \/ Resumes(Task) => (func').current # None \/ 0 \in E,
         Tolerant(Task) => Resumes(Task) \/ Flow(ts, Nat, S)
  PROVE  FlowInv(S)'
<1>1. /\ IsSequence(todo) /\ Task = Head(todo)
      /\ IsSequence(Tail(todo)) /\ ToSet(Tail(todo)) \subseteq ToSet(todo)
  BY TaskFacts, TailFacts
<1>2. PICK D \in SUBSET Nat : Flow(todo, D, S) /\ (func.current = None => 0 \in D)
  BY DEF FlowInv
<1> DEFINE rest == {i \in Nat : i + 1 \in D}
<1>3. /\ Flow(Tail(todo), rest, S) /\ rest \in SUBSET Nat
      /\ 0 \in D => Tolerant(Task)
      /\ 0 \in D \/ MayLeave(Task, S) => Resumes(Task) \/ 0 \in rest
  <2>1. 1 \in D => 0 \in rest
    OBVIOUS
  <2> QED BY <1>1, <1>2, <2>1, FlowTail
<1> HIDE DEF rest
<1>4. ASSUME NEW F \in SUBSET Nat, Flow(ts, F, S), Len(ts) \in F => 0 \in rest,
             (func').current = None => 0 \in F
      PROVE  FlowInv(S)'
  <2>1. PICK both \in SUBSET Nat : Flow(ts \o Tail(todo), both, S) /\ (0 \in F => 0 \in both)
    BY <1>1, <1>3, <1>4, FlowConcat
  <2>2. \A t \in ToSet(todo') : Stays(t, S)
    BY <1>1, ConcatFacts DEF FlowInv
  <2>3. \E G \in SUBSET Nat : Flow(todo', G, S) /\ ((func').current = None => 0 \in G)
    BY <1>4, <2>1
  <2> QED BY <2>2, <2>3 DEF FlowInv, Sound
<1>5. CASE 0 \in D /\ ~Resumes(Task)
  <2>1. Flow(ts, Nat, S) /\ 0 \in rest
    BY <1>3, <1>5
  <2> QED BY <1>4, <2>1
<1>6. CASE 0 \notin D \/ Resumes(Task)
  <2>1. MayLeave(Task, S) => ~Resumes(Task)
    BY DEF MayLeave, Resumes
  <2>2. Len(ts) \in E => 0 \in rest
    BY <1>3, <2>1
  <2>3. (func').current = None => 0 \in E
    BY <1>2, <1>6
  <2> QED BY <1>4, <2>2, <2>3
<1> QED BY <1>5, <1>6

\* Tasks that leave the current block as it is.
Clean(s, S) == IsSequence(s) /\ \A t \in ToSet(s) : Stays(t, S) /\ ~MayLeave(t, S)

LEMMA FlowClean ==
  ASSUME NEW S, NEW ts, Inv, FlowInv(S), todo # << >>, ~Tolerant(Task),
         Clean(ts, S), todo' = ts \o Tail(todo), Running(func')
  PROVE  FlowInv(S)'
<1>1. Flow(ts, {}, S) /\ {} \in SUBSET Nat /\ Len(ts) \notin {}
  BY FlowLast DEF Clean
<1> QED BY <1>1, FlowStep DEF Clean, Running

\* The last task may leave if the one that it comes from may.
LEMMA FlowLeaves ==
  ASSUME NEW S, NEW s, NEW t, Inv, FlowInv(S), todo # << >>, ~Tolerant(Task),
         Clean(s, S), Stays(t, S), MayLeave(t, S) => MayLeave(Task, S),
         todo' = s \o << t >> \o Tail(todo), Running(func')
  PROVE  FlowInv(S)'
<1> DEFINE ts == s \o << t >>
<1>1. /\ IsSequence(ts) /\ \A u \in ToSet(ts) : Stays(u, S)
      /\ Len(ts) = Len(s) + 1 /\ Len(s) \in Nat
      /\ Flow(ts, {Len(s) + 1}, S) /\ (~MayLeave(t, S) => Flow(ts, {}, S))
  <2>1. IsSequence(<< t >>) /\ ToSet(<< t >>) = {t}
    BY OneTask
  <2>2. IsSequence(ts) /\ ToSet(ts) = ToSet(s) \cup {t}
    BY <2>1, ConcatFacts DEF Clean
  <2>3. /\ Len(ts) = Len(s) + 1
        /\ Flow(ts, {Len(s) + 1}, S) /\ (~MayLeave(t, S) => Flow(ts, {}, S))
    BY FlowLast DEF Clean
  <2>4. Len(s) \in Nat
    BY SequenceFacts DEF Clean
  <2> HIDE DEF ts
  <2>5. \A u \in ToSet(ts) : Stays(u, S)
    BY <2>2 DEF Clean
  <2> QED BY <2>2, <2>3, <2>4, <2>5
<1> HIDE DEF ts
<1>2. todo' = ts \o Tail(todo)
  BY DEF ts
<1>3. CASE MayLeave(t, S)
  <2>1. {Len(s) + 1} \in SUBSET Nat
    BY <1>1
  <2> QED BY <1>1, <1>2, <1>3, <2>1, FlowStep DEF Running
<1>4. CASE ~MayLeave(t, S)
  <2>1. {} \in SUBSET Nat /\ Len(ts) \notin {}
    OBVIOUS
  <2> QED BY <1>1, <1>2, <1>4, <2>1, FlowStep DEF Running
<1> QED BY <1>3, <1>4

LEMMA FlowDone ==
  ASSUME NEW S, Inv, FlowInv(S), todo # << >>, Done, Sound(func'),
         func.current # None \/ Resumes(Task) => (func').current # None \/ MayLeave(Task, S)
  PROVE  FlowInv(S)'
<1>1. Tail(todo) \in Seq(ToSet(Tail(todo)))
  BY TailFacts DEF Inv, IsTodo, IsSequence
<1>2. todo' = << >> \o Tail(todo)
  BY <1>1, ConcatEmptySeq DEF Done
<1>3. \A E : Flow(<< >>, E, S)
  BY NoTasks DEF Flow
<1>4. IsSequence(<< >>) /\ Len(<< >>) = 0 /\ ToSet(<< >>) = {}
  BY NoTasks
<1>5. CASE MayLeave(Task, S)
  <2>1. {0} \in SUBSET Nat /\ 0 \in {0}
    OBVIOUS
  <2> QED BY <1>2, <1>3, <1>4, <1>5, <2>1, FlowStep
<1>6. CASE ~MayLeave(Task, S)
  <2>1. {} \in SUBSET Nat /\ 0 \notin {}
    OBVIOUS
  <2> QED BY <1>2, <1>3, <1>4, <1>6, <2>1, FlowStep
<1> QED BY <1>5, <1>6

LEMMA CleanTasks ==
  ASSUME NEW S
  PROVE  /\ Clean(<< >>, S)
         /\ \A t : Stays(t, S) /\ ~MayLeave(t, S) => Clean(<< t >>, S)
         /\ \A t, u : Clean(<< t >>, S) /\ Clean(<< u >>, S) => Clean(<< t, u >>, S)
         /\ \A s, q : Clean(s, S) /\ Clean(q, S) => Clean(s \o q, S)
<1>1. Clean(<< >>, S)
  BY NoTasks DEF Clean
<1>2. ASSUME NEW t, Stays(t, S), ~MayLeave(t, S)
      PROVE  Clean(<< t >>, S)
  BY <1>2, OneTask DEF Clean
<1>3. ASSUME NEW t, NEW u, Clean(<< t >>, S), Clean(<< u >>, S)
      PROVE  Clean(<< t, u >>, S)
  <2>1. Stays(t, S) /\ ~MayLeave(t, S) /\ Stays(u, S) /\ ~MayLeave(u, S)
    BY <1>3, OneTask DEF Clean
  <2> QED BY <2>1, TwoTasks DEF Clean
<1>4. ASSUME NEW s, NEW q, Clean(s, S), Clean(q, S)
      PROVE  Clean(s \o q, S)
  BY <1>4, ConcatFacts DEF Clean
<1> QED BY <1>1, <1>2, <1>3, <1>4

\* The tasks that wait for the values of others.
LEMMA CleanValues ==
  ASSUME NEW S
  PROVE  /\ \A v : v \notin S => Clean(<< Lower(v, FALSE) >>, S)
         /\ \A v : v \notin S => Clean(<< LowerAsPlace(v) >>, S)
         /\ \A values \in Seq(Values) :
              (\A i \in DOMAIN values : values[i] \notin S) => Clean(LowerAll(values), S)
<1>1. ASSUME NEW v, v \notin S
      PROVE  Clean(<< Lower(v, FALSE) >>, S)
  <2>1. Stays(Lower(v, FALSE), S) /\ ~MayLeave(Lower(v, FALSE), S)
    BY <1>1 DEF Lower, Stays, MayLeave
  <2> QED BY <2>1, CleanTasks
<1>2. ASSUME NEW v, v \notin S
      PROVE  Clean(<< LowerAsPlace(v) >>, S)
  <2>1. Stays(LowerAsPlace(v), S) /\ ~MayLeave(LowerAsPlace(v), S)
    BY <1>2 DEF LowerAsPlace, Stays, MayLeave
  <2> QED BY <2>1, CleanTasks
<1>3. ASSUME NEW values \in Seq(Values), \A i \in DOMAIN values : values[i] \notin S
      PROVE  Clean(LowerAll(values), S)
  <2>1. IsSequence(LowerAll(values))
    BY LowerAllTame DEF Tame
  <2>2. \A t \in ToSet(LowerAll(values)) : \E i \in DOMAIN values : t = Lower(values[i], FALSE)
    BY DEF ToSet, LowerAll
  <2>3. \A t \in ToSet(LowerAll(values)) : Stays(t, S) /\ ~MayLeave(t, S)
    BY <1>3, <2>2 DEF Lower, Stays, MayLeave
  <2> QED BY <2>1, <2>3 DEF Clean
<1> QED BY <1>1, <1>2, <1>3

LEMMA FlowOperand ==
  ASSUME NEW S, NothingAfter(S), Inv, FlowInv(S), LowerOperand
  PROVE  FlowInv(S)'
<1>1. todo # << >> /\ func' = func /\ Task.do = "value"
  BY DEF LowerOperand, LowerLiteral, LowerSymbol, LowerOperation, LowerBorrow, LowerProjection,
         DoingValue, Doing, Task, Ready
<1>2. /\ HasParts(Task.value, Values) /\ PartsStay(Task.value, S)
      /\ Sound(func') /\ (Tolerant(Task) \/ Running(func'))
  BY <1>1, FlowFacts
<1>3. CASE LowerLiteral \/ LowerSymbol
  <2>1. Done /\ ~Resumes(Task)
    BY <1>1, <1>3 DEF LowerLiteral, LowerSymbol, Resumes
  <2> QED BY <1>1, <1>2, <2>1, FlowDone
<1>4. CASE LowerOperation
  <2> DEFINE temp == [do |-> "temp", op |-> Task.value.op, n |-> Len(Task.value.args)]
             ts == LowerAll(Task.value.args) \o << temp >>
  <2>1. Clean(LowerAll(Task.value.args), S) /\ ~Tolerant(Task)
    BY <1>1, <1>2, <1>4, CleanValues
       DEF LowerOperation, DoingValue, Task, HasParts, PartsStay, Tolerant, Quiet
  <2>2. Clean(<< temp >>, S)
    <3>1. Stays(temp, S) /\ ~MayLeave(temp, S)
      BY DEF Stays, MayLeave
    <3> QED BY <3>1, CleanTasks
  <2>3. todo' = ts \o Tail(todo)
    BY <1>4 DEF LowerOperation, Then
  <2> HIDE DEF temp
  <2>4. Clean(ts, S)
    BY <2>1, <2>2, CleanTasks
  <2> HIDE DEF ts
  <2> QED BY <1>1, <1>2, <2>1, <2>3, <2>4, FlowClean
<1>5. CASE LowerBorrow
  <2> DEFINE t == LowerAsPlace(Task.value.place)
             u == [do |-> "ref", kind |-> Task.value.kind]
  <2>1. Task.value.place \notin S /\ ~Tolerant(Task)
    BY <1>1, <1>2, <1>5 DEF LowerBorrow, DoingValue, Task, PartsStay, Tolerant, Quiet
  <2>2. Stays(u, S) /\ ~MayLeave(u, S)
    BY DEF Stays, MayLeave
  <2>3. todo' = << t, u >> \o Tail(todo)
    BY <1>5 DEF LowerBorrow, Then
  <2>4. Clean(<< t >>, S) /\ Clean(<< u >>, S)
    BY <2>1, <2>2, CleanValues, CleanTasks
  <2> HIDE DEF t, u
  <2>5. Clean(<< t, u >>, S)
    BY <2>4, CleanTasks
  <2> QED BY <1>1, <1>2, <2>1, <2>3, <2>5, FlowClean
<1>6. CASE LowerProjection
  <2> DEFINE t == LowerAsPlace(Task.value)
  <2>1. Stays(t, S) /\ ~MayLeave(t, S) /\ ~Tolerant(Task)
    BY <1>1, <1>6 DEF LowerProjection, DoingValue, Task, LowerAsPlace, Stays, MayLeave, Tolerant, Quiet
  <2>2. todo' = << t >> \o Tail(todo)
    BY <1>6 DEF LowerProjection, Then
  <2> HIDE DEF t
  <2>3. Clean(<< t >>, S)
    BY <2>1, CleanTasks
  <2> QED BY <1>1, <1>2, <2>1, <2>2, <2>3, FlowClean
<1> QED BY <1>3, <1>4, <1>5, <1>6 DEF LowerOperand

LEMMA FlowPlace ==
  ASSUME NEW S, NothingAfter(S), Inv, FlowInv(S), LowerPlace
  PROVE  FlowInv(S)'
<1>1. /\ todo # << >> /\ Task.do \in {"place", "project", "operand_to_place"}
      /\ ~Tolerant(Task) /\ ~Resumes(Task)
  BY DEF LowerPlace, PlaceSymbol, PlaceProjection, ProjectPlace, PlaceOfValue, operand_to_place,
         DoingPlace, Doing, Task, Ready, Tolerant, Resumes
<1>2. /\ Stays(Task, S) /\ Running(func)
      /\ Task.do = "place" => HasParts(Task.value, Values) /\ PartsStay(Task.value, S)
  BY <1>1, FlowFacts
<1>3. Running(func')
  <2>1. CASE operand_to_place
    <3>1. \A st : Running(push_stmt(new_temp(func), st))
      BY <1>2, Calm
    <3> QED BY <1>2, <2>1, <3>1 DEF operand_to_place, push_assign
  <2>2. CASE PlaceSymbol \/ PlaceProjection \/ ProjectPlace \/ PlaceOfValue
    BY <1>2, <2>2, Calm DEF PlaceSymbol, PlaceProjection, ProjectPlace, PlaceOfValue
  <2> QED BY <2>1, <2>2 DEF LowerPlace
<1>4. CASE PlaceSymbol \/ ProjectPlace \/ operand_to_place
  <2>1. Done
    BY <1>4 DEF PlaceSymbol, ProjectPlace, operand_to_place
  <2> QED BY <1>1, <1>3, <2>1, FlowDone DEF Running
<1>5. CASE PlaceProjection
  <2> DEFINE t == LowerAsPlace(Task.value.base)
             u == [do |-> "project",
                   step |-> IF Task.value.v = "deref" THEN DerefStep ELSE FieldStep(Task.value.name)]
  <2>1. Task.value.base \notin S
    BY <1>2, <1>5 DEF PlaceProjection, DoingPlace, Doing, Task, PartsStay
  <2>2. Stays(u, S) /\ ~MayLeave(u, S)
    BY DEF Stays, MayLeave
  <2>3. todo' = << t, u >> \o Tail(todo)
    BY <1>5 DEF PlaceProjection, Then
  <2>4. Clean(<< t >>, S) /\ Clean(<< u >>, S)
    BY <2>1, <2>2, CleanValues, CleanTasks
  <2> HIDE DEF t, u
  <2>5. Clean(<< t, u >>, S)
    BY <2>4, CleanTasks
  <2> QED BY <1>1, <1>3, <2>3, <2>5, FlowClean
<1>6. CASE PlaceOfValue
  <2> DEFINE t == Lower(Task.value, FALSE)
             u == Do("operand_to_place")
  <2>1. Task.value \notin S
    BY <1>2, <1>6 DEF PlaceOfValue, Doing, Task, Stays
  <2>2. Stays(u, S) /\ ~MayLeave(u, S)
    BY DEF Do, Stays, MayLeave
  <2>3. todo' = << t, u >> \o Tail(todo)
    BY <1>6 DEF PlaceOfValue, Then
  <2>4. Clean(<< t >>, S) /\ Clean(<< u >>, S)
    BY <2>1, <2>2, CleanValues, CleanTasks
  <2> HIDE DEF t, u
  <2>5. Clean(<< t, u >>, S)
    BY <2>4, CleanTasks
  <2> QED BY <1>1, <1>3, <2>3, <2>5, FlowClean
<1> QED BY <1>4, <1>5, <1>6 DEF LowerPlace

LEMMA PairConcat ==
  ASSUME NEW t, NEW u
  PROVE  << t >> \o << u >> = << t, u >>
<1> DEFINE q == << t >> \o << u >>
           p == << t, u >>
<1>1. /\ p \in Seq({t, u}) /\ Len(p) = 2 /\ p[1] = t /\ p[2] = u
  BY TwoTasks DEF IsSequence
<1>2. /\ IsSequence(q) /\ ToSet(q) = {t} \cup {u} /\ Len(q) = 1 + 1
      /\ \A i \in 1..1 : q[i] = << t >>[i] /\ q[1 + i] = << u >>[i]
  BY OneTask, ConcatFacts
<1>3. q[1] = t /\ q[2] = u
  <2>1. 1 \in 1..1 /\ 1 + 1 = 2 /\ << t >>[1] = t /\ << u >>[1] = u
    BY OneTask
  <2> QED BY <1>2, <2>1
<1> HIDE DEF p, q
<1>4. q \in Seq({t, u}) /\ Len(q) = 2
  <2>1. {t} \cup {u} = {t, u}
    OBVIOUS
  <2> QED BY <1>2, <2>1 DEF IsSequence
<1>5. \A i \in 1..2 : i = 1 \/ i = 2
  OBVIOUS
<1>6. q = p
  BY <1>1, <1>3, <1>4, <1>5, SeqEqual
<1> QED BY <1>6 DEF p, q

LEMMA FlowEffect ==
  ASSUME NEW S, NothingAfter(S), Inv, FlowInv(S), LowerEffect
  PROVE  FlowInv(S)'
<1>1. todo # << >> /\ Task.do = "value" /\ ~Tolerant(Task) /\ ~Resumes(Task)
  BY DEF LowerEffect, LowerAssign, LowerCall, LowerReturn, Jump, DoingValue, Doing, Task, Ready,
         Tolerant, Quiet, Resumes
<1>2. HasParts(Task.value, Values) /\ PartsStay(Task.value, S) /\ Running(func)
  BY <1>1, FlowFacts
<1>3. CASE LowerAssign
  <2> DEFINE t == LowerAsPlace(Task.value.place)
             u == Lower(Task.value.value, FALSE)
             w == Do("store")
             ts == << t, u, w >>
  <2>1. Task.value.place \notin S /\ Task.value.value \notin S
    BY <1>2, <1>3 DEF LowerAssign, DoingValue, Task, PartsStay
  <2>2. Stays(t, S) /\ ~MayLeave(t, S) /\ Stays(u, S) /\ ~MayLeave(u, S) /\ Stays(w, S) /\ ~MayLeave(w, S)
    BY <2>1 DEF LowerAsPlace, Lower, Do, Stays, MayLeave
  <2>3. todo' = ts \o Tail(todo) /\ func' = func
    BY <1>3 DEF LowerAssign, Then
  <2> HIDE DEF t, u, w
  <2>4. Clean(ts, S)
    BY <2>2, ThreeTasks DEF Clean
  <2> HIDE DEF ts
  <2> QED BY <1>1, <1>2, <2>3, <2>4, FlowClean
<1>4. CASE LowerCall
  <2> DEFINE c == [do |-> "call", callee |-> Copy(Static(Task.value.callee)),
                   n |-> Len(Task.value.args), tail |-> Task.tail]
             s == LowerAll(Task.value.args)
  <2>1. Clean(s, S)
    BY <1>2, <1>4, CleanValues DEF LowerCall, DoingValue, Task, HasParts, PartsStay
  <2>2. Stays(c, S) /\ (MayLeave(c, S) => MayLeave(Task, S))
    BY <1>1, <1>4 DEF LowerCall, DoingValue, Task, Stays, MayLeave
  <2>3. todo' = s \o << c >> \o Tail(todo) /\ func' = func
    BY <1>4 DEF LowerCall, Then
  <2> HIDE DEF c, s
  <2> QED BY <1>1, <1>2, <2>1, <2>2, <2>3, FlowLeaves
<1>5. CASE LowerReturn
  <2> DEFINE t == Lower(Task.value.value, FALSE)
             r0 == [do |-> "return", n |-> 0]
             r1 == [do |-> "return", n |-> 1]
             s == IF Task.value.value = UnitV THEN << >> ELSE << t >>
             r == IF Task.value.value = UnitV THEN r0 ELSE r1
  <2>1. Task.value.value \notin S /\ MayLeave(Task, S)
    BY <1>1, <1>2, <1>5 DEF LowerReturn, DoingValue, Task, PartsStay, MayLeave
  <2>2. Clean(s, S) /\ Stays(r, S)
    BY <2>1, CleanValues, CleanTasks DEF Stays
  <2>3. todo' = s \o << r >> \o Tail(todo) /\ func' = func
    <3>1. func' = func
      BY <1>5 DEF LowerReturn
    <3>2. CASE Task.value.value = UnitV
      <4>1. << >> \o << r0 >> = << r0 >>
        BY ConcatEmptySeq, OneTask DEF IsSequence
      <4>2. todo' = << r0 >> \o Tail(todo)
        BY <1>5, <3>2 DEF LowerReturn, Then
      <4> QED BY <3>1, <3>2, <4>1, <4>2
    <3>3. CASE Task.value.value # UnitV
      <4>1. << t >> \o << r1 >> = << t, r1 >>
        <5> HIDE DEF t, r1
        <5> QED BY PairConcat
      <4>2. todo' = << t, r1 >> \o Tail(todo)
        BY <1>5, <3>3 DEF LowerReturn, Then
      <4> QED BY <3>1, <3>3, <4>1, <4>2
    <3> QED BY <3>2, <3>3
  <2> HIDE DEF s, r
  <2> QED BY <1>1, <1>2, <2>1, <2>2, <2>3, FlowLeaves
<1>6. CASE Jump
  <2>1. Done /\ MayLeave(Task, S)
    BY <1>1, <1>2, <1>6 DEF Jump, DoingValue, Task, PartsStay, MayLeave
  <2>2. Sound(func')
    <3>1. \A term : Sound(set_terminator(func, term))
      BY <1>2, Calm
    <3> QED BY <1>6, <3>1 DEF Jump, unreachable, goto
  <2> QED BY <1>1, <2>1, <2>2, FlowDone
<1> QED BY <1>3, <1>4, <1>5, <1>6 DEF LowerEffect

LEMMA FlowEmit ==
  ASSUME NEW S, NothingAfter(S), Inv, FlowInv(S), Emit
  PROVE  FlowInv(S)'
<1>1. /\ todo # << >> /\ Done /\ Task.do \in {"temp", "ref", "store", "call", "return"}
      /\ ~Tolerant(Task) /\ ~Resumes(Task)
  BY DEF Emit, AssignOperation, AssignBorrow, Store, EmitCall, EmitReturn, Doing, Task, Ready, Tolerant, Resumes
<1>2. Running(func) /\ Built(func)
  BY <1>1, FlowFacts
<1> SUFFICES Sound(func') /\ ((func').current # None \/ MayLeave(Task, S))
  BY <1>1, FlowDone
<1>3. CASE AssignOperation \/ AssignBorrow
  <2>1. \A st : Running(push_stmt(new_temp(func), st))
    BY <1>2, Calm
  <2> QED BY <1>3, <2>1 DEF AssignOperation, AssignBorrow, assign_rvalue_to_temp, push_assign, Running
<1>4. CASE Store
  <2>1. \A st : Running(push_stmt(func, st))
    BY <1>2, Calm
  <2> QED BY <1>4, <2>1 DEF Store, push_assign, Running
<1>5. CASE EmitCall
  <2>1. CASE Task.tail
    <3>1. \A term : Sound(set_terminator(func, term))
      BY <1>2, Calm
    <3>2. MayLeave(Task, S)
      BY <1>5, <2>1 DEF EmitCall, Doing, Task, MayLeave
    <3> QED BY <1>5, <2>1, <3>1, <3>2 DEF EmitCall, call
  <2>2. CASE ~Task.tail
    <3> DEFINE t == new_temp(func)
               b == reserve_block(t)
               n == LastBlock(b)
    <3>1. PICK term : func' = switch_to_block(set_terminator(b, term), n)
      BY <1>5, <2>2 DEF EmitCall, call_return
    <3>2. Running(t) /\ Built(t)
      BY <1>2, Calm, NewTempLike
    <3> HIDE DEF t
    <3>3. Running(b) /\ Built(b)
      BY <3>2, Calm, Reserved DEF reserve_block
    <3>4. n \in Nat
      BY <3>3, SequenceFacts DEF LastBlock, Built, AreBlocks
    <3> HIDE DEF b, n
    <3>5. Sound(set_terminator(b, term))
      BY <3>3, Calm
    <3>6. Running(func')
      BY <3>1, <3>4, <3>5, CalmSwitch
    <3> QED BY <3>6 DEF Running
  <2> QED BY <2>1, <2>2
<1>6. CASE EmitReturn
  <2>1. \A term : Sound(set_terminator(func, term))
    BY <1>2, Calm
  <2>2. MayLeave(Task, S)
    BY <1>6 DEF EmitReturn, Doing, Task, MayLeave
  <2> QED BY <1>6, <2>1, <2>2 DEF EmitReturn, ret
<1> QED BY <1>3, <1>4, <1>5, <1>6 DEF Emit

\* What the first element of a block leaves, and the others.
LEMMA FlowElements ==
  ASSUME NEW es, NEW S, es # << >>, AreElements(es, Values), QuietAfter(es, S)
  PROVE  /\ IsLocal(es[1]) /\ es[1].init # << >> => es[1].init[1] \notin S
         /\ ~StaysIn(es, S) \/ ~Leaves(es[1], Len(es) = 1, S)
         /\ Len(es) # 1 =>
              /\ QuietAfter(Tail(es), S)
              /\ StaysIn(es, S) => StaysIn(Tail(es), S)
              /\ Leaves(es[1], FALSE, S) => AllQuiet(Tail(es))
              /\ AllQuiet(es) => AllQuiet(Tail(es))
         /\ AllQuiet(es) => ~IsLocal(es[1]) /\ Quiet(es[1].value)
<1>1. /\ DOMAIN es = 1..Len(es) /\ Len(es) \in Nat /\ IsSequence(es)
      /\ DOMAIN Tail(es) = 1..Len(Tail(es))
  BY SequenceOf, SequenceFacts, TailFacts DEF AreElements
<1>2. /\ Len(es) >= 1 /\ 1 \in DOMAIN es /\ Len(Tail(es)) = Len(es) - 1
      /\ \A i \in 1..Len(Tail(es)) : Tail(es)[i] = es[i + 1] /\ i + 1 \in DOMAIN es
  BY <1>1, TailFacts, SequenceFacts
<1>3. IsLocal(es[1]) /\ es[1].init # << >> => es[1].init[1] \notin S
  <2>1. IsLocal(es[1]) => es[1].init \in Seq(Values)
    BY <1>2 DEF AreElements, IsElement, IsLocal
  <2>2. IsLocal(es[1]) /\ es[1].init # << >> => 1 \in DOMAIN es[1].init
    BY <2>1
  <2> QED BY <1>2, <2>2 DEF QuietAfter
<1>4. ~StaysIn(es, S) \/ ~Leaves(es[1], Len(es) = 1, S)
  <2>1. (1 = Len(es)) = (Len(es) = 1)
    OBVIOUS
  <2> QED BY <1>2, <2>1 DEF StaysIn
<1> DEFINE r == Tail(es)
<1>5. \A i \in DOMAIN r : r[i] = es[i + 1] /\ i + 1 \in DOMAIN es /\ i \in Nat
  BY <1>1, <1>2
<1>6. (\A i \in DOMAIN r : (i = Len(r)) = (i + 1 = Len(es))) /\ \A i, j \in DOMAIN r : i < j => i + 1 < j + 1
  BY <1>1, <1>2
<1>7. \A i \in DOMAIN r : 1 < i + 1
  BY <1>1
<1> HIDE DEF r
<1>8. QuietAfter(r, S)
  <2>1. ASSUME NEW i \in DOMAIN r, IsLocal(r[i]), NEW j \in DOMAIN r[i].init
        PROVE  r[i].init[j] \notin S
    BY <1>5, <2>1 DEF QuietAfter
  <2>2. ASSUME NEW i \in DOMAIN r, NEW j \in DOMAIN r, i < j, Leaves(r[i], FALSE, S)
        PROVE  ~IsLocal(r[j]) /\ Quiet(r[j].value)
    <3>1. i + 1 < j + 1 /\ i + 1 \in DOMAIN es /\ j + 1 \in DOMAIN es /\ r[i] = es[i + 1] /\ r[j] = es[j + 1]
      BY <1>5, <1>6, <2>2
    <3> DEFINE k == i + 1
               l == j + 1
    <3> HIDE DEF k, l
    <3>2. k < l /\ k \in DOMAIN es /\ l \in DOMAIN es /\ Leaves(es[k], FALSE, S) /\ r[j] = es[l]
      BY <2>2, <3>1 DEF k, l
    <3> QED BY <3>2 DEF QuietAfter
  <2> QED BY <2>1, <2>2 DEF QuietAfter
<1>9. StaysIn(es, S) => StaysIn(r, S)
  <2> SUFFICES ASSUME StaysIn(es, S), NEW i \in DOMAIN r
               PROVE  ~Leaves(r[i], i = Len(r), S)
    BY DEF StaysIn
  <2>1. ~Leaves(es[i + 1], i + 1 = Len(es), S) /\ r[i] = es[i + 1]
    BY <1>5 DEF StaysIn
  <2> QED BY <1>6, <2>1 DEF Leaves
<1>10. Leaves(es[1], FALSE, S) => AllQuiet(r)
  <2> SUFFICES ASSUME Leaves(es[1], FALSE, S), NEW i \in DOMAIN r
               PROVE  ~IsLocal(r[i]) /\ Quiet(r[i].value)
    BY DEF AllQuiet
  <2> DEFINE k == i + 1
  <2>1. k \in DOMAIN es /\ r[i] = es[k] /\ 1 < k
    BY <1>5, <1>7
  <2> HIDE DEF k
  <2> QED BY <1>2, <2>1 DEF QuietAfter
<1>11. AllQuiet(es) => AllQuiet(r)
  BY <1>5 DEF AllQuiet
<1>12. AllQuiet(es) => ~IsLocal(es[1]) /\ Quiet(es[1].value)
  BY <1>2 DEF AllQuiet
<1> QED BY <1>3, <1>4, <1>8, <1>9, <1>10, <1>11, <1>12 DEF r

LEMMA TripleConcat ==
  ASSUME NEW t, NEW u, NEW w
  PROVE  << t, u >> \o << w >> = << t, u, w >>
<1> DEFINE q == << t, u >> \o << w >>
           p == << t, u, w >>
<1>1. p \in Seq({t, u, w}) /\ Len(p) = 3 /\ p[1] = t /\ p[2] = u /\ p[3] = w
  BY ThreeTasks DEF IsSequence
<1>2. /\ IsSequence(q) /\ ToSet(q) = {t, u} \cup {w} /\ Len(q) = 2 + 1
      /\ \A i \in 1..2 : q[i] = << t, u >>[i]
      /\ \A i \in 1..1 : q[2 + i] = << w >>[i]
  BY OneTask, TwoTasks, ConcatFacts
<1>3. q[1] = t /\ q[2] = u /\ q[3] = w
  <2>1. /\ 1 \in 1..1 /\ 1 \in 1..2 /\ 2 \in 1..2 /\ 2 + 1 = 3
        /\ << t, u >>[1] = t /\ << t, u >>[2] = u /\ << w >>[1] = w
    BY OneTask, TwoTasks
  <2> QED BY <1>2, <2>1
<1> HIDE DEF p, q
<1>4. q \in Seq({t, u, w}) /\ Len(q) = 3
  <2>1. {t, u} \cup {w} = {t, u, w}
    OBVIOUS
  <2> QED BY <1>2, <2>1 DEF IsSequence
<1>5. \A i \in 1..3 : i = 1 \/ i = 2 \/ i = 3
  OBVIOUS
<1>6. q = p
  BY <1>1, <1>3, <1>4, <1>5, SeqEqual
<1> QED BY <1>6 DEF p, q

LEMMA FlowBlocks ==
  ASSUME NEW S, NothingAfter(S), Inv, FlowInv(S), LowerBlocks
  PROVE  FlowInv(S)'
<1>1. /\ todo # << >> /\ ~Resumes(Task)
      /\ Task.do \in {"value", "elements", "drop", "initialise"}
  BY DEF LowerBlocks, LowerBlock, LowerElement, DropOperand, lower_local_declaration, Initialise,
         DoingValue, Doing, Task, Ready, Resumes
<1>2. /\ IsTask(Task) /\ Stays(Task, S) /\ UnitV \notin S
      /\ Task.do = "value" => HasParts(Task.value, Values) /\ PartsStay(Task.value, S)
      /\ Built(func) /\ Sound(func) /\ (Tolerant(Task) \/ Running(func))
  BY <1>1, FlowFacts
<1>3. CASE LowerBlock
  <2> DEFINE es == Task.value.elements
             ts == BlockTasks(es)
  <2>1. /\ AreElements(es, Values) /\ QuietAfter(es, S) /\ ~Tolerant(Task)
        /\ MayLeave(Task, S) \/ StaysIn(es, S)
    <3>1. Task.do = "value" /\ Task.value.v = "block"
      BY <1>3 DEF LowerBlock, DoingValue, Doing, Task
    <3>2. AreElements(es, Values) /\ QuietAfter(es, S) /\ (Task.value \notin S => StaysIn(es, S))
      BY <1>2, <3>1 DEF HasParts, PartsStay
    <3>3. ~Tolerant(Task) /\ (Task.value \in S => MayLeave(Task, S))
      BY <3>1 DEF Tolerant, Quiet, MayLeave
    <3> QED BY <3>2, <3>3
  <2>2. /\ IsSequence(ts) /\ Flow(ts, Nat \ {0}, S)
        /\ StaysIn(es, S) => \A t \in ToSet(ts) : ~MayLeave(t, S)
        /\ \A t \in ToSet(ts) : Stays(t, S)
    BY <1>2, <2>1, FlowBlock
  <2>3. todo' = ts \o Tail(todo) /\ func' = func
    BY <1>3 DEF LowerBlock, Then
  <2> HIDE DEF ts
  <2>4. CASE StaysIn(es, S)
    BY <1>1, <1>2, <2>1, <2>2, <2>3, <2>4, FlowClean DEF Clean
  <2>5. CASE MayLeave(Task, S)
    <3>1. Nat \ {0} \in SUBSET Nat
      OBVIOUS
    <3> QED BY <1>1, <1>2, <2>1, <2>2, <2>3, <2>5, <3>1, FlowStep DEF Running
  <2> QED BY <2>1, <2>4, <2>5
<1>4. CASE DropOperand
  <2>1. Done /\ func' = func
    BY <1>4 DEF DropOperand
  <2> QED BY <1>1, <1>2, <2>1, FlowDone
<1>5. CASE Initialise
  <2>1. Done /\ Running(func)
    BY <1>2, <1>5 DEF Initialise, Doing, Task, Tolerant
  <2>2. Running(func')
    <3>1. \A st : Running(push_stmt(func, st))
      BY <2>1, Calm
    <3> QED BY <1>5, <3>1 DEF Initialise, push_assign
  <2> QED BY <1>1, <2>1, <2>2, FlowDone DEF Running
<1> DEFINE es == Task.elements
           others == Elements(Tail(es))
<1>6. ASSUME LowerElement \/ lower_local_declaration
      PROVE  /\ Task.do = "elements" /\ es # << >> /\ AreElements(es, Values) /\ QuietAfter(es, S)
             /\ OtherElements = IF Len(es) = 1 THEN << >> ELSE << others >>
             /\ Element = es[1] /\ (IsLast <=> Len(es) = 1)
  <2>1. Task.do = "elements" /\ es # << >> /\ AreElements(es, Values) /\ QuietAfter(es, S)
    BY <1>2, <1>6 DEF LowerElement, lower_local_declaration, Doing, Task, IsTask, Stays
  <2>2. Element = es[1]
    BY <2>1, OtherElementsTame DEF Element
  <2> QED BY <2>1, <2>2 DEF OtherElements, IsLast
\* The others stay like the whole, and may leave only if the whole may.
<1>7. ASSUME LowerElement \/ lower_local_declaration, Len(es) # 1
      PROVE  /\ Stays(others, S) /\ (MayLeave(others, S) => MayLeave(Task, S))
             /\ Tolerant(Task) => Tolerant(others)
             /\ Leaves(es[1], FALSE, S) => Tolerant(others)
  <2>1. /\ QuietAfter(Tail(es), S)
        /\ StaysIn(es, S) => StaysIn(Tail(es), S)
        /\ Leaves(es[1], FALSE, S) => AllQuiet(Tail(es))
        /\ AllQuiet(es) => AllQuiet(Tail(es))
    BY <1>6, <1>7, FlowElements
  <2> QED BY <1>6, <1>7, <2>1 DEF Elements, Stays, MayLeave, Tolerant
<1>8. CASE LowerElement
  <2> DEFINE t == Lower(Element.value, IsLast)
             u == Do("drop")
             ts == << t >> \o (IF IsLast THEN << >> ELSE << u >>) \o OtherElements
  <2>1. todo' = ts \o Tail(todo) /\ func' = func /\ ~IsLocal(es[1])
    BY <1>6, <1>8 DEF LowerElement, Then
  <2>2. /\ Stays(t, S) /\ Stays(u, S) /\ ~MayLeave(u, S) /\ Tolerant(u)
        /\ MayLeave(t, S) <=> Leaves(es[1], Len(es) = 1, S)
        /\ Tolerant(Task) => Tolerant(t)
    <3>1. AllQuiet(es) => Quiet(es[1].value)
      BY <1>6, <1>8, FlowElements
    <3>2. Tolerant(Task) => Tolerant(t)
      BY <1>6, <1>8, <3>1 DEF Lower, Tolerant
    <3>3. MayLeave(t, S) <=> Leaves(es[1], Len(es) = 1, S)
      BY <1>6, <1>8, <2>1 DEF Lower, MayLeave, Leaves
    <3>4. Stays(t, S) /\ Stays(u, S) /\ ~MayLeave(u, S) /\ Tolerant(u)
      BY DEF Lower, Do, Stays, MayLeave, Tolerant
    <3> QED BY <3>2, <3>3, <3>4
  <2>3. MayLeave(t, S) => MayLeave(Task, S)
    <3>1. ~StaysIn(es, S) \/ ~Leaves(es[1], Len(es) = 1, S)
      BY <1>6, <1>8, FlowElements
    <3> QED BY <1>6, <1>8, <2>2, <3>1 DEF MayLeave
  <2>4. CASE Len(es) = 1
    <3>1. ts = << t >>
      <4>1. ts = << t >> \o << >> \o << >>
        BY <1>6, <1>8, <2>4
      <4>2. << t >> \in Seq({t})
        BY OneTask DEF IsSequence
      <4> HIDE DEF t
      <4> QED BY <4>1, <4>2, ConcatEmptySeq
    <3> HIDE DEF t, ts
    <3>2. /\ IsSequence(ts) /\ Len(ts) = 1 /\ ToSet(ts) = {t}
      BY <3>1, OneTask
    <3>3. Tolerant(Task) => Flow(ts, Nat, S)
      BY <2>2, <3>2, FlowTolerant
    <3>4. Flow(ts, {1}, S) /\ (~MayLeave(t, S) => Flow(ts, {}, S))
      <4>1. ts[1] = t /\ \A i \in 1..1 : i = 1 /\ i - 1 # 1
        BY <3>1, OneTask
      <4> QED BY <3>2, <4>1 DEF Flow
    <3>5. CASE MayLeave(t, S)
      <4>1. {1} \in SUBSET Nat
        OBVIOUS
      <4> QED BY <1>1, <1>2, <2>1, <2>2, <2>3, <3>2, <3>3, <3>4, <3>5, <4>1, FlowStep
    <3>6. CASE ~MayLeave(t, S)
      <4>1. {} \in SUBSET Nat /\ Len(ts) \notin {}
        OBVIOUS
      <4> QED BY <1>1, <1>2, <2>1, <2>2, <3>2, <3>3, <3>4, <3>6, <4>1, FlowStep
    <3> QED BY <3>5, <3>6
  <2>5. CASE Len(es) # 1
    <3>1. ts = << t, u, others >>
      <4>1. ts = << t >> \o << u >> \o << others >>
        BY <1>6, <1>8, <2>5
      <4> HIDE DEF t, u, others
      <4>2. << t >> \o << u >> = << t, u >>
        BY PairConcat
      <4>3. << t, u >> \o << others >> = << t, u, others >>
        BY TripleConcat
      <4> HIDE DEF ts
      <4> QED BY <4>1, <4>2, <4>3
    <3>2. /\ Stays(others, S) /\ (MayLeave(others, S) => MayLeave(Task, S))
          /\ Tolerant(Task) => Tolerant(others)
          /\ MayLeave(t, S) => Tolerant(others)
      <4>1. (Len(es) = 1) = FALSE
        BY <2>5
      <4>2. MayLeave(t, S) => Leaves(es[1], FALSE, S)
        BY <2>2, <4>1
      <4> QED BY <1>7, <1>8, <2>5, <4>2
    <3> HIDE DEF t, u, others, ts
    <3>3. /\ IsSequence(ts) /\ Len(ts) = 3 /\ ToSet(ts) = {t, u, others}
          /\ ts[1] = t /\ ts[2] = u /\ ts[3] = others
      BY <3>1, ThreeTasks
    <3>4. Tolerant(Task) => Flow(ts, Nat, S)
      BY <2>2, <3>2, <3>3, FlowTolerant
    <3>5. \A i \in 1..3 : i = 1 \/ i = 2 \/ i = 3
      OBVIOUS
    <3>6. CASE MayLeave(t, S)
      <4>1. {1, 2, 3} \in SUBSET Nat /\ 0 \notin {1, 2, 3}
        OBVIOUS
      <4>2. Flow(ts, {1, 2, 3}, S)
        <5>1. ASSUME NEW i \in 1..3
              PROVE  i \in {1, 2, 3} /\ (i - 1 \in {1, 2, 3} => Tolerant(ts[i]))
          BY <2>2, <3>2, <3>3, <3>5, <3>6
        <5> QED BY <3>3, <5>1 DEF Flow
      <4> QED BY <1>1, <1>2, <2>1, <2>2, <2>3, <3>2, <3>3, <3>4, <3>6, <4>1, <4>2, FlowStep
    <3>7. CASE ~MayLeave(t, S)
      <4>1. {3} \in SUBSET Nat /\ {} \in SUBSET Nat /\ Len(ts) \notin {}
        OBVIOUS
      <4>2. \A i \in 1..3 : i - 1 \notin {3} /\ (MayLeave(ts[i], S) => i = 3)
        BY <2>2, <3>3, <3>5, <3>7
      <4>3. Flow(ts, {3}, S) /\ (~MayLeave(others, S) => Flow(ts, {}, S))
        BY <3>3, <4>2 DEF Flow
      <4>4. CASE MayLeave(others, S)
        BY <1>1, <1>2, <2>1, <2>2, <3>2, <3>3, <3>4, <4>1, <4>3, <4>4, FlowStep
      <4>5. CASE ~MayLeave(others, S)
        BY <1>1, <1>2, <2>1, <2>2, <3>2, <3>3, <3>4, <4>1, <4>3, <4>5, FlowStep
      <4> QED BY <4>4, <4>5
    <3> QED BY <3>6, <3>7
  <2> QED BY <2>4, <2>5
<1>9. CASE lower_local_declaration
  <2> DEFINE t == Lower(Element.init[1], FALSE)
             u == [do |-> "initialise", local |-> LastLocal(new_temp(func))]
             first == IF Element.init = << >> THEN << >> ELSE << t, u >>
             ts == first \o OtherElements
  <2>1. ~Tolerant(Task) /\ (Element.init # << >> => Element.init[1] \notin S)
    <3>1. IsLocal(es[1])
      BY <1>6, <1>9 DEF lower_local_declaration
    <3> QED BY <1>6, <1>9, <3>1, FlowElements DEF Tolerant
  <2>2. Running(func) /\ Running(func')
    <3>1. Running(func)
      BY <1>2, <2>1
    <3>2. \A st : Running(push_stmt(new_temp(func), st))
      BY <3>1, Calm
    <3> QED BY <1>9, <3>1, <3>2 DEF lower_local_declaration
  <2>3. Clean(first, S)
    <3>1. CASE Element.init = << >>
      BY <3>1, CleanTasks
    <3>2. CASE Element.init # << >>
      <4>1. Stays(u, S) /\ ~MayLeave(u, S)
        BY DEF Stays, MayLeave
      <4>2. Clean(<< t >>, S) /\ Clean(<< u >>, S)
        BY <2>1, <3>2, <4>1, CleanTasks, CleanValues
      <4> HIDE DEF t, u
      <4>3. Clean(<< t, u >>, S)
        BY <4>2, CleanTasks
      <4> QED BY <3>2, <4>3
    <3> QED BY <3>1, <3>2
  <2>4. todo' = first \o OtherElements \o Tail(todo)
    BY <1>9 DEF lower_local_declaration, Then
  <2> HIDE DEF first, others
  <2>5. CASE Len(es) = 1
    <3>1. first \o << >> = first
      BY <2>3, ConcatEmptySeq DEF Clean, IsSequence
    <3>2. todo' = first \o Tail(todo)
      BY <1>6, <1>9, <2>4, <2>5, <3>1
    <3> QED BY <1>1, <2>1, <2>2, <2>3, <3>2, FlowClean
  <2>6. CASE Len(es) # 1
    <3>1. todo' = first \o << others >> \o Tail(todo)
      BY <1>6, <1>9, <2>4, <2>6
    <3> QED BY <1>1, <1>7, <1>9, <2>1, <2>2, <2>3, <2>6, <3>1, FlowLeaves
  <2> QED BY <2>5, <2>6
<1> QED BY <1>3, <1>4, <1>5, <1>8, <1>9 DEF LowerBlocks

\* The end of a branch, and the block that comes after it.
LEMMA FlowJoint ==
  ASSUME NEW S, NEW e, NEW r, e.do = "end_branch", Resumes(r)
  PROVE  /\ IsSequence(<< e, r >>) /\ Flow(<< e, r >>, {0, 1}, S) /\ Len(<< e, r >>) = 2
         /\ \A t \in ToSet(<< e, r >>) : Stays(t, S)
<1> DEFINE q == << e, r >>
<1>1. IsSequence(q) /\ Len(q) = 2 /\ q[1] = e /\ q[2] = r /\ ToSet(q) = {e, r}
  BY TwoTasks
<1>2. Tolerant(e) /\ Tolerant(r) /\ Stays(e, S) /\ Stays(r, S)
  BY DEF Tolerant, Resumes, Stays
<1> HIDE DEF q
<1>3. ASSUME NEW i \in 1..2
      PROVE  Tolerant(q[i]) /\ (Resumes(q[i]) \/ i \in {0, 1})
  <2>1. i = 1 \/ i = 2
    OBVIOUS
  <2> QED BY <1>1, <1>2, <2>1
<1>4. Flow(q, {0, 1}, S)
  BY <1>1, <1>3 DEF Flow
<1> QED BY <1>1, <1>2, <1>4 DEF q

LEMMA FlowBranches ==
  ASSUME NEW S, NothingAfter(S), Inv, FlowInv(S), LowerBranches
  PROVE  FlowInv(S)'
<1>1. todo # << >>
  BY DEF LowerBranches, LowerIf, Branch, EndBranch, StartElse, Merge, DoingValue, Doing, Ready
<1>2. /\ IsTask(Task) /\ UnitV \notin S /\ Built(func) /\ Sound(func)
      /\ Task.do \in {"value", "branch"} => HasParts(Task.value, Values) /\ PartsStay(Task.value, S)
      /\ Tolerant(Task) \/ Running(func)
  BY <1>1, FlowFacts
<1>3. CASE LowerIf
  <2> DEFINE t == Lower(Task.value.cond, FALSE)
             u == [do |-> "branch", value |-> Task.value, tail |-> Task.tail]
  <2>1. Task.value.cond \notin S /\ ~Tolerant(Task)
    BY <1>2, <1>3 DEF LowerIf, DoingValue, Doing, Task, PartsStay, Tolerant, Quiet
  <2>2. Stays(u, S) /\ ~MayLeave(u, S)
    BY DEF Stays, MayLeave
  <2>3. todo' = << t, u >> \o Tail(todo) /\ func' = func
    BY <1>3 DEF LowerIf, Then
  <2>4. Clean(<< t >>, S) /\ Clean(<< u >>, S)
    BY <2>1, <2>2, CleanValues, CleanTasks
  <2> HIDE DEF t, u
  <2>5. Clean(<< t, u >>, S)
    BY <2>4, CleanTasks
  <2> QED BY <1>1, <1>2, <2>1, <2>3, <2>5, FlowClean
<1>4. CASE Branch
  <2> DEFINE arity == IF Task.tail THEN 0 ELSE 1
             merge == Len(func.blocks) + 1
             with_merge == reserve_block_with_args(func, arity)
             then == merge + 1
             with_then == reserve_block(with_merge)
             has_else == Task.value.else # << >>
             else == IF has_else THEN merge + 2 ELSE merge
             reserved == IF has_else THEN reserve_block(with_then) ELSE with_then
             end == [do |-> "end_branch", merge |-> merge, tail |-> Task.tail]
             s == [do |-> "switch", block |-> else]
             m == [do |-> "merge", merge |-> merge]
             B1 == BlockTasks(Task.value.then)
             B2 == BlockTasks(Task.value.else[1])
             mid == IF has_else THEN << end, s >> \o B2 ELSE << >>
             ts == B1 \o mid \o << end, m >>
  <2>1. /\ func' = switch_to_block(if_br(reserved, Top, then, else), then)
        /\ todo' = ts \o Tail(todo) /\ Task.do = "branch"
    BY <1>4 DEF Branch, Then, Doing, Task
  <2>2. ~Tolerant(Task) /\ Task.value.v = "if"
    BY <1>2, <2>1 DEF Tolerant, IsTask
  <2>3. then \in Nat
    BY <1>2, SequenceFacts DEF Built, AreBlocks
  <2>4. Running(func')
    <3> HIDE DEF then, else, arity, has_else
    <3>1. Running(with_merge)
      BY <1>2, <2>2, Calm
    <3> HIDE DEF with_merge
    <3>2. Running(with_then)
      BY <3>1, Calm DEF reserve_block
    <3> HIDE DEF with_then
    <3>3. Running(reserve_block(with_then))
      BY <3>2, Calm DEF reserve_block
    <3>4. Running(reserved)
      BY <3>2, <3>3
    <3> HIDE DEF reserved
    <3>5. Sound(if_br(reserved, Top, then, else))
      <4>1. \A term : Sound(set_terminator(reserved, term))
        BY <3>4, Calm
      <4> QED BY <4>1 DEF if_br
    <3> QED BY <2>1, <2>3, <3>5, CalmSwitch
  <2>5. /\ IsSequence(B1) /\ Flow(B1, Nat \ {0}, S) /\ \A t \in ToSet(B1) : Stays(t, S)
        /\ has_else => IsSequence(B2) /\ Flow(B2, Nat \ {0}, S) /\ \A t \in ToSet(B2) : Stays(t, S)
    <3>1. /\ AreElements(Task.value.then, Values) /\ QuietAfter(Task.value.then, S)
          /\ has_else => AreElements(Task.value.else[1], Values) /\ QuietAfter(Task.value.else[1], S)
      BY <1>2, <2>1, <2>2 DEF HasParts, PartsStay
    <3>2. IsSequence(B1) /\ Flow(B1, Nat \ {0}, S) /\ \A t \in ToSet(B1) : Stays(t, S)
      BY <1>2, <3>1, FlowBlock
    <3>3. ASSUME has_else
          PROVE  IsSequence(B2) /\ Flow(B2, Nat \ {0}, S) /\ \A t \in ToSet(B2) : Stays(t, S)
      BY <1>2, <3>1, <3>3, FlowBlock
    <3> QED BY <3>2, <3>3
  <2>6. /\ IsSequence(<< end, s >>) /\ Flow(<< end, s >>, {0, 1}, S) /\ Len(<< end, s >>) = 2
        /\ \A t \in ToSet(<< end, s >>) : Stays(t, S)
        /\ IsSequence(<< end, m >>) /\ Flow(<< end, m >>, {0, 1}, S) /\ Len(<< end, m >>) = 2
        /\ \A t \in ToSet(<< end, m >>) : Stays(t, S)
    <3>1. end.do = "end_branch" /\ Resumes(s) /\ Resumes(m)
      BY DEF Resumes
    <3> HIDE DEF end, s, m
    <3> QED BY <3>1, FlowJoint
  <2> HIDE DEF end, s, m, B1, B2, has_else
  <2>7. Nat \ {0} \in SUBSET Nat /\ {0, 1} \in SUBSET Nat /\ 2 \notin {0, 1} /\ 0 \in {0, 1}
    OBVIOUS
  <2>8. /\ IsSequence(mid) /\ (\A t \in ToSet(mid) : Stays(t, S))
        /\ \E D \in SUBSET Nat : Flow(mid, D, S) /\ 0 \in D
    <3>1. CASE has_else
      <4> DEFINE q == << end, s >>
      <4> HIDE DEF q
      <4>1. /\ IsSequence(q) /\ Flow(q, {0, 1}, S) /\ Len(q) \notin {0, 1}
            /\ IsSequence(B2) /\ Flow(B2, Nat \ {0}, S)
        BY <2>5, <2>6, <2>7, <3>1 DEF q
      <4>2. \E D \in SUBSET Nat : Flow(q \o B2, D, S) /\ 0 \in D
        BY <2>7, <4>1, FlowConcat
      <4>3. IsSequence(q \o B2) /\ ToSet(q \o B2) = ToSet(q) \cup ToSet(B2)
        BY <4>1, ConcatFacts
      <4>4. mid = q \o B2
        BY <3>1 DEF q
      <4>5. \A t \in ToSet(q) \cup ToSet(B2) : Stays(t, S)
        BY <2>5, <2>6, <3>1 DEF q
      <4> HIDE DEF mid
      <4> QED BY <4>2, <4>3, <4>4, <4>5
    <3>2. CASE ~has_else
      <4>1. mid = << >>
        BY <3>2
      <4> HIDE DEF mid
      <4>2. Flow(<< >>, {0, 1}, S) /\ IsSequence(<< >>) /\ ToSet(<< >>) = {}
        BY NoTasks DEF Flow
      <4> QED BY <2>7, <4>1, <4>2
    <3> QED BY <3>1, <3>2
  <2> HIDE DEF mid
  <2> DEFINE p == B1 \o mid
             q == << end, m >>
  <2>9. /\ IsSequence(p) /\ (\A t \in ToSet(p) : Stays(t, S))
        /\ \E D \in SUBSET Nat : Flow(p, D, S)
    <3>1. PICK D \in SUBSET Nat : Flow(mid, D, S) /\ 0 \in D
      BY <2>8
    <3>2. \E E \in SUBSET Nat : Flow(p, E, S)
      BY <2>5, <2>7, <2>8, <3>1, FlowConcat
    <3>3. IsSequence(p) /\ ToSet(p) = ToSet(B1) \cup ToSet(mid)
      BY <2>5, <2>8, ConcatFacts
    <3> HIDE DEF p
    <3> QED BY <2>5, <2>8, <3>2, <3>3
  <2>10. ts = p \o q
    OBVIOUS
  <2> HIDE DEF p, q, ts
  <2>11. IsSequence(q) /\ Flow(q, {0, 1}, S) /\ Len(q) = 2 /\ \A t \in ToSet(q) : Stays(t, S)
    BY <2>6 DEF q
  <2>12. PICK E \in SUBSET Nat : Flow(ts, E, S) /\ Len(ts) \notin E
    <3>1. PICK D \in SUBSET Nat : Flow(p, D, S)
      BY <2>9
    <3>2. \E E \in SUBSET Nat : Flow(p \o q, E, S) /\ (Len(p \o q) \in E => Len(q) \in {0, 1})
      BY <2>7, <2>9, <2>11, <3>1, FlowConcat
    <3> QED BY <2>7, <2>10, <2>11, <3>2
  <2>13. IsSequence(ts) /\ \A t \in ToSet(ts) : Stays(t, S)
    <3>1. IsSequence(p \o q) /\ ToSet(p \o q) = ToSet(p) \cup ToSet(q)
      BY <2>9, <2>11, ConcatFacts
    <3> QED BY <2>9, <2>10, <2>11, <3>1
  <2> QED BY <1>1, <2>1, <2>2, <2>4, <2>12, <2>13, FlowStep DEF Running
<1>5. CASE EndBranch
  <2>1. Done /\ MayLeave(Task, S)
    BY <1>5 DEF EndBranch, Doing, Task, MayLeave
  <2>2. Sound(func')
    <3>1. CASE func.current = None
      BY <1>2, <1>5, <3>1 DEF EndBranch, end_branch
    <3>2. CASE func.current # None
      <4>1. \A term : Sound(set_terminator(func, term))
        BY <1>2, <3>2, Calm DEF Running
      <4> QED BY <1>5, <3>2, <4>1 DEF EndBranch, end_branch, goto, goto_with_args
    <3> QED BY <3>1, <3>2
  <2> QED BY <1>1, <2>1, <2>2, FlowDone
<1>6. CASE StartElse \/ Merge
  <2> DEFINE n == IF StartElse THEN Task.block ELSE Task.merge
  <2>1. Done /\ func' = switch_to_block(func, n) /\ Owned(Task) = {n}
    BY <1>6 DEF StartElse, Merge, Doing, Task, Owned
  <2> HIDE DEF n
  <2>2. n \in Nat
    <3>1. Owned(Task) \subseteq Waiting(func)
      BY <1>1, TaskFacts, SharesTail DEF Inv
    <3>2. n \in DOMAIN func.blocks
      BY <2>1, <3>1 DEF Waiting
    <3> QED BY <1>2, <3>2, SequenceFacts DEF Built, AreBlocks
  <2>3. Running(func')
    BY <1>2, <2>1, <2>2, CalmSwitch
  <2> QED BY <1>1, <2>1, <2>3, FlowDone DEF Running
<1> QED BY <1>3, <1>4, <1>5, <1>6 DEF LowerBranches

LEMMA FlowLoops ==
  ASSUME NEW S, NothingAfter(S), Inv, FlowInv(S), LowerLoops
  PROVE  FlowInv(S)'
<1>1. /\ todo # << >> /\ Task.do \in {"value", "test", "end_loop"}
      /\ ~Tolerant(Task)
  BY DEF LowerLoops, LowerWhile, TestLoop, LowerLoop, EndLoop, DoingValue, Doing, Task, Ready,
         Tolerant, Quiet
<1>2. /\ IsTask(Task) /\ Stays(Task, S) /\ UnitV \notin S /\ Built(func) /\ Running(func)
      /\ Task.do = "value" => HasParts(Task.value, Values) /\ PartsStay(Task.value, S)
  BY <1>1, FlowFacts
<1> DEFINE n == Len(func.blocks)
           one == reserve_block(func)
           two == reserve_block(one)
           three == reserve_block(two)
<1>3. n + 1 \in Nat
  BY <1>2, SequenceFacts DEF Built, AreBlocks
<1>4. Running(two) /\ Running(three)
  <2>1. Running(one)
    BY <1>2, Calm DEF reserve_block
  <2> HIDE DEF one
  <2>2. Running(two)
    BY <2>1, Calm DEF reserve_block
  <2> HIDE DEF two
  <2>3. Running(three)
    BY <2>2, Calm DEF reserve_block
  <2> QED BY <2>2, <2>3
<1>5. ASSUME NEW b, Running(b), NEW k \in Nat
      PROVE  /\ \A j : Running(switch_to_block(goto(b, j), k))
             /\ \A o, j : Running(switch_to_block(if_br(b, o, k, j), k))
  <2>1. \A term : Sound(set_terminator(b, term))
    BY <1>5, Calm
  <2>2. \A term : Running(switch_to_block(set_terminator(b, term), k))
    BY <1>5, <2>1, CalmSwitch
  <2> QED BY <2>2 DEF goto, if_br
<1> HIDE DEF two, three
\* The body of a loop, and its end.
<1>6. ASSUME NEW es, AreElements(es, Values), QuietAfter(es, S), StaysIn(es, S),
             NEW continue, NEW break, Running(func'),
             todo' = LoopTasks(es, continue, break) \o Tail(todo)
      PROVE  FlowInv(S)'
  <2> DEFINE e == [do |-> "end_loop", continue |-> continue, break |-> break]
             s == BlockTasks(es)
             ts == s \o << e >>
  <2>1. Clean(s, S)
    BY <1>2, <1>6, FlowBlock DEF Clean
  <2>2. Clean(<< e >>, S)
    <3>1. Stays(e, S) /\ ~MayLeave(e, S)
      BY DEF Stays, MayLeave
    <3> QED BY <3>1, CleanTasks
  <2>3. todo' = ts \o Tail(todo)
    BY <1>6 DEF LoopTasks
  <2> HIDE DEF e, s
  <2>4. Clean(ts, S)
    BY <2>1, <2>2, CleanTasks
  <2> HIDE DEF ts
  <2> QED BY <1>1, <1>6, <2>3, <2>4, FlowClean
<1>7. CASE LowerWhile
  <2> DEFINE t == Lower(Task.value.cond, FALSE)
             u == [do |-> "test", header |-> n + 1, body |-> Task.value.body]
  <2>1. /\ todo' = << t, u >> \o Tail(todo)
        /\ func' = switch_to_block(goto(three, n + 1), n + 1)
    BY <1>7 DEF LowerWhile, Then, two, three
  <2>2. Task.value.cond \notin S /\ QuietAfter(Task.value.body, S) /\ StaysIn(Task.value.body, S)
    BY <1>2, <1>7 DEF LowerWhile, DoingValue, Doing, Task, PartsStay
  <2>3. Stays(u, S) /\ ~MayLeave(u, S)
    BY <2>2 DEF Stays, MayLeave
  <2>4. Clean(<< t >>, S) /\ Clean(<< u >>, S)
    BY <2>2, <2>3, CleanValues, CleanTasks
  <2> HIDE DEF t, u
  <2>5. Clean(<< t, u >>, S)
    BY <2>4, CleanTasks
  <2>6. Running(func')
    BY <1>3, <1>4, <1>5, <2>1
  <2> QED BY <1>1, <2>1, <2>5, <2>6, FlowClean
<1>8. CASE TestLoop
  <2> DEFINE h == Task.header
  <2>1. /\ h + 1 \in Nat /\ AreElements(Task.body, Values)
        /\ QuietAfter(Task.body, S) /\ StaysIn(Task.body, S)
    BY <1>2, <1>8 DEF TestLoop, Doing, Task, IsTask, Stays
  <2>2. /\ todo' = LoopTasks(Task.body, h, h + 2) \o Tail(todo)
        /\ func' = switch_to_block(if_br(func, Top, h + 1, h + 2), h + 1)
    BY <1>8 DEF TestLoop, Then
  <2> HIDE DEF h
  <2>3. Running(func')
    BY <1>2, <1>5, <2>1, <2>2
  <2> QED BY <1>6, <2>1, <2>2, <2>3
<1>9. CASE LowerLoop
  <2>1. /\ AreElements(Task.value.body, Values)
        /\ QuietAfter(Task.value.body, S) /\ StaysIn(Task.value.body, S)
    BY <1>2, <1>9 DEF LowerLoop, DoingValue, Doing, Task, HasParts, PartsStay
  <2>2. /\ todo' = LoopTasks(Task.value.body, n + 1, n + 1 + 1) \o Tail(todo)
        /\ func' = switch_to_block(goto(two, n + 1), n + 1)
    BY <1>9 DEF LowerLoop, Then, two
  <2>3. Running(func')
    BY <1>3, <1>4, <1>5, <2>2
  <2> QED BY <1>6, <2>1, <2>2, <2>3
<1>10. CASE EndLoop
  <2>1. /\ Task.do = "end_loop" /\ Owned(Task) = {Task.break} /\ Done
        /\ func' = switch_to_block(goto(func, Task.continue), Task.break)
    BY <1>10 DEF EndLoop, Doing, Task, Owned, end_of_loop
  <2>2. Task.break \in Nat
    <3>1. Owned(Task) \subseteq Waiting(func)
      BY <1>1, TaskFacts, SharesTail DEF Inv
    <3>2. Task.break \in DOMAIN func.blocks
      BY <2>1, <3>1 DEF Waiting
    <3> QED BY <1>2, <3>2, SequenceFacts DEF Built, AreBlocks
  <2>3. Running(func')
    BY <1>2, <1>5, <2>1, <2>2
  <2> QED BY <1>1, <2>1, <2>3, FlowDone DEF Running
<1> QED BY <1>7, <1>8, <1>9, <1>10 DEF LowerLoops

LEMMA FlowInit ==
  ASSUME NEW S, NothingAfter(S), Init
  PROVE  FlowInv(S)
<1>1. PICK es \in Bodies : body = ensure_return_in_body(es)
  BY DEF Init
<1> DEFINE t == Elements(body)
           s == [start_function EXCEPT !.locals = Len(Params)]
           r == reserve_block(s)
<1>2. Stays(t, S)
  BY <1>1 DEF NothingAfter, Elements, Stays
<1>3. todo = << t >> /\ func = switch_to_block(r, LastBlock(r))
  BY DEF Init, create_block
<1> HIDE DEF t
<1>4. ToSet(todo) = {t} /\ Len(todo) = 1
  BY <1>3, OneTask
<1>5. \A i \in 1..1 : i = 1 /\ i - 1 = 0
  OBVIOUS
<1>6. Flow(todo, {1}, S)
  BY <1>4, <1>5 DEF Flow
<1>7. ~func.panicked
  BY <1>3 DEF switch_to_block, reserve_block, reserve_block_with_args, start_function
<1>8. func.current # None
  <2>1. r.blocks = Append(<< >>, BasicBlock([i \in 1..0 |-> s.locals + i], << >>, Unreachable))
    BY DEF reserve_block, reserve_block_with_args, start_function
  <2>2. Len(r.blocks) \in Nat
    BY <2>1, NoTasks, AppendFacts, SequenceFacts
  <2>3. func.current = Len(r.blocks)
    BY <1>3 DEF switch_to_block, LastBlock, reserve_block, reserve_block_with_args, start_function
  <2> HIDE DEF r
  <2> QED BY <2>2, <2>3, NoneIsNoBlock
<1>9. {1} \in SUBSET Nat
  OBVIOUS
<1> QED BY <1>2, <1>4, <1>6, <1>7, <1>8, <1>9 DEF FlowInv

LEMMA FlowNext ==
  ASSUME NEW S, NothingAfter(S), Inv, FlowInv(S), [Next]_vars
  PROVE  FlowInv(S)'
<1>1. CASE Step
  BY <1>1, FlowOperand, FlowPlace, FlowEffect, FlowEmit, FlowBranches, FlowLoops, FlowBlocks DEF Step
<1>2. CASE Terminated \/ UNCHANGED vars
  <2>1. UNCHANGED <<todo, func>>
    BY <1>2 DEF Terminated, vars
  <2> QED BY <2>1 DEF FlowInv
<1> QED BY <1>1, <1>2 DEF Next

\* When nothing needs a current block after a return, a jump or a call in tail
\* position, the builder never panics (builder.rs:289-292, 322-326).
THEOREM NothingAfterNeverPanics == \A S : NothingAfter(S) => (Spec => []NeverPanics)
<1> SUFFICES ASSUME NEW S, NothingAfter(S)
             PROVE  Spec => []NeverPanics
  OBVIOUS
<1>1. Init => FlowInv(S)
  BY FlowInit
<1>2. Inv /\ FlowInv(S) /\ [Next]_vars => FlowInv(S)'
  BY FlowNext
<1>3. FlowInv(S) => NeverPanics
  BY DEF FlowInv, NeverPanics
<1> QED BY <1>1, <1>2, <1>3, InvAlways, PTL DEF Spec
=============================================================================
