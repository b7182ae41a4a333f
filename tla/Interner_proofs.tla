--------------------------- MODULE Interner_proofs ---------------------------
(***************************************************************************)
(* For every number of threads, names and ids: the interner hands out one  *)
(* id per name, resolves every id it handed out, never panics, and         *)
(* implements the atomic table of InternTable.                             *)
(***************************************************************************)
EXTENDS Interner, TLAPS

Used == {p[1] : p \in map}
Absent(n) == \A p \in map : p[2] # n

\* The counter and the map: outside of an insertion the used ids are exactly
\* those below the counter, or all of them once the flag is set.
Counter ==
  /\ id_space_exhausted => Used = Ids
  /\ (~id_space_exhausted /\ \A t \in Threads : pc[t] \notin {"insert", "flag"})
       => next_id \in Ids /\ Used = 1..(next_id - 1)
  /\ \A t \in Threads :
       /\ pc[t] \in {"fetch", "insert", "flag"} => ~id_space_exhausted
       /\ pc[t] \in {"insert", "flag"} => id[t] \in Ids /\ next_id = wrapping_next(id[t])
       /\ pc[t] = "insert" => Used = 1..(id[t] - 1)
       /\ pc[t] = "flag" => Used = 1..id[t]

\* The calls: an argument from the invocation to the return, a name found absent
\* stays absent as long as the lock is held, and an answer is an entry of the map.
Calls ==
  \A t \in Threads :
    /\ pc[t] = "idle" <=> path[t] = None
    /\ pc[t] \in {"exhausted", "fetch", "insert"} => Absent(path[t])
    /\ pc[t] \in {"flag", "release", "return"} =>
         \/ id[t] = Failed /\ pc[t] # "flag"
         \/ <<id[t], path[t]>> \in map

Inv == TypeOK /\ HandlesResolve /\ NeverPanics /\ Counter /\ Calls
(***************************************************************************)
(* Lemmas about the parts.                                                 *)
(***************************************************************************)
\* The counter wraps after the last id only.
LEMMA Wrapping ==
  ASSUME NEW i \in Ids
  PROVE  wrapping_next(i) = IF i = MaxId THEN 0 ELSE i + 1
BY InternerAssumption DEF wrapping_next, Ids

\* A name that is found has its entry.
LEMMA Lookup ==
  ASSUME TypeOK, NEW n \in Names, Found(n)
  PROVE  IdOf(n) \in Ids /\ <<IdOf(n), n>> \in map
<1>1. PICK p \in map : p[2] = n
  BY DEF Found
<1>2. DEFINE q == CHOOSE r \in map : r[2] = n
<1>3. q \in map /\ q[2] = n
  BY <1>1
<1>4. q \in Ids \X Names /\ q = <<q[1], q[2]>>
  BY <1>3 DEF TypeOK
<1>. QED
  BY <1>3, <1>4 DEF IdOf

\* At most one thread is inside the lock.
LEMMA OneInside ==
  ASSUME TypeOK, NEW t \in Threads, NEW u \in Threads,
         pc[t] \in InsideLock, pc[u] \in InsideLock
  PROVE  t = u
BY DEF TypeOK

\* The bound on the argument of a call.
LEMMA CallHasName ==
  ASSUME TypeOK, Calls, NEW t \in Threads, pc[t] # "idle"
  PROVE  path[t] \in Names
BY DEF TypeOK, Calls

(***************************************************************************)
(* The invariant: initially, and after every action.                       *)
(***************************************************************************)
LEMMA InvInit == Init => Inv
<1>. SUFFICES ASSUME Init PROVE Inv
  OBVIOUS
<1>1. TypeOK
  <2>1. next_id \in 0..MaxId
    BY InternerAssumption DEF Init
  <2>2. \A t \in Threads : pc[t] \in InsideLock <=> writer = t
    BY InternerAssumption DEF Init, InsideLock
  <2>3. id \in [Threads -> 0..MaxId \cup {None}] /\ path \in [Threads -> Names \cup {None}]
    BY DEF Init
  <2>4. pc \in [Threads -> Labels] /\ id_space_exhausted \in BOOLEAN /\ poisoned \in BOOLEAN
    BY DEF Init, Labels
  <2>. QED
    BY <2>1, <2>2, <2>3, <2>4 DEF Init, TypeOK
<1>2. HandlesResolve /\ NeverPanics
  BY DEF Init, HandlesResolve, NeverPanics
<1>3. Counter
  <2>1. Used = {} /\ next_id = 1 /\ ~id_space_exhausted
    BY DEF Init, Used
  <2>2. 1..(1 - 1) = {} /\ 1 \in Ids
    BY InternerAssumption DEF Ids
  <2>. QED
    BY <2>1, <2>2 DEF Init, Counter
<1>4. Calls
  BY DEF Init, Calls
<1>. QED
  BY <1>1, <1>2, <1>3, <1>4 DEF Inv

LEMMA CallInv ==
  ASSUME Inv, NEW t \in Threads, NEW n \in Names, Call(t, n)
  PROVE  Inv'
<1>. USE DEF Inv, At, Go, Result, shared
<1>1. TypeOK'
  BY DEF Call, TypeOK, Labels, InsideLock
<1>2. HandlesResolve' /\ NeverPanics'
  BY DEF Call, HandlesResolve, NeverPanics
<1>3. Counter'
  BY DEF Call, Counter, Used, TypeOK
<1>4. Calls'
  BY InternerAssumption DEF Call, Calls, Absent, TypeOK
<1>. QED
  BY <1>1, <1>2, <1>3, <1>4

LEMMA QuickCheckInv ==
  ASSUME Inv, NEW t \in Threads, QuickCheck(t)
  PROVE  Inv'
<1>. USE DEF Inv, At, Go, Result, shared
<1>0. Found(path[t]) => IdOf(path[t]) \in Ids /\ <<IdOf(path[t]), path[t]>> \in map
  BY Lookup, CallHasName DEF QuickCheck
<1>1. TypeOK'
  BY <1>0 DEF QuickCheck, TypeOK, Labels, InsideLock, Ids
<1>2. HandlesResolve' /\ NeverPanics'
  BY DEF QuickCheck, HandlesResolve, NeverPanics
<1>3. Counter'
  BY DEF QuickCheck, Counter, Used, TypeOK
<1>4. Calls'
  <2>1. path' = path /\ map' = map
    BY DEF QuickCheck
  <2>2. ASSUME NEW u \in Threads, u # t
        PROVE  pc'[u] = pc[u] /\ id'[u] = id[u]
    BY <2>2 DEF QuickCheck, TypeOK
  <2>3. /\ path[t] # None
        /\ \/ pc'[t] = "write"
           \/ pc'[t] = "return" /\ <<id'[t], path[t]>> \in map
    BY <1>0 DEF QuickCheck, TypeOK, Calls
  <2>. QED
    BY <2>1, <2>2, <2>3 DEF Calls, Absent
<1>. QED
  BY <1>1, <1>2, <1>3, <1>4

LEMMA AcquireWriteInv ==
  ASSUME Inv, NEW t \in Threads, AcquireWrite(t)
  PROVE  Inv'
<1>. USE DEF Inv, At, Go, Result, shared
<1>1. TypeOK'
  BY InternerAssumption DEF AcquireWrite, TypeOK, Labels, InsideLock
<1>2. HandlesResolve' /\ NeverPanics'
  BY DEF AcquireWrite, HandlesResolve, NeverPanics
<1>3. Counter'
  BY DEF AcquireWrite, Counter, Used, TypeOK
<1>4. Calls'
  BY DEF AcquireWrite, Calls, Absent, TypeOK
<1>. QED
  BY <1>1, <1>2, <1>3, <1>4

LEMMA CheckAgainInv ==
  ASSUME Inv, NEW t \in Threads, CheckAgain(t)
  PROVE  Inv'
<1>. USE DEF Inv, At, Go, Result, shared
<1>0. Found(path[t]) => IdOf(path[t]) \in Ids /\ <<IdOf(path[t]), path[t]>> \in map
  BY Lookup, CallHasName DEF CheckAgain
<1>1. TypeOK'
  BY <1>0 DEF CheckAgain, TypeOK, Labels, InsideLock, Ids
<1>2. HandlesResolve' /\ NeverPanics'
  BY DEF CheckAgain, HandlesResolve, NeverPanics
<1>3. Counter'
  BY DEF CheckAgain, Counter, Used, TypeOK
<1>4. Calls'
  <2>1. path' = path /\ map' = map
    BY DEF CheckAgain
  <2>2. ASSUME NEW u \in Threads, u # t
        PROVE  pc'[u] = pc[u] /\ id'[u] = id[u]
    BY <2>2 DEF CheckAgain, TypeOK
  <2>3. /\ path[t] # None
        /\ \/ pc'[t] = "exhausted" /\ Absent(path[t])
           \/ pc'[t] = "release" /\ <<id'[t], path[t]>> \in map
    BY <1>0 DEF CheckAgain, TypeOK, Calls, Found, Absent
  <2>. QED
    BY <2>1, <2>2, <2>3 DEF Calls, Absent
<1>. QED
  BY <1>1, <1>2, <1>3, <1>4

LEMMA CheckExhaustedInv ==
  ASSUME Inv, NEW t \in Threads, CheckExhausted(t)
  PROVE  Inv'
<1>. USE DEF Inv, At, Go, Result, shared
<1>1. TypeOK'
  BY InternerAssumption DEF CheckExhausted, TypeOK, Labels, InsideLock, Failed
<1>2. HandlesResolve' /\ NeverPanics'
  BY DEF CheckExhausted, HandlesResolve, NeverPanics
<1>3. Counter'
  BY DEF CheckExhausted, Counter, Used, TypeOK
<1>4. Calls'
  <2>1. path' = path /\ map' = map
    BY DEF CheckExhausted
  <2>2. ASSUME NEW u \in Threads, u # t
        PROVE  pc'[u] = pc[u] /\ id'[u] = id[u]
    BY <2>2 DEF CheckExhausted, TypeOK
  <2>3. /\ path[t] # None
        /\ \/ pc'[t] = "release" /\ id'[t] = Failed
           \/ pc'[t] = "fetch" /\ Absent(path[t])
    BY DEF CheckExhausted, TypeOK, Calls, Absent
  <2>. QED
    BY <2>1, <2>2, <2>3 DEF Calls, Absent
<1>. QED
  BY <1>1, <1>2, <1>3, <1>4

LEMMA FetchAddInv ==
  ASSUME Inv, NEW t \in Threads, FetchAdd(t)
  PROVE  Inv'
<1>. USE DEF Inv, At, Go, Result, shared
<1>0. ~id_space_exhausted /\ next_id \in Ids /\ Used = 1..(next_id - 1)
  BY OneInside DEF FetchAdd, Counter, InsideLock
<1>0a. next_id' = IF next_id = MaxId THEN 0 ELSE next_id + 1
  BY <1>0, Wrapping DEF FetchAdd
<1>1. TypeOK'
  <2>1. next_id' \in 0..MaxId
    BY <1>0, <1>0a, InternerAssumption DEF Ids
  <2>2. id' \in [Threads -> 0..MaxId \cup {None}]
    BY DEF FetchAdd, TypeOK
  <2>. QED
    BY <2>1, <2>2 DEF FetchAdd, TypeOK, Labels, InsideLock
<1>2. HandlesResolve' /\ NeverPanics'
  BY DEF FetchAdd, HandlesResolve, NeverPanics
<1>3. Counter'
  <2>1. Used' = Used /\ id_space_exhausted' = id_space_exhausted
    BY DEF FetchAdd, Used
  <2>2. id'[t] = next_id /\ pc'[t] = "insert" /\ next_id' = wrapping_next(next_id)
    BY DEF FetchAdd, TypeOK
  <2>3. \A u \in Threads : u # t => pc'[u] = pc[u] /\ pc[u] \notin InsideLock
    BY OneInside DEF FetchAdd, InsideLock, TypeOK
  <2>. QED
    BY <1>0, <2>1, <2>2, <2>3 DEF Counter, InsideLock, wrapping_next
<1>4. Calls'
  BY DEF FetchAdd, Calls, Absent, TypeOK
<1>. QED
  BY <1>1, <1>2, <1>3, <1>4

LEMMA InsertInv ==
  ASSUME Inv, NEW t \in Threads, Insert(t)
  PROVE  Inv'
<1>. USE DEF Inv, At, Go, Result, shared
<1>0. /\ ~id_space_exhausted /\ id[t] \in Ids /\ next_id = wrapping_next(id[t])
      /\ Used = 1..(id[t] - 1) /\ Absent(path[t]) /\ path[t] \in Names
  BY CallHasName DEF Insert, Counter, Calls
<1>0a. id[t] # 0 /\ id[t] \notin Used
  BY <1>0, InternerAssumption DEF Ids
\* Nothing is dropped: neither the id nor the name was there.
<1>0b. map' = map \cup {<<id[t], path[t]>>}
  BY <1>0, <1>0a DEF Insert, inserted, Used, Absent
<1>0c. \A u \in Threads : u # t => pc'[u] = pc[u] /\ pc[u] \notin InsideLock
  BY <1>0a, OneInside DEF Insert, InsideLock, TypeOK
<1>0d. pc'[t] = "flag" /\ id' = id /\ path' = path /\ poisoned' = poisoned
  BY <1>0a DEF Insert, TypeOK
<1>1. TypeOK'
  BY <1>0, <1>0a, <1>0b, <1>0d DEF Insert, TypeOK, Labels, InsideLock
<1>2. HandlesResolve' /\ NeverPanics'
  BY <1>0, <1>0a, <1>0b, <1>0d DEF Insert, HandlesResolve, NeverPanics, Used, Absent
<1>3. Counter'
  <2>1. Used' = Used \cup {id[t]}
    <3>1. Used' = {p[1] : p \in map \cup {<<id[t], path[t]>>}}
      BY <1>0b DEF Used
    <3>2. <<id[t], path[t]>>[1] = id[t]
      OBVIOUS
    <3>. QED
      BY <3>1, <3>2, ZenonT(30) DEF Used
  <2>2. Used' = 1..id[t]
    BY <1>0, <2>1 DEF Ids
  <2>3. id_space_exhausted' = id_space_exhausted /\ next_id' = next_id
    BY DEF Insert
  <2>. QED
    BY <1>0, <1>0c, <1>0d, <2>2, <2>3 DEF Counter, InsideLock, wrapping_next
<1>4. Calls'
  <2>. SUFFICES ASSUME NEW u \in Threads PROVE Calls!(u)'
    BY DEF Calls
  <2>1. CASE u = t
    BY <1>0, <1>0b, <1>0d, <2>1, InternerAssumption DEF Calls
  <2>2. CASE u # t
    BY <1>0b, <1>0c, <1>0d, <2>2 DEF Calls, InsideLock
  <2>. QED
    BY <2>1, <2>2
<1>. QED
  BY <1>1, <1>2, <1>3, <1>4

LEMMA SetExhaustedInv ==
  ASSUME Inv, NEW t \in Threads, SetExhausted(t)
  PROVE  Inv'
<1>. USE DEF Inv, At, Go, Result, shared
<1>0. ~id_space_exhausted /\ id[t] \in Ids /\ next_id = wrapping_next(id[t]) /\ Used = 1..id[t]
  BY DEF SetExhausted, Counter
<1>1. TypeOK'
  BY DEF SetExhausted, TypeOK, Labels, InsideLock, is_last
<1>2. HandlesResolve' /\ NeverPanics'
  BY DEF SetExhausted, HandlesResolve, NeverPanics
<1>3. Counter'
  <2>1. Used' = Used /\ next_id' = next_id /\ id_space_exhausted' = (id[t] = MaxId)
    BY <1>0 DEF SetExhausted, Used, is_last
  <2>2. \A u \in Threads : pc'[u] \notin {"fetch", "insert", "flag"}
    BY OneInside DEF SetExhausted, InsideLock, TypeOK
  <2>3. id[t] # MaxId => next_id \in Ids /\ Used = 1..(next_id - 1)
    BY <1>0, Wrapping, InternerAssumption DEF Ids
  <2>4. id[t] = MaxId => Used = Ids
    BY <1>0 DEF Ids
  <2>. QED
    BY <2>1, <2>2, <2>3, <2>4 DEF Counter, Ids
<1>4. Calls'
  BY DEF SetExhausted, Calls, Absent, TypeOK
<1>. QED
  BY <1>1, <1>2, <1>3, <1>4

LEMMA ReleaseInv ==
  ASSUME Inv, NEW t \in Threads, Release(t)
  PROVE  Inv'
<1>. USE DEF Inv, At, Go, Result, shared
<1>1. TypeOK'
  BY InternerAssumption DEF Release, TypeOK, Labels, InsideLock
<1>2. HandlesResolve' /\ NeverPanics'
  BY DEF Release, HandlesResolve, NeverPanics
<1>3. Counter'
  BY DEF Release, Counter, Used, TypeOK
<1>4. Calls'
  BY DEF Release, Calls, Absent, TypeOK
<1>. QED
  BY <1>1, <1>2, <1>3, <1>4

LEMMA ReturnInv ==
  ASSUME Inv, NEW t \in Threads, Return(t)
  PROVE  Inv'
<1>. USE DEF Inv, At, Go, Result, shared
<1>1. TypeOK'
  <2>1. id[t] # Failed => <<id[t], path[t]>> \in map
    BY DEF Return, Calls
  <2>. QED
    BY <2>1 DEF Return, TypeOK, Labels, InsideLock
<1>2. HandlesResolve' /\ NeverPanics'
  BY DEF Return, HandlesResolve, NeverPanics, Calls
<1>3. Counter'
  BY DEF Return, Counter, Used, TypeOK
<1>4. Calls'
  BY DEF Return, Calls, Absent, TypeOK
<1>. QED
  BY <1>1, <1>2, <1>3, <1>4

LEMMA InvNext == Inv /\ [Next]_vars => Inv'
<1>. SUFFICES ASSUME Inv, [Next]_vars PROVE Inv'
  OBVIOUS
<1>1. CASE UNCHANGED vars
  BY <1>1 DEF vars, Inv, TypeOK, HandlesResolve, NeverPanics, Counter, Calls, Used, Absent
<1>2. ASSUME NEW t \in Threads, NEW n \in Names, Call(t, n) PROVE Inv'
  BY <1>2, CallInv
<1>3. ASSUME NEW t \in Threads, get_or_create(t) PROVE Inv'
  BY <1>3, QuickCheckInv, AcquireWriteInv, CheckAgainInv, CheckExhaustedInv, FetchAddInv,
     InsertInv, SetExhaustedInv, ReleaseInv, ReturnInv DEF get_or_create
<1>. QED
  BY <1>1, <1>2, <1>3 DEF Next, Terminated

LEMMA Invariant == Spec => []Inv
<1>. QED
  BY InvInit, InvNext, PTL DEF Spec

(***************************************************************************)
(* Theorems.                                                               *)
(***************************************************************************)
\* The state of the interner is well typed and the write lock is held exactly
\* inside the critical section (file_id.rs, nstring.rs get_or_create).
THEOREM TypeCorrect == Spec => []TypeOK
<1>1. Inv => TypeOK
  BY DEF Inv
<1>. QED
  BY <1>1, Invariant, PTL

\* Every id that was handed out names its string for ever, and equal ids are
\* equal strings (file_id.rs:11-19, nstring.rs PartialEq).
THEOREM HandlesAlwaysResolve == Spec => []HandlesResolve
<1>1. Inv => HandlesResolve
  BY DEF Inv
<1>. QED
  BY <1>1, Invariant, PTL

\* The counter hands out no zero, whatever its width (file_id.rs:56-62).
THEOREM CounterNeverWraps == Spec => []NeverPanics
<1>1. Inv => NeverPanics
  BY DEF Inv
<1>. QED
  BY <1>1, Invariant, PTL

(***************************************************************************)
(* The refinement of InternTable.                                          *)
(***************************************************************************)
LEMMA RefinesInit == Init => Table!Init
BY DEF Init, Table!Init, Decided

LEMMA RefinesNext == Inv /\ Inv' /\ [Next]_vars => [Table!Next]_(Table!vars)
<1>. DEFINE ans == [t \in Threads |-> IF Decided(t) THEN id[t] ELSE None]
<1>. SUFFICES ASSUME Inv, Inv', [Next]_vars PROVE [Table!Next]_(Table!vars)
  OBVIOUS
<1>. USE DEF Inv, At, Go, Result, shared
<1>1. CASE UNCHANGED vars
  BY <1>1 DEF vars, Table!vars, Decided
<1>2. ASSUME NEW t \in Threads, NEW n \in Names, Call(t, n) PROVE Table!Invoke(t, n)
  <2>1. ans' = ans
    BY <1>2 DEF Call, Decided, TypeOK
  <2>. QED
    BY <1>2, <2>1 DEF Call, Table!Invoke, Calls
\* The steps that find the answer.
<1>3. ASSUME NEW t \in Threads, QuickCheck(t) PROVE Table!Find(t) \/ UNCHANGED Table!vars
  <2>1. CASE Found(path[t])
    <3>1. path[t] # None /\ ans[t] = None /\ <<IdOf(path[t]), path[t]>> \in map
      BY <1>3, <2>1, Lookup, CallHasName, InternerAssumption DEF QuickCheck, Decided
    <3>2. ans' = [ans EXCEPT ![t] = IdOf(path[t])]
      BY <1>3, <2>1 DEF QuickCheck, Decided, TypeOK
    <3>. QED
      BY <1>3, <3>1, <3>2 DEF QuickCheck, Table!Find, Table!Answer
  <2>2. CASE ~Found(path[t])
    BY <1>3, <2>2 DEF QuickCheck, Table!vars, Decided, TypeOK
  <2>. QED
    BY <2>1, <2>2
<1>4. ASSUME NEW t \in Threads, CheckAgain(t) PROVE Table!Find(t) \/ UNCHANGED Table!vars
  <2>1. CASE Found(path[t])
    <3>1. path[t] # None /\ ans[t] = None /\ <<IdOf(path[t]), path[t]>> \in map
      BY <1>4, <2>1, Lookup, CallHasName, InternerAssumption DEF CheckAgain, Decided
    <3>2. ans' = [ans EXCEPT ![t] = IdOf(path[t])]
      BY <1>4, <2>1 DEF CheckAgain, Decided, TypeOK
    <3>. QED
      BY <1>4, <3>1, <3>2 DEF CheckAgain, Table!Find, Table!Answer
  <2>2. CASE ~Found(path[t])
    BY <1>4, <2>2 DEF CheckAgain, Table!vars, Decided, TypeOK
  <2>. QED
    BY <2>1, <2>2
\* The step that sees that every id is taken.
<1>5. ASSUME NEW t \in Threads, CheckExhausted(t) PROVE Table!Fail(t) \/ UNCHANGED Table!vars
  <2>1. CASE id_space_exhausted
    <3>1. path[t] # None /\ ans[t] = None /\ Absent(path[t]) /\ Used = Ids
      BY <1>5, <2>1 DEF CheckExhausted, Decided, Calls, Counter
    <3>2. ans' = [ans EXCEPT ![t] = Failed]
      BY <1>5, <2>1 DEF CheckExhausted, Decided, TypeOK
    <3>. QED
      BY <1>5, <3>1, <3>2 DEF CheckExhausted, Absent, Used, Ids, Failed,
         Table!Fail, Table!Answer, Table!Used, Table!Ids, Table!Failed
  <2>2. CASE ~id_space_exhausted
    BY <1>5, <2>2 DEF CheckExhausted, Table!vars, Decided, TypeOK
  <2>. QED
    BY <2>1, <2>2
\* The step that adds the entry.
<1>6. ASSUME NEW t \in Threads, Insert(t) PROVE Table!Add(t)
  <2>1. path[t] # None /\ ans[t] = None /\ Absent(path[t])
    BY <1>6 DEF Insert, Decided, Calls
  <2>2. id[t] \in Ids /\ id[t] \notin Used /\ id[t] # 0
    BY <1>6, InternerAssumption DEF Insert, Counter, Ids
  <2>3. map' = map \cup {<<id[t], path[t]>>}
    BY <1>6, <2>1, <2>2 DEF Insert, inserted, Used, Absent
  <2>4. ans' = [ans EXCEPT ![t] = id[t]]
    BY <1>6, <2>2 DEF Insert, Decided, TypeOK
  <2>. QED
    BY <1>6, <2>1, <2>2, <2>3, <2>4 DEF Insert, Absent, Used, Ids,
       Table!Add, Table!Answer, Table!Used, Table!Ids
<1>7. ASSUME NEW t \in Threads, Return(t) PROVE Table!Return(t)
  <2>1. ans[t] # None
    <3>1. ans[t] = id[t] /\ (id[t] = Failed \/ <<id[t], path[t]>> \in map)
      BY <1>7 DEF Return, Decided, Calls
    <3>2. ASSUME <<id[t], path[t]>> \in map PROVE id[t] \in Nat
      <4>1. <<id[t], path[t]>> \in Ids \X Names
        BY <3>2 DEF TypeOK
      <4>. QED
        BY <4>1 DEF Ids
    <3>. QED
      BY <3>1, <3>2, InternerAssumption DEF Failed
  <2>2. ans' = [ans EXCEPT ![t] = None]
    BY <1>7 DEF Return, Decided, TypeOK
  <2>. QED
    BY <1>7, <2>1, <2>2 DEF Return, Table!Return
\* The others are invisible.
<1>8. ASSUME NEW t \in Threads, AcquireWrite(t) \/ FetchAdd(t) \/ SetExhausted(t) \/ Release(t)
      PROVE  UNCHANGED Table!vars
  <2>1. map' = map /\ path' = path
    BY <1>8 DEF AcquireWrite, FetchAdd, SetExhausted, Release
  <2>2. ans' = ans
    BY <1>8 DEF AcquireWrite, FetchAdd, SetExhausted, Release, Decided, TypeOK
  <2>. QED
    BY <2>1, <2>2 DEF Table!vars
<1>. QED
  BY <1>1, <1>2, <1>3, <1>4, <1>5, <1>6, <1>7, <1>8 DEF Next, Terminated, get_or_create, Table!Next

\* The interner implements the table: every call takes effect in one step
\* between its invocation and its return (file_id.rs:36-74).
THEOREM InternerRefinesTable == Spec => RefinesTable
<1>1. Spec => []Inv /\ Init /\ [][Next]_vars
  BY Invariant DEF Spec
<1>. QED
  BY <1>1, RefinesInit, RefinesNext, PTL DEF RefinesTable, Table!Spec
=============================================================================
