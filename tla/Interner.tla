------------------------------ MODULE Interner ------------------------------
(***************************************************************************)
(* The interners of file names and of strings (diagnosis/src/file_id.rs    *)
(* and nstring/src/nstring.rs, the same code at two widths): a map behind  *)
(* a read-write lock, a counter and a flag.  The threads are those of the  *)
(* language server, which handles its connections in parallel.             *)
(*                                                                         *)
(* get_or_create is cut at its lock operations and at its accesses to the  *)
(* counter and the flag.  The look-ups of the map under the read lock are  *)
(* one step: nobody writes meanwhile.                                      *)
(***************************************************************************)
EXTENDS Naturals, FiniteSets

CONSTANTS
  Threads,
  Names,         \* the strings to intern
  MaxId,         \* u16::MAX, u32::MAX
  MaxCalls,      \* bound: the calls each thread makes
  None

ASSUME InternerAssumption ==
  /\ MaxId \in Nat \ {0}
  /\ MaxCalls \in Nat
  /\ None \notin Names \cup Threads \cup Nat

VARIABLES
  map,           \* the bidirectional map: a set of <<id, name>>
  next_id,       \* the counter, which wraps
  id_space_exhausted,
  writer,        \* the thread that holds the write lock, or None
  poisoned,      \* a thread panicked with the write lock
  pc,            \* [thread -> where it is]
  path,          \* [thread -> the argument of its call]
  id,            \* [thread -> new_id, then the result; 0 is no id]
  issued,        \* history: the <<id, name>> calls have returned
  calls          \* [thread -> how many calls it has made]

vars == <<map, next_id, id_space_exhausted, writer, poisoned, pc, path, id, issued, calls>>
shared == <<map, next_id, id_space_exhausted>>

Ids == 1..MaxId
Failed == 0

Init ==
  /\ map = {}
  /\ next_id = 1
  /\ id_space_exhausted = FALSE
  /\ writer = None
  /\ poisoned = FALSE
  /\ pc = [t \in Threads |-> "idle"]
  /\ path = [t \in Threads |-> None]
  /\ id = [t \in Threads |-> None]
  /\ issued = {}
  /\ calls = [t \in Threads |-> 0]

At(t, label) == pc[t] = label /\ ~poisoned
Go(t, label) == pc' = [pc EXCEPT ![t] = label]
Result(t, i) == id' = [id EXCEPT ![t] = i]
Found(n) == \E p \in map : p[2] = n
IdOf(n) == (CHOOSE p \in map : p[2] = n)[1]

Call(t, n) ==
  /\ At(t, "idle")
  /\ calls[t] < MaxCalls
  /\ calls' = [calls EXCEPT ![t] = @ + 1]
  /\ path' = [path EXCEPT ![t] = n]
  /\ Go(t, "read")
  /\ UNCHANGED <<shared, writer, poisoned, id, issued>>

\* Step 1: the quick check, under the read lock.
QuickCheck(t) ==
  /\ At(t, "read")
  /\ writer = None
  /\ IF Found(path[t]) THEN Result(t, IdOf(path[t])) /\ Go(t, "return")
     ELSE Go(t, "write") /\ id' = id
  /\ UNCHANGED <<shared, writer, poisoned, path, issued, calls>>

\* Step 2: the write lock.
AcquireWrite(t) ==
  /\ At(t, "write")
  /\ writer = None
  /\ writer' = t
  /\ Go(t, "check")
  /\ UNCHANGED <<shared, poisoned, path, id, issued, calls>>

\* Mutant of CheckAgain: the map is not looked at again.
MutantNoCheck(t) ==
  /\ At(t, "check")
  /\ Go(t, "exhausted")
  /\ UNCHANGED <<shared, writer, poisoned, path, id, issued, calls>>

\* Step 3: the name may have come in between.
CheckAgain(t) ==
  /\ At(t, "check")
  /\ IF Found(path[t]) THEN Result(t, IdOf(path[t])) /\ Go(t, "release")
     ELSE Go(t, "exhausted") /\ id' = id
  /\ UNCHANGED <<shared, writer, poisoned, path, issued, calls>>

\* Mutant of CheckExhausted: it returns without the lock being released.
MutantKeepsLock(t) ==
  /\ At(t, "exhausted")
  /\ IF id_space_exhausted THEN Result(t, Failed) /\ Go(t, "return")
     ELSE Go(t, "fetch") /\ id' = id
  /\ UNCHANGED <<shared, writer, poisoned, path, issued, calls>>

\* Step 4: no id is left.
CheckExhausted(t) ==
  /\ At(t, "exhausted")
  /\ IF id_space_exhausted THEN Result(t, Failed) /\ Go(t, "release")
     ELSE Go(t, "fetch") /\ id' = id
  /\ UNCHANGED <<shared, writer, poisoned, path, issued, calls>>

\* Mutant of wrapping_next: the counter goes past its width.
mutant_no_wrap(n) == n + 1

\* fetch_add of an unsigned integer.
wrapping_next(n) == (n + 1) % (MaxId + 1)

\* Step 5: the next id.
FetchAdd(t) ==
  /\ At(t, "fetch")
  /\ Result(t, next_id)
  /\ next_id' = wrapping_next(next_id)
  /\ Go(t, "insert")
  /\ UNCHANGED <<map, id_space_exhausted, writer, poisoned, path, issued, calls>>

\* The map drops what it had for the id and for the name.
inserted(i, n) == {p \in map : p[1] # i /\ p[2] # n} \cup {<<i, n>>}

\* Step 6: zero is no id; the panic poisons the lock, and every later use of it
\* panics too.
Insert(t) ==
  /\ At(t, "insert")
  /\ IF id[t] = 0 THEN poisoned' = TRUE /\ UNCHANGED <<map, pc>>
     ELSE map' = inserted(id[t], path[t]) /\ Go(t, "flag") /\ poisoned' = poisoned
  /\ UNCHANGED <<next_id, id_space_exhausted, writer, path, id, issued, calls>>

\* Mutants of is_last: the flag is never set; it is set one id early.
mutant_never_last(i) == FALSE
mutant_last_early(i) == i >= MaxId - 1

is_last(i) == i = MaxId

\* Step 7: the last id closes the store.
SetExhausted(t) ==
  /\ At(t, "flag")
  /\ id_space_exhausted' = (id_space_exhausted \/ is_last(id[t]))
  /\ Go(t, "release")
  /\ UNCHANGED <<map, next_id, writer, poisoned, path, id, issued, calls>>

Release(t) ==
  /\ At(t, "release")
  /\ writer' = None
  /\ Go(t, "return")
  /\ UNCHANGED <<shared, poisoned, path, id, issued, calls>>

Return(t) ==
  /\ At(t, "return")
  /\ issued' = IF id[t] = Failed THEN issued ELSE issued \cup {<<id[t], path[t]>>}
  /\ id' = [id EXCEPT ![t] = None]
  /\ path' = [path EXCEPT ![t] = None]
  /\ Go(t, "idle")
  /\ UNCHANGED <<shared, writer, poisoned, calls>>

get_or_create(t) ==
  \/ QuickCheck(t) \/ AcquireWrite(t) \/ CheckAgain(t) \/ CheckExhausted(t)
  \/ FetchAdd(t) \/ Insert(t) \/ SetExhausted(t) \/ Release(t) \/ Return(t)

Terminated ==
  /\ \A t \in Threads : At(t, "idle") /\ calls[t] = MaxCalls
  /\ UNCHANGED vars

Next ==
  \/ \E t \in Threads : (\E n \in Names : Call(t, n)) \/ get_or_create(t)
  \/ Terminated

\* Every thread goes on running; nothing is assumed of the order in which the
\* lock admits the threads that wait for it.
Fairness == \A t \in Threads : WF_vars(get_or_create(t))

Spec == Init /\ [][Next]_vars /\ Fairness

(***************************************************************************)
(* Properties.                                                             *)
(***************************************************************************)
\* Types, the counter within its width, and the write lock held exactly from
\* its acquisition to its release (file_id.rs get_or_create).
InsideLock == {"check", "exhausted", "fetch", "insert", "flag", "release"}
Labels == {"idle", "read", "write", "return"} \cup InsideLock
TypeOK ==
  /\ map \subseteq Ids \X Names /\ issued \subseteq Ids \X Names
  /\ next_id \in 0..MaxId
  /\ id_space_exhausted \in BOOLEAN /\ poisoned \in BOOLEAN
  /\ pc \in [Threads -> Labels]
  /\ path \in [Threads -> Names \cup {None}]
  /\ id \in [Threads -> 0..MaxId \cup {None}]
  /\ \A t \in Threads : pc[t] \in InsideLock <=> writer = t

\* An id that was handed out names its string for ever, and no two ids name the
\* same string: equality of ids is equality of strings, and the dereference of
\* an id cannot fail ("FileId should always map to a valid string",
\* file_id.rs:17; nstring.rs PartialEq).
HandlesResolve ==
  /\ issued \subseteq map
  /\ \A p, q \in map : p[1] = q[1] <=> p[2] = q[2]

\* The counter never hands out zero: the flag stops it before it wraps
\* (file_id.rs:50-62).
NeverPanics == ~poisoned

\* The interner is the table of InternTable, with every call in one step. A call
\* has its answer from the step that found the id, inserted it or saw the flag
\* (file_id.rs:36-74).
Decided(t) == pc[t] \in {"flag", "release", "return"}
Table == INSTANCE InternTable WITH
  table <- map,
  call <- path,
  answer <- [t \in Threads |-> IF Decided(t) THEN id[t] ELSE None]
RefinesTable == Table!Spec

\* Every call returns (file_id.rs get_or_create).
CallsReturn == \A t \in Threads : pc[t] # "idle" ~> pc[t] = "idle"
=============================================================================
