----------------------------- MODULE InternTable -----------------------------
(***************************************************************************)
(* What an interner promises: a table that gives every name one id and     *)
(* never changes an entry.  A call takes effect in one step between its    *)
(* invocation and its return.  It fails only when every id is taken.       *)
(***************************************************************************)
EXTENDS Naturals

CONSTANTS Threads, Names, MaxId, None

VARIABLES
  table,      \* the set of <<id, name>>
  call,       \* [thread -> None or the name it asks for]
  answer      \* [thread -> None, or the id, or Failed]

vars == <<table, call, answer>>

Ids == 1..MaxId
Failed == 0
Used == {p[1] : p \in table}

Init ==
  /\ table = {}
  /\ call = [t \in Threads |-> None]
  /\ answer = [t \in Threads |-> None]

Invoke(t, n) ==
  /\ call[t] = None
  /\ call' = [call EXCEPT ![t] = n]
  /\ UNCHANGED <<table, answer>>

Answer(t, id) == answer' = [answer EXCEPT ![t] = id]

\* The name has its id already.
Find(t) ==
  /\ call[t] # None /\ answer[t] = None
  /\ \E p \in table : p[2] = call[t] /\ Answer(t, p[1])
  /\ UNCHANGED <<table, call>>

\* The name gets an id nobody has.
Add(t) ==
  /\ call[t] # None /\ answer[t] = None
  /\ \A p \in table : p[2] # call[t]
  /\ \E id \in Ids \ Used : table' = table \cup {<<id, call[t]>>} /\ Answer(t, id)
  /\ UNCHANGED call

Fail(t) ==
  /\ call[t] # None /\ answer[t] = None
  /\ \A p \in table : p[2] # call[t]
  /\ Used = Ids
  /\ Answer(t, Failed)
  /\ UNCHANGED <<table, call>>

Return(t) ==
  /\ answer[t] # None
  /\ call' = [call EXCEPT ![t] = None]
  /\ answer' = [answer EXCEPT ![t] = None]
  /\ UNCHANGED table

Next == \E t \in Threads :
  \/ \E n \in Names : Invoke(t, n)
  \/ Find(t) \/ Add(t) \/ Fail(t) \/ Return(t)

Spec == Init /\ [][Next]_vars
=============================================================================
