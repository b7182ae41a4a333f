------------------------------ MODULE MirPlace ------------------------------
(***************************************************************************)
(* Places of the MIR and the relations the borrow checker is built on      *)
(* (mir/src/place.rs, mir_borrow_check/src/place.rs).                      *)
(*                                                                         *)
(* The source's Place is a tree that grows at the outside: Field(base, f)  *)
(* wraps the place it projects.  Here a place is the root (a local or a    *)
(* static) and the sequence of projections applied to it, innermost first, *)
(* so "strip one projection" is "drop the last element".  A function under *)
(* check is a record with, among others, the fields                        *)
(*    ty       the type of every local and static                          *)
(*    mutable  the locals declared mutable                                 *)
(*    statics  the roots that are statics                                  *)
(***************************************************************************)
EXTENDS Naturals, FiniteSets, SequencesExt

Local(l) == [root |-> l, proj |-> << >>]
Static(s) == [root |-> s, proj |-> << >>]

DerefStep == [step |-> "deref"]
FieldStep(f) == [step |-> "field", name |-> f]
IndexStep(l) == [step |-> "index", by |-> l]
DowncastStep(v) == [step |-> "downcast", name |-> v]

Project(p, s) == [p EXCEPT !.proj = Append(@, s)]
Deref(p) == Project(p, DerefStep)
Field(p, f) == Project(p, FieldStep(f))
Index(p, l) == Project(p, IndexStep(l))
Downcast(p, v) == Project(p, DowncastStep(v))

\* The place that the outermost projection of p projects.
Base(p) == [p EXCEPT !.proj = Front(@)]
IsRoot(p) == p.proj = << >>
IsDeref(p) == ~IsRoot(p) /\ Last(p.proj) = DerefStep

root_place(p) == p.root

\* Mutant of is_prefix: Deref is no boundary.
mutant_prefix_through_deref(prefix, other) ==
  prefix.root = other.root /\ IsPrefix(prefix.proj, other.proj)

\* reaches[i, j]: the first i projections of prefix lead to a prefix of what
\* the first j projections of other lead to.  A Deref in other is matched only
\* by a Deref in prefix.
is_prefix(prefix, other) ==
  LET p == prefix.proj
      o == other.proj
      reaches[i \in 0..Len(p), j \in 0..Len(o)] ==
        \/ SubSeq(p, 1, i) = SubSeq(o, 1, j)
        \/ /\ j > 0
           /\ o[j] # DerefStep
           /\ reaches[i, j - 1]
        \/ /\ i > 0 /\ j > 0
           /\ o[j] = DerefStep /\ p[i] = DerefStep
           /\ reaches[i - 1, j - 1]
  IN  /\ prefix.root = other.root
      /\ reaches[Len(p), Len(o)]

overlaps(a, b) == is_prefix(a, b) \/ is_prefix(b, a)

\* Where the outermost Deref of p stands among its projections; 0 without one.
OuterDeref(p) ==
  LET derefs == {n \in 1..Len(p.proj) : p.proj[n] = DerefStep}
  IN  IF derefs = {} THEN 0 ELSE CHOOSE n \in derefs : \A m \in derefs : n >= m

\* p after its first n projections.
Cut(p, n) == [p EXCEPT !.proj = SubSeq(@, 1, n)]

\* The places whose initialisation makes p usable: p and what it projects, down
\* to the root or to the reference its outermost Deref follows, inclusive.
init_chain(p) ==
  LET d == OuterDeref(p)
  IN  {Cut(p, n) : n \in (IF d = 0 THEN 0 ELSE d - 1)..Len(p.proj)}

is_escapable(f, p) == IsDeref(p) \/ p.root \in f.statics

(***************************************************************************)
(* Types, as far as the checker looks at them: is a value a reference, and *)
(* a mutable one.                                                          *)
(***************************************************************************)
Scalar == [ty |-> "scalar"]
Ref(mut, to) == [ty |-> "reference", mutable |-> mut, to |-> to]
Slice(mut, elem) == [ty |-> "slice", mutable |-> mut, to |-> elem]
Struct(fields) == [ty |-> "struct", fields |-> fields]
ArrayOf(elem) == [ty |-> "array", elem |-> elem]
Enum(variants) == [ty |-> "enum", variants |-> variants]
NoType == [ty |-> "none"]

is_reference_ty(t) == t.ty \in {"reference", "slice"}

StepType(t, s) ==
  CASE s.step = "deref" /\ is_reference_ty(t) -> t.to
    [] s.step = "field" /\ t.ty = "struct" /\ s.name \in DOMAIN t.fields -> t.fields[s.name]
    [] s.step = "index" /\ t.ty = "array" -> t.elem
    [] s.step = "index" /\ t.ty = "slice" -> t.to
    [] s.step = "downcast" /\ t.ty = "enum" /\ s.name \in DOMAIN t.variants -> t.variants[s.name]
    [] OTHER -> NoType

type_of(f, p) == FoldLeft(StepType, f.ty[p.root], p.proj)

is_reference_typed(f, p) == is_reference_ty(type_of(f, p))

\* The outermost Deref decides; without one the local's declaration does.
is_place_mutable(f, p) ==
  LET d == OuterDeref(p)
      t == type_of(f, Cut(p, d - 1))
  IN  IF d = 0 THEN p.root \in f.mutable \ f.statics
               ELSE is_reference_ty(t) /\ t.mutable
=============================================================================
