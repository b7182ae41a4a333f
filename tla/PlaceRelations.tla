--------------------------- MODULE PlaceRelations ---------------------------
(***************************************************************************)
(* Two places of one function, each built from a local or a static by one  *)
(* well-typed projection at a time, and what the checker's relations say   *)
(* of them (mir_borrow_check/src/place.rs).                                *)
(***************************************************************************)
EXTENDS MirPlace

CONSTANTS
  Function,     \* ty, mutable and statics of the function
  Steps,        \* the projections it uses
  MaxDepth      \* bound of the model on the number of projections of a place

VARIABLES a, b

Roots == {Local(r) : r \in DOMAIN Function.ty}

Init == a \in Roots /\ b \in Roots

Projections(p) ==
  {q \in {Project(p, s) : s \in Steps} : Len(p.proj) < MaxDepth /\ type_of(Function, q) # NoType}

ProjectA == a' \in Projections(a) /\ b' = b
ProjectB == b' \in Projections(b) /\ a' = a
Next == ProjectA \/ ProjectB
Spec == Init /\ [][Next]_<<a, b>>

(***************************************************************************)
(* Properties.                                                             *)
(***************************************************************************)
\* The places that p extends.
Ancestors(p) == {Cut(p, n) : n \in 0..Len(p.proj)}

\* Between well-typed places, a is a prefix of b exactly when b extends a without
\* following a reference: Deref is a hard boundary, and places that differ
\* anywhere are not related (place.rs:60-85).
PrefixIsExtension ==
  is_prefix(a, b) <=>
    /\ a \in Ancestors(b)
    /\ \A n \in Len(a.proj) + 1..Len(b.proj) : b.proj[n] # DerefStep

\* What must be initialised to use b: the places that contain b, and the
\* reference through which they are reached (place.rs:95-119).
InitChainIsRegion ==
  a \in init_chain(b) <=>
    \/ is_prefix(a, b)
    \/ Deref(a) \in Ancestors(b) /\ is_prefix(Deref(a), b)

\* A place reached through a mutable reference may be borrowed mutably whatever
\* is projected from it inside its region; one behind a shared reference never,
\* and neither may a local that is not declared mutable (place.rs:193-223).
MutableThroughReference ==
  /\ is_prefix(a, b) => (is_place_mutable(Function, a) <=> is_place_mutable(Function, b))
  /\ IsDeref(b) => (is_place_mutable(Function, b) <=> type_of(Function, Base(b)).mutable)
  /\ IsRoot(b) => (is_place_mutable(Function, b) <=> b.root \in Function.mutable \ Function.statics)

\* What the checker decides from the projections of two places is what their
\* memory says.
RelationsMeanMemory == PrefixIsExtension /\ InitChainIsRegion /\ MutableThroughReference
=============================================================================
