------------------------------- MODULE Solver -------------------------------
(***************************************************************************)
(* The type solver of one function or one global (hir_solve/src/solve.rs), *)
(* with the types of values (hir_type/src/get_type.rs) and the copies it   *)
(* makes of generic functions and structs (monomorphize.rs).               *)
(*                                                                         *)
(* A value is a node of the store, referred to by its number.  The solver  *)
(* rewrites nodes in place while it remembers constraints under them, and  *)
(* the hash of a node is the hash of all its content (store.rs), so an     *)
(* entry of the constraint table is found again only while that content is *)
(* what it was when the entry was last hashed.  The table has 3, 7, 14 and *)
(* 28 places before it grows, and growing hashes every key anew.           *)
(*                                                                         *)
(* A round visits the values queued by the round before, in any order: the *)
(* queue is a hash set with a random seed.                                 *)
(***************************************************************************)
EXTENDS TypeRules, TLC

CONSTANTS Programs    \* the programs solved: stores as HIR construction leaves them

VARIABLES
  s,         \* the store and the solver
  pending,   \* the queued values that this round has still to visit
  phase      \* "begin" or "visit" a round, "finish", "global", "done", "crashed"

vars == <<s, pending, phase>>

(***************************************************************************)
(* The type of a value (get_type.rs).                                      *)
(***************************************************************************)
Literals == {"inferred_int", "inferred_float"}

get_method(st, ty, name) == {st.meth[i].fn : i \in {j \in DOMAIN st.meth : st.meth[j].ty = ty /\ st.meth[j].name = name}}

get_type(st, f) == Fun(st.fun[f].ret, [i \in DOMAIN st.fun[f].params |-> st.par[st.fun[f].params[i]]])

RangeNames == <<"Range", "RangeInclusive", "RangeFrom", "RangeTo", "RangeToInclusive", "RangeFull">>
range_struct_name(nd) ==
  CASE nd.a = <<1, 1>> -> IF nd.n = 1 THEN 2 ELSE 1
    [] nd.a = <<1, 0>> -> 3
    [] nd.a = <<0, 1>> -> IF nd.n = 1 THEN 5 ELSE 4
    [] OTHER -> 6
ensure_range_structs ==
  [i \in 1 .. 6 |-> LET fields == IF i <= 2 THEN 2 ELSE IF i <= 5 THEN 1 ELSE 0
                    IN  [gen |-> IF fields > 0 THEN <<1>> ELSE << >>, fields |-> [j \in 1 .. fields |-> Param(0, 1)]]]

RECURSIVE determine_type(_, _)
BlockType(st, b) ==
  LET els == st.blk[b]
  IN  IF els # << >> /\ els[Len(els)].e = "expr" THEN determine_type(st, els[Len(els)].id) ELSE Prim("unit")

ElementType(st, nd) ==
  LET ty == determine_type(st, nd.on[1])
      index == get_method(st, ty, "index")
  IN  IF Sequenced(ty) THEN ty.on[1] ELSE IF index # {} THEN st.fun[CHOOSE f \in index : TRUE].ret ELSE ty

determine_type(st, e) ==
  LET nd == st.val[e]
      first == determine_type(st, nd.on[1])
      parts == [i \in DOMAIN nd.on |-> determine_type(st, nd.on[i])]
  IN  CASE nd.k \in {"int", "float", "cast"} -> nd.t
        [] nd.k \in {"unit", "bool", "str"} \cup Literals -> Prim(nd.k)
        [] nd.k = "struct_object" -> Struct(nd.r)
        [] nd.k = "enum_variant" -> IF nd.n \in DOMAIN st.enu[nd.r] THEN st.enu[nd.r][nd.n] ELSE NoType
        [] nd.k = "binary" -> IF nd.op \in Comparison THEN Prim("bool") ELSE first
        [] nd.k = "unary" -> first
        [] nd.k = "index" -> IF first = NoType THEN NoType ELSE ElementType(st, nd)
        [] nd.k = "field" -> IF first.k = "struct" /\ nd.n \in DOMAIN st.str[first.n[1]].fields
                             THEN st.str[first.n[1]].fields[nd.n] ELSE NoType
        [] nd.k = "deref" -> IF Pointing(first) THEN first.on[1] ELSE NoType
        [] nd.k = "borrow" -> IF first = NoType THEN NoType ELSE Ref(first, nd.a[1], nd.a[2])
        [] nd.k = "list" -> IF nd.on = << >> THEN Array(Prim("unit"), 0)
                            ELSE IF first = NoType THEN NoType ELSE Array(first, Len(nd.on))
        [] nd.k = "tuple" -> IF \E i \in DOMAIN parts : parts[i] = NoType THEN NoType ELSE Ty("tuple", << >>, parts)
        [] nd.k = "if" -> IF Len(nd.b) = 2 THEN BlockType(st, nd.b[2]) ELSE Prim("unit")
        [] nd.k = "block" -> BlockType(st, nd.b[1])
        [] nd.k \in {"assign", "while", "loop"} -> Prim("unit")
        [] nd.k \in {"break", "continue", "return"} -> Prim("never")
        [] nd.k = "call" -> IF first.k = "function" THEN first.on[1] ELSE NoType
        [] nd.k = "method_call" ->
             LET found == get_method(st, first, nd.op)
             IN  IF first = NoType \/ found = {} THEN NoType ELSE st.fun[CHOOSE f \in found : TRUE].ret
        [] nd.k = "function" -> get_type(st, nd.r)
        [] nd.k = "local" -> Base(st.loc[nd.r].ty)
        [] nd.k = "param" -> Base(st.par[nd.r])
        [] nd.k = "range" -> Struct(range_struct_name(nd))

(***************************************************************************)
(* The content of a value: what equality and the hash of a handle read.    *)
(* A function is never rewritten while another one is solved, so its       *)
(* number stands for its content.                                          *)
(***************************************************************************)
RECURSIVE Content(_, _)
ElementContent(st, el) ==
  IF el.e = "expr" THEN Content(st, el.id)
  ELSE [ty |-> st.loc[el.id].ty, init |-> IF st.loc[el.id].init = 0 THEN << >> ELSE <<Content(st, st.loc[el.id].init)>>]

Content(st, e) ==
  LET nd == st.val[e]
  IN  [nd EXCEPT !.on = [i \in DOMAIN nd.on |-> Content(st, nd.on[i])],
                 !.b  = [i \in DOMAIN nd.b |-> [j \in DOMAIN st.blk[nd.b[i]] |-> ElementContent(st, st.blk[nd.b[i]][j])]],
                 !.t  = IF nd.k = "local" THEN <<ElementContent(st, [e |-> "local", id |-> nd.r])>>
                        ELSE IF nd.k = "param" THEN <<st.par[nd.r]>> ELSE <<nd.t>>]

\* the values that a value's content holds; a symbol's holds its variable's initialiser
RECURSIVE Within(_, _)
Within(st, e) ==
  LET nd == st.val[e]
      locals == {el.id : el \in {x \in UNION {Range(st.blk[b]) : b \in Range(nd.b)} : x.e = "local"}}
                  \cup (IF nd.k = "local" THEN {nd.r} ELSE {})
      roots == Range(nd.on) \cup ({st.loc[l].init : l \in locals} \ {0})
                 \cup {el.id : el \in {x \in UNION {Range(st.blk[b]) : b \in Range(nd.b)} : x.e = "expr"}}
  IN  {e} \cup UNION {Within(st, x) : x \in roots}

Roots(st, els) == {IF els[i].e = "expr" THEN els[i].id ELSE st.loc[els[i].id].init : i \in DOMAIN els} \ {0}
Called(st, els) ==
  {st.val[x].r : x \in {y \in UNION {Within(st, r) : r \in Roots(st, els)} : st.val[y].k = "function"}}

\* Hashing a value hashes the bodies of the functions it names.  The function
\* being solved is borrowed mutably, and a cycle among the others has no end.
RECURSIVE Ends(_, _, _)
Ends(st, f, path) == /\ f \notin path
                     /\ \A g \in Called(st, st.fun[f].body) : Ends(st, g, path \cup {f})

(***************************************************************************)
(* The constraint table and the queue.  Each is a hash table that hashes   *)
(* all its keys anew when it grows, and the hash of a value reads the      *)
(* blocks in it; a block that is being visited is borrowed mutably, and    *)
(* reading it then is a panic.                                             *)
(***************************************************************************)
Grows == {3, 7, 14, 28}

Entries(st, e) ==
  LET Under(c) == {i \in DOMAIN st.tab : st.tab[i].hashed = c /\ (st.tab[i].id = e \/ Content(st, st.tab[i].id) = c)}
  IN  Under(Content(st, e))

TypesUnder(st, found) == IF found = {} THEN {} ELSE st.tab[Least(found)].types
Constraints(st, e) == TypesUnder(st, Entries(st, e))

Rehashed(st) == [i \in DOMAIN st.tab |-> [st.tab[i] EXCEPT !.hashed = Content(st, st.tab[i].id)]]
Unreadable(st, ids) == \E id \in ids : \E x \in Within(st, id) : Range(st.val[x].b) \cap st.open # {}

\* in the entry of a value, where it has one, or in a new one
Written(st, e, ty, found) ==
  IF found # {} THEN [st.tab EXCEPT ![Least(found)].types = @ \cup {ty}]
  ELSE Append(IF Len(st.tab) \in Grows THEN Rehashed(st) ELSE st.tab, [id |-> e, hashed |-> Content(st, e), types |-> {ty}])
NotedIn(st, e, ty, found, full) ==
  IF \/ found = {} /\ Len(st.tab) \in Grows /\ Unreadable(st, {st.tab[i].id : i \in DOMAIN st.tab})
     \/ full /\ Unreadable(st, st.work)
  THEN [st EXCEPT !.panic = "borrowed"]
  ELSE [st EXCEPT !.tab = Written(st, e, ty, found), !.moved = TRUE, !.work = @ \cup {e},
                  !.room = IF full THEN Least({g \in Grows : g > @}) ELSE @]
Noted(st, e, ty) == NotedIn(st, e, ty, Entries(st, e), e \notin st.work /\ Cardinality(st.work) = st.room)

\* the same constraint once more counts as progress
mutant_constraint_again(st, e, ty) == Noted(st, e, ty)

add_constraint(st, e, ty) == IF ty \in Constraints(st, e) THEN st ELSE Noted(st, e, ty)

RECURSIVE AddAll(_, _, _)
AddAll(st, e, types) ==
  IF types = {} THEN st
  ELSE LET ty == CHOOSE x \in types : TRUE IN AddAll(add_constraint(st, e, ty), e, types \ {ty})

RECURSIVE AddEach(_, _, _)
AddEach(st, es, types) ==
  IF es = << >> THEN st ELSE AddEach(AddAll(st, es[1], types), Tail(es), types)

Report(st, kind, e) == [st EXCEPT !.errs = @ \cup {<<kind, e>>}]
Replace(st, e, nd) == [st EXCEPT !.val[e] = nd]

\* get_effective_bounds_impl: the bounds of the value itself, within those of its constraints
get_effective_bounds(st, e) ==
  LET nd == st.val[e]
      own == CASE nd.k = "local" -> extract_bounds_from_type(st.loc[nd.r].ty)
               [] nd.k = "param" -> extract_bounds_from_type(st.par[nd.r])
               [] nd.k = "int"   -> extract_bounds_from_type(nd.t)
               [] nd.k = "inferred_int" -> Bounds(AsI(nd.n), nd.n)
               [] OTHER -> NoBounds
      Intersected(all) == IF all = {} THEN NoBounds ELSE Bounds(Greatest({b.lo : b \in all}), Least({b.hi : b \in all}))
  IN  Intersected(({own} \cup {extract_bounds_from_type(ty) : ty \in Constraints(st, e)}) \ {NoBounds})

(***************************************************************************)
(* Literals and ranges.                                                    *)
(***************************************************************************)
Fits(value, ty) == value <= numeric_bounds_for_type(ty).hi

\* a signed type before an unsigned one, then the widest; of two that tie
\* (u64 and usize) the set of constraints gives either first
find_common_integer_type(st, types, value) ==
  LET fits == {ty \in {Base(t) : t \in types} : is_integer_primitive(ty) /\ Fits(value, ty)}
      signed == {ty \in fits : is_signed_primitive(ty)}
      rank == IF signed # {} THEN signed ELSE fits
      widest == {ty \in rank : \A other \in rank : Width[other.k] <= Width[ty.k]}
  IN  IF Cardinality(widest) > 1 THEN Prim(st.tie)
      ELSE CHOOSE ty \in widest \cup {NoType} : widest = {} \/ ty # NoType

Ladder == <<"u8", "u16", "u32", "u64", "u128">>
SmallestUnsigned(value) == Ladder[Least({i \in DOMAIN Ladder : Fits(value, Prim(Ladder[i]))})]

solve_inferred_integer(st, e) ==
  LET nd == st.val[e]
      Typed(seen, types, common) ==
        IF types = {} \/ \E ty \in types : ~is_integer_primitive(Base(ty)) THEN seen
        ELSE Replace(seen, e, [nd EXCEPT !.k = "int", !.t = IF common = NoType THEN Prim(SmallestUnsigned(nd.n)) ELSE common])
      From(types) ==
        Typed(IF \E ty \in types : ~check_literal_against_refinement(nd.n, ty)
              THEN Report(st, "literal_out_of_refinement", e) ELSE st,
              types, find_common_integer_type(st, types, nd.n))
  IN  From(Constraints(st, e))

solve_inferred_float(st, e) ==
  LET From(types) ==
        IF types = {} \/ \E ty \in types : ~is_float_primitive(ty) THEN st
        ELSE Replace(st, e, [st.val[e] EXCEPT !.k = "float", !.t = IF Prim("f64") \in types THEN Prim("f64") ELSE Prim("f32")])
  IN  From(Constraints(st, e))

\* make_range_struct_object: the fields that the range has, in their order
solve_range(st, e) ==
  LET nd == st.val[e]
  IN  Replace(st, e, [nd EXCEPT !.k = "struct_object", !.r = range_struct_name(nd), !.n = 0, !.a = [i \in DOMAIN nd.on |-> i]])

(***************************************************************************)
(* Generic arguments.  An answer is a set: one substitution, or none.      *)
(***************************************************************************)
Supplied(subst, arg, param) == unify_types_with_subst(arg, param, subst)
Parameters(st, f) == get_type(st, f).on            \* the return type first
Unsolved(params, subst) == \E p \in params : p[1] \notin DOMAIN subst.generic
Named(gen, types) == {p \in UNION {collect_generic_params_from_type(ty) : ty \in types} : p[2] \in Range(gen)}

infer_generic_args_from_call(st, f, args) ==
  LET params == Tail(Parameters(st, f))
      Answer(types, subst) ==
        IF \/ Len(args) > Len(params)
           \/ \E i \in DOMAIN types : types[i] = NoType
           \/ Unsolved(Named(st.fun[f].gen, Range(Parameters(st, f))), subst)
           \/ DOMAIN subst.generic = {}
        THEN {} ELSE {subst}
      From(types) == Answer(types, UnifyParts(types, params, 1, Unbound))
  IN  From([i \in DOMAIN args |-> determine_type(st, args[i])])

\* the named arguments first, then the positional ones; literals say nothing
RECURSIVE UnifyKnown(_, _, _)
UnifyKnown(types, params, subst) ==
  IF types = << >> THEN subst
  ELSE UnifyKnown(Tail(types), Tail(params),
                  IF types[1] = NoType \/ is_inferred(types[1]) THEN subst ELSE Supplied(subst, types[1], params[1]))

\* places[i] is the parameter that argument i names, or 0; positional arguments come first
Positional(places) == Cardinality({i \in DOMAIN places : places[i] = 0})

infer_generic_args_from_call_named(st, f, args, places) ==
  LET params == Tail(Parameters(st, f))
      named == Len(args) - Positional(places)
      order == SelectSeq([i \in DOMAIN args |-> IF i <= named THEN i + Positional(places) ELSE i - named],
                         LAMBDA i : (IF places[i] = 0 THEN i ELSE places[i]) <= Len(params))
      Answer(subst) ==
        IF DOMAIN subst.generic = {} \/ Unsolved(Named(st.fun[f].gen, Range(params)), subst) THEN {} ELSE {subst}
      Matched(o) ==
        UnifyKnown([i \in DOMAIN o |-> determine_type(st, args[o[i]])],
                   [i \in DOMAIN o |-> params[IF places[o[i]] = 0 THEN o[i] ELSE places[o[i]]]], Unbound)
  IN  Answer(Matched(order))

Merged(first, second) == [generic |-> first.generic @@ second.generic, inferred |-> first.inferred @@ second.inferred]

GenericArguments(st, f, args, places) ==
  LET Both(first, second) ==
        IF first # {} /\ second # {} THEN {Merged(p, n) : p \in first, n \in second} ELSE first \cup second
  IN  Both(infer_generic_args_from_call(st, f, SubSeq(args, 1, Positional(places))),
           IF Positional(places) = Len(args) THEN {} ELSE infer_generic_args_from_call_named(st, f, args, places))

\* the type arguments of a struct, from the values of its fields: a parameter's
\* place in the list is its index here, whatever index its uses have
infer_generic_args_from_struct_fields(st, def, fields, places) ==
  LET sd == st.str[def]
      appears(g) == \E i \in DOMAIN fields : type_contains_generic_param_name(sd.fields[places[i]], sd.gen[g])
      Answer(types, subst) ==
        IF \/ \A i \in DOMAIN fields : types[i] = NoType \/ is_inferred(types[i])
           \/ \E g \in DOMAIN sd.gen : appears(g) /\ (g - 1) \notin DOMAIN subst.generic
        THEN {} ELSE {subst}
      From(types) == Answer(types, UnifyKnown(types, [i \in DOMAIN fields |-> sd.fields[places[i]]], Unbound))
  IN  From([i \in DOMAIN fields |-> determine_type(st, fields[i])])

\* ... and from a type that the context wants it to have
infer_generic_args_from_constraints(st, e, def) ==
  LET sd == st.str[def]
      wanted == {ty \in Constraints(st, e) : ty.k = "parameterized" /\ ty.on[1] = Struct(def) /\ Len(ty.on) - 1 = Len(sd.gen)}
      used == Named(sd.gen, Range(sd.fields))
      Bound(ty, index) ==
        [Unbound EXCEPT !.generic = [x \in Range(index) |-> ty.on[1 + Greatest({g \in DOMAIN index : index[g] = x})]]]
  IN  {Bound(ty, [g \in DOMAIN sd.gen |-> IF \E p \in used : p[2] = sd.gen[g]
                                          THEN (CHOOSE p \in used : p[2] = sd.gen[g])[1] ELSE g - 1]) : ty \in wanted}

(***************************************************************************)
(* Copies of generic functions and structs.  The symbols in a copied body  *)
(* go on naming the template's parameters and variables.                   *)
(***************************************************************************)
Kept == {"int", "float", "unit", "bool", "str", "function", "local", "param", "break", "continue"} \cup Literals

RECURSIVE apply_subst_to_value(_, _, _)
RECURSIVE CopyAll(_, _, _)
RECURSIVE clone_block_element(_, _, _)
RECURSIVE CopyBlocks(_, _, _)
\* What a copy made: the store and the ids, those before it first.
Before(id, rest) == [rest EXCEPT !.ids = <<id>> \o @]

CopyAll(st, es, subst) ==
  LET Rest(one) == Before(one.id, CopyAll(one.st, Tail(es), subst))
  IN  IF es = << >> THEN [st |-> st, ids |-> << >>] ELSE Rest(apply_subst_to_value(st, es[1], subst))

\* all the elements of a block
clone_block_element(st, els, subst) ==
  LET el == els[1]
      from == IF el.e = "expr" THEN <<el.id>> ELSE IF st.loc[el.id].init = 0 THEN << >> ELSE <<st.loc[el.id].init>>
      Rest(done, id) == Before([el EXCEPT !.id = id], clone_block_element(done, Tail(els), subst))
      Local(one) ==
        [one.st EXCEPT !.loc = Append(@, [ty |-> apply(subst, st.loc[el.id].ty),
                                          init |-> IF one.ids = << >> THEN 0 ELSE one.ids[1]])]
      Copied(one) == IF el.e = "expr" THEN Rest(one.st, one.ids[1]) ELSE Rest(Local(one), Len(one.st.loc) + 1)
  IN  IF els = << >> THEN [st |-> st, ids |-> << >>] ELSE Copied(CopyAll(st, from, subst))

CopyBlocks(st, bs, subst) ==
  LET Rest(one) == Before(Len(one.st.blk) + 1, CopyBlocks([one.st EXCEPT !.blk = Append(@, one.ids)], Tail(bs), subst))
  IN  IF bs = << >> THEN [st |-> st, ids |-> << >>] ELSE Rest(clone_block_element(st, st.blk[bs[1]], subst))

\* the fields of a struct that is not generic keep the values under them
apply_subst_to_value(st, e, subst) ==
  LET nd == st.val[e]
      shallow == nd.k = "struct_object" /\ st.str[nd.r].gen = << >>
      Copy(kids, blocks) ==
        [nd EXCEPT !.on = kids, !.b = blocks.ids, !.sp = IF nd.k \in Kept THEN @ ELSE 0,
                   !.t = IF nd.k = "cast" THEN apply(subst, @) ELSE @]
      Made(kids, blocks) ==
        [st |-> [blocks.st EXCEPT !.val = Append(@, Copy(kids, blocks))], id |-> Len(blocks.st.val) + 1]
      Parts(kids) == Made(kids.ids, CopyBlocks(kids.st, nd.b, subst))
  IN  Parts(IF shallow
            THEN [st |-> [st EXCEPT !.val = @ \o [i \in DOMAIN nd.on |-> st.val[nd.on[i]]]], ids |-> [i \in DOMAIN nd.on |-> Len(st.val) + i]]
            ELSE CopyAll(st, nd.on, subst))

\* the copies made so far, and the template where none is: the depth limit and
\* the set of copies in progress are never met, since no copy is solved
monomorphize_function(st, f, subst) ==
  LET key == mono_cache_key(f, subst)
      old == st.fun[f]
      first == Len(st.par)
      New(ids) == [gen |-> << >>, params |-> [i \in DOMAIN old.params |-> first + i],
                   ret |-> apply(subst, old.ret), body |-> ids]
      Made(copy) ==
        [st |-> [copy.st EXCEPT !.fun = Append(@, New(copy.ids)), !.moved = TRUE,
                                !.par = @ \o [i \in DOMAIN old.params |-> apply(subst, st.par[old.params[i]])],
                                !.copies = Extended(@, key, Len(st.fun) + 1)],
         id |-> Len(st.fun) + 1]
  IN  IF key \in DOMAIN st.copies THEN [st |-> st, id |-> st.copies[key]] ELSE Made(clone_block_element(st, old.body, subst))

monomorphize_struct(st, def, subst) ==
  LET key == mono_cache_key(def, subst)
      new == [gen |-> << >>, fields |-> [i \in DOMAIN st.str[def].fields |-> apply(subst, st.str[def].fields[i])]]
  IN  IF key \in DOMAIN st.scopies THEN [st |-> st, id |-> st.scopies[key]]
      ELSE [st |-> [st EXCEPT !.str = Append(@, new), !.moved = TRUE, !.scopies = Extended(@, key, Len(st.str) + 1)],
            id |-> Len(st.str) + 1]

(***************************************************************************)
(* The visit of a value: what its kind adds, then the visits of its parts. *)
(***************************************************************************)
RECURSIVE visit(_, _)
RECURSIVE visit_all(_, _)
RECURSIVE visit_elements(_, _)
visit_all(st, es) == IF es = << >> THEN st ELSE visit_all(visit(st, es[1]), Tail(es))

\* a variable takes the type of its initialiser, before the visit if it has
\* none, and after it if that made the type known
LocalSettled(st, l) ==
  LET Settled(ty) ==
        IF ty # NoType /\ (is_inferred(st.loc[l].ty) \/ (st.loc[l].ty.k = "parameterized" /\ ty.k = "struct"))
        THEN [st EXCEPT !.loc[l].ty = ty] ELSE st
  IN  Settled(determine_type(st, st.loc[l].init))

visit_block_element(st, el) ==
  LET init == st.loc[el.id].init
      told == IF is_inferred(st.loc[el.id].ty) THEN LocalSettled(st, el.id) ELSE add_constraint(st, init, st.loc[el.id].ty)
  IN  IF el.e = "expr" THEN visit(st, el.id)
      ELSE IF init = 0 THEN st
      ELSE LocalSettled(visit(told, init), el.id)

visit_elements(st, els) == IF els = << >> THEN st ELSE visit_elements(visit_block_element(st, els[1]), Tail(els))

\* the block is borrowed mutably while its elements are visited
visit_block(st, b) == [visit_elements([st EXCEPT !.open = @ \cup {b}], st.blk[b]) EXCEPT !.open = @ \ {b}]

\* a field whose declared type still holds a generic parameter tells its value nothing
RECURSIVE apply_struct_field_constraints(_, _, _, _)
apply_struct_field_constraints(st, fields, places, sd) ==
  IF fields = << >> THEN st
  ELSE LET ty == sd.fields[places[1]]
           told == IF sd.gen # << >> /\ type_contains_any_generic_param(ty) THEN st ELSE add_constraint(st, fields[1], ty)
       IN  apply_struct_field_constraints(visit(told, fields[1]), Tail(fields), Tail(places), sd)

visit_struct_object(st, e) ==
  LET nd == st.val[e]
      Fields(done) == apply_struct_field_constraints(done, nd.on, nd.a, done.str[done.val[e].r])
      Instance(made) == Replace(made.st, e, [nd EXCEPT !.r = made.id])
      Made(seen, args) ==
        IF args = {} THEN Report(seen, "cannot_infer_type_arguments", e)
        ELSE Instance(monomorphize_struct(seen, nd.r, CHOOSE subst \in args : TRUE))
      Or(seen, from) == Made(seen, IF from # {} THEN from ELSE infer_generic_args_from_constraints(seen, e, nd.r))
      Inferred(seen) == Or(seen, infer_generic_args_from_struct_fields(seen, nd.r, nd.on, nd.a))
  IN  Fields(IF st.str[nd.r].gen = << >> THEN st ELSE Inferred(visit_all(st, nd.on)))

visit_enum_variant(st, e) ==
  LET nd == st.val[e]
  IN  IF nd.n \notin DOMAIN st.enu[nd.r] THEN Report(st, "no_such_variant", e)
      ELSE visit(add_constraint(st, nd.on[1], st.enu[nd.r][nd.n]), nd.on[1])

\* The result's bounds are checked against what the context wants before the
\* operands are told of it.  Operands of different types are an error only
\* when both are known; those of a comparison tell each other.
ResultOutOfBounds(st, e, wanted) ==
  LET nd == st.val[e]
      left == get_effective_bounds(st, nd.on[1])
      right == get_effective_bounds(st, nd.on[2])
  IN  /\ nd.op \in Arithmetic /\ left # NoBounds /\ right # NoBounds
      /\ \E ty \in wanted : ~check_bounds_against_constraint(compute_binary_bounds(nd.op, left, right), ty)

\* the divisor's lowest value is above zero and its highest is zero
DividesByZero(st, e, wanted) ==
  LET nd == st.val[e]
      right == get_effective_bounds(st, nd.on[2])
  IN  /\ nd.op = "div" /\ wanted # {} /\ get_effective_bounds(st, nd.on[1]) # NoBounds
      /\ right # NoBounds /\ right.lo > 0 /\ right.hi = 0

\* the operands are told first, and the bounds of the result read after it
mutant_operands_first(st, e, wanted) ==
  LET told == AddEach(st, st.val[e].on, wanted)
  IN  IF ~DividesByZero(told, e, wanted) /\ ResultOutOfBounds(told, e, wanted)
      THEN Report(told, "result_out_of_refinement", e) ELSE told

ConstrainOperands(st, e, wanted) ==
  AddEach(IF ResultOutOfBounds(st, e, wanted) THEN Report(st, "result_out_of_refinement", e) ELSE st, st.val[e].on, wanted)

CompareTypes(st, e) ==
  LET nd == st.val[e]
      Righted(noted, lt) == IF is_inferred(lt) THEN noted ELSE add_constraint(noted, nd.on[2], lt)
      Lefted(noted, rt) == IF is_inferred(rt) THEN noted ELSE add_constraint(noted, nd.on[1], rt)
      Told(lt, rt) ==
        CASE lt = NoType \/ rt = NoType -> st
          [] lt # NoType /\ rt # NoType /\ nd.op \in Comparison ->
               Lefted(Righted(add_constraint(st, e, Prim("bool")), lt), rt)
          [] OTHER -> IF is_inferred(lt) \/ is_inferred(rt) THEN st
                      ELSE IF lt # rt THEN Report(st, "operands_differ", e) ELSE add_constraint(st, e, lt)
  IN  Told(determine_type(st, nd.on[1]), determine_type(st, nd.on[2]))

visit_binary(st, e) ==
  LET wanted == Constraints(st, e)
  IN  IF DividesByZero(st, e, wanted) THEN [st EXCEPT !.panic = "divided"]
      ELSE visit_all(CompareTypes(ConstrainOperands(st, e, wanted), e), st.val[e].on)

visit_unary(st, e) ==
  LET nd == st.val[e]
      Checked(seen, wanted, bounds) ==
        IF bounds # NoBounds /\ \E ty \in wanted : ~check_bounds_against_constraint(compute_unary_bounds(nd.op, bounds), ty)
        THEN Report(seen, "result_out_of_refinement", e) ELSE seen
      Seen(wanted, seen) == Checked(seen, wanted, get_effective_bounds(seen, nd.on[1]))
      Told(wanted) == Seen(wanted, visit(AddAll(st, nd.on[1], wanted), nd.on[1]))
  IN  Told(Constraints(st, e))

\* wanted was read before the index was told to be a usize
visit_index_access(st, e) ==
  LET nd == st.val[e]
      Passed(typed, wanted) == IF st.val[nd.on[1]].k = "list" THEN AddEach(typed, st.val[nd.on[1]].on, wanted) ELSE typed
      Told(told, wanted, ty) ==
        IF wanted # {} /\ Sequenced(ty) THEN Passed(add_constraint(told, e, ty.on[1]), wanted) ELSE told
      Indexed(told) == Told(told, Constraints(told, e), Base(determine_type(told, nd.on[1])))
  IN  visit_all(Indexed(add_constraint(st, nd.on[2], Prim("usize"))), nd.on)

visit_assign(st, e) ==
  LET nd == st.val[e]
      Told(ty) == IF ty = NoType THEN st ELSE add_constraint(st, nd.on[2], ty)
  IN  visit_all(Told(determine_type(st, nd.on[1])), nd.on)

\* the elements of what is wanted, and of the first element that is no literal
visit_list(st, e) ==
  LET nd == st.val[e]
      concrete == {i \in DOMAIN nd.on : st.val[nd.on[i]].k \notin Literals}
      literals == SelectSeq(nd.on, LAMBDA x : st.val[x].k \in Literals)
      Shared(told, ty) == IF ty = NoType \/ is_inferred(ty) THEN told ELSE AddEach(told, literals, {ty})
      Told(told) == IF concrete = {} THEN told ELSE Shared(told, determine_type(told, nd.on[Least(concrete)]))
      wanted == {IF Sequenced(Base(ty)) THEN Base(ty).on[1] ELSE ty : ty \in Constraints(st, e)}
  IN  visit_all(Told(AddEach(st, nd.on, wanted)), nd.on)

Last(st, b) == IF st.blk[b] # << >> /\ st.blk[b][Len(st.blk[b])].e = "expr" THEN <<st.blk[b][Len(st.blk[b])].id>> ELSE << >>

visit_if(st, e) ==
  LET nd == st.val[e]
      Differ(types) == /\ Cardinality(types) = 2 /\ types \cap {NoType, Prim("never")} = {}
                       /\ \A ty \in types : ~is_inferred(ty)
      Compared(second) ==
        IF Differ({BlockType(second, b) : b \in Range(nd.b)}) THEN Report(second, "branches_differ", e) ELSE second
      \* the branches in their order, however many there are
      Branches(first) == IF Len(nd.b) = 1 THEN first ELSE Compared(visit_block(first, nd.b[2]))
      Wanted(seen) ==
        AddEach(seen, Last(st, nd.b[1]) \o (IF Len(nd.b) = 1 THEN << >> ELSE Last(st, nd.b[2])), Constraints(seen, e))
  IN  Wanted(Branches(visit_block(visit(add_constraint(st, nd.on[1], Prim("bool")), nd.on[1]), nd.b[1])))

visit_while(st, e) ==
  LET nd == st.val[e] IN visit_block(visit(add_constraint(st, nd.on[1], Prim("bool")), nd.on[1]), nd.b[1])

visit_return(st, e) ==
  LET value == st.val[e].on[1] IN visit(IF st.ret = NoType THEN st ELSE add_constraint(st, value, st.ret), value)

RECURSIVE TellArguments(_, _, _, _)
TellArguments(st, args, places, types) ==
  IF args = << >> THEN st
  ELSE TellArguments(IF places[1] \in DOMAIN types THEN add_constraint(st, args[1], types[places[1]]) ELSE st,
                     Tail(args), Tail(places), types)

\* the parameter of each argument
Places(nd) == [i \in DOMAIN nd.a |-> IF nd.a[i] = 0 THEN i ELSE nd.a[i]]

visit_call(st, e) ==
  LET nd == st.val[e]
      callee == st.val[nd.on[1]]
      args == Tail(nd.on)
      Instance(made) == Replace(made.st, nd.on[1], [callee EXCEPT !.r = made.id, !.sp = 0])
      Callee(inferred) ==
        IF inferred = {} THEN visit(st, nd.on[1])
        ELSE Instance(monomorphize_function(st, callee.r, CHOOSE subst \in inferred : TRUE))
      Typed(seen, types) == add_constraint(TellArguments(seen, args, Places(nd), Tail(types)), e, types[1])
      Told(seen) ==
        IF seen.val[nd.on[1]].k = "function" THEN Typed(seen, Parameters(seen, seen.val[nd.on[1]].r)) ELSE seen
      generic == callee.k = "function" /\ st.fun[callee.r].gen # << >>
  IN  visit_all(Told(Callee(IF generic THEN GenericArguments(st, callee.r, args, nd.a) ELSE {})), args)

\* A method call becomes a call whose first argument is the object, borrowed
\* when a method that is not generic takes a reference.  The constraints under
\* the old content of the value are not found again.
AsCall(st, e, f, object) ==
  LET nd == st.val[e]
      callee == [nd EXCEPT !.k = "function", !.sp = 0, !.op = "", !.r = f, !.on = << >>, !.a = << >>]
      call == [nd EXCEPT !.k = "call", !.sp = 0, !.op = "", !.on = <<Len(st.val) + 1, object>> \o Tail(@), !.a = <<0>> \o @]
  IN  IF Ends(st, f, {st.self}) THEN [st EXCEPT !.val = [Append(@, callee) EXCEPT ![e] = call]]
      ELSE [st EXCEPT !.panic = "recursive"]

\* The positional arguments say what they can; the named ones are asked otherwise.
MethodArguments(st, f, args, places) ==
  LET Or(positional) == IF positional # {} \/ Positional(places) = Len(places) THEN positional
                        ELSE infer_generic_args_from_call_named(st, f, args, places)
  IN  Or(infer_generic_args_from_call(st, f, SubSeq(args, 1, Positional(places))))

\* A method that is not generic, and the call it becomes.
PlainMethod(st, e, f) ==
  LET nd == st.val[e]
      params == Parameters(st, f)
      self == IF Len(params) > 1 THEN params[2] ELSE NoType
      borrow == [nd EXCEPT !.k = "borrow", !.sp = 0, !.op = "", !.on = <<nd.on[1]>>, !.a = self.n]
      Call(told) ==
        IF self.k \in {"ref", "slice_ref"} THEN AsCall([told EXCEPT !.val = Append(@, borrow)], e, f, Len(told.val) + 1)
        ELSE AsCall(told, e, f, nd.on[1])
  IN  Call(TellArguments(st, Tail(nd.on), [i \in DOMAIN nd.a |-> IF nd.a[i] = 0 THEN i + 1 ELSE nd.a[i]], Tail(params)))

visit_method_call(st, e) ==
  LET nd == st.val[e]
      Instance(made) == visit(AsCall(made.st, e, made.id, nd.on[1]), e)
      Generic(f, inferred) ==
        IF inferred = {} THEN visit_all(st, nd.on)
        ELSE Instance(monomorphize_function(st, f, CHOOSE subst \in inferred : TRUE))
      Method(f) == IF st.fun[f].gen = << >> THEN visit(PlainMethod(st, e, f), e)
                   ELSE Generic(f, MethodArguments(st, f, nd.on, <<0>> \o nd.a))
      Found(object, found) ==
        CASE object = NoType                 -> visit_all(st, nd.on)
          [] object # NoType /\ found = {}  -> visit_all(Report(st, "method_not_found", e), nd.on)
          [] OTHER                           -> Method(CHOOSE f \in found : TRUE)
      Of(object) == Found(object, get_method(st, object, nd.op))
  IN  Of(determine_type(st, nd.on[1]))

visit(st, e) ==
  LET nd == st.val[e]
  IN  CASE st.panic # "" -> st
        [] nd.k = "inferred_int" -> solve_inferred_integer(st, e)
        [] nd.k = "inferred_float" -> solve_inferred_float(st, e)
        [] nd.k = "range" -> solve_range(st, e)
        [] nd.k = "struct_object" -> visit_struct_object(st, e)
        [] nd.k = "enum_variant" -> visit_enum_variant(st, e)
        [] nd.k = "binary" -> visit_binary(st, e)
        [] nd.k = "unary" -> visit_unary(st, e)
        [] nd.k = "index" -> visit_index_access(st, e)
        [] nd.k = "assign" -> visit_assign(st, e)
        [] nd.k = "list" -> visit_list(st, e)
        [] nd.k = "if" -> visit_if(st, e)
        [] nd.k = "while" -> visit_while(st, e)
        [] nd.k \in {"loop", "block"} -> visit_block(st, nd.b[1])
        [] nd.k = "return" -> visit_return(st, e)
        [] nd.k = "call" -> visit_call(st, e)
        [] nd.k = "method_call" -> visit_method_call(st, e)
        [] OTHER -> visit_all(st, nd.on)    \* field, deref, cast, borrow, tuple, and the values without parts

(***************************************************************************)
(* The solver of a function.                                               *)
(***************************************************************************)
body == s.fun[s.self].body

\* declared types follow too
mutant_all_follow(st, l, ty) == ty # NoType

\* the variables of the body itself follow their initialisers after each round
Follows(st, l, ty) == ty # NoType /\ (is_inferred(st.loc[l].ty) \/ st.loc[l].ty.k = "parameterized")

RECURSIVE sync_local_types(_, _)
sync_local_types(st, els) ==
  IF els = << >> THEN st
  ELSE LET l == els[1].id
           Synced(ty) == IF Follows(st, l, ty) THEN [st EXCEPT !.loc[l].ty = ty] ELSE st
           has_init == els[1].e = "local" /\ st.loc[l].init # 0
       IN  sync_local_types(IF has_init THEN Synced(determine_type(st, st.loc[l].init)) ELSE st, Tail(els))

\* a literal that nothing constrains, or nothing of another kind, gets its default type
Default(nd) ==
  IF nd.k = "inferred_float" THEN [nd EXCEPT !.k = "float", !.t = Prim("f64")]
  ELSE LET steps == <<"i32", "i64", "u64", "u128">>
       IN  [nd EXCEPT !.k = "int", !.t = Prim(steps[Least({i \in 1 .. 4 : Fits(nd.n, Prim(steps[i]))})])]

FinalLiteral(st, e) ==
  LET Fitting(k, ty) == IF k = "inferred_int" THEN is_integer_primitive(Base(ty)) ELSE is_float_primitive(Base(ty))
      Defaulted(seen) ==
        IF seen.val[e].k \in Literals /\ \A ty \in Constraints(seen, e) : Fitting(seen.val[e].k, ty)
        THEN Replace(seen, e, Default(seen.val[e])) ELSE seen
  IN  Defaulted(IF Constraints(st, e) = {} THEN st ELSE visit(st, e))

\* blocks before the other parts; nothing under a range, which is a leaf here
RECURSIVE finalize_value_recursive(_, _)
RECURSIVE FinalizeAll(_, _)
RECURSIVE finalize_inferred_literals(_, _)
RECURSIVE FinalizeBlocks(_, _)
FinalizeAll(st, es) == IF es = << >> THEN st ELSE FinalizeAll(finalize_value_recursive(st, es[1]), Tail(es))
finalize_inferred_literals(st, els) ==
  IF els = << >> THEN st
  ELSE LET root == IF els[1].e = "expr" THEN els[1].id ELSE st.loc[els[1].id].init
       IN  finalize_inferred_literals(IF root = 0 THEN st ELSE finalize_value_recursive(st, root), Tail(els))
FinalizeBlocks(st, bs) ==
  IF bs = << >> THEN st ELSE FinalizeBlocks(finalize_inferred_literals(st, st.blk[bs[1]]), Tail(bs))

finalize_value_recursive(st, e) ==
  LET nd == st.val[e]
  IN  IF nd.k \in Literals THEN FinalLiteral(st, e)
      ELSE IF nd.k = "range" THEN st
      ELSE FinalizeAll(FinalizeBlocks(st, nd.b), nd.on)

Finished(st, els) == sync_local_types(finalize_inferred_literals(st, els), els)

\* resolve_function: the signature's lengths and bounds are computed, and the
\* values of the body queued.  Queueing hashes them.
Resolved(st) ==
  LET f == st.fun[st.self]
      roots == Roots(st, f.body)
      ret == resolve_type(f.ret)
  IN  [st EXCEPT !.fun[st.self].ret = ret, !.ret = ret, !.work = roots,
                 !.par = [p \in DOMAIN @ |-> IF p \in Range(f.params) THEN resolve_type(@[p]) ELSE @[p]],
                 !.room = IF roots = {} THEN 0 ELSE Least({g \in Grows : g >= Cardinality(roots)}),
                 !.panic = IF \A g \in Called(st, f.body) : Ends(st, g, {st.self}) THEN "" ELSE "recursive"]

\* resolve_global: the initialiser is visited until nothing is learnt; the
\* literals left in it get no default
GlobalRound(st) ==
  LET start == [st EXCEPT !.moved = FALSE]
      Inferred(ty) == IF ty = NoType THEN start ELSE [start EXCEPT !.global.ty = ty]
  IN  visit(IF is_inferred(st.global.ty) THEN Inferred(determine_type(st, st.global.init))
            ELSE add_constraint(start, st.global.init, st.global.ty), st.global.init)

(***************************************************************************)
(* Behaviours.                                                             *)
(***************************************************************************)
Init ==
  /\ s \in Programs
  /\ pending = {}
  /\ phase = IF s.self = 0 THEN "global" ELSE "start"

StartFunction ==
  /\ phase = "start"
  /\ \E r \in {Resolved(s)} : s' = r /\ phase' = IF r.panic = "" THEN "begin" ELSE "crashed"
  /\ UNCHANGED pending

BeginRound ==
  /\ phase = "begin"
  /\ pending' = s.work
  /\ s' = [s EXCEPT !.work = {}, !.moved = FALSE]
  /\ phase' = IF s.work = {} THEN "finish" ELSE "visit"

Visit(e) ==
  /\ phase = "visit"
  /\ \E r \in {visit(s, e)} : s' = r /\ phase' = IF r.panic = "" THEN "visit" ELSE "crashed"
  /\ pending' = pending \ {e}

EndRound ==
  /\ phase = "visit" /\ pending = {}
  /\ \E r \in {sync_local_types(s, body)} : s' = r
  /\ phase' = IF s.moved THEN "begin" ELSE "finish"
  /\ UNCHANGED pending

Finish ==
  /\ phase = "finish"
  /\ \E r \in {Finished(s, body)} : s' = r
  /\ phase' = "done"
  /\ UNCHANGED pending

VisitGlobal ==
  /\ phase = "global"
  /\ \E r \in {GlobalRound(s)} :
       /\ s' = r
       /\ phase' = IF r.panic # "" THEN "crashed" ELSE IF r.moved THEN "global" ELSE "done"
  /\ UNCHANGED pending

Stopped == phase \in {"done", "crashed"} /\ UNCHANGED vars

Next == StartFunction \/ BeginRound \/ (\E e \in pending : Visit(e)) \/ EndRound \/ Finish \/ VisitGlobal \/ Stopped

Spec == Init /\ [][Next]_vars
=============================================================================
