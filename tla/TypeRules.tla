----------------------------- MODULE TypeRules -----------------------------
(***************************************************************************)
(* What the type solver computes with (hir_solve): types and what a call   *)
(* substitutes into them (substitution.rs, monomorphize.rs, and the        *)
(* predicates of hir/src/ty.rs), and the ranges of values it carries       *)
(* through arithmetic (bounds.rs).  Interned types are equal when their    *)
(* structure is, whatever their spans, so a type is its structure.         *)
(*                                                                         *)
(* The widths of the integer types are a parameter: every bound of the     *)
(* code is a function of them, and TLC enumerates the values of narrow     *)
(* ones.  The evaluator is outside: a length or a bound that it could not  *)
(* compute is an empty sequence.                                           *)
(***************************************************************************)
EXTENDS Integers, Sequences, FiniteSets, Functions

CONSTANTS Width    \* the number of bits of each integer type

Signed == {"i8", "i16", "i32", "i64", "i128"}
Unsigned == {"u8", "u16", "u32", "u64", "u128", "usize"}

ASSUME WidthAssumption ==
  /\ Width \in [Signed \cup Unsigned -> Nat \ {0}]
  /\ \A k \in DOMAIN Width : Width[k] <= Width["i128"]
  /\ Width["u128"] = Width["i128"]

(***************************************************************************)
(* Types: a kind, its numbers and its component types.                     *)
(***************************************************************************)
Ty(k, n, on) == [k |-> k, n |-> n, on |-> on]
Prim(k) == Ty(k, << >>, << >>)
NoType == Prim("none")                 \* the answer "it has no type yet"
Param(index, name) == Ty("param", <<index, name>>, << >>)
Refine(base, lo, hi) == Ty("refine", <<lo, hi>>, <<base>>)
Array(element, len) == Ty("array", <<len>>, <<element>>)
Ref(to, exclusive, mutable) == Ty("ref", <<exclusive, mutable>>, <<to>>)
Struct(def) == Ty("struct", <<def>>, << >>)
Fun(ret, params) == Ty("function", << >>, <<ret>> \o params)
Parameterized(base, args) == Ty("parameterized", << >>, <<base>> \o args)

is_inferred(ty) == ty.k \in {"inferred", "inferred_int", "inferred_float"}
is_signed_primitive(ty) == ty.k \in Signed
is_integer_primitive(ty) == ty.k \in Signed \cup Unsigned
is_float_primitive(ty) == ty.k \in {"f32", "f64"}
Sequenced(ty) == ty.k \in {"array", "slice_ref", "slice_ptr"}
Pointing(ty) == ty.k \in {"ref", "ptr", "slice_ref", "slice_ptr"}

\* the type under a refinement
Base(ty) == IF ty.k = "refine" THEN ty.on[1] ELSE ty

(***************************************************************************)
(* Generic parameters.  A parameter that the source names gets the index   *)
(* 0, whatever its place in the list (create_generic_placeholder).         *)
(***************************************************************************)
create_generic_placeholder(name) == Param(0, name)

Structural == {"array", "tuple", "ref", "ptr", "slice_ref", "slice_ptr", "refine", "function", "parameterized"}

RECURSIVE ParamsIn(_)
ParamsIn(ty) == IF ty.k = "param" THEN {<<ty.n[1], ty.n[2]>>}
                ELSE IF ty.k \in Structural THEN UNION {ParamsIn(ty.on[i]) : i \in DOMAIN ty.on}
                ELSE {}

type_contains_any_generic_param(ty) == ParamsIn(ty) # {}
type_contains_generic_param_name(ty, name) == \E p \in ParamsIn(ty) : p[2] = name
collect_generic_params_from_type(ty) == ParamsIn(ty)

\* what inference has bound: generic parameters by index, placeholders by number
Unbound == [generic |-> << >>, inferred |-> << >>]
Extended(f, key, ty) == [x \in DOMAIN f \cup {key} |-> IF x \in DOMAIN f THEN f[x] ELSE ty]
Bind(subst, ty, to) ==
  IF ty.k = "param" THEN [subst EXCEPT !.generic = Extended(@, ty.n[1], to)]
  ELSE [subst EXCEPT !.inferred = Extended(@, ty.n[1], to)]

\* unify_types_with_subst: match an argument's type against a parameter's
RECURSIVE unify_types_with_subst(_, _, _)
RECURSIVE UnifyParts(_, _, _, _)
UnifyParts(args, params, i, subst) ==
  IF i > Len(args) \/ i > Len(params) THEN subst
  ELSE UnifyParts(args, params, i + 1, unify_types_with_subst(args[i], params[i], subst))

unify_types_with_subst(arg, param, subst) ==
  IF param.k \in {"param", "inferred"} THEN Bind(subst, param, arg)
  ELSE IF arg.k = param.k /\ arg.k \in Structural \ {"refine"} THEN UnifyParts(arg.on, param.on, 1, subst)
  ELSE IF arg.k = "param" THEN Bind(subst, arg, param)
  ELSE subst

\* Substitution::apply
Substituted == Structural \cup {"unresolved_array", "unresolved_refine"}
RECURSIVE apply(_, _)
apply(subst, ty) ==
  CASE ty.k = "param" /\ ty.n[1] \in DOMAIN subst.generic -> subst.generic[ty.n[1]]
    [] ty.k = "inferred" /\ ty.n[1] \in DOMAIN subst.inferred -> subst.inferred[ty.n[1]]
    [] ty.k = "alias" -> apply(subst, ty.on[1])
    [] ty.k \in Substituted -> [ty EXCEPT !.on = [i \in DOMAIN ty.on |-> apply(subst, ty.on[i])]]
    [] OTHER -> ty

\* the types are left out of the key
mutant_key_without_types(id, subst) == <<id, << >>>>

\* MonoCacheKey: a hash of the template and of the types bound to its generic
\* parameters, in the order of their indices; taken to be free of collisions
mono_cache_key(id, subst) == <<id, subst.generic>>

\* resolve_type_impl: lengths and bounds that the evaluator computed; nothing
\* is resolved inside a refinement or an alias
RECURSIVE resolve_type(_)
resolve_type(ty) ==
  LET resolved == [ty EXCEPT !.on = [i \in DOMAIN ty.on |-> resolve_type(ty.on[i])]]
  IN  CASE ty.k \in {"unresolved_array", "unresolved_refine"} /\ ty.n = << >> -> ty
        [] ty.k = "unresolved_array"  -> [resolved EXCEPT !.k = "array"]
        [] ty.k = "unresolved_refine" -> [resolved EXCEPT !.k = "refine"]
        [] ty.k \in Structural \ {"refine"} -> resolved
        [] OTHER -> ty

(***************************************************************************)
(* Bounds: the lowest value as an i128 and the highest as a u128.          *)
(***************************************************************************)
W == Width["i128"]
IMax == 2^(W - 1) - 1
IMin == -(2^(W - 1))
UMax == 2^W - 1

Least(S) == CHOOSE x \in S : \A y \in S : x <= y
Greatest(S) == CHOOSE x \in S : \A y \in S : x >= y
Higher(a, b) == Greatest({a, b})
Lower(a, b) == Least({a, b})
SatI(x) == Higher(IMin, Lower(IMax, x))          \* saturating i128 arithmetic
SatU(x) == Lower(UMax, x)                        \* saturating u128 arithmetic
AsU(x) == x % (UMax + 1)                         \* i128 as u128
AsI(x) == IF x > IMax THEN x - (UMax + 1) ELSE x \* u128 as i128
Abs(x) == IF x < 0 THEN -x ELSE x
Sign(x) == IF x < 0 THEN -1 ELSE 1
Quotient(a, b) == Sign(a) * Sign(b) * (Abs(a) \div Abs(b))
Remainder(a, b) == a - b * Quotient(a, b)

NoBounds == [lo |-> 1, hi |-> -1]
Bounds(lo, hi) == [lo |-> lo, hi |-> hi]
FullRange == Bounds(IMin, IMax)

numeric_bounds_for_type(ty) ==
  IF is_signed_primitive(ty) THEN Bounds(-(2^(Width[ty.k] - 1)), 2^(Width[ty.k] - 1) - 1)
  ELSE IF is_integer_primitive(ty) THEN Bounds(0, 2^Width[ty.k] - 1)
  ELSE NoBounds

\* a negative upper bound has no u128 value, so a refinement below zero has no bounds
extract_bounds_from_type(ty) ==
  IF ty.k # "refine" THEN numeric_bounds_for_type(ty)
  ELSE IF ty.n[2] < 0 THEN NoBounds ELSE Bounds(Lower(ty.n[1], IMax), ty.n[2])

\* next_all_ones: every bit below the highest one set
next_all_ones(v) == Least({2^b - 1 : b \in {c \in 0 .. W : v <= 2^c - 1}})

Divided(l, r) == SatI(Quotient(l, r))
compute_div_bounds(ls, rmin, rmax) ==
  LET by == IF rmin > 0 \/ rmax < 0 THEN {rmin, rmax}
            ELSE (IF rmax > 0 THEN {1, rmax} ELSE {}) \cup (IF rmin < 0 THEN {rmin, -1} ELSE {})
      results == IF by = {} THEN {IMin, IMax} ELSE {Divided(l, r) : l \in ls, r \in by}
  IN  Bounds(Least(results), AsU(Greatest(results)))

compute_mod_bounds(lmin, lmax, rmin, rmax) ==
  LET most == SatI(Higher(Abs(rmin), Abs(rmax))) - 1
  IN  IF rmin <= 0 /\ rmax >= 0 THEN FullRange
      ELSE Bounds(IF lmin >= 0 THEN 0 ELSE -most, IF lmin < 0 /\ lmax <= 0 THEN 0 ELSE most)

compute_mul_bounds(left, right, ls, rs) ==
  LET signed == {SatI(l * r) : l \in ls, r \in rs}
      unsigned == {SatU(l * r) : l \in {left.lo, left.hi}, r \in {right.lo, right.hi}}
  IN  IF left.lo >= 0 /\ right.lo >= 0 THEN Bounds(Lower(Least(unsigned), IMax), Greatest(unsigned))
      ELSE Bounds(Least(signed), Higher(AsU(Greatest(signed)), Higher(Least(signed), 0)))

compute_shift_bounds(left, right) ==
  IF left.lo < 0 \/ right.lo < 0 THEN FullRange
  ELSE Bounds(left.lo \div 2^Lower(right.hi, W - 1), IF right.lo >= W THEN 0 ELSE left.hi \div 2^right.lo)

Arithmetic == {"add", "sub", "mul", "div", "mod", "and", "or", "xor", "shl", "shr", "rol", "ror"}
Comparison == {"lt", "gt", "lte", "gte", "eq", "ne", "logic_and", "logic_or"}

compute_binary_bounds(op, left, right) ==
  LET lmax == Lower(left.hi, IMax)
      rmax == Lower(right.hi, IMax)
      natural == left.lo >= 0 /\ right.lo >= 0
      most == Higher(left.hi, right.hi)
      either == Lower(left.lo, right.lo)
  IN  CASE op = "add" -> Bounds(SatI(left.lo + right.lo), SatU(left.hi + right.hi))
        [] op = "sub" -> Bounds(SatI(left.lo - rmax),
                                IF natural THEN Higher(left.hi - right.lo, 0) ELSE Higher(SatI(lmax - right.lo), 0))
        [] op = "mul" -> compute_mul_bounds(left, right, {left.lo, lmax}, {right.lo, rmax})
        [] op = "div" -> compute_div_bounds({left.lo, lmax}, right.lo, rmax)
        [] op = "mod" -> compute_mod_bounds(left.lo, lmax, right.lo, rmax)
        [] op = "and" -> IF natural THEN Bounds(0, Lower(left.hi, right.hi)) ELSE Bounds(either, most)
        [] op = "or"  -> Bounds(IF natural THEN Higher(left.lo, right.lo) ELSE either, next_all_ones(most))
        [] op = "xor" -> Bounds(IF natural THEN 0 ELSE either, next_all_ones(most))
        [] op \in {"shl", "rol"} -> FullRange
        [] op \in {"shr", "ror"} -> compute_shift_bounds(left, right)
        [] OTHER -> NoBounds

compute_unary_bounds(op, b) ==
  LET hi == Lower(b.hi, IMax)
  IN  CASE op = "plus" -> b
        [] op = "neg" -> Bounds(IF b.lo >= 0 /\ b.hi > IMax THEN IMin ELSE -hi, AsU(SatI(-b.lo)))
        [] op = "not" /\ b.lo >= 0 -> Bounds(AsI(UMax - b.hi), UMax - b.lo)
        [] op = "not" -> Bounds(-hi - 1, AsU(-b.lo - 1))

check_bounds_against_constraint(b, ty) ==
  LET target == extract_bounds_from_type(ty)
  IN  ty.k = "refine" => /\ target # NoBounds
                         /\ target.lo <= b.lo /\ b.hi <= target.hi

check_literal_against_refinement(value, ty) ==
  ty.k = "refine" => IF ty.n[2] >= 0 THEN value <= ty.n[2] /\ (value <= IMax => value >= ty.n[1])
                     ELSE value <= IMax /\ value >= ty.n[1] /\ value <= ty.n[2]
=============================================================================
