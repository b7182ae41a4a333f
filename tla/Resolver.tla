------------------------------ MODULE Resolver ------------------------------
(***************************************************************************)
(* Name resolution inside one module tree (tree_resolve): the symbols the  *)
(* tree declares under their qualified names, and the symbol each path     *)
(* names.  A qualified name is the sequence of its segments.               *)
(*                                                                         *)
(* The code keeps the scope on a stack that it pushes when the walk enters *)
(* a node and pops when it leaves it; here the scope is an argument.       *)
(***************************************************************************)
EXTENDS Parser

(***************************************************************************)
(* The depth-first walk of the tree (tree/src/*_iter.rs), which discovery  *)
(* and resolution are written over: for each kind of node, which of its    *)
(* children the walk goes into, in their order.  A node that the walk does *)
(* not announce (a list, a segment, an argument) only passes it on to its  *)
(* children.  The walk over mutable nodes has the same text.               *)
(***************************************************************************)
ItemVisits(t) ==
  CASE t.kind = "Item"                                            -> << 3 >>
    [] t.kind = "Import"                                          -> << 1 >>
    [] t.kind = "TypeParam"                                       -> << 2 >>
    [] t.kind = "Module"                                          -> << 1, 3 >>
    [] t.kind \in {"TypeAlias", "Struct", "Enum", "EnumVariant"}  -> << 1, 3, 4 >>
    [] t.kind \in {"StructField", "GlobalVariable"}               -> IF t.kind = "StructField" THEN << 2, 4, 5 >>
                                                                                               ELSE << 2, 5, 6 >>
    [] OTHER                                                      -> [n \in 1 .. Len(t.sub) |-> n]

\* Methods, constants and types of a trait or an implementation, and functions.
AssociatedVisits(t) ==
  CASE t.kind = "Trait"     -> << 1, 3, 4 >>
    [] t.kind = "Impl"      -> << 1, 2, 3, 4 >>
    [] t.kind = "FuncParam" -> << 1, 4, 5 >>
    [] t.kind = "Function"  -> << 1, 3, 4, 5, 6 >>
    [] OTHER                -> ItemVisits(t)

\* The lifetime of a pointer is not visited, that of a reference is.
TypeVisits(t) ==
  CASE t.kind = "ReferenceType" -> << 1, 4 >>
    [] t.kind = "PointerType"   -> << 4 >>
    [] t.kind = "FuncTypeParam" -> << 1, 3 >>
    [] t.kind = "FunctionType"  -> << 1, 2, 3 >>
    [] t.kind \in {"Primitive", "Lifetime"} -> << >>
    [] OTHER                    -> AssociatedVisits(t)

PathVisits(t) ==
  CASE t.kind \in {"ExprSegment", "Segment", "TypeArgument", "Argument"} -> << 2 >>
    [] t.kind = "Closure"     -> << 1, 2, 3, 4 >>
    [] t.kind = "For"         -> << 1, 3, 4 >>
    [] t.kind \in {"Break", "Continue"} -> << >>
    [] t.kind = "FieldAccess" -> << 1 >>
    [] t.kind = "MethodCall"  -> << 1, 3 >>
    [] OTHER                  -> TypeVisits(t)

ExprVisits(t) ==
  CASE t.kind \in {"Literal", "Boolean"} -> << >>
    [] t.kind = "FieldInit"     -> << 2 >>
    [] t.kind = "Unary"         -> << 2 >>
    [] t.kind \in {"Bin", "Range"} -> << 1, 3 >>
    [] t.kind = "LocalVariable" -> << 2, 5, 6 >>
    [] t.kind = "Unsafe"        -> << 2 >>
    [] OTHER                    -> PathVisits(t)

\* Mutant: the arguments of a call are not visited.
mutant_skips_arguments(t) ==
  IF t.kind = "Argument" THEN << >> ELSE LET ks == ExprVisits(t) IN [n \in 1 .. Len(ks) |-> t.sub[ks[n]]]
Visited(t) == LET ks == ExprVisits(t) IN [n \in 1 .. Len(ks) |-> t.sub[ks[n]]]

(***************************************************************************)
(* Scopes and symbols.                                                     *)
(***************************************************************************)
NameOf(t) ==
  CASE t.kind \in {"LocalVariable", "GlobalVariable"} -> t.sub[4].tok
    [] t.kind = "FuncParam"                           -> t.sub[3].tok
    [] OTHER                                          -> t.sub[2].tok

Kinds == {"TypeAlias", "Struct", "Enum", "EnumVariant", "Trait", "Function", "FuncParam", "GlobalVariable", "LocalVariable"}
GenericOwners == {"Struct", "Enum", "Trait", "Function"}

PathNames(path) == [n \in 1 .. Len(path.sub) |-> path.sub[n].sub[1].tok]

\* What a node adds to the scope of its children: its name, or the path of the
\* type that an implementation is for.
scope_add(t) ==
  CASE t.kind \in {"TypeAlias", "Struct", "Enum", "Trait", "Function", "Module"} -> << NameOf(t) >>
    [] t.kind = "Impl" /\ t.sub[3].kind = "TypePath" -> PathNames(t.sub[3])
    [] OTHER -> << >>

\* The parameters of a generic item, under the item's name.
enumerate_generics(t, scope) ==
  LET generics == t.sub[3].sub
  IN {[name |-> scope \o << NameOf(t), generics[n].sub[1].tok >>, kind |-> "GenericParameter"] : n \in DOMAIN generics}

RECURSIVE discover_symbols(_, _)
discover_symbols(t, scope) ==
  LET own == IF t.kind \in Kinds THEN {[name |-> Append(scope, NameOf(t)), kind |-> t.kind]} ELSE {}
      generics == IF t.kind \in GenericOwners THEN enumerate_generics(t, scope) ELSE {}
      visited == Visited(t)
  IN own \cup generics \cup UNION {discover_symbols(visited[n], scope \o scope_add(t)) : n \in DOMAIN visited}

Root(path) == Head(PathNames(path)) = ""      \* `::name'

Unresolved == << >>
\* The innermost enclosing scope in which the path is the name of a symbol; a path
\* from the root is looked up as it stands.
resolve_path(path, scope, symbols) ==
  LET names == PathNames(path)
      At_(i) == SubSeq(scope, 1, i) \o names
      Found == {i \in 1 .. Len(scope) : \E s \in symbols : s.name = At_(i)}
  IN CASE Root(path) -> IF \E s \in symbols : s.name = names THEN names ELSE Unresolved
       [] ~Root(path) /\ path.kind = "TypePath" /\ names \in {<< "Self" >>, << "self" >>} -> << "Self" >>
       [] OTHER -> IF Found = {} THEN Unresolved ELSE At_(CHOOSE i \in Found : \A j \in Found : j <= i)

\* The paths the second walk comes to, with what it makes of each; attribute lists
\* are passed over, and a failed path is reported unless it starts at the root.
RECURSIVE resolve_paths(_, _, _)
resolve_paths(t, scope, symbols) ==
  LET visited == Visited(t)
      to == resolve_path(t, scope, symbols)
      own == IF t.kind \in {"ExprPath", "TypePath"}
             THEN {[path |-> t, scope |-> scope, to |-> to, reported |-> to = Unresolved /\ ~Root(t)]} ELSE {}
  IN IF t.kind = "Attributes" THEN {}
     ELSE own \cup UNION {resolve_paths(visited[n], scope \o scope_add(t), symbols) : n \in DOMAIN visited}

\* A source is the module of its package.
SourceModule(package, items) ==
  Tree("Module", << Tree("Attributes", << >>), Leaf(package), Tree("Items", items) >>)
=============================================================================
