------------------------------ MODULE FrontEnd ------------------------------
(***************************************************************************)
(* The front end on every source that fills a template with up to a number *)
(* of pieces: the source is parsed and, when nothing was reported, its     *)
(* names are resolved.  A source grows by a piece at a time, and every     *)
(* prefix of one, with the end of the template after it, is a source: most *)
(* are not programs, which is what the recovery from errors is for.        *)
(***************************************************************************)
EXTENDS Printer, Resolver

(***************************************************************************)
(* The node types of the syntax tree (tree/src/expr.rs, item.rs, ty.rs):   *)
(* for each kind of node, the kinds each child may have, and the kinds of  *)
(* the further children, as many as there are, of a node with a list.      *)
(***************************************************************************)
Fixed(children) == [first |-> children, rest |-> {}]
ListOf(first, rest) == [first |-> first, rest |-> rest]

Word == {"leaf"}
Maybe(kinds) == kinds \cup {"absent"}

Exprs == {"Parentheses", "Literal", "Boolean", "TypeInfo", "List", "Tuple", "StructInit", "Unary", "Bin", "Range",
          "Cast", "Block", "Closure", "ExprPath", "IndexAccess", "FieldAccess", "If", "While", "Break", "Continue",
          "Return", "For", "Await", "FunctionCall", "MethodCall"}
Types == {"Primitive", "TypePath", "RefinementType", "TupleType", "ArrayType", "SliceType", "FunctionType",
          "ReferenceType", "PointerType", "TypePotential", "Lifetime", "TypeParentheses"}
UseTrees == {"UseSingle", "UseAlias", "UseAll", "UseGroup"}
ItemKinds == {"Module", "Import", "TypeAlias", "Struct", "Enum", "Trait", "Impl", "Function", "GlobalVariable"}
BlockItems == Exprs \cup {"LocalVariable", "Stmt"}
Attrs == {"Attributes"}

AggregateShape(k) ==
  CASE k = "TypeAlias"      -> Fixed(<< Attrs, Word, Maybe({"Generics"}), Maybe(Types) >>)
    [] k = "StructField"    -> Fixed(<< Maybe(Word), Attrs, Word, Types, Maybe(Exprs) >>)
    [] k = "Struct"         -> Fixed(<< Attrs, Word, Maybe({"Generics"}), {"Fields"} >>)
    [] k = "Fields"         -> ListOf(<< >>, {"StructField"})
    [] k = "EnumVariant"    -> Fixed(<< Attrs, Word, Maybe(Types), Maybe(Exprs) >>)
    [] k = "Enum"           -> Fixed(<< Attrs, Word, Maybe({"Generics"}), {"Variants"} >>)
    [] k = "Variants"       -> ListOf(<< >>, {"EnumVariant"})
    [] k = "Item"           -> Fixed(<< Maybe(Word), Maybe(Word), ItemKinds >>)

FunctionShape(k) ==
  CASE k = "Trait"          -> Fixed(<< Attrs, Word, Maybe({"Generics"}), {"Items"} >>)
    [] k = "Impl"           -> Fixed(<< Maybe({"Generics"}), Maybe({"TypePath"}), Types, {"Items"} >>)
    [] k = "FuncParam"      -> Fixed(<< Attrs, Maybe(Word), Word, Types, Maybe(Exprs) >>)
    [] k = "Params"         -> ListOf(<< >>, {"FuncParam", "FuncTypeParam", "leaf"})
    [] k = "Function"       -> Fixed(<< Attrs, Word, Maybe({"Generics"}), {"Params"}, Maybe(Types), Maybe({"Block"}) >>)
    [] k = "GlobalVariable" -> Fixed(<< Word, Attrs, Maybe(Word), Word, Maybe(Types), Maybe(Exprs) >>)
    [] OTHER                -> AggregateShape(k)

ModuleShape(k) ==
  CASE k = "Module"         -> Fixed(<< Attrs, Word, {"Items"} >>)
    [] k = "Items"          -> ListOf(<< >>, {"Item"})
    [] k = "ItemPath"       -> ListOf(<< Word >>, Word)
    [] k \in {"UseSingle", "UseAll"} -> Fixed(<< {"ItemPath"} >>)
    [] k = "UseAlias"       -> Fixed(<< {"ItemPath"}, Word >>)
    [] k = "UseGroup"       -> ListOf(<< {"ItemPath"} >>, UseTrees)
    [] k = "Import"         -> Fixed(<< Attrs, UseTrees >>)
    [] k = "TypeParam"      -> Fixed(<< Word, Maybe(Types) >>)
    [] k = "Generics"       -> ListOf(<< >>, {"TypeParam"})
    [] OTHER                -> FunctionShape(k)

PointerShape(k) ==
  CASE k = "FuncTypeParam"  -> Fixed(<< Attrs, Word, Types >>)
    [] k = "FunctionType"   -> Fixed(<< Attrs, {"Params"}, Maybe(Types) >>)
    [] k = "Lifetime"       -> Fixed(<< Word >>)
    [] k \in {"ReferenceType", "PointerType"} -> Fixed(<< Maybe({"Lifetime"}), Maybe(Word), Maybe(Word), Types >>)
    [] k = "TypePotential"  -> Fixed(<< {"Block"} >>)
    [] k = "TypeParentheses" -> Fixed(<< Types >>)
    [] OTHER                -> ModuleShape(k)

TypeShape(k) ==
  CASE k = "Primitive"      -> Fixed(<< Word >>)
    [] k = "Segment"        -> Fixed(<< Maybe(Word), Maybe({"Arguments"}) >>)
    [] k = "TypePath"       -> ListOf(<< {"Segment"} >>, {"Segment"})
    [] k = "RefinementType" -> Fixed(<< Types, Maybe(Exprs), Maybe(Exprs), Maybe(Exprs) >>)
    [] k = "TupleType"      -> ListOf(<< >>, Types)
    [] k = "ArrayType"      -> Fixed(<< Types, Exprs >>)
    [] k = "SliceType"      -> Fixed(<< Types >>)
    [] OTHER                -> PointerShape(k)

ControlShape(k) ==
  CASE k = "If"             -> Fixed(<< Exprs, {"Block"}, Maybe({"If", "Block"}) >>)
    [] k = "While"          -> Fixed(<< Maybe(Exprs), {"Block"} >>)
    [] k \in {"Break", "Continue"} -> Fixed(<< Maybe(Word) >>)
    [] k = "Return"         -> Fixed(<< Maybe(Exprs) >>)
    [] k = "For"            -> Fixed(<< Attrs, {"Bindings"}, Exprs, {"Block"} >>)
    [] k = "Bindings"       -> ListOf(<< >>, Word)
    [] k = "Await"          -> Fixed(<< Exprs >>)
    [] OTHER                -> TypeShape(k)

CallShape(k) ==
  CASE k = "FunctionCall"   -> Fixed(<< Exprs, {"CallArguments"} >>)
    [] k = "MethodCall"     -> Fixed(<< Exprs, Word, {"CallArguments"} >>)
    [] k = "CallArguments"  -> ListOf(<< >>, {"Argument"})
    [] k = "Argument"       -> Fixed(<< Maybe(Word), Exprs >>)
    [] OTHER                -> ControlShape(k)

PathShape(k) ==
  CASE k = "Block"          -> ListOf(<< Maybe({"leaf", "Unsafe"}) >>, BlockItems)
    [] k = "Unsafe"         -> Fixed(<< Word, Maybe(Exprs) >>)
    [] k = "Closure"        -> Fixed(<< Attrs, Maybe({"Params"}), Maybe(Types), {"Block"} >>)
    [] k = "TypeArgument"   -> Fixed(<< Maybe(Word), Types >>)
    [] k = "Arguments"      -> ListOf(<< >>, {"TypeArgument"})
    [] k = "ExprSegment"    -> Fixed(<< Maybe(Word), Maybe({"Arguments"}) >>)
    [] k = "ExprPath"       -> ListOf(<< {"ExprSegment"} >>, {"ExprSegment"})
    [] k = "IndexAccess"    -> Fixed(<< Exprs, Exprs >>)
    [] k = "FieldAccess"    -> Fixed(<< Exprs, Word >>)
    [] OTHER                -> CallShape(k)

OperatorShape(k) ==
  CASE k = "Unary"          -> Fixed(<< Word, Exprs >>)
    [] k = "Bin"            -> Fixed(<< Exprs, {"Op"}, Exprs >>)
    [] k = "Op"             -> ListOf(<< Word >>, Word)
    [] k = "Range"          -> Fixed(<< Maybe(Exprs), Word, Maybe(Exprs) >>)
    [] k = "Cast"           -> Fixed(<< Exprs, Types >>)
    [] k = "LocalVariable"  -> Fixed(<< Word, Attrs, Maybe(Word), Word, Maybe(Types), Maybe(Exprs) >>)
    [] k = "Stmt"           -> Fixed(<< Exprs >>)
    [] OTHER                -> PathShape(k)

LiteralShape(k) ==
  CASE k \in {"Literal", "Boolean"} -> Fixed(<< Word >>)
    [] k = "Parentheses"    -> Fixed(<< Exprs >>)
    [] k = "TypeInfo"       -> Fixed(<< Types >>)
    [] k \in {"List", "Tuple", "Attributes"} -> ListOf(<< >>, Exprs)
    [] k = "StructInit"     -> ListOf(<< {"ExprPath"} >>, {"FieldInit"})
    [] k = "FieldInit"      -> Fixed(<< Word, Exprs >>)
    [] OTHER                -> OperatorShape(k)

\* Every child of every node below t has a kind its node allows there.
RECURSIVE WellFormed(_)
WellFormed(t) ==
  \/ t.kind \in {"leaf", "absent"}
  \/ \E shape \in {LiteralShape(t.kind)} :
       /\ IF shape.rest = {} THEN Len(t.sub) = Len(shape.first) ELSE Len(t.sub) >= Len(shape.first)
       /\ \A n \in DOMAIN t.sub : t.sub[n].kind \in IF n <= Len(shape.first) THEN shape.first[n] ELSE shape.rest
       /\ \A n \in DOMAIN t.sub : WellFormed(t.sub[n])

-----------------------------------------------------------------------------
(* Sources and their results.                                              *)
CONSTANTS
  Templates     \* name -> before and after (tokens), pieces, and a bound on their number

VARIABLES
  template,
  filling,      \* the pieces
  result        \* of parse_source

vars == << template, filling, result >>

SourceOf(t, pieces) == Templates[t].before \o FlattenSeq(pieces) \o Templates[t].after
Source == SourceOf(template, filling)

Init ==
  /\ template \in DOMAIN Templates
  /\ filling = << >>
  /\ result = parse_source(SourceOf(template, << >>))

Grow ==
  /\ Len(filling) < Templates[template].bound
  /\ \E piece \in Templates[template].pieces :
       \E source \in {SourceOf(template, Append(filling, piece))} :
         /\ filling' = Append(filling, piece)
         /\ result' = parse_source(source)
         /\ UNCHANGED template

Spec == Init /\ [][Grow]_vars

-----------------------------------------------------------------------------
(* Parts of a tree.                                                        *)

RECURSIVE LeavesOf(_)
LeavesOf(t) ==
  IF t.kind = "leaf" THEN LeafTokens(t.tok) ELSE FlattenSeq([n \in 1 .. Len(t.sub) |-> LeavesOf(t.sub[n])])
Leaves == FlattenSeq([n \in 1 .. Len(result.out) |-> LeavesOf(result.out[n])])

(***************************************************************************)
(* Properties.                                                             *)
(***************************************************************************)
\* Whatever the source, each round of each loop of the parser consumes a token,
\* so that parsing ends (parse.rs:77-80, helper.rs:172-187, expr.rs:1423-1440).
NeverStuck == result.fault # "stuck"

\* Of an accepted source, every node is of a type the tree allows where it stands:
\* no name is missing and no SyntaxError is left that nobody reported
\* (tree/src/expr.rs:725-757, item.rs:449-462, ty.rs:290-318).
NoHoles == Accepted(result) => \A n \in DOMAIN result.out : result.out[n].kind = "Item" /\ WellFormed(result.out[n])

\* Words that say something by themselves: when nothing is reported, they are all
\* in the tree, in the order of the source.  `self' as a parameter stands for a
\* parameter with a type, and a template names the words its syntax consumes.
Telling(word) == word \in Names \cup Literals \cup PrimitiveTypes \cup Templates[template].telling
NothingLost ==
  Accepted(result) =>
    SelectSeq(Leaves, Telling) = SelectSeq(Source, Telling)

\* The levels of docs/PARSER.md:122-134, from the loosest.
Levels ==
  << {<< "=" >>, << "+", "=" >>, << "-", "=" >>, << "*", "=" >>, << "|", "=" >>, << "&", "&", "=" >>, << "<", "<", "=" >>},
     {<< ".." >>, << "..=" >>},
     {<< "|", "|" >>}, {<< "&", "&" >>},
     {<< "=", "=" >>, << "<" >>, << ">" >>, << "<", "=" >>, << ">", "=" >>},
     {<< "|" >>}, {<< "^" >>}, {<< "&" >>},
     {<< "<", "<" >>, << ">", ">" >>, << "<", "<", "<" >>},
     {<< "+" >>, << "-" >>},
     {<< "*" >>, << "/" >>, << "%" >>} >>
LevelOf(op) == CHOOSE n \in DOMAIN Levels : op \in Levels[n]

Infix(t) == t.kind = "Bin" \/ (t.kind = "Range" /\ Present(t.sub[1]))
\* A range without an end takes no operator after it as part of itself.
Complete(t) == Infix(t) /\ Present(t.sub[3])
OpTokens(t) == IF t.kind = "Bin" THEN [n \in DOMAIN t.sub[2].sub |-> t.sub[2].sub[n].tok] ELSE << t.sub[2].tok >>
Level(t) == LevelOf(OpTokens(t))

\* An operand of an operator binds tighter than it; one at the same level stands on
\* the left, or for assignments on the right.  With NothingLost this determines the
\* tree of an expression (expr.rs:552-730, docs/PARSER.md:122-134).
RECURSIVE Ranked(_)
Ranked(t) ==
  /\ Infix(t) =>
       /\ Complete(t.sub[1]) => (Level(t.sub[1]) > Level(t) \/ (Level(t.sub[1]) = Level(t) /\ Level(t) # 1))
       /\ Infix(t.sub[3]) => (Level(t.sub[3]) > Level(t) \/ (Level(t.sub[3]) = Level(t) /\ Level(t) = 1))
  /\ \A n \in DOMAIN t.sub : Ranked(t.sub[n])
BindsAsRanked == Accepted(result) => \A n \in DOMAIN result.out : Ranked(result.out[n])

\* What the printer does not write as it was: a jump without its semicolon, a
\* literal with a suffix under a prefix operator, which is printed as a cast of
\* the whole, a closure without anything before its body, a parameter `self', which
\* gets a type, and the ABI of a function.
RECURSIVE Printable(_)
Printable(t) ==
  /\ t.kind \notin {"Break", "Continue", "Return"}
  /\ ~(t.kind = "Unary" /\ t.sub[2].kind = "Cast")
  /\ ~(t.kind = "Closure" /\ \A n \in 1 .. 3 : ~Present(t.sub[n]))
  /\ ~(t.kind = "FuncParam" /\ t.sub[3].tok = "self")
  /\ ~(t.kind = "Item" /\ t.sub[3].kind = "Function" /\ Present(t.sub[2]))
  /\ \A n \in DOMAIN t.sub : Printable(t.sub[n])

\* The printed form of an accepted source is accepted and has the same tree: the
\* printer and the parser agree on every construct (pretty_print.rs, expr.rs,
\* ty.rs, item.rs).
PrintsBack ==
  (Accepted(result) /\ \A n \in DOMAIN result.out : Printable(result.out[n])) =>
    \E printed \in {PrintItems(result.out)} :
      LET again == parse_source(printed) IN Accepted(again) /\ again.out = result.out

RECURSIVE PathsIn(_)
PathsIn(t) ==
  IF t.kind = "Attributes" THEN {}
  ELSE (IF t.kind \in {"ExprPath", "TypePath"} THEN {t} ELSE {}) \cup UNION {PathsIn(t.sub[n]) : n \in DOMAIN t.sub}

\* After resolution every path in the tree of an accepted source names a symbol or
\* has been reported; only a path from the root can be left without either
\* (resolve_path.rs:27-55, 84-112).
EveryPathAnswered ==
  Accepted(result) =>
    LET module == SourceModule("package", result.out)
        answers == resolve_paths(module, << >>, discover_symbols(module, << >>))
    IN \A path \in PathsIn(module) :
         /\ \E a \in answers : a.path = path
         /\ \A a \in answers : a.path = path => Root(path) \/ (a.reported <=> a.to = Unresolved)
=============================================================================
