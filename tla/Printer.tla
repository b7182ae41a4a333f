------------------------------ MODULE Printer ------------------------------
(***************************************************************************)
(* The printer of syntax trees (pretty_print.rs), as the tokens it writes: *)
(* white space and indentation are left out.  Each kind of node has a      *)
(* layout: the words, children and lists it writes, in their order.        *)
(***************************************************************************)
EXTENDS Parser

Words(ts) == [part |-> "words", ts |-> ts]
Child(k) == [part |-> "child", k |-> k]
\* A child that may be absent, with the words before and after it.
OptChild(pre, k, post) == [part |-> "optional", pre |-> pre, k |-> k, post |-> post]
\* The children from k, separated by a word or each followed by one.
Joined(k, sep) == [part |-> "joined", k |-> k, sep |-> sep]
Each(k, after) == [part |-> "each", k |-> k, after |-> after]

Pathed == [part |-> "path", k |-> 1]

Present(t) == t.kind # "absent" /\ ~(t.kind = "Attributes" /\ t.sub = << >>)

Bracketed(open, part, close) == << Words(<< open >>), part, Words(<< close >>) >>

\* Functions and global variables; the ABI, the second child of an item, is not
\* written.
FunctionLayout(t) ==
  CASE t.kind = "FuncParam" ->
         << Child(1), Child(2), Child(3), Words(<< ":" >>), Child(4), OptChild(<< "=" >>, 5, << >>) >>
    [] t.kind = "Function" ->
         << Words(<< "fn" >>), Child(1), Child(2), Child(3), Child(4), OptChild(<< "-", ">" >>, 5, << >>) >>
         \o (IF Present(t.sub[6]) THEN << Child(6) >> ELSE << Words(<< ";" >>) >>)
    [] t.kind = "GlobalVariable" ->
         << Child(1), Child(2), Child(3), Child(4), OptChild(<< ":" >>, 5, << >>), OptChild(<< "=" >>, 6, << >>), Words(<< ";" >>) >>
    [] t.kind = "Item" -> << Child(1), Child(3) >>
    [] OTHER -> << >>       \* syntax errors are unrepresentable

\* Traits and implementations.
ImplLayout(t) ==
  CASE t.kind = "Trait" -> << Words(<< "trait" >>), Each(1, << >>) >>
    [] t.kind = "Impl" -> << Words(<< "impl" >>), Child(1), OptChild(<< "trait" >>, 2, << "for" >>), Child(3), Child(4) >>
    [] OTHER -> FunctionLayout(t)

\* Aliases, structures and enumerations.
AggregateLayout(t) ==
  CASE t.kind = "TypeAlias" ->
         << Words(<< "type" >>), Child(1), Child(2), Child(3), OptChild(<< "=" >>, 4, << >>), Words(<< ";" >>) >>
    [] t.kind = "StructField" ->
         << Child(1), Child(2), Child(3), Words(<< ":" >>), Child(4), OptChild(<< "=" >>, 5, << >>) >>
    [] t.kind = "Struct" -> << Words(<< "struct" >>), Each(1, << >>) >>
    [] t.kind \in {"Fields", "Variants"} -> Bracketed("{", Each(1, << "," >>), "}")
    [] t.kind = "EnumVariant" -> << Child(1), Child(2), OptChild(<< "(" >>, 3, << ")" >>), OptChild(<< "=" >>, 4, << >>) >>
    [] t.kind = "Enum" -> << Words(<< "enum" >>), Each(1, << >>) >>
    [] OTHER -> ImplLayout(t)

\* Modules and imports.
ModuleLayout(t) ==
  CASE t.kind = "Module" -> << Words(<< "mod" >>), Each(1, << >>) >>
    [] t.kind = "Items" -> Bracketed("{", Each(1, << >>), "}")
    [] t.kind = "ItemPath" -> << Pathed >>
    [] t.kind = "UseSingle" -> << Child(1) >>
    [] t.kind = "UseAlias" -> << Child(1), Words(<< "as" >>), Child(2) >>
    [] t.kind = "UseAll" -> << Child(1), Words(<< ":", ":", "*" >>) >>
    [] t.kind = "UseGroup" -> << Child(1), Words(<< ":", ":", "{" >>), Joined(2, ","), Words(<< "}" >>) >>
    [] t.kind = "Import" -> << Words(<< "use" >>), Child(1), Child(2), Words(<< ";" >>) >>
    [] t.kind = "TypeParam" -> << Child(1), OptChild(<< "=" >>, 2, << >>) >>
    [] t.kind = "Generics" -> Bracketed("<", Joined(1, ","), ">")
    [] OTHER -> AggregateLayout(t)

\* Types of functions, references and pointers.
PointerLayout(t) ==
  CASE t.kind = "FuncTypeParam" -> << Child(1), Child(2), Words(<< ":" >>), Child(3) >>
    [] t.kind = "Params" -> Bracketed("(", Joined(1, ","), ")")
    [] t.kind = "FunctionType" -> << Words(<< "fn" >>), Child(1), Child(2), OptChild(<< "-", ">" >>, 3, << >>) >>
    [] t.kind = "ReferenceType" -> << Words(<< "&" >>), Each(1, << >>) >>
    [] t.kind = "PointerType" -> << Words(<< "*" >>), Each(1, << >>) >>
    [] t.kind = "TypePotential" -> << Child(1) >>
    [] t.kind = "Lifetime" -> << Words(<< "'" >>), Child(1) >>
    [] t.kind = "TypeParentheses" -> Bracketed("(", Child(1), ")")
    [] OTHER -> ModuleLayout(t)

\* Mutant: a tuple type of one element is written like a type in parentheses.
mutant_no_trailing_comma(t) == Words(<< >>)
TupleComma(t) == Words(IF Len(t.sub) = 1 THEN << "," >> ELSE << >>)

\* Types.
TypeLayout(t) ==
  CASE t.kind = "Primitive" -> << Child(1) >>
    [] t.kind = "Segment" -> << Child(1), Child(2) >>
    [] t.kind = "TypePath" -> << Pathed >>
    [] t.kind = "RefinementType" ->
         << Child(1), OptChild(<< ":" >>, 2, << >>) >>
         \o (IF Present(t.sub[3]) \/ Present(t.sub[4])
             THEN << Words(<< ":", "[" >>), Child(3), Words(<< ":" >>), Child(4), Words(<< "]" >>) >> ELSE << >>)
    [] t.kind = "TupleType" ->
         << Words(<< "(" >>), Joined(1, ","), TupleComma(t), Words(<< ")" >>) >>
    [] t.kind = "ArrayType" -> << Words(<< "[" >>), Child(1), Words(<< ";" >>), Child(2), Words(<< "]" >>) >>
    [] t.kind = "SliceType" -> Bracketed("[", Child(1), "]")
    [] OTHER -> PointerLayout(t)

\* Calls.
CallLayout(t) ==
  CASE t.kind = "Await" -> << Words(<< "await" >>), Child(1) >>
    [] t.kind = "FunctionCall" -> << Child(1), Child(2) >>
    [] t.kind = "MethodCall" -> << Child(1), Words(<< "." >>), Child(2), Child(3) >>
    [] t.kind = "CallArguments" -> Bracketed("(", Joined(1, ","), ")")
    [] OTHER -> TypeLayout(t)

\* Accesses and control flow.
ControlLayout(t) ==
  CASE t.kind = "IndexAccess" -> << Child(1) >> \o Bracketed("[", Child(2), "]")
    [] t.kind = "FieldAccess" -> << Child(1), Words(<< "." >>), Child(2) >>
    [] t.kind = "If" -> << Words(<< "if" >>), Child(1), Child(2), OptChild(<< "else" >>, 3, << >>) >>
    [] t.kind = "While" -> << Words(<< "while" >>), Child(1), Child(2) >>
    [] t.kind = "Break" -> << Words(<< "break" >>), OptChild(<< "'" >>, 1, << >>) >>
    [] t.kind = "Continue" -> << Words(<< "continue" >>), OptChild(<< "'" >>, 1, << >>) >>
    [] t.kind = "Return" -> << Words(<< "ret" >>), Child(1) >>
    [] t.kind = "For" -> << Words(<< "for" >>), Child(1), Child(2), Words(<< "in" >>), Child(3), Child(4) >>
    [] t.kind = "Bindings" -> IF Len(t.sub) = 1 THEN << Child(1) >> ELSE Bracketed("(", Joined(1, ","), ")")
    [] OTHER -> CallLayout(t)

\* Closures, paths and their arguments.
PathLayout(t) ==
  CASE t.kind = "Closure" ->
         IF Present(t.sub[1]) \/ Present(t.sub[2]) \/ Present(t.sub[3])
         THEN << Words(<< "fn" >>), Child(1), Child(2), OptChild(<< "-", ">" >>, 3, << >>), Child(4) >>
         ELSE << Child(4) >>
    [] t.kind = "Arguments" -> Bracketed("<", Joined(1, ","), ">")
    [] t.kind \in {"Argument", "TypeArgument"} -> << OptChild(<< >>, 1, << ":" >>), Child(2) >>
    [] t.kind = "ExprSegment" -> << Child(1), OptChild(<< ":", ":" >>, 2, << >>) >>
    [] t.kind = "ExprPath" -> << Pathed >>
    [] OTHER -> ControlLayout(t)

\* What a block is made of.
StatementLayout(t) ==
  CASE t.kind = "LocalVariable" ->
         << Child(1), Child(2), Child(3), Child(4), OptChild(<< ":" >>, 5, << >>), OptChild(<< "=" >>, 6, << >>), Words(<< ";" >>) >>
    [] t.kind = "Stmt" -> << Child(1), Words(<< ";" >>) >>
    [] t.kind = "Unsafe" -> << Child(1), OptChild(<< "(" >>, 2, << ")" >>) >>
    [] t.kind = "Block" -> << Child(1) >> \o Bracketed("{", Each(2, << >>), "}")
    [] t.kind = "Attributes" -> IF t.sub = << >> THEN << >> ELSE Bracketed("[", Joined(1, ","), "]")
    [] OTHER -> PathLayout(t)

\* Operators, which write their operands around themselves.
OperatorLayout(t) ==
  CASE t.kind \in {"Op", "Unary", "Bin", "Range"} -> << Each(1, << >>) >>
    [] t.kind = "Cast" -> << Child(1), Words(<< "as" >>), Child(2) >>
    [] OTHER -> StatementLayout(t)

\* Literals, lists and the values of structures.
LiteralLayout(t) ==
  CASE t.kind = "Parentheses" -> Bracketed("(", Child(1), ")")
    [] t.kind \in {"Literal", "Boolean"} -> << Child(1) >>
    [] t.kind = "TypeInfo" -> << Words(<< "type" >>), Child(1) >>
    [] t.kind = "List" -> Bracketed("[", Joined(1, ","), "]")
    [] t.kind = "Tuple" -> Bracketed("(", Each(1, << "," >>), ")")
    [] t.kind = "StructInit" -> << Child(1) >> \o Bracketed("{", Each(2, << "," >>), "}")
    [] t.kind = "FieldInit" -> << Child(1), Words(<< ":" >>), Child(2) >>
    [] OTHER -> OperatorLayout(t)

Layout(t) == LiteralLayout(t)

LeafTokens(t) ==
  CASE t = ".." -> << ".", "." >> [] t = "..=" -> << ".", ".", "=" >> [] t = "..." -> << ".", ".", "." >> [] OTHER -> << t >>

RECURSIVE Print_(_), PrintPart(_, _)
Print_(t) ==
  IF t.kind = "leaf" THEN LeafTokens(t.tok)
  ELSE LET parts == Layout(t) IN FlattenSeq([n \in 1 .. Len(parts) |-> PrintPart(t, parts[n])])

PrintPart(t, part) ==
  LET Rest == [n \in 1 .. Len(t.sub) - part.k + 1 |-> Print_(t.sub[part.k + n - 1])]
      Separated(sep) == FlattenSeq([n \in 1 .. Len(Rest) |-> IF n = 1 THEN Rest[n] ELSE sep \o Rest[n]])
  IN CASE part.part = "words"    -> part.ts
       [] part.part = "child"    -> Print_(t.sub[part.k])
       [] part.part = "optional" -> IF Present(t.sub[part.k]) THEN part.pre \o Print_(t.sub[part.k]) \o part.post ELSE << >>
       [] part.part = "joined"   -> Separated(<< part.sep >>)
       [] part.part = "path"     -> Separated(<< ":", ":" >>)
       [] part.part = "each"     -> FlattenSeq([n \in 1 .. Len(Rest) |-> Rest[n] \o part.after])

\* The items of a module, one after the other.
PrintItems(trees) == FlattenSeq([n \in 1 .. Len(trees) |-> Print_(trees[n])])
=============================================================================
