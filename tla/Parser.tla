------------------------------- MODULE Parser -------------------------------
(***************************************************************************)
(* The recursive-descent parser, from a sequence of tokens to a tree.      *)
(*                                                                         *)
(* A parsing function of the code takes the lexer forward, may report, and *)
(* returns a node.  Here it is a rule: data that says what the function    *)
(* does in its order, from the few things such a function can do to the    *)
(* lexer.  Run(r, s, p) performs rule r on tokens s from p, where p says   *)
(* where the lexer is (i), whether anything was reported (bad), whether a  *)
(* loop went round without consuming a token or an assertion failed        *)
(* (fault, "stuck" or "panic"), and the trees made so far for the node     *)
(* under construction (out).                                               *)
(*                                                                         *)
(* A tree is a record: its kind, the token of a leaf, the children.  Spans *)
(* and the wording of diagnostics are left out, and so is the limit of     *)
(* 65536 elements of a list.                                               *)
(***************************************************************************)
EXTENDS Naturals, Sequences, SequencesExt

\* Representatives of the classes of tokens that carry a value.
Names == {"a", "b", "c", "T"}
PathWords == {"Self", "self", "super", "crate"}
Literals == {"1", "2.5", "str", "bstr"}
PrimitiveTypes == {"bool", "u8", "i32", "f32", "f16"}
Eof == "eof"

At(s, i) == IF i <= Len(s) THEN s[i] ELSE Eof
Named(t) == t \in Names \cup PathWords      \* next_if_name

Leaf(t) == [kind |-> "leaf", tok |-> t, sub |-> << >>]
Tree(k, c) == [kind |-> k, tok |-> "", sub |-> c]
Absent == Tree("absent", << >>)
Wrong == Tree("SyntaxError", << >>)

Start == [i |-> 1, bad |-> FALSE, fault |-> "none", out |-> << >>]
Next_(s, p) == At(s, p.i)
Move(p, n) == [p EXCEPT !.i = @ + n]
Report(p) == [p EXCEPT !.bad = TRUE]
Push(p, t) == [p EXCEPT !.out = Append(@, t)]
Fresh(p) == [p EXCEPT !.out = << >>]
\* q is a run of p with an output of its own: its trees become one child of p's.
Close(p, q, kind) == [q EXCEPT !.out = Append(p.out, Tree(kind, q.out))]
\* The same, the last tree of p being the first child.
Enclose(p, q, kind) ==
  [q EXCEPT !.out = Append(Front(p.out), Tree(kind, << Last(p.out) >> \o q.out))]

-----------------------------------------------------------------------------
(* What a rule can ask for.                                                *)

Skip == [do |-> "skip"]                            \* skip_tok
Keep == [do |-> "keep"]                            \* next_tok, kept as a leaf
Name == [do |-> "name"]                            \* next_if_name, or report
Expect(t) == [do |-> "expect", t |-> t]            \* skip_if, or report
OneOf(ts) == [do |-> "oneof", ts |-> ts]           \* an optional modifier
Nothing == [do |-> "nothing"]
None == [do |-> "none"]                            \* an absent child
Seq_(rs) == [do |-> "seq", rs |-> rs]
Node(k, rs) == [do |-> "node", kind |-> k, rs |-> rs]
Wrap(k, rs) == [do |-> "wrap", kind |-> k, rs |-> rs]
When(ts, r, else) == [do |-> "when", ts |-> ts, r |-> r, else |-> else]
Opt(t, r) == When({t}, Seq_(<< Skip, r >>), None)
Drop(r) == [do |-> "drop", r |-> r]                \* parsed, then forgotten
Rule(n) == [do |-> "rule", name |-> n]
List(close, r) == [do |-> "list", close |-> close, r |-> r]
Leading(t) == When({t}, Skip, Nothing)
Body(r) == [do |-> "body", r |-> r]
Labelled(r) == [do |-> "labelled", r |-> r]        \* an optional `name:' before r
\* Mutants of Fail: reporting without skipping, skipping without reporting.
mutant_fail_stays == Seq_(<< Expect("no token"), Node("SyntaxError", << >>) >>)
mutant_fail_silent == Node("SyntaxError", << Skip >>)
Fail == [do |-> "fail"]                            \* skip a token and report

Expr == Rule("expression")
Type == Rule("type")
Block == Rule("block")

-----------------------------------------------------------------------------
(* Pieces that many functions share (helper.rs).                           *)

Mutability == OneOf({"mut", "const"})
Exclusivity == OneOf({"poly", "iso"})
Visibility == OneOf({"pub", "sec", "pro"})
ReturnArrow == When({"-"}, Seq_(<< Skip, Expect(">"), Type >>), None)
CommaList(close, r) == Seq_(<< Leading(","), List(close, r) >>)
Attributes == Node("Attributes", << Rule("attributes") >>)
AttributeLists == When({"["}, Seq_(<< Skip, CommaList("]", Expr), Rule("attributes") >>), Nothing)
\* Mutant: the default value of a parameter is parsed and forgotten.
mutant_default_dropped(default) ==
  Node("FuncParam", << Attributes, Mutability, Name, Expect(":"), Type, Drop(default), None >>)
FuncParam(default) == Node("FuncParam", << Attributes, Mutability, Name, Expect(":"), Type, default >>)
BraceBody(k, r) == Node(k, << Expect("{"), Body(r) >>)

-----------------------------------------------------------------------------
(* Types.                                                                  *)

Range_ == Seq_(<< Skip,
                  When({":"}, Seq_(<< Skip, None >>), Seq_(<< Expr, Expect(":") >>)),
                  When({"]"}, Seq_(<< Skip, None >>), Seq_(<< Expr, Expect("]") >>)) >>)
\* `: width', `: [min:max]' or `: width : [min:max]' after a type.
RefinementOptions ==
  When({":"},
       Seq_(<< Skip,
               When({"["},
                    Wrap("RefinementType", << None, Range_ >>),
                    Wrap("RefinementType",
                         << Expr,
                            When({":"},
                                 Seq_(<< Skip, When({"["}, Range_, Seq_(<< Expect("["), Drop(Expr), None, None >>)) >>),
                                 Seq_(<< None, None >>)) >>)) >>),
       Nothing)
ArrayOrSlice ==
  Seq_(<< Skip, Type,
          When({"]"}, Wrap("SliceType", << Skip >>),
                      Wrap("ArrayType", << Expect(";"), Expr, Expect("]") >>)) >>)
Lifetime == Node("Lifetime", << Skip, When({"static"}, Keep, Name) >>)
\* parse_reference_type and parse_pointer_type differ in the node they make.
Reference(k) ==
  Node(k, << Skip, When({"'"}, Lifetime, None), Exclusivity, Mutability, Type >>)
\* The mutability of a parameter of a function type is parsed and forgotten.
FuncTypeParam == Node("FuncTypeParam", << Attributes, Drop(Mutability), Name, Expect(":"), Type >>)
FunctionType ==
  Node("FunctionType", << Skip, Attributes,
                          Node("Params", << Expect("("), CommaList(")", FuncTypeParam) >>), ReturnArrow >>)
TypePrimary(t) ==
  CASE t \in PrimitiveTypes             -> Node("Primitive", << Keep >>)
    [] t = "'"                          -> Lifetime
    [] t \in Names \cup {":", "Self"}   -> Rule("type_path")
    [] t = "["                          -> ArrayOrSlice
    [] t = "&"                          -> Reference("ReferenceType")
    [] t = "*"                          -> Reference("PointerType")
    [] t = "fn"                         -> FunctionType
    [] t \in {"{", "unsafe", "safe"}    -> Node("TypePotential", << Block >>)
    [] OTHER                            -> Fail
ParenthesisedType ==
  Seq_(<< Skip,
          When({")"}, Node("TupleType", << Skip >>),
               Seq_(<< Type, When({")"}, Wrap("TypeParentheses", << Skip >>),
                                  When({","}, Wrap("TupleType", << Skip, List(")", Type) >>),
                                              Wrap("SyntaxError", << Drop(Fail) >>))) >>)) >>)
ParseType(t) ==
  IF t = "(" THEN ParenthesisedType ELSE Seq_(<< TypePrimary(t), RefinementOptions >>)

GenericArguments ==
  When({"<"}, Node("Arguments", << Skip, CommaList(">", Node("TypeArgument", << Labelled(Type) >>)) >>), None)

-----------------------------------------------------------------------------
(* Expressions.                                                            *)

\* A literal followed by the name of a type is a cast.
LiteralSuffix ==
  When(PrimitiveTypes, Wrap("Cast", << Node("Primitive", << Keep >>) >>),
       When(Names, Wrap("Cast", << Node("TypePath", << Node("Segment", << Keep, None >>) >>) >>), Nothing))
StructObject ==
  Wrap("StructInit", << Skip, List("}", Node("FieldInit", << Name, Expect(":"), Expr >>)) >>)
If == Node("If", << Skip, Expr, Block, Opt("else", When({"if"}, Rule("if"), Block)) >>)
For ==
  Node("For", << Skip, Attributes,
                 Node("Bindings", << When({"("}, Seq_(<< Skip, CommaList(")", Name) >>), Name) >>),
                 Expect("in"), Expr, Block >>)
While == Node("While", << Skip, When({"{"}, None, Expr), Block >>)
\* parse_break and parse_continue differ in the node they make.
Jump(k) == Node(k, << Skip, Opt("'", Name), Expect(";") >>)
Return == Node("Return", << Skip, When({";"}, None, Expr), Expect(";") >>)
Await == Node("Await", << Skip, Expr >>)
Closure ==
  Node("Closure", << Skip, Attributes,
                     Opt("(", Node("Params", << CommaList(")", FuncParam(Opt("=", Expr))) >>)),
                     ReturnArrow, Block >>)
Parenthesised ==
  Seq_(<< Skip,
          When({")"}, Node("Tuple", << Skip >>),
               Seq_(<< Expr, When({","}, Wrap("Tuple", << Skip, List(")", Expr) >>),
                                         Wrap("Parentheses", << Expect(")") >>)) >>)) >>)

Primary(t) ==
  CASE t \in Literals                   -> Seq_(<< Node("Literal", << Keep >>), LiteralSuffix >>)
    [] t \in {"true", "false"}          -> Node("Boolean", << Keep >>)
    [] t = "["                          -> Node("List", << Skip, CommaList("]", Expr) >>)
    [] t \in Names \cup {":", "self"}   -> Seq_(<< Rule("expr_path"), Rule("struct_object") >>)
    [] t = "type"                       -> Node("TypeInfo", << Skip, Type >>)
    [] t = "fn"                         -> Closure
    [] t \in {"{", "unsafe", "safe"}    -> Block
    [] t = "if"                         -> If
    [] t = "for"                        -> For
    [] t = "while"                      -> While
    [] t = "break"                      -> Jump("Break")
    [] t = "continue"                   -> Jump("Continue")
    [] t = "ret"                        -> Return
    [] t = "await"                      -> Await
    [] OTHER                            -> Fail

\* peek_is_expr_start: what may follow `..'.
ExprStart ==
  Literals \cup Names \cup {"true", "false", "[", "(", ":", "self", "type", "fn", "{", "unsafe", "safe",
                            "if", "for", "while", "break", "continue", "ret", "await", "."}

\* peek_is_struct_field_start: what, after a path and `{', makes it the value
\* of a structure and not a block.
FieldStart == Names \cup {"}", "self", ":", "["}

Argument == Node("Argument", << Labelled(Expr) >>)

LocalVariable ==
  Node("LocalVariable", << Keep, Attributes, Mutability, Name, Opt(":", Type), Opt("=", Expr), Expect(";") >>)
BlockItem(t) ==
  CASE t \in {"let", "var"} -> LocalVariable
    [] OTHER -> Seq_(<< IF t \in {"safe", "unsafe", "{"} THEN Block ELSE Expr,
                        When({";"}, Wrap("Stmt", << Skip >>), Nothing) >>)
Safety ==
  When({"safe"}, Keep,
       When({"unsafe"}, Node("Unsafe", << Keep, Opt("(", Seq_(<< Expr, Expect(")") >>)) >>), None))
ParseBlock == Node("Block", << Safety, Expect("{"), Body(Rule("block_item")) >>)

-----------------------------------------------------------------------------
(* Items.                                                                  *)

\* The constraint of a generic parameter is parsed and forgotten.
Generics ==
  When({"<"},
       Node("Generics", << Skip, List(">", Node("TypeParam", << Name, When({":"}, Seq_(<< Skip, Drop(Type) >>), Nothing),
                                                                Opt("=", Type) >>)) >>),
       None)
Module == Node("Module", << Skip, Attributes, Name, BraceBody("Items", Rule("item")) >>)
Use == Node("Import", << Skip, Attributes, Rule("use_tree"), Expect(";") >>)
TypeAlias == Node("TypeAlias", << Skip, Attributes, Name, Generics, Opt("=", Type), Expect(";") >>)
EnumVariant ==
  Node("EnumVariant", << Attributes, Name, Opt("(", Seq_(<< Type, Expect(")") >>)), Opt("=", Expr) >>)
Enum == Node("Enum", << Skip, Attributes, Name, Generics,
                        Node("Variants", << Expect("{"), CommaList("}", EnumVariant) >>) >>)
StructField ==
  Node("StructField", << Visibility, Attributes, Name, Expect(":"), Type, Opt("=", Expr) >>)
Struct == Node("Struct", << Skip, Attributes, Name, Generics,
                            Node("Fields", << Expect("{"), CommaList("}", StructField) >>) >>)
Function ==
  Node("Function", << Skip, Attributes, Name, Generics, Rule("parameters"), ReturnArrow,
                      When({";"}, Seq_(<< Skip, None >>), Block) >>)
GlobalVariable ==
  Node("GlobalVariable", << Keep, Attributes, Mutability, Name, Opt(":", Type), Opt("=", Expr), Expect(";") >>)
AssociatedItem(t) ==
  CASE t = "fn" -> Function [] t = "const" -> GlobalVariable [] t = "type" -> TypeAlias [] OTHER -> Fail
AssociatedItems == BraceBody("Items", Node("Item", << Visibility, None, Rule("associated_item") >>))
Trait == Node("Trait", << Skip, Attributes, Name, Generics, AssociatedItems >>)
\* `impl trait Path for Type', `impl Type for Type' or `impl Type'; a trait that
\* is not a path is forgotten.
Implementation ==
  Node("Impl", << Skip, Generics,
                  When({"trait"}, Seq_(<< Skip, Rule("type_path"), Expect("for"), Type >>),
                                  Seq_(<< Type, Rule("impl_for") >>)),
                  AssociatedItems >>)
ItemBody(t) ==
  CASE t = "mod"    -> Module   [] t = "use"    -> Use    [] t = "type" -> TypeAlias
    [] t = "struct" -> Struct   [] t = "enum"   -> Enum   [] t = "trait" -> Trait
    [] t = "impl"   -> Implementation
    [] t = "fn"     -> Function [] t \in {"static", "const"} -> GlobalVariable
    [] OTHER        -> Fail

-----------------------------------------------------------------------------
(* Operators.                                                              *)

\* BINOP_PATTERNS, tried in this order.
BinopPatterns ==
  << << "<", "<", "<", "=" >>, << ">", ">", ">", "=" >>, << "&", "&", "=" >>, << "|", "|", "=" >>,
     << "<", "<", "<" >>, << ">", ">", ">" >>, << "!", "=" >>, << "%", "=" >>, << "&", "=" >>, << "&", "&" >>,
     << "*", "=" >>, << "+", "=" >>, << "-", "=" >>, << "/", "=" >>, << "<", "<", "=" >>, << "<", "<" >>,
     << "<", "=" >>, << "=", "=" >>, << ">", ">", "=" >>, << ">", ">" >>, << ">", "=" >>, << "^", "=" >>,
     << "|", "=" >>, << "|", "|" >>,
     << "!" >>, << "%" >>, << "&" >>, << "*" >>, << "+" >>, << "-" >>, << "/" >>, << "=" >>, << "^" >>, << "|" >>,
     << "<" >>, << ">" >> >>

\* The operator of a pattern, named by the tokens the printer writes for it.
OperatorOf(pattern) ==
  CASE pattern = << "!", "=" >> -> << "&", "&", "=" >>
    [] pattern = << "!" >>      -> << "!", "=" >>
    [] OTHER                    -> pattern

Comparisons == {<< "=", "=" >>, << "!", "=" >>, << "<" >>, << ">" >>, << "<", "=" >>, << ">", "=" >>}
Rank(op) ==
  CASE op \in Comparisons                         -> 4
    [] Last(op) = "="                             -> 0
    [] op = << "|", "|" >>                        -> 2
    [] op = << "&", "&" >>                        -> 3
    [] op = << "|" >>                             -> 5
    [] op = << "^" >>                             -> 6
    [] op = << "&" >>                             -> 7
    [] op[1] \in {"<", ">"}                       -> 8
    [] op[1] \in {"+", "-"}                       -> 9
    [] op[1] \in {"*", "/", "%"}                  -> 10
RangeRank == 1
CastRank == 11
UnaryRank == 12
CallRank == 13
\* Mutant: the operators that do not assign associate to the right as well.
mutant_right_to_left(rank) == TRUE
RightToLeft(rank) == rank = 0

UnaryOperators == {"+", "-", "*", "&", "!", "typeof"}

Matches(s, i, pattern) == \A k \in 1 .. Len(pattern) : At(s, i + k - 1) = pattern[k]
\* detect_and_parse_binary_operator: the index of the first pattern at i, or 0.
DetectBinary(s, i) ==
  LET Candidates == {n \in 1 .. Len(BinopPatterns) : Matches(s, i, BinopPatterns[n])}
  IN IF Candidates = {} THEN 0 ELSE CHOOSE n \in Candidates : \A m \in Candidates : n <= m

-----------------------------------------------------------------------------
(* How a rule is performed.                                                *)

\* skip_while: everything up to and with the first t.
SkipWhile(s, p, t) ==
  LET Ends == {j \in p.i .. Len(s) : s[j] = t}
  IN [p EXCEPT !.i = IF Ends = {} THEN Len(s) + 1 ELSE (CHOOSE j \in Ends : \A k \in Ends : j <= k) + 1]

\* parse_double_colon: a single colon is consumed too.
DoubleColon(s, p) ==
  IF Next_(s, p) # ":" THEN [p |-> p, ok |-> FALSE]
  ELSE IF At(s, p.i + 1) = ":" THEN [p |-> Move(p, 2), ok |-> TRUE]
  ELSE [p |-> Move(p, 1), ok |-> FALSE]

\* A refinement without any restriction is the type itself.
Wrapped(kind, p, q) ==
  IF kind = "RefinementType" /\ \A k \in DOMAIN q.out : q.out[k] = Absent
  THEN [q EXCEPT !.out = p.out]
  ELSE Enclose(p, q, kind)

RECURSIVE Run(_, _, _), RunAll(_, _, _), Elements(_, _, _, _), BodyItems(_, _, _), Segments(_, _, _),
          Climb(_, _, _), Proceed(_, _, _), Special(_, _, _), ParamLoop(_, _), UseTree(_, _), UseGroup(_, _),
          PathRest(_, _), SuperChain(_, _, _), RangeEnd(_, _, _), Member(_, _)

Run(r, s, p) ==
  CASE r.do = "skip"    -> Move(p, 1)
    [] r.do = "keep"    -> Push(Move(p, 1), Leaf(Next_(s, p)))
    [] r.do = "name"    -> IF Named(Next_(s, p)) THEN Push(Move(p, 1), Leaf(Next_(s, p))) ELSE Push(Report(p), Absent)
    [] r.do = "expect"  -> IF Next_(s, p) = r.t THEN Move(p, 1) ELSE Report(p)
    [] r.do = "oneof"   -> IF Next_(s, p) \in r.ts THEN Push(Move(p, 1), Leaf(Next_(s, p))) ELSE Push(p, Absent)
    [] r.do = "nothing" -> p
    [] r.do = "none"    -> Push(p, Absent)
    [] r.do = "fail"    -> Push(Report(Move(p, 1)), Wrong)
    [] r.do = "seq"     -> RunAll(r.rs, s, p)
    [] r.do = "node"    -> Close(p, RunAll(r.rs, s, Fresh(p)), r.kind)
    [] r.do = "wrap"    -> Wrapped(r.kind, p, RunAll(r.rs, s, Fresh(p)))
    [] r.do = "when"    -> Run(IF Next_(s, p) \in r.ts THEN r.r ELSE r.else, s, p)
    [] r.do = "drop"    -> [Run(r.r, s, p) EXCEPT !.out = p.out]
    [] r.do = "list"    -> Elements(r.close, r.r, s, p)
    [] r.do = "body"    -> BodyItems(r.r, s, p)
    [] r.do = "labelled" ->
         Run(r.r, s, IF Named(Next_(s, p)) /\ At(s, p.i + 1) = ":"
                     THEN Push(Move(p, 2), Leaf(Next_(s, p))) ELSE Push(p, Absent))
    [] r.do = "rule"    -> Special(r.name, s, p)

RunAll(rs, s, p) == IF rs = << >> THEN p ELSE RunAll(Tail(rs), s, Run(rs[1], s, p))

\* parse_comma_separated_list.
Elements(close, r, s, p) ==
  IF Next_(s, p) = close THEN Move(p, 1)
  ELSE IF Next_(s, p) = Eof THEN Report(p)
  ELSE LET Behind(q) ==
             CASE Next_(s, q) = ","   -> Elements(close, r, s, Move(q, 1))
               [] Next_(s, q) = close -> Move(q, 1)
               [] OTHER               -> SkipWhile(s, Report(q), close)
       IN Behind(Run(r, s, p))

\* The items of a block, a module, a trait or an implementation.
BodyItems(r, s, p) ==
  IF Next_(s, p) = "}" THEN Move(p, 1)
  ELSE IF Next_(s, p) = Eof THEN Report(p)
  ELSE LET Behind(q) == IF q.i = p.i THEN [q EXCEPT !.fault = "stuck"] ELSE BodyItems(r, s, q)
       IN Behind(Run(r, s, p))

\* The segments of a path, from one that must be there: an expression takes
\* type arguments after a further `::', a type directly after the name.
Segments(kind, s, p) ==
  IF ~Named(Next_(s, p)) THEN Report(p)
  ELSE LET type == kind = "Segment"
           name == Push(Fresh(Move(p, 1)), Leaf(Next_(s, p)))
           Done(more) == IF more.ok THEN Segments(kind, s, Close(p, more.p, kind)) ELSE Close(p, more.p, kind)
           WithArgs(sep, args) ==
             Done(IF type \/ args.out[2] # Absent THEN DoubleColon(s, args) ELSE [p |-> args, ok |-> sep.ok])
           Named_(sep) ==
             WithArgs(sep, IF sep.ok THEN Run(GenericArguments, s, sep.p) ELSE Push(sep.p, Absent))
       IN Named_(IF type THEN [p |-> name, ok |-> TRUE] ELSE DoubleColon(s, name))

\* parse_path: a leading `::' is a segment without a name.
ExprPath(s, p) ==
  LET global == DoubleColon(s, p)
      First(more) == [go |-> more.ok, p |-> Close(Fresh(p), more.p, "ExprSegment")]
      WithArgs(args) == First(IF args.out[2] # Absent THEN DoubleColon(s, args) ELSE [p |-> args, ok |-> TRUE])
      start == IF global.ok THEN WithArgs(Run(GenericArguments, s, Push(Fresh(global.p), Absent)))
               ELSE [go |-> TRUE, p |-> Fresh(global.p)]
      Rest(q) == IF q.go THEN Segments("ExprSegment", s, q.p) ELSE q.p
  IN Close(p, Rest(start), "ExprPath")

\* parse_type_path asserts that it is called at the start of a path, and in the
\* end that the path has a segment.
TypePath(s, p) ==
  LET global == DoubleColon(s, p)
      Asserted(q) ==
        IF Next_(s, p) \in Names \cup {":", "Self", "self"} /\ q.out # << >> THEN q ELSE [q EXCEPT !.fault = "panic"]
      start == IF global.ok THEN Push(Fresh(global.p), Tree("Segment", << Absent, Absent >>)) ELSE Fresh(global.p)
  IN Close(p, Asserted(Segments("Segment", s, start)), "TypePath")

\* The two dots of a range, or the two dots and the equality sign.
Dots(s, p) == Push(Move(p, IF At(s, p.i + 2) = "=" THEN 3 ELSE 2), Leaf(IF At(s, p.i + 2) = "=" THEN "..=" ELSE ".."))
AreDots(s, p) == Next_(s, p) = "." /\ At(s, p.i + 1) = "."
\* What follows the dots: an exclusive range may end with them.
RangeEnd(incl, s, q) ==
  IF incl \/ Next_(s, q) \in ExprStart THEN Climb(RangeRank + 1, s, q) ELSE Push(q, Absent)

\* parse_expression_precedence: the operators after a prefix that bind at least
\* as tightly as min.
Climb(min, s, p) ==
  LET t == Next_(s, p)
  IN Proceed(min, s,
       CASE t \in UnaryOperators -> Close(p, Climb(UnaryRank, s, Push(Move(Fresh(p), 1), Leaf(t))), "Unary")
         [] AreDots(s, p) -> Close(p, RangeEnd(At(s, p.i + 2) = "=", s, Dots(s, Push(Fresh(p), Absent))), "Range")
         [] OTHER -> Run(IF t = "(" THEN Parenthesised ELSE Primary(t), s, p))

\* The rule for what may follow an operand, other than an operator.
Suffix(t) ==
  CASE t = "as" -> [rank |-> CastRank, rule |-> Wrap("Cast", << Skip, Type >>)]
    [] t = "("  -> [rank |-> CallRank, rule |-> Wrap("FunctionCall", << Rule("arguments") >>)]
    [] t = "["  -> [rank |-> CallRank, rule |-> Wrap("IndexAccess", << Skip, Expr, Expect("]") >>)]
    [] t = "."  -> [rank |-> CallRank, rule |-> Rule("member")]
    [] OTHER    -> [rank |-> -1, rule |-> Nothing]

\* A field, or a method when arguments follow.
Member(s, p) ==
  LET Selected(q) ==
        IF Next_(s, q) = "(" THEN Enclose(p, Special("arguments", s, q), "MethodCall") ELSE Enclose(p, q, "FieldAccess")
  IN Selected(Run(Name, s, Move(Fresh(p), 1)))

Proceed(min, s, p) ==
  LET n == DetectBinary(s, p.i)
      op == OperatorOf(BinopPatterns[n])
      suffix == Suffix(Next_(s, p))
  IN CASE n # 0 /\ Rank(op) >= min ->
            Proceed(min, s,
              Enclose(p, Climb(IF RightToLeft(Rank(op)) THEN Rank(op) ELSE Rank(op) + 1, s,
                               Push(Move(Fresh(p), Len(BinopPatterns[n])), Tree("Op", [k \in 1 .. Len(op) |-> Leaf(op[k])]))),
                      "Bin"))
       [] n = 0 /\ AreDots(s, p) /\ RangeRank >= min ->
            Proceed(min, s, Enclose(p, RangeEnd(At(s, p.i + 2) = "=", s, Dots(s, Fresh(p))), "Range"))
       [] n = 0 /\ ~AreDots(s, p) /\ suffix.rank >= min ->
            Proceed(min, s, Run(suffix.rule, s, p))
       [] OTHER -> p

\* parse_function_call_arguments: the positional ones, then the named ones.
Arguments(s, p) ==
  LET Positional(a) == a.sub[1] = Absent
      NamedOne(a) == a.sub[1] # Absent
      Sorted(q) ==
        [q EXCEPT !.bad = @ \/ \E k, m \in DOMAIN q.out : k < m /\ NamedOne(q.out[k]) /\ Positional(q.out[m]),
                  !.out = Append(p.out, Tree("CallArguments", SelectSeq(q.out, Positional) \o SelectSeq(q.out, NamedOne)))]
  IN Sorted(Run(CommaList(")", Argument), s, Move(Fresh(p), 1)))

-----------------------------------------------------------------------------
(* Parameters, use declarations, items.                                    *)

SelfType == Tree("TypePath", << Tree("Segment", << Leaf("Self"), Absent >>) >>)
SelfReference(mutability) == Tree("ReferenceType", << Absent, Absent, mutability, SelfType >>)
SelfParam(type) == Tree("FuncParam", << Tree("Attributes", << >>), Absent, Leaf("self"), type, Absent >>)
\* parse_self_parameter: `self', `&self' or `&mut self', or nothing.
SelfParameter(s, p) ==
  CASE Next_(s, p) = "self" -> Push(Move(p, 1), SelfParam(SelfType))
    [] Matches(s, p.i, << "&", "self" >>) -> Push(Move(p, 2), SelfParam(SelfReference(Absent)))
    [] Matches(s, p.i, << "&", "mut", "self" >>) -> Push(Move(p, 3), SelfParam(SelfReference(Leaf("mut"))))
    [] OTHER -> p

\* The parameters up to `)'; `...' can only be the last of them.
ParamLoop(s, p) ==
  CASE Next_(s, p) = ")" -> Move(p, 1)
    [] Next_(s, p) = Eof -> Report(p)
    [] Next_(s, p) = "." ->
         LET dots == IF At(s, p.i + 1) # "." THEN Report(Move(p, 1))
                     ELSE IF At(s, p.i + 2) # "." THEN Report(Move(p, 2)) ELSE Move(p, 3)
         IN Push(IF Next_(s, dots) = ")" THEN Move(dots, 1) ELSE SkipWhile(s, Report(dots), ")"), Leaf("..."))
    [] OTHER ->
         LET Behind(q) ==
               CASE Next_(s, q) = "," -> ParamLoop(s, Move(q, 1))
                 [] Next_(s, q) = ")" -> Move(q, 1)
                 [] OTHER             -> SkipWhile(s, Report(q), ")")
         IN Behind(Run(FuncParam(Opt("=", Expr)), s, p))

Parameters(s, p) ==
  LET Behind(open, self) ==
        IF self = open \/ Next_(s, self) \in {",", ")"}
        THEN ParamLoop(s, IF self # open /\ Next_(s, self) = "," THEN Move(self, 1) ELSE self)
        ELSE SkipWhile(s, Report(self), ")")
      Opened(open) == Behind(open, SelfParameter(s, open))
  IN Close(p, Opened(Run(Seq_(<< Expect("("), Leading(",") >>), s, Fresh(p))), "Params")

UseTreeOperators == {"*", "{", ";", "as"}
PathWord(t) == Leaf(IF t = "Self" THEN "self" ELSE t)
Supers(n) == [k \in 1 .. n |-> Leaf("super")]
PathName(s, p) == IF Named(Next_(s, p)) THEN Push(Move(p, 1), Leaf(Next_(s, p))) ELSE Report(p)

\* `super::super::name': what follows the name is left to the use tree.
SuperChain(n, s, p) ==
  LET sep == DoubleColon(s, p)
      t == Next_(s, sep.p)
      With(q, trees) == [q EXCEPT !.out = @ \o trees]
  IN CASE ~sep.ok                       -> With(sep.p, Supers(n))
       [] sep.ok /\ t = "super"         -> SuperChain(n + 1, s, Move(sep.p, 1))
       [] sep.ok /\ t \in UseTreeOperators -> With(p, Supers(n))
       [] sep.ok /\ t # "super" /\ Named(t) -> With(Move(sep.p, 1), Append(Supers(n), Leaf(t)))
       [] OTHER                         -> With(p, Supers(n) \o Supers(n))

\* The further segments of a path; a `::' that no segment follows is given back.
PathRest(s, p) ==
  LET sep == DoubleColon(s, p)
      t == Next_(s, sep.p)
  IN CASE Next_(s, p) = Eof -> p
       [] Next_(s, p) # Eof /\ ~sep.ok -> IF p.out = << >> THEN Report(sep.p) ELSE sep.p
       [] sep.ok /\ Named(t) -> PathRest(s, Push(Move(sep.p, 1), IF t \in PathWords THEN PathWord(t) ELSE Leaf(t)))
       [] OTHER -> p

ItemPath(s, p) ==
  LET q == DoubleColon(s, p).p
      t == Next_(s, q)
      word == Push(Move(q, 1), PathWord(t))
      sep == DoubleColon(s, word)
  IN CASE t = Eof     -> q
       [] t = "super" -> SuperChain(1, s, Move(q, 1))
       [] t \in PathWords \ {"super"} ->
            IF ~sep.ok THEN sep.p
            ELSE IF Next_(s, sep.p) \in UseTreeOperators THEN word ELSE PathRest(s, PathName(s, sep.p))
       [] OTHER -> PathRest(s, PathName(s, q))

UseTree(s, p) ==
  LET Behind(sep) ==
        CASE sep.ok /\ Next_(s, sep.p) = "*" -> Close(p, Move(sep.p, 1), "UseAll")
          [] sep.ok /\ Next_(s, sep.p) = "{" -> Close(p, UseGroup(s, Move(sep.p, 1)), "UseGroup")
          [] sep.ok /\ Next_(s, sep.p) \notin {"*", "{"} -> Close(p, Report(sep.p), "UseSingle")
          [] ~sep.ok /\ Next_(s, sep.p) = "as" -> Close(p, Run(Name, s, Move(sep.p, 1)), "UseAlias")
          [] OTHER -> Close(p, sep.p, "UseSingle")
  IN Behind(DoubleColon(s, Close(Fresh(p), ItemPath(s, Fresh(p)), "ItemPath")))

\* The end of the file inside a group is reported by the caller only.
UseGroup(s, p) ==
  CASE Next_(s, p) = Eof -> p
    [] Next_(s, p) = "}" -> Move(p, 1)
    [] OTHER -> LET Behind(q) ==
                      CASE Next_(s, q) = "," -> UseGroup(s, Move(q, 1))
                        [] Next_(s, q) = "}" -> Move(q, 1)
                        [] OTHER             -> SkipWhile(s, Report(q), "}")
                IN Behind(UseTree(s, p))

\* parse_item: of an extern block, the first item only.
VisibilityAndAbi == Seq_(<< Visibility, When({"extern"}, Seq_(<< Skip, OneOf({"str"}) >>), None) >>)
Item(s, p) ==
  LET WithAbi(item, abi) == IF item.kind = "Item" /\ item.sub[3].kind = "Function" /\ item.sub[2] = Absent
                            THEN [item EXCEPT !.sub[2] = abi] ELSE item
      External(abi, block) ==
        [block EXCEPT !.out = Append(p.out, IF block.out = << >> THEN Wrong ELSE WithAbi(block.out[1], abi))]
      Internal(vis, abi, t, body) ==
        [body EXCEPT !.bad = @ \/ (t = "impl" /\ vis # Absent),
                     !.out = Append(p.out, Tree("Item", << vis, IF t = "fn" THEN abi ELSE Absent >> \o body.out))]
      Behind(head) ==
        IF Next_(s, head) = "{" /\ head.out[2] # Absent
        THEN External(head.out[2], Run(Body(Rule("item")), s, Fresh(Move(head, 1))))
        ELSE Internal(head.out[1], head.out[2], Next_(s, head), Run(ItemBody(Next_(s, head)), s, Fresh(head)))
  IN Behind(Run(VisibilityAndAbi, s, Fresh(p)))

\* The second half of `impl Type for Type'.
ImplFor(s, p) ==
  LET first == Last(p.out)
      trait == IF first.kind = "TypePath" THEN first ELSE Absent
      q == Run(Type, s, Move(p, 1))
  IN IF Next_(s, p) = "for" THEN [q EXCEPT !.out = Front(p.out) \o << trait, Last(@) >>]
     ELSE [p EXCEPT !.out = Front(p.out) \o << Absent, first >>]

Special(name, s, p) ==
  LET t == Next_(s, p)
  IN CASE name = "expression"      -> Climb(0, s, p)
       [] name = "type"            -> Run(ParseType(t), s, p)
       [] name = "block"           -> Run(ParseBlock, s, p)
       [] name = "if"              -> Run(If, s, p)
       [] name = "attributes"      -> Run(AttributeLists, s, p)
       [] name = "block_item"      -> Run(BlockItem(t), s, p)
       [] name = "associated_item" -> Run(AssociatedItem(t), s, p)
       [] name = "struct_object"   -> IF t = "{" /\ At(s, p.i + 1) \in FieldStart THEN Run(StructObject, s, p) ELSE p
       [] name = "expr_path"       -> ExprPath(s, p)
       [] name = "type_path"       -> TypePath(s, p)
       [] name = "arguments"       -> Arguments(s, p)
       [] name = "member"          -> Member(s, p)
       [] name = "parameters"      -> Parameters(s, p)
       [] name = "use_tree"        -> UseTree(s, p)
       [] name = "item"            -> Item(s, p)
       [] name = "impl_for"        -> ImplFor(s, p)

RECURSIVE Items(_, _)
Items(s, p) ==
  IF Next_(s, p) = Eof THEN p
  ELSE LET Behind(q) == IF q.i = p.i THEN [q EXCEPT !.fault = "stuck"] ELSE Items(s, q)
       IN Behind(Item(s, p))

\* parse_source: items up to the end of the file.
parse_source(s) == Items(s, Start)

\* The stage goes on when nothing was reported.
Accepted(result) == ~result.bad /\ result.fault = "none"
=============================================================================
