----------------------------- MODULE MCFrontEnd -----------------------------
(***************************************************************************)
(* The templates: one for each part of the grammar, with the pieces that   *)
(* part is made of.                                                        *)
(***************************************************************************)
EXTENDS FrontEnd

Of(words) == {<< w >> : w \in words}
Fill(before, after, bound, pieces, telling) ==
  [before |-> before, after |-> after, bound |-> bound, pieces |-> pieces, telling |-> telling]
InBody(bound, pieces, telling) == Fill(<< "fn", "a", "(", ")", "{" >>, << "}" >>, bound, pieces, telling)
AsType(bound, pieces, telling) == Fill(<< "type", "T", "=" >>, << ";" >>, bound, pieces, telling)

\* Operands joined by an operator of every level.
JoinedBy ==
  {op \o << "a" >> : op \in {<< "+" >>, << "*" >>, << "=" >>, << "+", "=" >>, << "=", "=" >>, << "<", "<" >>,
                            << "<", "=" >>, << "&" >>, << "&", "&" >>, << "|" >>, << "|", "|" >>, << ".", "." >>}}

AllTemplates ==
  [operators  |-> Fill(<< "fn", "a", "(", ")", "{", "b" >>, << "}" >>, 3, JoinedBy, {"+", "*", "|", "="}),
   prefixes   |-> InBody(4, Of({"a", "1", "-", "*", "typeof", "i32"}) \cup {<< ".", "." >>, << "+", "a" >>, << "as", "i32" >>}, {"-", "*", "+"}),
   postfixes  |-> InBody(4, Of({"a", "(", ")", ","}) \cup {<< ".", "b" >>, << "[", "b", "]" >>, << "b", ":" >>,
                                                           << ":", ":", "<", "T", ">" >>, << ":", ":", "c" >>}, {}),
   branches   |-> InBody(5, Of({"a", "if", "else", "while", "{", "}", ";"}), {}),
   statements |-> InBody(4, Of({"a", "let", "mut", "=", "{", "}", ";", "ret", "break"}) \cup {<< ":", "i32" >>}, {"let", "mut"}),
   loops      |-> InBody(5, Of({"a", "for", "in", "{", "}", ","}) \cup {<< "for", "(", "b" >>, << ")", "in" >>}, {}),
   closures   |-> InBody(5, Of({"fn", "(", ")", "{", "}", "unsafe"}) \cup {<< "b", ":", "i32" >>, << "-", ">", "i32" >>}, {"unsafe"}),
   values     |-> InBody(4, Of({"a", "(", ")", ",", "[", "]", "{", "}"}) \cup {<< "b", ":" >>}, {}),
   types      |-> AsType(4, Of({"i32", "b", "(", ")", ",", "[", "]", ";", "&"}) \cup {<< "<", "T", ">" >>}, {}),
   refined    |-> AsType(4, Of({"i32", "1", ":", "[", "]", "*", "mut", "iso"}) \cup {<< "'", "b" >>, << "fn", "(", "a", ":" >>, << ")", "-", ">" >>}, {"mut", "iso"}),
   uses       |-> Fill(<< "use" >>, << ";" >>, 5, Of({"a", "super", "crate", "*", "{", "}", ","}) \cup {<< ":", ":" >>, << "as", "b" >>}, {"super", "crate"}),
   items      |-> Fill(<< >>, << >>, 4, Of({"mod", "a", "{", "}", "pub", ";", "type", "struct", "static"})
                                        \cup {<< "b", ":", "i32" >>, << "=", "i32" >>, << "enum", "c" >>, << "," >>}, {"pub", "static"}),
   members    |-> Fill(<< >>, << "}" >>, 4, Of({"impl", "trait", "a", "for", "{", "}", "pub"})
                                        \cup {<< "<", "T", ">" >>, << "const", "b", ";" >>, << "fn", "c", "(", ")", ";" >>}, {"pub", "const"}),
   functions  |-> Fill(<< "fn", "a" >>, << "{", "}" >>, 4, Of({"(", ")", ",", "mut", "[", "]"})
                                        \cup {<< "b", ":", "i32" >>, << "=", "1" >>, << ".", ".", "." >>, << "<", "T", ">" >>, << "-", ">", "T" >>}, {"mut"}),
   methods    |-> Fill(<< "impl", "T", "{", "fn", "a", "(" >>, << "}" >>, 4, Of({"self", "&", "mut", ",", ")", ";", "fn"}) \cup {<< "b", ":", "Self" >>}, {}),
   names      |-> Fill(<< "fn", "b", "<", "T", ">", "(", "a", ":", "T", ")", "{", "}" >>, << "}" >>, 5,
                       {<< "fn", "c", "(", "a", ":" >>, << ")", "{" >>, << "T" >>, << "b" >>, << "mod", "a", "{" >>, << "struct", "T", "{" >>,
                        << "}" >>, << "let", "c", "=" >>, << "a", ";" >>}, {})]

=============================================================================
