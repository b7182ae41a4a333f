------------------------------- MODULE MCLexer -------------------------------
(***************************************************************************)
(* Sources of up to a number of pieces, one set for each part of the       *)
(* lexical grammar.  None begins with trivia, see Lexer.                   *)
(***************************************************************************)
EXTENDS Lexer

Of(bytes) == {<< b >> : b \in bytes}
Fill(before, bound, pieces) == {before \o FlattenSeq(f) : f \in BoundedSeq(pieces, bound)}

SourcesByKind ==
  UNION {Fill(<< "a" >>, 4, Of({" ", "newline", "lead", "cont", ";", "1"})),
         Fill(<< >>, 4, Of({"0", "b", "x", "1", "."})),
         Fill(<< "1" >>, 4, Of({"9", "_", ".", "a"})),
         Fill(<< "0" >>, 3, Of({"o", "d", "x", "7", "9", "f", "_"})),
         Fill(<< "a", "/" >>, 4, Of({"/", "*", "newline", "cr", "1"})),
         Fill(<< "a", "#" >>, 3, Of({"tick", "newline", "cr", "#", "lead"})),
         Fill(<< "tick" >>, 3, Of({"tick", "a", "gear", "cont", " "}) \cup {<< "lead", "cont" >>}),
         Fill(<< "\"" >>, 3, Of({"\"", "a", "\\", "lead", "n"}) \cup {<< "\\", "x", "b" >>, << "\\", "o", "7", "1" >>}),
         Fill(<< "\"", "\\", "u" >>, 3, Of({"{", "}", "\""}) \cup {<< "{", "U", "+" >>, << "d", "d", "f" >>, << "0", "0", "0" >>})}
=============================================================================
