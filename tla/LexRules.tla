------------------------------- MODULE LexRules -------------------------------
(***************************************************************************)
(* How the lexer makes the next token: a function of the source, the       *)
(* position it reads from and whether trivia are tokens.                   *)
(*                                                                         *)
(* A source is a sequence of bytes.  Printable bytes stand for themselves; *)
(* "lead" and "cont" are the two bytes of one character outside ASCII, and *)
(* "gear" is the prefix that is reserved for the compiler.  A reading      *)
(* function returns the position after what it read and a token, Error     *)
(* when it logged something.  Only an escape makes a byte of a string that *)
(* is not in the source.                                                   *)
(***************************************************************************)
EXTENDS Integers, Sequences, SequencesExt

CONSTANTS
  MaxLine,      \* the largest line (u16) and column (u8) that are counted
  MaxColumn,
  MaxInteger    \* the largest integer literal (u128)

ASSUME LimitsAssumption == {MaxLine, MaxColumn, MaxInteger} \subseteq Nat

Digits == {"0", "1", "7", "9"}
OctalDigits == {"0", "1", "7"}
HexLetters == {"a", "b", "d", "f"}
HexDigits == Digits \cup HexLetters
Letters == HexLetters \cup {"n", "o", "s", "u", "x", "U"}
NonAscii == {"lead", "cont", "gear"}
NameBytes == Letters \cup Digits \cup {"_"} \cup NonAscii
Spaces == {" ", "tab", "newline", "cr"}
Signs == {"'", ";", ",", ".", "(", ")", "{", "}", "[", "]", "@", "~", "?", ":", "$", "=", "!", "<", ">", "-", "&", "|",
          "+", "*", "^", "%"}
Bytes == NameBytes \cup Spaces \cup Signs \cup {"tick", "\"", "\\", "#", "/"}
Keywords == {<< "f", "n" >>, << "a", "s" >>}

DigitValue(d) ==
  CASE d = "0" -> 0 [] d = "1" -> 1 [] d = "7" -> 7 [] d = "9" -> 9
    [] d = "a" -> 10 [] d = "b" -> 11 [] d = "d" -> 13 [] d = "f" -> 15

Token(kind, value) == [kind |-> kind, value |-> value]
Error == Token("error", << >>)      \* the code logs and returns Err
Eof == Token("Eof", << >>)
IsTrivia(token) == token.kind \in Spaces \cup {"Comment"}

StartOfSource == [offset |-> 0, line |-> 0, column |-> 0]
Capped(n, max) == IF n < max THEN n ELSE max
Byte(src, p) == IF p.offset < Len(src) THEN src[p.offset + 1] ELSE "none"
\* Mutant: every byte of a character is a column.
mutant_columns_are_bytes(p, byte) ==
  [offset |-> p.offset + 1,
   line   |-> IF byte = "newline" THEN Capped(p.line + 1, MaxLine) ELSE p.line,
   column |-> IF byte = "newline" THEN 0 ELSE Capped(p.column + 1, MaxColumn)]
advance(p, byte) ==
  [offset |-> p.offset + 1,
   line   |-> IF byte = "newline" THEN Capped(p.line + 1, MaxLine) ELSE p.line,
   column |-> CASE byte = "newline" -> 0
                [] byte = "cont"    -> p.column
                [] OTHER            -> Capped(p.column + 1, MaxColumn)]
\* From p over the next n bytes.
Over(src, p, n) == FoldLeft(advance, p, SubSeq(src, p.offset + 1, p.offset + n))

\* read_while: the bytes of a set that follow, and the position after them.
Following(src, p, set) ==
  LET Ends == {n \in p.offset .. Len(src) : n = Len(src) \/ src[n + 1] \notin set}
      end == CHOOSE n \in Ends : \A m \in Ends : n <= m
  IN SubSeq(src, p.offset + 1, end)
After(src, p, set) == Over(src, p, Len(Following(src, p, set)))

Read(p, token) == [pos |-> p, token |-> token]

-----------------------------------------------------------------------------
(* Names and numbers.                                                      *)

\* What str::from_utf8 accepts.
Utf8(bytes) ==
  /\ \A n \in DOMAIN bytes : bytes[n] = "lead" <=> (n < Len(bytes) /\ bytes[n + 1] = "cont")
  /\ bytes = << >> \/ bytes[1] # "cont"
NameOr(bytes) == IF Utf8(bytes) /\ (bytes = << >> \/ bytes[1] # "gear") THEN Token("Name", bytes) ELSE Error

\* Between backquotes anything is a name.
parse_atypical_identifier(src, p) ==
  LET start == advance(p, "tick")
      Inside == {src[n] : n \in DOMAIN src} \ {"tick"}
      end == After(src, start, Inside)
  IN IF Byte(src, end) # "tick" THEN Read(end, Error)
     ELSE Read(advance(end, "tick"), NameOr(Following(src, start, Inside)))

parse_typical_identifier(src, p) ==
  LET name == Following(src, p, NameBytes)
  IN Read(After(src, p, NameBytes), IF name \in Keywords THEN Token("keyword", name) ELSE NameOr(name))

\* radix_decode, with -1 for an integer too large.
radix_decode(digits, base) ==
  FoldLeft(LAMBDA n, d : IF n = -1 \/ n * base + DigitValue(d) > MaxInteger THEN -1 ELSE n * base + DigitValue(d),
           0, SelectSeq(digits, LAMBDA d : d # "_"))
Integer_(digits, base) ==
  LET n == radix_decode(digits, base) IN IF n = -1 THEN Error ELSE Token("Integer", << n, base >>)

\* A number with a fraction; a dot that no digit follows is left to be a token.
parse_float(src, p, fraction) ==
  LET text == SubSeq(src, p.offset + 1, fraction.offset)
  IN Read(fraction, Token("Float", SelectSeq(text, LAMBDA d : d # "_")))

\* A base prefix after a single zero, or a decimal number.
Base(b) ==
  CASE b = "b" -> [base |-> 2, digits |-> {"0", "1", "_"}]
    [] b = "o" -> [base |-> 8, digits |-> OctalDigits \cup {"_"}]
    [] b = "d" -> [base |-> 10, digits |-> Digits \cup {"_"}]
    [] b = "x" -> [base |-> 16, digits |-> HexDigits \cup {"_"}]
    [] OTHER   -> [base |-> 0, digits |-> {}]
\* Mutant: a dot belongs to the number unless it begins a range.
mutant_dot_not_range(src, p) ==
  LET whole == Digits \cup {"_"}
      end == After(src, p, whole)
      base == Base(IF Following(src, p, whole) = << "0" >> THEN Byte(src, end) ELSE "none")
      first == advance(end, "x")
      dot == advance(end, ".")
  IN CASE base.base # 0 /\ Following(src, first, base.digits) = << >> -> Read(first, Error)
       [] base.base # 0 /\ Following(src, first, base.digits) # << >> ->
            Read(After(src, first, base.digits), Integer_(Following(src, first, base.digits), base.base))
       [] base.base = 0 /\ Byte(src, end) = "." /\ Byte(src, dot) \notin {"none", "."} -> parse_float(src, p, After(src, dot, whole))
       [] OTHER -> Read(end, Integer_(Following(src, p, whole), 10))
parse_number(src, p) ==
  LET whole == Digits \cup {"_"}
      end == After(src, p, whole)
      base == Base(IF Following(src, p, whole) = << "0" >> THEN Byte(src, end) ELSE "none")
      first == advance(end, "x")
      dot == advance(end, ".")
  IN CASE base.base # 0 /\ Following(src, first, base.digits) = << >> -> Read(first, Error)
       [] base.base # 0 /\ Following(src, first, base.digits) # << >> ->
            Read(After(src, first, base.digits), Integer_(Following(src, first, base.digits), base.base))
       [] base.base = 0 /\ Byte(src, end) = "." /\ Byte(src, dot) \in Digits -> parse_float(src, p, After(src, dot, whole))
       [] OTHER -> Read(end, Integer_(Following(src, p, whole), 10))

-----------------------------------------------------------------------------
(* Strings.  Of a byte that an escape makes only its number is kept.       *)

Made(n) == << "byte", n >>
Escaped(p, value) == [pos |-> p, ok |-> TRUE, value |-> value]
Failed(p) == [pos |-> p, ok |-> FALSE, value |-> << >>]

SimpleEscapes == [e \in {"0", "a", "b", "t", "n", "v", "f", "r", "\\", "'"} |->
  CASE e = "0" -> 0 [] e = "a" -> 7 [] e = "b" -> 8 [] e = "t" -> 9 [] e = "n" -> 10 [] e = "v" -> 11 [] e = "f" -> 12
    [] e = "r" -> 13 [] e = "\\" -> 92 [] e = "'" -> 39]

\* count digits of a set and their value in a byte: an octal escape can be too
\* large for one, and loses its upper bits.
Numbered(src, p, count, set, base) ==
  LET digits == SubSeq(src, p.offset + 1, Capped(p.offset + count, Len(src)))
      Wrong == {n \in 1 .. Len(digits) : digits[n] \notin set}
      ok == Wrong = {} /\ Len(digits) = count
      read == IF Wrong = {} THEN Len(digits) ELSE (CHOOSE n \in Wrong : \A m \in Wrong : n <= m) - 1
  IN IF ~ok THEN Failed(Over(src, p, read))
     ELSE Escaped(Over(src, p, count), << Made(FoldLeft(LAMBDA n, d : (n * base + DigitValue(d)) % 256, 0, digits)) >>)
parse_string_hex_escape(src, p) == Numbered(src, p, 2, HexDigits, 16)
parse_string_octal_escape(src, p) == Numbered(src, p, 3, OctalDigits, 8)

\* \u{...} or \u{U+...}: a character, which is kept as its number.
parse_string_unicode_escape(src, p) ==
  LET open == advance(p, "{")
      plus == IF Byte(src, open) = "U" THEN advance(open, "U") ELSE open
      start == IF plus # open /\ Byte(src, plus) = "+" THEN advance(plus, "+") ELSE plus
      digits == Following(src, start, HexDigits)
      end == After(src, start, HexDigits)
      value == FoldLeft(LAMBDA n, d : n * 16 + DigitValue(d), 0, digits)
  IN CASE Byte(src, p) # "{" -> Failed(p)
       [] Byte(src, p) = "{" /\ plus # open /\ start = plus -> Failed(plus)
       [] Byte(src, p) = "{" /\ ~(plus # open /\ start = plus) ->
            IF Len(digits) \notin 1 .. 8 \/ value \in 55296 .. 57343 \/ value > 1114111 \/ Byte(src, end) # "}" THEN Failed(end)
            ELSE Escaped(advance(end, "}"), << << "char", value >> >>)

parse_string_escape(src, p) ==
  LET e == Byte(src, p)
      next == advance(p, e)
  IN CASE e \in DOMAIN SimpleEscapes -> Escaped(next, << Made(SimpleEscapes[e]) >>)
       [] e = "\"" -> Escaped(next, << << "src", "\"" >> >>)
       [] e = "x" -> parse_string_hex_escape(src, next)
       [] e = "o" -> parse_string_octal_escape(src, next)
       [] e = "u" -> parse_string_unicode_escape(src, next)
       [] OTHER -> Failed(p)

\* The value of a string is text, or bytes when it is not UTF-8.
Plain(item) == IF item[1] = "src" THEN item[2]
               ELSE IF item[1] = "byte" /\ item[2] > 127 THEN (IF item[2] \in 192 .. 255 THEN "lead" ELSE "cont") ELSE "a"
StringToken(value) ==
  Token(IF Utf8([n \in DOMAIN value |-> Plain(value[n])]) THEN "String" ELSE "BString", value)

\* The next piece of a string: an escape or a byte that stands for itself.
Piece(src, p) ==
  IF Byte(src, p) = "\\" THEN parse_string_escape(src, advance(p, "\\"))
  ELSE Escaped(advance(p, Byte(src, p)), << << "src", Byte(src, p) >> >>)
RECURSIVE StringFrom(_, _, _), StringAfter(_, _, _)
StringAfter(src, piece, value) ==
  IF piece.ok THEN StringFrom(src, piece.pos, value \o piece.value) ELSE Read(piece.pos, Error)
StringFrom(src, p, value) ==
  CASE Byte(src, p) = "none" -> Read(p, Error)
    [] Byte(src, p) = "\"" -> Read(advance(p, "\""), StringToken(value))
    [] OTHER -> StringAfter(src, Piece(src, p), value)
parse_string(src, p) == StringFrom(src, advance(p, "\""), << >>)

-----------------------------------------------------------------------------
(* Comments and single bytes.                                              *)

\* Up to the end of the line; a carriage return before it is not part of the text.
LineComment(src, p, text) ==
  LET InLine == {src[n] : n \in DOMAIN src} \ {"newline"}
      bytes == Following(src, p, InLine)
      body == IF bytes # << >> /\ Last(bytes) = "cr" THEN Front(bytes) ELSE bytes
  IN Read(After(src, p, InLine), IF Utf8(body) THEN Token("Comment", text \o body) ELSE Error)
parse_comment(src, p) == LineComment(src, p, << >>)
parse_slash_comment(src, p) == LineComment(src, advance(p, "/"), << "/", "/" >>)

\* The opening star may not be the closing one; comments do not nest.
parse_block_comment(src, p) ==
  LET start == advance(p, "*")
      Closings == {n \in start.offset + 1 .. Len(src) - 1 : src[n] = "*" /\ src[n + 1] = "/"}
      end == CHOOSE n \in Closings : \A m \in Closings : n <= m
      text == SubSeq(src, start.offset + 1, end + 1)
  IN IF Closings = {} THEN Read(Over(src, start, Len(src) - start.offset), Error)
     ELSE Read(Over(src, start, Len(text)), IF Utf8(text) THEN Token("Comment", << "/", "*" >> \o text) ELSE Error)

parse_slash_or_comment(src, p) ==
  LET next == advance(p, "/")
  IN CASE Byte(src, next) = "/" -> parse_slash_comment(src, next)
       [] Byte(src, next) = "*" -> parse_block_comment(src, next)
       [] OTHER                 -> Read(next, Token("/", << >>))

\* An invalid byte is not consumed.
parse_single_byte(src, p) ==
  LET b == Byte(src, p)
  IN IF b \in Signs \cup Spaces THEN Read(advance(p, b), Token(b, << >>)) ELSE Read(p, Error)

Lexed(src, p) ==
  LET b == Byte(src, p)
  IN CASE b = "none" -> Read(p, Eof)
       [] b = "tick" -> parse_atypical_identifier(src, p)
       [] b \in Letters \cup NonAscii \cup {"_"} -> parse_typical_identifier(src, p)
       [] b \in Digits -> parse_number(src, p)
       [] b = "\"" -> parse_string(src, p)
       [] b = "#" -> parse_comment(src, p)
       [] b = "/" -> parse_slash_or_comment(src, p)
       [] OTHER -> parse_single_byte(src, p)

\* The next token with its start and end; an error is the token Eof, and trivia
\* are passed over unless they are asked for.
RECURSIVE parse_next_token(_, _, _), TokenAt(_, _, _, _)
TokenAt(src, p, trivia, read) ==
  IF ~trivia /\ IsTrivia(read.token) THEN parse_next_token(src, read.pos, trivia)
  ELSE [token |-> IF read.token = Error THEN Eof ELSE read.token, start |-> p, end |-> read.pos]
parse_next_token(src, p, trivia) == TokenAt(src, p, trivia, Lexed(src, p))
=============================================================================
