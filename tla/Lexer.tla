-------------------------------- MODULE Lexer --------------------------------
(***************************************************************************)
(* The lexer as the parser drives it.  One token of lookahead is kept in   *)
(* preread; the position the bytes are read from is then behind that       *)
(* token, while current is behind the last token that was taken.  The      *)
(* parser looks at the first token before it turns trivia off, so that a   *)
(* source that begins with trivia starts with a token of it.               *)
(***************************************************************************)
EXTENDS LexRules, FiniteSets

CONSTANTS
  Sources,
  Awaited

VARIABLES
  source,
  internal,     \* internal_getc_pos
  current,      \* current_pos
  preread,      \* the sequence of at most one token: preread_token
  trivia,       \* trivia_enabled
  returned,     \* what the last operation returned, or skipped
  saved         \* a position the parser keeps to rewind to

vars == << source, internal, current, preread, trivia, returned, saved >>

Init ==
  /\ source \in Sources
  /\ internal = StartOfSource
  /\ current = StartOfSource
  /\ preread = << >>
  /\ trivia = TRUE
  /\ returned = << >>
  /\ saved = StartOfSource

-----------------------------------------------------------------------------
(* The lexer as a value, and what its operations make of it.               *)

Lx == [internal |-> internal, current |-> current, preread |-> preread]
Becomes(lx) == internal' = lx.internal /\ current' = lx.current /\ preread' = lx.preread

With(lx, t) == [lx EXCEPT !.preread = << t >>, !.internal = t.end]
peeked(lx) == IF lx.preread # << >> THEN lx ELSE With(lx, parse_next_token(source, lx.internal, trivia))
\* next_tok and skip_tok, once there is a token in preread.
taken(lx) == [lx EXCEPT !.preread = << >>, !.current = lx.internal]
\* Mutant: the token that was looked at stays.
mutant_rewind_keeps_token(lx, p) == [lx EXCEPT !.internal = p, !.current = p]
rewound(lx, p) == [internal |-> p, current |-> p, preread |-> << >>]

\* With the token it ends with.
RECURSIVE skipped_while(_, _)
skipped_while(lx, kind) ==
  CASE lx.preread[1].token = Eof       -> [lx |-> lx, last |-> lx.preread[1]]
    [] lx.preread[1].token.kind = kind -> [lx |-> taken(lx), last |-> lx.preread[1]]
    [] OTHER                           -> skipped_while(peeked(taken(lx)), kind)

-----------------------------------------------------------------------------
(* The operations.                                                         *)

\* The opening of parse_source.
parse_source ==
  /\ trivia
  /\ trivia' = FALSE
  /\ Becomes(peeked(Lx))
  /\ UNCHANGED << source, returned, saved >>

peek_tok ==
  /\ ~trivia
  /\ \E lx \in {peeked(Lx)} : Becomes(lx) /\ returned' = lx.preread[1]
  /\ UNCHANGED << source, trivia, saved >>

next_tok ==
  /\ ~trivia
  /\ \E lx \in {peeked(Lx)} : Becomes(taken(lx)) /\ returned' = lx.preread[1]
  /\ UNCHANGED << source, trivia, saved >>

\* The token is there already when skip_tok is called after a look at it.
skip_tok ==
  /\ ~trivia
  /\ preread # << >>
  /\ Becomes([Lx EXCEPT !.preread = << >>, !.current = internal])
  /\ returned' = preread[1]
  /\ UNCHANGED << source, trivia, saved >>

\* The next token is taken when it is of a kind, and only looked at when not.
TakenIf(kind) ==
  \E lx \in {peeked(Lx)} :
    /\ Becomes(IF lx.preread[1].token.kind = kind THEN taken(lx) ELSE lx)
    /\ returned' = lx.preread[1]

skip_if ==
  /\ ~trivia
  /\ \E kind \in Awaited : TakenIf(kind)
  /\ UNCHANGED << source, trivia, saved >>

\* Self, self, super and crate, which are names here too, are keywords to others.
next_if_name ==
  /\ ~trivia
  /\ TakenIf("Name")
  /\ UNCHANGED << source, trivia, saved >>

skip_while ==
  /\ ~trivia
  /\ \E kind \in Awaited :
       \E s \in {skipped_while(peeked(Lx), kind)} : Becomes(s.lx) /\ returned' = s.last
  /\ UNCHANGED << source, trivia, saved >>

current_pos ==
  /\ ~trivia
  /\ saved' = current
  /\ UNCHANGED << source, internal, current, preread, trivia, returned >>

peek_pos ==
  /\ ~trivia
  /\ \E lx \in {peeked(Lx)} : Becomes(lx) /\ saved' = lx.preread[1].start
  /\ UNCHANGED << source, trivia, returned >>

rewind ==
  /\ ~trivia
  /\ Becomes(rewound(Lx, saved))
  /\ UNCHANGED << source, trivia, returned, saved >>

Next == \/ parse_source \/ peek_tok \/ next_tok \/ skip_tok \/ skip_if \/ next_if_name \/ skip_while
        \/ current_pos \/ peek_pos \/ rewind
Spec == Init /\ [][Next]_vars

-----------------------------------------------------------------------------
(* Properties.                                                             *)

\* The lookahead cannot be seen: whatever is asked of the lexer, it is the stream
\* of tokens with a place in it (lex.rs:64-178).
Stream == INSTANCE TokenStream WITH
  at <- IF preread # << >> THEN preread[1].start ELSE internal
RefinesStream == Stream!Spec

\* Every position the lexer holds has the line and column of its offset, counted
\* anew, as far as lines and columns are counted (lex.rs:208-231).
Recounted(offset) ==
  LET before == SubSeq(source, 1, offset)
      Lines == {n \in DOMAIN before : before[n] = "newline"}
      InLine == {n \in DOMAIN before : before[n] \notin {"newline", "cont"} /\ \A m \in Lines : m < n}
  IN [offset |-> offset, line |-> Capped(Cardinality(Lines), MaxLine), column |-> Capped(Cardinality(InLine), MaxColumn)]
PositionsAgree ==
  \A p \in {internal, current, saved} \cup UNION {{preread[n].start, preread[n].end} : n \in DOMAIN preread} :
    p = Recounted(p.offset)

\* A token does not depend on what surrounds it: its text, alone, is that token
\* (lex.rs:259-858).
TextAlone ==
  returned # << >> =>
    LET text == SubSeq(source, returned.start.offset + 1, returned.end.offset)
        again == parse_next_token(text, StartOfSource, TRUE)
    IN returned.token # Eof => again.token = returned.token /\ again.end.offset = Len(text)
=============================================================================
