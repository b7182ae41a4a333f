----------------------------- MODULE TokenStream -----------------------------
(***************************************************************************)
(* What the lexer promises the parser: a stream of tokens with a place in  *)
(* it.  Looking at the next token changes nothing, taking it moves the     *)
(* place behind it, and rewinding to a place that was saved makes the      *)
(* tokens behind it come again.                                            *)
(***************************************************************************)
EXTENDS LexRules

CONSTANT Awaited   \* kinds of tokens that skip_if and skip_while are called with

VARIABLES
  source,
  at,           \* where the next token is looked for: at it, or at the trivia before it
  current,      \* the end of the last token taken, or the place of the last rewind
  returned,     \* the last token an operation returned, or skipped
  saved         \* a place the caller keeps

vars == << source, at, current, returned, saved >>

TokenFrom(p) == parse_next_token(source, p, FALSE)

Init ==
  /\ source \in Seq(Bytes)
  /\ at = StartOfSource
  /\ current = StartOfSource
  /\ returned = << >>
  /\ saved = StartOfSource

\* Trivia are passed over without a trace.
Peek ==
  \E t \in {TokenFrom(at)} :
    /\ at' \in {at, t.start}
    /\ returned' \in {returned, t}
    /\ UNCHANGED << source, current, saved >>

Take ==
  \E t \in {TokenFrom(at)} :
    /\ returned' = t
    /\ current' = t.end
    /\ at' = t.end
    /\ UNCHANGED << source, saved >>

\* Tokens are taken up to and with the first of a kind, or up to an Eof.
RECURSIVE Skipped(_, _, _)
Skipped(t, end, kind) ==
  CASE t.token = Eof       -> [at |-> t.start, end |-> end, last |-> t]
    [] t.token.kind = kind -> [at |-> t.end, end |-> t.end, last |-> t]
    [] OTHER               -> Skipped(TokenFrom(t.end), t.end, kind)
SkipWhile ==
  \E kind \in Awaited :
    \E s \in {Skipped(TokenFrom(at), current, kind)} :
      /\ returned' = s.last
      /\ current' = s.end
      /\ at' = s.at
      /\ UNCHANGED << source, saved >>

\* The place before the next token, or behind the last one.
Save ==
  \/ saved' = current /\ UNCHANGED << source, at, current, returned >>
  \/ \E t \in {TokenFrom(at)} : saved' = t.start /\ at' = t.start /\ UNCHANGED << source, current, returned >>

Rewind ==
  /\ at' = saved
  /\ current' = saved
  /\ UNCHANGED << source, returned, saved >>

Next == Peek \/ Take \/ SkipWhile \/ Save \/ Rewind
Spec == Init /\ [][Next]_vars
=============================================================================
