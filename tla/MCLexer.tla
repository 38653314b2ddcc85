------------------------------ MODULE MCLexer -------------------------------
(***************************************************************************)
(* Lexer with every line of up to three of all ten characters, of four or  *)
(* five that may expand something, of four or five that only quote,        *)
(* separate or are text, and of five or six that may be words behind a $?; *)
(* and two longer ones.                                                    *)
(***************************************************************************)
EXTENDS Lexer

Expanding == {"a", " ", "$", "?", "<", "|", "\""}

Plain == {"a", " ", "|", "'", "\""}

Asking == {"a", " ", "$", "?"}

MCLines ==
  UNION {[1 .. n -> Chars] : n \in 1 .. 3} \cup
  [1 .. 4 -> Expanding] \cup [1 .. 5 -> Expanding] \cup
  [1 .. 4 -> Plain] \cup [1 .. 5 -> Plain] \cup
  [1 .. 5 -> Asking \cup {"1"}] \cup [1 .. 6 -> Asking] \cup
  {<<"$", "?", "$", "a", "?", " ", "a">>,
   <<"$", "?", "\"", "\"", " ", "\"", " ", "\"">>}

=============================================================================
