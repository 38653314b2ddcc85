----------------------------- MODULE MCSession ------------------------------
(***************************************************************************)
(* Session with every line of up to five characters that quote, separate   *)
(* or are text, every line of up to five that may be a $?, and four longer *)
(* ones.  Its state at the prompt is the register, so that any number of   *)
(* lines follow each other.                                                *)
(***************************************************************************)
EXTENDS Session

Grammar == {"a", " ", "|", "<", "'"}

Asking == {"$", "?", "\"", " "}

MCLines ==
  UNION {[1 .. n -> Grammar] : n \in 1 .. 5} \cup
  UNION {[1 .. n -> Asking] : n \in 1 .. 5} \cup
  {<<"<", "<", "a", "|", "<", "<", "a">>, <<"a", ">", ">", "$", "a", "|", "a">>,
   <<"$", "a", " ", "a", "|", "$", "a", "1">>,
   <<"\"", "$", "?", "$", "?", "\"", "$", "?", " ", "$", "?", "\"", "$", "?", "\"">>}

=============================================================================
