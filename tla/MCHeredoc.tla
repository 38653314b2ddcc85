----------------------------- MODULE MCHeredoc ------------------------------
(***************************************************************************)
(* Heredoc with lines of up to three commands and up to three documents.   *)
(***************************************************************************)
EXTENDS Heredoc

D(n) == [docs |-> n, builtin |-> FALSE]
B(n) == [docs |-> n, builtin |-> TRUE]

MCLines ==
  {<<D(0)>>, <<B(1)>>, <<B(2)>>, <<D(3)>>, <<D(1), D(2)>>, <<D(2), D(0), D(1)>>}

=============================================================================
