------------------------------ MODULE MCParser ------------------------------
(***************************************************************************)
(* Parser with every list of up to five tokens of eight sorts.             *)
(***************************************************************************)
EXTENDS Parser

T(type) == [type |-> type, tail |-> type, found |-> FALSE, quoted |-> FALSE]

Sorts ==
  {T("word"), [T("word") EXCEPT !.quoted = TRUE],
   [T("word") EXCEPT !.found = TRUE], [T("word") EXCEPT !.tail = "out"],
   T("pipe"), T("in"), T("append"), T("heredoc")}

MCTokenLists == UNION {[1 .. n -> Sorts] : n \in 1 .. 5}

=============================================================================
