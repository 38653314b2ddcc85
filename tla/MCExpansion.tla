---------------------------- MODULE MCExpansion -----------------------------
(***************************************************************************)
(* Expansion of every word of up to four items, with values from none to   *)
(* twice the margin, in quotes and not.                                    *)
(***************************************************************************)
EXTENDS Expansion

C(n) == [k \in 1 .. n |-> "c"]

Text(c) == [sort |-> "text", source |-> <<c>>, value |-> <<>>]

Var(v) == [sort |-> "var", source |-> C(2), value |-> v]

Firsts == {<<>>, <<Text("'")>>, <<Text("\"")>>}

Items ==
  {Text("c"), Var(<<>>), Var(C(3)), Var(C(6)), Var(<<" ", " ", "c", " ">>),
   [Var(<<>>) EXCEPT !.sort = "unset"],
   [Var(C(1)) EXCEPT !.sort = "status"], [Var(C(3)) EXCEPT !.sort = "status"]}

MCWords ==
  {f \o w : f \in Firsts, w \in UNION {[1 .. n -> Items] : n \in 1 .. 4}}

=============================================================================
