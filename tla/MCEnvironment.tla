--------------------------- MODULE MCEnvironment ----------------------------
(***************************************************************************)
(* Environment with three valid names and one that is not: the shell is    *)
(* started with an empty environment, with a usual one, or with one that   *)
(* has an entry export would refuse.  A line with a name alone comes       *)
(* before those with a value.                                              *)
(***************************************************************************)
EXTENDS ExportPrint, TLC

CONSTANTS pwd, oldpwd, home, bad, d1, d2, text

E(n, v) == [name |-> n, value |-> v]

MCNames  == {pwd, oldpwd, home, bad}
MCValid  == {pwd, oldpwd, home}
MCDirs   == {d1, d2}
MCValues == {d1, d2, text}
MCEnvs   == {<<>>, <<E(home, d2), E(pwd, d1)>>, <<E(bad, text)>>}

NameRank == (bad :> 0) @@ (home :> 1) @@ (oldpwd :> 2) @@ (pwd :> 3)

ValueRank == (Declared :> 0) @@ (d1 :> 1) @@ (d2 :> 2) @@ (text :> 3)

MCRank ==
  [e \in Printable |-> 4 * NameRank[e.name] + ValueRank[e.value]]

=============================================================================
