------------------------------- MODULE MCStage -------------------------------
(***************************************************************************)
(* Stages for TLC: every builtin, every way a search can end, and lists of *)
(* up to three redirections.                                               *)
(***************************************************************************)
EXTENDS Stage

K(kind, code) == [kind |-> kind, code |-> code, file |-> "absent", execve |-> "ok"]
P(kind, file, execve) ==
  [kind |-> kind, code |-> NoCode, file |-> file, execve |-> execve]

MCCommands ==
  {K("exit", NoCode), K("exit", 7), K("builtin", NoCode), K("builtin", 0),
   K("builtin", 200), K("nothing", NoCode)} \cup
  {P("name", "absent", e) : e \in {"ok", "EACCES", "ENOENT"}} \cup
  {P("slash", f, "ok") : f \in Files} \cup
  {P("slash", "exec", e) : e \in {"ENOTDIR", "ENOENT"}}

R(type, opens) == [type |-> type, opens |-> opens]
Redirs == {R("in", "yes"), R("in", "no"), R("out", "yes"), R("append", "no"),
           R("out", "dir")}
Opening == {R("in", "yes"), R("out", "yes")}

MCRedirLists ==
  UNION {[1 .. n -> Redirs] : n \in 0 .. 2} \cup [1 .. 3 -> Opening]

MCPaths ==
  {Unset, <<>>, <<"dir", "exec">>, <<"dir">>} \cup
  [1 .. 3 -> {"exec", "plain", "absent"}]

MCStatuses == {0, 1, 100, 200}
MCLeftovers == {{}, {4}, 4 .. 6, 3 .. 6}

=============================================================================
