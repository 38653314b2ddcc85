----------------------------- MODULE MCPipeline -----------------------------
(***************************************************************************)
(* Instances of Pipeline for TLC: the command lines of each run.           *)
(***************************************************************************)
EXTENDS PipelineInvariant

S(kind)     == [kind |-> kind, redir |-> "none", code |-> 0]
R(kind, r)  == [kind |-> kind, redir |-> r, code |-> 0]
C(kind, c)  == [kind |-> kind, redir |-> "none", code |-> c]

(* Every way a stage can end without a signal, alone and behind a pipe. *)
Enders ==
  {S("missing"), C("noexec", 126), C("noexec", 127), S("empty"),
   R("none", "out"), R("prog", "bad"), C("prog", 3)}
Builtin == {S("echo"), S("newline"), C("quiet", 200), C("exit", 0), C("exit", 7)}
Firsts == {S("echo"), S("newline"), R("cat", "in"), C("prog", 3)}
Lasts  == {S("cat"), S("head"), R("cat", "out"), R("cat", "in")}
          \cup Enders \cup Builtin

StatusLines ==
  {<<s>> : s \in Enders \cup {S("cat")}} \cup
  {<<s, t>> : s \in Firsts \cup Enders, t \in Lasts}

(* Lines for signals: readers of the terminal, writers that never stop. *)
SignalLines ==
  {<<S("cat")>>, <<S("yes"), S("head")>>, <<S("cat"), C("quiet", 3)>>,
   <<C("prog", 3), S("cat"), S("newline")>>}

(* Lines for refused calls: the longest lines, so that every place of the  *)
(* fork loop can fail.                                                     *)
FailureLines ==
  {<<C("prog", 3)>>, <<S("echo"), S("head")>>,
   <<S("yes"), S("cat"), S("head")>>, <<S("echo"), C("prog", 3), S("cat")>>}

(* Lines that end by themselves. *)
EndingLines ==
  {<<C("prog", 3)>>, <<S("yes"), S("head")>>, <<S("yes"), R("cat", "in")>>,
   <<S("yes"), S("cat"), S("head")>>, <<S("yes"), S("yes"), C("prog", 3)>>,
   <<S("echo"), S("cat"), S("cat")>>}

(* Every command line of two runs: with signals, and with refused calls.   *)
SignalledLines == StatusLines \cup SignalLines
FailingLines   == EndingLines \cup FailureLines

Leftovers0 == {{}}
LeftoversMany ==
  {{}, {3}, {4}, {4, 6}, {3, 5, 7}, {3, 5, 6, 7, 8}, 3 .. 8}
Statuses01 == {0, 1, 100, 200}
Statuses0 == {0}

=============================================================================
