------------------------------ MODULE MCBuiltin ------------------------------
(***************************************************************************)
(* Instances of Builtin for TLC.  The integers are narrow: an int has ten  *)
(* bits and a long eleven, so that both limits are met.                    *)
(***************************************************************************)
EXTENDS Builtin

K(kind, code) ==
  [kind |-> kind, code |-> code, args |-> 0, numeric |-> FALSE, value |-> 0]
Exit(args, numeric, value) ==
  [kind |-> "exit", code |-> 0, args |-> args, numeric |-> numeric,
   value |-> value]

MCCommands ==
  {K("echo", 0), K("newline", 0), K("other", 1), Exit(0, FALSE, 0),
   Exit(1, FALSE, 0), Exit(2, TRUE, 3), Exit(2, FALSE, 0)} \cup
  {Exit(1, TRUE, n) : n \in {0, 3, 256, 259, -1, 511, 512, -512, -513,
                             10239, 10240, -10240}}

R(type, opens) == [type |-> type, opens |-> opens]
MCRedirs ==
  {R("in", "yes"), R("out", "yes"), R("append", "yes"), R("in", "named"),
   R("out", "other")}

(* Lists of three close a number that was closed, and perhaps reopened.    *)
LongRedirs == {R("in", "yes"), R("out", "yes"), R("out", "other")}

MCRedirLists ==
  UNION {[1 .. n -> MCRedirs] : n \in 0 .. 2} \cup [1 .. 3 -> LongRedirs]

MCLeftovers == {{}, {3}, {4}, {3, 5}, {4, 5, 6}, 3 .. 5, 3 .. 6}
Statuses01 == {0, 1, 200}

=============================================================================
