------------------------------- MODULE Parser -------------------------------
(***************************************************************************)
(* The parser: it walks the tokens of a line once and appends what it      *)
(* finds to the last command of a list.  A token stands for its position   *)
(* in the line.  The definitions named X_... are what a slip could make of *)
(* the definition X that follows; no action uses them.                     *)
(***************************************************************************)
EXTENDS Tokens

CONSTANT TokenLists  \* the token lists to parse

(***************************************************************************)
(* A token.  The lexer joins adjacent tokens into the first of them, and   *)
(* the prev of the token behind still points to the last one: tail is its  *)
(* type.                                                                   *)
(***************************************************************************)
Token == [type   : Types,
          tail   : Types,
          found  : BOOLEAN,   \* it comes from an expansion to nothing
          quoted : BOOLEAN]   \* it had quotes

ASSUME ParserAssumption ==
  \A l \in TokenLists : l \in Seq(Token) /\ Len(l) > 0

VARIABLES
  tokens,      \* the tokens of the line
  current,     \* the position of the token to parse
  commands,    \* the list from first_cmd to current_cmd
  i,           \* the number of here-documents of current_cmd
  result       \* "parsing", "accepted", or "refused"

parserVars == <<tokens, current, commands, i, result>>

(***************************************************************************)
(* A command: its arguments, its here-documents, whether the text of these *)
(* is kept as it is, and its redirections, each by the word it has; what   *)
(* kind a redirection is the token before the word says.                   *)
(***************************************************************************)
NewCommand == [args |-> <<>>, herdoc |-> <<>>, cmd_quoted |-> FALSE,
               redir |-> <<>>]

ParserInit ==
  /\ tokens \in TokenLists
  /\ current = 1
  /\ commands = <<NewCommand>>
  /\ i = 0
  /\ status \in Statuses
  /\ result = "parsing"

-----------------------------------------------------------------------------
Parses(T) ==
  /\ result = "parsing"
  /\ current <= Len(tokens)
  /\ tokens[current].type \in T

NextIsWord == current < Len(tokens) /\ tokens[current + 1].type = "word"

PipeFits_AtStart ==
  /\ current < Len(tokens)
  /\ tokens[current + 1].type # "pipe"

PipeFits ==
  /\ current > 1
  /\ tokens[current - 1].tail = "word"
  /\ current < Len(tokens)
  /\ tokens[current + 1].type # "pipe"

(* The list with its last command changed. *)
CurrentCmd == commands[Len(commands)]

WithCurrentCmd(c) == [commands EXCEPT ![Len(commands)] = c]

HandlePipe_KeepsCount ==
  /\ Parses({"pipe"})
  /\ PipeFits
  /\ commands' = Append(commands, NewCommand)
  /\ current' = current + 1
  /\ UNCHANGED <<tokens, i, status, result>>

HandlePipe ==
  /\ Parses({"pipe"})
  /\ PipeFits
  /\ commands' = Append(commands, NewCommand)
  /\ i' = 0
  /\ current' = current + 1
  /\ UNCHANGED <<tokens, status, result>>

HandleRedir ==
  /\ Parses(RedirTypes)
  /\ NextIsWord
  /\ commands' = WithCurrentCmd(
       [CurrentCmd EXCEPT !.redir = Append(@, current + 1)])
  /\ current' = current + 2
  /\ UNCHANGED <<tokens, i, status, result>>

(***************************************************************************)
(* heredoc_realloc copies i entries into a new array: what the old one     *)
(* does not have is not initialised.                                       *)
(***************************************************************************)
Garbage == 0

HeredocRealloc(old, k) ==
  [j \in 1 .. i + 1 |-> IF j = i + 1 THEN k
                        ELSE IF j \in DOMAIN old THEN old[j] ELSE Garbage]

HandleHeredoc ==
  /\ Parses({"heredoc"})
  /\ NextIsWord
  /\ commands' = WithCurrentCmd(
       [CurrentCmd EXCEPT !.herdoc = HeredocRealloc(@, current + 1),
                          !.cmd_quoted = tokens[current + 1].quoted])
  /\ i' = i + 1
  /\ current' = current + 2
  /\ UNCHANGED <<tokens, status, result>>

(* A word that an expansion left empty is no argument; 100 records it. *)
HandleWord ==
  /\ Parses({"word"})
  /\ IF tokens[current].found
     THEN status' = 100 /\ UNCHANGED commands
     ELSE /\ commands' = WithCurrentCmd(
               [CurrentCmd EXCEPT !.args = Append(@, current)])
          /\ UNCHANGED status
  /\ current' = current + 1
  /\ UNCHANGED <<tokens, i, result>>

(* A syntax error: the line is dropped with the status 2. *)
SyntaxError ==
  /\ \/ Parses({"pipe"}) /\ ~PipeFits
     \/ Parses(RedirTypes \cup {"heredoc"}) /\ ~NextIsWord
  /\ i' = IF Parses({"pipe"}) THEN 0 ELSE i
  /\ status' = 2
  /\ result' = "refused"
  /\ UNCHANGED <<tokens, current, commands>>

Accept ==
  /\ result = "parsing"
  /\ current > Len(tokens)
  /\ result' = "accepted"
  /\ UNCHANGED <<tokens, current, commands, i, status>>

Parsed == result # "parsing" /\ UNCHANGED <<parserVars, status>>

ParserNext ==
  \/ HandlePipe \/ HandleRedir \/ HandleHeredoc \/ HandleWord
  \/ SyntaxError \/ Accept \/ Parsed

ParserSpec == ParserInit /\ [][ParserNext]_<<parserVars, status>>

-----------------------------------------------------------------------------
(***************************************************************************)
(* Reference: what a list of tokens means, by position.                    *)
(***************************************************************************)
IsPipe(k) == tokens[k].type = "pipe"

IsOperator(k) == tokens[k].type \in RedirTypes \cup {"heredoc"}

(* The command a position belongs to: one more than the pipes before it. *)
CommandOf(k) == 1 + Cardinality({p \in 1 .. k - 1 : IsPipe(p)})

Follows(k, T) == k > 1 /\ tokens[k - 1].type \in T

(* A line is commands between pipes; a command is words and operators,     *)
(* each operator with a word behind it; it is not empty.                   *)
InGrammar ==
  /\ ~IsPipe(1)
  /\ ~IsPipe(Len(tokens))
  /\ \A k \in 1 .. Len(tokens) - 1 : IsPipe(k) => ~IsPipe(k + 1)
  /\ \A k \in 1 .. Len(tokens) : IsOperator(k) =>
       k < Len(tokens) /\ tokens[k + 1].type = "word"

(* s lists the positions in S in their order. *)
Lists(s, S) ==
  /\ {s[k] : k \in DOMAIN s} = S
  /\ \A k \in 1 .. Len(s) - 1 : s[k] < s[k + 1]

Words(c, T) == {k \in 1 .. current - 1 :
                  /\ CommandOf(k) = c
                  /\ tokens[k].type = "word"
                  /\ Follows(k, T)}

Arguments(c) == {k \in 1 .. current - 1 :
                   /\ CommandOf(k) = c
                   /\ tokens[k].type = "word"
                   /\ ~tokens[k].found
                   /\ ~Follows(k, RedirTypes \cup {"heredoc"})}

-----------------------------------------------------------------------------
(***************************************************************************)
(* Properties.                                                             *)
(***************************************************************************)
Command == [args : Seq(Nat), herdoc : Seq(Nat), cmd_quoted : BOOLEAN,
            redir : Seq(Nat)]

ParserTypeOK ==
  /\ tokens \in Seq(Token) \ {<<>>}
  /\ current \in 1 .. Len(tokens) + 1
  /\ commands \in Seq(Command) \ {<<>>}
  /\ i \in Nat
  /\ status \in Nat
  /\ result \in {"parsing", "accepted", "refused"}

(***************************************************************************)
(* The parser looks at one neighbour of a token at most, and accepts the   *)
(* lines of the grammar.  The exception are joined tokens that end in what *)
(* is no word: a pipe behind one is refused.                               *)
(***************************************************************************)
Plain == \A k \in 1 .. Len(tokens) : tokens[k].tail = tokens[k].type

AcceptsTheGrammar ==
  /\ result = "accepted" => InGrammar
  /\ result = "refused" /\ Plain => ~InGrammar

(***************************************************************************)
(* At every moment the commands hold what was read of the line, each word  *)
(* in its place and in its order: its arguments, its redirections and its  *)
(* here-documents, of which the last decides whether they are expanded.    *)
(* Nothing of one command is left in the next, and no entry of the array   *)
(* of here-documents is read that was not written.                         *)
(***************************************************************************)
LastQuoted(c) ==
  LET S == Words(c, {"heredoc"}) IN
    \E k \in S : tokens[k].quoted /\ \A h \in S : h <= k

CommandsAreTheLine ==
  /\ result = "accepted" =>
       Len(commands) = 1 + Cardinality({p \in DOMAIN tokens : IsPipe(p)})
  /\ \A c \in 1 .. Len(commands) :
       /\ Lists(commands[c].args, Arguments(c))
       /\ Lists(commands[c].redir, Words(c, RedirTypes))
       /\ Lists(commands[c].herdoc, Words(c, {"heredoc"}))
       /\ commands[c].cmd_quoted = LastQuoted(c)

=============================================================================
