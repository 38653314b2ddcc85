------------------------------ MODULE Session -------------------------------
(***************************************************************************)
(* Lines at the prompt, one after the other: the lexer cuts a line into    *)
(* tokens, the parser makes its commands of them, and these are executed.  *)
(* The three share the exit status register, which an interrupt may write  *)
(* at any moment.  Lexer and Parser are composed as they are, the one's    *)
(* pieces being the other's tokens; what the execution of a line leaves in *)
(* the register, Statuses, is an input here.                               *)
(***************************************************************************)
EXTENDS Lexer, Parser

VARIABLES
  where,       \* "prompt", "lexer", "parser", or "execution"
  left,        \* history: what the last line left in the register
  shown,       \* history: what each $? of the line was replaced by
  interrupted  \* history: an interrupt came since the last line ended

historyVars == <<left, shown, interrupted>>
vars == <<where, status, lexerVars, parserVars, historyVars>>

Init ==
  /\ where = "prompt"
  /\ status = 0
  /\ line = <<>> /\ value = <<>> /\ start = 1 /\ end = 1
  /\ pieces = <<>> /\ pc = "done"
  /\ tokens = <<>> /\ current = 1 /\ commands = <<>> /\ i = 0
  /\ result = "refused"
  /\ left = 0
  /\ shown = <<>>
  /\ interrupted = FALSE

-----------------------------------------------------------------------------
(* process_line: a line that is not empty is read. *)
ReadLine ==
  /\ where = "prompt"
  /\ line' \in Lines
  /\ value' \in ValuesOf(line')
  /\ start' = 1
  /\ end' = 1
  /\ pieces' = <<>>
  /\ pc' = "check"
  /\ where' = "lexer"
  /\ UNCHANGED <<status, parserVars, historyVars>>

(* convert_exit_status: the values that only the shell knows. *)
ConvertExitStatus(s) == IF s = 200 THEN 1 ELSE IF s = 100 THEN 0 ELSE s

(***************************************************************************)
(* What each $? in the pieces of this step is replaced by.  One outside of *)
(* quotes reads the register and clears it; one in double quotes is shown  *)
(* the register as it is, and there may be several in a piece.             *)
(***************************************************************************)
IsStatusPiece(k) ==
  IsStatusWord(pieces'[k].from, pieces'[k].to + 1)

QuotedStatuses(k) ==
  {p \in pieces'[k].from .. pieces'[k].to - 1 :
     /\ At(pieces'[k].from) = "\""
     /\ At(p) = "$"
     /\ At(p + 1) = "?"
     /\ ExpandsHere(SubSeq(pieces', 1, k - 1))}

Register(k) ==
  IF \E h \in Len(pieces) + 1 .. k - 1 : IsStatusPiece(h) THEN 0 ELSE status

ReplacedIn(k) ==
  IF IsStatusPiece(k)
  THEN <<[quoted |-> FALSE, as |-> ConvertExitStatus(Register(k))]>>
  ELSE [n \in 1 .. Cardinality(QuotedStatuses(k)) |->
          [quoted |-> TRUE, as |-> Register(k)]]

(* The same of the new pieces up to the k-th. *)
Replaced[k \in Len(pieces) .. Len(pieces')] ==
  IF k = Len(pieces) THEN <<>> ELSE Replaced[k - 1] \o ReplacedIn(k)

(* tokenize, and join_nodes and suprimer_quote behind it. *)
Tokenize ==
  /\ where = "lexer"
  /\ Lex
  /\ shown' = IF pc = "scan" THEN shown \o Replaced[Len(pieces')] ELSE shown
  /\ UNCHANGED <<where, parserVars, left, interrupted>>

(***************************************************************************)
(* make_prompt goes on, and nothing of the line is kept; s is what the     *)
(* line should have left.                                                  *)
(***************************************************************************)
BackToPrompt(s) ==
  /\ where' = "prompt"
  /\ left' = IF interrupted THEN status' ELSE s
  /\ interrupted' = FALSE
  /\ shown' = <<>>
  /\ line' = <<>> /\ value' = <<>> /\ start' = 1 /\ end' = 1
  /\ pieces' = <<>> /\ pc' = "done"
  /\ tokens' = <<>> /\ current' = 1 /\ commands' = <<>> /\ i' = 0
  /\ result' = "refused"

(* An open quote, or a line of blanks: there is no token. *)
NoToken ==
  /\ where = "lexer"
  /\ pc = "done"
  /\ pieces = <<>>
  /\ UNCHANGED status
  /\ BackToPrompt(IF IsClosedQuotes THEN left ELSE 0)

(* parsing_process: the parser gets the tokens without their text. *)
StartParser ==
  /\ where = "lexer"
  /\ pc = "done"
  /\ pieces # <<>>
  /\ tokens' = [k \in DOMAIN pieces |->
                  [type |-> pieces[k].type, tail |-> pieces[k].tail,
                   found |-> pieces[k].found, quoted |-> pieces[k].quoted]]
  /\ current' = 1
  /\ commands' = <<NewCommand>>
  /\ i' = 0
  /\ result' = "parsing"
  /\ where' = "parser"
  /\ UNCHANGED <<status, lexerVars, historyVars>>

Parse ==
  /\ where = "parser"
  /\ \/ HandlePipe \/ HandleRedir \/ HandleHeredoc \/ HandleWord
     \/ SyntaxError \/ Accept
  /\ where' = IF result' = "accepted" THEN "execution" ELSE where
  /\ UNCHANGED <<lexerVars, historyVars>>

Refused ==
  /\ where = "parser"
  /\ result = "refused"
  /\ UNCHANGED status
  /\ BackToPrompt(2)

(* interupte_herdoc and part_execution. *)
Execute ==
  /\ where = "execution"
  /\ status' \in Statuses
  /\ BackToPrompt(status')

(* my_handler: while a line is executed others see to interrupts. *)
Interrupt ==
  /\ where # "execution"
  /\ status' = 130
  /\ interrupted' = TRUE
  /\ UNCHANGED <<where, lexerVars, parserVars, left, shown>>

Shell ==
  \/ Tokenize \/ NoToken \/ StartParser \/ Parse \/ Refused \/ Execute

Next == ReadLine \/ Shell \/ Interrupt

Spec == Init /\ [][Next]_vars

-----------------------------------------------------------------------------
(***************************************************************************)
(* Reference: what a line says, by its characters.  An item is a word or   *)
(* an operator, given by its first and last position.                      *)
(***************************************************************************)
Items == WordRuns \cup Operators

Kind(r) ==
  IF r \in WordRuns THEN "word"
  ELSE IF line[r[1]] = "|" THEN "pipe"
  ELSE IF r[1] = r[2] THEN IF line[r[1]] = "<" THEN "in" ELSE "out"
  ELSE IF line[r[1]] = "<" THEN "heredoc" ELSE "append"

Pipes == {r \in Items : Kind(r) = "pipe"}

(* Whether nothing is between the items r and s. *)
Adjacent(r, s) ==
  r[2] < s[1] /\ \A t \in Items : ~(r[2] < t[1] /\ t[2] < s[1])

(* Commands between pipes, none of them empty, and a word behind each      *)
(* other operator.                                                         *)
InLineGrammar ==
  /\ Items # {}
  /\ \A r \in Pipes : /\ \E s \in Items \ Pipes : Adjacent(s, r)
                      /\ \E s \in Items \ Pipes : Adjacent(r, s)
  /\ \A r \in Operators \ Pipes : \E s \in WordRuns : Adjacent(r, s)

(* The words of command c that stand behind an operator in T, or behind    *)
(* none.                                                                   *)
WordsOf(c, T) ==
  {w \in WordRuns :
     /\ c = 1 + Cardinality({r \in Pipes : r[2] < w[1]})
     /\ \E r \in Items : Kind(r) \in T /\ Adjacent(r, w)}

ArgumentsOf(c) ==
  {w \in WordRuns : c = 1 + Cardinality({r \in Pipes : r[2] < w[1]})}
    \ WordsOf(c, {"in", "out", "append", "heredoc"})

(* The tokens at the positions s are the items in S, in their order. *)
Are(s, S) ==
  /\ {<<pieces[s[k]].from, pieces[s[k]].to>> : k \in DOMAIN s} = S
  /\ \A k \in 1 .. Len(s) - 1 : pieces[s[k]].to < pieces[s[k + 1]].from

-----------------------------------------------------------------------------
(***************************************************************************)
(* Properties.                                                             *)
(***************************************************************************)

(***************************************************************************)
(* From the characters of a line to its commands: a line whose quotes are  *)
(* closed is executed if it is in the grammar and refused if it is not,    *)
(* and what is executed is what it says: each word is an argument, the     *)
(* name of a file or the end of a here-document of the command it stands   *)
(* in, and nothing else is.  Lexer and parser each know a part of this:    *)
(* the parser looks at types and at tokens the lexer has joined.           *)
(***************************************************************************)
ExecutesWhatItSays ==
  Ordinary =>
    /\ where = "parser" /\ result = "refused" => ~InLineGrammar
    /\ where = "execution" =>
         /\ IsClosedQuotes
         /\ InLineGrammar
         /\ Len(commands) = 1 + Cardinality(Pipes)
         /\ \A c \in DOMAIN commands :
              /\ Are(commands[c].args, ArgumentsOf(c))
              /\ Are(commands[c].redir, WordsOf(c, {"in", "out", "append"}))
              /\ Are(commands[c].herdoc, WordsOf(c, {"heredoc"}))

(***************************************************************************)
(* $? shows what the line before left: 2 after one that was refused, 0     *)
(* after an open quote, what it was before after a line of blanks, and     *)
(* the status of what was executed.  Outside of quotes the two values that *)
(* only the shell knows are translated, and every $? behind shows 0; in    *)
(* double quotes they are not.  An interrupt changes what is shown to 130. *)
(***************************************************************************)
ShowsWhatWasLeft ==
  /\ where = "prompt" /\ ~interrupted => status = left
  /\ \A k \in DOMAIN shown :
       LET cleared == \E h \in 1 .. k - 1 : ~shown[h].quoted
           expected == IF cleared THEN 0
                       ELSE IF shown[k].quoted THEN left
                       ELSE IF left = 200 THEN 1
                       ELSE IF left = 100 THEN 0
                       ELSE left IN
         shown[k].as = expected \/ (interrupted /\ shown[k].as = 130)

=============================================================================
