------------------------------- MODULE Lexer --------------------------------
(***************************************************************************)
(* The lexer: one pass over the characters of a line that cuts it into     *)
(* words and operators at quotes, dollars, blanks and operators, and then  *)
(* joins the pieces that belong together.  A token is kept by the          *)
(* positions it stands for; what each variable expands to is one of a few  *)
(* sorts of value.                                                         *)
(*                                                                         *)
(* The definitions named X_... are what a slip could make of the           *)
(* definition X that follows them; no action uses them.                    *)
(***************************************************************************)
EXTENDS Tokens

CONSTANTS
  Lines,       \* the lines to read
  Values       \* what a variable may expand to

(* "a" stands for a letter, "1" for a digit or any other character. *)
Quotes == {"'", "\""}
Metas == {"|", "<", ">"}
Letters == {"a", "?", "1"}
Chars == Quotes \cup Metas \cup Letters \cup {" ", "$"}

(* One word, nothing, two words, one behind a blank, or what begins with   *)
(* an operator of this type.                                               *)
OperatorTypes == Types \ {"word"}
ValueSorts == {"word", "unset", "words", "led"} \cup OperatorTypes

ASSUME LexerAssumption ==
  /\ \A l \in Lines : l \in Seq(Chars) /\ Len(l) > 0
  /\ Values \subseteq ValueSorts

(* The places of a line's variables, and what these may expand to. *)
VariablesOf(l) ==
  {p \in DOMAIN l : p < Len(l) /\ l[p] = "$" /\ l[p + 1] = "a"}

ValuesOf(l) == [VariablesOf(l) -> Values]

VARIABLES
  line,        \* the line
  value,       \* what each of its variables expands to
  start, end,  \* the piece that is read: from start to before end
  pieces,      \* the tokens
  pc           \* "check", "scan", "join", or "done"

lexerVars == <<line, value, start, end, pieces, pc>>

LexerInit ==
  /\ line \in Lines
  /\ value \in ValuesOf(line)
  /\ start = 1
  /\ end = 1
  /\ pieces = <<>>
  /\ status \in Statuses
  /\ pc = "check"

-----------------------------------------------------------------------------
(* The character at p; the line ends with a NUL. *)
At(p) == IF p \in DOMAIN line THEN line[p] ELSE "NUL"

(* The quote that is open behind each position, or "none". *)
OpenQuote[p \in 0 .. Len(line)] ==
  IF p = 0 THEN "none"
  ELSE LET q == OpenQuote[p - 1] IN
         IF q = "none" THEN IF line[p] \in Quotes THEN line[p] ELSE "none"
         ELSE IF line[p] = q THEN "none" ELSE q

IsClosedQuotes == OpenQuote[Len(line)] = "none"

(* check_somthing: a line with an open quote is dropped. *)
Unclosed ==
  /\ pc = "check"
  /\ ~IsClosedQuotes
  /\ status' = 0
  /\ pc' = "done"
  /\ UNCHANGED <<line, value, start, end, pieces>>

Closed ==
  /\ pc = "check"
  /\ IsClosedQuotes
  /\ pc' = "scan"
  /\ UNCHANGED <<line, value, start, end, pieces, status>>

-----------------------------------------------------------------------------
(* get_token_type, of the characters from s to before e. *)
GetTokenType(s, e) ==
  LET two(c) == s + 1 < e /\ At(s) = c /\ At(s + 1) = c IN
    IF two(">") THEN "append"
    ELSE IF two("<") THEN "heredoc"
    ELSE IF At(s) = ">" THEN "out"
    ELSE IF At(s) = "<" THEN "in"
    ELSE IF At(s) = "|" THEN "pipe"
    ELSE "word"

NewToken(s, e, type, join, found) ==
  [from |-> s, to |-> e - 1, type |-> type, info |-> join, found |-> found]

Mix_AtBlanks(e) == e <= Len(line) /\ At(e) \notin Metas

(* A piece is joined to what follows it at once, unless it is an operator. *)
Mix(e) == e <= Len(line) /\ At(e) \notin Metas \cup {" "}

NotJoined(toks) ==
  IF toks = <<>> THEN toks ELSE [toks EXCEPT ![Len(toks)].info = FALSE]

(* check_the_last_element: behind << nothing is expanded, and nothing in a *)
(* line that begins with one.                                              *)
ExpandsHere(toks) ==
  toks = <<>> \/ "heredoc" \notin {toks[1].type, toks[Len(toks)].type}

IsStatusWord(s, e) == At(s) = "$" /\ At(s + 1) = "?" /\ s + 1 < e

IsVariable(s, e) == At(s) = "$" /\ At(s + 1) = "a" /\ s + 1 < e

(* process_word, of the value of a variable: a value of several words is   *)
(* split, and the last of them is always joined to what follows.           *)
ProcessValue(toks, s, e) ==
  IF value[s] = "unset" THEN Append(toks, NewToken(s, e, "word", Mix(e), TRUE))
  ELSE IF value[s] = "words"
  THEN toks \o <<NewToken(s, e, "word", FALSE, FALSE), NewToken(s, e, "word", TRUE, FALSE)>>
  ELSE IF value[s] = "led"
  THEN Append(NotJoined(toks), NewToken(s, e, "word", TRUE, FALSE))
  ELSE IF value[s] \in OperatorTypes
  THEN Append(toks, NewToken(s, e, value[s], Mix(e), FALSE))
  ELSE Append(toks, NewToken(s, e, "word", Mix(e), FALSE))

(* process_word, of other text: a blank can only be its first character,   *)
(* which $? jumped over, and goes the way of a split value.                *)
ProcessText(toks, s, e) ==
  IF At(s) = " "
  THEN NotJoined(toks) \o
       (IF s + 1 = e THEN <<>> ELSE <<NewToken(s + 1, e, "word", TRUE, FALSE)>>)
  ELSE Append(toks, NewToken(s, e, GetTokenType(s, e), Mix(e), FALSE))

HandleWordToken_PastEnd(toks, s, e) ==
  IF e <= s THEN toks
  ELSE IF IsStatusWord(s, e) THEN Append(toks, NewToken(s, e, "word", Mix(e), FALSE))
  ELSE IF IsVariable(s, e) /\ ExpandsHere(toks) THEN ProcessValue(toks, s, e)
  ELSE ProcessText(toks, s, e)

(* handle_word_token: the tokens with the piece from s to before e. *)
HandleWordToken(toks, s, e) ==
  IF e <= s \/ s > Len(line) THEN toks
  ELSE IF IsStatusWord(s, e) THEN Append(toks, NewToken(s, e, "word", Mix(e), FALSE))
  ELSE IF IsVariable(s, e) /\ ExpandsHere(toks) THEN ProcessValue(toks, s, e)
  ELSE ProcessText(toks, s, e)

(* convert_exit_status: reading $? sets the status to 0. *)
StatusAfter(s, e) == IF e > s /\ IsStatusWord(s, e) THEN 0 ELSE status

-----------------------------------------------------------------------------
(* The loop of tokenize. *)
Scans(S) == pc = "scan" /\ end <= Len(line) /\ At(end) \in S

(* The first position from p on with a character that is not in S. *)
Behind(p, S) ==
  CHOOSE n \in p .. Len(line) + 1 :
    At(n) \notin S /\ \A k \in p .. n - 1 : At(k) \in S

HandleDollar ==
  /\ Scans({"$"})
  /\ At(end + 1) = "a"
  /\ LET e == Behind(end + 1, {"a"}) IN
       /\ pieces' = HandleWordToken(HandleWordToken(pieces, start, end), end, e)
       /\ start' = e
       /\ end' = e
  /\ status' = StatusAfter(start, end)
  /\ UNCHANGED <<line, value, pc>>

HandleStatus_KeepsStatus ==
  /\ Scans({"$"})
  /\ At(end + 1) = "?"
  /\ pieces' = HandleWordToken(HandleWordToken(pieces, start, end), end, end + 2)
  /\ start' = end + 2
  /\ end' = end + 3
  /\ UNCHANGED <<line, value, status, pc>>

(* $?: the character behind it is jumped over without a look at it. *)
HandleStatus ==
  /\ Scans({"$"})
  /\ At(end + 1) = "?"
  /\ pieces' = HandleWordToken(HandleWordToken(pieces, start, end), end, end + 2)
  /\ start' = end + 2
  /\ end' = end + 3
  /\ status' = 0
  /\ UNCHANGED <<line, value, pc>>

HandleLoneDollar ==
  /\ Scans({"$"})
  /\ At(end + 1) \notin {"a", "?"}
  /\ pieces' = HandleWordToken(pieces, start, end)
  /\ start' = end
  /\ end' = end + 1
  /\ status' = StatusAfter(start, end)
  /\ UNCHANGED <<line, value, pc>>

HandleSpecialeToken ==
  /\ Scans(Metas)
  /\ LET e == IF At(end) # "|" /\ At(end + 1) = At(end) THEN end + 2 ELSE end + 1
         toks == NotJoined(HandleWordToken(pieces, start, end)) IN
       /\ pieces' = Append(toks, NewToken(end, e, GetTokenType(end, e), FALSE, FALSE))
       /\ start' = e
       /\ end' = e
  /\ status' = StatusAfter(start, end)
  /\ UNCHANGED <<line, value, pc>>

(* The dollar of $"..." is dropped, with what is between the two. *)
BeforeQuote ==
  IF At(start) = "$" THEN pieces
  ELSE IF At(end - 1) = "$" /\ end > start
  THEN HandleWordToken(pieces, start, end - 1)
  ELSE HandleWordToken(pieces, start, end)

HandleSpecialQuot_ToNextQuote ==
  /\ Scans(Quotes)
  /\ LET q == Behind(end + 1, Chars \ Quotes)
         e == IF q <= Len(line) THEN q + 1 ELSE q IN
       /\ pieces' = HandleWordToken(BeforeQuote, end, e)
       /\ start' = e
       /\ end' = e
  /\ status' = IF At(start) = "$" THEN status ELSE StatusAfter(start, end)
  /\ UNCHANGED <<line, value, pc>>

(* The piece from a quote to the next quote of its kind. *)
HandleSpecialQuot ==
  /\ Scans(Quotes)
  /\ LET q == Behind(end + 1, Chars \ {At(end)})
         e == IF q <= Len(line) THEN q + 1 ELSE q IN
       /\ pieces' = HandleWordToken(BeforeQuote, end, e)
       /\ start' = e
       /\ end' = e
  /\ status' = IF At(start) = "$" THEN status ELSE StatusAfter(start, end)
  /\ UNCHANGED <<line, value, pc>>

HandleWhiteSpaces_Stays ==
  /\ Scans({" "})
  /\ pieces' = HandleWordToken(pieces, start, end)
  /\ start' = end
  /\ end' = end
  /\ status' = StatusAfter(start, end)
  /\ UNCHANGED <<line, value, pc>>

HandleWhiteSpaces ==
  /\ Scans({" "})
  /\ pieces' = HandleWordToken(pieces, start, end)
  /\ start' = Behind(end, {" "})
  /\ end' = Behind(end, {" "})
  /\ status' = StatusAfter(start, end)
  /\ UNCHANGED <<line, value, pc>>

OtherCharacter ==
  /\ Scans(Letters)
  /\ end' = end + 1
  /\ UNCHANGED <<line, value, start, pieces, status, pc>>

EndOfLine ==
  /\ pc = "scan"
  /\ end > Len(line)
  /\ pieces' = HandleWordToken(pieces, start, end)
  /\ status' = StatusAfter(start, end)
  /\ pc' = "join"
  /\ UNCHANGED <<line, value, start, end>>

-----------------------------------------------------------------------------
(***************************************************************************)
(* join_nodes: a token and those behind it, up to the first that asks for  *)
(* no joining, become one, with the type of the first; the token behind    *)
(* still has the last one for its prev, whose type is the tail.            *)
(* suprimer_quote: a token with quotes loses them and is marked.           *)
(***************************************************************************)
Node(first, last) ==
  [from |-> first.from, to |-> last.to, type |-> first.type,
   tail |-> last.type, found |-> first.found,
   quoted |-> \E p \in first.from .. last.to : At(p) \in Quotes]

(* What becomes of the first k tokens. *)
Joined[k \in 0 .. Len(pieces)] ==
  IF k = 0 THEN <<>>
  ELSE IF k > 1 /\ pieces[k - 1].info
  THEN [Joined[k - 1] EXCEPT ![Len(Joined[k - 1])] = Node(@, pieces[k])]
  ELSE Append(Joined[k - 1], Node(pieces[k], pieces[k]))

JoinNodes ==
  /\ pc = "join"
  /\ pieces' = Joined[Len(pieces)]
  /\ pc' = "done"
  /\ UNCHANGED <<line, value, start, end, status>>

Done == pc = "done" /\ UNCHANGED <<lexerVars, status>>

Lex ==
  \/ Unclosed \/ Closed
  \/ HandleDollar \/ HandleStatus \/ HandleLoneDollar \/ HandleSpecialeToken
  \/ HandleSpecialQuot \/ HandleWhiteSpaces \/ OtherCharacter \/ EndOfLine
  \/ JoinNodes

LexerNext == Lex \/ Done

LexerSpec == LexerInit /\ [][LexerNext]_<<lexerVars, status>>

LexerFairSpec == LexerSpec /\ WF_<<lexerVars, status>>(Lex)

-----------------------------------------------------------------------------
(***************************************************************************)
(* Reference: the words and operators of a line, by the quotes around each *)
(* position.                                                               *)
(***************************************************************************)
Unquoted(p) == OpenQuote[p - 1] = "none"

IsMeta(p) == Unquoted(p) /\ line[p] \in Metas

IsBlank(p) == Unquoted(p) /\ line[p] = " "

IsText(p) == ~IsMeta(p) /\ ~IsBlank(p)

WordRuns ==
  {r \in (DOMAIN line) \X (DOMAIN line) :
     /\ r[1] <= r[2]
     /\ \A p \in r[1] .. r[2] : IsText(p)
     /\ r[1] = 1 \/ ~IsText(r[1] - 1)
     /\ r[2] = Len(line) \/ ~IsText(r[2] + 1)}

(* The same characters < or > right before p. *)
Repeated(p) ==
  Cardinality({k \in 1 .. p - 1 : \A h \in k .. p - 1 :
                 IsMeta(h) /\ line[h] = line[p] /\ line[p] # "|"})

Operators ==
  {r \in (DOMAIN line) \X (DOMAIN line) :
     /\ IsMeta(r[1]) /\ Repeated(r[1]) % 2 = 0
     /\ r[2] = IF /\ line[r[1]] # "|" /\ r[1] < Len(line)
                  /\ IsMeta(r[1] + 1) /\ line[r[1] + 1] = line[r[1]]
               THEN r[1] + 1 ELSE r[1]}

-----------------------------------------------------------------------------
(***************************************************************************)
(* Properties.                                                             *)
(***************************************************************************)
LexerTypeOK ==
  /\ line \in Lines
  /\ value \in ValuesOf(line)
  /\ start \in 1 .. Len(line) + 1
  /\ end \in start .. Len(line) + 2
  /\ \A k \in DOMAIN pieces : /\ pieces[k].from \in DOMAIN line
                              /\ pieces[k].to \in pieces[k].from .. Len(line)
                              /\ pieces[k].type \in Types
  /\ status \in Nat
  /\ pc \in {"check", "scan", "join", "done"}

BehindStatus(p) == p > 2 /\ At(p - 2) = "$" /\ At(p - 1) = "?"

(* No quote opens right behind a $?, where the scan does not look. *)
InStep == \A p \in DOMAIN line : Unquoted(p) /\ line[p] \in Quotes => ~BehindStatus(p)

(***************************************************************************)
(* A line whose quotes are closed becomes its words and operators: none is *)
(* lost, cut, or glued to another across a blank or an operator, whatever  *)
(* the quotes hide and however many pieces a word was read in.  This is    *)
(* for lines whose unquoted dollars begin variables that are one word.  In *)
(* any line whose quotes the scan sees two words are glued in three cases  *)
(* only: at the character right behind a $?, where the scan does not look; *)
(* and across blanks right behind a variable whose value has blanks, or    *)
(* right behind a word that follows a $? and one blank.                    *)
(***************************************************************************)
OneWordEach == \A p \in DOMAIN value : value[p] = "word"

Ordinary ==
  /\ OneWordEach
  /\ \A p \in DOMAIN line : Unquoted(p) /\ line[p] = "$" => At(p + 1) = "a"

IsItsItems ==
  /\ {<<pieces[k].from, pieces[k].to>> : k \in DOMAIN pieces} =
       WordRuns \cup Operators
  /\ \A k \in 1 .. Len(pieces) - 1 : pieces[k].to < pieces[k + 1].from
  /\ \A k \in DOMAIN pieces :
       /\ pieces[k].type = "word" <=> <<pieces[k].from, pieces[k].to>> \in WordRuns
       /\ pieces[k].tail = pieces[k].type

(* The piece from s to before e is split at blanks, and its last part asks *)
(* to be joined to what follows, blanks or not.                            *)
IsSplit(s, e) ==
  /\ s + 1 < e
  /\ \A k \in s + 1 .. e - 1 : At(k) = "a" \/ (BehindStatus(s) /\ At(k) \in Letters)
  /\ \/ IsVariable(s, e) /\ value[s] \in {"words", "led"}
     \/ BehindStatus(s) /\ At(s) = " "

GluedAt(p) ==
  \/ BehindStatus(p)
  \/ IsBlank(p) /\ \E s \in 1 .. p - 2 : \E e \in s + 2 .. p :
                     IsSplit(s, e) /\ \A k \in e .. p - 1 : At(k) = " "

SplitsIntoWords ==
  pc = "done" /\ IsClosedQuotes =>
    /\ Ordinary => IsItsItems
    /\ InStep =>
         \A k \in DOMAIN pieces : \A p \in pieces[k].from .. pieces[k].to :
           \/ IsText(p) \/ GluedAt(p)
           \/ IsMeta(p) /\ pieces[k].type # "word"

(***************************************************************************)
(* What is quoted is text, whatever stands around it and whatever the      *)
(* variables hold: no operator token lies within quotes.  The exception    *)
(* are lines with a quote right behind a $?, which is jumped over.         *)
(***************************************************************************)
QuotedIsText ==
  pc \in {"join", "done"} /\ InStep =>
    \A k \in DOMAIN pieces :
      pieces[k].type # "word" =>
        \/ IsMeta(pieces[k].from)
        \/ /\ IsVariable(pieces[k].from, pieces[k].to + 1)
           /\ value[pieces[k].from] \in OperatorTypes
           /\ Unquoted(pieces[k].from)

(* Every line is read to its end. *)
Terminates == <>(pc = "done")

=============================================================================
