----------------------------- MODULE LineProofs -----------------------------
(***************************************************************************)
(* Proofs about the reading of lines: about Parser, for token lists of     *)
(* any length, behind them about Lexer, for lines of any length, and at    *)
(* the end about Session, where the steps of both are.                     *)
(***************************************************************************)
EXTENDS Session, LexerInvariant, FiniteSetTheorems, WellFoundedInduction, TLAPS

-----------------------------------------------------------------------------
(***************************************************************************)
(* The inductive invariant: what has been read fits the grammar, and each  *)
(* operator was read together with its word.                               *)
(***************************************************************************)
PrefixFits ==
  /\ current > 1 => ~IsPipe(1)
  /\ \A k \in 1 .. current - 1 : IsPipe(k) =>
       k < Len(tokens) /\ ~IsPipe(k + 1)
  /\ \A k \in 1 .. current - 1 : IsOperator(k) =>
       k + 1 < current /\ tokens[k + 1].type = "word"

Ended ==
  /\ result = "accepted" => current = Len(tokens) + 1
  /\ result = "refused" /\ Plain => ~InGrammar

PInv == ParserTypeOK /\ PrefixFits /\ Ended

(* What the assumption says of the tokens. *)
LEMMA TokenFacts ==
  ASSUME tokens \in Seq(Token) \ {<<>>}
  PROVE  /\ Len(tokens) \in Nat /\ Len(tokens) > 0
         /\ DOMAIN tokens = 1 .. Len(tokens)
         /\ \A k \in 1 .. Len(tokens) : tokens[k] \in Token
OBVIOUS

(* A new command is a command. *)
LEMMA NewCommandType == NewCommand \in Command
BY DEF NewCommand, Command

-----------------------------------------------------------------------------
(***************************************************************************)
(* The type of each variable after a step.                                 *)
(***************************************************************************)
LEMMA ChangedType ==
  ASSUME commands \in Seq(Command), Len(commands) > 0, NEW c \in Command
  PROVE  /\ WithCurrentCmd(c) \in Seq(Command)
         /\ Len(WithCurrentCmd(c)) = Len(commands)
BY DEF WithCurrentCmd

LEMMA AppendType ==
  ASSUME commands \in Seq(Command), Len(commands) > 0, NEW x \in Nat
  PROVE  /\ [CurrentCmd EXCEPT !.args = Append(@, x)] \in Command
         /\ [CurrentCmd EXCEPT !.redir = Append(@, x)] \in Command
<1>1. CurrentCmd \in Command
  BY DEF CurrentCmd
<1>2. Append(CurrentCmd.args, x) \in Seq(Nat)
  BY <1>1 DEF Command
<1>3. Append(CurrentCmd.redir, x) \in Seq(Nat)
  BY <1>1 DEF Command
<1>4. QED
  BY <1>1, <1>2, <1>3 DEF Command

(* The array of here-documents after another one. *)
LEMMA HeredocType ==
  ASSUME i \in Nat, NEW old \in Seq(Nat), NEW k \in Nat
  PROVE  HeredocRealloc(old, k) \in Seq(Nat)
<1>1. \A j \in 1 .. i + 1 : HeredocRealloc(old, k)[j] \in Nat
  BY DEF HeredocRealloc, Garbage
<1>2. HeredocRealloc(old, k) \in [1 .. i + 1 -> Nat]
  BY <1>1 DEF HeredocRealloc
<1>3. QED
  BY <1>2

LEMMA NextTypes ==
  ASSUME ParserTypeOK, [ParserNext]_<<parserVars, status>>
  PROVE  ParserTypeOK'
<1> USE DEF ParserTypeOK
<1>1. /\ tokens' = tokens /\ Len(tokens) \in Nat
      /\ \A k \in 1 .. Len(tokens) : tokens[k] \in Token
  BY TokenFacts DEF ParserNext, parserVars, HandlePipe, HandleRedir, HandleHeredoc,
     HandleWord, SyntaxError, Accept, Parsed
<1>2. commands \in Seq(Command) /\ Len(commands) \in Nat /\ Len(commands) > 0
  OBVIOUS
<1>3. CASE HandlePipe
  <2>1. commands' \in Seq(Command) /\ commands' # <<>>
    BY <1>2, <1>3, NewCommandType DEF HandlePipe
  <2>2. QED
    BY <1>1, <1>3, <2>1 DEF HandlePipe, Parses
<1>4. CASE HandleRedir
  <2> DEFINE d == [CurrentCmd EXCEPT !.redir = Append(@, current + 1)]
  <2>1. commands' \in Seq(Command) /\ Len(commands') > 0
    <3>1. d \in Command
      <4>1. current + 1 \in Nat
        BY <1>1
      <4>2. QED
        BY <1>2, <4>1, AppendType, Zenon
    <3>2. commands' = WithCurrentCmd(d)
      BY <1>4 DEF HandleRedir
    <3>3. QED
      BY <1>2, <3>1, <3>2, ChangedType
  <2>2. current + 2 \in 1 .. Len(tokens) + 1
    BY <1>1, <1>4 DEF HandleRedir, NextIsWord
  <2>3. QED
    BY <1>1, <1>4, <2>1, <2>2 DEF HandleRedir
<1>5. CASE HandleHeredoc
  <2> DEFINE h == HeredocRealloc(CurrentCmd.herdoc, current + 1)
             q == tokens[current + 1].quoted
             d == [CurrentCmd EXCEPT !.herdoc = h, !.cmd_quoted = q]
  <2>1. CurrentCmd \in Command
    BY <1>2 DEF CurrentCmd
  <2>2. CurrentCmd.herdoc \in Seq(Nat)
    BY <2>1 DEF Command
  <2>3. h \in Seq(Nat)
    BY <1>1, <2>2, HeredocType
  <2>4. q \in BOOLEAN /\ current + 2 \in 1 .. Len(tokens) + 1
    <3>1. /\ current + 1 \in 1 .. Len(tokens)
          /\ current + 2 \in 1 .. Len(tokens) + 1
      BY <1>1, <1>5 DEF HandleHeredoc, NextIsWord
    <3>2. tokens[current + 1] \in Token
      BY <1>1, <3>1
    <3> QED
      BY <3>1, <3>2 DEF Token
  <2>5. d \in Command
    BY <2>1, <2>3, <2>4 DEF Command
  <2>6. commands' = WithCurrentCmd(d)
    BY <1>5 DEF HandleHeredoc
  <2>7. commands' \in Seq(Command) /\ Len(commands') > 0
    BY <1>2, <2>5, <2>6, ChangedType
  <2>8. QED
    BY <1>1, <1>5, <2>4, <2>7 DEF HandleHeredoc
<1>6. CASE HandleWord
  <2> DEFINE d == [CurrentCmd EXCEPT !.args = Append(@, current)]
  <2>1. commands' \in Seq(Command) /\ Len(commands') > 0
    <3>1. d \in Command
      <4>1. current \in Nat
        BY <1>1
      <4>2. QED
        BY <1>2, <4>1, AppendType, Zenon
    <3>2. commands' = commands \/ commands' = WithCurrentCmd(d)
      BY <1>6 DEF HandleWord
    <3>3. QED
      BY <1>2, <3>1, <3>2, ChangedType
  <2>2. QED
    BY <1>1, <1>6, <2>1 DEF HandleWord, Parses
<1>7. CASE SyntaxError \/ Accept \/ Parsed \/ UNCHANGED <<parserVars, status>>
  BY <1>1, <1>7 DEF SyntaxError, Accept, Parsed, parserVars
<1>8. QED
  BY <1>3, <1>4, <1>5, <1>6, <1>7 DEF ParserNext

-----------------------------------------------------------------------------
(***************************************************************************)
(* The grammar.                                                            *)
(***************************************************************************)
LEMMA NextPrefix ==
  ASSUME PInv, [ParserNext]_<<parserVars, status>>
  PROVE  PrefixFits'
<1>1. /\ tokens' = tokens /\ Len(tokens) \in Nat /\ current \in Nat
      /\ current > 0
  BY TokenFacts DEF PInv, ParserTypeOK, ParserNext, parserVars, HandlePipe, HandleRedir,
     HandleHeredoc, HandleWord, SyntaxError, Accept, Parsed
<1>2. PrefixFits
  BY DEF PInv
<1>3. CASE HandlePipe
  <2>1. /\ current > 1 /\ current < Len(tokens) /\ ~IsPipe(current + 1)
        /\ current' = current + 1 /\ ~IsOperator(current)
    BY <1>3 DEF HandlePipe, PipeFits, Parses, IsPipe, IsOperator, RedirTypes
  <2>2. QED
    BY <1>1, <1>2, <2>1 DEF PrefixFits, IsPipe, IsOperator
<1>4. CASE HandleRedir \/ HandleHeredoc
  <2>1. /\ current < Len(tokens) /\ tokens[current + 1].type = "word"
        /\ current' = current + 2 /\ ~IsPipe(current)
    BY <1>4 DEF HandleRedir, HandleHeredoc, NextIsWord, Parses, IsPipe,
       RedirTypes
  <2>2. ~IsPipe(current + 1) /\ ~IsOperator(current + 1)
    BY <2>1 DEF IsPipe, IsOperator, RedirTypes
  <2>3. \A k \in 1 .. current' - 1 :
          k \in 1 .. current - 1 \/ k = current \/ k = current + 1
    BY <1>1, <2>1
  <2>4. current > 1 => ~IsPipe(1)
    BY <1>2 DEF PrefixFits
  <2>5. ~IsPipe(1)
    BY <1>1, <2>1, <2>4
  <2>6. \A k \in 1 .. current' - 1 : IsPipe(k) =>
          k < Len(tokens) /\ ~IsPipe(k + 1)
    BY <1>2, <2>1, <2>2, <2>3 DEF PrefixFits
  <2>7. \A k \in 1 .. current' - 1 : IsOperator(k) =>
          k + 1 < current' /\ tokens[k + 1].type = "word"
    BY <1>1, <1>2, <2>1, <2>2, <2>3 DEF PrefixFits
  <2>8. QED
    BY <1>1, <2>5, <2>6, <2>7 DEF PrefixFits, IsPipe, IsOperator
<1>5. CASE HandleWord
  <2>1. /\ current' = current + 1 /\ ~IsPipe(current) /\ ~IsOperator(current)
    BY <1>5 DEF HandleWord, Parses, IsPipe, IsOperator, RedirTypes
  <2>2. QED
    BY <1>1, <1>2, <2>1 DEF PrefixFits, IsPipe, IsOperator
<1>6. CASE SyntaxError \/ Accept \/ Parsed \/ UNCHANGED <<parserVars, status>>
  <2>1. current' = current
    BY <1>6 DEF SyntaxError, Accept, Parsed, parserVars
  <2>2. QED
    BY <1>1, <1>2, <2>1 DEF PrefixFits, IsPipe, IsOperator
<1>7. QED
  BY <1>3, <1>4, <1>5, <1>6 DEF ParserNext

(***************************************************************************)
(* A syntax error is one: the token before a pipe that does not fit, or    *)
(* the one behind it, or behind an operator, breaks the grammar.           *)
(***************************************************************************)
LEMMA ErrorIsOne ==
  ASSUME PInv, SyntaxError, Plain
  PROVE  ~InGrammar
<1>1. /\ Len(tokens) \in Nat /\ current \in 1 .. Len(tokens)
      /\ \A k \in 1 .. Len(tokens) : tokens[k] \in Token
  BY TokenFacts DEF PInv, ParserTypeOK, SyntaxError, Parses
<1>2. SUFFICES ASSUME InGrammar PROVE FALSE
  OBVIOUS
<1>3. CASE IsPipe(current)
  <2>1. ~PipeFits
    BY <1>3 DEF SyntaxError, Parses, IsPipe, RedirTypes
  <2>2. current # 1 /\ current # Len(tokens)
    BY <1>2, <1>3 DEF InGrammar
  <2>3. ~IsPipe(current + 1)
    BY <1>1, <1>2, <1>3, <2>2 DEF InGrammar
  <2>4. tokens[current - 1].type # "word"
    BY <1>1, <2>1, <2>2, <2>3 DEF PipeFits, Plain, IsPipe
  <2>5. IsPipe(current - 1) \/ IsOperator(current - 1)
    BY <1>1, <2>2, <2>4 DEF Token, Types, IsPipe, IsOperator
  <2>6. current - 1 \in 1 .. Len(tokens) - 1 /\ (current - 1) + 1 = current
    BY <1>1, <2>2
  <2>7. ~IsPipe(current - 1)
    BY <1>2, <1>3, <2>6 DEF InGrammar
  <2>8. tokens[current].type = "word"
    BY <1>1, <1>2, <2>5, <2>6, <2>7 DEF InGrammar
  <2>9. QED
    BY <1>3, <2>8 DEF IsPipe
<1>4. CASE ~IsPipe(current)
  <2>1. IsOperator(current) /\ ~NextIsWord
    BY <1>4 DEF SyntaxError, Parses, IsPipe, IsOperator
  <2>2. QED
    BY <1>1, <1>2, <2>1 DEF InGrammar, NextIsWord
<1>5. QED
  BY <1>3, <1>4

LEMMA NextEnded ==
  ASSUME PInv, [ParserNext]_<<parserVars, status>>
  PROVE  Ended'
<1>1. tokens' = tokens
  BY DEF ParserNext, parserVars, HandlePipe, HandleRedir, HandleHeredoc, HandleWord,
     SyntaxError, Accept, Parsed
<1>2. Plain' = Plain /\ InGrammar' = InGrammar
  BY <1>1 DEF Plain, InGrammar, IsPipe, IsOperator
<1>3. CASE HandlePipe \/ HandleRedir \/ HandleHeredoc \/ HandleWord
  BY <1>3 DEF Ended, HandlePipe, HandleRedir, HandleHeredoc, HandleWord, Parses
<1>4. CASE SyntaxError
  BY <1>1, <1>2, <1>4, ErrorIsOne DEF Ended, SyntaxError
<1>5. CASE Accept
  <2>1. current = Len(tokens) + 1
    BY <1>5, TokenFacts DEF Accept, PInv, ParserTypeOK
  <2>2. QED
    BY <1>1, <1>5, <2>1 DEF Ended, Accept
<1>6. CASE Parsed \/ UNCHANGED <<parserVars, status>>
  BY <1>1, <1>2, <1>6 DEF Ended, PInv, Parsed, parserVars
<1>7. QED
  BY <1>3, <1>4, <1>5, <1>6 DEF ParserNext

-----------------------------------------------------------------------------
(* The parser at the first of any tokens. *)
AtFirstToken ==
  /\ tokens \in Seq(Token) \ {<<>>} /\ status \in Nat
  /\ current = 1 /\ commands = <<NewCommand>> /\ i = 0
  /\ result = "parsing"

LEMMA ParserStarts == ParserInit => AtFirstToken
BY ParserAssumption, StatusesAssumption DEF ParserInit, AtFirstToken

LEMMA FirstPInv == AtFirstToken => PInv
<1> SUFFICES ASSUME AtFirstToken PROVE PInv
  OBVIOUS
<1>1. Len(tokens) \in Nat /\ Len(tokens) > 0
  BY DEF AtFirstToken
<1>2. commands \in Seq(Command) /\ commands # <<>>
  BY NewCommandType DEF AtFirstToken
<1>3. ParserTypeOK
  BY <1>1, <1>2 DEF AtFirstToken, ParserTypeOK
<1>4. QED
  BY <1>3 DEF AtFirstToken, PInv, PrefixFits, Ended

(* The inductive invariant holds for the parser. *)
THEOREM ParserInvariance == ParserSpec => []PInv
<1>1. PInv /\ [ParserNext]_<<parserVars, status>> => PInv'
  BY NextTypes, NextPrefix, NextEnded DEF PInv
<1>2. QED
  BY <1>1, ParserStarts, FirstPInv, PTL DEF ParserSpec

(* Types: the parser never reads behind the last token. *)
THEOREM ParserTypes == ParserSpec => []ParserTypeOK
<1>1. PInv => ParserTypeOK
  BY DEF PInv
<1>2. QED
  BY <1>1, ParserInvariance, PTL

LEMMA PInvDecides == ASSUME PInv PROVE AcceptsTheGrammar
<1>1. Len(tokens) \in Nat /\ Len(tokens) > 0
  BY TokenFacts DEF PInv, ParserTypeOK
<1>2. result = "refused" /\ Plain => ~InGrammar
  BY DEF PInv, Ended
<1>3. ASSUME result = "accepted" PROVE InGrammar
  <2>1. current = Len(tokens) + 1 /\ PrefixFits
    BY <1>3 DEF PInv, Ended
  <2>2. current - 1 = Len(tokens)
    BY <1>1, <2>1
  <2>3. QED
    BY <1>1, <2>1, <2>2 DEF PrefixFits, InGrammar
<1>4. QED
  BY <1>2, <1>3 DEF AcceptsTheGrammar

(***************************************************************************)
(* The checks of neighbours handle_pipe and the redirections make accept   *)
(* what the grammar accepts and nothing else.                              *)
(***************************************************************************)
THEOREM GrammarDecides == ParserSpec => []AcceptsTheGrammar
<1>1. PInv => AcceptsTheGrammar
  BY PInvDecides
<1>2. QED
  BY <1>1, ParserInvariance, PTL

-----------------------------------------------------------------------------
(***************************************************************************)
(* Positions and commands: a token behind a pipe is in the next command,   *)
(* any other in the command of the token before it.                        *)
(***************************************************************************)
LEMMA PipesFinite ==
  ASSUME NEW k \in Nat
  PROVE  /\ IsFiniteSet({p \in 1 .. k : IsPipe(p)})
         /\ Cardinality({p \in 1 .. k : IsPipe(p)}) \in Nat
<1>1. IsFiniteSet(1 .. k)
  BY FS_Interval
<1>2. {p \in 1 .. k : IsPipe(p)} \subseteq 1 .. k
  OBVIOUS
<1>3. IsFiniteSet({p \in 1 .. k : IsPipe(p)})
  BY <1>1, <1>2, FS_Subset, Zenon
<1> QED
  BY <1>3, FS_CardinalityType, Zenon

LEMMA FirstCommand == CommandOf(1) = 1
<1>1. {p \in 1 .. 1 - 1 : IsPipe(p)} = {}
  OBVIOUS
<1> QED
  BY <1>1, FS_EmptySet DEF CommandOf

LEMMA CommandStep ==
  ASSUME NEW k \in Nat, k > 0
  PROVE  /\ CommandOf(k) \in Nat
         /\ CommandOf(k + 1) = IF IsPipe(k) THEN CommandOf(k) + 1
                                            ELSE CommandOf(k)
<1> DEFINE P(m) == {p \in 1 .. m : IsPipe(p)}
<1>1. k - 1 \in Nat /\ (k + 1) - 1 = k
  OBVIOUS
<1>2. /\ CommandOf(k) = 1 + Cardinality(P(k - 1))
      /\ CommandOf(k + 1) = 1 + Cardinality(P(k))
  BY <1>1 DEF CommandOf
<1>3. /\ IsFiniteSet(P(k - 1)) /\ Cardinality(P(k - 1)) \in Nat
  BY <1>1, PipesFinite
<1>4. CASE IsPipe(k)
  <2>1. P(k) = P(k - 1) \cup {k} /\ k \notin P(k - 1)
    BY <1>4
  <2>2. Cardinality(P(k)) = Cardinality(P(k - 1)) + 1
    BY <1>3, <2>1, FS_AddElement
  <2> QED
    BY <1>2, <1>3, <1>4, <2>2
<1>5. CASE ~IsPipe(k)
  <2>1. P(k) = P(k - 1)
    BY <1>5
  <2> QED
    BY <1>2, <1>3, <1>5, <2>1
<1> QED
  BY <1>4, <1>5

(* Commands are in the order of their positions. *)
LEMMA CommandOrder ==
  ASSUME NEW k \in Nat, NEW m \in Nat, 0 < k, k <= m
  PROVE  CommandOf(k) <= CommandOf(m)
<1> DEFINE P(x) == {p \in 1 .. x : IsPipe(p)}
<1>1. P(k - 1) \subseteq P(m - 1)
  OBVIOUS
<1>2. /\ IsFiniteSet(P(m - 1)) /\ Cardinality(P(m - 1)) \in Nat
      /\ Cardinality(P(k - 1)) \in Nat
  BY PipesFinite
<1>3. Cardinality(P(k - 1)) <= Cardinality(P(m - 1))
  BY <1>1, <1>2, FS_Subset
<1> HIDE DEF P
<1>4. CommandOf(k) = 1 + Cardinality(P(k - 1)) /\ CommandOf(m) = 1 + Cardinality(P(m - 1))
  BY DEF CommandOf, P
<1> QED
  BY <1>2, <1>3, <1>4

-----------------------------------------------------------------------------
(***************************************************************************)
(* Sequences that list positions in their order.                           *)
(***************************************************************************)
LEMMA ListsNone == Lists(<<>>, {})
BY DEF Lists

LEMMA ListsOneMore ==
  ASSUME NEW s \in Seq(Nat), NEW S, Lists(s, S),
         NEW k \in Nat, \A x \in S : x < k
  PROVE  Lists(Append(s, k), S \cup {k})
<1> DEFINE t == Append(s, k)
<1>1. /\ Len(s) \in Nat /\ DOMAIN s = 1 .. Len(s)
      /\ Len(t) = Len(s) + 1 /\ DOMAIN t = 1 .. Len(s) + 1
      /\ t[Len(s) + 1] = k
      /\ \A j \in 1 .. Len(s) : t[j] = s[j] /\ s[j] \in S
  BY DEF Lists
<1> HIDE DEF t
<1>2. {t[j] : j \in DOMAIN t} = S \cup {k}
  <2>1. S = {s[j] : j \in 1 .. Len(s)}
    BY <1>1 DEF Lists
  <2>2. \A j \in 1 .. Len(s) + 1 : j = Len(s) + 1 \/ j \in 1 .. Len(s)
    BY <1>1
  <2>3. Len(s) + 1 \in 1 .. Len(s) + 1 /\ 1 .. Len(s) \subseteq 1 .. Len(s) + 1
    BY <1>1
  <2> QED
    BY <1>1, <2>1, <2>2, <2>3
<1>3. ASSUME NEW j \in 1 .. Len(t) - 1 PROVE t[j] < t[j + 1]
  <2>1. CASE j = Len(s)
    BY <1>1, <2>1
  <2>2. CASE j # Len(s)
    <3>1. j \in 1 .. Len(s) - 1 /\ j \in 1 .. Len(s) /\ j + 1 \in 1 .. Len(s)
      <4>1. Len(s) \in Nat /\ j \in 1 .. Len(s)
        BY <1>1
      <4> QED
        BY <2>2, <4>1
    <3>2. s[j] < s[j + 1]
      BY <3>1 DEF Lists
    <3>3. t[j] = s[j] /\ t[j + 1] = s[j + 1]
      BY <1>1, <3>1
    <3> QED
      BY <3>2, <3>3
  <2> QED
    BY <2>1, <2>2
<1> QED
  BY <1>2, <1>3 DEF Lists, t

(* The array of here-documents, when i is its length, gets one more. *)
LEMMA ReallocAppends ==
  ASSUME NEW old \in Seq(Nat), i = Len(old), NEW k \in Nat
  PROVE  HeredocRealloc(old, k) = Append(old, k)
<1>1. /\ Len(old) \in Nat /\ DOMAIN old = 1 .. Len(old)
      /\ \A j \in 1 .. i + 1 : j = i + 1 \/ j \in DOMAIN old
  OBVIOUS
<1> DEFINE new == [j \in 1 .. Len(old) + 1 |-> IF j = Len(old) + 1 THEN k ELSE old[j]]
<1>2. HeredocRealloc(old, k) = new
  BY <1>1 DEF HeredocRealloc
<1>3. Append(old, k) = new
  <2> DEFINE t == Append(old, k)
  <2>1. /\ t \in Seq(Nat) /\ Len(t) = Len(old) + 1 /\ t[Len(old) + 1] = k
        /\ \A j \in 1 .. Len(old) : t[j] = old[j]
    OBVIOUS
  <2> HIDE DEF t
  <2>2. t = [j \in 1 .. Len(t) |-> t[j]] /\ Len(old) \in Nat
    BY <2>1
  <2>3. \A j \in 1 .. Len(old) + 1 : j = Len(old) + 1 \/ j \in 1 .. Len(old)
    BY <2>2
  <2>4. \A j \in 1 .. Len(old) + 1 :
          t[j] = IF j = Len(old) + 1 THEN k ELSE old[j]
    BY <2>1, <2>2, <2>3
  <2>5. t = [j \in 1 .. Len(old) + 1 |-> t[j]]
    BY <2>1, <2>2
  <2>6. t = new
    BY <2>4, <2>5
  <2> QED
    BY <2>6 DEF t
<1> QED
  BY <1>2, <1>3

-----------------------------------------------------------------------------
(***************************************************************************)
(* What was read of the line is in the commands: the inductive invariant.  *)
(* The number i of here-documents is the length of the array.              *)
(***************************************************************************)
Holds(c) ==
  /\ Lists(commands[c].args, Arguments(c))
  /\ Lists(commands[c].redir, Words(c, RedirTypes))
  /\ Lists(commands[c].herdoc, Words(c, {"heredoc"}))
  /\ commands[c].cmd_quoted <=> LastQuoted(c)

LineInv ==
  /\ Len(commands) = CommandOf(current)
  /\ result = "parsing" => i = Len(CurrentCmd.herdoc)
  /\ \A c \in 1 .. Len(commands) : Holds(c)

(* What is at one position, apart from how far the parser is. *)
WordAt(k, c, T) ==
  CommandOf(k) = c /\ tokens[k].type = "word" /\ Follows(k, T)

ArgumentAt(k, c) ==
  /\ CommandOf(k) = c /\ tokens[k].type = "word" /\ ~tokens[k].found
  /\ ~Follows(k, RedirTypes \cup {"heredoc"})

LEMMA SetsAfter ==
  ASSUME tokens' = tokens
  PROVE  /\ \A k : CommandOf(k)' = CommandOf(k)
         /\ \A c, T : Words(c, T)' = {k \in 1 .. current' - 1 : WordAt(k, c, T)}
         /\ \A c : Arguments(c)' = {k \in 1 .. current' - 1 : ArgumentAt(k, c)}
<1>1. ASSUME NEW k PROVE CommandOf(k)' = CommandOf(k)
  BY DEF CommandOf, IsPipe
<1>2. ASSUME NEW c, NEW T
      PROVE  Words(c, T)' = {k \in 1 .. current' - 1 : WordAt(k, c, T)}
  BY <1>1 DEF Words, WordAt, Follows
<1>3. ASSUME NEW c
      PROVE  Arguments(c)' = {k \in 1 .. current' - 1 : ArgumentAt(k, c)}
  BY <1>1 DEF Arguments, ArgumentAt, Follows
<1> QED
  BY <1>1, <1>2, <1>3

LEMMA Sets ==
  /\ \A c, T : Words(c, T) = {k \in 1 .. current - 1 : WordAt(k, c, T)}
  /\ \A c : Arguments(c) = {k \in 1 .. current - 1 : ArgumentAt(k, c)}
BY DEF Words, Arguments, WordAt, ArgumentAt

(* A command whose sets and lists stay is right after the step. *)
LEMMA HoldsOn ==
  ASSUME tokens' = tokens, NEW c, Holds(c),
         commands'[c] = commands[c], Arguments(c)' = Arguments(c),
         Words(c, RedirTypes)' = Words(c, RedirTypes),
         Words(c, {"heredoc"})' = Words(c, {"heredoc"})
  PROVE  Holds(c)'
<1>1. LastQuoted(c)' <=> LastQuoted(c)
  BY DEF LastQuoted
<1> QED
  BY <1>1 DEF Holds, Lists

(* The position of the parser, and the token before it. *)
LEMMA Position ==
  ASSUME PInv, result = "parsing", current <= Len(tokens)
  PROVE  /\ Len(tokens) \in Nat /\ current \in Nat /\ current > 0
         /\ commands \in Seq(Command) /\ Len(commands) \in Nat /\ Len(commands) > 0
         /\ tokens[current] \in Token
         /\ \A T \in SUBSET (RedirTypes \cup {"heredoc"}) : ~Follows(current, T)
<1>1. /\ Len(tokens) \in Nat /\ current \in Nat /\ current > 0
      /\ commands \in Seq(Command) /\ Len(commands) \in Nat /\ Len(commands) > 0
      /\ tokens[current] \in Token
  BY TokenFacts DEF PInv, ParserTypeOK
<1>2. current > 1 => ~IsOperator(current - 1)
  BY <1>1 DEF PInv, PrefixFits
<1> QED
  BY <1>1, <1>2 DEF Follows, IsOperator

(***************************************************************************)
(* A step adds to a set the one position it goes over that belongs to it,  *)
(* or nothing.                                                             *)
(***************************************************************************)
LEMMA WordsGrow ==
  ASSUME tokens' = tokens, current \in Nat, current > 0, current' \in Nat,
         current <= current', NEW c, NEW T
  PROVE  /\ (\A k \in current .. current' - 1 : ~WordAt(k, c, T)) =>
              Words(c, T)' = Words(c, T)
         /\ \A m \in current .. current' - 1 :
              (\A k \in current .. current' - 1 : WordAt(k, c, T) <=> k = m) =>
                 Words(c, T)' = Words(c, T) \cup {m}
<1>1. \A k : k \in 1 .. current' - 1 <=>
              k \in 1 .. current - 1 \/ k \in current .. current' - 1
  OBVIOUS
<1>2. /\ \A k : k \in Words(c, T)' <=> k \in 1 .. current' - 1 /\ WordAt(k, c, T)
      /\ \A k : k \in Words(c, T) <=> k \in 1 .. current - 1 /\ WordAt(k, c, T)
  <2>1. /\ Words(c, T)' = {k \in 1 .. current' - 1 : WordAt(k, c, T)}
        /\ Words(c, T) = {k \in 1 .. current - 1 : WordAt(k, c, T)}
    BY SetsAfter, Sets
  <2> QED
    BY <2>1
<1>3. ASSUME \A k \in current .. current' - 1 : ~WordAt(k, c, T)
      PROVE  Words(c, T)' = Words(c, T)
  BY <1>1, <1>2, <1>3
<1>4. ASSUME NEW m \in current .. current' - 1,
             \A k \in current .. current' - 1 : WordAt(k, c, T) <=> k = m
      PROVE  Words(c, T)' = Words(c, T) \cup {m}
  BY <1>1, <1>2, <1>4
<1> QED
  BY <1>3, <1>4

LEMMA ArgumentsGrow ==
  ASSUME tokens' = tokens, current \in Nat, current > 0, current' \in Nat,
         current <= current', NEW c
  PROVE  /\ (\A k \in current .. current' - 1 : ~ArgumentAt(k, c)) =>
              Arguments(c)' = Arguments(c)
         /\ \A m \in current .. current' - 1 :
              (\A k \in current .. current' - 1 : ArgumentAt(k, c) <=> k = m) =>
                 Arguments(c)' = Arguments(c) \cup {m}
<1>1. \A k : k \in 1 .. current' - 1 <=>
              k \in 1 .. current - 1 \/ k \in current .. current' - 1
  OBVIOUS
<1>2. /\ \A k : k \in Arguments(c)' <=> k \in 1 .. current' - 1 /\ ArgumentAt(k, c)
      /\ \A k : k \in Arguments(c) <=> k \in 1 .. current - 1 /\ ArgumentAt(k, c)
  <2>1. /\ Arguments(c)' = {k \in 1 .. current' - 1 : ArgumentAt(k, c)}
        /\ Arguments(c) = {k \in 1 .. current - 1 : ArgumentAt(k, c)}
    BY SetsAfter, Sets
  <2> QED
    BY <2>1
<1>3. ASSUME \A k \in current .. current' - 1 : ~ArgumentAt(k, c)
      PROVE  Arguments(c)' = Arguments(c)
  BY <1>1, <1>2, <1>3
<1>4. ASSUME NEW m \in current .. current' - 1,
             \A k \in current .. current' - 1 : ArgumentAt(k, c) <=> k = m
      PROVE  Arguments(c)' = Arguments(c) \cup {m}
  BY <1>1, <1>2, <1>4
<1> QED
  BY <1>3, <1>4

(***************************************************************************)
(* A pipe: the sets of the commands so far stay, the next one has none.    *)
(***************************************************************************)
LEMMA PipeLine == ASSUME PInv, LineInv, HandlePipe PROVE LineInv'
<1> SUFFICES ASSUME NEW n, n = Len(commands) PROVE LineInv'
  OBVIOUS
<1>1. /\ result = "parsing" /\ current <= Len(tokens) /\ IsPipe(current)
      /\ tokens' = tokens /\ current' = current + 1 /\ i' = 0
      /\ commands' = Append(commands, NewCommand) /\ result' = result
  BY DEF HandlePipe, Parses, IsPipe
<1>2. /\ current \in Nat /\ current > 0 /\ commands \in Seq(Command) /\ n \in Nat
      /\ n > 0
  BY <1>1, Position
<1>3. n = CommandOf(current) /\ CommandOf(current + 1) = n + 1
  BY <1>1, <1>2, CommandStep DEF LineInv
<1>4. /\ Len(commands') = n + 1
      /\ commands'[n + 1] = NewCommand
      /\ \A c \in 1 .. n : commands'[c] = commands[c]
  BY <1>1, <1>2, NewCommandType
<1>5. \A c, T : ~WordAt(current, c, T) /\ ~ArgumentAt(current, c)
  BY <1>1 DEF WordAt, ArgumentAt, IsPipe
<1>6. ASSUME NEW c, NEW T
      PROVE  Words(c, T)' = Words(c, T) /\ Arguments(c)' = Arguments(c)
  <2>1. current .. current' - 1 = {current}
    BY <1>1, <1>2
  <2>2. \A k \in current .. current' - 1 : ~WordAt(k, c, T) /\ ~ArgumentAt(k, c)
    BY <1>5, <2>1
  <2> QED
    BY <1>1, <1>2, <2>2, WordsGrow, ArgumentsGrow
<1>7. ASSUME NEW c \in 1 .. n PROVE Holds(c)'
  BY <1>1, <1>4, <1>6, HoldsOn DEF LineInv
<1>8. ASSUME NEW T PROVE Words(n + 1, T) = {} /\ Arguments(n + 1) = {}
  <2>1. ASSUME NEW k \in 1 .. current - 1 PROVE CommandOf(k) # n + 1
    <3>1. k \in Nat /\ 0 < k /\ k <= current
      BY <1>2
    <3>2. CommandOf(k) <= CommandOf(current) /\ CommandOf(k) \in Nat
      BY <1>2, <3>1, CommandOrder, CommandStep
    <3> QED
      BY <1>2, <1>3, <3>2
  <2> QED
    BY <2>1 DEF Words, Arguments
<1>9. Holds(n + 1)'
  <2>1. ~LastQuoted(n + 1)'
    BY <1>6, <1>8 DEF LastQuoted
  <2>2. /\ Lists(<<>>, Arguments(n + 1)')
        /\ \A T : Lists(<<>>, Words(n + 1, T)')
    BY <1>6, <1>8, ListsNone
  <2>3. /\ NewCommand.args = <<>> /\ NewCommand.redir = <<>>
        /\ NewCommand.herdoc = <<>> /\ ~NewCommand.cmd_quoted
    BY DEF NewCommand
  <2> QED
    BY <1>4, <2>1, <2>2, <2>3 DEF Holds, Lists
<1>10. Len(commands') = CommandOf(current)'
  BY <1>1, <1>3, <1>4, SetsAfter DEF CommandOf, IsPipe
<1>11. i' = Len(CurrentCmd'.herdoc)
  BY <1>1, <1>4 DEF CurrentCmd, NewCommand
<1>12. \A c \in 1 .. n + 1 : Holds(c)'
  <2>1. \A c \in 1 .. n + 1 : c = n + 1 \/ c \in 1 .. n
    BY <1>2
  <2> QED
    BY <1>7, <1>9, <2>1
<1> QED
  BY <1>2, <1>4, <1>10, <1>11, <1>12 DEF LineInv

(***************************************************************************)
(* A step that changes the last command: right for it, right for all.      *)
(***************************************************************************)
LEMMA LastChanged ==
  ASSUME tokens' = tokens, LineInv, commands \in Seq(Command),
         NEW n \in Nat, n = Len(commands), n > 0,
         NEW d, commands' = WithCurrentCmd(d),
         CommandOf(current)' = n,
         i' = Len(d.herdoc),
         \A c \in 1 .. n - 1 : /\ Arguments(c)' = Arguments(c)
                               /\ Words(c, RedirTypes)' = Words(c, RedirTypes)
                               /\ Words(c, {"heredoc"})' = Words(c, {"heredoc"}),
         Lists(d.args, Arguments(n)'),
         Lists(d.redir, Words(n, RedirTypes)'),
         Lists(d.herdoc, Words(n, {"heredoc"})'),
         d.cmd_quoted <=> LastQuoted(n)'
  PROVE  LineInv'
<1>1. /\ Len(commands') = n /\ commands'[n] = d
      /\ \A c \in 1 .. n - 1 : commands'[c] = commands[c]
  BY DEF WithCurrentCmd
<1>2. ASSUME NEW c \in 1 .. n PROVE Holds(c)'
  <2>1. CASE c = n
    BY <1>1, <2>1 DEF Holds, Lists
  <2>2. CASE c # n
    <3>1. c \in 1 .. n - 1 /\ Holds(c) /\ commands'[c] = commands[c]
      BY <1>1, <2>2 DEF LineInv
    <3> QED
      BY <3>1, HoldsOn
  <2> QED
    BY <2>1, <2>2
<1>3. CurrentCmd' = d
  BY <1>1 DEF CurrentCmd
<1> QED
  BY <1>1, <1>2, <1>3 DEF LineInv

(* A word is the next argument of the last command, or nothing. *)
LEMMA WordLine == ASSUME PInv, LineInv, HandleWord PROVE LineInv'
<1> SUFFICES ASSUME NEW n, n = Len(commands) PROVE LineInv'
  OBVIOUS
<1> DEFINE d == [CurrentCmd EXCEPT !.args = Append(@, current)]
<1>1. /\ result = "parsing" /\ current <= Len(tokens)
      /\ tokens[current].type = "word" /\ ~IsPipe(current)
      /\ tokens' = tokens /\ current' = current + 1 /\ i' = i
      /\ result' = result
  BY DEF HandleWord, Parses, IsPipe
<1>2. /\ current \in Nat /\ current > 0 /\ commands \in Seq(Command) /\ n \in Nat
      /\ n > 0 /\ CurrentCmd \in Command /\ tokens[current] \in Token
      /\ \A T \in SUBSET (RedirTypes \cup {"heredoc"}) : ~Follows(current, T)
  BY <1>1, Position DEF CurrentCmd
<1>3. n = CommandOf(current) /\ CommandOf(current + 1) = n
  BY <1>1, <1>2, CommandStep DEF LineInv
<1>4. CommandOf(current)' = n
  BY <1>1, <1>3, SetsAfter DEF CommandOf, IsPipe
<1>5. current .. current' - 1 = {current}
  BY <1>1, <1>2
<1>6. ASSUME NEW c, NEW T \in SUBSET (RedirTypes \cup {"heredoc"})
      PROVE  Words(c, T)' = Words(c, T)
  <2>1. \A k \in current .. current' - 1 : ~WordAt(k, c, T)
    BY <1>2, <1>5 DEF WordAt
  <2> QED
    BY <1>1, <1>2, <2>1, WordsGrow, ArgumentsGrow
<1>7. ASSUME NEW c, c # n \/ tokens[current].found
      PROVE  Arguments(c)' = Arguments(c)
  <2>1. \A k \in current .. current' - 1 : ~ArgumentAt(k, c)
    BY <1>3, <1>5, <1>7 DEF ArgumentAt
  <2> QED
    BY <1>1, <1>2, <2>1, WordsGrow, ArgumentsGrow
<1>8. /\ {"heredoc"} \in SUBSET (RedirTypes \cup {"heredoc"})
      /\ RedirTypes \in SUBSET (RedirTypes \cup {"heredoc"})
  OBVIOUS
<1>9. CASE tokens[current].found
  <2>1. commands' = commands
    BY <1>9 DEF HandleWord
  <2>2. ASSUME NEW c \in 1 .. n PROVE Holds(c)'
    BY <1>1, <1>6, <1>7, <1>8, <1>9, <2>1, HoldsOn DEF LineInv
  <2> QED
    BY <1>1, <1>4, <2>1, <2>2 DEF LineInv, CurrentCmd
<1>10. CASE ~tokens[current].found
  <2>1. commands' = WithCurrentCmd(d)
    BY <1>10 DEF HandleWord
  <2>2. /\ d.args = Append(CurrentCmd.args, current)
        /\ d.redir = CurrentCmd.redir /\ d.herdoc = CurrentCmd.herdoc
        /\ d.cmd_quoted = CurrentCmd.cmd_quoted
    BY <1>2 DEF Command
  <2>3. Holds(n) /\ CurrentCmd = commands[n] /\ CurrentCmd.args \in Seq(Nat)
    BY <1>2 DEF LineInv, CurrentCmd, Command
  <2>4. Arguments(n)' = Arguments(n) \cup {current}
    <3>1. \A k \in current .. current' - 1 : ArgumentAt(k, n) <=> k = current
      BY <1>1, <1>2, <1>3, <1>5, <1>10 DEF ArgumentAt
    <3> QED
      BY <1>1, <1>2, <1>5, <3>1, WordsGrow, ArgumentsGrow
  <2>5. Lists(d.args, Arguments(n)')
    <3>1. \A x \in Arguments(n) : x < current
      BY <1>2 DEF Arguments
    <3>2. Lists(CurrentCmd.args, Arguments(n))
      BY <2>3 DEF Holds
    <3> QED
      BY <1>2, <2>2, <2>3, <2>4, <3>1, <3>2, ListsOneMore
  <2> HIDE DEF d
  <2>6. /\ Lists(d.redir, Words(n, RedirTypes)')
        /\ Lists(d.herdoc, Words(n, {"heredoc"})')
    BY <1>6, <1>8, <2>2, <2>3 DEF Holds
  <2>7. d.cmd_quoted <=> LastQuoted(n)'
    <3>1. LastQuoted(n)' <=> LastQuoted(n)
      BY <1>1, <1>6, <1>8 DEF LastQuoted
    <3> QED
      BY <2>2, <2>3, <3>1 DEF Holds
  <2>8. i' = Len(d.herdoc)
    BY <1>1, <2>2 DEF LineInv
  <2> QED
    BY <1>1, <1>2, <1>4, <1>6, <1>7, <1>8, <2>1, <2>5, <2>6, <2>7, <2>8, LastChanged
<1> QED
  BY <1>9, <1>10

(***************************************************************************)
(* An operator and its word: what both redirections and here-documents do  *)
(* to the sets.                                                            *)
(***************************************************************************)
LEMMA OperatorSets ==
  ASSUME PInv, LineInv, NEW S \in SUBSET (RedirTypes \cup {"heredoc"}),
         Parses(S), NextIsWord, tokens' = tokens, current' = current + 2,
         NEW n, n = Len(commands)
  PROVE  /\ current \in Nat /\ current > 0 /\ current < Len(tokens)
         /\ commands \in Seq(Command) /\ n \in Nat /\ n > 0
         /\ CurrentCmd \in Command /\ tokens[current + 1] \in Token
         /\ CommandOf(current)' = n
         /\ \A c : Arguments(c)' = Arguments(c)
         /\ \A c, T : c # n \/ tokens[current].type \notin T =>
              Words(c, T)' = Words(c, T)
         /\ \A T : tokens[current].type \in T =>
              Words(n, T)' = Words(n, T) \cup {current + 1}
<1>1. /\ current \in Nat /\ current > 0 /\ Len(tokens) \in Nat
      /\ commands \in Seq(Command) /\ n \in Nat /\ n > 0
      /\ CurrentCmd \in Command
  BY Position DEF Parses, CurrentCmd
<1>2. /\ current < Len(tokens) /\ tokens[current + 1].type = "word"
      /\ tokens[current].type \in RedirTypes \cup {"heredoc"}
      /\ ~IsPipe(current) /\ tokens[current].type # "word"
      /\ ~IsPipe(current + 1)
  BY DEF NextIsWord, Parses, RedirTypes, IsPipe
<1>3. tokens[current + 1] \in Token
  <2>1. current + 1 \in 1 .. Len(tokens)
    BY <1>1, <1>2
  <2> QED
    BY <2>1, TokenFacts DEF PInv, ParserTypeOK
<1>4. /\ CommandOf(current) = n /\ CommandOf(current + 1) = n
      /\ CommandOf(current + 2) = n
  <2>1. current + 1 \in Nat /\ current + 1 > 0 /\ (current + 1) + 1 = current + 2
    BY <1>1
  <2>2. CommandOf(current) = n
    BY DEF LineInv
  <2>3. CommandOf(current + 1) = n
    BY <1>1, <1>2, <2>2, CommandStep
  <2> QED
    BY <1>2, <2>1, <2>2, <2>3, CommandStep
<1>5. CommandOf(current)' = n
  <2>1. CommandOf(current)' = CommandOf(current + 2)
    BY DEF CommandOf, IsPipe
  <2> QED
    BY <1>4, <2>1
<1>6. current .. current' - 1 = {current, current + 1}
  BY <1>1
<1>7. /\ \A c, T : ~WordAt(current, c, T)
      /\ \A c : ~ArgumentAt(current, c)
      /\ \A c : ~ArgumentAt(current + 1, c)
      /\ \A c, T : WordAt(current + 1, c, T) <=>
           c = n /\ tokens[current].type \in T
  <2>1. (current + 1) - 1 = current /\ current + 1 > 1
    BY <1>1
  <2> QED
    BY <1>2, <1>4, <2>1 DEF WordAt, ArgumentAt, Follows
<1>8. ASSUME NEW c PROVE Arguments(c)' = Arguments(c)
  <2>1. \A k \in current .. current' - 1 : ~ArgumentAt(k, c)
    BY <1>6, <1>7
  <2> QED
    BY <1>1, <2>1, ArgumentsGrow
<1>9. ASSUME NEW c, NEW T, c # n \/ tokens[current].type \notin T
      PROVE  Words(c, T)' = Words(c, T)
  <2>1. \A k \in current .. current' - 1 : ~WordAt(k, c, T)
    BY <1>6, <1>7, <1>9
  <2> QED
    BY <1>1, <2>1, WordsGrow
<1>10. ASSUME NEW T, tokens[current].type \in T
       PROVE  Words(n, T)' = Words(n, T) \cup {current + 1}
  <2>1. \A k \in current .. current' - 1 : WordAt(k, n, T) <=> k = current + 1
    BY <1>1, <1>6, <1>7, <1>10
  <2>2. current + 1 \in current .. current' - 1
    BY <1>6
  <2> QED
    BY <1>1, <2>1, <2>2, WordsGrow
<1> QED
  BY <1>1, <1>2, <1>3, <1>5, <1>8, <1>9, <1>10

LEMMA RedirLine == ASSUME PInv, LineInv, HandleRedir PROVE LineInv'
<1> SUFFICES ASSUME NEW n, n = Len(commands) PROVE LineInv'
  OBVIOUS
<1> DEFINE d == [CurrentCmd EXCEPT !.redir = Append(@, current + 1)]
<1>1. /\ Parses(RedirTypes) /\ NextIsWord /\ tokens' = tokens
      /\ current' = current + 2 /\ commands' = WithCurrentCmd(d)
      /\ i' = i /\ result = "parsing" /\ tokens[current].type \in RedirTypes
      /\ tokens[current].type \notin {"heredoc"}
  BY DEF HandleRedir, Parses, RedirTypes
<1>2. RedirTypes \in SUBSET (RedirTypes \cup {"heredoc"})
  OBVIOUS
<1>3. /\ current \in Nat /\ current > 0
      /\ commands \in Seq(Command) /\ n \in Nat /\ n > 0
      /\ CurrentCmd \in Command /\ CommandOf(current)' = n
      /\ \A c : Arguments(c)' = Arguments(c)
      /\ \A c, T : c # n \/ tokens[current].type \notin T =>
              Words(c, T)' = Words(c, T)
      /\ \A T : tokens[current].type \in T =>
              Words(n, T)' = Words(n, T) \cup {current + 1}
  BY <1>1, <1>2, OperatorSets
<1>4. /\ d.redir = Append(CurrentCmd.redir, current + 1)
      /\ d.args = CurrentCmd.args /\ d.herdoc = CurrentCmd.herdoc
      /\ d.cmd_quoted = CurrentCmd.cmd_quoted
  BY <1>3 DEF Command
<1>5. Holds(n) /\ CurrentCmd = commands[n] /\ CurrentCmd.redir \in Seq(Nat)
  BY <1>3 DEF LineInv, CurrentCmd, Command
<1>6. Lists(d.redir, Words(n, RedirTypes)')
  <2>1. \A x \in Words(n, RedirTypes) : x < current + 1
    BY <1>3 DEF Words
  <2>2. Lists(CurrentCmd.redir, Words(n, RedirTypes)) /\ current + 1 \in Nat
    BY <1>3, <1>5 DEF Holds
  <2> QED
    BY <1>1, <1>3, <1>4, <1>5, <2>1, <2>2, ListsOneMore
<1> HIDE DEF d
<1>7. Lists(d.args, Arguments(n)') /\ Lists(d.herdoc, Words(n, {"heredoc"})')
  BY <1>1, <1>3, <1>4, <1>5 DEF Holds
<1>8. d.cmd_quoted <=> LastQuoted(n)'
  <2>1. LastQuoted(n)' <=> LastQuoted(n)
    BY <1>1, <1>3 DEF LastQuoted
  <2> QED
    BY <1>4, <1>5, <2>1 DEF Holds
<1>9. i' = Len(d.herdoc)
  BY <1>1, <1>4 DEF LineInv
<1>10. \A c \in 1 .. n - 1 : /\ Words(c, RedirTypes)' = Words(c, RedirTypes)
                             /\ Words(c, {"heredoc"})' = Words(c, {"heredoc"})
  BY <1>3
<1> QED
  BY <1>1, <1>3, <1>6, <1>7, <1>8, <1>9, <1>10, LastChanged

LEMMA HeredocLine == ASSUME PInv, LineInv, HandleHeredoc PROVE LineInv'
<1> SUFFICES ASSUME NEW n, n = Len(commands) PROVE LineInv'
  OBVIOUS
<1> DEFINE q == tokens[current + 1].quoted
           h == HeredocRealloc(CurrentCmd.herdoc, current + 1)
           d == [CurrentCmd EXCEPT !.herdoc = h, !.cmd_quoted = q]
<1>1. /\ Parses({"heredoc"}) /\ NextIsWord /\ tokens' = tokens
      /\ current' = current + 2 /\ commands' = WithCurrentCmd(d)
      /\ i' = i + 1 /\ result = "parsing" /\ tokens[current].type \in {"heredoc"}
      /\ tokens[current].type \notin RedirTypes
  BY DEF HandleHeredoc, Parses, RedirTypes
<1>2. {"heredoc"} \in SUBSET (RedirTypes \cup {"heredoc"})
  OBVIOUS
<1>3. /\ current \in Nat /\ current > 0 /\ tokens[current + 1] \in Token
      /\ commands \in Seq(Command) /\ n \in Nat /\ n > 0
      /\ CurrentCmd \in Command /\ CommandOf(current)' = n
      /\ \A c : Arguments(c)' = Arguments(c)
      /\ \A c, T : c # n \/ tokens[current].type \notin T =>
              Words(c, T)' = Words(c, T)
      /\ \A T : tokens[current].type \in T =>
              Words(n, T)' = Words(n, T) \cup {current + 1}
  BY <1>1, <1>2, OperatorSets
<1>4. /\ Holds(n) /\ CurrentCmd = commands[n] /\ CurrentCmd.herdoc \in Seq(Nat)
      /\ i = Len(CurrentCmd.herdoc)
  BY <1>1, <1>3 DEF LineInv, CurrentCmd, Command
<1>5. h = Append(CurrentCmd.herdoc, current + 1)
  BY <1>3, <1>4, ReallocAppends
<1>6. /\ d.herdoc = h /\ (d.cmd_quoted <=> q)
      /\ d.args = CurrentCmd.args /\ d.redir = CurrentCmd.redir
  BY <1>3 DEF Command
<1>7. Lists(d.herdoc, Words(n, {"heredoc"})')
  <2>1. \A x \in Words(n, {"heredoc"}) : x < current + 1
    BY <1>3 DEF Words
  <2>2. Lists(CurrentCmd.herdoc, Words(n, {"heredoc"})) /\ current + 1 \in Nat
    BY <1>3, <1>4 DEF Holds
  <2>3. Lists(Append(CurrentCmd.herdoc, current + 1),
              Words(n, {"heredoc"}) \cup {current + 1})
    BY <1>4, <2>1, <2>2, ListsOneMore
  <2>4. Words(n, {"heredoc"})' = Words(n, {"heredoc"}) \cup {current + 1}
    BY <1>1, <1>3
  <2>5. d.herdoc = Append(CurrentCmd.herdoc, current + 1)
    BY <1>5, <1>6
  <2> HIDE DEF d, h, q
  <2> QED
    BY <2>3, <2>4, <2>5
<1>8. i' = Len(d.herdoc)
  BY <1>1, <1>3, <1>4, <1>5, <1>6
<1>9. q <=> LastQuoted(n)'
  <2> DEFINE W == Words(n, {"heredoc"})'
  <2>1. W = Words(n, {"heredoc"}) \cup {current + 1}
    BY <1>1, <1>3
  <2>2. \A x \in W : x \in Nat /\ x <= current + 1
    BY <1>3, <2>1 DEF Words
  <2>3. current + 1 \in W
    BY <2>1
  <2>4. LastQuoted(n)' <=>
          \E k \in W : tokens[k].quoted /\ \A x \in W : x <= k
    BY <1>1 DEF LastQuoted
  <2> HIDE DEF W
  <2>5. \A k \in W : (\A x \in W : x <= k) <=> k = current + 1
    BY <1>3, <2>2, <2>3
  <2> QED
    BY <2>3, <2>4, <2>5
<1> HIDE DEF d, h, q
<1>10. Lists(d.args, Arguments(n)') /\ Lists(d.redir, Words(n, RedirTypes)')
  BY <1>1, <1>3, <1>4, <1>6 DEF Holds
<1>11. d.cmd_quoted <=> LastQuoted(n)'
  BY <1>6, <1>9
<1>12. \A c \in 1 .. n - 1 : /\ Words(c, RedirTypes)' = Words(c, RedirTypes)
                             /\ Words(c, {"heredoc"})' = Words(c, {"heredoc"})
  BY <1>3
<1> QED
  BY <1>1, <1>3, <1>7, <1>8, <1>10, <1>11, <1>12, LastChanged

(* The end of the parser leaves the commands as they are. *)
LEMMA EndLine ==
  ASSUME LineInv, SyntaxError \/ Accept \/ Parsed \/ UNCHANGED parserVars
  PROVE  LineInv'
<1>1. /\ UNCHANGED <<tokens, current, commands>>
      /\ result' = "parsing" => result = "parsing" /\ i' = i
  BY DEF SyntaxError, Accept, Parsed, parserVars
<1>2. ASSUME NEW c \in 1 .. Len(commands) PROVE Holds(c)'
  <2>1. Arguments(c)' = Arguments(c)
    BY <1>1 DEF Arguments, CommandOf, IsPipe, Follows
  <2>2. /\ Words(c, RedirTypes)' = Words(c, RedirTypes)
        /\ Words(c, {"heredoc"})' = Words(c, {"heredoc"})
    BY <1>1 DEF Words, CommandOf, IsPipe, Follows
  <2> QED
    BY <1>1, <2>1, <2>2, HoldsOn DEF LineInv
<1>3. CommandOf(current)' = CommandOf(current)
  BY <1>1 DEF CommandOf, IsPipe
<1> QED
  BY <1>1, <1>2, <1>3 DEF LineInv, CurrentCmd

LEMMA FirstLine == AtFirstToken => LineInv
<1> SUFFICES ASSUME AtFirstToken PROVE LineInv
  OBVIOUS
<1>1. /\ current = 1 /\ commands = <<NewCommand>> /\ i = 0
  BY DEF AtFirstToken
<1>2. \A c, T : Words(c, T) = {} /\ Arguments(c) = {}
  BY <1>1 DEF Words, Arguments
<1>3. Holds(1)
  BY <1>1, <1>2, ListsNone DEF Holds, NewCommand, LastQuoted
<1>4. CommandOf(current) = 1
  BY <1>1, FirstCommand
<1> QED
  BY <1>1, <1>3, <1>4 DEF LineInv, CurrentCmd, NewCommand

LEMMA LineSteps ==
  ASSUME LineInv, PInv, [ParserNext]_<<parserVars, status>>
  PROVE  LineInv'
<1>1. CASE UNCHANGED <<parserVars, status>>
  BY <1>1, EndLine
<1>2. QED
  BY <1>1, PipeLine, WordLine, RedirLine, HeredocLine, EndLine DEF ParserNext

-----------------------------------------------------------------------------
LEMMA LineHolds ==
  ASSUME PInv, LineInv
  PROVE  CommandsAreTheLine
<1>1. ASSUME result = "accepted"
      PROVE  Len(commands) = 1 + Cardinality({p \in DOMAIN tokens : IsPipe(p)})
  <2>1. /\ current = Len(tokens) + 1 /\ Len(tokens) \in Nat
        /\ DOMAIN tokens = 1 .. Len(tokens)
    BY <1>1, TokenFacts DEF PInv, ParserTypeOK, Ended
  <2>2. current - 1 = Len(tokens)
    BY <2>1
  <2> QED
    BY <2>1, <2>2 DEF LineInv, CommandOf
<1>2. ASSUME NEW c \in 1 .. Len(commands)
      PROVE  commands[c].cmd_quoted = LastQuoted(c)
  <2>1. commands[c] \in Command
    BY DEF PInv, ParserTypeOK
  <2>2. commands[c].cmd_quoted \in BOOLEAN
    BY <2>1 DEF Command
  <2>3. LastQuoted(c) \in BOOLEAN
    BY DEF LastQuoted
  <2>4. commands[c].cmd_quoted <=> LastQuoted(c)
    BY DEF LineInv, Holds
  <2> QED
    BY <2>2, <2>3, <2>4
<1> QED
  BY <1>1, <1>2 DEF CommandsAreTheLine, LineInv, Holds

(***************************************************************************)
(* At every moment the commands hold what was read of the line, each word  *)
(* in its place (the realloc functions, heredoc_realloc with its count).   *)
(***************************************************************************)
THEOREM TheLineIsInTheCommands == ParserSpec => []CommandsAreTheLine
<1>1. LineInv /\ PInv /\ [ParserNext]_<<parserVars, status>> => LineInv'
  BY LineSteps
<1>2. ParserInit => LineInv
  BY ParserStarts, FirstLine
<1>3. PInv /\ LineInv => CommandsAreTheLine
  BY LineHolds
<1> QED
  BY <1>1, <1>2, <1>3, ParserInvariance, PTL DEF ParserSpec

-----------------------------------------------------------------------------
(***************************************************************************)
(* The lexer.  The provers do no induction over numbers; what holds of     *)
(* every number follows from the least one it does not hold of.            *)
(***************************************************************************)
LEMMA LeastNumber ==
  ASSUME NEW T, T \subseteq Nat, T # {}
  PROVE  \E x \in T : \A y \in T : x <= y
<1>1. IsWellFoundedOn(OpToRel(<, Nat), Nat)
  BY NatLessThanWellFounded
<1>2. \E x \in T : \A y \in T : <<y, x>> \notin OpToRel(<, Nat)
  BY <1>1, WFMin
<1>3. \A x, y \in Nat : y < x => <<y, x>> \in OpToRel(<, Nat)
  BY DEF OpToRel
<1>4. PICK x \in T : \A y \in T : <<y, x>> \notin OpToRel(<, Nat)
  BY <1>2
<1>5. \A y \in T : ~(y < x)
  BY <1>3, <1>4
<1>6. QED
  BY <1>5

LEMMA Induction ==
  ASSUME NEW S, S \subseteq Nat, 0 \in S, \A n \in S : n + 1 \in S
  PROVE  Nat \subseteq S
<1> SUFFICES ASSUME Nat \ S # {} PROVE FALSE
  OBVIOUS
<1>1. PICK x \in Nat \ S : \A y \in Nat \ S : x <= y
  BY LeastNumber
<1>2. x - 1 \in Nat /\ x - 1 \notin Nat \ S
  BY <1>1
<1>3. (x - 1) + 1 \in S
  BY <1>2
<1>4. QED
  BY <1>1, <1>3

(* What is repeated n times, a step at a time, has a result every time. *)
Iterates(f, n, x0, G) ==
  f[0] = x0 /\ \A k \in 1 .. n : f[k] = G[<<k, f[k - 1]>>]

LEMMA Iteration ==
  ASSUME NEW X, NEW x0 \in X, NEW G \in [Nat \X X -> X], NEW n \in Nat
  PROVE  \E f \in [0 .. n -> X] : Iterates(f, n, x0, G)
<1> USE DEF Iterates
<1> DEFINE Good(m, f) == f \in [0 .. m -> X] /\ Iterates(f, m, x0, G)
           S == {m \in Nat : \E f : Good(m, f)}
<1>1. 0 \in S
  <2>1. Good(0, [k \in 0 .. 0 |-> x0])
    OBVIOUS
  <2>2. QED
    BY <2>1
<1>2. \A m \in S : m + 1 \in S
  <2> SUFFICES ASSUME NEW m \in Nat, NEW f, Good(m, f)
               PROVE  \E g : Good(m + 1, g)
    OBVIOUS
  <2> DEFINE y == G[<<m + 1, f[m]>>]
             g == [k \in 0 .. m + 1 |-> IF k = m + 1 THEN y ELSE f[k]]
  <2>1. y \in X
    <3>1. f[m] \in X
      OBVIOUS
    <3>2. QED
      BY <3>1
  <2>2. \A k \in 0 .. m : g[k] = f[k] /\ f[k] \in X
    OBVIOUS
  <2>3. g[m + 1] = y
    OBVIOUS
  <2>4. g \in [0 .. m + 1 -> X]
    <3>1. \A k \in 0 .. m + 1 : k = m + 1 \/ k \in 0 .. m
      OBVIOUS
    <3>2. QED
      BY <2>1, <2>2, <2>3, <3>1
  <2>5. g[0] = x0
    BY <2>2
  <2>6. \A k \in 1 .. m + 1 : g[k] = G[<<k, g[k - 1]>>]
    <3> SUFFICES ASSUME NEW k \in 1 .. m + 1
                 PROVE  g[k] = G[<<k, g[k - 1]>>]
      OBVIOUS
    <3>1. g[k - 1] = f[k - 1]
      <4>1. k - 1 \in 0 .. m
        OBVIOUS
      <4>2. QED
        BY <2>2, <4>1
    <3>2. CASE k = m + 1
      <4>1. k - 1 = m
        BY <3>2
      <4>2. g[k - 1] = f[m]
        BY <3>1, <4>1
      <4> HIDE DEF g
      <4>3. QED
        BY <2>3, <3>2, <4>2
    <3>3. CASE k \in 1 .. m
      BY <2>2, <3>1, <3>3
    <3>4. QED
      BY <3>2, <3>3
  <2>7. QED
    BY <2>4, <2>5, <2>6
<1>3. n \in S
  BY <1>1, <1>2, Induction
<1>4. QED
  BY <1>3

-----------------------------------------------------------------------------
(***************************************************************************)
(* The line, and the quotes around its positions.                          *)
(***************************************************************************)
LEMMA LineFacts ==
  ASSUME line \in Lines
  PROVE  /\ line \in Seq(Chars) /\ Len(line) \in Nat /\ Len(line) > 0
         /\ DOMAIN line = 1 .. Len(line)
         /\ \A p \in 1 .. Len(line) : line[p] \in Chars /\ At(p) = line[p]
         /\ \A p : p \notin 1 .. Len(line) => At(p) = "NUL"
<1>1. line \in Seq(Chars) /\ Len(line) > 0
  BY LexerAssumption
<1>2. Len(line) \in Nat /\ DOMAIN line = 1 .. Len(line)
  BY <1>1
<1>3. \A p \in 1 .. Len(line) : line[p] \in Chars
  BY <1>1, <1>2
<1>4. QED
  BY <1>1, <1>2, <1>3 DEF At

(* The quote that is open behind the character c, if q was before it. *)
QuoteBehind(q, c) ==
  IF q = "none" THEN IF c \in Quotes THEN c ELSE "none"
  ELSE IF c = q THEN "none" ELSE q

LEMMA QuoteSteps ==
  ASSUME line \in Lines
  PROVE  /\ OpenQuote[0] = "none"
         /\ \A p \in 1 .. Len(line) :
              OpenQuote[p] = QuoteBehind(OpenQuote[p - 1], line[p])
<1> DEFINE n == Len(line)
           X == {"none"} \cup Quotes
           G == [a \in Nat \X X |-> QuoteBehind(a[2], line[a[1]])]
           Is(f) == f = [p \in 0 .. n |-> IF p = 0 THEN "none" ELSE
                            LET q == f[p - 1] IN
                              IF q = "none" THEN IF line[p] \in Quotes THEN line[p] ELSE "none"
                              ELSE IF line[p] = q THEN "none" ELSE q]
<1>1. n \in Nat /\ "none" \in X
  BY LineFacts
<1>2. G \in [Nat \X X -> X]
  BY DEF QuoteBehind
<1>3. PICK f \in [0 .. n -> X] : Iterates(f, n, "none", G)
  <2> HIDE DEF G, X, n
  <2>1. QED
    BY <1>1, <1>2, Iteration
<1>4. \A p \in 1 .. n : f[p] = QuoteBehind(f[p - 1], line[p])
  <2> SUFFICES ASSUME NEW p \in 1 .. n PROVE f[p] = QuoteBehind(f[p - 1], line[p])
    OBVIOUS
  <2> DEFINE a == <<p, f[p - 1]>>
  <2>1. a \in Nat \X X
    <3> HIDE DEF X, n
    <3>1. p \in Nat /\ p - 1 \in 0 .. n
      BY <1>1
    <3>2. QED
      BY <3>1
  <2>2. a[1] = p /\ a[2] = f[p - 1]
    OBVIOUS
  <2>3. G[a] = QuoteBehind(a[2], line[a[1]])
    <3> HIDE DEF X, n, a
    <3>1. QED
      BY <2>1, <2>2
  <2>4. QED
    BY <1>3, <2>2, <2>3 DEF Iterates
<1>5. Is(f)
  <2>1. \A p \in 0 .. n : f[p] = IF p = 0 THEN "none" ELSE QuoteBehind(f[p - 1], line[p])
    <3>1. \A p \in 0 .. n : p = 0 \/ p \in 1 .. n
      BY <1>1
    <3> HIDE DEF n
    <3>2. QED
      BY <1>3, <1>4, <3>1 DEF Iterates
  <2> HIDE DEF n
  <2>2. QED
    BY <2>1 DEF QuoteBehind
<1>6. Is(CHOOSE g : Is(g))
  <2> HIDE DEF Is
  <2>1. QED
    BY <1>5
<1>7. Is(OpenQuote)
  BY <1>6 DEF OpenQuote
<1> DEFINE o == OpenQuote
<1> HIDE DEF o
<1>8. o = [p \in 0 .. n |-> IF p = 0 THEN "none" ELSE QuoteBehind(o[p - 1], line[p])]
  BY <1>7 DEF o, QuoteBehind
<1>9. o[0] = "none" /\ \A p \in 1 .. n : o[p] = QuoteBehind(o[p - 1], line[p])
  <2>1. 0 \in 0 .. n /\ \A p \in 1 .. n : p \in 0 .. n /\ p # 0
    BY <1>1
  <2> HIDE DEF n
  <2>2. QED
    BY <1>8, <2>1
<1>10. QED
  BY <1>9 DEF o

-----------------------------------------------------------------------------
(***************************************************************************)
(* What only speaks of the line does not change while it is read.          *)
(***************************************************************************)
LEMMA SameLine ==
  ASSUME line' = line, value' = value
  PROVE  /\ \A p : At(p)' = At(p)
         /\ \A p : Unquoted(p)' <=> Unquoted(p)
         /\ \A p : IsText(p)' <=> IsText(p)
         /\ \A p : IsMeta(p)' <=> IsMeta(p)
         /\ \A p : IsBlank(p)' <=> IsBlank(p)
         /\ \A p : BehindStatus(p)' <=> BehindStatus(p)
         /\ \A s, e : IsVariable(s, e)' <=> IsVariable(s, e)
         /\ \A s, e : IsSplit(s, e)' <=> IsSplit(s, e)
         /\ \A p : GluedAt(p)' <=> GluedAt(p)
         /\ IsClosedQuotes' <=> IsClosedQuotes
         /\ InStep' <=> InStep
         /\ Ordinary' <=> Ordinary
         /\ \A p : Repeated(p)' = Repeated(p)
         /\ Operators' = Operators
         /\ WordRuns' = WordRuns
<1>1. OpenQuote' = OpenQuote
  BY DEF OpenQuote
<1>2. \A p : At(p)' = At(p)
  BY DEF At
<1>3. \A p : Unquoted(p)' <=> Unquoted(p)
  BY <1>1 DEF Unquoted
<1>4. \A p : BehindStatus(p)' <=> BehindStatus(p)
  BY <1>2 DEF BehindStatus
<1>5. \A s, e : IsVariable(s, e)' <=> IsVariable(s, e)
  BY <1>2 DEF IsVariable
<1>6. \A p : IsMeta(p)' <=> IsMeta(p)
  BY <1>3 DEF IsMeta
<1>7. \A p : IsBlank(p)' <=> IsBlank(p)
  BY <1>3 DEF IsBlank
<1>8. \A p : IsText(p)' <=> IsText(p)
  BY <1>6, <1>7 DEF IsText
<1>9. \A s, e : IsSplit(s, e)' <=> IsSplit(s, e)
  BY <1>2, <1>4, <1>5 DEF IsSplit
<1>10. \A p : GluedAt(p)' <=> GluedAt(p)
  BY <1>2, <1>4, <1>7, <1>9 DEF GluedAt
<1>11. IsClosedQuotes' <=> IsClosedQuotes
  BY <1>1 DEF IsClosedQuotes
<1>12. InStep' <=> InStep
  BY <1>3, <1>4 DEF InStep
<1>13. Ordinary' <=> Ordinary
  BY <1>2, <1>3 DEF Ordinary, OneWordEach
<1>14. \A p : Repeated(p)' = Repeated(p)
  BY <1>6 DEF Repeated
<1>15. Operators' = Operators
  BY <1>6, <1>14 DEF Operators
<1>16. WordRuns' = WordRuns
  BY <1>8 DEF WordRuns
<1>17. QED
  BY <1>2, <1>3, <1>4, <1>5, <1>6, <1>7, <1>8, <1>9, <1>10, <1>11, <1>12,
     <1>13, <1>14, <1>15, <1>16

LEMMA SameMeaning ==
  ASSUME line' = line, value' = value
  PROVE  /\ \A t, q : InOrder(t, q)' <=> InOrder(t, q)
         /\ \A s, e : PlainText(s, e)' <=> PlainText(s, e)
         /\ \A t, q : Meaning(t, q)' <=> Meaning(t, q)
         /\ \A t, q : AreItems(t, q)' <=> AreItems(t, q)
         /\ Piece' = Piece
<1>1. \A t, q : InOrder(t, q)' <=> InOrder(t, q)
  BY DEF InOrder
<1>2. \A s, e : PlainText(s, e)' <=> PlainText(s, e)
  BY SameLine DEF PlainText
<1>3. \A p, x : MayHold(p, x)' <=> MayHold(p, x)
  BY SameLine DEF MayHold
<1>4. \A t : OperatorHas(t)' <=> OperatorHas(t)
  BY SameLine DEF OperatorHas
<1>5. \A t, k : StandsAlone(t, k)' <=> StandsAlone(t, k)
  BY SameLine DEF StandsAlone
<1>6. \A a, q : JoinedAcross(a, q)' <=> JoinedAcross(a, q)
  BY SameLine DEF JoinedAcross
<1>7. \A t, q : Meaning(t, q)' <=> Meaning(t, q)
  BY <1>3, <1>4, <1>5, <1>6 DEF Meaning
<1>8. \A t : IsItem(t)' <=> IsItem(t)
  BY SameLine DEF IsItem
<1>9. \A t, q : AreItems(t, q)' <=> AreItems(t, q)
  BY <1>8, SameLine DEF AreItems
<1>10. Piece' = Piece
  BY DEF Piece, Positions, Types, RedirTypes
<1>11. QED
  BY <1>1, <1>2, <1>7, <1>9, <1>10

-----------------------------------------------------------------------------
(***************************************************************************)
(* Runs of characters.                                                     *)
(***************************************************************************)
LEMMA BehindFacts ==
  ASSUME line \in Lines,
         NEW p \in 1 .. Len(line) + 1, NEW S, "NUL" \notin S
  PROVE  /\ Behind(p, S) \in p .. Len(line) + 1
         /\ At(Behind(p, S)) \notin S
         /\ \A k \in p .. Behind(p, S) - 1 : At(k) \in S
<1> DEFINE n == Len(line)
           T == {k \in p .. n + 1 : At(k) \notin S}
<1>1. n \in Nat /\ At(n + 1) = "NUL"
  BY LineFacts
<1>2. n + 1 \in T /\ T \subseteq Nat
  BY <1>1
<1>3. PICK x \in T : \A y \in T : x <= y
  <2> HIDE DEF T
  <2>1. QED
    BY <1>2, LeastNumber
<1>4. x \in p .. n + 1 /\ At(x) \notin S /\ \A k \in p .. x - 1 : At(k) \in S
  <2>1. x \in p .. n + 1 /\ At(x) \notin S
    OBVIOUS
  <2>2. ASSUME NEW k \in p .. x - 1, At(k) \notin S PROVE FALSE
    <3>1. k \in T
      BY <1>1, <2>1, <2>2
    <3>2. x <= k
      BY <1>3, <3>1
    <3>3. QED
      BY <1>1, <2>1, <3>2
  <2>3. QED
    BY <2>1, <2>2
<1> DEFINE IsIt(m) == At(m) \notin S /\ \A k \in p .. m - 1 : At(k) \in S
<1>5. IsIt(CHOOSE m \in p .. n + 1 : IsIt(m)) /\ (CHOOSE m \in p .. n + 1 : IsIt(m)) \in p .. n + 1
  <2>1. \E m \in p .. n + 1 : IsIt(m)
    BY <1>4
  <2> HIDE DEF IsIt, n
  <2>2. QED
    BY <2>1
<1>6. QED
  BY <1>5 DEF Behind

(* A quote stays open, or none does, as long as nothing changes it. *)
LEMMA OpenRun ==
  ASSUME line \in Lines,
         NEW a \in 0 .. Len(line), NEW b \in a .. Len(line), NEW c,
         OpenQuote[a] = c,
         \A k \in a + 1 .. b : QuoteBehind(c, line[k]) = c
  PROVE  \A p \in a .. b : OpenQuote[p] = c
<1>1. Len(line) \in Nat
  BY LineFacts
<1> DEFINE T == {p \in a .. b : OpenQuote[p] # c}
<1> SUFFICES ASSUME T # {} PROVE FALSE
  OBVIOUS
<1>2. PICK x \in T : \A y \in T : x <= y
  <2>1. T \subseteq Nat
    BY <1>1
  <2> HIDE DEF T
  <2>2. QED
    BY <2>1, LeastNumber
<1>3. x \in a + 1 .. b
  BY <1>1
<1>4. x - 1 \in a .. b /\ x - 1 \notin T
  BY <1>1, <1>2, <1>3
<1>5. OpenQuote[x - 1] = c
  BY <1>4
<1>6. x \in 1 .. Len(line)
  BY <1>1, <1>3
<1>7. OpenQuote[x] = QuoteBehind(OpenQuote[x - 1], line[x])
  BY <1>6, QuoteSteps
<1>8. OpenQuote[x] = c
  BY <1>3, <1>5, <1>7
<1>9. QED
  BY <1>8

(* Behind a character without quotes the rest is as it was. *)
LEMMA UnquotedRun ==
  ASSUME line \in Lines,
         NEW a \in 1 .. Len(line) + 1, NEW b \in a .. Len(line) + 1,
         Unquoted(a), \A k \in a .. b - 1 : At(k) \notin Quotes
  PROVE  \A p \in a .. b : Unquoted(p)
<1>1. Len(line) \in Nat
  BY LineFacts
<1>2. a - 1 \in 0 .. Len(line) /\ b - 1 \in a - 1 .. Len(line)
  BY <1>1
<1>3. OpenQuote[a - 1] = "none"
  BY DEF Unquoted
<1>4. \A k \in (a - 1) + 1 .. b - 1 : QuoteBehind("none", line[k]) = "none"
  <2> SUFFICES ASSUME NEW k \in (a - 1) + 1 .. b - 1
               PROVE  QuoteBehind("none", line[k]) = "none"
    OBVIOUS
  <2>1. k \in a .. b - 1 /\ k \in 1 .. Len(line)
    BY <1>1
  <2>2. line[k] \notin Quotes
    BY <2>1, LineFacts
  <2>3. QED
    BY <2>2 DEF QuoteBehind
<1>5. \A p \in a - 1 .. b - 1 : OpenQuote[p] = "none"
  BY <1>2, <1>3, <1>4, OpenRun
<1>6. \A p \in a .. b : p - 1 \in a - 1 .. b - 1
  BY <1>1
<1>7. QED
  BY <1>5, <1>6 DEF Unquoted

(* From a quote to before the next of its kind everything is quoted.  *)
LEMMA QuotedRun ==
  ASSUME line \in Lines,
         NEW a \in 1 .. Len(line), NEW b \in a + 1 .. Len(line) + 1,
         Unquoted(a), line[a] \in Quotes,
         \A k \in a + 1 .. b - 1 : line[k] # line[a]
  PROVE  \A p \in a + 1 .. b : OpenQuote[p - 1] = line[a]
<1>1. Len(line) \in Nat
  BY LineFacts
<1>2. OpenQuote[a] = line[a]
  BY QuoteSteps DEF QuoteBehind, Unquoted
<1>3. \A k \in a + 1 .. b - 1 : QuoteBehind(line[a], line[k]) = line[a]
  BY DEF QuoteBehind, Quotes
<1>4. a \in 0 .. Len(line) /\ b - 1 \in a .. Len(line)
  BY <1>1
<1>5. \A p \in a .. b - 1 : OpenQuote[p] = line[a]
  BY <1>2, <1>3, <1>4, OpenRun
<1>6. \A p \in a + 1 .. b : p - 1 \in a .. b - 1
  BY <1>1
<1>7. QED
  BY <1>5, <1>6

-----------------------------------------------------------------------------
(***************************************************************************)
(* What handle_word_token adds.                                            *)
(***************************************************************************)
LEMMA TokenTypes ==
  ASSUME NEW s, NEW e
  PROVE  /\ GetTokenType(s, e) \in Types
         /\ GetTokenType(s, e) = "word" <=> At(s) \notin Metas
BY DEF GetTokenType, Types, RedirTypes, Metas

(* The piece t stands for the characters from s to before e. *)
IsFrom(t, s, e, x, j) ==
  t \in Piece /\ t.from = s /\ t.to = e - 1 /\ t.type = x /\ (t.info <=> j)

LEMMA PieceMade ==
  ASSUME line \in Lines,
         NEW s \in 1 .. Len(line), NEW e \in s + 1 .. Len(line) + 1,
         NEW x \in Types, NEW j \in BOOLEAN, NEW f \in BOOLEAN
  PROVE  IsFrom(NewToken(s, e, x, j, f), s, e, x, j)
<1>1. Len(line) \in Nat
  BY LineFacts
<1>2. s \in Positions /\ e - 1 \in Positions /\ s <= e - 1
  BY <1>1 DEF Positions
<1>3. QED
  BY <1>2 DEF NewToken, Piece, IsFrom

LEMMA NotJoinedFacts ==
  ASSUME NEW toks \in Seq(Piece)
  PROVE  /\ NotJoined(toks) \in Seq(Piece)
         /\ Len(NotJoined(toks)) = Len(toks)
         /\ \A k \in 1 .. Len(toks) :
              /\ NotJoined(toks)[k].from = toks[k].from
              /\ NotJoined(toks)[k].to = toks[k].to
              /\ NotJoined(toks)[k].type = toks[k].type
              /\ NotJoined(toks)[k].info => toks[k].info /\ k < Len(toks)
<1>1. CASE toks = <<>>
  BY <1>1 DEF NotJoined
<1>2. CASE toks # <<>>
  <2> DEFINE n == Len(toks)
             t == [toks[n] EXCEPT !.info = FALSE]
             r == NotJoined(toks)
  <2>1. n \in Nat /\ n > 0 /\ \A k \in 1 .. n : toks[k] \in Piece
    BY <1>2
  <2>2. t \in Piece /\ t.from = toks[n].from /\ t.to = toks[n].to
        /\ t.type = toks[n].type /\ ~t.info
    <3>1. toks[n] \in Piece
      BY <2>1
    <3> HIDE DEF n
    <3>2. QED
      BY <3>1 DEF Piece
  <2>3. r = [toks EXCEPT ![n] = t]
    BY <1>2 DEF NotJoined
  <2>4. r \in Seq(Piece) /\ Len(r) = n
    <3> HIDE DEF t, r
    <3>1. QED
      BY <2>1, <2>2, <2>3
  <2>5. \A k \in 1 .. n : r[k] = IF k = n THEN t ELSE toks[k]
    <3> HIDE DEF t, r
    <3>1. QED
      BY <2>1, <2>3
  <2> HIDE DEF t, r, n
  <2>6. \A k \in 1 .. n : /\ r[k].from = toks[k].from /\ r[k].to = toks[k].to
                          /\ r[k].type = toks[k].type
                          /\ r[k].info => toks[k].info /\ k < n
    BY <2>1, <2>2, <2>5
  <2>7. QED
    BY <2>4, <2>6 DEF r, n
<1>3. QED
  BY <1>1, <1>2

AddsPiece(toks, s, e, h) ==
  \E t \in Piece, x \in Types :
    /\ IsFrom(t, s, e, x, Mix(e))
    /\ \/ x = "word"
       \/ IsVariable(s, e) /\ value[s] \in OperatorTypes
       \/ At(s) \in Metas
    /\ h = Append(toks, t)

AddsWords(toks, s, e, h) ==
  \E t, u \in Piece :
    /\ IsVariable(s, e) /\ value[s] = "words"
    /\ IsFrom(t, s, e, "word", FALSE) /\ IsFrom(u, s, e, "word", TRUE)
    /\ h = Append(Append(toks, t), u)

AddsLed(toks, s, e, h) ==
  \E t \in Piece :
    /\ IsVariable(s, e) /\ value[s] = "led"
    /\ IsFrom(t, s, e, "word", TRUE)
    /\ h = Append(NotJoined(toks), t)

AddsBehindBlank(toks, s, e, h) ==
  /\ At(s) = " "
  /\ \/ s + 1 = e /\ h = NotJoined(toks)
     \/ \E t \in Piece :
          /\ s + 1 < e /\ IsFrom(t, s + 1, e, "word", TRUE)
          /\ h = Append(NotJoined(toks), t)

Adds(toks, s, e, h) ==
  AddsPiece(toks, s, e, h) \/ AddsWords(toks, s, e, h) \/
  AddsLed(toks, s, e, h) \/ AddsBehindBlank(toks, s, e, h)

LEMMA NothingAdded ==
  ASSUME NEW toks, NEW s, NEW e, e <= s \/ s > Len(line)
  PROVE  HandleWordToken(toks, s, e) = toks
BY DEF HandleWordToken

LEMMA WordTokenAdds ==
  ASSUME line \in Lines, value \in ValuesOf(line),
         NEW toks \in Seq(Piece),
         NEW s \in 1 .. Len(line), NEW e \in s + 1 .. Len(line) + 1
  PROVE  Adds(toks, s, e, HandleWordToken(toks, s, e))
<1>1. Len(line) \in Nat
  BY LineFacts
<1>2. ~(e <= s \/ s > Len(line))
  BY <1>1
<1>3. Mix(e) \in BOOLEAN
  BY DEF Mix
<1>4. "word" \in Types
  BY DEF Types, RedirTypes
<1> DEFINE h == HandleWordToken(toks, s, e)
<1>5. ASSUME NEW x \in Types, NEW f \in BOOLEAN,
             h = Append(toks, NewToken(s, e, x, Mix(e), f)),
             \/ x = "word"
             \/ IsVariable(s, e) /\ value[s] \in OperatorTypes
             \/ At(s) \in Metas
      PROVE  AddsPiece(toks, s, e, h)
  <2> DEFINE t == NewToken(s, e, x, Mix(e), f)
  <2>1. IsFrom(t, s, e, x, Mix(e))
    BY <1>3, PieceMade
  <2>2. h = Append(toks, t)
    BY <1>5
  <2> HIDE DEF t, h
  <2>3. QED
    BY <1>5, <2>1, <2>2 DEF AddsPiece, IsFrom
<1>6. CASE IsStatusWord(s, e)
  <2>1. h = Append(toks, NewToken(s, e, "word", Mix(e), FALSE))
    BY <1>2, <1>6 DEF HandleWordToken
  <2>2. AddsPiece(toks, s, e, h)
    BY <1>4, <1>5, <2>1
  <2>3. QED
    BY <2>2 DEF Adds
<1>7. CASE ~IsStatusWord(s, e) /\ IsVariable(s, e) /\ ExpandsHere(toks)
  <2>1. h = ProcessValue(toks, s, e)
    BY <1>2, <1>7 DEF HandleWordToken
  <2>2. CASE value[s] = "unset"
    <3>1. h = Append(toks, NewToken(s, e, "word", Mix(e), TRUE))
      BY <2>1, <2>2 DEF ProcessValue
    <3>2. AddsPiece(toks, s, e, h)
      BY <1>4, <1>5, <3>1
    <3>3. QED
      BY <3>2 DEF Adds
  <2>3. CASE value[s] = "words"
    <3> DEFINE t == NewToken(s, e, "word", FALSE, FALSE)
               u == NewToken(s, e, "word", TRUE, FALSE)
    <3>1. h = toks \o <<t, u>>
      BY <2>1, <2>3 DEF ProcessValue
    <3>2. IsFrom(t, s, e, "word", FALSE) /\ t \in Piece
      <4>1. IsFrom(t, s, e, "word", FALSE)
        BY <1>4, PieceMade
      <4>2. QED
        BY <4>1 DEF IsFrom
    <3>3. IsFrom(u, s, e, "word", TRUE) /\ u \in Piece
      <4>1. IsFrom(u, s, e, "word", TRUE)
        BY <1>4, PieceMade
      <4>2. QED
        BY <4>1 DEF IsFrom
    <3> HIDE DEF t, u
    <3>4. toks \o <<t, u>> = Append(Append(toks, t), u)
      BY <3>2, <3>3
    <3> HIDE DEF h
    <3>5. AddsWords(toks, s, e, h)
      BY <1>7, <2>3, <3>1, <3>2, <3>3, <3>4 DEF AddsWords
    <3>6. QED
      BY <3>5 DEF Adds, h
  <2>4. CASE value[s] = "led"
    <3> DEFINE t == NewToken(s, e, "word", TRUE, FALSE)
    <3>1. h = Append(NotJoined(toks), t)
      BY <2>1, <2>4 DEF ProcessValue
    <3>2. IsFrom(t, s, e, "word", TRUE) /\ t \in Piece
      <4>1. IsFrom(t, s, e, "word", TRUE)
        BY <1>4, PieceMade
      <4>2. QED
        BY <4>1 DEF IsFrom
    <3> HIDE DEF t, h
    <3>3. AddsLed(toks, s, e, h)
      BY <1>7, <2>4, <3>1, <3>2 DEF AddsLed
    <3>4. QED
      BY <3>3 DEF Adds, h
  <2>5. CASE value[s] \in OperatorTypes
    <3>1. /\ value[s] \in Types
          /\ value[s] \notin {"unset", "words", "led"}
      BY <2>5 DEF OperatorTypes, Types, RedirTypes
    <3> DEFINE x == value[s]
    <3>2. h = Append(toks, NewToken(s, e, x, Mix(e), FALSE))
      BY <2>1, <2>5, <3>1 DEF ProcessValue
    <3> HIDE DEF x
    <3>3. IsVariable(s, e) /\ value[s] \in OperatorTypes
      BY <1>7, <2>5
    <3>4. x \in Types
      BY <3>1 DEF x
    <3>5. AddsPiece(toks, s, e, h)
      BY <1>5, <3>2, <3>3, <3>4
    <3>6. QED
      BY <3>5 DEF Adds
  <2>6. CASE value[s] \notin {"unset", "words", "led"} \cup OperatorTypes
    <3>1. h = Append(toks, NewToken(s, e, "word", Mix(e), FALSE))
      BY <2>1, <2>6 DEF ProcessValue
    <3>2. AddsPiece(toks, s, e, h)
      BY <1>4, <1>5, <3>1
    <3>3. QED
      BY <3>2 DEF Adds
  <2>7. QED
    BY <2>2, <2>3, <2>4, <2>5, <2>6
<1>8. CASE ~IsStatusWord(s, e) /\ ~(IsVariable(s, e) /\ ExpandsHere(toks))
  <2>1. h = ProcessText(toks, s, e)
    BY <1>2, <1>8 DEF HandleWordToken
  <2>2. CASE At(s) = " " /\ s + 1 = e
    <3>1. h = NotJoined(toks) \o <<>>
      BY <2>1, <2>2 DEF ProcessText
    <3>2. NotJoined(toks) \o <<>> = NotJoined(toks)
      <4>1. NotJoined(toks) \in Seq(Piece)
        BY NotJoinedFacts
      <4>2. QED
        BY <4>1
    <3>3. QED
      BY <2>2, <3>1, <3>2 DEF Adds, AddsBehindBlank
  <2>3. CASE At(s) = " " /\ s + 1 # e
    <3> DEFINE t == NewToken(s + 1, e, "word", TRUE, FALSE)
    <3>1. h = NotJoined(toks) \o <<t>>
      BY <2>1, <2>3 DEF ProcessText
    <3>2. s + 1 \in 1 .. Len(line) /\ e \in (s + 1) + 1 .. Len(line) + 1
      <4>1. s + 1 # e
        BY <2>3
      <4>2. QED
        BY <1>1, <4>1
    <3>3. IsFrom(t, s + 1, e, "word", TRUE) /\ t \in Piece
      <4>1. IsFrom(t, s + 1, e, "word", TRUE)
        BY <1>4, <3>2, PieceMade
      <4>2. QED
        BY <4>1 DEF IsFrom
    <3> HIDE DEF t
    <3>4. NotJoined(toks) \in Seq(Piece)
      BY NotJoinedFacts
    <3>5. NotJoined(toks) \o <<t>> = Append(NotJoined(toks), t)
      BY <3>3, <3>4
    <3>6. s + 1 < e
      BY <1>1, <3>2
    <3> HIDE DEF h
    <3>7. AddsBehindBlank(toks, s, e, h)
      BY <2>3, <3>1, <3>3, <3>5, <3>6 DEF AddsBehindBlank
    <3>8. QED
      BY <3>7 DEF Adds, h
  <2>4. CASE At(s) # " "
    <3>1. h = Append(toks, NewToken(s, e, GetTokenType(s, e), Mix(e), FALSE))
      BY <2>1, <2>4 DEF ProcessText
    <3>2. AddsPiece(toks, s, e, h)
      BY <1>5, <3>1, TokenTypes
    <3>3. QED
      BY <3>2 DEF Adds
  <2>5. QED
    BY <2>2, <2>3, <2>4
<1>9. QED
  BY <1>6, <1>7, <1>8

LEMMA AppendFacts ==
  ASSUME NEW toks \in Seq(Piece), NEW t \in Piece
  PROVE  /\ Append(toks, t) \in Seq(Piece)
         /\ Len(toks) \in Nat /\ Len(Append(toks, t)) = Len(toks) + 1
         /\ DOMAIN toks = 1 .. Len(toks)
         /\ DOMAIN Append(toks, t) = 1 .. Len(toks) + 1
         /\ \A k \in 1 .. Len(toks) : Append(toks, t)[k] = toks[k] /\ toks[k] \in Piece
         /\ Append(toks, t)[Len(toks) + 1] = t
OBVIOUS

LEMMA PieceFacts ==
  ASSUME line \in Lines, NEW t \in Piece
  PROVE  /\ t.from \in 1 .. Len(line) /\ t.to \in t.from .. Len(line)
         /\ t.type \in Types /\ t.info \in BOOLEAN
<1>1. Len(line) \in Nat
  BY LineFacts
<1>2. QED
  BY <1>1 DEF Piece, Positions

-----------------------------------------------------------------------------
(***************************************************************************)
(* The pieces stay in order.                                               *)
(***************************************************************************)
LEMMA AppendInOrder ==
  ASSUME line \in Lines,
         NEW toks \in Seq(Piece), NEW t \in Piece, NEW q \in Nat, NEW r \in Nat,
         InOrder(toks, q), \A k \in DOMAIN toks : toks[k].to <= t.to,
         t.to < r
  PROVE  InOrder(Append(toks, t), r)
<1> DEFINE u == Append(toks, t)
           n == Len(toks)
<1>1. /\ n \in Nat /\ DOMAIN toks = 1 .. n /\ DOMAIN u = 1 .. n + 1
      /\ \A k \in 1 .. n : u[k] = toks[k] /\ toks[k].to \in Nat
      /\ u[n + 1] = t /\ t.to \in Nat
  <2>1. \A x \in Piece : x.to \in Nat
    BY PieceFacts, LineFacts
  <2>2. QED
    BY <2>1, AppendFacts
<1> HIDE DEF u, n
<1>2. \A k \in 1 .. n + 1 : k \in 1 .. n \/ k = n + 1
  BY <1>1
<1>3. \A k \in DOMAIN u : u[k].to <= t.to
  <2>1. t.to <= t.to
    BY <1>1
  <2>2. \A k \in 1 .. n : u[k].to <= t.to
    BY <1>1
  <2>3. u[n + 1].to <= t.to
    BY <1>1, <2>1
  <2>4. QED
    BY <1>1, <1>2, <2>2, <2>3, Zenon
<1>4. \A k \in DOMAIN u : u[k].to < r
  <2>1. \A k \in DOMAIN u : u[k].to \in Nat
    BY <1>1, <1>2
  <2>2. QED
    BY <1>1, <1>3, <2>1
<1>5. \A j, k \in DOMAIN u : j < k => u[j].to <= u[k].to
  <2> SUFFICES ASSUME NEW j \in DOMAIN u, NEW k \in DOMAIN u, j < k
               PROVE  u[j].to <= u[k].to
    OBVIOUS
  <2>1. CASE k = n + 1
    BY <1>1, <1>3, <2>1
  <2>2. CASE k \in 1 .. n
    <3>1. j \in 1 .. n
      BY <1>1, <2>2
    <3>2. toks[j].to <= toks[k].to
      BY <1>1, <2>2, <3>1 DEF InOrder
    <3>3. QED
      BY <1>1, <2>2, <3>1, <3>2
  <2>3. QED
    BY <1>1, <1>2, <2>1, <2>2
<1>6. QED
  BY <1>4, <1>5 DEF InOrder, u

LEMMA NotJoinedInOrder ==
  ASSUME NEW toks \in Seq(Piece), NEW q, InOrder(toks, q)
  PROVE  InOrder(NotJoined(toks), q)
<1> DEFINE u == NotJoined(toks)
           n == Len(toks)
<1>1. /\ DOMAIN toks = 1 .. n /\ DOMAIN u = 1 .. n
      /\ \A k \in 1 .. n : u[k].to = toks[k].to
  BY NotJoinedFacts
<1> HIDE DEF u, n
<1>2. QED
  BY <1>1 DEF InOrder, u

LEMMA WordTokenInOrder ==
  ASSUME line \in Lines, value \in ValuesOf(line),
         NEW toks \in Seq(Piece),
         NEW s \in 1 .. Len(line) + 1, NEW e \in s .. Len(line) + 2,
         e = Len(line) + 2 => s = Len(line) + 1, InOrder(toks, s)
  PROVE  /\ HandleWordToken(toks, s, e) \in Seq(Piece)
         /\ InOrder(HandleWordToken(toks, s, e), e)
<1> DEFINE h == HandleWordToken(toks, s, e)
<1>1. Len(line) \in Nat
  BY LineFacts
<1>0. \A x \in Piece : x.to \in Nat
  BY <1>1, PieceFacts
<1>2. \A k \in DOMAIN toks : toks[k].to \in Nat
  BY <1>0
<1>3. CASE e <= s \/ s > Len(line)
  <2>1. h = toks
    BY <1>3, NothingAdded
  <2>2. \A k \in DOMAIN toks : toks[k].to < e
    BY <1>1, <1>2 DEF InOrder
  <2>3. InOrder(toks, e)
    BY <2>2 DEF InOrder
  <2>4. QED
    BY <2>1, <2>3
<1>4. CASE ~(e <= s \/ s > Len(line))
  <2>1. s \in 1 .. Len(line) /\ e \in s + 1 .. Len(line) + 1
    BY <1>1, <1>4
  <2>2. Adds(toks, s, e, h)
    BY <2>1, WordTokenAdds
  <2> SUFFICES h \in Seq(Piece) /\ InOrder(h, e)
    OBVIOUS
  <2> HIDE DEF h
  <2>3. s \in Nat /\ e \in Nat /\ e - 1 >= s
    BY <1>1, <2>1
  <2>4. \A u \in Seq(Piece), t \in Piece :
          /\ InOrder(u, s) /\ t.to = e - 1
          => Append(u, t) \in Seq(Piece) /\ InOrder(Append(u, t), e)
    <3> SUFFICES ASSUME NEW u \in Seq(Piece), NEW t \in Piece,
                        InOrder(u, s), t.to = e - 1
                 PROVE  Append(u, t) \in Seq(Piece) /\ InOrder(Append(u, t), e)
      OBVIOUS
    <3>2. \A k \in DOMAIN u : u[k].to \in Nat
      BY <1>0
    <3>3. \A k \in DOMAIN u : u[k].to <= t.to
      BY <2>3, <3>2 DEF InOrder
    <3>4. QED
      BY <2>3, <3>3, AppendInOrder, AppendFacts
  <2>5. NotJoined(toks) \in Seq(Piece) /\ InOrder(NotJoined(toks), s)
    BY NotJoinedFacts, NotJoinedInOrder
  <2>6. CASE AddsPiece(toks, s, e, h)
    BY <2>4, <2>6 DEF AddsPiece, IsFrom
  <2>7. CASE AddsWords(toks, s, e, h)
    <3>1. PICK t \in Piece, u \in Piece :
            /\ IsFrom(t, s, e, "word", FALSE) /\ IsFrom(u, s, e, "word", TRUE)
            /\ h = Append(Append(toks, t), u)
      BY <2>7 DEF AddsWords
    <3>2. t.to = e - 1 /\ u.to = e - 1
      BY <3>1 DEF IsFrom
    <3>3. Append(toks, t) \in Seq(Piece) /\ InOrder(Append(toks, t), e)
      BY <2>4, <3>2
    <3>4. \A k \in DOMAIN Append(toks, t) : Append(toks, t)[k].to <= u.to
      <4>2. \A k \in DOMAIN Append(toks, t) : Append(toks, t)[k].to \in Nat
        BY <1>0, <3>3
      <4>3. QED
        BY <2>3, <3>2, <3>3, <4>2 DEF InOrder
    <3>5. u.to < e
      BY <2>3, <3>2
    <3>6. InOrder(Append(Append(toks, t), u), e)
      BY <2>3, <3>3, <3>4, <3>5, AppendInOrder
    <3>7. QED
      BY <3>1, <3>3, <3>6, AppendFacts
  <2>8. CASE AddsLed(toks, s, e, h)
    BY <2>4, <2>5, <2>8 DEF AddsLed, IsFrom
  <2>9. CASE AddsBehindBlank(toks, s, e, h)
    <3>1. CASE h = NotJoined(toks)
      <4>1. \A k \in DOMAIN h : h[k].to \in Nat
        BY <1>0, <2>5, <3>1
      <4>2. \A k \in DOMAIN h : h[k].to < e
        BY <2>3, <2>5, <3>1, <4>1 DEF InOrder
      <4>3. QED
        BY <2>5, <3>1, <4>2 DEF InOrder
    <3>2. CASE \E t \in Piece : IsFrom(t, s + 1, e, "word", TRUE)
                                  /\ h = Append(NotJoined(toks), t)
      BY <2>4, <2>5, <3>2 DEF IsFrom
    <3>3. QED
      BY <2>9, <3>1, <3>2 DEF AddsBehindBlank
  <2>10. QED
    BY <2>2, <2>6, <2>7, <2>8, <2>9 DEF Adds
<1>5. QED
  BY <1>3, <1>4

-----------------------------------------------------------------------------
(***************************************************************************)
(* What the pieces stand for.                                              *)
(***************************************************************************)
LEMMA AppendMeaning ==
  ASSUME NEW toks \in Seq(Piece), NEW t \in Piece, NEW q,
         Meaning(toks, t.from),
         \A p \in t.from .. t.to : MayHold(p, t.type),
         t.type # "word" => OperatorHas(t),
         \A p \in t.from .. t.to : IsMeta(p) /\ ~BehindStatus(p) =>
           ~t.info /\ (toks # <<>> => ~toks[Len(toks)].info),
         t.info => JoinedAcross(t.to, q)
  PROVE  Meaning(Append(toks, t), q)
<1> DEFINE u == Append(toks, t)
           n == Len(toks)
<1>1. /\ n \in Nat /\ DOMAIN toks = 1 .. n /\ DOMAIN u = 1 .. n + 1
      /\ Len(u) = n + 1 /\ u[n + 1] = t
      /\ \A k \in 1 .. n : u[k] = toks[k]
  BY AppendFacts
<1>2. toks # <<>> <=> n > 0
  BY DEF n
<1> SUFFICES ASSUME NEW k \in 1 .. n + 1
             PROVE  /\ \A p \in u[k].from .. u[k].to : MayHold(p, u[k].type)
                    /\ u[k].type # "word" => OperatorHas(u[k])
                    /\ StandsAlone(u, k)
                    /\ u[k].info => JoinedAcross(u[k].to,
                         IF k = Len(u) THEN q ELSE u[k + 1].from)
  <2> HIDE DEF n
  <2>1. QED
    BY <1>1 DEF Meaning
<1> HIDE DEF u, n
<1>3. CASE k = n + 1
  <2>1. StandsAlone(u, k)
    <3>1. k > 1 => n > 0 /\ u[k - 1] = toks[n]
      BY <1>1, <1>3
    <3>2. QED
      BY <1>1, <1>2, <1>3, <3>1 DEF StandsAlone, n
  <2>2. QED
    BY <1>1, <1>3, <2>1
<1>4. CASE k \in 1 .. n
  <2>1. /\ \A p \in toks[k].from .. toks[k].to : MayHold(p, toks[k].type)
        /\ toks[k].type # "word" => OperatorHas(toks[k])
        /\ StandsAlone(toks, k)
        /\ toks[k].info => JoinedAcross(toks[k].to,
             IF k = n THEN t.from ELSE toks[k + 1].from)
    BY <1>1, <1>4 DEF Meaning, n
  <2>2. u[k] = toks[k] /\ k # Len(u)
    BY <1>1, <1>4
  <2>3. u[k + 1].from = IF k = n THEN t.from ELSE toks[k + 1].from
    <3>1. CASE k = n
      BY <1>1, <3>1
    <3>2. CASE k # n
      <4>1. k + 1 \in 1 .. n
        BY <1>1, <1>4, <3>2
      <4>2. QED
        BY <1>1, <3>2, <4>1
    <3>3. QED
      BY <3>1, <3>2
  <2>4. StandsAlone(u, k)
    <3>1. k > 1 => u[k - 1] = toks[k - 1]
      <4>1. k > 1 => k - 1 \in 1 .. n
        BY <1>1, <1>4
      <4>2. QED
        BY <1>1, <4>1
    <3>2. QED
      BY <2>1, <2>2, <3>1 DEF StandsAlone
  <2>5. QED
    BY <2>1, <2>2, <2>3, <2>4
<1>5. QED
  BY <1>1, <1>3, <1>4

LEMMA NotJoinedMeaning ==
  ASSUME NEW toks \in Seq(Piece), NEW q, Meaning(toks, q), NEW r
  PROVE  Meaning(NotJoined(toks), r)
<1> DEFINE u == NotJoined(toks)
           n == Len(toks)
<1>1. /\ n \in Nat /\ DOMAIN toks = 1 .. n /\ DOMAIN u = 1 .. n /\ Len(u) = n
      /\ \A k \in 1 .. n : /\ u[k].from = toks[k].from /\ u[k].to = toks[k].to
                           /\ u[k].type = toks[k].type
                           /\ u[k].info => toks[k].info /\ k < n
  BY NotJoinedFacts
<1> HIDE DEF u
<1> SUFFICES ASSUME NEW k \in 1 .. n
             PROVE  /\ \A p \in u[k].from .. u[k].to : MayHold(p, u[k].type)
                    /\ u[k].type # "word" => OperatorHas(u[k])
                    /\ StandsAlone(u, k)
                    /\ u[k].info => JoinedAcross(u[k].to,
                         IF k = Len(u) THEN r ELSE u[k + 1].from)
  <2> HIDE DEF n
  <2>1. QED
    BY <1>1 DEF Meaning, u
<1>2. /\ \A p \in toks[k].from .. toks[k].to : MayHold(p, toks[k].type)
      /\ toks[k].type # "word" => OperatorHas(toks[k])
      /\ StandsAlone(toks, k)
      /\ toks[k].info => JoinedAcross(toks[k].to,
           IF k = n THEN q ELSE toks[k + 1].from)
  BY <1>1 DEF Meaning
<1> HIDE DEF n
<1>3. u[k].type # "word" => OperatorHas(u[k])
  BY <1>1, <1>2 DEF OperatorHas
<1>4. StandsAlone(u, k)
  <2>1. k > 1 => (u[k - 1].info => toks[k - 1].info)
    <3>1. k > 1 => k - 1 \in 1 .. n
      BY <1>1
    <3>2. QED
      BY <1>1, <3>1
  <2>2. QED
    BY <1>1, <1>2, <2>1 DEF StandsAlone
<1>5. u[k].info => JoinedAcross(u[k].to, IF k = Len(u) THEN r ELSE u[k + 1].from)
  <2>1. k < n => k + 1 \in 1 .. n
    BY <1>1
  <2>2. k < n => k # n
    BY <1>1
  <2>3. QED
    BY <1>1, <1>2, <2>1, <2>2
<1>6. QED
  BY <1>1, <1>2, <1>3, <1>4, <1>5

LEMMA UnjoinedMeaning ==
  ASSUME NEW toks \in Seq(Piece), NEW q, NEW r, Meaning(toks, q),
         toks # <<>> => ~toks[Len(toks)].info
  PROVE  Meaning(toks, r)
<1> DEFINE n == Len(toks)
<1>1. n \in Nat /\ DOMAIN toks = 1 .. n /\ (n > 0 => toks # <<>>)
  OBVIOUS
<1>2. \A k \in 1 .. n : k = n => ~toks[k].info
  BY <1>1
<1>3. QED
  BY <1>1, <1>2 DEF Meaning

LEMMA WordTokenMeaning ==
  ASSUME line \in Lines, value \in ValuesOf(line),
         NEW toks \in Seq(Piece),
         NEW s \in 1 .. Len(line), NEW e \in s + 1 .. Len(line) + 1,
         Meaning(toks, s), Unquoted(s),
         \A p \in s .. e - 1 : IsText(p) \/ BehindStatus(p)
  PROVE  Meaning(HandleWordToken(toks, s, e), e)
<1> DEFINE h == HandleWordToken(toks, s, e)
<1> SUFFICES Meaning(h, e)
  OBVIOUS
<1>1. Len(line) \in Nat /\ s \in Nat /\ e \in Nat
  BY LineFacts
<1>2. Adds(toks, s, e, h)
  BY WordTokenAdds
<1> HIDE DEF h
<1>3. JoinedAcross(e - 1, e)
  BY <1>1 DEF JoinedAcross
<1>4. ASSUME NEW u \in Seq(Piece), NEW t \in Piece, Meaning(u, t.from),
             t.from = s \/ t.from = s + 1, t.to = e - 1,
             t.type # "word" => OperatorHas(t)
      PROVE  Meaning(Append(u, t), e)
  <2>1. \A p \in t.from .. t.to : IsText(p) \/ BehindStatus(p)
    BY <1>1, <1>4
  <2>2. \A p \in t.from .. t.to : MayHold(p, t.type)
    BY <2>1 DEF MayHold
  <2>3. \A p \in t.from .. t.to : IsMeta(p) => BehindStatus(p)
    BY <2>1 DEF IsText
  <2>4. JoinedAcross(t.to, e)
    BY <1>3, <1>4
  <2>5. QED
    BY <1>4, <2>2, <2>3, <2>4, AppendMeaning
<1>5. CASE AddsPiece(toks, s, e, h)
  <2>1. PICK t \in Piece, x \in Types :
          /\ IsFrom(t, s, e, x, Mix(e))
          /\ \/ x = "word"
             \/ IsVariable(s, e) /\ value[s] \in OperatorTypes
             \/ At(s) \in Metas
          /\ h = Append(toks, t)
    BY <1>5 DEF AddsPiece
  <2>2. t.from = s /\ t.to = e - 1 /\ t.type = x
    BY <2>1 DEF IsFrom
  <2>3. x # "word" => OperatorHas(t)
    <3>1. At(s) \in Metas => IsMeta(s)
      BY LineFacts DEF IsMeta
    <3>2. t.to + 1 = e
      BY <1>1, <2>2
    <3>3. QED
      BY <2>1, <2>2, <3>1, <3>2 DEF OperatorHas
  <2>4. QED
    BY <1>4, <2>1, <2>2, <2>3
<1>6. CASE AddsWords(toks, s, e, h)
  <2>1. PICK t \in Piece, u \in Piece :
          /\ IsFrom(t, s, e, "word", FALSE) /\ IsFrom(u, s, e, "word", TRUE)
          /\ h = Append(Append(toks, t), u)
    BY <1>6 DEF AddsWords
  <2>2. /\ t.from = s /\ t.to = e - 1 /\ t.type = "word" /\ ~t.info
        /\ u.from = s /\ u.to = e - 1 /\ u.type = "word"
    BY <2>1 DEF IsFrom
  <2> DEFINE v == Append(toks, t)
  <2>3. v \in Seq(Piece) /\ Len(v) = Len(toks) + 1 /\ v[Len(toks) + 1] = t
    BY AppendFacts
  <2>4. Meaning(v, e)
    BY <1>4, <2>2
  <2>5. h = Append(v, u)
    BY <2>1
  <2> HIDE DEF v
  <2>6. Meaning(v, s)
    BY <2>2, <2>3, <2>4, UnjoinedMeaning
  <2>7. QED
    BY <1>4, <2>2, <2>3, <2>5, <2>6
<1>7. CASE AddsLed(toks, s, e, h)
  <2>1. PICK t \in Piece : IsFrom(t, s, e, "word", TRUE)
                             /\ h = Append(NotJoined(toks), t)
    BY <1>7 DEF AddsLed
  <2>2. t.from = s /\ t.to = e - 1 /\ t.type = "word"
    BY <2>1 DEF IsFrom
  <2>3. NotJoined(toks) \in Seq(Piece) /\ Meaning(NotJoined(toks), s)
    BY NotJoinedFacts, NotJoinedMeaning
  <2>4. QED
    BY <1>4, <2>1, <2>2, <2>3
<1>8. CASE AddsBehindBlank(toks, s, e, h)
  <2>1. /\ NotJoined(toks) \in Seq(Piece) /\ Meaning(NotJoined(toks), e)
        /\ Meaning(NotJoined(toks), s + 1)
    BY NotJoinedFacts, NotJoinedMeaning
  <2>2. CASE h = NotJoined(toks)
    BY <2>1, <2>2
  <2>3. CASE \E t \in Piece : IsFrom(t, s + 1, e, "word", TRUE)
                                /\ h = Append(NotJoined(toks), t)
    <3>1. PICK t \in Piece : IsFrom(t, s + 1, e, "word", TRUE)
                               /\ h = Append(NotJoined(toks), t)
      BY <2>3
    <3>2. t.from = s + 1 /\ t.to = e - 1 /\ t.type = "word"
      BY <3>1 DEF IsFrom
    <3>3. QED
      BY <1>4, <2>1, <3>1, <3>2
  <2>4. QED
    BY <1>8, <2>2, <2>3 DEF AddsBehindBlank
<1>9. QED
  BY <1>2, <1>5, <1>6, <1>7, <1>8 DEF Adds

LEMMA LastAppended ==
  ASSUME NEW toks \in Seq(Piece), NEW t \in Piece
  PROVE  Append(toks, t)[Len(Append(toks, t))] = t
BY AppendFacts

LEMMA LastNotJoined ==
  ASSUME NEW toks \in Seq(Piece)
  PROVE  NotJoined(toks) = <<>> \/ ~NotJoined(toks)[Len(NotJoined(toks))].info
<1> DEFINE u == NotJoined(toks)
           n == Len(toks)
<1>1. u \in Seq(Piece) /\ Len(u) = n /\ n \in Nat
      /\ \A k \in 1 .. n : u[k].info => k < n
  BY NotJoinedFacts
<1> HIDE DEF u, n
<1>2. u = <<>> \/ (n \in 1 .. n /\ ~(n < n))
  BY <1>1
<1>3. QED
  BY <1>1, <1>2 DEF u

(* Before a blank only a split piece asks to be joined. *)
LEMMA WordTokenSplits ==
  ASSUME line \in Lines, value \in ValuesOf(line),
         NEW toks \in Seq(Piece),
         NEW s \in 1 .. Len(line), NEW e \in s + 1 .. Len(line) + 1,
         At(e) = " ", At(s) = " " => BehindStatus(s),
         IsVariable(s, e) \/ At(s) = " " =>
           \A k \in s + 1 .. e - 1 :
             At(k) = "a" \/ (BehindStatus(s) /\ At(k) \in Letters),
         NEW h, h = HandleWordToken(toks, s, e)
  PROVE  h # <<>> /\ h[Len(h)].info => IsSplit(s, e)
<1>1. Adds(toks, s, e, h)
  BY WordTokenAdds
<1>2. ~Mix(e)
  BY DEF Mix
<1>3. AddsWords(toks, s, e, h) \/ AddsLed(toks, s, e, h) =>
        IsVariable(s, e) /\ value[s] \in {"words", "led"}
  BY DEF AddsWords, AddsLed
<1>4. IsVariable(s, e) => s + 1 < e
  BY DEF IsVariable
<1>5. AddsPiece(toks, s, e, h) => ~h[Len(h)].info
  <2> SUFFICES ASSUME NEW t \in Piece, NEW x \in Types,
                      IsFrom(t, s, e, x, Mix(e)), h = Append(toks, t)
               PROVE  ~h[Len(h)].info
    BY DEF AddsPiece
  <2>1. ~t.info
    BY <1>2 DEF IsFrom
  <2>2. Append(toks, t)[Len(Append(toks, t))] = t
    BY LastAppended
  <2>3. QED
    BY <2>1, <2>2
<1>6. h = NotJoined(toks) => h = <<>> \/ ~h[Len(h)].info
  BY LastNotJoined
<1>7. AddsBehindBlank(toks, s, e, h) =>
        h = NotJoined(toks) \/ (At(s) = " " /\ s + 1 < e)
  BY DEF AddsBehindBlank
<1>8. AddsWords(toks, s, e, h) \/ AddsLed(toks, s, e, h) => IsSplit(s, e)
  BY <1>3, <1>4 DEF IsSplit
<1>9. At(s) = " " /\ s + 1 < e => IsSplit(s, e)
  BY DEF IsSplit
<1>10. QED
  BY <1>1, <1>5, <1>6, <1>7, <1>8, <1>9 DEF Adds

-----------------------------------------------------------------------------
(***************************************************************************)
(* What each handler makes of a line whose quotes it sees.                 *)
(***************************************************************************)
LEMMA CharFacts ==
  ASSUME line \in Lines, NEW p \in 1 .. Len(line)
  PROVE  /\ At(p) = line[p] /\ line[p] \in Chars /\ line[p] # "NUL"
         /\ line[p] \notin Metas \cup {" "} => IsText(p)
         /\ ~Unquoted(p) => IsText(p)
         /\ Unquoted(p) => (IsMeta(p) <=> line[p] \in Metas)
         /\ Unquoted(p) => (IsBlank(p) <=> line[p] = " ")
<1>1. line[p] \in Chars /\ At(p) = line[p]
  BY LineFacts
<1>2. "NUL" \notin Chars
  BY DEF Chars, Quotes, Metas, Letters
<1>3. QED
  BY <1>1, <1>2 DEF IsText, IsMeta, IsBlank

(* A gap that is text, or where words are glued, changes nothing. *)
LEMMA MeaningMoves ==
  ASSUME NEW toks \in Seq(Piece), NEW q \in Nat, NEW r \in Nat, q <= r,
         Meaning(toks, q),
         toks # <<>> /\ toks[Len(toks)].info =>
           \A p \in q .. r - 1 : IsText(p) \/ GluedAt(p),
         \A k \in DOMAIN toks : toks[k].to \in Nat
  PROVE  Meaning(toks, r)
<1> DEFINE n == Len(toks)
<1>1. n \in Nat /\ DOMAIN toks = 1 .. n /\ (n > 0 => toks # <<>>)
  OBVIOUS
<1>2. ASSUME NEW k \in 1 .. n, k = n, toks[k].info
      PROVE  JoinedAcross(toks[k].to, r)
  <2>1. JoinedAcross(toks[k].to, q)
    BY <1>1, <1>2 DEF Meaning
  <2>2. \A p \in q .. r - 1 : IsText(p) \/ GluedAt(p)
    BY <1>1, <1>2
  <2>3. toks[k].to \in Nat
    BY <1>1
  <2>4. \A p \in toks[k].to + 1 .. r - 1 :
          p \in toks[k].to + 1 .. q - 1 \/ p \in q .. r - 1
    BY <2>3
  <2>5. QED
    BY <2>1, <2>2, <2>4 DEF JoinedAcross
<1>3. QED
  BY <1>1, <1>2 DEF Meaning

LEMMA SeenText ==
  ASSUME line \in Lines,
         NEW s \in 1 .. Len(line) + 1, NEW e \in s .. Len(line) + 1,
         PlainText(s, e)
  PROVE  /\ \A p \in s .. e : Unquoted(p)
         /\ \A p \in s .. e - 1 : IsText(p) \/ BehindStatus(p)
         /\ \A p \in s + 1 .. e - 1 : At(p) \in Letters
         /\ s < e => At(s) \in Letters \cup {"$"} \/ BehindStatus(s)
<1>1. Len(line) \in Nat
  BY LineFacts
<1>2. \A p \in s .. e - 1 : p \in 1 .. Len(line)
  BY <1>1
<1>3. \A p \in s .. e : Unquoted(p)
  BY <1>1 DEF PlainText
<1>4. \A p \in s .. e - 1 : At(p) # "NUL"
  BY <1>2, CharFacts
<1>5. \A p \in s + 1 .. e - 1 : At(p) \in Letters
  BY <1>1, <1>4 DEF PlainText
<1>6. s < e => At(s) \in Letters \cup {"$"} \/ BehindStatus(s)
  <2>1. s < e => s \in s .. e - 1
    BY <1>1
  <2>2. QED
    BY <1>4, <2>1 DEF PlainText
<1>7. \A p \in s .. e - 1 : At(p) \in Letters \cup {"$"} => IsText(p)
  <2>1. \A c \in Letters \cup {"$"} : c \notin Metas \cup {" "}
    BY DEF Metas, Letters
  <2>2. QED
    BY <1>2, <2>1, CharFacts
<1>8. \A p \in s .. e - 1 : p = s \/ p \in s + 1 .. e - 1
  BY <1>1
<1>9. QED
  BY <1>1, <1>3, <1>5, <1>6, <1>7, <1>8

(* The piece before the character at e. *)
LEMMA SeesPiece ==
  ASSUME line \in Lines, value \in ValuesOf(line),
         NEW toks \in Seq(Piece),
         NEW s \in 1 .. Len(line) + 1, NEW e \in s .. Len(line) + 1,
         Sees(toks, s, e), NEW h, h = HandleWordToken(toks, s, e)
  PROVE  /\ Meaning(h, e)
         /\ At(e) = " " => EndsSplit(h, e)
<1>1. Len(line) \in Nat
  BY LineFacts
<1>2. CASE s = e
  <2>1. h = toks
    BY <1>1, <1>2, NothingAdded
  <2>2. QED
    BY <1>2, <2>1 DEF Sees, BlankGlues
<1>3. CASE s < e
  <2>1. s \in 1 .. Len(line) /\ e \in s + 1 .. Len(line) + 1
    BY <1>1, <1>3
  <2>2. /\ Meaning(toks, s) /\ PlainText(s, e)
    BY DEF Sees
  <2>3. Unquoted(s) /\ \A p \in s .. e - 1 : IsText(p) \/ BehindStatus(p)
    <3>1. s \in s .. e
      BY <1>1
    <3>2. QED
      BY <2>2, <3>1, SeenText
  <2>4. Meaning(h, e)
    BY <2>1, <2>2, <2>3, WordTokenMeaning
  <2>5. At(s) = " " \/ IsVariable(s, e) => BehindStatus(s)
    <3>1. At(s) = " " => BehindStatus(s)
      BY <1>3, <2>2, SeenText DEF Letters
    <3>2. IsVariable(s, e) => BehindStatus(s)
      BY <1>3, <2>2 DEF PlainText, IsVariable
    <3>3. QED
      BY <3>1, <3>2
  <2>6. \A k \in s + 1 .. e - 1 : At(k) \in Letters
    BY <2>2, SeenText
  <2>7. At(e) = " " => (h # <<>> /\ h[Len(h)].info => IsSplit(s, e))
    BY <2>1, <2>5, <2>6, WordTokenSplits
  <2>8. IsSplit(s, e) => s \in 1 .. e - 2
    <3>1. IsSplit(s, e) => s + 1 < e
      BY DEF IsSplit
    <3>2. s \in Nat /\ s >= 1 /\ e \in Nat
      BY <1>1
    <3>3. QED
      BY <3>1, <3>2
  <2>9. QED
    BY <2>4, <2>7, <2>8 DEF EndsSplit
<1>4. s = e \/ s < e
  <2>1. s \in Nat /\ e \in Nat /\ s <= e
    BY <1>1
  <2>2. QED
    BY <2>1
<1>5. QED
  BY <1>2, <1>3, <1>4

LEMMA SeesDollar ==
  ASSUME line \in Lines, value \in ValuesOf(line),
         NEW toks \in Seq(Piece), NEW e \in 1 .. Len(line),
         Meaning(toks, e), Unquoted(e), At(e) = "$", At(e + 1) = "a",
         NEW b, b = Behind(e + 1, {"a"}),
         NEW h, h = HandleWordToken(toks, e, b)
  PROVE  b \in e + 2 .. Len(line) + 1 /\ Sees(h, b, b)
<1>1. Len(line) \in Nat
  BY LineFacts
<1>2. /\ b \in e + 1 .. Len(line) + 1 /\ At(b) # "a"
      /\ \A k \in e + 1 .. b - 1 : At(k) = "a"
  <2>1. e + 1 \in 1 .. Len(line) + 1
    BY <1>1
  <2>2. "NUL" \notin {"a"}
    OBVIOUS
  <2>3. QED
    BY <2>1, <2>2, BehindFacts
<1>3. b \in e + 2 .. Len(line) + 1
  <2>1. b # e + 1
    BY <1>2
  <2>2. QED
    BY <1>1, <1>2, <2>1
<1>4. \A p \in e .. b - 1 : p \in 1 .. Len(line) /\ At(p) \in {"$", "a"}
  <2>1. \A p \in e .. b - 1 : p \in 1 .. Len(line) /\ (p = e \/ p \in e + 1 .. b - 1)
    BY <1>1, <1>3
  <2>2. QED
    BY <1>2, <2>1
<1>5. \A p \in e .. b - 1 : IsText(p) /\ At(p) \notin Quotes
  <2>1. \A c \in {"$", "a"} : c \notin Metas \cup {" "} /\ c \notin Quotes
    BY DEF Metas, Quotes
  <2>2. QED
    BY <1>4, <2>1, CharFacts
<1>6. b \in e + 1 .. Len(line) + 1
  BY <1>1, <1>3
<1>7. Meaning(h, b)
  BY <1>5, <1>6, WordTokenMeaning
<1>8. Unquoted(b)
  <2>1. e \in 1 .. Len(line) + 1 /\ b \in e .. Len(line) + 1 /\ b \in e .. b
    BY <1>1, <1>3
  <2>2. QED
    BY <1>5, <2>1, UnquotedRun
<1>9. PlainText(b, b)
  BY <1>1, <1>3, <1>8 DEF PlainText
<1>10. BlankGlues(h, b, b)
  <2>1. At(b) = " " => (h # <<>> /\ h[Len(h)].info => IsSplit(e, b))
    BY <1>2, <1>6, WordTokenSplits
  <2>2. e \in 1 .. b - 2
    BY <1>1, <1>3
  <2>3. QED
    BY <2>1, <2>2 DEF BlankGlues, EndsSplit
<1>11. QED
  BY <1>3, <1>7, <1>9, <1>10 DEF Sees

LEMMA SeesStatus ==
  ASSUME line \in Lines, value \in ValuesOf(line), InStep,
         NEW toks \in Seq(Piece), NEW e \in 1 .. Len(line),
         Meaning(toks, e), Unquoted(e), At(e) = "$", At(e + 1) = "?",
         NEW h, h = HandleWordToken(toks, e, e + 2)
  PROVE  e + 2 <= Len(line) + 1 /\ Sees(h, e + 2, e + 3)
<1>1. Len(line) \in Nat
  BY LineFacts
<1>2. e + 1 \in 1 .. Len(line)
  BY <1>1, LineFacts
<1>3. \A p \in e .. (e + 2) - 1 : p \in 1 .. Len(line) /\ At(p) \in {"$", "?"}
  <2>1. \A p \in e .. (e + 2) - 1 : p = e \/ p = e + 1
    BY <1>1
  <2>2. QED
    BY <1>2, <2>1
<1>4. \A p \in e .. (e + 2) - 1 : IsText(p) /\ At(p) \notin Quotes
  <2>1. \A c \in {"$", "?"} : c \notin Metas \cup {" "} /\ c \notin Quotes
    BY DEF Metas, Quotes
  <2>2. QED
    BY <1>3, <2>1, CharFacts
<1>5. e + 2 \in e + 1 .. Len(line) + 1
  BY <1>1, <1>2
<1>6. Meaning(h, e + 2)
  BY <1>4, <1>5, WordTokenMeaning
<1>7. Unquoted(e + 2)
  <2>1. /\ e \in 1 .. Len(line) + 1 /\ e + 2 \in e .. Len(line) + 1
        /\ e + 2 \in e .. e + 2
    BY <1>1, <1>5
  <2>2. QED
    BY <1>4, <2>1, UnquotedRun
<1>8. BehindStatus(e + 2)
  <2>1. e + 2 > 2 /\ (e + 2) - 2 = e /\ (e + 2) - 1 = e + 1
    BY <1>1
  <2>2. QED
    BY <2>1 DEF BehindStatus
<1>9. e + 3 <= Len(line) + 1 => Unquoted(e + 3)
  <2> SUFFICES ASSUME e + 3 <= Len(line) + 1 PROVE Unquoted(e + 3)
    OBVIOUS
  <2>1. e + 2 \in 1 .. Len(line)
    BY <1>1
  <2>2. line[e + 2] \notin Quotes
    BY <1>7, <1>8, <2>1, LineFacts DEF InStep
  <2>3. /\ e + 2 \in 1 .. Len(line) + 1 /\ e + 3 \in e + 2 .. Len(line) + 1
        /\ e + 3 \in e + 2 .. e + 3
    BY <1>1, <2>1
  <2>4. \A k \in e + 2 .. (e + 3) - 1 : k = e + 2
    BY <1>1
  <2>5. \A k \in e + 2 .. (e + 3) - 1 : At(k) \notin Quotes
    BY <2>1, <2>2, <2>4, LineFacts
  <2>6. QED
    BY <1>7, <2>3, <2>5, UnquotedRun
<1>10. PlainText(e + 2, e + 3)
  <2>1. \A p \in e + 2 .. e + 3 : p = e + 2 \/ p = e + 3
    BY <1>1
  <2>2. \A p \in (e + 2) + 1 .. (e + 3) - 1 : FALSE
    BY <1>1
  <2>3. QED
    BY <1>7, <1>8, <1>9, <2>1, <2>2 DEF PlainText
<1>11. BlankGlues(h, e + 2, e + 3)
  <2>1. e + 2 # e + 3
    BY <1>1
  <2>2. QED
    BY <2>1 DEF BlankGlues
<1>12. QED
  BY <1>1, <1>2, <1>6, <1>10, <1>11 DEF Sees

LEMMA SeesLoneDollar ==
  ASSUME line \in Lines,
         NEW toks \in Seq(Piece), NEW e \in 1 .. Len(line),
         Meaning(toks, e), Unquoted(e), At(e) = "$", At(e + 1) # "a"
  PROVE  Sees(toks, e, e + 1)
<1>1. Len(line) \in Nat
  BY LineFacts
<1>2. /\ e \in 1 .. Len(line) + 1 /\ e + 1 \in e .. Len(line) + 1
      /\ e + 1 \in e .. e + 1
  BY <1>1
<1>3. \A k \in e .. (e + 1) - 1 : k = e
  BY <1>1
<1>4. Unquoted(e + 1)
  <2>1. At(e) \notin Quotes
    BY DEF Quotes
  <2>2. QED
    BY <1>2, <1>3, <2>1, UnquotedRun
<1>5. PlainText(e, e + 1)
  <2>1. \A p \in e .. e + 1 : p = e \/ p = e + 1
    BY <1>1
  <2>2. \A p \in e + 1 .. (e + 1) - 1 : FALSE
    BY <1>1
  <2>3. QED
    BY <1>4, <2>1, <2>2 DEF PlainText
<1>6. e # e + 1
  BY <1>1
<1>7. QED
  BY <1>5, <1>6 DEF Sees, BlankGlues

LEMMA SeesOther ==
  ASSUME line \in Lines,
         NEW toks \in Seq(Piece),
         NEW e \in 1 .. Len(line), NEW s \in 1 .. e,
         Sees(toks, s, e), At(e) \in Letters
  PROVE  Sees(toks, s, e + 1)
<1>1. Len(line) \in Nat
  BY LineFacts
<1>2. /\ e \in 1 .. Len(line) + 1 /\ e + 1 \in e .. Len(line) + 1
      /\ e + 1 \in e .. e + 1
  BY <1>1
<1>3. \A k \in e .. (e + 1) - 1 : k = e
  BY <1>1
<1>4. PlainText(s, e)
  BY DEF Sees
<1>5. Unquoted(e)
  BY <1>1, <1>4 DEF PlainText
<1>6. Unquoted(e + 1)
  <2>1. At(e) \notin Quotes
    BY DEF Quotes, Letters
  <2>2. QED
    BY <1>2, <1>3, <1>5, <2>1, UnquotedRun
<1>7. \A p \in s .. e + 1 : p <= Len(line) + 1 => Unquoted(p)
  <2>1. \A p \in s .. e + 1 : p \in s .. e \/ p = e + 1
    BY <1>1
  <2>2. QED
    BY <1>4, <1>6, <2>1 DEF PlainText
<1>8. \A p \in s + 1 .. (e + 1) - 1 : At(p) \in Letters \cup {"NUL"}
  <2>1. \A p \in s + 1 .. (e + 1) - 1 : p \in s + 1 .. e - 1 \/ p = e
    BY <1>1
  <2>2. QED
    BY <1>4, <2>1 DEF PlainText
<1>9. /\ At(s) \in Letters \cup {"$", "NUL"} \/ BehindStatus(s)
      /\ At(s) = "$" /\ At(s + 1) = "a" => BehindStatus(s)
  <2>1. CASE s = e
    BY <2>1 DEF Letters
  <2>2. CASE s < e
    BY <1>4, <2>2 DEF PlainText
  <2>3. s = e \/ s < e
    BY <1>1
  <2>4. QED
    BY <2>1, <2>2, <2>3
<1>10. PlainText(s, e + 1)
  BY <1>7, <1>8, <1>9 DEF PlainText
<1>11. s # e + 1
  BY <1>1
<1>12. QED
  BY <1>10, <1>11 DEF Sees, BlankGlues

(* An operator of the line: one character, or two that are the same. *)
OperatorEnd(e) ==
  IF At(e) # "|" /\ At(e + 1) = At(e) THEN e + 2 ELSE e + 1

WithOperator(toks, e) ==
  Append(NotJoined(toks),
         NewToken(e, OperatorEnd(e), GetTokenType(e, OperatorEnd(e)), FALSE, FALSE))

LEMMA OperatorFacts ==
  ASSUME line \in Lines,
         NEW e \in 1 .. Len(line), At(e) \in Metas
  PROVE  /\ OperatorEnd(e) \in e + 1 .. Len(line) + 1
         /\ OperatorEnd(e) \in {e + 1, e + 2}
         /\ \A p \in e .. OperatorEnd(e) - 1 :
              p \in 1 .. Len(line) /\ At(p) = At(e) /\ At(p) \notin Quotes
         /\ OperatorEnd(e) = e + 2 <=> (At(e) # "|" /\ At(e + 1) = At(e))
<1>1. Len(line) \in Nat
  BY LineFacts
<1>2. "NUL" \notin Metas /\ \A c \in Metas : c \notin Quotes
  BY DEF Metas, Quotes
<1>3. At(e + 1) = At(e) => e + 1 \in 1 .. Len(line)
  BY <1>1, <1>2, LineFacts
<1>4. CASE At(e) # "|" /\ At(e + 1) = At(e)
  <2>1. OperatorEnd(e) = e + 2 /\ e + 1 \in 1 .. Len(line)
    BY <1>3, <1>4 DEF OperatorEnd
  <2>2. \A p \in e .. (e + 2) - 1 : p = e \/ p = e + 1
    BY <1>1
  <2>3. e + 2 \in e + 1 .. Len(line) + 1
    BY <1>1, <2>1
  <2>4. QED
    BY <1>2, <1>4, <2>1, <2>2, <2>3
<1>5. CASE ~(At(e) # "|" /\ At(e + 1) = At(e))
  <2>1. OperatorEnd(e) = e + 1 /\ e + 1 # e + 2
    BY <1>1, <1>5 DEF OperatorEnd
  <2>2. \A p \in e .. (e + 1) - 1 : p = e
    BY <1>1
  <2>3. e + 1 \in e + 1 .. Len(line) + 1
    BY <1>1
  <2>4. QED
    BY <1>2, <1>5, <2>1, <2>2, <2>3
<1>6. QED
  BY <1>4, <1>5

LEMMA OperatorPiece ==
  ASSUME line \in Lines,
         NEW toks \in Seq(Piece), NEW e \in 1 .. Len(line), At(e) \in Metas
  PROVE  \E t \in Piece, x \in Types :
           /\ IsFrom(t, e, OperatorEnd(e), x, FALSE) /\ x # "word"
           /\ WithOperator(toks, e) = Append(NotJoined(toks), t)
<1> DEFINE b == OperatorEnd(e)
           x == GetTokenType(e, b)
           t == NewToken(e, b, x, FALSE, FALSE)
<1>1. b \in e + 1 .. Len(line) + 1
  BY OperatorFacts
<1>2. x \in Types /\ x # "word"
  BY TokenTypes
<1> HIDE DEF x, b
<1>3. IsFrom(t, e, b, x, FALSE)
  BY <1>1, <1>2, PieceMade
<1>4. WithOperator(toks, e) = Append(NotJoined(toks), t)
  BY DEF WithOperator, b, x
<1> HIDE DEF t
<1>5. t \in Piece
  BY <1>3 DEF IsFrom
<1>6. QED
  BY <1>2, <1>3, <1>4, <1>5 DEF b

LEMMA OperatorInOrder ==
  ASSUME line \in Lines,
         NEW toks \in Seq(Piece), NEW e \in 1 .. Len(line), At(e) \in Metas,
         InOrder(toks, e)
  PROVE  /\ WithOperator(toks, e) \in Seq(Piece)
         /\ InOrder(WithOperator(toks, e), OperatorEnd(e))
<1>1. Len(line) \in Nat
  BY LineFacts
<1>2. OperatorEnd(e) \in Nat /\ OperatorEnd(e) >= e + 1 /\ e \in Nat
  BY <1>1, OperatorFacts
<1>3. PICK t \in Piece : /\ t.to = OperatorEnd(e) - 1
                         /\ WithOperator(toks, e) = Append(NotJoined(toks), t)
  BY OperatorPiece DEF IsFrom
<1>4. NotJoined(toks) \in Seq(Piece) /\ InOrder(NotJoined(toks), e)
  BY NotJoinedFacts, NotJoinedInOrder
<1>5. \A k \in DOMAIN NotJoined(toks) : NotJoined(toks)[k].to <= t.to
  <2>1. \A y \in Piece : y.to \in Nat
    BY <1>1, PieceFacts
  <2>2. \A k \in DOMAIN NotJoined(toks) : NotJoined(toks)[k].to \in Nat
    BY <1>4, <2>1
  <2>3. QED
    BY <1>2, <1>3, <1>4, <2>2 DEF InOrder
<1>6. t.to < OperatorEnd(e)
  BY <1>2, <1>3
<1>7. QED
  BY <1>2, <1>3, <1>4, <1>5, <1>6, AppendInOrder, AppendFacts

LEMMA SeesOperator ==
  ASSUME line \in Lines,
         NEW toks \in Seq(Piece), NEW e \in 1 .. Len(line), At(e) \in Metas,
         Meaning(toks, e), Unquoted(e)
  PROVE  Sees(WithOperator(toks, e), OperatorEnd(e), OperatorEnd(e))
<1> DEFINE b == OperatorEnd(e)
<1>1. Len(line) \in Nat
  BY LineFacts
<1>2. /\ b \in e + 1 .. Len(line) + 1
      /\ \A p \in e .. b - 1 : /\ p \in 1 .. Len(line) /\ At(p) = At(e)
                               /\ At(p) \notin Quotes
  BY OperatorFacts
<1>3. PICK t \in Piece : /\ t.from = e /\ t.to = b - 1 /\ ~t.info /\ t.type # "word"
                         /\ WithOperator(toks, e) = Append(NotJoined(toks), t)
  BY OperatorPiece DEF IsFrom
<1> HIDE DEF b
<1>4. \A p \in e .. b : Unquoted(p)
  <2>1. e \in 1 .. Len(line) + 1 /\ b \in e .. Len(line) + 1
    BY <1>1, <1>2
  <2>2. QED
    BY <1>2, <2>1, UnquotedRun
<1>5. \A p \in e .. b - 1 : IsMeta(p)
  <2>1. \A p \in e .. b - 1 : p \in e .. b
    BY <1>1, <1>2
  <2>2. QED
    BY <1>2, <1>4, <2>1, CharFacts
<1>6. OperatorHas(t)
  <2>1. e \in e .. b - 1
    BY <1>1, <1>2
  <2>2. QED
    BY <1>3, <1>5, <2>1 DEF OperatorHas
<1>7. \A p \in t.from .. t.to : MayHold(p, t.type)
  BY <1>3, <1>5 DEF MayHold
<1> DEFINE u == NotJoined(toks)
<1>8. u \in Seq(Piece) /\ Meaning(u, e) /\ (u # <<>> => ~u[Len(u)].info)
  BY NotJoinedFacts, NotJoinedMeaning, LastNotJoined
<1> HIDE DEF u
<1>9. Meaning(Append(u, t), b)
  BY <1>3, <1>6, <1>7, <1>8, AppendMeaning
<1>10. BlankGlues(Append(u, t), b, b)
  <2>1. Append(u, t)[Len(Append(u, t))] = t
    BY <1>8, LastAppended
  <2>2. QED
    BY <1>3, <2>1 DEF BlankGlues, EndsSplit
<1>11. PlainText(b, b)
  <2>1. b \in e .. b
    BY <1>1, <1>2
  <2>2. QED
    BY <1>1, <1>2, <1>4, <2>1 DEF PlainText
<1>12. WithOperator(toks, e) = Append(u, t)
  BY <1>3 DEF u
<1>13. QED
  BY <1>9, <1>10, <1>11, <1>12 DEF Sees, b

(* There is a blank at p, quoted or not. *)
Space(p) == At(p) = " "

BlankEnd(e) == Behind(e, {" "})

LEMMA SeesBlanks ==
  ASSUME line \in Lines,
         NEW toks \in Seq(Piece), NEW e \in 1 .. Len(line), Space(e),
         Meaning(toks, e), Unquoted(e),
         EndsSplit(toks, e),
         NEW b, b = BlankEnd(e)
  PROVE  b \in e + 1 .. Len(line) + 1 /\ Sees(toks, b, b)
<1>1. Len(line) \in Nat
  BY LineFacts
<1>2. /\ b \in e .. Len(line) + 1 /\ ~Space(b)
      /\ \A k \in e .. b - 1 : Space(k)
  <2>1. e \in 1 .. Len(line) + 1
    BY <1>1
  <2>2. "NUL" \notin {" "}
    OBVIOUS
  <2>3. QED
    BY <2>1, <2>2, BehindFacts DEF Space, BlankEnd
<1>3. b \in e + 1 .. Len(line) + 1
  <2>1. b # e
    BY <1>2
  <2>2. QED
    BY <1>1, <1>2, <2>1
<1>4. \A p \in e .. b : Unquoted(p)
  <2>1. e \in 1 .. Len(line) + 1 /\ b \in e .. Len(line) + 1
    BY <1>1, <1>3
  <2>2. \A k \in e .. b - 1 : At(k) \notin Quotes
    BY <1>2 DEF Quotes, Space
  <2>3. QED
    BY <2>1, <2>2, UnquotedRun
<1>5. \A p \in e .. b - 1 : p \in 1 .. Len(line) /\ IsBlank(p)
  <2>1. \A p \in e .. b - 1 : p \in e .. b /\ p \in 1 .. Len(line)
    BY <1>1, <1>3
  <2>2. QED
    BY <1>2, <1>4, <2>1, CharFacts DEF Space
<1>6. ASSUME NEW r \in 1 .. e - 2, IsSplit(r, e), NEW p \in e .. b - 1
      PROVE  GluedAt(p)
  <2>1. r \in 1 .. p - 2 /\ e \in r + 2 .. p
    BY <1>1, <1>6
  <2>2. \A k \in e .. p - 1 : Space(k)
    <3>1. \A k \in e .. p - 1 : k \in e .. b - 1
      BY <1>1, <1>3
    <3>2. QED
      BY <1>2, <3>1
  <2>3. QED
    BY <1>5, <1>6, <2>1, <2>2 DEF GluedAt, Space
<1>7. Meaning(toks, b)
  <2>1. \A k \in DOMAIN toks : toks[k].to \in Nat
    <3>1. \A y \in Piece : y.to \in Nat
      BY <1>1, PieceFacts
    <3>2. QED
      BY <3>1
  <2>2. toks # <<>> /\ toks[Len(toks)].info =>
          \A p \in e .. b - 1 : IsText(p) \/ GluedAt(p)
    BY <1>6 DEF EndsSplit
  <2>3. e \in Nat /\ b \in Nat /\ e <= b
    BY <1>1, <1>3
  <2>4. QED
    BY <2>1, <2>2, <2>3, MeaningMoves
<1>8. PlainText(b, b)
  <2>1. b \in e .. b
    BY <1>1, <1>3
  <2>2. QED
    BY <1>1, <1>3, <1>4, <2>1 DEF PlainText
<1>9. BlankGlues(toks, b, b)
  BY <1>2 DEF BlankGlues, Space
<1>10. QED
  BY <1>3, <1>7, <1>8, <1>9 DEF Sees

(* A quoted piece: from the quote at e to before b. *)
QuoteEnd(e) ==
  LET q == Behind(e + 1, Chars \ {At(e)}) IN
    IF q <= Len(line) THEN q + 1 ELSE q

LEMMA QuoteFacts ==
  ASSUME line \in Lines, NEW e \in 1 .. Len(line),
         At(e) \in Quotes
  PROVE  /\ QuoteEnd(e) \in e + 1 .. Len(line) + 1
         /\ Unquoted(e) /\ IsClosedQuotes =>
              /\ \A p \in e .. QuoteEnd(e) - 1 : IsText(p)
              /\ Unquoted(QuoteEnd(e))
<1> DEFINE q == Behind(e + 1, Chars \ {At(e)})
           b == QuoteEnd(e)
<1>1. Len(line) \in Nat
  BY LineFacts
<1>2. /\ q \in e + 1 .. Len(line) + 1 /\ At(q) \notin Chars \ {At(e)}
      /\ \A k \in e + 1 .. q - 1 : At(k) \in Chars \ {At(e)}
  <2>1. e + 1 \in 1 .. Len(line) + 1
    BY <1>1
  <2>2. "NUL" \notin Chars \ {At(e)}
    BY DEF Chars, Quotes, Metas, Letters
  <2>3. QED
    BY <2>1, <2>2, BehindFacts
<1>3. b = IF q <= Len(line) THEN q + 1 ELSE q
  BY DEF QuoteEnd
<1> HIDE DEF q, b
<1>4. b \in e + 1 .. Len(line) + 1
  BY <1>1, <1>2, <1>3
<1>5. q \in 1 .. Len(line) => line[q] = line[e] /\ At(e) = line[e]
  BY <1>2, LineFacts
<1>6. ASSUME Unquoted(e), IsClosedQuotes
      PROVE  (\A p \in e .. b - 1 : IsText(p)) /\ Unquoted(b)
  <2>1. \A k \in e + 1 .. q - 1 : line[k] # line[e]
    <3>1. \A k \in e + 1 .. q - 1 : k \in 1 .. Len(line)
      BY <1>1, <1>2
    <3>2. QED
      BY <1>2, <3>1, LineFacts
  <2>2. \A p \in e + 1 .. q : OpenQuote[p - 1] = line[e]
    BY <1>2, <1>6, <2>1, LineFacts, QuotedRun
  <2>3. line[e] \in Quotes /\ line[e] # "none"
    BY LineFacts DEF Quotes
  <2>4. q \in 1 .. Len(line)
    <3> SUFFICES ASSUME q = Len(line) + 1 PROVE FALSE
      BY <1>1, <1>2
    <3>1. q \in e + 1 .. q /\ q - 1 = Len(line)
      BY <1>1, <1>2
    <3>2. OpenQuote[Len(line)] = line[e]
      BY <2>2, <3>1
    <3>3. QED
      BY <1>6, <2>3, <3>2 DEF IsClosedQuotes
  <2>5. line[q] = line[e] /\ b = q + 1
    BY <1>1, <1>3, <1>5, <2>4
  <2>6. Unquoted(b)
    <3>1. q \in e + 1 .. q
      BY <1>1, <1>2
    <3>2. OpenQuote[q - 1] = line[e]
      BY <2>2, <3>1
    <3>3. OpenQuote[q] = "none"
      BY <2>3, <2>4, <2>5, <3>2, QuoteSteps DEF QuoteBehind
    <3>4. b - 1 = q
      BY <1>1, <2>4, <2>5
    <3>5. QED
      BY <3>3, <3>4 DEF Unquoted
  <2>7. \A p \in e .. b - 1 : IsText(p)
    <3> SUFFICES ASSUME NEW p \in e .. b - 1 PROVE IsText(p)
      OBVIOUS
    <3>1. p \in 1 .. Len(line) /\ (p = e \/ p = q \/ p \in e + 1 .. q)
      BY <1>1, <1>2, <2>4, <2>5
    <3>2. \A c \in Quotes : c \notin Metas \cup {" "}
      BY DEF Quotes, Metas
    <3>3. p = e \/ p = q => IsText(p)
      BY <2>3, <2>5, <3>1, <3>2, CharFacts
    <3>4. p \in e + 1 .. q => ~Unquoted(p)
      BY <2>2, <2>3 DEF Unquoted
    <3>5. QED
      BY <3>1, <3>3, <3>4, CharFacts
  <2>8. QED
    BY <2>6, <2>7
<1>7. QED
  BY <1>4, <1>6 DEF b

LEMMA SeesQuoted ==
  ASSUME line \in Lines, value \in ValuesOf(line), IsClosedQuotes,
         NEW toks \in Seq(Piece), NEW e \in 1 .. Len(line),
         At(e) \in Quotes, Meaning(toks, e), Unquoted(e),
         NEW b, b = QuoteEnd(e), NEW h, h = HandleWordToken(toks, e, b)
  PROVE  Sees(h, b, b)
<1>1. Len(line) \in Nat
  BY LineFacts
<1>2. /\ b \in e + 1 .. Len(line) + 1 /\ Unquoted(b)
      /\ \A p \in e .. b - 1 : IsText(p)
  BY QuoteFacts
<1>3. Meaning(h, b)
  BY <1>2, WordTokenMeaning
<1>4. PlainText(b, b)
  BY <1>1, <1>2 DEF PlainText
<1>5. BlankGlues(h, b, b)
  <2>1. At(e) # " " /\ At(e) # "$"
    BY DEF Quotes
  <2>2. ~IsVariable(e, b)
    BY <2>1 DEF IsVariable
  <2>3. At(b) = " " => (h # <<>> /\ h[Len(h)].info => IsSplit(e, b))
    BY <1>2, <2>1, <2>2, WordTokenSplits
  <2>4. ~IsSplit(e, b)
    BY <2>1, <2>2 DEF IsSplit
  <2>5. QED
    BY <2>3, <2>4 DEF BlankGlues, EndsSplit
<1>6. QED
  BY <1>3, <1>4, <1>5 DEF Sees

-----------------------------------------------------------------------------
(***************************************************************************)
(* What each handler makes of an ordinary line.                            *)
(***************************************************************************)
LEMMA OrdinaryFacts ==
  ASSUME line \in Lines, Ordinary
  PROVE  /\ OneWordEach /\ InStep
         /\ \A p \in 1 .. Len(line) : Unquoted(p) /\ At(p) = "$" => At(p + 1) = "a"
<1>1. Len(line) \in Nat /\ DOMAIN line = 1 .. Len(line)
  BY LineFacts
<1>2. \A p \in 1 .. Len(line) : Unquoted(p) /\ At(p) = "$" => At(p + 1) = "a"
  BY <1>1, LineFacts DEF Ordinary
<1>3. ASSUME NEW p \in 1 .. Len(line), Unquoted(p), BehindStatus(p)
      PROVE  FALSE
  <2>1. p > 2 /\ At(p - 2) = "$" /\ At(p - 1) = "?"
    BY <1>3 DEF BehindStatus
  <2>2. p - 1 \in 1 .. Len(line) /\ p - 2 \in 1 .. Len(line)
        /\ (p - 1) - 1 = p - 2 /\ (p - 2) + 1 = p - 1
    BY <1>1, <2>1
  <2>3. OpenQuote[p - 1] = "none"
    BY <1>3 DEF Unquoted
  <2>4. \A x \in 1 .. Len(line) :
          OpenQuote[x] = "none" /\ line[x] \notin Quotes => OpenQuote[x - 1] = "none"
    <3> SUFFICES ASSUME NEW x \in 1 .. Len(line), OpenQuote[x] = "none",
                        line[x] \notin Quotes, OpenQuote[x - 1] # "none"
                 PROVE  FALSE
      OBVIOUS
    <3>1. line[x] = OpenQuote[x - 1]
      BY QuoteSteps DEF QuoteBehind
    <3>2. \A y \in 0 .. Len(line) : OpenQuote[y] \in Quotes \cup {"none"}
      <4> DEFINE T == {y \in 0 .. Len(line) : OpenQuote[y] \notin Quotes \cup {"none"}}
      <4> SUFFICES ASSUME T # {} PROVE FALSE
        OBVIOUS
      <4>1. PICK y \in T : \A z \in T : y <= z
        <5>1. T \subseteq Nat
          BY <1>1
        <5> HIDE DEF T
        <5>2. QED
          BY <5>1, LeastNumber
      <4>2. y \in 1 .. Len(line)
        <5>1. y # 0
          BY QuoteSteps
        <5>2. QED
          BY <1>1, <5>1
      <4>3. y - 1 \in 0 .. Len(line) /\ y - 1 \notin T
        BY <1>1, <4>1, <4>2
      <4>4. OpenQuote[y - 1] \in Quotes \cup {"none"}
        BY <4>3
      <4>5. OpenQuote[y] \in Quotes \cup {"none"}
        BY <4>2, <4>4, QuoteSteps DEF QuoteBehind
      <4>6. QED
        BY <4>5
    <3>3. x - 1 \in 0 .. Len(line)
      BY <1>1
    <3>4. QED
      BY <3>1, <3>2, <3>3
  <2>5. line[p - 1] = "?" /\ line[p - 2] = "$"
    BY <2>1, <2>2, LineFacts
  <2>6. "?" \notin Quotes /\ "$" \notin Quotes
    BY DEF Quotes
  <2>7. OpenQuote[p - 2] = "none"
    BY <2>2, <2>3, <2>4, <2>5, <2>6
  <2>8. Unquoted(p - 2)
    BY <2>2, <2>4, <2>5, <2>6, <2>7 DEF Unquoted
  <2>9. At(p - 1) = "a"
    BY <1>2, <2>1, <2>2, <2>8
  <2>10. QED
    BY <2>1, <2>9
<1>4. QED
  BY <1>1, <1>2, <1>3 DEF InStep, Ordinary

LEMMA AppendItems ==
  ASSUME line \in Lines,
         NEW toks \in Seq(Piece), NEW t \in Piece, NEW q \in Nat, NEW r \in Nat,
         AreItems(toks, q), InOrder(toks, q), q <= t.from, IsItem(t),
         \A p \in q .. r - 1 : IsBlank(p) \/ p \in t.from .. t.to
  PROVE  AreItems(Append(toks, t), r)
<1> DEFINE u == Append(toks, t)
           n == Len(toks)
<1>1. /\ n \in Nat /\ DOMAIN toks = 1 .. n /\ DOMAIN u = 1 .. n + 1
      /\ \A k \in 1 .. n : u[k] = toks[k] /\ toks[k].to \in Nat
      /\ u[n + 1] = t /\ t.from \in Nat
  <2>1. \A x \in Piece : x.to \in Nat /\ x.from \in Nat
    BY PieceFacts, LineFacts
  <2>2. QED
    BY <2>1, AppendFacts
<1> HIDE DEF u, n
<1>2. \A k \in 1 .. n + 1 : k \in 1 .. n \/ k = n + 1
  BY <1>1
<1>3. \A k \in DOMAIN u : IsItem(u[k])
  BY <1>1, <1>2 DEF AreItems
<1>4. \A j, k \in DOMAIN u : j < k => u[j].to < u[k].from
  <2> SUFFICES ASSUME NEW j \in DOMAIN u, NEW k \in DOMAIN u, j < k
               PROVE  u[j].to < u[k].from
    OBVIOUS
  <2>1. j \in 1 .. n
    BY <1>1
  <2>2. CASE k = n + 1
    <3>1. toks[j].to < q
      BY <1>1, <2>1 DEF InOrder
    <3>2. QED
      BY <1>1, <2>1, <2>2, <3>1
  <2>3. CASE k \in 1 .. n
    <3>1. toks[j].to < toks[k].from
      BY <1>1, <2>1, <2>3 DEF AreItems
    <3>2. QED
      BY <1>1, <2>1, <2>3, <3>1
  <2>4. QED
    BY <1>1, <1>2, <2>2, <2>3
<1>5. \A p \in 1 .. r - 1 :
        IsBlank(p) \/ \E k \in DOMAIN u : p \in u[k].from .. u[k].to
  <2> SUFFICES ASSUME NEW p \in 1 .. r - 1, ~IsBlank(p)
               PROVE  \E k \in DOMAIN u : p \in u[k].from .. u[k].to
    OBVIOUS
  <2>1. CASE p \in 1 .. q - 1
    <3>1. PICK k \in DOMAIN toks : p \in toks[k].from .. toks[k].to
      BY <2>1 DEF AreItems
    <3>2. k \in DOMAIN u /\ u[k] = toks[k]
      BY <1>1, <3>1
    <3>3. QED
      BY <3>1, <3>2
  <2>2. CASE p \in q .. r - 1
    <3>1. n + 1 \in DOMAIN u
      BY <1>1
    <3>2. QED
      BY <1>1, <2>2, <3>1
  <2>3. QED
    BY <2>1, <2>2
<1>6. QED
  BY <1>3, <1>4, <1>5 DEF AreItems, u

LEMMA MoveItems ==
  ASSUME NEW toks, NEW q \in Nat, NEW r \in Nat,
         AreItems(toks, q), \A p \in q .. r - 1 : IsBlank(p)
  PROVE  AreItems(toks, r)
<1>1. \A p \in 1 .. r - 1 : p \in 1 .. q - 1 \/ p \in q .. r - 1
  OBVIOUS
<1>2. \A p \in 1 .. r - 1 :
        IsBlank(p) \/ \E k \in DOMAIN toks : p \in toks[k].from .. toks[k].to
  BY <1>1 DEF AreItems
<1>3. QED
  BY <1>2 DEF AreItems

(* The value of a variable of a line whose variables are one word each. *)
LEMMA WordValue ==
  ASSUME line \in Lines, value \in ValuesOf(line), OneWordEach,
         NEW s \in 1 .. Len(line), NEW e \in s + 1 .. Len(line) + 1,
         IsVariable(s, e)
  PROVE  value[s] = "word"
<1>1. /\ Len(line) \in Nat /\ DOMAIN line = 1 .. Len(line)
      /\ \A p \in 1 .. Len(line) : At(p) = line[p]
  BY LineFacts
<1>2. At(s) = "$" /\ At(s + 1) = "a" /\ s + 1 < e
  BY DEF IsVariable
<1>3. s < Len(line) /\ s + 1 \in 1 .. Len(line)
  BY <1>1, <1>2
<1>4. s \in VariablesOf(line)
  BY <1>1, <1>2, <1>3 DEF VariablesOf
<1>5. DOMAIN value = VariablesOf(line)
  BY DEF ValuesOf
<1>6. QED
  BY <1>4, <1>5 DEF OneWordEach

(* A part of a word. *)
LEMMA WordItem ==
  ASSUME line \in Lines, value \in ValuesOf(line), OneWordEach,
         NEW toks \in Seq(Piece),
         NEW s \in 1 .. Len(line), NEW e \in s + 1 .. Len(line) + 1,
         AreItems(toks, s), InOrder(toks, s),
         ~Space(s), At(s) \notin Metas, Unquoted(e),
         \A p \in s .. e - 1 : IsText(p),
         NEW h, h = HandleWordToken(toks, s, e)
  PROVE  AreItems(h, e)
<1>1. Len(line) \in Nat
  BY LineFacts
<1>2. Adds(toks, s, e, h)
  BY WordTokenAdds
<1>3. AddsPiece(toks, s, e, h)
  <2>1. ~AddsWords(toks, s, e, h) /\ ~AddsLed(toks, s, e, h)
    BY WordValue DEF AddsWords, AddsLed
  <2>2. ~AddsBehindBlank(toks, s, e, h)
    BY DEF AddsBehindBlank, Space
  <2>3. QED
    BY <1>2, <2>1, <2>2 DEF Adds
<1>4. PICK t \in Piece : /\ t.from = s /\ t.to = e - 1 /\ t.type = "word"
                         /\ t.info <=> Mix(e)
                         /\ h = Append(toks, t)
  BY <1>3, WordValue DEF AddsPiece, IsFrom, OperatorTypes
<1>5. Mix(e) <=> (e - 1 < Len(line) /\ IsText((e - 1) + 1))
  <2>1. (e - 1) + 1 = e /\ (e - 1 < Len(line) <=> e <= Len(line))
    BY <1>1
  <2>2. e <= Len(line) => (IsText(e) <=> At(e) \notin Metas \cup {" "})
    <3> SUFFICES ASSUME e <= Len(line)
                 PROVE  IsText(e) <=> At(e) \notin Metas \cup {" "}
      OBVIOUS
    <3>1. e \in 1 .. Len(line)
      BY <1>1
    <3>2. QED
      BY <3>1, CharFacts DEF IsText
  <2>3. QED
    BY <2>1, <2>2 DEF Mix
<1>6. IsItem(t)
  <2>1. \A p \in t.from .. t.to : IsText(p)
    BY <1>4
  <2>2. t.info <=> (t.to < Len(line) /\ IsText(t.to + 1))
    BY <1>4, <1>5
  <2>3. QED
    BY <1>4, <2>1, <2>2 DEF IsItem
<1>7. /\ s \in Nat /\ e \in Nat /\ s <= t.from
      /\ \A p \in s .. e - 1 : p \in t.from .. t.to
  BY <1>1, <1>4
<1>8. QED
  BY <1>4, <1>6, <1>7, AppendItems

(* How many of the same characters stand before p. *)
RepeatedBefore(p) ==
  {k \in 1 .. p - 1 : \A h \in k .. p - 1 :
     IsMeta(h) /\ line[h] = line[p] /\ line[p] # "|"}

LEMMA RepeatedCount ==
  ASSUME NEW p
  PROVE  Repeated(p) = Cardinality(RepeatedBefore(p))
BY DEF Repeated, RepeatedBefore, Cardinality, Cardinality

LEMMA NotRepeated ==
  ASSUME line \in Lines, NEW p \in 1 .. Len(line),
         \/ p = 1 \/ ~IsMeta(p - 1)
         \/ line[p - 1] # line[p] \/ line[p] = "|"
  PROVE  Repeated(p) = 0
<1>1. Len(line) \in Nat
  BY LineFacts
<1>2. \A k \in 1 .. p - 1 : p # 1 /\ p - 1 \in k .. p - 1
  BY <1>1
<1>3. RepeatedBefore(p) = {}
  BY <1>2 DEF RepeatedBefore
<1>4. QED
  BY <1>3, FS_EmptySet, RepeatedCount

LEMMA RepeatedOnce ==
  ASSUME line \in Lines, NEW p \in 1 .. Len(line),
         p + 1 <= Len(line), IsMeta(p), line[p + 1] = line[p], line[p] # "|"
  PROVE  Repeated(p) \in Nat /\ Repeated(p + 1) = Repeated(p) + 1
<1>1. Len(line) \in Nat /\ p \in Nat /\ (p + 1) - 1 = p
  BY LineFacts
<1>2. RepeatedBefore(p + 1) = RepeatedBefore(p) \cup {p}
  <2>1. \A k \in 1 .. p :
          (\A h \in k .. p : IsMeta(h) /\ line[h] = line[p]) <=>
            (k = p \/ \A h \in k .. p - 1 : IsMeta(h) /\ line[h] = line[p])
    <3> SUFFICES ASSUME NEW k \in 1 .. p
                 PROVE  (\A h \in k .. p : IsMeta(h) /\ line[h] = line[p]) <=>
                          (k = p \/ \A h \in k .. p - 1 : IsMeta(h) /\ line[h] = line[p])
      OBVIOUS
    <3>1. \A h \in k .. p : h = p \/ h \in k .. p - 1
      BY <1>1
    <3>2. \A h \in k .. p - 1 : h \in k .. p
      BY <1>1
    <3>3. k = p => \A h \in k .. p : h = p
      BY <1>1
    <3>4. QED
      BY <3>1, <3>2, <3>3
  <2>2. \A k : k \in 1 .. (p + 1) - 1 <=> (k \in 1 .. p - 1 \/ k = p)
    BY <1>1
  <2>3. p \notin 1 .. p - 1
    BY <1>1
  <2>4. \A k : k \in RepeatedBefore(p + 1) <=>
                 k \in 1 .. p /\ (\A h \in k .. p : IsMeta(h) /\ line[h] = line[p])
    BY <1>1 DEF RepeatedBefore
  <2>5. \A k : k \in RepeatedBefore(p) <=>
                 k \in 1 .. p - 1 /\ (\A h \in k .. p - 1 : IsMeta(h) /\ line[h] = line[p])
    BY DEF RepeatedBefore
  <2>6. \A k : k \in RepeatedBefore(p + 1) <=> (k \in RepeatedBefore(p) \/ k = p)
    BY <1>1, <2>1, <2>2, <2>4, <2>5
  <2>7. QED
    BY <2>6
<1>3. IsFiniteSet(RepeatedBefore(p)) /\ p \notin RepeatedBefore(p)
  <2>1. RepeatedBefore(p) \subseteq 1 .. p - 1 /\ p - 1 \in Int
    BY <1>1 DEF RepeatedBefore
  <2>2. IsFiniteSet(1 .. p - 1)
    BY <2>1, FS_Interval
  <2>3. p \notin 1 .. p - 1
    BY <1>1
  <2>4. QED
    BY <2>1, <2>2, <2>3, FS_Subset
<1>4. Cardinality(RepeatedBefore(p + 1)) = Cardinality(RepeatedBefore(p)) + 1
  BY <1>2, <1>3, FS_AddElement
<1>5. Cardinality(RepeatedBefore(p)) \in Nat
  BY <1>3, FS_CardinalityType
<1>6. Repeated(p) = Cardinality(RepeatedBefore(p))
      /\ Repeated(p + 1) = Cardinality(RepeatedBefore(p + 1))
  BY RepeatedCount
<1>7. QED
  BY <1>4, <1>5, <1>6

LEMMA BehindOther ==
  ASSUME line \in Lines, NEW b \in 2 .. Len(line) + 1,
         ~IsMeta(b - 1)
  PROVE  b <= Len(line) => Repeated(b) % 2 = 0
<1> SUFFICES ASSUME b <= Len(line) PROVE Repeated(b) % 2 = 0
  OBVIOUS
<1>1. Len(line) \in Nat
  BY LineFacts
<1>2. b \in 1 .. Len(line)
  BY <1>1
<1>3. Repeated(b) = 0
  BY <1>2, NotRepeated
<1>4. QED
  BY <1>3

LEMMA SortsPiece ==
  ASSUME line \in Lines, value \in ValuesOf(line), OneWordEach,
         NEW toks \in Seq(Piece),
         NEW s \in 1 .. Len(line) + 1, NEW e \in s .. Len(line) + 1,
         InOrder(toks, s), PlainText(s, e), Sorts(toks, s, e),
         NEW h, h = HandleWordToken(toks, s, e)
  PROVE  AreItems(h, e) /\ (e <= Len(line) => Repeated(e) % 2 = 0)
<1>1. Len(line) \in Nat
  BY LineFacts
<1>2. /\ AreItems(toks, s)
      /\ \A p \in s .. e - 1 : At(p) \in Letters
      /\ s = e /\ s <= Len(line) => Repeated(s) % 2 = 0
  BY DEF Sorts
<1>3. CASE s = e
  <2>1. h = toks
    BY <1>1, <1>3, NothingAdded
  <2>2. QED
    BY <1>2, <1>3, <2>1
<1>4. CASE s < e
  <2>1. s \in 1 .. Len(line) /\ e \in s + 1 .. Len(line) + 1 /\ e \in s .. e
    BY <1>1, <1>4
  <2>2. \A p \in s .. e - 1 : p \in 1 .. Len(line) /\ IsText(p)
                              /\ ~Space(p) /\ At(p) \notin Metas
    <3>1. \A p \in s .. e - 1 : p \in 1 .. Len(line)
      BY <1>1
    <3>2. \A c \in Letters : c \notin Metas \cup {" "}
      BY DEF Metas, Letters
    <3>3. QED
      BY <1>2, <3>1, <3>2, CharFacts DEF Space
  <2>3. s \in s .. e - 1 /\ e - 1 \in s .. e - 1
    BY <1>1, <2>1
  <2>4. Unquoted(e)
    BY <2>1, SeenText
  <2>5. AreItems(h, e)
    BY <1>2, <2>1, <2>2, <2>3, <2>4, WordItem
  <2>6. ~IsMeta(e - 1)
    BY <2>2, <2>3 DEF IsText
  <2>7. e \in 2 .. Len(line) + 1
    BY <1>1, <2>1
  <2>8. QED
    BY <2>5, <2>6, <2>7, BehindOther
<1>5. s = e \/ s < e
  <2>1. s \in Nat /\ e \in Nat /\ s <= e
    BY <1>1
  <2>2. QED
    BY <2>1
<1>6. QED
  BY <1>3, <1>4, <1>5

LEMMA SortsNext ==
  ASSUME line \in Lines,
         NEW toks, NEW b \in 2 .. Len(line) + 1,
         AreItems(toks, b), b <= Len(line) => Repeated(b) % 2 = 0
  PROVE  Sorts(toks, b, b)
<1>1. Len(line) \in Nat
  BY LineFacts
<1>2. \A p \in b .. b - 1 : FALSE
  BY <1>1
<1>3. QED
  BY <1>2 DEF Sorts

LEMMA SortsDollar ==
  ASSUME line \in Lines, value \in ValuesOf(line), OneWordEach,
         NEW toks \in Seq(Piece), NEW e \in 1 .. Len(line),
         AreItems(toks, e), InOrder(toks, e), Unquoted(e),
         At(e) = "$", At(e + 1) = "a",
         NEW b, b = Behind(e + 1, {"a"}),
         NEW h, h = HandleWordToken(toks, e, b)
  PROVE  Sorts(h, b, b)
<1>1. Len(line) \in Nat
  BY LineFacts
<1>2. /\ b \in e + 1 .. Len(line) + 1 /\ At(b) # "a"
      /\ \A k \in e + 1 .. b - 1 : At(k) = "a"
  <2>1. e + 1 \in 1 .. Len(line) + 1
    BY <1>1
  <2>2. "NUL" \notin {"a"}
    OBVIOUS
  <2>3. QED
    BY <2>1, <2>2, BehindFacts
<1>3. \A p \in e .. b - 1 : p \in 1 .. Len(line) /\ At(p) \in {"$", "a"}
  <2>1. \A p \in e .. b - 1 : p \in 1 .. Len(line) /\ (p = e \/ p \in e + 1 .. b - 1)
    BY <1>1, <1>2
  <2>2. QED
    BY <1>2, <2>1
<1>4. \A p \in e .. b - 1 : IsText(p) /\ At(p) \notin Quotes
  <2>1. \A c \in {"$", "a"} : c \notin Metas \cup {" "} /\ c \notin Quotes
    BY DEF Metas, Quotes
  <2>2. QED
    BY <1>3, <2>1, CharFacts
<1>5. /\ e \in 1 .. Len(line) + 1 /\ b \in e .. Len(line) + 1 /\ b \in e .. b
      /\ b - 1 \in e .. b - 1 /\ b \in 2 .. Len(line) + 1
  BY <1>1, <1>2
<1>6. Unquoted(b)
  BY <1>4, <1>5, UnquotedRun
<1>7. ~Space(e) /\ At(e) \notin Metas
  BY DEF Space, Metas
<1>8. AreItems(h, b)
  BY <1>2, <1>4, <1>6, <1>7, WordItem
<1>9. ~IsMeta(b - 1)
  BY <1>4, <1>5 DEF IsText
<1>10. QED
  BY <1>5, <1>8, <1>9, BehindOther, SortsNext

LEMMA SortsQuoted ==
  ASSUME line \in Lines, value \in ValuesOf(line), OneWordEach,
         IsClosedQuotes,
         NEW toks \in Seq(Piece), NEW e \in 1 .. Len(line),
         At(e) \in Quotes, AreItems(toks, e), InOrder(toks, e), Unquoted(e),
         NEW b, b = QuoteEnd(e), NEW h, h = HandleWordToken(toks, e, b)
  PROVE  Sorts(h, b, b)
<1>1. Len(line) \in Nat
  BY LineFacts
<1>2. /\ b \in e + 1 .. Len(line) + 1 /\ Unquoted(b)
      /\ \A p \in e .. b - 1 : IsText(p)
  BY QuoteFacts
<1>3. ~Space(e) /\ At(e) \notin Metas
  BY DEF Space, Quotes, Metas
<1>4. AreItems(h, b)
  BY <1>2, <1>3, WordItem
<1>5. b - 1 \in e .. b - 1 /\ b \in 2 .. Len(line) + 1
  BY <1>1, <1>2
<1>6. ~IsMeta(b - 1)
  BY <1>2, <1>5 DEF IsText
<1>7. QED
  BY <1>4, <1>5, <1>6, BehindOther, SortsNext

LEMMA SortsBlanks ==
  ASSUME line \in Lines,
         NEW toks \in Seq(Piece), NEW e \in 1 .. Len(line), Space(e),
         AreItems(toks, e), Unquoted(e), NEW b, b = BlankEnd(e)
  PROVE  Sorts(toks, b, b)
<1>1. Len(line) \in Nat
  BY LineFacts
<1>2. /\ b \in e .. Len(line) + 1 /\ ~Space(b)
      /\ \A k \in e .. b - 1 : Space(k)
  <2>1. e \in 1 .. Len(line) + 1
    BY <1>1
  <2>2. "NUL" \notin {" "}
    OBVIOUS
  <2>3. QED
    BY <2>1, <2>2, BehindFacts DEF Space, BlankEnd
<1>3. b # e
  BY <1>2
<1>4. /\ e \in 1 .. Len(line) + 1 /\ b \in e .. Len(line) + 1
      /\ b - 1 \in e .. b - 1 /\ b \in 2 .. Len(line) + 1
      /\ e \in Nat /\ b \in Nat
  BY <1>1, <1>2, <1>3
<1>5. \A k \in e .. b - 1 : At(k) \notin Quotes
  BY <1>2 DEF Quotes, Space
<1>6. \A p \in e .. b : Unquoted(p)
  BY <1>4, <1>5, UnquotedRun
<1>7. \A p \in e .. b - 1 : IsBlank(p) /\ ~IsMeta(p)
  <2>1. \A p \in e .. b - 1 : p \in e .. b /\ p \in 1 .. Len(line)
    BY <1>1, <1>4
  <2>2. " " \notin Metas
    BY DEF Metas
  <2>3. QED
    BY <1>2, <1>6, <2>1, <2>2, CharFacts DEF Space
<1>8. AreItems(toks, b)
  BY <1>4, <1>7, MoveItems
<1>9. QED
  BY <1>4, <1>7, <1>8, BehindOther, SortsNext

LEMMA NotJoinedSame ==
  ASSUME NEW toks \in Seq(Piece), toks # <<>> => ~toks[Len(toks)].info
  PROVE  NotJoined(toks) = toks
<1>1. CASE toks = <<>>
  BY <1>1 DEF NotJoined
<1>2. CASE toks # <<>>
  <2> DEFINE n == Len(toks)
             t == toks[n]
  <2>1. n \in 1 .. n /\ t \in Piece /\ ~t.info
    BY <1>2
  <2>2. [t EXCEPT !.info = FALSE] = t
    <3> HIDE DEF t
    <3>1. QED
      BY <2>1 DEF Piece
  <2>3. NotJoined(toks) = [toks EXCEPT ![n] = t]
    BY <1>2, <2>2 DEF NotJoined
  <2>4. QED
    BY <2>1, <2>3
<1>3. QED
  BY <1>1, <1>2

LEMMA SortsOperator ==
  ASSUME line \in Lines,
         NEW toks \in Seq(Piece), NEW e \in 1 .. Len(line), At(e) \in Metas,
         AreItems(toks, e), InOrder(toks, e), Unquoted(e), Repeated(e) % 2 = 0
  PROVE  Sorts(WithOperator(toks, e), OperatorEnd(e), OperatorEnd(e))
<1> DEFINE b == OperatorEnd(e)
<1>1. Len(line) \in Nat /\ DOMAIN line = 1 .. Len(line)
  BY LineFacts
<1>2. /\ b \in e + 1 .. Len(line) + 1 /\ b \in {e + 1, e + 2}
      /\ \A p \in e .. b - 1 : /\ p \in 1 .. Len(line) /\ At(p) = At(e)
                               /\ At(p) \notin Quotes
      /\ b = e + 2 <=> (At(e) # "|" /\ At(e + 1) = At(e))
  BY OperatorFacts
<1>3. PICK t \in Piece : /\ t.from = e /\ t.to = b - 1 /\ ~t.info /\ t.type # "word"
                         /\ WithOperator(toks, e) = Append(NotJoined(toks), t)
  BY OperatorPiece DEF IsFrom
<1> HIDE DEF b
<1>4. \A p \in e .. b : Unquoted(p)
  <2>1. e \in 1 .. Len(line) + 1 /\ b \in e .. Len(line) + 1
    BY <1>1, <1>2
  <2>2. QED
    BY <1>2, <2>1, UnquotedRun
<1>5. \A p \in e .. b - 1 : IsMeta(p) /\ line[p] = line[e]
  <2>1. \A p \in e .. b - 1 : p \in e .. b
    BY <1>1, <1>2
  <2>2. QED
    BY <1>2, <1>4, <2>1, CharFacts, LineFacts
<1>6. e \in e .. b - 1 /\ IsMeta(e) /\ At(e) = line[e]
  <2>1. e \in e .. b - 1
    BY <1>1, <1>2
  <2>2. QED
    BY <1>5, <2>1, LineFacts
<1>7. b = e + 2 <=> /\ line[e] # "|" /\ e < Len(line)
                    /\ IsMeta(e + 1) /\ line[e + 1] = line[e]
  <2>1. CASE b = e + 2
    <3>1. e + 1 \in e .. b - 1 /\ e < Len(line)
      BY <1>1, <1>2, <2>1
    <3>2. QED
      BY <1>2, <1>5, <1>6, <2>1, <3>1
  <2>2. CASE b # e + 2
    <3>1. e < Len(line) => At(e + 1) = line[e + 1]
      <4>1. e < Len(line) => e + 1 \in 1 .. Len(line)
        BY <1>1
      <4>2. QED
        BY <4>1, LineFacts
    <3>2. QED
      BY <1>2, <1>6, <2>2, <3>1
  <2>3. QED
    BY <2>1, <2>2
<1>8. b - 1 = IF /\ line[e] # "|" /\ e < Len(line)
                 /\ IsMeta(e + 1) /\ line[e + 1] = line[e]
              THEN e + 1 ELSE e
  <2>1. CASE b = e + 2
    <3>1. b - 1 = e + 1
      BY <1>1, <2>1
    <3>2. QED
      BY <1>7, <2>1, <3>1
  <2>2. CASE b # e + 2
    <3>1. b - 1 = e
      BY <1>1, <1>2, <2>2
    <3>2. QED
      BY <1>7, <2>2, <3>1
  <2>3. QED
    BY <2>1, <2>2
<1>9. <<e, b - 1>> \in Operators
  <2> DEFINE r == <<e, b - 1>>
  <2>1. r[1] = e /\ r[2] = b - 1
    OBVIOUS
  <2>2. r \in (DOMAIN line) \X (DOMAIN line)
    <3>1. e \in DOMAIN line /\ b - 1 \in DOMAIN line
      BY <1>1, <1>2
    <3>2. QED
      BY <3>1
  <2> HIDE DEF r
  <2>3. r \in Operators
    BY <1>6, <1>8, <2>1, <2>2 DEF Operators
  <2>4. QED
    BY <2>3 DEF r
<1>10. IsItem(t)
  BY <1>3, <1>9 DEF IsItem
<1>11. toks # <<>> => ~toks[Len(toks)].info
  <2> SUFFICES ASSUME toks # <<>> PROVE ~toks[Len(toks)].info
    OBVIOUS
  <2> DEFINE n == Len(toks)
  <2>1. n \in DOMAIN toks /\ toks[n] \in Piece /\ DOMAIN toks = 1 .. n /\ n \in Nat
    OBVIOUS
  <2> HIDE DEF n
  <2>2. /\ \A k \in DOMAIN toks : toks[k].to \in Nat
    <3>1. \A x \in Piece : x.to \in Nat
      BY <1>1, PieceFacts
    <3>2. QED
      BY <3>1
  <2>3. IsItem(toks[n])
    BY <2>1 DEF AreItems
  <2>4. SUFFICES ASSUME toks[n].info PROVE FALSE
    BY DEF n
  <2>5. toks[n].to < Len(line) /\ IsText(toks[n].to + 1)
    BY <2>3, <2>4 DEF IsItem
  <2> DEFINE p == toks[n].to + 1
  <2>6. p \in Nat /\ p <= e /\ p >= 1
    <3>1. toks[n].to < e
      BY <2>1 DEF InOrder
    <3>2. toks[n].to \in Nat
      BY <2>1, <2>2
    <3>3. QED
      BY <1>1, <3>1, <3>2
  <2>7. p # e
    BY <1>6, <2>5 DEF IsText
  <2>8. p \in 1 .. e - 1
    <3> HIDE DEF p
    <3>1. QED
      BY <1>1, <2>6, <2>7
  <2>9. ~IsBlank(p)
    BY <2>5 DEF IsText
  <2>10. PICK k \in DOMAIN toks : p \in toks[k].from .. toks[k].to
    <3> HIDE DEF p
    <3>1. QED
      BY <2>8, <2>9 DEF AreItems
  <2>11. toks[k].to <= toks[n].to
    <3>1. k = n \/ k < n
      BY <2>1, <2>10
    <3>2. k < n => toks[k].to <= toks[n].to
      BY <2>1, <2>10 DEF InOrder
    <3>3. QED
      BY <2>1, <2>2, <3>1, <3>2
  <2>12. toks[k].to \in Nat /\ toks[n].to \in Nat /\ toks[k].to >= toks[n].to + 1
    BY <2>1, <2>2, <2>10
  <2>13. QED
    BY <2>11, <2>12
<1>12. NotJoined(toks) = toks
  BY <1>11, NotJoinedSame
<1>13. AreItems(Append(toks, t), b)
  <2>1. e \in Nat /\ b \in Nat /\ e <= t.from
    BY <1>1, <1>2, <1>3
  <2>2. \A p \in e .. b - 1 : IsBlank(p) \/ p \in t.from .. t.to
    BY <1>1, <1>3
  <2>3. QED
    BY <1>10, <2>1, <2>2, AppendItems
<1>14. b <= Len(line) => Repeated(b) % 2 = 0
  <2> SUFFICES ASSUME b <= Len(line) PROVE Repeated(b) % 2 = 0
    OBVIOUS
  <2>1. b \in 1 .. Len(line)
    BY <1>1, <1>2
  <2>2. CASE b = e + 1
    <3>1. b - 1 = e /\ b # e + 2
      BY <1>1, <2>2
    <3>2. line[e] = "|" \/ line[b] # line[e]
      <4>1. At(e + 1) = line[b]
        BY <2>1, <2>2, LineFacts
      <4>2. QED
        BY <1>2, <1>6, <3>1, <4>1
    <3>3. line[b - 1] # line[b] \/ line[b] = "|"
      BY <3>1, <3>2
    <3>4. Repeated(b) = 0
      BY <2>1, <3>3, NotRepeated
    <3>5. QED
      BY <3>4
  <2>3. CASE b = e + 2
    <3>1. b - 1 = e + 1 /\ e + 1 \in 1 .. Len(line) /\ (e + 1) + 1 = b
      BY <1>1, <2>1, <2>3
    <3>2. IsMeta(e + 1) /\ line[e + 1] = line[e] /\ line[e] # "|"
      BY <1>7, <2>3
    <3>3. CASE line[b] # line[e + 1]
      <4>1. Repeated(b) = 0
        BY <2>1, <3>1, <3>3, NotRepeated
      <4>2. QED
        BY <4>1
    <3>4. CASE line[b] = line[e + 1]
      <4>1. Repeated(e) \in Nat /\ Repeated(e + 1) = Repeated(e) + 1
        <5>1. e + 1 <= Len(line)
          BY <1>1, <3>1
        <5>2. QED
          BY <1>6, <3>2, <5>1, RepeatedOnce
      <4>2. Repeated((e + 1) + 1) = Repeated(e + 1) + 1
        <5>1. (e + 1) + 1 <= Len(line) /\ line[(e + 1) + 1] = line[e + 1]
          BY <3>1, <3>4
        <5>2. QED
          BY <3>1, <3>2, <5>1, RepeatedOnce
      <4>3. Repeated(b) = Repeated(e) + 2
        BY <3>1, <4>1, <4>2
      <4>4. QED
        BY <4>1, <4>3
    <3>5. QED
      BY <3>3, <3>4
  <2>4. QED
    BY <1>2, <2>2, <2>3
<1>15. b \in 2 .. Len(line) + 1
  BY <1>1, <1>2
<1>16. Sorts(Append(toks, t), b, b)
  BY <1>13, <1>14, <1>15, SortsNext
<1>17. QED
  BY <1>3, <1>12, <1>16 DEF b

-----------------------------------------------------------------------------
(***************************************************************************)
(* join_nodes.                                                             *)
(***************************************************************************)
JoinStep(j, k) ==
  IF k > 1 /\ pieces[k - 1].info
  THEN [j EXCEPT ![Len(j)] = Node(@, pieces[k])]
  ELSE Append(j, Node(pieces[k], pieces[k]))

LEMMA NodeTyped ==
  ASSUME NEW a, a \in Piece \/ a \in Joint, NEW b \in Piece
  PROVE  /\ Node(a, b) \in Joint
         /\ Node(a, b).from = a.from /\ Node(a, b).to = b.to
         /\ Node(a, b).type = a.type /\ Node(a, b).tail = b.type
BY DEF Node, Joint, Piece

LEMMA NodeOfNode ==
  ASSUME NEW a \in Piece, NEW b \in Piece, NEW c \in Piece
  PROVE  Node(Node(a, b), c) = Node(a, c)
BY DEF Node

LEMMA JoinStepTyped ==
  ASSUME pieces \in Seq(Piece), NEW j \in Seq(Joint), NEW k \in 1 .. Len(pieces)
  PROVE  JoinStep(j, k) \in Seq(Joint)
<1>1. pieces[k] \in Piece
  OBVIOUS
<1>2. CASE k > 1 /\ pieces[k - 1].info
  <2>1. CASE j = <<>>
    <3> DEFINE x == Node(j[Len(j)], pieces[k])
    <3>1. JoinStep(j, k) = [j EXCEPT ![Len(j)] = x]
      BY <1>2 DEF JoinStep
    <3> HIDE DEF x
    <3>2. [j EXCEPT ![Len(j)] = x] = [v \in {} |-> x]
      BY <2>1
    <3>3. [v \in {} |-> x] = <<>>
      OBVIOUS
    <3>4. JoinStep(j, k) = j
      BY <2>1, <3>1, <3>2, <3>3
    <3>5. QED
      BY <3>4
  <2>2. CASE j # <<>>
    <3> DEFINE m == Len(j)
               x == Node(j[m], pieces[k])
    <3>1. m \in 1 .. m /\ j[m] \in Joint
      BY <2>2
    <3>2. x \in Joint
      BY <1>1, <3>1, NodeTyped
    <3>3. JoinStep(j, k) = [j EXCEPT ![m] = x]
      BY <1>2 DEF JoinStep
    <3> HIDE DEF x
    <3>4. QED
      BY <3>1, <3>2, <3>3
  <2>3. QED
    BY <2>1, <2>2
<1>3. CASE ~(k > 1 /\ pieces[k - 1].info)
  <2>1. Node(pieces[k], pieces[k]) \in Joint
    BY <1>1, NodeTyped
  <2>2. QED
    BY <1>3, <2>1 DEF JoinStep
<1>4. QED
  BY <1>2, <1>3

LEMMA JoinedSteps ==
  ASSUME pieces \in Seq(Piece)
  PROVE  /\ Joined[0] = <<>>
         /\ \A k \in 0 .. Len(pieces) : Joined[k] \in Seq(Joint)
         /\ \A k \in 1 .. Len(pieces) : Joined[k] = JoinStep(Joined[k - 1], k)
<1> DEFINE n == Len(pieces)
           X == Seq(Joint)
           G == [a \in Nat \X X |->
                   IF a[1] \in 1 .. n THEN JoinStep(a[2], a[1]) ELSE <<>>]
           Is(f) == f = [k \in 0 .. n |->
                           IF k = 0 THEN <<>>
                           ELSE IF k > 1 /\ pieces[k - 1].info
                           THEN [f[k - 1] EXCEPT ![Len(f[k - 1])] = Node(@, pieces[k])]
                           ELSE Append(f[k - 1], Node(pieces[k], pieces[k]))]
<1>1. n \in Nat /\ <<>> \in X
  OBVIOUS
<1>2. G \in [Nat \X X -> X]
  <2>1. \A a \in Nat \X X : a[2] \in X
    OBVIOUS
  <2>2. \A a \in Nat \X X : a[1] \in 1 .. n => JoinStep(a[2], a[1]) \in X
    BY <2>1, JoinStepTyped
  <2> HIDE DEF X
  <2>3. QED
    BY <1>1, <2>2
<1>3. PICK f \in [0 .. n -> X] : Iterates(f, n, <<>>, G)
  <2> HIDE DEF G, X, n
  <2>1. QED
    BY <1>1, <1>2, Iteration
<1>4. \A k \in 1 .. n : f[k] = JoinStep(f[k - 1], k)
  <2> SUFFICES ASSUME NEW k \in 1 .. n PROVE f[k] = JoinStep(f[k - 1], k)
    OBVIOUS
  <2>1. <<k, f[k - 1]>> \in Nat \X X
    <3>1. k \in Nat /\ k - 1 \in 0 .. n
      BY <1>1
    <3> HIDE DEF X, n
    <3>2. QED
      BY <3>1
  <2> DEFINE q == <<k, f[k - 1]>>
  <2>2. q[1] = k /\ q[2] = f[k - 1]
    OBVIOUS
  <2>3. G[q] = JoinStep(q[2], q[1])
    <3> HIDE DEF X, n, q
    <3>1. QED
      BY <2>1, <2>2 DEF q
  <2>4. QED
    BY <1>3, <2>2, <2>3 DEF Iterates
<1>5. Is(f)
  <2>1. \A k \in 0 .. n : f[k] = IF k = 0 THEN <<>> ELSE JoinStep(f[k - 1], k)
    <3>1. \A k \in 0 .. n : k = 0 \/ k \in 1 .. n
      BY <1>1
    <3> HIDE DEF n
    <3>2. QED
      BY <1>3, <1>4, <3>1 DEF Iterates
  <2> HIDE DEF n
  <2>2. f = [k \in 0 .. n |-> IF k = 0 THEN <<>> ELSE JoinStep(f[k - 1], k)]
    BY <2>1
  <2>3. QED
    BY <2>2 DEF JoinStep
<1>6. Is(CHOOSE g : Is(g))
  <2> HIDE DEF Is
  <2>1. QED
    BY <1>5
<1>7. Is(Joined)
  BY <1>6 DEF Joined
<1> DEFINE p == Joined
<1> HIDE DEF p
<1>8. p = [k \in 0 .. n |-> IF k = 0 THEN <<>> ELSE JoinStep(p[k - 1], k)]
  BY <1>7 DEF p, JoinStep
<1>9. p[0] = <<>> /\ \A k \in 1 .. n : p[k] = JoinStep(p[k - 1], k)
  <2>1. 0 \in 0 .. n /\ \A k \in 1 .. n : k \in 0 .. n /\ k # 0
    BY <1>1
  <2> HIDE DEF n
  <2>2. QED
    BY <1>8, <2>1
<1>10. \A k \in 0 .. n : p[k] \in X
  <2> DEFINE S == {k \in Nat : k \in 0 .. n => p[k] \in X}
  <2>1. 0 \in S
    <3>1. p[0] \in X
      BY <1>1, <1>9
    <3> HIDE DEF X, n
    <3>2. QED
      BY <3>1
  <2>2. \A k \in S : k + 1 \in S
    <3> SUFFICES ASSUME NEW k \in S, k + 1 \in 0 .. n PROVE p[k + 1] \in X
      OBVIOUS
    <3>1. k \in 0 .. n /\ k + 1 \in 1 .. n /\ (k + 1) - 1 = k
      BY <1>1
    <3>2. p[k] \in X
      BY <3>1
    <3>3. p[k + 1] = JoinStep(p[k], k + 1)
      BY <1>9, <3>1
    <3>4. QED
      BY <3>1, <3>2, <3>3, JoinStepTyped
  <2>3. Nat \subseteq S
    <3> HIDE DEF S
    <3>1. S \subseteq Nat
      BY DEF S
    <3>2. QED
      BY <2>1, <2>2, <3>1, Induction
  <2>4. \A k \in 0 .. n : k \in S
    BY <1>1, <2>3
  <2>5. QED
    BY <2>4
<1>11. QED
  BY <1>9, <1>10 DEF p

(***************************************************************************)
(* The nodes j of the first k pieces: node m is made of the pieces behind  *)
(* ends[m - 1] up to ends[m].                                              *)
(***************************************************************************)
IsGrouping(j, k, ends) ==
  /\ ends \in [0 .. Len(j) -> 0 .. k] /\ ends[0] = 0 /\ ends[Len(j)] = k
  /\ \A m \in 1 .. Len(j) :
       /\ ends[m - 1] < ends[m]
       /\ j[m] = Node(pieces[ends[m - 1] + 1], pieces[ends[m]])
       /\ \A v \in ends[m - 1] + 1 .. ends[m] - 1 : pieces[v].info
       /\ m < Len(j) => ~pieces[ends[m]].info

HasGrouping(j, k) == \E ends : IsGrouping(j, k, ends)

LEMMA GroupingStep ==
  ASSUME pieces \in Seq(Piece), NEW j \in Seq(Joint),
         NEW k \in 1 .. Len(pieces), HasGrouping(j, k - 1)
  PROVE  HasGrouping(JoinStep(j, k), k)
<1> DEFINE n == Len(j)
<1>1. PICK d : IsGrouping(j, k - 1, d)
  BY DEF HasGrouping
<1>2. /\ d \in [0 .. n -> 0 .. k - 1] /\ d[0] = 0 /\ d[n] = k - 1
      /\ \A m \in 1 .. n :
           /\ d[m - 1] < d[m]
           /\ j[m] = Node(pieces[d[m - 1] + 1], pieces[d[m]])
           /\ \A v \in d[m - 1] + 1 .. d[m] - 1 : pieces[v].info
           /\ m < n => ~pieces[d[m]].info
  BY <1>1 DEF IsGrouping
<1>3. n \in Nat /\ k \in Nat /\ k >= 1
  OBVIOUS
<1>4. \A v \in 1 .. k : pieces[v] \in Piece
  BY <1>3
<1>5. CASE k > 1 /\ pieces[k - 1].info
  <2> DEFINE x == Node(j[n], pieces[k])
             r == [j EXCEPT ![n] = x]
             e == [m \in 0 .. n |-> IF m = n THEN k ELSE d[m]]
  <2>1. JoinStep(j, k) = r
    BY <1>5 DEF JoinStep
  <2>2. n >= 1
    <3>1. n # 0
      BY <1>2, <1>3, <1>5
    <3>2. QED
      BY <1>3, <3>1
  <2>3. Len(r) = n /\ r[n] = x /\ \A m \in 1 .. n - 1 : r[m] = j[m]
    <3> HIDE DEF x
    <3>1. QED
      BY <2>2
  <2>4. /\ e \in [0 .. n -> 0 .. k] /\ e[0] = 0 /\ e[n] = k
        /\ \A m \in 0 .. n - 1 : e[m] = d[m]
    <3> HIDE DEF n
    <3>1. \A m \in 0 .. n : m # n => d[m] \in 0 .. k
      BY <1>2, <1>3
    <3>2. 0 # n /\ n \in 0 .. n /\ 0 \in 0 .. n /\ k \in 0 .. k
          /\ \A m \in 0 .. n - 1 : m # n /\ m \in 0 .. n
      BY <1>3, <2>2
    <3>3. QED
      BY <1>2, <3>1, <3>2
  <2> HIDE DEF x, r, e, n
  <2>5. ASSUME NEW m \in 1 .. n
        PROVE  /\ e[m - 1] < e[m]
               /\ r[m] = Node(pieces[e[m - 1] + 1], pieces[e[m]])
               /\ \A v \in e[m - 1] + 1 .. e[m] - 1 : pieces[v].info
               /\ m < n => ~pieces[e[m]].info
    <3>1. m - 1 \in 0 .. n - 1 /\ e[m - 1] = d[m - 1] /\ d[m - 1] \in 0 .. k - 1
      BY <1>2, <1>3, <2>4
    <3>2. CASE m = n
      <4>1. e[m - 1] < e[m]
        BY <1>3, <2>4, <3>1, <3>2
      <4>2. r[m] = Node(pieces[e[m - 1] + 1], pieces[e[m]])
        <5>1. j[n] = Node(pieces[d[n - 1] + 1], pieces[k - 1])
          BY <1>2, <3>2
        <5>2. d[n - 1] + 1 \in 1 .. k /\ k - 1 \in 1 .. k /\ k \in 1 .. k
          BY <1>3, <1>5, <3>1, <3>2
        <5>3. Node(j[n], pieces[k]) = Node(pieces[d[n - 1] + 1], pieces[k])
          BY <1>4, <5>1, <5>2, NodeOfNode
        <5>4. QED
          BY <2>3, <2>4, <3>1, <3>2, <5>3 DEF x
      <4>3. ASSUME NEW v \in e[m - 1] + 1 .. e[m] - 1 PROVE pieces[v].info
        <5>1. v = k - 1 \/ v \in d[m - 1] + 1 .. d[m] - 1
          BY <1>2, <1>3, <2>4, <3>1, <3>2
        <5>2. QED
          BY <1>2, <1>5, <3>2, <5>1
      <4>4. ~(m < n)
        BY <1>3, <3>2
      <4>5. QED
        BY <4>1, <4>2, <4>3, <4>4
    <3>3. CASE m # n
      <4>1. m \in 0 .. n - 1 /\ m \in 1 .. n - 1
        BY <1>3, <3>3
      <4>2. e[m] = d[m] /\ r[m] = j[m]
        BY <2>3, <2>4, <4>1
      <4>3. QED
        BY <1>2, <3>1, <4>2
    <3>4. QED
      BY <3>2, <3>3
  <2>6. IsGrouping(r, k, e)
    BY <2>3, <2>4, <2>5 DEF IsGrouping
  <2>7. QED
    BY <2>1, <2>6 DEF HasGrouping
<1>6. CASE ~(k > 1 /\ pieces[k - 1].info)
  <2> DEFINE x == Node(pieces[k], pieces[k])
             r == Append(j, x)
             e == [m \in 0 .. n + 1 |-> IF m = n + 1 THEN k ELSE d[m]]
  <2>1. JoinStep(j, k) = r
    BY <1>6 DEF JoinStep
  <2>2. x \in Joint
    <3>1. pieces[k] \in Piece
      BY <1>3, <1>4
    <3>2. QED
      BY <3>1, NodeTyped
  <2>3. Len(r) = n + 1 /\ r[n + 1] = x /\ \A m \in 1 .. n : r[m] = j[m]
    <3> HIDE DEF x
    <3>1. QED
      BY <2>2
  <2>4. /\ e \in [0 .. n + 1 -> 0 .. k] /\ e[0] = 0 /\ e[n + 1] = k
        /\ \A m \in 0 .. n : e[m] = d[m]
    <3> HIDE DEF n
    <3>1. \A m \in 0 .. n + 1 : m # n + 1 => m \in 0 .. n
      BY <1>3
    <3>2. \A m \in 0 .. n : d[m] \in 0 .. k
      BY <1>2, <1>3
    <3>3. /\ 0 # n + 1 /\ n + 1 \in 0 .. n + 1 /\ 0 \in 0 .. n + 1 /\ k \in 0 .. k
          /\ 0 \in 0 .. n
          /\ \A m \in 0 .. n : m # n + 1 /\ m \in 0 .. n + 1
      BY <1>3
    <3>4. QED
      BY <1>2, <3>1, <3>2, <3>3
  <2> HIDE DEF x, r, e, n
  <2>5. ASSUME NEW m \in 1 .. n + 1
        PROVE  /\ e[m - 1] < e[m]
               /\ r[m] = Node(pieces[e[m - 1] + 1], pieces[e[m]])
               /\ \A v \in e[m - 1] + 1 .. e[m] - 1 : pieces[v].info
               /\ m < n + 1 => ~pieces[e[m]].info
    <3>1. m - 1 \in 0 .. n /\ e[m - 1] = d[m - 1] /\ d[m - 1] \in 0 .. k - 1
      BY <1>2, <1>3, <2>4
    <3>2. CASE m = n + 1
      <4>1. m - 1 = n /\ e[m - 1] = k - 1 /\ e[m] = k /\ (k - 1) + 1 = k
        BY <1>2, <1>3, <2>4, <3>1, <3>2
      <4>2. r[m] = Node(pieces[e[m - 1] + 1], pieces[e[m]])
        BY <2>3, <3>2, <4>1 DEF x
      <4>3. \A v \in e[m - 1] + 1 .. e[m] - 1 : FALSE
        BY <1>3, <4>1
      <4>4. ~(m < n + 1) /\ e[m - 1] < e[m]
        BY <1>3, <3>2, <4>1
      <4>5. QED
        BY <4>2, <4>3, <4>4
    <3>3. CASE m # n + 1
      <4>1. m \in 0 .. n /\ m \in 1 .. n
        BY <1>3, <3>3
      <4>2. e[m] = d[m] /\ r[m] = j[m]
        BY <2>3, <2>4, <4>1
      <4>3. ~pieces[d[m]].info
        <5>1. CASE m < n
          BY <1>2, <4>1, <5>1
        <5>2. CASE m = n
          <6>1. d[m] = k - 1 /\ d[m - 1] < d[m]
            BY <1>2, <4>1, <5>2
          <6>2. k > 1
            BY <1>3, <3>1, <6>1
          <6>3. QED
            BY <1>6, <6>1, <6>2
        <5>3. QED
          BY <1>3, <4>1, <5>1, <5>2
      <4>4. QED
        BY <1>2, <3>1, <4>1, <4>2, <4>3
    <3>4. QED
      BY <3>2, <3>3
  <2>6. IsGrouping(r, k, e)
    BY <2>3, <2>4, <2>5 DEF IsGrouping
  <2>7. QED
    BY <2>1, <2>6 DEF HasGrouping
<1>7. QED
  BY <1>5, <1>6

LEMMA JoinedGroups ==
  ASSUME pieces \in Seq(Piece)
  PROVE  HasGrouping(Joined[Len(pieces)], Len(pieces))
<1> DEFINE n == Len(pieces)
           S == {k \in Nat : k \in 0 .. n => HasGrouping(Joined[k], k)}
<1>1. n \in Nat
  OBVIOUS
<1>2. 0 \in S
  <2> DEFINE d == [m \in 0 .. 0 |-> 0]
  <2>1. IsGrouping(<<>>, 0, d)
    BY DEF IsGrouping
  <2>2. HasGrouping(Joined[0], 0)
    BY <2>1, JoinedSteps DEF HasGrouping
  <2>3. QED
    BY <2>2
<1>3. \A k \in S : k + 1 \in S
  <2> SUFFICES ASSUME NEW k \in S, k + 1 \in 0 .. n
               PROVE  HasGrouping(Joined[k + 1], k + 1)
    OBVIOUS
  <2>1. k \in 0 .. n /\ k + 1 \in 1 .. n /\ (k + 1) - 1 = k
    BY <1>1
  <2>2. HasGrouping(Joined[k], k)
    BY <2>1
  <2>3. Joined[k] \in Seq(Joint) /\ Joined[k + 1] = JoinStep(Joined[k], k + 1)
    BY <2>1, JoinedSteps
  <2>4. QED
    BY <2>1, <2>2, <2>3, GroupingStep
<1>4. Nat \subseteq S
  <2> HIDE DEF S
  <2>1. S \subseteq Nat
    BY DEF S
  <2>2. QED
    BY <1>2, <1>3, <2>1, Induction
<1>5. n \in S /\ n \in 0 .. n
  BY <1>1, <1>4
<1>6. QED
  BY <1>5

(* The pieces f to l are a node: they ask to be joined, and no other does. *)
IsGroup(f, l) ==
  /\ f \in 1 .. Len(pieces) /\ l \in f .. Len(pieces)
  /\ \A v \in f .. l - 1 : pieces[v].info
  /\ f > 1 => ~pieces[f - 1].info
  /\ l < Len(pieces) => ~pieces[l].info

IsNodeOf(x, f, l) == IsGroup(f, l) /\ x = Node(pieces[f], pieces[l])

LEMMA NodesOfGroups ==
  ASSUME pieces \in Seq(Piece), NEW j \in Seq(Joint),
         HasGrouping(j, Len(pieces))
  PROVE  /\ \A m \in 1 .. Len(j) : \E f, l \in 1 .. Len(pieces) : IsNodeOf(j[m], f, l)
         /\ \A v \in 1 .. Len(pieces) : \E m \in 1 .. Len(j) :
              \E f, l \in 1 .. Len(pieces) : IsNodeOf(j[m], f, l) /\ f <= v /\ v <= l
         /\ \A m \in 1 .. Len(j) - 1 : \E v \in 1 .. Len(pieces) - 1 :
              j[m].to = pieces[v].to /\ j[m + 1].from = pieces[v + 1].from
<1> DEFINE n == Len(pieces)
           h == Len(j)
<1>1. PICK e : IsGrouping(j, n, e)
  BY DEF HasGrouping
<1>2. /\ e \in [0 .. h -> 0 .. n] /\ e[0] = 0 /\ e[h] = n
      /\ \A m \in 1 .. h :
           /\ e[m - 1] < e[m]
           /\ j[m] = Node(pieces[e[m - 1] + 1], pieces[e[m]])
           /\ \A v \in e[m - 1] + 1 .. e[m] - 1 : pieces[v].info
           /\ m < h => ~pieces[e[m]].info
  BY <1>1 DEF IsGrouping
<1>3. h \in Nat /\ n \in Nat /\ \A v \in 1 .. n : pieces[v] \in Piece
  OBVIOUS
<1> HIDE DEF h
<1>4. ASSUME NEW m \in 1 .. h
      PROVE  /\ e[m - 1] + 1 \in 1 .. n /\ e[m] \in 1 .. n
             /\ IsNodeOf(j[m], e[m - 1] + 1, e[m])
  <2> DEFINE f == e[m - 1] + 1
             l == e[m]
  <2>1. m - 1 \in 0 .. h /\ m \in 0 .. h
    BY <1>3
  <2>2. e[m - 1] \in 0 .. n /\ e[m] \in 0 .. n /\ e[m - 1] < e[m]
    BY <1>2, <2>1
  <2>3. f \in 1 .. n /\ l \in f .. n /\ l \in 1 .. n
    BY <1>3, <2>2
  <2>4. f > 1 => ~pieces[f - 1].info
    <3> SUFFICES ASSUME f > 1 PROVE ~pieces[f - 1].info
      OBVIOUS
    <3>1. f - 1 = e[m - 1] /\ e[m - 1] # 0
      BY <1>3, <2>2
    <3>2. m - 1 # 0
      BY <1>2, <3>1
    <3>3. m - 1 \in 1 .. h /\ m - 1 < h
      BY <1>3, <3>2
    <3>4. QED
      BY <1>2, <3>1, <3>3
  <2>5. l < n => ~pieces[l].info
    <3>1. l < n => m # h
      BY <1>2, <1>3
    <3>2. m # h => m < h
      BY <1>3
    <3>3. QED
      BY <1>2, <3>1, <3>2
  <2>6. IsGroup(f, l)
    BY <1>2, <2>3, <2>4, <2>5 DEF IsGroup
  <2>7. QED
    BY <1>2, <2>3, <2>6 DEF IsNodeOf
<1>5. ASSUME NEW v \in 1 .. n
      PROVE  \E m \in 1 .. h : e[m - 1] + 1 <= v /\ v <= e[m]
  <2> DEFINE T == {m \in 0 .. h : v <= e[m]}
  <2>1. h \in T /\ T \subseteq Nat
    BY <1>2, <1>3
  <2>2. PICK m \in T : \A y \in T : m <= y
    <3> HIDE DEF T
    <3>1. QED
      BY <2>1, LeastNumber
  <2>3. m # 0
    <3>1. ~(v <= 0)
      OBVIOUS
    <3>2. QED
      BY <1>2, <2>2, <3>1
  <2>4. m \in 1 .. h /\ m - 1 \in 0 .. h /\ ~(m <= m - 1)
    BY <1>3, <2>3
  <2>5. m - 1 \notin T
    BY <2>2, <2>4
  <2>6. ~(v <= e[m - 1]) /\ e[m - 1] \in 0 .. n
    BY <1>2, <2>4, <2>5
  <2>7. e[m - 1] + 1 <= v
    BY <1>3, <2>6
  <2>8. QED
    BY <2>2, <2>4, <2>7
<1>6. ASSUME NEW v \in 1 .. n
      PROVE  \E m \in 1 .. h :
               \E f, l \in 1 .. n : IsNodeOf(j[m], f, l) /\ f <= v /\ v <= l
  <2> HIDE DEF n
  <2>1. QED
    BY <1>4, <1>5
<1>7. ASSUME NEW m \in 1 .. h - 1
      PROVE  \E v \in 1 .. n - 1 : j[m].to = pieces[v].to /\ j[m + 1].from = pieces[v + 1].from
  <2>1. m \in 1 .. h /\ m + 1 \in 1 .. h /\ (m + 1) - 1 = m /\ m \in 0 .. h /\ m - 1 \in 0 .. h
        /\ m + 1 \in 0 .. h
    BY <1>3
  <2>2. /\ e[m - 1] + 1 \in 1 .. n /\ e[m] \in 1 .. n /\ e[m] + 1 \in 1 .. n
        /\ e[m + 1] \in 1 .. n
    BY <1>4, <2>1
  <2>3. j[m] = Node(pieces[e[m - 1] + 1], pieces[e[m]])
        /\ j[m + 1] = Node(pieces[e[m] + 1], pieces[e[m + 1]])
    BY <1>2, <2>1
  <2>4. j[m].to = pieces[e[m]].to /\ j[m + 1].from = pieces[e[m] + 1].from
    <3>1. \A a, b \in Piece : Node(a, b).from = a.from /\ Node(a, b).to = b.to
      BY NodeTyped
    <3> HIDE DEF n
    <3>2. /\ pieces[e[m - 1] + 1] \in Piece /\ pieces[e[m]] \in Piece
          /\ pieces[e[m] + 1] \in Piece /\ pieces[e[m + 1]] \in Piece
      BY <1>3, <2>2
    <3>3. QED
      BY <2>3, <3>1, <3>2
  <2>5. e[m] \in 1 .. n - 1
    BY <1>3, <2>2
  <2>6. QED
    BY <2>4, <2>5
<1>8. QED
  BY <1>4, <1>6, <1>7 DEF h

LEMMA GroupFacts ==
  ASSUME line \in Lines, pieces \in Seq(Piece),
         NEW f \in 1 .. Len(pieces), NEW l \in 1 .. Len(pieces), NEW x,
         IsNodeOf(x, f, l)
  PROVE  /\ x \in Joint /\ f <= l
         /\ x.from = pieces[f].from /\ x.to = pieces[l].to
         /\ x.type = pieces[f].type /\ x.tail = pieces[l].type
         /\ \A v \in 1 .. Len(pieces) :
              pieces[v] \in Piece /\ pieces[v].from \in Nat /\ pieces[v].to \in Nat
              /\ pieces[v].from <= pieces[v].to
<1>1. \A v \in 1 .. Len(pieces) : pieces[v] \in Piece
  OBVIOUS
<1>2. \A y \in Piece : y.from \in Nat /\ y.to \in Nat /\ y.from <= y.to
  BY LineFacts, PieceFacts
<1>3. x = Node(pieces[f], pieces[l]) /\ f <= l
  BY DEF IsNodeOf, IsGroup
<1>4. QED
  BY <1>1, <1>2, <1>3, NodeTyped

(* The positions of a node are in its pieces and between them. *)
LEMMA NodePositions ==
  ASSUME line \in Lines, pieces \in Seq(Piece),
         NEW f \in 1 .. Len(pieces), NEW l \in 1 .. Len(pieces), NEW x,
         IsNodeOf(x, f, l), NEW p \in x.from .. x.to
  PROVE  \/ \E v \in f .. l : p \in pieces[v].from .. pieces[v].to
         \/ \E v \in f .. l - 1 : p \in pieces[v].to + 1 .. pieces[v + 1].from - 1
<1> DEFINE T == {v \in f .. l : p <= pieces[v].to}
<1>1. /\ f <= l /\ x.from = pieces[f].from /\ x.to = pieces[l].to
      /\ \A v \in 1 .. Len(pieces) : pieces[v].from \in Nat /\ pieces[v].to \in Nat
  BY GroupFacts
<1>2. p \in Nat /\ l \in T /\ T \subseteq Nat
  BY <1>1
<1>3. PICK v \in T : \A y \in T : v <= y
  <2> HIDE DEF T
  <2>1. QED
    BY <1>2, LeastNumber
<1>4. v \in f .. l /\ v \in 1 .. Len(pieces) /\ p <= pieces[v].to
  OBVIOUS
<1>5. CASE p >= pieces[v].from
  BY <1>1, <1>2, <1>4, <1>5
<1>6. CASE p < pieces[v].from
  <2>1. v # f
    BY <1>1, <1>2, <1>6
  <2>2. PICK w \in f .. l - 1 : w + 1 = v /\ w \in f .. l /\ w \in 1 .. Len(pieces)
                             /\ ~(v <= w)
    <3>1. v - 1 \in f .. l - 1 /\ (v - 1) + 1 = v /\ v - 1 \in f .. l
          /\ v - 1 \in 1 .. Len(pieces) /\ ~(v <= v - 1)
      BY <1>4, <2>1
    <3>2. QED
      BY <3>1
  <2>3. ~(p <= pieces[w].to)
    BY <1>3, <2>2
  <2>4. pieces[w].to \in Nat /\ pieces[w + 1].from \in Nat /\ p < pieces[w + 1].from
    BY <1>1, <1>4, <1>6, <2>2
  <2> HIDE DEF T
  <2>5. p \in pieces[w].to + 1 .. pieces[w + 1].from - 1
    BY <1>2, <2>3, <2>4
  <2>6. QED
    BY <2>5
<1>7. QED
  BY <1>1, <1>2, <1>4, <1>5, <1>6

LEMMA NodeInOrder ==
  ASSUME line \in Lines, pieces \in Seq(Piece),
         NEW q, InOrder(pieces, q),
         NEW f \in 1 .. Len(pieces), NEW l \in 1 .. Len(pieces), NEW x,
         IsNodeOf(x, f, l)
  PROVE  x.from <= x.to /\ pieces[f].to <= x.to
<1>1. /\ f <= l /\ x.from = pieces[f].from /\ x.to = pieces[l].to
      /\ \A v \in 1 .. Len(pieces) : pieces[v].from \in Nat /\ pieces[v].to \in Nat
                                     /\ pieces[v].from <= pieces[v].to
  BY GroupFacts
<1>2. f < l => pieces[f].to <= pieces[l].to
  BY DEF InOrder
<1>3. pieces[f].to <= pieces[l].to
  BY <1>1, <1>2
<1>4. QED
  BY <1>1, <1>3

LEMMA NodeMeaning ==
  ASSUME line \in Lines, pieces \in Seq(Piece),
         NEW q, InOrder(pieces, q), Meaning(pieces, q),
         NEW f \in 1 .. Len(pieces), NEW l \in 1 .. Len(pieces), NEW x,
         IsNodeOf(x, f, l)
  PROVE  /\ x.type # "word" =>
              \/ IsMeta(x.from)
              \/ /\ IsVariable(x.from, x.to + 1) /\ Unquoted(x.from)
                 /\ value[x.from] \in OperatorTypes
         /\ \A p \in x.from .. x.to :
              \/ IsText(p) \/ GluedAt(p)
              \/ IsMeta(p) /\ x.type # "word"
<1>1. /\ f <= l /\ x.from = pieces[f].from /\ x.to = pieces[l].to
      /\ x.type = pieces[f].type
      /\ \A v \in 1 .. Len(pieces) : pieces[v].from \in Nat /\ pieces[v].to \in Nat
                                     /\ pieces[v].from <= pieces[v].to
  BY GroupFacts
<1>2. pieces[f].to <= x.to
  BY NodeInOrder
<1>3. /\ \A v \in f .. l - 1 : pieces[v].info
      /\ f > 1 => ~pieces[f - 1].info
      /\ l < Len(pieces) => ~pieces[l].info
  BY DEF IsNodeOf, IsGroup
<1>4. \A v \in 1 .. Len(pieces) :
        /\ \A p \in pieces[v].from .. pieces[v].to : MayHold(p, pieces[v].type)
        /\ pieces[v].type # "word" => OperatorHas(pieces[v])
        /\ StandsAlone(pieces, v)
        /\ pieces[v].info => JoinedAcross(pieces[v].to,
             IF v = Len(pieces) THEN q ELSE pieces[v + 1].from)
  BY DEF Meaning
<1>5. x.type # "word" =>
        \/ IsMeta(x.from)
        \/ /\ IsVariable(x.from, x.to + 1) /\ Unquoted(x.from)
           /\ value[x.from] \in OperatorTypes
  <2>1. \A s, d, e \in Nat : d <= e /\ IsVariable(s, d + 1) => IsVariable(s, e + 1)
    <3>1. \A s, d, e \in Nat : d <= e /\ s + 1 < d + 1 => s + 1 < e + 1
      OBVIOUS
    <3>2. QED
      BY <3>1 DEF IsVariable
  <2>2. x.from \in Nat /\ pieces[f].to \in Nat /\ x.to \in Nat
    BY <1>1
  <2>3. IsVariable(pieces[f].from, pieces[f].to + 1) => IsVariable(x.from, x.to + 1)
    BY <1>1, <1>2, <2>1, <2>2
  <2>4. QED
    BY <1>1, <1>4, <2>3 DEF OperatorHas
<1>6. ASSUME NEW p \in x.from .. x.to
      PROVE  \/ IsText(p) \/ GluedAt(p)
             \/ IsMeta(p) /\ x.type # "word"
  <2>1. CASE \E v \in f .. l - 1 : p \in pieces[v].to + 1 .. pieces[v + 1].from - 1
    <3>1. PICK v \in f .. l - 1 : p \in pieces[v].to + 1 .. pieces[v + 1].from - 1
      BY <2>1
    <3>2. v \in 1 .. Len(pieces) /\ v # Len(pieces)
      OBVIOUS
    <3>3. JoinedAcross(pieces[v].to, pieces[v + 1].from)
      BY <1>3, <1>4, <3>2
    <3>4. QED
      BY <3>1, <3>3 DEF JoinedAcross
  <2>2. CASE \E v \in f .. l : p \in pieces[v].from .. pieces[v].to
    <3>1. PICK v \in f .. l : p \in pieces[v].from .. pieces[v].to
      BY <2>2
    <3>2. v \in 1 .. Len(pieces)
      OBVIOUS
    <3>3. MayHold(p, pieces[v].type)
      BY <1>4, <3>1, <3>2
    <3>4. BehindStatus(p) => GluedAt(p)
      BY DEF GluedAt
    <3>5. CASE IsMeta(p) /\ pieces[v].type # "word" /\ ~BehindStatus(p)
      <4>1. ~pieces[v].info /\ (v > 1 => ~pieces[v - 1].info)
        BY <1>4, <3>1, <3>2, <3>5 DEF StandsAlone
      <4>2. v = f
        <5>1. v # f => v - 1 \in f .. l - 1 /\ v > 1
          BY <3>1
        <5>2. QED
          BY <1>3, <4>1, <5>1
      <4>3. QED
        BY <1>1, <3>5, <4>2
    <3>6. QED
      BY <3>3, <3>4, <3>5 DEF MayHold
  <2>3. QED
    BY <2>1, <2>2, NodePositions
<1>7. QED
  BY <1>5, <1>6

(***************************************************************************)
(* The nodes of an ordinary line are its words and operators.              *)
(***************************************************************************)
LEMMA MetaFacts ==
  ASSUME NEW p, IsMeta(p)
  PROVE  ~IsBlank(p) /\ ~IsText(p)
<1>1. ~IsBlank(p)
  BY DEF IsMeta, IsBlank, Metas
<1>2. QED
  BY <1>1 DEF IsText

LEMMA OperatorPositions ==
  ASSUME NEW a \in Nat, NEW b \in Nat, <<a, b>> \in Operators
  PROVE  /\ IsMeta(a) /\ Repeated(a) % 2 = 0
         /\ \A p \in a .. b : IsMeta(p)
         /\ b = a \/ (b = a + 1 /\ a < Len(line) /\ line[a] # "|" /\ line[a + 1] = line[a])
         /\ \A c : <<a, c>> \in Operators => c = b
<1>1. /\ IsMeta(a) /\ Repeated(a) % 2 = 0
      /\ b = IF /\ line[a] # "|" /\ a < Len(line)
                /\ IsMeta(a + 1) /\ line[a + 1] = line[a]
             THEN a + 1 ELSE a
  BY DEF Operators
<1>2. \A c : <<a, c>> \in Operators =>
        c = IF /\ line[a] # "|" /\ a < Len(line)
               /\ IsMeta(a + 1) /\ line[a + 1] = line[a]
            THEN a + 1 ELSE a
  BY DEF Operators
<1>3. \A p \in a .. a : p = a
  OBVIOUS
<1>4. \A p \in a .. a + 1 : p = a \/ p = a + 1
  OBVIOUS
<1>5. QED
  BY <1>1, <1>2, <1>3, <1>4

LEMMA ItemFacts ==
  ASSUME line \in Lines, pieces \in Seq(Piece),
         AreItems(pieces, Len(line) + 1)
  PROVE  /\ Len(pieces) \in Nat
         /\ \A v \in 1 .. Len(pieces) :
              /\ pieces[v].from \in 1 .. Len(line) /\ pieces[v].to \in 1 .. Len(line)
              /\ pieces[v].from \in Nat /\ pieces[v].to \in Nat
              /\ 1 <= pieces[v].from /\ pieces[v].from <= pieces[v].to
              /\ pieces[v].to <= Len(line)
              /\ pieces[v].type = "word" =>
                   /\ \A p \in pieces[v].from .. pieces[v].to : IsText(p)
                   /\ pieces[v].info <=>
                        (pieces[v].to < Len(line) /\ IsText(pieces[v].to + 1))
              /\ pieces[v].type # "word" =>
                   /\ <<pieces[v].from, pieces[v].to>> \in Operators /\ ~pieces[v].info
                   /\ \A p \in pieces[v].from .. pieces[v].to : IsMeta(p)
         /\ \A v, k \in 1 .. Len(pieces) : v < k => pieces[v].to < pieces[k].from
         /\ \A p \in 1 .. Len(line) : IsText(p) \/ IsMeta(p) =>
              \E v \in 1 .. Len(pieces) : p \in pieces[v].from .. pieces[v].to
<1>1. Len(pieces) \in Nat /\ DOMAIN pieces = 1 .. Len(pieces)
      /\ \A v \in 1 .. Len(pieces) : pieces[v] \in Piece
  OBVIOUS
<1>2. \A v \in 1 .. Len(pieces) :
        /\ pieces[v].from \in 1 .. Len(line) /\ pieces[v].to \in 1 .. Len(line)
        /\ pieces[v].from \in Nat /\ pieces[v].to \in Nat
        /\ 1 <= pieces[v].from /\ pieces[v].from <= pieces[v].to
        /\ pieces[v].to <= Len(line)
  <2> SUFFICES ASSUME NEW v \in 1 .. Len(pieces)
      PROVE  /\ pieces[v].from \in 1 .. Len(line) /\ pieces[v].to \in 1 .. Len(line)
             /\ pieces[v].from \in Nat /\ pieces[v].to \in Nat
             /\ 1 <= pieces[v].from /\ pieces[v].from <= pieces[v].to
             /\ pieces[v].to <= Len(line)
    OBVIOUS
  <2>1. pieces[v].from \in 1 .. Len(line) /\ pieces[v].to \in pieces[v].from .. Len(line)
        /\ Len(line) \in Nat
    BY <1>1, PieceFacts, LineFacts
  <2>2. QED
    BY <2>1
<1>3. \A v \in 1 .. Len(pieces) : IsItem(pieces[v])
  BY <1>1 DEF AreItems
<1>4. ASSUME NEW v \in 1 .. Len(pieces), pieces[v].type = "word"
      PROVE  /\ \A p \in pieces[v].from .. pieces[v].to : IsText(p)
             /\ pieces[v].info <=>
                  (pieces[v].to < Len(line) /\ IsText(pieces[v].to + 1))
  BY <1>3, <1>4, Zenon DEF IsItem
<1>5. ASSUME NEW v \in 1 .. Len(pieces), pieces[v].type # "word"
      PROVE  /\ <<pieces[v].from, pieces[v].to>> \in Operators /\ ~pieces[v].info
             /\ \A p \in pieces[v].from .. pieces[v].to : IsMeta(p)
  <2>1. <<pieces[v].from, pieces[v].to>> \in Operators /\ ~pieces[v].info
    BY <1>3, <1>5, Zenon DEF IsItem
  <2>2. QED
    BY <1>2, <2>1, OperatorPositions
<1>6. \A v, k \in 1 .. Len(pieces) : v < k => pieces[v].to < pieces[k].from
  BY <1>1 DEF AreItems
<1>7. \A p \in 1 .. Len(line) : IsText(p) \/ IsMeta(p) =>
        \E v \in 1 .. Len(pieces) : p \in pieces[v].from .. pieces[v].to
  <2>1. \A p \in 1 .. (Len(line) + 1) - 1 :
          IsBlank(p) \/ \E v \in 1 .. Len(pieces) : p \in pieces[v].from .. pieces[v].to
    BY <1>1 DEF AreItems
  <2>2. \A p : IsText(p) => ~IsBlank(p)
    BY DEF IsText
  <2>3. \A p \in 1 .. Len(line) : p \in 1 .. (Len(line) + 1) - 1
    BY LineFacts
  <2>4. QED
    BY <2>1, <2>2, <2>3, MetaFacts
<1>8. QED
  BY <1>1, <1>2, <1>4, <1>5, <1>6, <1>7

(* A word that is joined to what follows has more of the word behind it. *)
LEMMA NextPiece ==
  ASSUME line \in Lines, pieces \in Seq(Piece),
         AreItems(pieces, Len(line) + 1),
         NEW v \in 1 .. Len(pieces), pieces[v].info
  PROVE  /\ v + 1 \in 1 .. Len(pieces)
         /\ pieces[v].type = "word" /\ pieces[v + 1].type = "word"
         /\ pieces[v + 1].from = pieces[v].to + 1
<1> DEFINE p == pieces[v].to + 1
<1>1. pieces[v].type = "word"
  BY ItemFacts
<1>2. pieces[v].to < Len(line) /\ IsText(p)
  BY <1>1, ItemFacts
<1>3. /\ Len(line) \in Nat /\ Len(pieces) \in Nat
      /\ \A k \in 1 .. Len(pieces) :
           /\ pieces[k].from \in Nat /\ pieces[k].to \in Nat /\ 1 <= pieces[k].from
           /\ pieces[k].from <= pieces[k].to
      /\ \A k, m \in 1 .. Len(pieces) : k < m => pieces[k].to < pieces[m].from
  BY LineFacts, ItemFacts
<1>4. p \in 1 .. Len(line)
  BY <1>2, <1>3
<1>5. PICK k \in 1 .. Len(pieces) : p \in pieces[k].from .. pieces[k].to
  BY <1>2, <1>4, ItemFacts
<1>6. k > v
  <2>1. ~(k < v)
    BY <1>3, <1>5
  <2>2. k # v
    BY <1>3, <1>5
  <2>3. QED
    BY <1>3, <2>1, <2>2
<1>7. v + 1 \in 1 .. Len(pieces)
  BY <1>3, <1>6
<1>8. pieces[v].to < pieces[v + 1].from
  BY <1>3, <1>7
<1>9. k = v + 1
  <2>1. k > v + 1 => pieces[v + 1].to < pieces[k].from
    BY <1>3, <1>7
  <2>2. ~(k > v + 1)
    <3> DEFINE x == pieces[k].from
               y == pieces[v + 1].from
               z == pieces[v + 1].to
    <3>1. x \in Nat /\ x <= p
      BY <1>3, <1>5
    <3>2. y \in Nat /\ z \in Nat /\ y <= z
      BY <1>3, <1>7
    <3>3. pieces[v].to < y /\ (k > v + 1 => z < x)
      BY <1>8, <2>1
    <3> HIDE DEF x, y, z
    <3>4. QED
      BY <1>2, <1>3, <3>1, <3>2, <3>3
  <2>3. QED
    BY <1>3, <1>6, <2>2
<1>10. pieces[v + 1].from = p
  BY <1>3, <1>5, <1>7, <1>8, <1>9
<1>11. pieces[v + 1].type = "word"
  <2>1. pieces[v + 1].type # "word" => IsMeta(p)
    BY <1>5, <1>7, <1>9, ItemFacts
  <2>2. QED
    BY <1>2, <2>1, MetaFacts
<1>12. QED
  BY <1>1, <1>7, <1>10, <1>11

LEMMA NodeTail ==
  ASSUME line \in Lines, pieces \in Seq(Piece),
         AreItems(pieces, Len(line) + 1),
         NEW f \in 1 .. Len(pieces), NEW l \in 1 .. Len(pieces), NEW x,
         IsNodeOf(x, f, l)
  PROVE  x.tail = x.type
<1>1. x.type = pieces[f].type /\ x.tail = pieces[l].type /\ f <= l
  BY GroupFacts
<1>2. \A v \in f .. l - 1 : pieces[v].info
  BY DEF IsNodeOf, IsGroup
<1>3. CASE f < l
  <2>1. f \in f .. l - 1 /\ l - 1 \in f .. l - 1 /\ l - 1 \in 1 .. Len(pieces)
        /\ (l - 1) + 1 = l
    BY <1>3
  <2>2. pieces[f].info /\ pieces[l - 1].info
    BY <1>2, <2>1
  <2>3. pieces[f].type = "word"
    BY <2>2, NextPiece
  <2>4. pieces[(l - 1) + 1].type = "word"
    BY <2>1, <2>2, NextPiece
  <2>5. QED
    BY <1>1, <2>1, <2>3, <2>4
<1>4. CASE f = l
  BY <1>1, <1>4
<1>5. QED
  BY <1>1, <1>3, <1>4

LEMMA NodeOfWords ==
  ASSUME line \in Lines, pieces \in Seq(Piece),
         AreItems(pieces, Len(line) + 1),
         NEW f \in 1 .. Len(pieces), NEW l \in 1 .. Len(pieces), NEW x,
         IsNodeOf(x, f, l)
  PROVE  /\ x.type = "word" =>
              /\ pieces[l].type = "word"
              /\ \A p \in x.from .. x.to : IsText(p)
         /\ x.type # "word" =>
              /\ f = l /\ <<x.from, x.to>> \in Operators
              /\ \A p \in x.from .. x.to : IsMeta(p)
         /\ \A v \in f .. l : pieces[v].type # "word" => x.type # "word" /\ f = v /\ l = v
<1>1. /\ f <= l /\ x.from = pieces[f].from /\ x.to = pieces[l].to
      /\ x.type = pieces[f].type /\ x.tail = pieces[l].type
  BY GroupFacts
<1>2. \A v \in f .. l - 1 : pieces[v].info
  BY DEF IsNodeOf, IsGroup
<1>3. ASSUME NEW v \in f .. l, v # f PROVE pieces[v].type = "word" /\ pieces[f].type = "word"
  <2>1. v - 1 \in f .. l - 1 /\ v - 1 \in 1 .. Len(pieces) /\ (v - 1) + 1 = v
        /\ f \in f .. l - 1
    BY <1>1, <1>3
  <2>2. pieces[v - 1].info /\ pieces[f].info
    BY <1>2, <2>1
  <2>3. pieces[(v - 1) + 1].type = "word" /\ pieces[f].type = "word"
    BY <2>1, <2>2, NextPiece
  <2>4. QED
    BY <2>1, <2>3
<1>4. l \in f .. l /\ f \in f .. l
  BY <1>1
<1>5. \A v \in f .. l : pieces[v].type # "word" => x.type # "word" /\ f = v /\ l = v
  BY <1>1, <1>3, <1>4
<1>6. ASSUME x.type = "word", NEW p \in x.from .. x.to PROVE IsText(p)
  <2>1. \A v \in f .. l : v \in 1 .. Len(pieces) /\ pieces[v].type = "word"
    BY <1>5, <1>6
  <2>2. CASE \E v \in f .. l : p \in pieces[v].from .. pieces[v].to
    BY <2>1, <2>2, ItemFacts
  <2>3. CASE \E v \in f .. l - 1 : p \in pieces[v].to + 1 .. pieces[v + 1].from - 1
    <3>1. PICK v \in f .. l - 1 : p \in pieces[v].to + 1 .. pieces[v + 1].from - 1
      BY <2>3
    <3>2. v \in 1 .. Len(pieces) /\ pieces[v].info
      BY <1>2
    <3>3. pieces[v + 1].from = pieces[v].to + 1 /\ pieces[v].to \in Nat
      BY <3>2, NextPiece, GroupFacts
    <3>4. FALSE
      BY <3>1, <3>3
    <3>5. QED
      BY <3>4
  <2>4. QED
    BY <2>2, <2>3, NodePositions
<1>7. x.type # "word" =>
        /\ f = l /\ <<x.from, x.to>> \in Operators
        /\ \A p \in x.from .. x.to : IsMeta(p)
  <2>1. x.type # "word" => f = l
    BY <1>1, <1>4, <1>5
  <2>2. QED
    BY <1>1, <2>1, ItemFacts
<1>8. QED
  BY <1>1, <1>4, <1>5, <1>6, <1>7

(* Before the first piece of a word there is no more of the word. *)
LEMMA WordBegins ==
  ASSUME line \in Lines, pieces \in Seq(Piece),
         AreItems(pieces, Len(line) + 1),
         NEW f \in 1 .. Len(pieces), f > 1 => ~pieces[f - 1].info,
         pieces[f].type = "word", pieces[f].from # 1
  PROVE  ~IsText(pieces[f].from - 1)
<1> DEFINE s == pieces[f].from
<1>1. /\ Len(line) \in Nat /\ Len(pieces) \in Nat
      /\ \A k \in 1 .. Len(pieces) :
           /\ pieces[k].from \in Nat /\ pieces[k].to \in Nat /\ 1 <= pieces[k].from
           /\ pieces[k].from <= pieces[k].to /\ pieces[k].to <= Len(line)
      /\ \A k, m \in 1 .. Len(pieces) : k < m => pieces[k].to < pieces[m].from
  BY LineFacts, ItemFacts
<1> SUFFICES ASSUME IsText(s - 1) PROVE FALSE
  OBVIOUS
<1>2. s - 1 \in 1 .. Len(line) /\ s \in Nat /\ s <= Len(line)
  <2>1. s \in Nat /\ 1 <= s /\ s <= pieces[f].to /\ pieces[f].to <= Len(line)
    BY <1>1
  <2>2. s # 1 /\ pieces[f].to \in Nat
    BY <1>1
  <2> HIDE DEF s
  <2>3. QED
    BY <1>1, <2>1, <2>2
<1>3. PICK k \in 1 .. Len(pieces) : s - 1 \in pieces[k].from .. pieces[k].to
  BY <1>2, ItemFacts
<1>4. k < f
  <2>1. k # f
    BY <1>1, <1>3
  <2>2. ~(f < k)
    BY <1>1, <1>3
  <2>3. QED
    BY <1>1, <2>1, <2>2
<1>5. pieces[k].to = s - 1
  BY <1>1, <1>2, <1>3, <1>4
<1>6. pieces[k].type = "word"
  BY <1>3, ItemFacts, MetaFacts
<1>7. s \in pieces[f].from .. pieces[f].to
  BY <1>1, <1>2
<1>8. IsText(s)
  BY <1>7, ItemFacts
<1>9. pieces[k].to < Len(line) /\ pieces[k].to + 1 = s
  <2>1. Len(line) \in Nat /\ s \in Nat /\ s <= Len(line)
    BY <1>1, <1>2
  <2> HIDE DEF s
  <2>2. QED
    BY <1>5, <2>1
<1>10. pieces[k].info
  BY <1>6, <1>8, <1>9, ItemFacts
<1>11. k + 1 \in 1 .. Len(pieces) /\ pieces[k + 1].from = s
  BY <1>9, <1>10, NextPiece
<1>12. k + 1 = f
  <2>1. k + 1 < f => pieces[k + 1].to < s
    BY <1>1, <1>11
  <2>2. ~(k + 1 < f)
    BY <1>1, <1>2, <1>11, <2>1
  <2>3. QED
    BY <1>1, <1>4, <2>2
<1>13. k = f - 1 /\ f > 1
  BY <1>1, <1>12
<1>14. QED
  BY <1>10, <1>13

(* Behind the last piece of a word there is no more of the word. *)
LEMMA WordEnds ==
  ASSUME line \in Lines, pieces \in Seq(Piece),
         AreItems(pieces, Len(line) + 1),
         NEW l \in 1 .. Len(pieces), l < Len(pieces) => ~pieces[l].info,
         pieces[l].type = "word", pieces[l].to # Len(line)
  PROVE  ~IsText(pieces[l].to + 1)
<1> SUFFICES ASSUME IsText(pieces[l].to + 1) PROVE FALSE
  OBVIOUS
<1>1. pieces[l].to < Len(line)
  <2>1. pieces[l].to <= Len(line) /\ pieces[l].to \in Nat /\ Len(line) \in Nat
    BY LineFacts, ItemFacts
  <2>2. QED
    BY <2>1
<1>2. pieces[l].info
  BY <1>1, ItemFacts
<1>3. l + 1 \in 1 .. Len(pieces)
  BY <1>2, NextPiece
<1>4. l < Len(pieces)
  BY <1>3, ItemFacts
<1>5. QED
  BY <1>2, <1>4

LEMMA WordRun ==
  ASSUME line \in Lines, NEW a, NEW b
  PROVE  <<a, b>> \in WordRuns <=>
           /\ a \in 1 .. Len(line) /\ b \in 1 .. Len(line) /\ a <= b
           /\ \A p \in a .. b : IsText(p)
           /\ a = 1 \/ ~IsText(a - 1)
           /\ b = Len(line) \/ ~IsText(b + 1)
BY LineFacts DEF WordRuns

LEMMA NodeIsItem ==
  ASSUME line \in Lines, pieces \in Seq(Piece),
         AreItems(pieces, Len(line) + 1),
         NEW f \in 1 .. Len(pieces), NEW l \in 1 .. Len(pieces), NEW x,
         IsNodeOf(x, f, l)
  PROVE  /\ <<x.from, x.to>> \in WordRuns \cup Operators
         /\ x.type = "word" <=> <<x.from, x.to>> \in WordRuns
<1>1. /\ f <= l /\ x.from = pieces[f].from /\ x.to = pieces[l].to
      /\ x.type = pieces[f].type
      /\ pieces[f].to \in Nat
  BY GroupFacts
<1>2. /\ Len(line) \in Nat
      /\ x.from \in 1 .. Len(line) /\ x.to \in 1 .. Len(line)
  BY <1>1, LineFacts, ItemFacts
<1>3. x.from <= x.to
  <2>1. f < l => pieces[f].to < pieces[l].from
    BY ItemFacts
  <2>2. QED
    BY <1>1, <1>2, <2>1, GroupFacts
<1>4. (f > 1 => ~pieces[f - 1].info) /\ (l < Len(pieces) => ~pieces[l].info)
  BY DEF IsNodeOf, IsGroup
<1>5. x.type = "word" => <<x.from, x.to>> \in WordRuns
  <2> SUFFICES ASSUME x.type = "word" PROVE <<x.from, x.to>> \in WordRuns
    OBVIOUS
  <2>1. pieces[l].type = "word" /\ pieces[f].type = "word"
        /\ \A p \in x.from .. x.to : IsText(p)
    BY <1>1, NodeOfWords
  <2>2. x.from = 1 \/ ~IsText(x.from - 1)
    BY <1>1, <1>4, <2>1, WordBegins
  <2>3. x.to = Len(line) \/ ~IsText(x.to + 1)
    BY <1>1, <1>4, <2>1, WordEnds
  <2>4. QED
    BY <1>2, <1>3, <2>1, <2>2, <2>3, WordRun
<1>6. x.type # "word" =>
        <<x.from, x.to>> \in Operators /\ <<x.from, x.to>> \notin WordRuns
  <2> SUFFICES ASSUME x.type # "word"
               PROVE  <<x.from, x.to>> \in Operators /\ <<x.from, x.to>> \notin WordRuns
    OBVIOUS
  <2>1. <<x.from, x.to>> \in Operators /\ \A p \in x.from .. x.to : IsMeta(p)
    BY NodeOfWords
  <2>2. x.from \in x.from .. x.to
    BY <1>2, <1>3
  <2>3. ~IsText(x.from)
    BY <2>1, <2>2, MetaFacts
  <2>4. QED
    BY <2>1, <2>2, <2>3, WordRun
<1>7. QED
  BY <1>5, <1>6

LEMMA RunsMeet ==
  ASSUME line \in Lines,
         NEW a, NEW b, NEW c, NEW d,
         <<a, b>> \in WordRuns, <<c, d>> \in WordRuns, c \in a .. b
  PROVE  a = c /\ b = d
<1>1. /\ Len(line) \in Nat
      /\ a \in 1 .. Len(line) /\ b \in 1 .. Len(line)
      /\ c \in 1 .. Len(line) /\ d \in 1 .. Len(line) /\ c <= d
      /\ \A p \in a .. b : IsText(p)
      /\ \A p \in c .. d : IsText(p)
      /\ c = 1 \/ ~IsText(c - 1)
      /\ b = Len(line) \/ ~IsText(b + 1)
      /\ d = Len(line) \/ ~IsText(d + 1)
  BY LineFacts, WordRun
<1>2. a = c
  <2>1. a # c => c - 1 \in a .. b /\ c # 1
    BY <1>1
  <2>2. QED
    BY <1>1, <2>1
<1>3. ~(b < d)
  <2>1. b < d => b + 1 \in c .. d /\ b # Len(line)
    BY <1>1
  <2>2. QED
    BY <1>1, <2>1
<1>4. ~(d < b)
  <2>1. d < b => d + 1 \in a .. b /\ d # Len(line)
    BY <1>1
  <2>2. QED
    BY <1>1, <2>1
<1>5. QED
  BY <1>1, <1>2, <1>3, <1>4

LEMMA OperatorsMeet ==
  ASSUME line \in Lines,
         NEW a \in 1 .. Len(line), NEW b \in 1 .. Len(line), NEW c, NEW d,
         <<a, b>> \in Operators, <<c, d>> \in Operators, c \in a .. b
  PROVE  a = c /\ b = d
<1>1. Len(line) \in Nat
  BY LineFacts
<1>2. /\ IsMeta(a) /\ Repeated(a) % 2 = 0
      /\ b = a \/ (b = a + 1 /\ a < Len(line) /\ line[a] # "|" /\ line[a + 1] = line[a])
      /\ \A e : <<a, e>> \in Operators => e = b
  BY <1>1, OperatorPositions
<1>3. Repeated(c) % 2 = 0
  BY DEF Operators
<1>4. c = a
  <2> SUFFICES ASSUME c # a PROVE FALSE
    OBVIOUS
  <2>1. c = a + 1 /\ b = a + 1
    BY <1>1, <1>2
  <2>2. a + 1 <= Len(line) /\ line[a] # "|" /\ line[a + 1] = line[a]
    BY <1>1, <1>2, <2>1
  <2>3. Repeated(a) \in Nat /\ Repeated(c) = Repeated(a) + 1
    BY <1>2, <2>1, <2>2, RepeatedOnce
  <2> DEFINE r == Repeated(a)
  <2>4. r \in Nat /\ r % 2 = 0 /\ (r + 1) % 2 = 0
    BY <1>2, <1>3, <2>3
  <2> HIDE DEF r
  <2>5. QED
    BY <2>4
<1>5. QED
  BY <1>2, <1>4

LEMMA RangesAhead ==
  ASSUME NEW n \in Nat, NEW from \in [1 .. n -> Nat], NEW to \in [1 .. n -> Nat],
         \A k \in 1 .. n : from[k] <= to[k],
         \A k, m \in 1 .. n : k < m => to[k] < from[m],
         NEW f \in 1 .. n, NEW v \in 1 .. n, NEW l \in 1 .. n, f <= v, v <= l,
         NEW a, a \in from[v] .. to[v]
  PROVE  a \in from[f] .. to[l]
<1>1. (f = v \/ f < v) /\ (v = l \/ v < l)
  OBVIOUS
<1>2. from[f] <= from[v]
  BY <1>1
<1>3. to[v] <= to[l]
  BY <1>1
<1>4. QED
  BY <1>2, <1>3

LEMMA NodeCovers ==
  ASSUME line \in Lines, pieces \in Seq(Piece),
         AreItems(pieces, Len(line) + 1),
         NEW f \in 1 .. Len(pieces), NEW l \in 1 .. Len(pieces), NEW x,
         IsNodeOf(x, f, l), NEW v \in 1 .. Len(pieces), f <= v, v <= l,
         NEW a, a \in pieces[v].from .. pieces[v].to
  PROVE  a \in x.from .. x.to
<1> DEFINE from == [k \in 1 .. Len(pieces) |-> pieces[k].from]
           to == [k \in 1 .. Len(pieces) |-> pieces[k].to]
<1>1. /\ from \in [1 .. Len(pieces) -> Nat] /\ to \in [1 .. Len(pieces) -> Nat]
      /\ a \in from[v] .. to[v] /\ Len(pieces) \in Nat
  BY ItemFacts
<1>2. x.from = from[f] /\ x.to = to[l]
  BY GroupFacts
<1>3. \A k \in 1 .. Len(pieces) : from[k] <= to[k]
  BY ItemFacts
<1>4. \A k, m \in 1 .. Len(pieces) : k < m => to[k] < from[m]
  BY ItemFacts
<1> HIDE DEF from, to
<1>5. a \in from[f] .. to[l]
  BY <1>1, <1>3, <1>4, RangesAhead
<1>6. QED
  BY <1>2, <1>5

LEMMA ItemIsNode ==
  ASSUME line \in Lines, pieces \in Seq(Piece),
         AreItems(pieces, Len(line) + 1),
         NEW j \in Seq(Joint), HasGrouping(j, Len(pieces)),
         NEW r \in WordRuns \cup Operators
  PROVE  \E m \in 1 .. Len(j) : r = <<j[m].from, j[m].to>>
<1>1. PICK a \in 1 .. Len(line), b \in 1 .. Len(line) : r = <<a, b>>
  <2>1. r \in (1 .. Len(line)) \X (1 .. Len(line))
    BY LineFacts DEF WordRuns, Operators
  <2>2. QED
    BY <2>1
<1>2. IsText(a) \/ IsMeta(a)
  <2>1. CASE r \in WordRuns
    <3>1. a <= b /\ \A p \in a .. b : IsText(p)
      BY <1>1, <2>1, WordRun
    <3>2. a \in a .. b
      BY <3>1
    <3>3. QED
      BY <3>1, <3>2
  <2>2. CASE r \in Operators
    BY <1>1, <2>2, LineFacts, OperatorPositions
  <2>3. QED
    BY <2>1, <2>2
<1>3. PICK v \in 1 .. Len(pieces) : a \in pieces[v].from .. pieces[v].to
  BY <1>2, ItemFacts
<1>4. PICK m \in 1 .. Len(j) : \E f, l \in 1 .. Len(pieces) :
        IsNodeOf(j[m], f, l) /\ f <= v /\ v <= l
  BY NodesOfGroups
<1>5. PICK f \in 1 .. Len(pieces), l \in 1 .. Len(pieces) :
        IsNodeOf(j[m], f, l) /\ f <= v /\ v <= l
  BY <1>4
<1>6. v \in f .. l
  BY <1>5
<1>7. j[m].from = pieces[f].from /\ j[m].to = pieces[l].to
  BY <1>5, GroupFacts
<1>8. <<j[m].from, j[m].to>> \in WordRuns \cup Operators
      /\ (j[m].type = "word" <=> <<j[m].from, j[m].to>> \in WordRuns)
  BY <1>5, NodeIsItem
<1>9. a \in j[m].from .. j[m].to
  BY <1>3, <1>5, NodeCovers
<1>10. CASE r \in WordRuns
  <2>1. IsText(a)
    BY <1>1, <1>10, WordRun, LineFacts
  <2>2. ~IsMeta(a)
    BY <2>1, MetaFacts
  <2>3. j[m].type = "word"
    BY <1>5, <1>9, <2>2, NodeOfWords
  <2>4. <<j[m].from, j[m].to>> \in WordRuns /\ <<a, b>> \in WordRuns
    BY <1>1, <1>8, <1>10, <2>3
  <2>5. j[m].from = a /\ j[m].to = b
    BY <1>9, <2>4, RunsMeet
  <2>6. QED
    BY <1>1, <2>5
<1>11. CASE r \in Operators
  <2>1. IsMeta(a)
    BY <1>1, <1>11, LineFacts, OperatorPositions
  <2>2. ~IsText(a)
    BY <2>1, MetaFacts
  <2>3. j[m].type # "word"
    BY <1>5, <1>9, <2>2, NodeOfWords
  <2>4. <<j[m].from, j[m].to>> \in Operators
    BY <1>8, <2>3
  <2>5. j[m].from \in 1 .. Len(line) /\ j[m].to \in 1 .. Len(line)
    BY <1>7, LineFacts, ItemFacts
  <2>6. j[m].from = a /\ j[m].to = b
    BY <1>1, <1>9, <1>11, <2>4, <2>5, OperatorsMeet
  <2>7. QED
    BY <1>1, <2>6
<1>12. QED
  BY <1>10, <1>11

(* IsItsItems, of the nodes j. *)
AreTheItems(j) ==
  /\ {<<j[k].from, j[k].to>> : k \in DOMAIN j} = WordRuns \cup Operators
  /\ \A k \in 1 .. Len(j) - 1 : j[k].to < j[k + 1].from
  /\ \A k \in DOMAIN j :
       /\ j[k].type = "word" <=> <<j[k].from, j[k].to>> \in WordRuns
       /\ j[k].tail = j[k].type

LEMMA NodesAreItems ==
  ASSUME line \in Lines, pieces \in Seq(Piece),
         AreItems(pieces, Len(line) + 1),
         NEW j \in Seq(Joint), HasGrouping(j, Len(pieces))
  PROVE  AreTheItems(j)
<1>1. DOMAIN j = 1 .. Len(j) /\ Len(j) \in Nat
  OBVIOUS
<1>2. ASSUME NEW k \in 1 .. Len(j)
      PROVE  /\ <<j[k].from, j[k].to>> \in WordRuns \cup Operators
             /\ j[k].type = "word" <=> <<j[k].from, j[k].to>> \in WordRuns
             /\ j[k].tail = j[k].type
  <2>1. PICK f \in 1 .. Len(pieces), l \in 1 .. Len(pieces) : IsNodeOf(j[k], f, l)
    BY NodesOfGroups
  <2>2. ASSUME NEW x, IsNodeOf(x, f, l)
        PROVE  /\ <<x.from, x.to>> \in WordRuns \cup Operators
               /\ x.type = "word" <=> <<x.from, x.to>> \in WordRuns
    BY <2>2, NodeIsItem
  <2>3. ASSUME NEW x, IsNodeOf(x, f, l) PROVE x.tail = x.type
    BY <2>3, NodeTail
  <2>4. QED
    BY <2>1, <2>2, <2>3, Zenon
<1>3. ASSUME NEW k \in 1 .. Len(j) - 1 PROVE j[k].to < j[k + 1].from
  <2>1. PICK v \in 1 .. Len(pieces) - 1 :
          j[k].to = pieces[v].to /\ j[k + 1].from = pieces[v + 1].from
    BY NodesOfGroups
  <2>2. v \in 1 .. Len(pieces) /\ v + 1 \in 1 .. Len(pieces) /\ v < v + 1
    BY ItemFacts
  <2>3. pieces[v].to < pieces[v + 1].from
    BY <2>2, ItemFacts
  <2>4. QED
    BY <2>1, <2>3
<1>4. {<<j[k].from, j[k].to>> : k \in DOMAIN j} = WordRuns \cup Operators
  <2>1. \A r \in WordRuns \cup Operators :
          \E m \in 1 .. Len(j) : r = <<j[m].from, j[m].to>>
    BY ItemIsNode
  <2>2. QED
    BY <1>1, <1>2, <2>1
<1>5. QED
  BY <1>1, <1>2, <1>3, <1>4 DEF AreTheItems

-----------------------------------------------------------------------------
(***************************************************************************)
(* The steps.                                                              *)
(***************************************************************************)
LEMMA SameSees ==
  ASSUME line' = line, value' = value
  PROVE  /\ \A t, s, e : Sees(t, s, e)' <=> Sees(t, s, e)
         /\ \A t, s, e : Sorts(t, s, e)' <=> Sorts(t, s, e)
         /\ Joint' = Joint
<1>1. \A t, e : EndsSplit(t, e)' <=> EndsSplit(t, e)
  BY SameLine DEF EndsSplit
<1>2. \A t, s, e : BlankGlues(t, s, e)' <=> BlankGlues(t, s, e)
  BY <1>1, SameLine DEF BlankGlues
<1>3. \A t, s, e : Sees(t, s, e)' <=> Sees(t, s, e)
  BY <1>2, SameMeaning DEF Sees
<1>4. \A t, s, e : Sorts(t, s, e)' <=> Sorts(t, s, e)
  BY SameLine, SameMeaning DEF Sorts
<1>5. Joint' = Joint
  BY DEF Joint, Positions
<1>6. QED
  BY <1>3, <1>4, <1>5

LEMMA ScanFacts ==
  ASSUME LInv, pc = "scan"
  PROVE  /\ line \in Lines /\ value \in ValuesOf(line) /\ status \in Nat
         /\ Len(line) \in Nat
         /\ start \in 1 .. Len(line) + 1 /\ end \in start .. Len(line) + 2
         /\ end = Len(line) + 2 => start = Len(line) + 1
         /\ start \in Nat /\ end \in Nat
         /\ pieces \in Seq(Piece) /\ IsClosedQuotes
         /\ InOrder(pieces, start)
         /\ InStep => Sees(pieces, start, end)
         /\ Ordinary => InStep /\ OneWordEach /\ Sorts(pieces, start, end)
<1>1. line \in Lines /\ Len(line) \in Nat
  BY LineFacts DEF LInv, Places
<1>2. /\ start \in 1 .. Len(line) + 1 /\ end \in start .. Len(line) + 2
      /\ value \in ValuesOf(line) /\ status \in Nat
      /\ end = Len(line) + 2 => start = Len(line) + 1
      /\ pieces \in Seq(Piece) /\ IsClosedQuotes
  BY DEF LInv, Places
<1>3. start \in Nat /\ end \in Nat
  BY <1>1, <1>2
<1>4. /\ InOrder(pieces, start)
      /\ InStep => Sees(pieces, start, end)
      /\ Ordinary => Sorts(pieces, start, end)
  BY DEF LInv
<1>5. QED
  BY <1>1, <1>2, <1>3, <1>4, OrdinaryFacts

LEMMA StillScans ==
  ASSUME LInv, pc = "scan",
         line' = line, value' = value, pc' = "scan", status' \in Nat,
         start' \in 1 .. Len(line) + 1, end' \in start' .. Len(line) + 2,
         end' = Len(line) + 2 => start' = Len(line) + 1,
         pieces' \in Seq(Piece), InOrder(pieces', start'),
         InStep => Sees(pieces', start', end'),
         Ordinary => Sorts(pieces', start', end')
  PROVE  LInv'
<1>1. line \in Lines /\ value \in ValuesOf(line) /\ IsClosedQuotes
  BY ScanFacts
<1>2. Places'
  BY <1>1, SameLine, SameMeaning DEF Places
<1>3. /\ InOrder(pieces, start)'
      /\ InStep' => Sees(pieces, start, end)'
      /\ Ordinary' => Sorts(pieces, start, end)'
  BY SameLine, SameMeaning, SameSees
<1>4. QED
  BY <1>2, <1>3 DEF LInv

LEMMA StatusIsNumber ==
  ASSUME status \in Nat, NEW s, NEW e
  PROVE  StatusAfter(s, e) \in Nat
BY DEF StatusAfter

LEMMA LaterInOrder ==
  ASSUME NEW toks \in Seq(Piece), NEW q \in Nat, NEW r \in Nat, q <= r,
         InOrder(toks, q), \A k \in DOMAIN toks : toks[k].to \in Nat
  PROVE  InOrder(toks, r)
BY DEF InOrder

LEMMA PlacesAreNumbers ==
  ASSUME line \in Lines, NEW toks \in Seq(Piece)
  PROVE  \A k \in DOMAIN toks : toks[k].to \in Nat
<1>1. \A k \in DOMAIN toks : toks[k] \in Piece
  OBVIOUS
<1>2. \A t \in Piece : t.to \in Nat
  BY PieceFacts, LineFacts
<1>3. QED
  BY <1>1, <1>2

(* What is known when the piece that is read has been added. *)
LEMMA PieceAdded ==
  ASSUME LInv, pc = "scan", end <= Len(line),
         NEW h, h = HandleWordToken(pieces, start, end)
  PROVE  /\ h \in Seq(Piece) /\ InOrder(h, end)
         /\ end \in 1 .. Len(line)
         /\ InStep => /\ Meaning(h, end) /\ Unquoted(end)
                      /\ Space(end) => EndsSplit(h, end)
         /\ Ordinary => /\ AreItems(h, end) /\ Repeated(end) % 2 = 0
                        /\ Unquoted(end) /\ InStep /\ OneWordEach
<1>1. /\ line \in Lines /\ value \in ValuesOf(line) /\ Len(line) \in Nat
      /\ start \in 1 .. Len(line) + 1 /\ end \in start .. Len(line) + 1
      /\ end \in start .. Len(line) + 2 /\ end \in start .. end
      /\ end = Len(line) + 2 => start = Len(line) + 1
      /\ end \in 1 .. Len(line) /\ pieces \in Seq(Piece)
  BY ScanFacts
<1>2. h \in Seq(Piece) /\ InOrder(h, end)
  BY <1>1, ScanFacts, WordTokenInOrder
<1>3. ASSUME InStep
      PROVE  /\ Meaning(h, end) /\ Unquoted(end)
             /\ Space(end) => EndsSplit(h, end)
  <2>1. Sees(pieces, start, end)
    BY <1>3, ScanFacts
  <2>2. Unquoted(end)
    BY <1>1, <2>1, SeenText DEF Sees
  <2>3. QED
    BY <1>1, <2>1, <2>2, SeesPiece DEF Space
<1>4. ASSUME Ordinary
      PROVE  /\ AreItems(h, end) /\ Repeated(end) % 2 = 0
             /\ InStep /\ OneWordEach
  <2>1. InStep /\ OneWordEach /\ Sorts(pieces, start, end)
    BY <1>4, ScanFacts
  <2>2. PlainText(start, end) /\ InOrder(pieces, start)
    BY <2>1, ScanFacts DEF Sees
  <2>3. QED
    BY <1>1, <2>1, <2>2, SortsPiece
<1>5. QED
  BY <1>1, <1>2, <1>3, <1>4

LEMMA DollarStep ==
  ASSUME LInv, HandleDollar
  PROVE  LInv'
<1> DEFINE h == HandleWordToken(pieces, start, end)
           b == Behind(end + 1, {"a"})
           k == HandleWordToken(h, end, b)
<1>1. /\ pc = "scan" /\ end <= Len(line) /\ At(end) = "$" /\ At(end + 1) = "a"
      /\ pieces' = k /\ start' = b /\ end' = b
      /\ status' = StatusAfter(start, end)
      /\ line' = line /\ value' = value /\ pc' = pc
  BY DEF HandleDollar, Scans
<1> HIDE DEF h, b, k
<1>2. /\ line \in Lines /\ value \in ValuesOf(line) /\ Len(line) \in Nat
      /\ status \in Nat
  BY <1>1, ScanFacts
<1>3. /\ h \in Seq(Piece) /\ InOrder(h, end) /\ end \in 1 .. Len(line)
      /\ InStep => Meaning(h, end) /\ Unquoted(end)
      /\ Ordinary => /\ AreItems(h, end) /\ Unquoted(end) /\ InStep
                     /\ OneWordEach
  BY <1>1, PieceAdded DEF h
<1>4. b \in end + 1 .. Len(line) + 1
  <2>1. end + 1 \in 1 .. Len(line) + 1
    BY <1>2, <1>3
  <2>2. QED
    BY <1>2, <2>1, BehindFacts DEF b
<1>5. k \in Seq(Piece) /\ InOrder(k, b)
  <2>1. end \in 1 .. Len(line) + 1 /\ b \in end .. Len(line) + 2 /\ b # Len(line) + 2
    BY <1>2, <1>3, <1>4
  <2>2. QED
    BY <1>2, <1>3, <2>1, WordTokenInOrder DEF k
<1>6. InStep => Sees(k, b, b)
  BY <1>1, <1>2, <1>3, SeesDollar DEF k, b
<1>7. Ordinary => Sorts(k, b, b)
  BY <1>1, <1>2, <1>3, SortsDollar DEF k, b
<1>8. /\ b \in 1 .. Len(line) + 1 /\ b \in b .. Len(line) + 2
      /\ b = Len(line) + 2 => b = Len(line) + 1
  BY <1>2, <1>3, <1>4
<1>9. QED
  BY <1>1, <1>2, <1>5, <1>6, <1>7, <1>8, StillScans, StatusIsNumber

LEMMA StatusStep ==
  ASSUME LInv, HandleStatus
  PROVE  LInv'
<1> DEFINE h == HandleWordToken(pieces, start, end)
           k == HandleWordToken(h, end, end + 2)
<1>1. /\ pc = "scan" /\ end <= Len(line) /\ At(end) = "$" /\ At(end + 1) = "?"
      /\ pieces' = k /\ start' = end + 2 /\ end' = end + 3 /\ status' = 0
      /\ line' = line /\ value' = value /\ pc' = pc
  BY DEF HandleStatus, Scans
<1> HIDE DEF h, k
<1>2. line \in Lines /\ value \in ValuesOf(line) /\ Len(line) \in Nat
  BY <1>1, ScanFacts
<1>3. /\ h \in Seq(Piece) /\ InOrder(h, end) /\ end \in 1 .. Len(line)
      /\ InStep => Meaning(h, end) /\ Unquoted(end)
      /\ Ordinary => Unquoted(end)
  BY <1>1, PieceAdded DEF h
<1>4. end + 1 \in 1 .. Len(line)
  BY <1>1, <1>2, LineFacts
<1>5. /\ end \in 1 .. Len(line) + 1 /\ end + 2 \in end .. Len(line) + 2
      /\ end + 2 # Len(line) + 2
      /\ end + 2 \in 1 .. Len(line) + 1 /\ end + 3 \in end + 2 .. Len(line) + 2
      /\ end + 3 = Len(line) + 2 => end + 2 = Len(line) + 1
  BY <1>2, <1>3, <1>4
<1>6. k \in Seq(Piece) /\ InOrder(k, end + 2)
  BY <1>2, <1>3, <1>5, WordTokenInOrder DEF k
<1>7. InStep => Sees(k, end + 2, end + 3)
  BY <1>1, <1>2, <1>3, SeesStatus DEF k
<1>8. ~Ordinary
  BY <1>1, <1>2, <1>3, OrdinaryFacts
<1>9. QED
  BY <1>1, <1>5, <1>6, <1>7, <1>8, StillScans

LEMMA LoneDollarStep ==
  ASSUME LInv, HandleLoneDollar
  PROVE  LInv'
<1> DEFINE h == HandleWordToken(pieces, start, end)
<1>1. /\ pc = "scan" /\ end <= Len(line) /\ At(end) = "$" /\ At(end + 1) # "a"
      /\ pieces' = h /\ start' = end /\ end' = end + 1
      /\ status' = StatusAfter(start, end)
      /\ line' = line /\ value' = value /\ pc' = pc
  BY DEF HandleLoneDollar, Scans
<1> HIDE DEF h
<1>2. /\ line \in Lines /\ value \in ValuesOf(line) /\ Len(line) \in Nat
      /\ status \in Nat
  BY <1>1, ScanFacts
<1>3. /\ h \in Seq(Piece) /\ InOrder(h, end) /\ end \in 1 .. Len(line)
      /\ InStep => Meaning(h, end) /\ Unquoted(end)
      /\ Ordinary => Unquoted(end)
  BY <1>1, PieceAdded DEF h
<1>4. /\ end \in 1 .. Len(line) + 1 /\ end + 1 \in end .. Len(line) + 2
      /\ end + 1 = Len(line) + 2 => end = Len(line) + 1
  BY <1>2, <1>3
<1>5. InStep => Sees(h, end, end + 1)
  BY <1>1, <1>2, <1>3, SeesLoneDollar
<1>6. ~Ordinary
  BY <1>1, <1>2, <1>3, OrdinaryFacts
<1>7. QED
  BY <1>1, <1>2, <1>3, <1>4, <1>5, <1>6, StillScans, StatusIsNumber

LEMMA OperatorStep ==
  ASSUME LInv, HandleSpecialeToken
  PROVE  LInv'
<1> DEFINE h == HandleWordToken(pieces, start, end)
           b == OperatorEnd(end)
           k == WithOperator(h, end)
<1>1. /\ pc = "scan" /\ end <= Len(line) /\ At(end) \in Metas
      /\ pieces' = k /\ start' = b /\ end' = b
      /\ status' = StatusAfter(start, end)
      /\ line' = line /\ value' = value /\ pc' = pc
  BY DEF HandleSpecialeToken, Scans, OperatorEnd, WithOperator
<1> HIDE DEF h, b, k
<1>2. /\ line \in Lines /\ value \in ValuesOf(line) /\ Len(line) \in Nat
      /\ status \in Nat
  BY <1>1, ScanFacts
<1>3. /\ h \in Seq(Piece) /\ InOrder(h, end) /\ end \in 1 .. Len(line)
      /\ InStep => Meaning(h, end) /\ Unquoted(end)
      /\ Ordinary => /\ AreItems(h, end) /\ Unquoted(end)
                     /\ Repeated(end) % 2 = 0
  BY <1>1, PieceAdded DEF h
<1>4. b \in end + 1 .. Len(line) + 1
  BY <1>1, <1>2, <1>3, OperatorFacts DEF b
<1>5. k \in Seq(Piece) /\ InOrder(k, b)
  BY <1>1, <1>2, <1>3, OperatorInOrder DEF k, b
<1>6. InStep => Sees(k, b, b)
  BY <1>1, <1>2, <1>3, SeesOperator DEF k, b
<1>7. Ordinary => Sorts(k, b, b)
  BY <1>1, <1>2, <1>3, SortsOperator DEF k, b
<1>8. /\ b \in 1 .. Len(line) + 1 /\ b \in b .. Len(line) + 2
      /\ b = Len(line) + 2 => b = Len(line) + 1
  BY <1>2, <1>3, <1>4
<1>9. QED
  BY <1>1, <1>2, <1>5, <1>6, <1>7, <1>8, StillScans, StatusIsNumber

LEMMA BlanksStep ==
  ASSUME LInv, HandleWhiteSpaces
  PROVE  LInv'
<1> DEFINE h == HandleWordToken(pieces, start, end)
           b == BlankEnd(end)
<1>1. /\ pc = "scan" /\ end <= Len(line) /\ Space(end)
      /\ pieces' = h /\ start' = b /\ end' = b
      /\ status' = StatusAfter(start, end)
      /\ line' = line /\ value' = value /\ pc' = pc
  BY DEF HandleWhiteSpaces, Scans, BlankEnd, Space
<1> HIDE DEF h, b
<1>2. /\ line \in Lines /\ value \in ValuesOf(line) /\ Len(line) \in Nat
      /\ status \in Nat
  BY <1>1, ScanFacts
<1>3. /\ h \in Seq(Piece) /\ InOrder(h, end) /\ end \in 1 .. Len(line)
      /\ InStep => Meaning(h, end) /\ Unquoted(end) /\ EndsSplit(h, end)
      /\ Ordinary => AreItems(h, end) /\ Unquoted(end)
  BY <1>1, PieceAdded DEF h
<1>4. b \in end .. Len(line) + 1
  <2>1. end \in 1 .. Len(line) + 1
    BY <1>2, <1>3
  <2>2. QED
    BY <1>2, <2>1, BehindFacts DEF b, BlankEnd
<1>5. InOrder(h, b)
  <2>1. end \in Nat /\ b \in Nat /\ end <= b
    BY <1>2, <1>3, <1>4
  <2>2. QED
    BY <1>2, <1>3, <2>1, LaterInOrder, PlacesAreNumbers
<1>6. InStep => Sees(h, b, b)
  BY <1>1, <1>2, <1>3, SeesBlanks DEF b
<1>7. Ordinary => Sorts(h, b, b)
  BY <1>1, <1>2, <1>3, SortsBlanks DEF b
<1>8. /\ b \in 1 .. Len(line) + 1 /\ b \in b .. Len(line) + 2
      /\ b = Len(line) + 2 => b = Len(line) + 1
  BY <1>2, <1>3, <1>4
<1>9. QED
  BY <1>1, <1>2, <1>3, <1>5, <1>6, <1>7, <1>8, StillScans, StatusIsNumber

LEMMA OtherStep ==
  ASSUME LInv, OtherCharacter
  PROVE  LInv'
<1>1. /\ pc = "scan" /\ end <= Len(line) /\ At(end) \in Letters
      /\ pieces' = pieces /\ start' = start /\ end' = end + 1 /\ status' = status
      /\ line' = line /\ value' = value /\ pc' = pc
  BY DEF OtherCharacter, Scans
<1>2. /\ line \in Lines /\ Len(line) \in Nat /\ status \in Nat
      /\ start \in 1 .. Len(line) + 1 /\ end \in 1 .. Len(line) /\ start \in 1 .. end
      /\ end + 1 \in start .. Len(line) + 2
      /\ end + 1 = Len(line) + 2 => FALSE
      /\ pieces \in Seq(Piece) /\ InOrder(pieces, start)
  BY <1>1, ScanFacts
<1>3. InStep => Sees(pieces, start, end + 1)
  BY <1>1, <1>2, ScanFacts, SeesOther
<1>4. ASSUME Ordinary PROVE Sorts(pieces, start, end + 1)
  <2>1. AreItems(pieces, start) /\ \A p \in start .. end - 1 : At(p) \in Letters
    BY <1>1, <1>4, ScanFacts DEF Sorts
  <2>2. \A p \in start .. (end + 1) - 1 : p \in start .. end - 1 \/ p = end
    BY <1>2
  <2>3. start # end + 1
    BY <1>2
  <2>4. QED
    BY <1>1, <2>1, <2>2, <2>3 DEF Sorts
<1>5. QED
  BY <1>1, <1>2, <1>3, <1>4, StillScans

(* What a quote leaves of the piece before it. *)
LEMMA BeforeQuoteFacts ==
  ASSUME LInv, pc = "scan", end <= Len(line),
         At(end) \in Quotes, NEW g, g = BeforeQuote
  PROVE  /\ g \in Seq(Piece) /\ InOrder(g, end)
         /\ InStep => Meaning(g, end)
         /\ Ordinary => AreItems(g, end)
<1>1. /\ line \in Lines /\ value \in ValuesOf(line) /\ Len(line) \in Nat
      /\ start \in 1 .. Len(line) + 1 /\ end \in start .. Len(line) + 1
      /\ start \in Nat /\ end \in Nat /\ start <= end
      /\ pieces \in Seq(Piece) /\ InOrder(pieces, start)
      /\ Ordinary => InStep
  BY ScanFacts
<1>2. /\ \A k \in DOMAIN pieces : pieces[k].to \in Nat
  BY <1>1, PlacesAreNumbers
<1>3. CASE At(start) = "$"
  <2>1. g = pieces
    BY <1>3 DEF BeforeQuote
  <2>2. InOrder(g, end)
    BY <1>1, <1>2, <2>1, LaterInOrder
  <2>3. start # end /\ start \in start .. end - 1
    <3>1. start # end
      BY <1>3 DEF Quotes
    <3>2. QED
      BY <1>1, <3>1
  <2>4. ASSUME InStep PROVE Meaning(g, end)
    <3>1. Sees(pieces, start, end)
      BY <2>4, ScanFacts
    <3>2. \A p \in start .. end - 1 : IsText(p) \/ BehindStatus(p)
      BY <1>1, <3>1, SeenText DEF Sees
    <3>3. \A p \in start .. end - 1 : IsText(p) \/ GluedAt(p)
      BY <3>2 DEF GluedAt
    <3>4. Meaning(pieces, start)
      BY <3>1 DEF Sees
    <3>5. QED
      BY <1>1, <1>2, <2>1, <3>3, <3>4, MeaningMoves
  <2>5. ~Ordinary
    <3>1. Ordinary => At(start) \in Letters
      BY <2>3, ScanFacts DEF Sorts
    <3>2. QED
      BY <1>3, <3>1 DEF Letters
  <2>6. QED
    BY <1>1, <2>1, <2>2, <2>4, <2>5
<1>4. CASE At(start) # "$" /\ At(end - 1) = "$" /\ end > start
  <2>1. g = HandleWordToken(pieces, start, end - 1)
    BY <1>4 DEF BeforeQuote
  <2>2. end - 1 \in start + 1 .. end - 1 /\ end - 1 \in start .. Len(line) + 2
        /\ end - 1 # Len(line) + 2 /\ end - 1 \in Nat /\ end - 1 <= end
    <3>1. end - 1 # start
      BY <1>4
    <3>2. QED
      BY <1>1, <1>4, <3>1
  <2>3. g \in Seq(Piece) /\ InOrder(g, end - 1)
    BY <1>1, <2>1, <2>2, WordTokenInOrder
  <2>4. InOrder(g, end)
    BY <1>1, <2>2, <2>3, LaterInOrder, PlacesAreNumbers
  <2>5. ~InStep
    <3>1. InStep => PlainText(start, end)
      BY ScanFacts DEF Sees
    <3>2. InStep => At(end - 1) \in Letters
      BY <1>1, <2>2, <3>1, SeenText
    <3>3. QED
      BY <1>4, <3>2 DEF Letters
  <2>6. QED
    BY <1>1, <2>3, <2>4, <2>5
<1>5. CASE At(start) # "$" /\ ~(At(end - 1) = "$" /\ end > start)
  <2>1. g = HandleWordToken(pieces, start, end)
    BY <1>5 DEF BeforeQuote
  <2>2. QED
    BY <2>1, PieceAdded
<1>6. QED
  BY <1>3, <1>4, <1>5

LEMMA QuoteStep ==
  ASSUME LInv, HandleSpecialQuot
  PROVE  LInv'
<1> DEFINE g == BeforeQuote
           b == QuoteEnd(end)
           k == HandleWordToken(g, end, b)
<1>1. /\ pc = "scan" /\ end <= Len(line) /\ At(end) \in Quotes
      /\ pieces' = k /\ start' = b /\ end' = b
      /\ line' = line /\ value' = value /\ pc' = pc
  BY DEF HandleSpecialQuot, Scans, QuoteEnd
<1>2. status' \in Nat
  BY <1>1, ScanFacts, StatusIsNumber DEF HandleSpecialQuot
<1> HIDE DEF g, b, k
<1>3. /\ line \in Lines /\ value \in ValuesOf(line) /\ Len(line) \in Nat
      /\ IsClosedQuotes
  BY <1>1, ScanFacts
<1>4. /\ end \in 1 .. Len(line)
      /\ InStep => Unquoted(end)
      /\ Ordinary => Unquoted(end) /\ OneWordEach
  <2>1. PICK h : h = HandleWordToken(pieces, start, end)
    OBVIOUS
  <2>2. QED
    BY <1>1, <2>1, PieceAdded
<1>5. /\ g \in Seq(Piece) /\ InOrder(g, end)
      /\ InStep => Meaning(g, end)
      /\ Ordinary => AreItems(g, end)
  BY <1>1, BeforeQuoteFacts DEF g
<1>6. b \in end + 1 .. Len(line) + 1
  BY <1>1, <1>3, <1>4, QuoteFacts DEF b
<1>7. k \in Seq(Piece) /\ InOrder(k, b)
  <2>1. end \in 1 .. Len(line) + 1 /\ b \in end .. Len(line) + 2 /\ b # Len(line) + 2
    BY <1>3, <1>4, <1>6
  <2>2. QED
    BY <1>3, <1>5, <2>1, WordTokenInOrder DEF k
<1>8. InStep => Sees(k, b, b)
  BY <1>1, <1>3, <1>4, <1>5, SeesQuoted DEF k, b
<1>9. Ordinary => Sorts(k, b, b)
  BY <1>1, <1>3, <1>4, <1>5, SortsQuoted DEF k, b
<1>10. /\ b \in 1 .. Len(line) + 1 /\ b \in b .. Len(line) + 2
       /\ b = Len(line) + 2 => b = Len(line) + 1
  BY <1>3, <1>4, <1>6
<1>11. QED
  BY <1>1, <1>2, <1>3, <1>7, <1>8, <1>9, <1>10, StillScans

LEMMA EndStep ==
  ASSUME LInv, EndOfLine
  PROVE  LInv'
<1> DEFINE h == HandleWordToken(pieces, start, end)
           n == Len(line)
<1>1. /\ pc = "scan" /\ end > Len(line) /\ pc' = "join"
      /\ pieces' = h /\ start' = start /\ end' = end
      /\ status' = StatusAfter(start, end)
      /\ line' = line /\ value' = value
  BY DEF EndOfLine
<1> HIDE DEF h
<1>2. /\ line \in Lines /\ value \in ValuesOf(line) /\ status \in Nat /\ n \in Nat
      /\ start \in 1 .. n + 1 /\ end \in start .. n + 2
      /\ end = n + 2 => start = n + 1
      /\ pieces \in Seq(Piece) /\ IsClosedQuotes
      /\ InOrder(pieces, start)
      /\ InStep => Sees(pieces, start, end)
      /\ Ordinary => InStep /\ OneWordEach /\ Sorts(pieces, start, end)
  BY <1>1, ScanFacts
<1>3. /\ h \in Seq(Piece) /\ InOrder(h, n + 1)
      /\ InStep => Meaning(h, n + 1)
      /\ Ordinary => AreItems(h, n + 1)
  <2>1. CASE end = n + 2
    <3>1. start = n + 1 /\ start > n
      BY <1>2, <2>1
    <3>2. h = pieces
      BY <3>1, NothingAdded DEF h
    <3>3. QED
      BY <1>2, <3>1, <3>2 DEF Sees, Sorts
  <2>2. CASE end = n + 1
    <3>1. end \in start .. n + 1
      BY <1>2, <2>2
    <3>2. h \in Seq(Piece) /\ InOrder(h, end)
      BY <1>2, WordTokenInOrder DEF h
    <3>3. InStep => Meaning(h, end)
      BY <1>2, <3>1, SeesPiece DEF h
    <3>4. Ordinary => AreItems(h, end)
      BY <1>2, <3>1, SortsPiece DEF h, Sees
    <3>5. QED
      BY <2>2, <3>2, <3>3, <3>4
  <2>3. end = n + 1 \/ end = n + 2
    BY <1>1, <1>2
  <2>4. QED
    BY <2>1, <2>2, <2>3
<1>4. Places'
  <2>1. StatusAfter(start, end) \in Nat
    BY <1>2, StatusIsNumber
  <2>2. QED
    BY <1>1, <1>2, <1>3, <2>1, SameLine, SameMeaning DEF Places
<1>5. /\ InOrder(pieces', Len(line') + 1)
      /\ InStep => Meaning(pieces', Len(line') + 1)
      /\ Ordinary => AreItems(pieces', Len(line') + 1)
  BY <1>1, <1>3
<1>6. /\ InOrder(pieces, Len(line) + 1)'
      /\ InStep' => Meaning(pieces, Len(line) + 1)'
      /\ Ordinary' => AreItems(pieces, Len(line) + 1)'
  BY <1>1, <1>5, SameLine, SameMeaning
<1>7. QED
  BY <1>1, <1>4, <1>6 DEF LInv

LEMMA UnclosedStep ==
  ASSUME LInv, Unclosed
  PROVE  LInv'
<1>1. /\ pc = "check" /\ pc' = "done" /\ ~IsClosedQuotes /\ status' = 0
      /\ pieces' = pieces /\ start' = start /\ end' = end
      /\ line' = line /\ value' = value
  BY DEF Unclosed
<1>2. /\ line \in Lines /\ value \in ValuesOf(line) /\ Len(line) \in Nat
      /\ start \in 1 .. Len(line) + 1 /\ end \in start .. Len(line) + 2
      /\ end = Len(line) + 2 => start = Len(line) + 1
      /\ pieces = <<>>
  BY <1>1, LineFacts DEF LInv, Places
<1>3. Places'
  BY <1>1, <1>2 DEF Places
<1>4. ~IsClosedQuotes'
  BY <1>1, SameLine
<1>5. pieces' = <<>> /\ pieces' \in Seq(Joint)' /\ DOMAIN pieces' = {}
  BY <1>1, <1>2
<1>6. LexerTypeOK'
  BY <1>1, <1>2, <1>5 DEF LexerTypeOK
<1>7. QuotedIsText'
  BY <1>5 DEF QuotedIsText
<1>8. SplitsIntoWords'
  BY <1>4 DEF SplitsIntoWords
<1>9. QED
  BY <1>1, <1>3, <1>5, <1>6, <1>7, <1>8 DEF LInv

LEMMA ClosedStep ==
  ASSUME LInv, Closed
  PROVE  LInv'
<1>1. /\ pc = "check" /\ pc' = "scan" /\ IsClosedQuotes
      /\ pieces' = pieces /\ start' = start /\ end' = end
      /\ line' = line /\ value' = value /\ status' = status
  BY DEF Closed
<1>2. /\ line \in Lines /\ value \in ValuesOf(line) /\ status \in Nat
      /\ Len(line) \in Nat /\ Len(line) > 0
      /\ start = 1 /\ end = 1 /\ pieces = <<>>
  BY <1>1, LineFacts DEF LInv, Places
<1>3. Places'
  BY <1>1, <1>2, SameLine DEF Places
<1>4. Unquoted(1)
  <2>1. OpenQuote[1 - 1] = "none"
    BY <1>2, QuoteSteps
  <2>2. QED
    BY <2>1 DEF Unquoted
<1>5. InOrder(<<>>, 1)
  BY DEF InOrder
<1>6. Sees(<<>>, 1, 1)
  <2>1. PlainText(1, 1)
    <3>1. \A p \in 1 .. 1 : p = 1
      OBVIOUS
    <3>2. \A p \in 1 + 1 .. 1 - 1 : FALSE
      OBVIOUS
    <3>3. QED
      BY <1>4, <3>1, <3>2 DEF PlainText
  <2>2. Meaning(<<>>, 1)
    BY DEF Meaning
  <2>3. BlankGlues(<<>>, 1, 1)
    BY DEF BlankGlues, EndsSplit
  <2>4. QED
    BY <2>1, <2>2, <2>3 DEF Sees
<1>7. Sorts(<<>>, 1, 1)
  <2>1. AreItems(<<>>, 1)
    BY DEF AreItems
  <2>2. Repeated(1) = 0
    BY <1>2, NotRepeated
  <2>3. QED
    BY <2>1, <2>2 DEF Sorts
<1>8. /\ InOrder(pieces, start)'
      /\ InStep' => Sees(pieces, start, end)'
      /\ Ordinary' => Sorts(pieces, start, end)'
  BY <1>1, <1>2, <1>5, <1>6, <1>7, SameLine, SameMeaning, SameSees
<1>9. QED
  BY <1>1, <1>3, <1>8 DEF LInv

LEMMA JoinNodesStep ==
  ASSUME LInv, JoinNodes
  PROVE  LInv'
<1> DEFINE n == Len(line)
           j == Joined[Len(pieces)]
<1>1. /\ pc = "join" /\ pc' = "done" /\ pieces' = j
      /\ start' = start /\ end' = end
      /\ line' = line /\ value' = value /\ status' = status
  BY DEF JoinNodes
<1> HIDE DEF j
<1>2. /\ line \in Lines /\ value \in ValuesOf(line) /\ status \in Nat /\ n \in Nat
      /\ start \in 1 .. n + 1 /\ end \in start .. n + 2
      /\ end = n + 2 => start = n + 1
      /\ pieces \in Seq(Piece) /\ Len(pieces) \in Nat
      /\ InOrder(pieces, n + 1)
      /\ InStep => Meaning(pieces, n + 1)
      /\ Ordinary => AreItems(pieces, n + 1)
  BY <1>1, LineFacts DEF LInv, Places
<1>3. j \in Seq(Joint) /\ HasGrouping(j, Len(pieces))
  BY <1>2, JoinedSteps, JoinedGroups DEF j
<1>4. /\ DOMAIN line = 1 .. n /\ DOMAIN j = 1 .. Len(j)
      /\ \A k \in 1 .. Len(j) : j[k] \in Joint
  BY <1>2, <1>3, LineFacts
<1>5. \A k \in DOMAIN j :
        /\ j[k].from \in 1 .. n
        /\ j[k].to \in j[k].from .. n
        /\ j[k].type \in Types
  <2> SUFFICES ASSUME NEW k \in 1 .. Len(j)
               PROVE  /\ j[k].from \in 1 .. n
                      /\ j[k].to \in j[k].from .. n
                      /\ j[k].type \in Types
    BY <1>4
  <2>1. PICK f \in 1 .. Len(pieces), l \in 1 .. Len(pieces) : IsNodeOf(j[k], f, l)
    BY <1>2, <1>3, NodesOfGroups
  <2>2. j[k].from <= j[k].to
    BY <1>2, <2>1, NodeInOrder
  <2>3. j[k].from \in 1 .. n /\ j[k].to \in 1 .. n /\ j[k].type \in Types
    BY <1>4 DEF Joint, Positions
  <2>4. QED
    BY <1>2, <2>2, <2>3
<1>6. ASSUME InStep
      PROVE  \A k \in DOMAIN j :
               /\ j[k].type # "word" =>
                    \/ IsMeta(j[k].from)
                    \/ /\ IsVariable(j[k].from, j[k].to + 1)
                       /\ value[j[k].from] \in OperatorTypes
                       /\ Unquoted(j[k].from)
               /\ \A p \in j[k].from .. j[k].to :
                    \/ IsText(p) \/ GluedAt(p)
                    \/ IsMeta(p) /\ j[k].type # "word"
  <2> SUFFICES ASSUME NEW k \in 1 .. Len(j)
      PROVE    /\ j[k].type # "word" =>
                    \/ IsMeta(j[k].from)
                    \/ /\ IsVariable(j[k].from, j[k].to + 1)
                       /\ value[j[k].from] \in OperatorTypes
                       /\ Unquoted(j[k].from)
               /\ \A p \in j[k].from .. j[k].to :
                    \/ IsText(p) \/ GluedAt(p)
                    \/ IsMeta(p) /\ j[k].type # "word"
    BY <1>4
  <2>1. PICK f \in 1 .. Len(pieces), l \in 1 .. Len(pieces) : IsNodeOf(j[k], f, l)
    BY <1>2, <1>3, NodesOfGroups
  <2>2. QED
    BY <1>2, <1>6, <2>1, NodeMeaning
<1>7. Ordinary => AreTheItems(j)
  BY <1>2, <1>3, NodesAreItems
<1>8. LexerTypeOK'
  BY <1>1, <1>2, <1>4, <1>5 DEF LexerTypeOK
<1>9. QuotedIsText'
  BY <1>1, <1>6, SameLine DEF QuotedIsText
<1>10. SplitsIntoWords'
  <2>1. Ordinary' => IsItsItems'
    BY <1>1, <1>7, SameLine DEF AreTheItems, IsItsItems
  <2>2. InStep' =>
         \A k \in DOMAIN pieces' : \A p \in pieces'[k].from .. pieces'[k].to :
           \/ IsText(p)' \/ GluedAt(p)'
           \/ IsMeta(p)' /\ pieces'[k].type # "word"
    BY <1>1, <1>6, SameLine
  <2>3. QED
    BY <2>1, <2>2 DEF SplitsIntoWords
<1>11. Places'
  BY <1>1, <1>2 DEF Places
<1>12. pieces' \in Seq(Joint')
  BY <1>1, <1>3, SameSees
<1>13. QED
  BY <1>1, <1>8, <1>9, <1>10, <1>11, <1>12 DEF LInv

(* A step of others. *)
LEMMA LexerWaits ==
  ASSUME LInv, UNCHANGED lexerVars, status' \in Nat
  PROVE  LInv'
<1>1. /\ line' = line /\ value' = value /\ start' = start /\ end' = end
      /\ pieces' = pieces /\ pc' = pc
  BY DEF lexerVars
<1>2. Places'
  BY <1>1, SameLine, SameMeaning DEF LInv, Places
<1>3. pc = "scan" =>
       /\ InOrder(pieces, start)'
       /\ InStep' => Sees(pieces, start, end)'
       /\ Ordinary' => Sorts(pieces, start, end)'
  BY <1>1, SameLine, SameMeaning, SameSees DEF LInv
<1>4. pc = "join" =>
       /\ InOrder(pieces, Len(line) + 1)'
       /\ InStep' => Meaning(pieces, Len(line) + 1)'
       /\ Ordinary' => AreItems(pieces, Len(line) + 1)'
  BY <1>1, SameLine, SameMeaning DEF LInv
<1>5. LexerTypeOK => LexerTypeOK'
  BY <1>1 DEF LexerTypeOK
<1>6. QuotedIsText' <=> QuotedIsText
  BY <1>1, SameLine DEF QuotedIsText
<1>7. IsItsItems' <=> IsItsItems
  BY <1>1, SameLine DEF IsItsItems
<1>8. SplitsIntoWords' <=> SplitsIntoWords
  BY <1>1, <1>7, SameLine DEF SplitsIntoWords
<1>9. QED
  BY <1>1, <1>2, <1>3, <1>4, <1>5, <1>6, <1>8, SameSees DEF LInv

(* A line that was read. *)
AtFirstCharacter ==
  /\ line \in Lines /\ value \in ValuesOf(line) /\ start = 1 /\ end = 1
  /\ pieces = <<>> /\ status \in Nat /\ pc = "check"

LEMMA LexerStarts == LexerInit => AtFirstCharacter
BY StatusesAssumption DEF LexerInit, AtFirstCharacter

LEMMA FirstLInv == AtFirstCharacter => LInv
<1> SUFFICES ASSUME AtFirstCharacter PROVE LInv
  OBVIOUS
<1>1. /\ line \in Lines /\ value \in ValuesOf(line) /\ start = 1 /\ end = 1
      /\ pieces = <<>> /\ status \in Nat /\ pc = "check"
  BY DEF AtFirstCharacter
<1>2. Len(line) \in Nat /\ Len(line) > 0
  BY <1>1, LineFacts
<1>3. Places
  BY <1>1, <1>2 DEF Places
<1>4. QED
  BY <1>1, <1>3 DEF LInv

LEMMA LexerSteps ==
  ASSUME LInv, [LexerNext]_<<lexerVars, status>>
  PROVE  LInv'
<1>1. CASE Unclosed
  BY <1>1, UnclosedStep
<1>2. CASE Closed
  BY <1>2, ClosedStep
<1>3. CASE HandleDollar
  BY <1>3, DollarStep
<1>4. CASE HandleStatus
  BY <1>4, StatusStep
<1>5. CASE HandleLoneDollar
  BY <1>5, LoneDollarStep
<1>6. CASE HandleSpecialeToken
  BY <1>6, OperatorStep
<1>7. CASE HandleSpecialQuot
  BY <1>7, QuoteStep
<1>8. CASE HandleWhiteSpaces
  BY <1>8, BlanksStep
<1>9. CASE OtherCharacter
  BY <1>9, OtherStep
<1>10. CASE EndOfLine
  BY <1>10, EndStep
<1>11. CASE JoinNodes
  BY <1>11, JoinNodesStep
<1>12. CASE UNCHANGED <<lexerVars, status>>
  <2>1. status' \in Nat
    BY <1>12 DEF LInv, Places
  <2>2. QED
    BY <1>12, <2>1, LexerWaits
<1>13. QED
  BY <1>1, <1>2, <1>3, <1>4, <1>5, <1>6, <1>7, <1>8, <1>9, <1>10, <1>11, <1>12
     DEF LexerNext, Lex, Done

LEMMA LInvImplies ==
  ASSUME LInv
  PROVE  LexerTypeOK /\ QuotedIsText /\ SplitsIntoWords
<1>1. /\ line \in Lines /\ value \in ValuesOf(line) /\ status \in Nat
      /\ pc \in {"check", "scan", "join", "done"}
      /\ start \in 1 .. Len(line) + 1 /\ end \in start .. Len(line) + 2
      /\ DOMAIN line = 1 .. Len(line)
  BY LineFacts DEF LInv, Places
<1>2. CASE pc = "done"
  BY <1>2 DEF LInv
<1>3. CASE pc # "done"
  <2>1. pieces \in Seq(Piece)
    BY <1>3 DEF LInv, Places
  <2>2. \A k \in DOMAIN pieces : pieces[k] \in Piece
    BY <2>1
  <2>3. LexerTypeOK
    BY <1>1, <2>2, PieceFacts DEF LexerTypeOK
  <2>4. SplitsIntoWords
    BY <1>3 DEF SplitsIntoWords
  <2>5. QuotedIsText
    <3>1. CASE pc = "join"
      <4>1. InStep => Meaning(pieces, Len(line) + 1)
        BY <3>1 DEF LInv
      <4>2. QED
        BY <1>3, <4>1 DEF QuotedIsText, Meaning, OperatorHas
    <3>2. CASE pc # "join"
      BY <1>3, <3>2 DEF QuotedIsText
    <3>3. QED
      BY <3>1, <3>2
  <2>6. QED
    BY <2>3, <2>4, <2>5
<1>4. QED
  BY <1>2, <1>3

(* The invariant of the lexer. *)
LEMMA LexerInvariance == LexerSpec => []LInv
<1>1. LexerInit => LInv
  BY LexerStarts, FirstLInv
<1>2. LInv /\ [LexerNext]_<<lexerVars, status>> => LInv'
  BY LexerSteps
<1>3. QED
  BY <1>1, <1>2, PTL DEF LexerSpec

(***************************************************************************)
(* tokenize stays in the line, and each token is of characters of it.      *)
(***************************************************************************)
THEOREM LexerTypes == LexerSpec => []LexerTypeOK
<1>1. LInv => LexerTypeOK
  BY LInvImplies
<1>2. QED
  BY <1>1, LexerInvariance, PTL

(***************************************************************************)
(* In a line of any length no operator token lies within quotes, unless a  *)
(* quote opens right behind a $? (handle_special_quot, and what            *)
(* handle_dollar jumps over).                                              *)
(***************************************************************************)
THEOREM WhatIsQuotedIsText == LexerSpec => []QuotedIsText
<1>1. LInv => QuotedIsText
  BY LInvImplies
<1>2. QED
  BY <1>1, LexerInvariance, PTL

(***************************************************************************)
(* A line of any length whose dollars begin variables of one word becomes  *)
(* its words and operators, in their order (tokenize, mix, join_nodes);    *)
(* in any line whose quotes the scan sees words are glued only behind a $? *)
(* and behind a value that was split.                                      *)
(***************************************************************************)
THEOREM TheLineIsItsWords == LexerSpec => []SplitsIntoWords
<1>1. LInv => SplitsIntoWords
  BY LInvImplies
<1>2. QED
  BY <1>1, LexerInvariance, PTL

-----------------------------------------------------------------------------
(***************************************************************************)
(* Both together.  What else is known of the pieces of a line: in an       *)
(* ordinary one each operator has the type its characters say and nothing  *)
(* expands to nothing; and a dollar is only the first character of the     *)
(* piece that is read.                                                     *)
(***************************************************************************)
Typed(t) ==
  /\ ~t.found
  /\ t.type # "word" => t.type = GetTokenType(t.from, t.to + 1)

AreTyped(t) == \A k \in DOMAIN t : Typed(t[k])

PiecesInv ==
  /\ Ordinary => AreTyped(pieces)
  /\ pc = "scan" => \A p \in start + 1 .. end - 1 : At(p) # "$"
  /\ pc = "done" /\ pieces # <<>> => IsClosedQuotes

LEMMA AppendTyped ==
  ASSUME NEW toks \in Seq(Piece), AreTyped(toks), NEW t \in Piece, Typed(t)
  PROVE  AreTyped(Append(toks, t))
<1>1. /\ DOMAIN Append(toks, t) = 1 .. Len(toks) + 1 /\ Len(toks) \in Nat
      /\ DOMAIN toks = 1 .. Len(toks)
      /\ \A k \in 1 .. Len(toks) : Append(toks, t)[k] = toks[k]
      /\ Append(toks, t)[Len(toks) + 1] = t
  BY AppendFacts
<1>2. \A k \in 1 .. Len(toks) + 1 : k \in 1 .. Len(toks) \/ k = Len(toks) + 1
  BY <1>1
<1>3. QED
  BY <1>1, <1>2, Zenon DEF AreTyped

LEMMA NotJoinedTyped ==
  ASSUME NEW toks \in Seq(Piece), AreTyped(toks)
  PROVE  AreTyped(NotJoined(toks))
<1>1. CASE toks = <<>>
  BY <1>1 DEF NotJoined
<1>2. CASE toks # <<>>
  <2> DEFINE n == Len(toks)
             t == [toks[n] EXCEPT !.info = FALSE]
  <2>1. n \in Nat /\ n > 0 /\ toks[n] \in Piece /\ DOMAIN toks = 1 .. n
    BY <1>2
  <2>2. t.from = toks[n].from /\ t.to = toks[n].to
        /\ t.type = toks[n].type /\ t.found = toks[n].found
    <3>1. toks[n] \in Piece
      BY <2>1
    <3> HIDE DEF n
    <3>2. QED
      BY <3>1 DEF Piece
  <2>3. NotJoined(toks) = [toks EXCEPT ![n] = t]
    BY <1>2 DEF NotJoined
  <2> HIDE DEF t
  <2>4. /\ DOMAIN NotJoined(toks) = 1 .. n
        /\ \A k \in 1 .. n : NotJoined(toks)[k] = IF k = n THEN t ELSE toks[k]
    BY <2>1, <2>3
  <2>5. Typed(toks[n])
    BY <2>1 DEF AreTyped
  <2>6. Typed(t)
    BY <2>2, <2>5 DEF Typed
  <2>7. QED
    BY <2>1, <2>4, <2>6 DEF AreTyped
<1>3. QED
  BY <1>1, <1>2

LEMMA TypedPiece ==
  ASSUME line \in Lines,
         NEW s \in 1 .. Len(line), NEW e \in s + 1 .. Len(line) + 1,
         NEW x, x = "word" \/ x = GetTokenType(s, e),
         NEW j \in BOOLEAN, NEW toks \in Seq(Piece), AreTyped(toks)
  PROVE  /\ Append(toks, NewToken(s, e, x, j, FALSE)) \in Seq(Piece)
         /\ AreTyped(Append(toks, NewToken(s, e, x, j, FALSE)))
<1> DEFINE t == NewToken(s, e, x, j, FALSE)
<1>1. x \in Types
  BY TokenTypes DEF Types
<1>2. t \in Piece
  BY <1>1, PieceMade DEF IsFrom
<1>3. Len(line) \in Nat /\ (e - 1) + 1 = e
  BY LineFacts
<1>4. Typed(t)
  BY <1>3 DEF Typed, NewToken
<1> HIDE DEF t
<1>5. QED
  BY <1>2, <1>4, AppendTyped, AppendFacts DEF t

LEMMA WordTokenTyped ==
  ASSUME line \in Lines, value \in ValuesOf(line), OneWordEach,
         NEW toks \in Seq(Piece), AreTyped(toks),
         NEW s \in 1 .. Len(line) + 1, NEW e \in Nat,
         e <= Len(line) + 1 \/ s > Len(line)
  PROVE  AreTyped(HandleWordToken(toks, s, e))
<1>1. Len(line) \in Nat
  BY LineFacts
<1>2. CASE e <= s \/ s > Len(line)
  BY <1>2, NothingAdded
<1>3. CASE ~(e <= s \/ s > Len(line))
  <2>1. s \in 1 .. Len(line) /\ e \in s + 1 .. Len(line) + 1 /\ Mix(e) \in BOOLEAN
    BY <1>1, <1>3 DEF Mix
  <2>2. /\ AreTyped(Append(toks, NewToken(s, e, "word", Mix(e), FALSE)))
        /\ AreTyped(Append(toks, NewToken(s, e, GetTokenType(s, e), Mix(e), FALSE)))
    BY <2>1, TypedPiece
  <2>3. ASSUME IsVariable(s, e)
        PROVE  ProcessValue(toks, s, e)
                 = Append(toks, NewToken(s, e, "word", Mix(e), FALSE))
    <3>1. value[s] = "word"
      BY <2>1, <2>3, WordValue
    <3>2. QED
      BY <3>1 DEF ProcessValue, OperatorTypes
  <2>4. CASE Space(s)
    <3>1. NotJoined(toks) \in Seq(Piece) /\ AreTyped(NotJoined(toks))
      BY NotJoinedFacts, NotJoinedTyped
    <3>2. CASE s + 1 = e
      <4>1. ProcessText(toks, s, e) = NotJoined(toks) \o <<>>
        BY <2>4, <3>2 DEF ProcessText, Space
      <4>2. NotJoined(toks) \o <<>> = NotJoined(toks)
        BY <3>1
      <4>3. QED
        BY <1>3, <2>2, <2>3, <3>1, <4>1, <4>2 DEF HandleWordToken
    <3>3. CASE s + 1 # e
      <4> DEFINE t == NewToken(s + 1, e, "word", TRUE, FALSE)
      <4>1. ProcessText(toks, s, e) = NotJoined(toks) \o <<t>>
        BY <2>4, <3>3 DEF ProcessText, Space
      <4>2. s + 1 \in 1 .. Len(line) /\ e \in (s + 1) + 1 .. Len(line) + 1
        BY <1>1, <2>1, <3>3
      <4>3. AreTyped(Append(NotJoined(toks), t))
        BY <3>1, <4>2, TypedPiece
      <4>4. t \in Piece
        BY <4>2, PieceMade DEF IsFrom, Types
      <4> HIDE DEF t
      <4>5. NotJoined(toks) \o <<t>> = Append(NotJoined(toks), t)
        BY <3>1, <4>4
      <4>6. QED
        BY <1>3, <2>2, <2>3, <4>1, <4>3, <4>5 DEF HandleWordToken
    <3>4. QED
      BY <3>2, <3>3
  <2>5. CASE ~Space(s)
    <3>1. ProcessText(toks, s, e)
            = Append(toks, NewToken(s, e, GetTokenType(s, e), Mix(e), FALSE))
      BY <2>5 DEF ProcessText, Space
    <3>2. QED
      BY <1>3, <2>2, <2>3, <3>1 DEF HandleWordToken
  <2>6. QED
    BY <2>4, <2>5
<1>4. QED
  BY <1>2, <1>3

LEMMA SameTyped ==
  ASSUME line' = line
  PROVE  \A t : AreTyped(t)' <=> AreTyped(t)
<1>1. \A s, e : GetTokenType(s, e)' = GetTokenType(s, e)
  BY DEF GetTokenType, At
<1>2. \A t : Typed(t)' <=> Typed(t)
  BY <1>1 DEF Typed
<1>3. QED
  BY <1>2 DEF AreTyped

(* The pieces of an ordinary line keep their types when one is read. *)
LEMMA ScanTyped ==
  ASSUME LInv, Lex, pc = "scan", Ordinary, AreTyped(pieces)
  PROVE  AreTyped(pieces')
<1> DEFINE h == HandleWordToken(pieces, start, end)
<1>1. /\ line \in Lines /\ value \in ValuesOf(line)
      /\ OneWordEach /\ Len(line) \in Nat
      /\ start \in 1 .. Len(line) + 1 /\ end \in start .. Len(line) + 2
      /\ end = Len(line) + 2 => start = Len(line) + 1
      /\ pieces \in Seq(Piece) /\ end \in Nat
  BY ScanFacts
<1>2. end <= Len(line) + 1 \/ start > Len(line)
  BY <1>1
<1>3. AreTyped(h)
  BY <1>1, <1>2, WordTokenTyped
<1>4. end <= Len(line) => h \in Seq(Piece) /\ end \in 1 .. Len(line) + 1
                          /\ end \in 1 .. Len(line)
  BY PieceAdded, <1>1
<1> HIDE DEF h
<1>5. ASSUME end <= Len(line), NEW b \in Nat, b <= Len(line) + 1
      PROVE  AreTyped(HandleWordToken(h, end, b))
  BY <1>1, <1>3, <1>4, <1>5, WordTokenTyped
<1>6. CASE HandleDollar
  <2> DEFINE b == Behind(end + 1, {"a"})
  <2>1. end <= Len(line) /\ pieces' = HandleWordToken(h, end, b)
    BY <1>6 DEF HandleDollar, Scans, h
  <2>2. b \in end + 1 .. Len(line) + 1
    <3>1. end + 1 \in 1 .. Len(line) + 1
      BY <1>1, <1>4, <2>1
    <3>2. QED
      BY <1>1, <3>1, BehindFacts
  <2> HIDE DEF b
  <2>3. b \in Nat /\ b <= Len(line) + 1
    BY <1>1, <2>2
  <2>4. QED
    BY <1>5, <2>1, <2>3
<1>7. CASE HandleStatus
  <2>1. /\ end <= Len(line) /\ At(end + 1) = "?"
        /\ pieces' = HandleWordToken(h, end, end + 2)
    BY <1>7 DEF HandleStatus, Scans, h
  <2>2. end + 1 \in 1 .. Len(line)
    BY <2>1, <1>1, LineFacts
  <2>3. end + 2 \in Nat /\ end + 2 <= Len(line) + 1
    BY <1>1, <2>2
  <2>4. QED
    BY <1>5, <2>1, <2>3
<1>8. CASE HandleLoneDollar \/ HandleWhiteSpaces \/ EndOfLine
  BY <1>3, <1>8 DEF HandleLoneDollar, HandleWhiteSpaces, EndOfLine, h
<1>9. CASE HandleSpecialeToken
  <2> DEFINE b == OperatorEnd(end)
  <2>1. /\ end <= Len(line) /\ At(end) \in Metas
        /\ pieces' = Append(NotJoined(h), NewToken(end, b, GetTokenType(end, b), FALSE, FALSE))
    BY <1>9 DEF HandleSpecialeToken, Scans, OperatorEnd, h
  <2>2. b \in end + 1 .. Len(line) + 1
    BY <1>1, <1>4, <2>1, OperatorFacts
  <2>3. NotJoined(h) \in Seq(Piece) /\ AreTyped(NotJoined(h))
    BY <1>3, <1>4, <2>1, NotJoinedFacts, NotJoinedTyped
  <2> HIDE DEF b
  <2>4. QED
    BY <1>1, <1>4, <2>1, <2>2, <2>3, TypedPiece
<1>10. CASE HandleSpecialQuot
  <2> DEFINE q == Behind(end + 1, Chars \ {At(end)})
             b == IF q <= Len(line) THEN q + 1 ELSE q
             g == BeforeQuote
  <2>1. /\ end <= Len(line) /\ At(end) \in Quotes
        /\ pieces' = HandleWordToken(g, end, b)
    BY <1>10 DEF HandleSpecialQuot, Scans
  <2>2. q \in end + 1 .. Len(line) + 1
    <3>1. end + 1 \in 1 .. Len(line) + 1
      BY <1>1, <1>4, <2>1
    <3>2. "NUL" \notin Chars \ {At(end)}
      BY DEF Chars, Quotes, Metas, Letters
    <3>3. QED
      BY <1>1, <3>1, <3>2, BehindFacts
  <2> HIDE DEF q
  <2>3. b \in Nat /\ b <= Len(line) + 1
    BY <1>1, <2>2
  <2> HIDE DEF b
  <2>4. g \in Seq(Piece)
    BY <1>10, <2>1, BeforeQuoteFacts
  <2>5. AreTyped(g)
    <3>1. g \in {pieces, HandleWordToken(pieces, start, end - 1), h}
      BY DEF BeforeQuote, h
    <3>2. end > start => end - 1 \in Nat
      BY <1>1
    <3>3. end > start => AreTyped(HandleWordToken(pieces, start, end - 1))
      <4>1. end - 1 <= Len(line) + 1
        BY <1>1
      <4>2. QED
        BY <1>1, <3>2, <4>1, WordTokenTyped
    <3>4. ~(end > start) => g \in {pieces, h}
      BY DEF BeforeQuote, h
    <3>5. QED
      BY <1>3, <3>1, <3>3, <3>4
  <2> HIDE DEF g
  <2>6. QED
    BY <1>1, <1>4, <2>1, <2>3, <2>4, <2>5, WordTokenTyped
<1>11. CASE OtherCharacter
  BY <1>11 DEF OtherCharacter
<1>12. ~Unclosed /\ ~Closed /\ ~JoinNodes
  BY DEF Unclosed, Closed, JoinNodes
<1>13. QED
  BY <1>6, <1>7, <1>8, <1>9, <1>10, <1>11, <1>12 DEF Lex

(* join_nodes: an operator is a node of its own. *)
LEMMA JoinTyped ==
  ASSUME LInv, JoinNodes, Ordinary, AreTyped(pieces)
  PROVE  AreTyped(pieces')
<1> DEFINE j == Joined[Len(pieces)]
<1>1. pc = "join" /\ pieces' = j
  BY DEF JoinNodes
<1> HIDE DEF j
<1>2. /\ line \in Lines /\ pieces \in Seq(Piece)
      /\ AreItems(pieces, Len(line) + 1)
  BY <1>1 DEF LInv, Places
<1>3. j \in Seq(Joint) /\ HasGrouping(j, Len(pieces))
  BY <1>2, JoinedSteps, JoinedGroups DEF j
<1>4. ASSUME NEW k \in 1 .. Len(j) PROVE Typed(j[k])
  <2>1. PICK f \in 1 .. Len(pieces), l \in 1 .. Len(pieces) : IsNodeOf(j[k], f, l)
    BY <1>2, <1>3, NodesOfGroups
  <2>2. Typed(pieces[f])
    BY <1>2 DEF AreTyped
  <2>3. /\ f <= l /\ j[k].from = pieces[f].from /\ j[k].to = pieces[l].to
        /\ j[k].type = pieces[f].type
    BY <1>2, <2>1, GroupFacts
  <2>4. j[k].found = pieces[f].found
    BY <2>1 DEF IsNodeOf, Node
  <2>5. pieces[f].type # "word" => f = l
    <3> SUFFICES ASSUME pieces[f].type # "word", f < l PROVE FALSE
      BY <2>3
    <3>1. f \in f .. l - 1
      OBVIOUS
    <3>2. pieces[f].info
      BY <2>1, <3>1 DEF IsNodeOf, IsGroup
    <3>3. QED
      BY <1>2, <3>2, ItemFacts
  <2>6. QED
    BY <2>2, <2>3, <2>4, <2>5 DEF Typed
<1>5. QED
  BY <1>1, <1>3, <1>4 DEF AreTyped

(* Only the first character of the piece that is read may be a dollar. *)
LEMMA NoDollarInside ==
  ASSUME LInv, PiecesInv, Lex, pc' = "scan"
  PROVE  \A p \in start' + 1 .. end' - 1 : At(p)' # "$"
<1>1. line' = line
  BY DEF Lex, Unclosed, Closed, HandleDollar, HandleStatus, HandleLoneDollar,
     HandleSpecialeToken, HandleSpecialQuot, HandleWhiteSpaces, OtherCharacter,
     EndOfLine, JoinNodes
<1>2. start \in Nat /\ end \in Nat
  BY LineFacts DEF LInv, Places
<1>3. \A p : At(p)' = At(p)
  BY <1>1 DEF At
<1>4. ASSUME NEW a \in Nat, start' = a, end' = a \/ end' = a + 1
      PROVE  start' + 1 .. end' - 1 = {}
  BY <1>4
<1>5. CASE Closed
  <2>1. start' = 1 /\ end' = 1
    BY <1>5 DEF Closed, LInv, Places
  <2>2. QED
    BY <1>4, <2>1
<1>6. CASE HandleDollar
  <2>1. start' = end' /\ end + 1 \in 1 .. Len(line) + 1 /\ line \in Lines
        /\ Len(line) \in Nat
        /\ start' = Behind(end + 1, {"a"})
    <3>1. pc = "scan" /\ end <= Len(line) /\ start' = end'
          /\ start' = Behind(end + 1, {"a"})
      BY <1>6 DEF HandleDollar, Scans
    <3>2. QED
      BY <1>2, <3>1, ScanFacts
  <2>2. start' \in Nat
    BY <2>1, BehindFacts
  <2>3. QED
    BY <1>4, <2>1, <2>2
<1>7. CASE HandleStatus
  <2>1. start' = end + 2 /\ end' = (end + 2) + 1
    BY <1>2, <1>7 DEF HandleStatus
  <2>2. QED
    BY <1>2, <1>4, <2>1
<1>8. CASE HandleLoneDollar
  BY <1>2, <1>4, <1>8 DEF HandleLoneDollar
<1>9. CASE HandleSpecialeToken
  <2>1. start' = end' /\ start' \in {end + 1, end + 2}
    BY <1>9 DEF HandleSpecialeToken
  <2>2. start' \in Nat
    BY <1>2, <2>1
  <2>3. QED
    BY <1>4, <2>1, <2>2
<1>10. CASE HandleSpecialQuot
  <2> DEFINE q == Behind(end + 1, Chars \ {At(end)})
  <2>1. pc = "scan" /\ end <= Len(line) /\ start' = end'
        /\ start' \in {q, q + 1}
    BY <1>10 DEF HandleSpecialQuot, Scans
  <2>2. end + 1 \in 1 .. Len(line) + 1 /\ line \in Lines /\ Len(line) \in Nat
    BY <1>2, <2>1, ScanFacts
  <2>3. "NUL" \notin Chars \ {At(end)}
    BY DEF Chars, Quotes, Metas, Letters
  <2>4. q \in Nat
    BY <2>2, <2>3, BehindFacts
  <2> HIDE DEF q
  <2>5. start' \in Nat
    BY <2>1, <2>4
  <2>6. QED
    BY <1>4, <2>1, <2>5
<1>11. CASE HandleWhiteSpaces
  <2>1. pc = "scan" /\ end <= Len(line) /\ start' = end'
        /\ start' = BlankEnd(end)
    BY <1>11 DEF HandleWhiteSpaces, Scans, BlankEnd
  <2>2. end \in 1 .. Len(line) + 1 /\ line \in Lines /\ Len(line) \in Nat
    BY <1>2, <2>1, ScanFacts
  <2>3. BlankEnd(end) \in Nat
    <3>1. "NUL" \notin {" "}
      OBVIOUS
    <3>2. BlankEnd(end) \in end .. Len(line) + 1
      BY <2>2, <3>1, BehindFacts DEF BlankEnd
    <3>3. QED
      BY <2>2, <3>2
  <2>4. QED
    BY <1>4, <2>1, <2>3
<1>12. CASE OtherCharacter
  <2>1. pc = "scan" /\ start' = start /\ end' = end + 1 /\ At(end) \in Letters
    BY <1>12 DEF OtherCharacter, Scans
  <2>2. \A p \in start + 1 .. (end + 1) - 1 : p \in start + 1 .. end - 1 \/ p = end
    BY <1>2
  <2>3. \A p \in start + 1 .. (end + 1) - 1 : At(p) # "$"
    BY <2>1, <2>2 DEF PiecesInv, Letters
  <2>4. QED
    BY <1>3, <2>1, <2>3
<1>13. ~Unclosed /\ ~EndOfLine /\ ~JoinNodes
  BY DEF Unclosed, EndOfLine, JoinNodes
<1>14. QED
  BY <1>5, <1>6, <1>7, <1>8, <1>9, <1>10, <1>11, <1>12, <1>13 DEF Lex

LEMMA PiecesStep ==
  ASSUME LInv, PiecesInv, Lex
  PROVE  PiecesInv'
<1>1. line' = line /\ value' = value
  BY DEF Lex, Unclosed, Closed, HandleDollar, HandleStatus, HandleLoneDollar,
     HandleSpecialeToken, HandleSpecialQuot, HandleWhiteSpaces, OtherCharacter,
     EndOfLine, JoinNodes
<1>2. ASSUME Ordinary PROVE AreTyped(pieces')
  <2>1. AreTyped(pieces)
    BY <1>2 DEF PiecesInv
  <2>2. CASE pc = "scan"
    BY <1>2, <2>1, <2>2, ScanTyped
  <2>3. CASE JoinNodes
    BY <1>2, <2>1, <2>3, JoinTyped
  <2>4. CASE Unclosed \/ Closed
    BY <2>1, <2>4 DEF Unclosed, Closed
  <2>5. QED
    BY <2>2, <2>3, <2>4 DEF Lex, HandleDollar, HandleStatus, HandleLoneDollar,
       HandleSpecialeToken, HandleSpecialQuot, HandleWhiteSpaces, OtherCharacter,
       EndOfLine, Scans
<1>3. Ordinary' => AreTyped(pieces)'
  BY <1>1, <1>2, SameLine, SameTyped
<1>4. pc' = "scan" => \A p \in start' + 1 .. end' - 1 : At(p)' # "$"
  BY NoDollarInside
<1>5. ASSUME pc' = "done", pieces' # <<>> PROVE IsClosedQuotes'
  <2>1. CASE Unclosed
    BY <1>5, <2>1 DEF Unclosed, LInv, Places
  <2>2. CASE JoinNodes
    <3>1. IsClosedQuotes
      BY <2>2 DEF JoinNodes, LInv, Places
    <3>2. QED
      BY <1>1, <3>1, SameLine
  <2>3. QED
    BY <1>5, <2>1, <2>2 DEF Lex, Closed, HandleDollar, HandleStatus, HandleLoneDollar,
       HandleSpecialeToken, HandleSpecialQuot, HandleWhiteSpaces, OtherCharacter,
       EndOfLine, Scans
<1>6. QED
  BY <1>3, <1>4, <1>5 DEF PiecesInv

-----------------------------------------------------------------------------
(***************************************************************************)
(* The pieces h are the pieces t and others behind them, and b says        *)
(* whether a $? is among the others.                                       *)
(***************************************************************************)
StatusAt(h, k) == IsStatusWord(h[k].from, h[k].to + 1)

Extends(t, h, b) ==
  /\ h \in Seq(Piece) /\ Len(t) <= Len(h)
  /\ \A k \in 1 .. Len(t) : h[k].from = t[k].from /\ h[k].to = t[k].to
  /\ b <=> \E k \in Len(t) + 1 .. Len(h) : StatusAt(h, k)

LEMMA ExtendsNothing ==
  ASSUME NEW t \in Seq(Piece)
  PROVE  Extends(t, t, FALSE) /\ Extends(t, NotJoined(t), FALSE)
<1>1. Len(t) \in Nat
  OBVIOUS
<1>2. \A k \in Len(t) + 1 .. Len(t) : FALSE
  BY <1>1
<1>3. /\ NotJoined(t) \in Seq(Piece) /\ Len(NotJoined(t)) = Len(t)
      /\ \A k \in 1 .. Len(t) : /\ NotJoined(t)[k].from = t[k].from
                                /\ NotJoined(t)[k].to = t[k].to
  BY NotJoinedFacts
<1>4. QED
  BY <1>1, <1>2, <1>3 DEF Extends

LEMMA ExtendsOne ==
  ASSUME NEW t \in Seq(Piece), NEW x \in Piece, NEW b,
         b <=> IsStatusWord(x.from, x.to + 1)
  PROVE  Extends(t, Append(t, x), b)
<1> DEFINE h == Append(t, x)
           n == Len(t)
<1>1. /\ h \in Seq(Piece) /\ n \in Nat /\ Len(h) = n + 1
      /\ \A k \in 1 .. n : h[k] = t[k]
      /\ h[n + 1] = x
  BY AppendFacts
<1> HIDE DEF h
<1>2. \A k \in n + 1 .. n + 1 : k = n + 1
  BY <1>1
<1>3. n + 1 \in n + 1 .. n + 1
  BY <1>1
<1>4. StatusAt(h, n + 1) <=> b
  BY <1>1 DEF StatusAt
<1>5. b <=> \E k \in n + 1 .. n + 1 : StatusAt(h, k)
  BY <1>2, <1>3, <1>4
<1>6. n <= n + 1
  BY <1>1
<1>7. QED
  BY <1>1, <1>5, <1>6 DEF Extends, h

LEMMA ExtendsBoth ==
  ASSUME NEW t, Len(t) \in Nat, NEW h, NEW g, NEW b, NEW c,
         Extends(t, h, b), Extends(h, g, c)
  PROVE  Extends(t, g, b \/ c)
<1>1. /\ h \in Seq(Piece) /\ g \in Seq(Piece) /\ Len(h) \in Nat /\ Len(g) \in Nat
      /\ Len(t) <= Len(h) /\ Len(h) <= Len(g)
  BY DEF Extends
<1>2. /\ \A k \in 1 .. Len(t) : h[k].from = t[k].from /\ h[k].to = t[k].to
      /\ \A k \in 1 .. Len(h) : g[k].from = h[k].from /\ g[k].to = h[k].to
  BY DEF Extends
<1>3. \A k \in 1 .. Len(h) : StatusAt(g, k) <=> StatusAt(h, k)
  BY <1>2 DEF StatusAt
<1>4. /\ b <=> \E k \in Len(t) + 1 .. Len(h) : StatusAt(h, k)
      /\ c <=> \E k \in Len(h) + 1 .. Len(g) : StatusAt(g, k)
  BY DEF Extends
<1>5. \A k : k \in Len(t) + 1 .. Len(g) <=>
               k \in Len(t) + 1 .. Len(h) \/ k \in Len(h) + 1 .. Len(g)
  BY <1>1
<1>6. \A k : k \in Len(t) + 1 .. Len(h) => k \in 1 .. Len(h)
  BY <1>1
<1>7. (b \/ c) <=> \E k \in Len(t) + 1 .. Len(g) : StatusAt(g, k)
  BY <1>3, <1>4, <1>5, <1>6
<1>8. \A k \in 1 .. Len(t) : k \in 1 .. Len(h)
  BY <1>1
<1>9. \A k \in 1 .. Len(t) : g[k].from = t[k].from /\ g[k].to = t[k].to
  BY <1>2, <1>8
<1>10. Len(t) <= Len(g)
  BY <1>1
<1>11. QED
  BY <1>1, <1>7, <1>9, <1>10 DEF Extends

(* handle_word_token adds a piece for a $? exactly when it reads one. *)
LEMMA WordTokenExtends ==
  ASSUME line \in Lines, value \in ValuesOf(line),
         NEW toks \in Seq(Piece),
         NEW s \in 1 .. Len(line) + 1, NEW e \in Nat,
         e <= Len(line) + 1 \/ s > Len(line),
         Space(s) => \A p \in s + 1 .. e - 1 : At(p) # "$"
  PROVE  Extends(toks, HandleWordToken(toks, s, e), e > s /\ IsStatusWord(s, e))
<1> DEFINE h == HandleWordToken(toks, s, e)
           b == e > s /\ IsStatusWord(s, e)
<1>1. Len(line) \in Nat /\ s \in Nat /\ (e - 1) + 1 = e
  BY LineFacts
<1>2. Len(toks) \in Nat
  OBVIOUS
<1>3. CASE e <= s \/ s > Len(line)
  <2>1. h = toks
    BY <1>3, NothingAdded
  <2>2. s > Len(line) => At(s) = "NUL"
    BY <1>1, LineFacts
  <2>3. ~b
    BY <1>1, <1>3, <2>2 DEF IsStatusWord
  <2>4. QED
    BY <2>1, <2>3, ExtendsNothing DEF Extends
<1>4. CASE ~(e <= s \/ s > Len(line))
  <2>1. s \in 1 .. Len(line) /\ e \in s + 1 .. Len(line) + 1 /\ e > s
    BY <1>1, <1>4
  <2>2. Adds(toks, s, e, h)
    BY <2>1, WordTokenAdds
  <2> HIDE DEF h
  <2>3. IsVariable(s, e) => ~b
    BY DEF IsVariable, IsStatusWord
  <2>4. CASE AddsPiece(toks, s, e, h)
    <3>1. PICK t \in Piece : h = Append(toks, t) /\ t.from = s /\ t.to = e - 1
      BY <2>4 DEF AddsPiece, IsFrom
    <3>2. b <=> IsStatusWord(t.from, t.to + 1)
      BY <1>1, <2>1, <3>1
    <3>3. QED
      BY <3>1, <3>2, ExtendsOne DEF h
  <2>5. CASE AddsWords(toks, s, e, h)
    <3>1. PICK t \in Piece, u \in Piece :
            /\ h = Append(Append(toks, t), u) /\ IsVariable(s, e)
            /\ t.from = s /\ t.to = e - 1 /\ u.from = s /\ u.to = e - 1
      BY <2>5 DEF AddsWords, IsFrom
    <3>2. ~b /\ ~IsStatusWord(t.from, t.to + 1) /\ ~IsStatusWord(u.from, u.to + 1)
      BY <1>1, <2>1, <2>3, <3>1
    <3>3. /\ Extends(toks, Append(toks, t), FALSE) /\ Append(toks, t) \in Seq(Piece)
          /\ Len(toks) \in Nat
      BY <3>2, ExtendsOne, AppendFacts
    <3>4. Extends(Append(toks, t), h, FALSE)
      BY <3>1, <3>2, <3>3, ExtendsOne
    <3>5. Extends(toks, h, FALSE \/ FALSE)
      BY <3>3, <3>4, ExtendsBoth
    <3>6. QED
      BY <3>2, <3>5 DEF Extends, h
  <2>6. CASE AddsLed(toks, s, e, h)
    <3>1. PICK t \in Piece :
            /\ h = Append(NotJoined(toks), t) /\ IsVariable(s, e)
            /\ t.from = s /\ t.to = e - 1
      BY <2>6 DEF AddsLed, IsFrom
    <3>2. ~b /\ ~IsStatusWord(t.from, t.to + 1)
      BY <1>1, <2>1, <2>3, <3>1
    <3>3. /\ Extends(toks, NotJoined(toks), FALSE) /\ NotJoined(toks) \in Seq(Piece)
          /\ Len(toks) \in Nat
      BY <1>2, ExtendsNothing, NotJoinedFacts
    <3>4. Extends(NotJoined(toks), h, FALSE)
      BY <3>1, <3>2, <3>3, ExtendsOne
    <3>5. Extends(toks, h, FALSE \/ FALSE)
      BY <3>3, <3>4, ExtendsBoth
    <3>6. QED
      BY <3>2, <3>5 DEF Extends, h
  <2>7. CASE AddsBehindBlank(toks, s, e, h)
    <3>1. Space(s) /\ ~b
      BY <2>7 DEF AddsBehindBlank, Space, IsStatusWord
    <3>2. CASE h = NotJoined(toks)
      BY <3>1, <3>2, ExtendsNothing DEF Extends, h
    <3>3. CASE h # NotJoined(toks)
      <4>1. PICK t \in Piece :
              /\ h = Append(NotJoined(toks), t) /\ s + 1 < e
              /\ t.from = s + 1 /\ t.to = e - 1
        BY <2>7, <3>3 DEF AddsBehindBlank, IsFrom
      <4>2. s + 1 \in s + 1 .. e - 1
        BY <1>1, <4>1
      <4>3. ~IsStatusWord(t.from, t.to + 1)
        BY <3>1, <4>1, <4>2 DEF IsStatusWord
      <4>4. /\ Extends(toks, NotJoined(toks), FALSE) /\ NotJoined(toks) \in Seq(Piece)
            /\ Len(toks) \in Nat
        BY <1>2, ExtendsNothing, NotJoinedFacts
      <4>5. Extends(NotJoined(toks), h, FALSE)
        BY <4>1, <4>3, <4>4, ExtendsOne
      <4>6. Extends(toks, h, FALSE \/ FALSE)
        BY <4>4, <4>5, ExtendsBoth
      <4>7. QED
        BY <3>1, <4>6 DEF Extends, h
    <3>4. QED
      BY <3>2, <3>3
  <2>8. QED
    BY <2>2, <2>4, <2>5, <2>6, <2>7 DEF Adds
<1>5. QED
  BY <1>3, <1>4

(* A step of the scan clears the register exactly when it adds a $?. *)
LEMMA ScanStatus ==
  ASSUME LInv, PiecesInv, Lex, pc = "scan"
  PROVE  \E b \in BOOLEAN : /\ Extends(pieces, pieces', b)
                            /\ status' = IF b THEN 0 ELSE status
<1> DEFINE h == HandleWordToken(pieces, start, end)
           c == end > start /\ IsStatusWord(start, end)
<1>1. /\ line \in Lines /\ value \in ValuesOf(line) /\ Len(line) \in Nat
      /\ start \in 1 .. Len(line) + 1 /\ end \in start .. Len(line) + 2
      /\ end = Len(line) + 2 => start = Len(line) + 1
      /\ pieces \in Seq(Piece) /\ start \in Nat /\ end \in Nat
  BY ScanFacts
<1>2. end <= Len(line) + 1 \/ start > Len(line)
  BY <1>1
<1>3. \A p \in start + 1 .. end - 1 : At(p) # "$"
  BY DEF PiecesInv
<1>4. Extends(pieces, h, c)
  BY <1>1, <1>2, <1>3, WordTokenExtends
<1>5. h \in Seq(Piece) /\ Len(pieces) \in Nat /\ c \in BOOLEAN
  BY <1>1, <1>4 DEF Extends
<1>6. StatusAfter(start, end) = IF c THEN 0 ELSE status
  BY DEF StatusAfter
<1>7. end <= Len(line) => end \in 1 .. Len(line) + 1 /\ end \in 1 .. Len(line)
  BY <1>1
<1> HIDE DEF h, c
<1>8. CASE HandleDollar
  <2> DEFINE b == Behind(end + 1, {"a"})
  <2>1. /\ end <= Len(line) /\ pieces' = HandleWordToken(h, end, b)
        /\ At(end) = "$" /\ At(end + 1) = "a"
        /\ status' = StatusAfter(start, end)
    BY <1>8 DEF HandleDollar, Scans, h
  <2>2. b \in end + 1 .. Len(line) + 1
    <3>1. end + 1 \in 1 .. Len(line) + 1
      BY <1>1, <1>7, <2>1
    <3>2. QED
      BY <1>1, <3>1, BehindFacts
  <2> HIDE DEF b
  <2>3. b \in Nat /\ b <= Len(line) + 1
    BY <1>1, <2>2
  <2>4. ~Space(end) /\ ~IsStatusWord(end, b)
    BY <2>1 DEF Space, IsStatusWord
  <2>5. Extends(h, HandleWordToken(h, end, b), b > end /\ IsStatusWord(end, b))
    BY <1>1, <1>5, <1>7, <2>1, <2>3, <2>4, WordTokenExtends
  <2>6. Extends(h, pieces', FALSE)
    BY <2>1, <2>4, <2>5 DEF Extends
  <2>7. Extends(pieces, pieces', c \/ FALSE)
    BY <1>4, <1>5, <2>6, ExtendsBoth
  <2>8. Extends(pieces, pieces', c)
    BY <2>7 DEF Extends
  <2>9. QED
    BY <1>5, <1>6, <2>1, <2>8
<1>9. CASE HandleStatus
  <2>1. /\ end <= Len(line) /\ At(end) = "$" /\ At(end + 1) = "?"
        /\ pieces' = HandleWordToken(h, end, end + 2)
        /\ status' = 0
    BY <1>9 DEF HandleStatus, Scans, h
  <2>2. end + 1 \in 1 .. Len(line)
    BY <2>1, <1>1, LineFacts
  <2>3. end + 2 \in Nat /\ end + 2 <= Len(line) + 1 /\ end + 2 > end /\ end + 1 < end + 2
    BY <1>1, <2>2
  <2>4. ~Space(end) /\ IsStatusWord(end, end + 2)
    BY <2>1, <2>3 DEF Space, IsStatusWord
  <2>5. Extends(h, HandleWordToken(h, end, end + 2),
                end + 2 > end /\ IsStatusWord(end, end + 2))
    BY <1>1, <1>5, <1>7, <2>1, <2>3, <2>4, WordTokenExtends
  <2>6. Extends(h, pieces', TRUE)
    BY <2>1, <2>3, <2>4, <2>5 DEF Extends
  <2>7. Extends(pieces, pieces', c \/ TRUE)
    BY <1>4, <1>5, <2>6, ExtendsBoth
  <2>8. Extends(pieces, pieces', TRUE)
    BY <2>7 DEF Extends
  <2>9. QED
    BY <2>1, <2>8
<1>10. CASE HandleLoneDollar \/ HandleWhiteSpaces \/ EndOfLine
  <2>1. pieces' = h /\ status' = StatusAfter(start, end)
    BY <1>10 DEF HandleLoneDollar, HandleWhiteSpaces, EndOfLine, h
  <2>2. QED
    BY <1>4, <1>5, <1>6, <2>1
<1>11. CASE HandleSpecialeToken
  <2>1. /\ end <= Len(line) /\ At(end) \in Metas
        /\ pieces' = WithOperator(h, end)
        /\ status' = StatusAfter(start, end)
    BY <1>11 DEF HandleSpecialeToken, Scans, OperatorEnd, WithOperator, h
  <2>2. PICK t \in Piece : t.from = end /\ pieces' = Append(NotJoined(h), t)
    BY <1>1, <1>5, <1>7, <2>1, OperatorPiece DEF IsFrom
  <2>3. ~IsStatusWord(t.from, t.to + 1)
    BY <2>1, <2>2 DEF IsStatusWord, Metas
  <2>4. /\ Extends(h, NotJoined(h), FALSE) /\ NotJoined(h) \in Seq(Piece)
    BY <1>5, ExtendsNothing, NotJoinedFacts
  <2>5. Extends(NotJoined(h), pieces', FALSE)
    BY <2>2, <2>3, <2>4, ExtendsOne
  <2> DEFINE g == NotJoined(h)
  <2>6. Extends(h, g, FALSE) /\ Extends(g, pieces', FALSE) /\ Len(h) \in Nat
    <3>1. Len(h) \in Nat
      BY <1>5
    <3>2. Extends(h, g, FALSE) /\ Extends(g, pieces', FALSE)
      BY <2>4, <2>5, Zenon
    <3>3. QED
      BY <3>1, <3>2
  <2> HIDE DEF g
  <2>7. Extends(pieces, pieces', c \/ FALSE)
    <3>1. Extends(h, pieces', FALSE \/ FALSE)
      BY <2>6, ExtendsBoth
    <3>2. Extends(h, pieces', FALSE)
      BY <3>1
    <3>3. QED
      BY <1>4, <1>5, <3>2, ExtendsBoth
  <2>8. Extends(pieces, pieces', c)
    BY <2>7 DEF Extends
  <2>9. QED
    BY <1>5, <1>6, <2>1, <2>8
<1>12. CASE HandleSpecialQuot
  <2> DEFINE q == Behind(end + 1, Chars \ {At(end)})
             b == IF q <= Len(line) THEN q + 1 ELSE q
             g == BeforeQuote
  <2>1. /\ end <= Len(line) /\ At(end) \in Quotes
        /\ pieces' = HandleWordToken(g, end, b)
        /\ status' = IF At(start) = "$" THEN status ELSE StatusAfter(start, end)
    BY <1>12 DEF HandleSpecialQuot, Scans
  <2>2. q \in end + 1 .. Len(line) + 1
    <3>1. end + 1 \in 1 .. Len(line) + 1
      BY <1>1, <1>7, <2>1
    <3>2. "NUL" \notin Chars \ {At(end)}
      BY DEF Chars, Quotes, Metas, Letters
    <3>3. QED
      BY <1>1, <3>1, <3>2, BehindFacts
  <2> HIDE DEF q
  <2>3. b \in Nat /\ b <= Len(line) + 1
    BY <1>1, <2>2
  <2> HIDE DEF b
  <2>4. status' = status
    BY <2>1 DEF StatusAfter, IsStatusWord
  <2>5. Extends(pieces, g, FALSE) /\ g \in Seq(Piece)
    <3>1. CASE At(start) = "$"
      BY <1>1, <3>1, ExtendsNothing DEF BeforeQuote
    <3>2. CASE At(start) # "$" /\ At(end - 1) = "$" /\ end > start
      <4>1. g = HandleWordToken(pieces, start, end - 1)
        BY <3>2 DEF BeforeQuote
      <4>2. end - 1 \in Nat /\ end - 1 <= Len(line) + 1
        BY <1>1, <2>1, <3>2
      <4>3. \A p \in start + 1 .. (end - 1) - 1 : p \in start + 1 .. end - 1
        BY <1>1
      <4>4. \A p \in start + 1 .. (end - 1) - 1 : At(p) # "$"
        BY <1>3, <4>3
      <4>5. Extends(pieces, g, end - 1 > start /\ IsStatusWord(start, end - 1))
        BY <1>1, <4>1, <4>2, <4>4, WordTokenExtends
      <4>6. ~IsStatusWord(start, end - 1)
        BY <3>2 DEF IsStatusWord
      <4>7. QED
        BY <4>5, <4>6 DEF Extends
    <3>3. CASE At(start) # "$" /\ ~(At(end - 1) = "$" /\ end > start)
      <4>1. g = h
        BY <3>3 DEF BeforeQuote, h
      <4>2. ~c
        BY <3>3 DEF IsStatusWord, c
      <4>3. QED
        BY <1>4, <1>5, <4>1, <4>2 DEF Extends
    <3>4. QED
      BY <3>1, <3>2, <3>3
  <2> HIDE DEF g
  <2>6. ~Space(end) /\ ~IsStatusWord(end, b)
    BY <2>1 DEF Space, IsStatusWord, Quotes
  <2>7. Extends(g, HandleWordToken(g, end, b), b > end /\ IsStatusWord(end, b))
    BY <1>1, <1>7, <2>1, <2>3, <2>5, <2>6, WordTokenExtends
  <2>8. Extends(g, pieces', FALSE)
    BY <2>1, <2>6, <2>7 DEF Extends
  <2>9. Extends(pieces, pieces', FALSE \/ FALSE)
    BY <1>5, <2>5, <2>8, ExtendsBoth
  <2>10. Extends(pieces, pieces', FALSE)
    BY <2>9 DEF Extends
  <2>11. QED
    BY <2>4, <2>10
<1>13. CASE OtherCharacter
  <2>1. pieces' = pieces /\ status' = status
    BY <1>13 DEF OtherCharacter
  <2>2. Extends(pieces, pieces, FALSE)
    BY <1>1, ExtendsNothing
  <2>3. QED
    BY <2>1, <2>2
<1>14. ~Unclosed /\ ~Closed /\ ~JoinNodes
  BY DEF Unclosed, Closed, JoinNodes
<1>15. QED
  BY <1>8, <1>9, <1>10, <1>11, <1>12, <1>13, <1>14 DEF Lex

-----------------------------------------------------------------------------
(***************************************************************************)
(* The register and what is shown of it.  An entry of x is what the line   *)
(* before left, or 0 behind one that was read outside of quotes, or what   *)
(* an interrupt left.                                                      *)
(***************************************************************************)
Shown == [quoted : BOOLEAN, as : Nat]

ClearedIn(x, n) == \E h \in 1 .. n : ~x[h].quoted

Expected(cleared, quoted) ==
  IF cleared THEN 0 ELSE IF quoted THEN left ELSE ConvertExitStatus(left)

IsExpected(a, cleared, quoted) ==
  a = Expected(cleared, quoted) \/ (interrupted /\ a = 130)

AreExpected(x) ==
  \A k \in 1 .. Len(x) : IsExpected(x[k].as, ClearedIn(x, k - 1), x[k].quoted)

(* The entries y of one piece: several only in quotes. *)
LEMMA MoreShown ==
  ASSUME NEW x \in Seq(Shown), NEW y \in Seq(Shown), AreExpected(x),
         NEW c \in BOOLEAN, c <=> ClearedIn(x, Len(x)),
         \A k \in 1 .. Len(y) : IsExpected(y[k].as, c, y[k].quoted),
         ClearedIn(y, Len(y)) => Len(y) = 1
  PROVE  /\ x \o y \in Seq(Shown)
         /\ AreExpected(x \o y)
         /\ ClearedIn(x \o y, Len(x \o y)) <=> c \/ ClearedIn(y, Len(y))
<1> DEFINE z == x \o y
           n == Len(x)
           m == Len(y)
<1>1. /\ z \in Seq(Shown) /\ n \in Nat /\ m \in Nat /\ Len(z) = n + m
      /\ \A k \in 1 .. n : z[k] = x[k]
      /\ \A k \in 1 .. m : z[n + k] = y[k]
  OBVIOUS
<1> HIDE DEF z, n, m
<1>2. \A k \in 1 .. n + m : k \in 1 .. n \/ (k - n \in 1 .. m /\ n + (k - n) = k)
  BY <1>1
<1>3. ASSUME NEW k \in 0 .. n PROVE ClearedIn(z, k) <=> ClearedIn(x, k)
  <2>1. \A h \in 1 .. k : h \in 1 .. n
    BY <1>1
  <2>2. QED
    BY <1>1, <2>1 DEF ClearedIn
<1>4. ASSUME NEW k \in 0 .. m
      PROVE  ClearedIn(z, n + k) <=> c \/ ClearedIn(y, k)
  <2>1. \A h : h \in 1 .. n + k <=>
               h \in 1 .. n \/ (h - n \in 1 .. k /\ n + (h - n) = h /\ h \in Nat)
    BY <1>1
  <2>2. \A h \in 1 .. k : n + h \in 1 .. n + k /\ h \in 1 .. m
    BY <1>1
  <2>3. ASSUME ClearedIn(z, n + k) PROVE c \/ ClearedIn(y, k)
    <3>1. PICK h \in 1 .. n + k : ~z[h].quoted
      BY <2>3 DEF ClearedIn
    <3>2. CASE h \in 1 .. n
      <4>1. ClearedIn(x, n)
        BY <1>1, <3>1, <3>2 DEF ClearedIn
      <4>2. QED
        BY <4>1 DEF n
    <3>3. CASE h - n \in 1 .. k /\ n + (h - n) = h
      <4>1. z[n + (h - n)] = y[h - n]
        BY <1>1, <2>2, <3>3
      <4>2. ~y[h - n].quoted
        BY <3>1, <3>3, <4>1
      <4>3. QED
        BY <3>3, <4>2 DEF ClearedIn
    <3>4. QED
      BY <2>1, <3>2, <3>3
  <2>4. ASSUME c PROVE ClearedIn(z, n + k)
    <3>1. ClearedIn(x, n)
      BY <2>4 DEF n
    <3>2. PICK h \in 1 .. n : ~x[h].quoted
      BY <3>1 DEF ClearedIn
    <3>3. h \in 1 .. n + k /\ ~z[h].quoted
      BY <1>1, <2>1, <3>2
    <3>4. QED
      BY <3>3 DEF ClearedIn
  <2>5. ASSUME ClearedIn(y, k) PROVE ClearedIn(z, n + k)
    <3>1. PICK h \in 1 .. k : ~y[h].quoted
      BY <2>5 DEF ClearedIn
    <3>2. n + h \in 1 .. n + k /\ z[n + h] = y[h]
      BY <1>1, <2>2
    <3>3. QED
      BY <3>1, <3>2 DEF ClearedIn
  <2>6. QED
    BY <2>3, <2>4, <2>5
<1>5. ASSUME NEW k \in 1 .. n + m
      PROVE  IsExpected(z[k].as, ClearedIn(z, k - 1), z[k].quoted)
  <2>1. CASE k \in 1 .. n
    <3>1. k - 1 \in 0 .. n
      BY <1>1, <2>1
    <3>2. IsExpected(x[k].as, ClearedIn(x, k - 1), x[k].quoted)
      BY <2>1 DEF AreExpected, n
    <3>3. ClearedIn(z, k - 1) <=> ClearedIn(x, k - 1)
      BY <1>3, <3>1
    <3>4. z[k] = x[k]
      BY <1>1, <2>1
    <3>5. QED
      BY <3>2, <3>3, <3>4 DEF IsExpected, Expected
  <2>2. CASE k \notin 1 .. n
    <3> DEFINE j == k - n
    <3>1. j \in 1 .. m /\ n + j = k /\ j - 1 \in 0 .. m /\ k - 1 = n + (j - 1)
      BY <1>1, <1>2, <2>2
    <3> HIDE DEF j
    <3>2. ~ClearedIn(y, j - 1)
      <4> SUFFICES ASSUME ClearedIn(y, j - 1) PROVE FALSE
        OBVIOUS
      <4>1. PICK h \in 1 .. j - 1 : ~y[h].quoted
        BY DEF ClearedIn
      <4>2. h \in 1 .. m /\ 1 < m
        BY <1>1, <3>1
      <4>3. ClearedIn(y, m)
        BY <4>1, <4>2 DEF ClearedIn
      <4>4. m = 1
        BY <4>3 DEF m
      <4>5. QED
        BY <4>2, <4>4
    <3>3. ClearedIn(z, k - 1) <=> c
      BY <1>4, <3>1, <3>2
    <3>4. z[k] = y[j]
      BY <1>1, <3>1
    <3>5. IsExpected(y[j].as, c, y[j].quoted)
      BY <3>1 DEF m
    <3>6. QED
      BY <3>3, <3>4, <3>5 DEF IsExpected, Expected
  <2>3. QED
    BY <2>1, <2>2
<1>6. AreExpected(z)
  BY <1>1, <1>5 DEF AreExpected
<1>7. ClearedIn(z, n + m) <=> c \/ ClearedIn(y, m)
  <2>1. m \in 0 .. m
    BY <1>1
  <2>2. QED
    BY <1>4, <2>1
<1>8. QED
  BY <1>1, <1>6, <1>7 DEF z, m

(* The recursion over the new pieces, a step at a time. *)
LEMMA ReplacedSteps ==
  ASSUME NEW m, NEW n, m = Len(pieces), n = Len(pieces'),
         m \in Nat, n \in Nat, m <= n,
         \A k \in m + 1 .. n : ReplacedIn(k) \in Seq(Shown)
  PROVE  /\ Replaced[m] = <<>>
         /\ \A k \in m + 1 .. n : Replaced[k] = Replaced[k - 1] \o ReplacedIn(k)
<1> DEFINE X == Seq(Shown)
           d == n - m
           G == [a \in Nat \X X |->
                   IF a[1] \in 1 .. d THEN a[2] \o ReplacedIn(m + a[1]) ELSE <<>>]
           Is(f) == f = [k \in m .. n |->
                           IF k = m THEN <<>> ELSE f[k - 1] \o ReplacedIn(k)]
<1>1. d \in Nat /\ <<>> \in X
  OBVIOUS
<1>2. \A k \in 1 .. d : m + k \in m + 1 .. n
  OBVIOUS
<1>3. G \in [Nat \X X -> X]
  <2>1. \A x, y \in X : x \o y \in X
    OBVIOUS
  <2>2. \A k \in 1 .. d : ReplacedIn(m + k) \in X
    BY <1>2
  <2> HIDE DEF X, d
  <2>3. \A a \in Nat \X X : a[1] \in Nat /\ a[2] \in X
    OBVIOUS
  <2>4. \A a \in Nat \X X :
          (IF a[1] \in 1 .. d THEN a[2] \o ReplacedIn(m + a[1]) ELSE <<>>) \in X
    BY <1>1, <2>1, <2>2, <2>3
  <2>5. QED
    BY <2>4
<1>4. PICK f \in [0 .. d -> X] : Iterates(f, d, <<>>, G)
  <2> HIDE DEF G, X, d
  <2>1. QED
    BY <1>1, <1>3, Iteration
<1>5. \A k \in 1 .. d : f[k] = f[k - 1] \o ReplacedIn(m + k)
  <2> SUFFICES ASSUME NEW k \in 1 .. d PROVE f[k] = f[k - 1] \o ReplacedIn(m + k)
    OBVIOUS
  <2> DEFINE q == <<k, f[k - 1]>>
  <2>1. q \in Nat \X X
    <3>1. k \in Nat /\ k - 1 \in 0 .. d
      BY <1>1
    <3> HIDE DEF X, d
    <3>2. QED
      BY <3>1
  <2>2. q[1] = k /\ q[2] = f[k - 1]
    OBVIOUS
  <2>3. G[q] = q[2] \o ReplacedIn(m + q[1])
    <3> HIDE DEF X, d, q
    <3>1. QED
      BY <2>1, <2>2
  <2>4. QED
    BY <1>4, <2>2, <2>3 DEF Iterates
<1> DEFINE g == [k \in m .. n |-> f[k - m]]
<1>6. Is(g)
  <2>1. f[0] = <<>>
    BY <1>4 DEF Iterates
  <2>2. ASSUME NEW k \in m .. n
        PROVE  f[k - m] = IF k = m THEN <<>> ELSE g[k - 1] \o ReplacedIn(k)
    <3>1. CASE k = m
      <4>1. k - m = 0
        BY <3>1
      <4>2. QED
        BY <2>1, <3>1, <4>1
    <3>2. CASE k # m
      <4>1. k - m \in 1 .. d /\ m + (k - m) = k /\ k - 1 \in m .. n
            /\ (k - 1) - m = (k - m) - 1
        BY <3>2
      <4>2. g[k - 1] = f[(k - m) - 1]
        BY <4>1
      <4> HIDE DEF g, d
      <4>3. f[k - m] = f[(k - m) - 1] \o ReplacedIn(m + (k - m))
        BY <1>5, <4>1
      <4>4. QED
        BY <3>2, <4>1, <4>2, <4>3
    <3>3. QED
      BY <3>1, <3>2
  <2>3. QED
    BY <2>2
<1>7. Is(CHOOSE h : Is(h))
  <2> HIDE DEF Is, g
  <2>1. QED
    BY <1>6
<1>8. Is(Replaced)
  <2> HIDE DEF g
  <2>1. QED
    BY <1>7 DEF Replaced
<1> DEFINE p == Replaced
<1> HIDE DEF p
<1>9. p = [k \in m .. n |-> IF k = m THEN <<>> ELSE p[k - 1] \o ReplacedIn(k)]
  BY <1>8 DEF p
<1>10. m \in m .. n /\ \A k \in m + 1 .. n : k \in m .. n /\ k # m
  OBVIOUS
<1>11. QED
  BY <1>9, <1>10 DEF p

(* What one piece is replaced by. *)
LEMMA ReplacedTyped ==
  ASSUME line \in Lines, status \in Nat, pieces' \in Seq(Piece),
         NEW k \in 1 .. Len(pieces')
  PROVE  /\ ReplacedIn(k) \in Seq(Shown)
         /\ IsStatusPiece(k) =>
              /\ Len(ReplacedIn(k)) = 1 /\ ~ReplacedIn(k)[1].quoted
              /\ ReplacedIn(k)[1].as = ConvertExitStatus(Register(k))
         /\ ~IsStatusPiece(k) =>
              \A h \in 1 .. Len(ReplacedIn(k)) :
                ReplacedIn(k)[h].quoted /\ ReplacedIn(k)[h].as = Register(k)
<1>1. Register(k) \in Nat
  BY DEF Register
<1>2. ConvertExitStatus(Register(k)) \in Nat
  BY <1>1 DEF ConvertExitStatus
<1> DEFINE Q == QuotedStatuses(k)
           n == Cardinality(Q)
<1>3. n \in Nat
  <2>1. pieces'[k] \in Piece
    OBVIOUS
  <2>2. pieces'[k].from \in Nat /\ pieces'[k].to \in Nat
    BY <2>1, LineFacts, PieceFacts
  <2>3. IsFiniteSet(pieces'[k].from .. pieces'[k].to - 1)
    <3>1. pieces'[k].from \in Int /\ pieces'[k].to - 1 \in Int
      BY <2>2
    <3>2. QED
      BY <3>1, FS_Interval
  <2>4. Q \subseteq pieces'[k].from .. pieces'[k].to - 1
    BY DEF QuotedStatuses
  <2>5. IsFiniteSet(Q)
    BY <2>3, <2>4, FS_Subset
  <2>6. QED
    BY <2>5, FS_CardinalityType
<1> HIDE DEF n
<1> DEFINE r == Register(k)
           v == ConvertExitStatus(Register(k))
<1> HIDE DEF r, v
<1>4. CASE IsStatusPiece(k)
  <2>1. ReplacedIn(k) = <<[quoted |-> FALSE, as |-> v]>>
    BY <1>4 DEF ReplacedIn, v
  <2>2. [quoted |-> FALSE, as |-> v] \in Shown
    BY <1>2 DEF Shown, v
  <2>3. QED
    BY <1>4, <2>1, <2>2 DEF v
<1>5. CASE ~IsStatusPiece(k)
  <2> DEFINE y == [h \in 1 .. n |-> [quoted |-> TRUE, as |-> r]]
  <2>1. ReplacedIn(k) = y
    BY <1>5 DEF ReplacedIn, n, r
  <2>2. [quoted |-> TRUE, as |-> r] \in Shown
    BY <1>1 DEF Shown, r
  <2>3. y \in Seq(Shown) /\ Len(y) = n
    BY <1>3, <2>2
  <2>4. \A h \in 1 .. n : y[h].quoted /\ y[h].as = r
    OBVIOUS
  <2> HIDE DEF y
  <2>5. QED
    BY <1>5, <2>1, <2>3, <2>4 DEF r
<1>6. QED
  BY <1>4, <1>5

Stands(v) == status = v \/ (interrupted /\ status = 130)

RegisterInv ==
  /\ status \in Nat /\ left \in Nat /\ shown \in Seq(Shown)
  /\ AreExpected(shown)
  /\ where = "prompt" => shown = <<>> /\ Stands(left)
  /\ where = "lexer" =>
       /\ pc = "check" => shown = <<>>
       /\ ClearedIn(shown, Len(shown)) => pieces # <<>>
       /\ Stands(IF pc = "done" /\ ~IsClosedQuotes THEN 0
                 ELSE IF ClearedIn(shown, Len(shown)) THEN 0 ELSE left)
  /\ where = "parser" /\ result = "refused" => status = 2 \/ interrupted

(* A step of the scan, whatever it reads. *)
LEMMA ScanShows ==
  ASSUME LInv, PiecesInv, RegisterInv, where = "lexer", pc = "scan", Lex,
         shown' = shown \o Replaced[Len(pieces')]
  PROVE  /\ shown' \in Seq(Shown)
         /\ AreExpected(shown')
         /\ ClearedIn(shown', Len(shown')) => pieces' # <<>>
         /\ status' \in Nat
         /\ \/ status' = IF ClearedIn(shown', Len(shown')) THEN 0 ELSE left
            \/ interrupted /\ status' = 130
<1> DEFINE m == Len(pieces)
           n == Len(pieces')
           S(k) == \E h \in m + 1 .. k : StatusAt(pieces', h)
           c == ClearedIn(shown, Len(shown))
           x(k) == shown \o Replaced[k]
           Good(k) == /\ Replaced[k] \in Seq(Shown) /\ x(k) \in Seq(Shown)
                      /\ AreExpected(x(k))
                      /\ ClearedIn(x(k), Len(x(k))) <=> c \/ S(k)
<1>1. /\ line \in Lines /\ pieces \in Seq(Piece)
  BY ScanFacts
<1>2. PICK b \in BOOLEAN : /\ Extends(pieces, pieces', b)
                           /\ status' = IF b THEN 0 ELSE status
  BY ScanStatus
<1>3. /\ pieces' \in Seq(Piece) /\ m \in Nat /\ n \in Nat /\ m <= n
      /\ b <=> S(n)
  BY <1>1, <1>2 DEF Extends
<1>4. /\ status \in Nat /\ left \in Nat /\ shown \in Seq(Shown) /\ AreExpected(shown)
      /\ c => pieces # <<>>
      /\ Stands(IF c THEN 0 ELSE left)
  BY DEF RegisterInv
<1>5. ASSUME NEW k \in m + 1 .. n
      PROVE  /\ k \in 1 .. n /\ k - 1 \in m .. n
             /\ IsStatusPiece(k) <=> StatusAt(pieces', k)
             /\ S(k) <=> S(k - 1) \/ StatusAt(pieces', k)
             /\ Register(k) = IF S(k - 1) THEN 0 ELSE status
  <2>1. k \in 1 .. n /\ k - 1 \in m .. n
    BY <1>3
  <2>2. \A h : IsStatusPiece(h) <=> StatusAt(pieces', h)
    BY DEF IsStatusPiece, StatusAt
  <2>3. \A h : h \in m + 1 .. k <=> h \in m + 1 .. k - 1 \/ h = k
    BY <1>3
  <2>4. S(k) <=> S(k - 1) \/ StatusAt(pieces', k)
    <3> HIDE DEF m, n
    <3>1. QED
      BY <2>3
  <2>5. Register(k) = IF S(k - 1) THEN 0 ELSE status
    BY <2>2 DEF Register
  <2>6. QED
    BY <2>1, <2>2, <2>4, <2>5
<1>6. \A k \in m + 1 .. n :
        /\ ReplacedIn(k) \in Seq(Shown)
        /\ IsStatusPiece(k) =>
              /\ Len(ReplacedIn(k)) = 1 /\ ~ReplacedIn(k)[1].quoted
              /\ ReplacedIn(k)[1].as = ConvertExitStatus(Register(k))
        /\ ~IsStatusPiece(k) =>
              \A h \in 1 .. Len(ReplacedIn(k)) :
                ReplacedIn(k)[h].quoted /\ ReplacedIn(k)[h].as = Register(k)
  BY <1>1, <1>3, <1>4, <1>5, ReplacedTyped
<1>7. /\ Replaced[m] = <<>>
      /\ \A k \in m + 1 .. n : Replaced[k] = Replaced[k - 1] \o ReplacedIn(k)
  BY <1>3, <1>6, ReplacedSteps
<1> HIDE DEF m, n, c
<1>8. Good(m)
  <2>1. ~S(m)
    <3>1. \A h \in m + 1 .. m : FALSE
      BY <1>3
    <3>2. QED
      BY <3>1
  <2>2. x(m) = shown /\ Replaced[m] \in Seq(Shown)
    BY <1>4, <1>7
  <2>3. ClearedIn(shown, Len(shown)) <=> c
    BY DEF c
  <2> HIDE DEF x, S
  <2>4. QED
    BY <1>4, <2>1, <2>2, <2>3
<1>9. ASSUME NEW k \in m + 1 .. n, Good(k - 1) PROVE Good(k)
  <2> DEFINE y == ReplacedIn(k)
             d == c \/ S(k - 1)
  <2>1. ASSUME NEW e \in Seq(Shown), NEW f \in Seq(Shown)
        PROVE  shown \o (e \o f) = (shown \o e) \o f /\ e \o f \in Seq(Shown)
    <3>1. shown \in Seq(Shown)
      BY <1>4
    <3>2. QED
      BY <3>1
  <2>2. /\ Replaced[k - 1] \in Seq(Shown) /\ x(k - 1) \in Seq(Shown)
        /\ AreExpected(x(k - 1))
        /\ d <=> ClearedIn(x(k - 1), Len(x(k - 1)))
    BY <1>9
  <2>3. y \in Seq(Shown) /\ Replaced[k] = Replaced[k - 1] \o y
    BY <1>6, <1>7
  <2>4. x(k) = x(k - 1) \o y /\ Replaced[k] \in Seq(Shown)
    <3> HIDE DEF y
    <3>1. /\ shown \o (Replaced[k - 1] \o y) = (shown \o Replaced[k - 1]) \o y
          /\ Replaced[k - 1] \o y \in Seq(Shown)
      BY <2>1, <2>2, <2>3
    <3>2. QED
      BY <2>3, <3>1
  <2>5. /\ IsStatusPiece(k) <=> StatusAt(pieces', k)
        /\ S(k) <=> S(k - 1) \/ StatusAt(pieces', k)
        /\ Register(k) = IF S(k - 1) THEN 0 ELSE status
    BY <1>5
  <2>6. /\ IsExpected(Register(k), d, TRUE)
        /\ IsExpected(ConvertExitStatus(Register(k)), d, FALSE)
    <3> HIDE DEF S
    <3>1. Stands(IF c THEN 0 ELSE left) /\ left \in Nat /\ status \in Nat
      BY <1>4
    <3>2. QED
      BY <2>5, <3>1 DEF Stands, IsExpected, Expected, ConvertExitStatus
  <2>7. \A h \in 1 .. Len(y) : IsExpected(y[h].as, d, y[h].quoted)
    <3>1. CASE IsStatusPiece(k)
      <4>1. Len(y) = 1 /\ ~y[1].quoted /\ y[1].as = ConvertExitStatus(Register(k))
        BY <1>6, <3>1
      <4>2. IsExpected(y[1].as, d, y[1].quoted)
        BY <2>6, <4>1 DEF IsExpected, Expected
      <4>3. \A h \in 1 .. 1 : h = 1
        OBVIOUS
      <4>4. QED
        BY <4>1, <4>2, <4>3
    <3>2. CASE ~IsStatusPiece(k)
      <4>1. \A h \in 1 .. Len(y) : y[h].quoted /\ y[h].as = Register(k)
        BY <1>6, <3>2
      <4>2. QED
        BY <2>6, <4>1 DEF IsExpected, Expected
    <3>3. QED
      BY <3>1, <3>2
  <2>8. ClearedIn(y, Len(y)) <=> IsStatusPiece(k)
    <3>1. CASE IsStatusPiece(k)
      <4>1. Len(y) = 1 /\ ~y[1].quoted
        BY <1>6, <3>1
      <4>2. QED
        BY <3>1, <4>1 DEF ClearedIn
    <3>2. CASE ~IsStatusPiece(k)
      <4>1. \A h \in 1 .. Len(y) : y[h].quoted
        BY <1>6, <3>2
      <4>2. QED
        BY <3>2, <4>1 DEF ClearedIn
    <3>3. QED
      BY <3>1, <3>2
  <2>9. ClearedIn(y, Len(y)) => Len(y) = 1
    BY <1>6, <2>8
  <2> HIDE DEF x, y, d
  <2>10. /\ x(k - 1) \o y \in Seq(Shown)
         /\ AreExpected(x(k - 1) \o y)
         /\ ClearedIn(x(k - 1) \o y, Len(x(k - 1) \o y)) <=> d \/ ClearedIn(y, Len(y))
    <3>1. d \in BOOLEAN
      BY DEF d
    <3>2. QED
      BY <2>2, <2>3, <2>7, <2>9, <3>1, MoreShown
  <2>11. d \/ ClearedIn(y, Len(y)) <=> c \/ S(k)
    <3> HIDE DEF S
    <3>1. QED
      BY <2>5, <2>8 DEF d
  <2> HIDE DEF S
  <2>12. QED
    BY <2>4, <2>10, <2>11
<1> HIDE DEF Good
<1>10. Good(n)
  <2> DEFINE T == {k \in Nat : m + k <= n => Good(m + k)}
  <2>1. 0 \in T
    BY <1>3, <1>8
  <2>2. \A k \in T : k + 1 \in T
    <3> SUFFICES ASSUME NEW k \in T, m + (k + 1) <= n PROVE Good(m + (k + 1))
      OBVIOUS
    <3>1. /\ m + (k + 1) \in m + 1 .. n /\ (m + (k + 1)) - 1 = m + k
          /\ m + k <= n
      BY <1>3
    <3>2. Good(m + k)
      BY <3>1
    <3>3. QED
      BY <1>9, <3>1, <3>2
  <2>3. Nat \subseteq T
    <3> HIDE DEF T
    <3>1. T \subseteq Nat
      BY DEF T
    <3>2. QED
      BY <2>1, <2>2, <3>1, Induction
  <2>4. n - m \in Nat /\ m + (n - m) = n /\ m + (n - m) <= n
    BY <1>3
  <2>5. n - m \in T
    BY <2>3, <2>4
  <2>6. Good(m + (n - m))
    BY <2>4, <2>5
  <2>7. QED
    BY <2>4, <2>6
<1>11. /\ shown' \in Seq(Shown) /\ AreExpected(shown')
       /\ ClearedIn(shown', Len(shown')) <=> c \/ S(n)
  <2>1. shown' = x(n)
    BY DEF n
  <2> HIDE DEF x, S
  <2>2. QED
    BY <1>10, <2>1 DEF Good
<1>12. c \/ S(n) => pieces' # <<>>
  <2>1. c => m > 0
    BY <1>1, <1>4 DEF m
  <2>2. S(n) => n > 0
    <3>1. \A h \in m + 1 .. n : n > 0
      BY <1>3
    <3>2. QED
      BY <3>1
  <2>3. c \/ S(n) => n > 0
    BY <1>3, <2>1, <2>2
  <2>4. QED
    BY <2>3 DEF n
<1>13. QED
  <2> HIDE DEF S
  <2>1. Stands(IF c THEN 0 ELSE left) /\ left \in Nat /\ status \in Nat
    BY <1>4
  <2>2. status' = IF S(n) THEN 0 ELSE status
    BY <1>2, <1>3
  <2>3. \/ status' = IF c \/ S(n) THEN 0 ELSE left
        \/ interrupted /\ status' = 130
    BY <2>1, <2>2 DEF Stands
  <2>4. status' \in Nat
    BY <2>1, <2>2
  <2>5. QED
    BY <1>11, <1>12, <2>3, <2>4

-----------------------------------------------------------------------------
(***************************************************************************)
(* The inductive invariant of Session: those of the lexer and the parser   *)
(* where they are at work, and how the one's pieces are the other's tokens.*)
(***************************************************************************)
TokensOf(t) ==
  [k \in DOMAIN t |-> [type |-> t[k].type, tail |-> t[k].tail,
                       found |-> t[k].found, quoted |-> t[k].quoted]]

LineRead == where # "prompt" => LInv /\ PiecesInv

LineParsed ==
  /\ where \in {"parser", "execution"} =>
       /\ pc = "done" /\ pieces # <<>> /\ tokens = TokensOf(pieces)
       /\ PInv /\ LineInv
  /\ where = "parser" => result # "accepted"
  /\ where = "execution" => result = "accepted"

SInv ==
  /\ where \in {"prompt", "lexer", "parser", "execution"}
  /\ LineRead /\ LineParsed /\ RegisterInv

LEMMA StaysExpected ==
  ASSUME left' = left, interrupted => interrupted', NEW x, AreExpected(x)
  PROVE  \A k \in 1 .. Len(x) :
           (x[k].as = (IF ClearedIn(x, k - 1) THEN 0
                       ELSE IF x[k].quoted THEN left' ELSE ConvertExitStatus(left'))
            \/ (interrupted' /\ x[k].as = 130))
BY DEF AreExpected, IsExpected, Expected

LEMMA ShownStays ==
  ASSUME left' = left, interrupted => interrupted', AreExpected(shown')
  PROVE  AreExpected(shown)'
<1>1. \A k \in 1 .. Len(shown') :
           (shown'[k].as = (IF ClearedIn(shown', k - 1) THEN 0
                            ELSE IF shown'[k].quoted THEN left'
                            ELSE ConvertExitStatus(left'))
            \/ (interrupted' /\ shown'[k].as = 130))
  BY StaysExpected
<1>2. QED
  BY <1>1 DEF AreExpected, IsExpected, Expected

LEMMA NothingShown == ~ClearedIn(<<>>, Len(<<>>)) /\ AreExpected(<<>>)
<1>1. \A k \in 1 .. Len(<<>>) : FALSE
  OBVIOUS
<1>2. QED
  BY <1>1 DEF ClearedIn, AreExpected

(* Back at the prompt the register is what the line should have left. *)
LEMMA BackRegister ==
  ASSUME NEW s, BackToPrompt(s), status' \in Nat, s \in Nat,
         interrupted \/ status' = s
  PROVE  RegisterInv'
<1>1. /\ where' = "prompt" /\ left' = IF interrupted THEN status' ELSE s
      /\ shown' = <<>>
  BY DEF BackToPrompt
<1>2. left' \in Nat /\ status' = left'
  BY <1>1
<1>3. AreExpected(shown)'
  <2>1. \A k \in 1 .. Len(shown') : FALSE
    BY <1>1
  <2>2. QED
    BY <2>1 DEF AreExpected
<1>4. shown' \in Seq(Shown)
  BY <1>1
<1>5. QED
  BY <1>1, <1>2, <1>3, <1>4 DEF RegisterInv, Stands, Shown

(* A step of the lexer. *)
LEMMA TokenizeRegister ==
  ASSUME SInv, Tokenize
  PROVE  RegisterInv'
<1>1. /\ where = "lexer" /\ where' = "lexer" /\ Lex /\ LInv /\ PiecesInv /\ RegisterInv
      /\ left' = left /\ interrupted' = interrupted
      /\ shown' = IF pc = "scan" THEN shown \o Replaced[Len(pieces')] ELSE shown
  BY DEF SInv, LineRead, Tokenize
<1>2. /\ status \in Nat /\ left \in Nat /\ shown \in Seq(Shown) /\ AreExpected(shown)
      /\ pc = "check" => shown = <<>>
      /\ ClearedIn(shown, Len(shown)) => pieces # <<>>
      /\ Stands(IF pc = "done" /\ ~IsClosedQuotes THEN 0
                ELSE IF ClearedIn(shown, Len(shown)) THEN 0 ELSE left)
  BY <1>1 DEF RegisterInv
<1>3. line' = line /\ value' = value
  BY <1>1 DEF Lex, Unclosed, Closed, HandleDollar, HandleStatus, HandleLoneDollar,
     HandleSpecialeToken, HandleSpecialQuot, HandleWhiteSpaces, OtherCharacter,
     EndOfLine, JoinNodes
<1>4. IsClosedQuotes' <=> IsClosedQuotes
  BY <1>3, SameLine
<1> DEFINE Cl == ClearedIn(shown', Len(shown'))
<1>5. ClearedIn(shown, Len(shown))' <=> Cl
  BY DEF ClearedIn
<1>6. CASE pc = "scan"
  <2>1. /\ shown' \in Seq(Shown) /\ AreExpected(shown') /\ status' \in Nat
        /\ Cl => pieces' # <<>>
        /\ \/ status' = IF Cl THEN 0 ELSE left
           \/ interrupted /\ status' = 130
    BY <1>1, <1>6, ScanShows
  <2> HIDE DEF Cl
  <2>2. AreExpected(shown)'
    BY <1>1, <2>1, ShownStays
  <2>3. pc' # "check" /\ pc' # "done"
    BY <1>1, <1>6 DEF Lex, Unclosed, Closed, HandleDollar, HandleStatus,
       HandleLoneDollar, HandleSpecialeToken, HandleSpecialQuot, HandleWhiteSpaces,
       OtherCharacter, EndOfLine, JoinNodes
  <2>4. QED
    BY <1>1, <1>2, <1>5, <2>1, <2>2, <2>3 DEF RegisterInv, Stands, Shown
<1>7. CASE Unclosed
  <2>1. /\ shown' = <<>> /\ pc' = "done" /\ status' = 0 /\ ~IsClosedQuotes
    BY <1>1, <1>2, <1>7 DEF Unclosed
  <2>2. AreExpected(shown') /\ ~Cl
    BY <2>1, NothingShown
  <2>3. AreExpected(shown)'
    BY <1>1, <2>2, ShownStays
  <2> HIDE DEF Cl
  <2>4. QED
    BY <1>1, <1>2, <1>4, <1>5, <2>1, <2>2, <2>3 DEF RegisterInv, Stands, Shown
<1>8. CASE Closed \/ JoinNodes
  <2>1. /\ shown' = shown /\ status' = status /\ pc # "done"
        /\ pc' \in {"scan", "done"} /\ (pc' = "done" => IsClosedQuotes)
    BY <1>1, <1>8 DEF Closed, JoinNodes, LInv, Places
  <2>2. AreExpected(shown)' /\ (Cl <=> ClearedIn(shown, Len(shown)))
    BY <1>1, <1>2, <2>1, ShownStays
  <2>3. pieces # <<>> => pieces' # <<>>
    <3>1. CASE Closed
      BY <3>1 DEF Closed
    <3>2. CASE JoinNodes
      <4> SUFFICES ASSUME pieces # <<>> PROVE pieces' # <<>>
        OBVIOUS
      <4> DEFINE j == Joined[Len(pieces)]
      <4>1. pieces' = j /\ pieces \in Seq(Piece)
        BY <1>1, <3>2 DEF JoinNodes, LInv, Places
      <4>2. j \in Seq(Joint) /\ HasGrouping(j, Len(pieces))
        BY <4>1, JoinedSteps, JoinedGroups
      <4> HIDE DEF j
      <4>3. 1 \in 1 .. Len(pieces)
        BY <4>1
      <4>4. \E m \in 1 .. Len(j) : TRUE
        BY <4>1, <4>2, <4>3, NodesOfGroups
      <4>5. QED
        BY <4>1, <4>2, <4>4
    <3>3. QED
      BY <1>8, <3>1, <3>2
  <2> HIDE DEF Cl
  <2>4. QED
    BY <1>1, <1>2, <1>4, <1>5, <2>1, <2>2, <2>3 DEF RegisterInv, Stands, Shown
<1>9. QED
  BY <1>1, <1>6, <1>7, <1>8 DEF Lex, HandleDollar, HandleStatus, HandleLoneDollar,
     HandleSpecialeToken, HandleSpecialQuot, HandleWhiteSpaces, OtherCharacter,
     EndOfLine, Scans

(* A step that leaves the history of the line alone. *)
LEMMA KeptRegister ==
  ASSUME RegisterInv, left' = left, shown' = shown, interrupted' = interrupted
  PROVE  left' \in Nat /\ shown' \in Seq(Shown) /\ AreExpected(shown)'
<1>1. AreExpected(shown')
  BY DEF RegisterInv
<1>2. AreExpected(shown)'
  BY <1>1, ShownStays
<1>3. QED
  BY <1>2 DEF RegisterInv

LEMMA ReadRegister ==
  ASSUME RegisterInv, ReadLine
  PROVE  RegisterInv'
<1>1. /\ where = "prompt" /\ where' = "lexer" /\ pc' = "check" /\ status' = status
      /\ left' = left /\ shown' = shown /\ interrupted' = interrupted
  BY DEF ReadLine, historyVars
<1>2. shown = <<>> /\ Stands(left) /\ status \in Nat
  BY <1>1 DEF RegisterInv
<1>3. left' \in Nat /\ shown' \in Seq(Shown) /\ AreExpected(shown)'
  BY <1>1, KeptRegister
<1>4. ~ClearedIn(shown', Len(shown')) /\ shown' = <<>>
  BY <1>1, <1>2, NothingShown
<1>5. ClearedIn(shown, Len(shown))' <=> ClearedIn(shown', Len(shown'))
  BY DEF ClearedIn
<1>6. QED
  BY <1>1, <1>2, <1>3, <1>4, <1>5 DEF RegisterInv, Stands, Shown

LEMMA ParseRegister ==
  ASSUME RegisterInv, PInv, StartParser \/ Parse, where' \in {"parser", "execution"}
  PROVE  RegisterInv'
<1>1. /\ left' = left /\ shown' = shown /\ interrupted' = interrupted
  BY DEF StartParser, Parse, historyVars
<1>2. left' \in Nat /\ shown' \in Seq(Shown) /\ AreExpected(shown)'
  BY <1>1, KeptRegister
<1>3. status' \in Nat /\ (where' = "parser" /\ result' = "refused" => status' = 2)
  <2>1. CASE StartParser
    BY <2>1 DEF StartParser, RegisterInv
  <2>2. CASE Parse
    <3>1. status' \in Nat
      <4>1. ParserNext
        BY <2>2 DEF Parse, ParserNext
      <4>2. ParserTypeOK'
        BY <4>1, NextTypes DEF PInv
      <4>3. QED
        BY <4>2 DEF ParserTypeOK
    <3>2. result' = "refused" => status' = 2
      BY <2>2 DEF Parse, HandlePipe, HandleRedir, HandleHeredoc, HandleWord,
         SyntaxError, Accept, Parses
    <3>3. QED
      BY <3>1, <3>2
  <2>3. QED
    BY <2>1, <2>2
<1>4. QED
  BY <1>2, <1>3 DEF RegisterInv, Shown

LEMMA InterruptRegister ==
  ASSUME RegisterInv, Interrupt
  PROVE  RegisterInv'
<1>1. /\ left' = left /\ shown' = shown /\ interrupted' = TRUE /\ status' = 130
      /\ where' = where /\ result' = result /\ UNCHANGED lexerVars
  BY DEF Interrupt, parserVars
<1>2. pc' = pc /\ pieces' = pieces
  BY <1>1 DEF lexerVars
<1>3. AreExpected(shown')
  BY <1>1 DEF RegisterInv
<1>4. AreExpected(shown)'
  BY <1>1, <1>3, ShownStays
<1>5. ClearedIn(shown, Len(shown))' <=> ClearedIn(shown, Len(shown))
  BY <1>1 DEF ClearedIn
<1>6. QED
  BY <1>1, <1>2, <1>4, <1>5 DEF RegisterInv, Stands, Shown

LEMMA WaitingRegister ==
  ASSUME RegisterInv, UNCHANGED vars
  PROVE  RegisterInv'
<1>1. /\ left' = left /\ shown' = shown /\ interrupted' = interrupted
      /\ status' = status /\ where' = where /\ result' = result
      /\ UNCHANGED lexerVars /\ pc' = pc /\ pieces' = pieces
  BY DEF vars, lexerVars, parserVars, historyVars
<1>2. left' \in Nat /\ shown' \in Seq(Shown) /\ AreExpected(shown)'
  BY <1>1, KeptRegister
<1>3. ClearedIn(shown, Len(shown))' <=> ClearedIn(shown, Len(shown))
  BY <1>1 DEF ClearedIn
<1>4. IsClosedQuotes' <=> IsClosedQuotes
  BY <1>1, SameLine DEF lexerVars
<1>5. QED
  BY <1>1, <1>2, <1>3, <1>4 DEF RegisterInv, Stands, Shown

LEMMA BackRegisters ==
  ASSUME RegisterInv, NoToken \/ Refused \/ Execute
  PROVE  RegisterInv'
<1>1. CASE NoToken
  <2> DEFINE s == IF IsClosedQuotes THEN left ELSE 0
  <2>1. /\ where = "lexer" /\ pc = "done" /\ pieces = <<>> /\ status' = status
        /\ BackToPrompt(s)
    BY <1>1 DEF NoToken
  <2>2. /\ status \in Nat /\ left \in Nat
        /\ ClearedIn(shown, Len(shown)) => pieces # <<>>
        /\ Stands(IF pc = "done" /\ ~IsClosedQuotes THEN 0
                  ELSE IF ClearedIn(shown, Len(shown)) THEN 0 ELSE left)
    BY <2>1 DEF RegisterInv
  <2>3. s \in Nat /\ (interrupted \/ status' = s) /\ status' \in Nat
    BY <2>1, <2>2 DEF Stands
  <2> HIDE DEF s
  <2>4. QED
    BY <2>1, <2>3, BackRegister
<1>2. CASE Refused
  <2>1. /\ BackToPrompt(2) /\ status' = status
        /\ status \in Nat /\ (status = 2 \/ interrupted)
    BY <1>2 DEF Refused, RegisterInv
  <2>2. QED
    BY <2>1, BackRegister
<1>3. CASE Execute
  <2>1. BackToPrompt(status') /\ status' \in Nat
    BY <1>3, StatusesAssumption DEF Execute
  <2>2. QED
    BY <2>1, BackRegister
<1>4. QED
  BY <1>1, <1>2, <1>3

-----------------------------------------------------------------------------
(* What the lexer and the parser have done stays when others take a step.  *)
LEMMA PiecesWait ==
  ASSUME PiecesInv, UNCHANGED lexerVars
  PROVE  PiecesInv'
<1>1. /\ line' = line /\ value' = value /\ start' = start /\ end' = end
      /\ pieces' = pieces /\ pc' = pc
  BY DEF lexerVars
<1>2. \A p : At(p)' = At(p)
  BY <1>1 DEF At
<1>3. Ordinary' => AreTyped(pieces)'
  BY <1>1, SameLine, SameTyped DEF PiecesInv
<1>4. pc' = "done" /\ pieces' # <<>> => IsClosedQuotes'
  BY <1>1, SameLine DEF PiecesInv
<1>5. pc' = "scan" => \A p \in start' + 1 .. end' - 1 : At(p)' # "$"
  BY <1>1, <1>2 DEF PiecesInv
<1>6. QED
  BY <1>3, <1>4, <1>5 DEF PiecesInv

LEMMA ParserWaits ==
  ASSUME PInv, LineInv, UNCHANGED parserVars, status' \in Nat
  PROVE  PInv' /\ LineInv'
<1>1. /\ tokens' = tokens /\ current' = current /\ commands' = commands
      /\ i' = i /\ result' = result
  BY DEF parserVars
<1>2. ParserTypeOK'
  BY <1>1 DEF PInv, ParserTypeOK
<1>3. PrefixFits'
  BY <1>1 DEF PInv, PrefixFits, IsPipe, IsOperator
<1>4. Ended'
  BY <1>1 DEF PInv, Ended, Plain, InGrammar, IsPipe, IsOperator
<1>5. LineInv'
  BY EndLine
<1>6. QED
  BY <1>2, <1>3, <1>4, <1>5 DEF PInv

(* A line is read, and its first token is there. *)
LEMMA LineComes ==
  ASSUME ReadLine, status \in Nat
  PROVE  LInv' /\ PiecesInv'
<1>1. /\ line' \in Lines /\ value' \in ValuesOf(line') /\ start' = 1 /\ end' = 1
      /\ pieces' = <<>> /\ pc' = "check" /\ status' = status
  BY DEF ReadLine
<1>2. AtFirstCharacter'
  BY <1>1 DEF AtFirstCharacter
<1>3. LInv'
  BY <1>2, FirstLInv, PTL
<1>4. AreTyped(pieces)'
  BY <1>1 DEF AreTyped
<1>5. PiecesInv'
  BY <1>1, <1>4 DEF PiecesInv
<1>6. QED
  BY <1>3, <1>5

LEMMA TokensCome ==
  ASSUME StartParser, LInv
  PROVE  PInv' /\ LineInv'
<1>1. /\ pc = "done" /\ pieces # <<>> /\ tokens' = TokensOf(pieces)
      /\ current' = 1 /\ commands' = <<NewCommand>> /\ i' = 0
      /\ result' = "parsing" /\ status' = status /\ status \in Nat
  BY DEF StartParser, TokensOf, LInv, Places
<1>2. pieces \in Seq(Joint)
  BY <1>1 DEF LInv
<1>3. TokensOf(pieces) \in Seq(Token) \ {<<>>}
  <2>1. Len(pieces) \in Nat /\ Len(pieces) > 0 /\ DOMAIN pieces = 1 .. Len(pieces)
    BY <1>1, <1>2
  <2>2. \A k \in 1 .. Len(pieces) : TokensOf(pieces)[k] \in Token
    <3> TAKE k \in 1 .. Len(pieces)
    <3>1. /\ pieces[k].type \in Types /\ pieces[k].tail \in Types
          /\ pieces[k].found \in BOOLEAN /\ pieces[k].quoted \in BOOLEAN
      <4>1. pieces[k] \in Joint
        BY <1>2, <2>1
      <4>2. QED
        BY <4>1 DEF Joint
    <3>2. TokensOf(pieces)[k] = [type |-> pieces[k].type, tail |-> pieces[k].tail,
                                 found |-> pieces[k].found, quoted |-> pieces[k].quoted]
      BY <2>1 DEF TokensOf
    <3>3. QED
      BY <3>1, <3>2 DEF Token
  <2>3. /\ DOMAIN TokensOf(pieces) = 1 .. Len(pieces)
        /\ TokensOf(pieces) = [k \in 1 .. Len(pieces) |-> TokensOf(pieces)[k]]
    BY <2>1 DEF TokensOf
  <2>4. QED
    BY <2>1, <2>2, <2>3
<1>4. NewCommand' = NewCommand
  BY DEF NewCommand
<1>5. AtFirstToken'
  BY <1>1, <1>3, <1>4 DEF AtFirstToken
<1>6. PInv'
  BY <1>5, FirstPInv, PTL
<1>7. LineInv'
  BY <1>5, FirstLine, PTL
<1>8. QED
  BY <1>6, <1>7

LEMMA SInvInit == Init => SInv
<1> SUFFICES ASSUME Init PROVE SInv
  OBVIOUS
<1>1. /\ where = "prompt" /\ status = 0 /\ left = 0 /\ shown = <<>>
  BY DEF Init
<1>2. AreExpected(shown)
  BY <1>1, NothingShown
<1>3. RegisterInv
  BY <1>1, <1>2 DEF RegisterInv, Stands, Shown
<1>4. QED
  BY <1>1, <1>3 DEF SInv, LineRead, LineParsed

LEMMA SInvSteps == SInv /\ [Next]_vars => SInv'
<1> SUFFICES ASSUME SInv, [Next]_vars PROVE SInv'
  OBVIOUS
<1>1. /\ where \in {"prompt", "lexer", "parser", "execution"}
      /\ RegisterInv /\ status \in Nat
      /\ where # "prompt" => LInv /\ PiecesInv
  BY DEF SInv, LineRead, RegisterInv
<1>2. CASE ReadLine
  <2>1. LInv' /\ PiecesInv' /\ where' = "lexer"
    BY <1>1, <1>2, LineComes DEF ReadLine
  <2>2. RegisterInv'
    BY <1>1, <1>2, ReadRegister
  <2>3. QED
    BY <2>1, <2>2 DEF SInv, LineRead, LineParsed
<1>3. CASE Tokenize
  <2>1. where = "lexer" /\ where' = "lexer" /\ Lex
    BY <1>3 DEF Tokenize
  <2>2. LInv'
    BY <1>1, <2>1, LexerSteps DEF LexerNext
  <2>3. PiecesInv'
    BY <1>1, <2>1, PiecesStep
  <2>4. RegisterInv'
    BY <1>3, TokenizeRegister
  <2>5. QED
    BY <2>1, <2>2, <2>3, <2>4 DEF SInv, LineRead, LineParsed
<1>4. CASE NoToken \/ Refused \/ Execute
  <2>1. where' = "prompt"
    BY <1>4 DEF NoToken, Refused, Execute, BackToPrompt
  <2>2. RegisterInv'
    BY <1>1, <1>4, BackRegisters
  <2>3. QED
    BY <2>1, <2>2 DEF SInv, LineRead, LineParsed
<1>5. CASE StartParser
  <2>1. /\ where = "lexer" /\ where' = "parser" /\ UNCHANGED lexerVars
        /\ pc = "done" /\ pieces # <<>> /\ tokens' = TokensOf(pieces)
        /\ result' = "parsing" /\ status' = status
    BY <1>5 DEF StartParser, TokensOf
  <2>2. pc' = pc /\ pieces' = pieces
    BY <2>1 DEF lexerVars
  <2>3. LInv' /\ PiecesInv'
    BY <1>1, <2>1, LexerWaits, PiecesWait
  <2>4. PInv' /\ LineInv'
    BY <1>1, <1>5, <2>1, TokensCome
  <2>5. RegisterInv'
    <3>1. left' = left /\ shown' = shown /\ interrupted' = interrupted
      BY <1>5 DEF StartParser, historyVars
    <3>2. QED
      BY <1>1, <2>1, <3>1, KeptRegister DEF RegisterInv, Shown
  <2>6. TokensOf(pieces)' = TokensOf(pieces)
    BY <2>2 DEF TokensOf
  <2>7. QED
    BY <2>1, <2>2, <2>3, <2>4, <2>5, <2>6 DEF SInv, LineRead, LineParsed
<1>6. CASE Parse
  <2>1. /\ where = "parser" /\ ParserNext /\ UNCHANGED lexerVars
        /\ where' = IF result' = "accepted" THEN "execution" ELSE "parser"
        /\ tokens' = tokens
    BY <1>6 DEF Parse, ParserNext, HandlePipe, HandleRedir, HandleHeredoc,
       HandleWord, SyntaxError, Accept
  <2>2. /\ PInv /\ LineInv /\ pc = "done" /\ pieces # <<>>
        /\ tokens = TokensOf(pieces)
    BY <2>1 DEF SInv, LineParsed
  <2>3. pc' = pc /\ pieces' = pieces
    BY <2>1 DEF lexerVars
  <2>4. PInv'
    BY <2>1, <2>2, NextTypes, NextPrefix, NextEnded DEF PInv
  <2>5. LineInv'
    BY <2>1, <2>2, LineSteps
  <2>6. status' \in Nat
    BY <2>4 DEF PInv, ParserTypeOK
  <2>7. LInv' /\ PiecesInv'
    BY <1>1, <2>1, <2>6, LexerWaits, PiecesWait
  <2>8. RegisterInv'
    BY <1>1, <1>6, <2>1, <2>2, ParseRegister
  <2>9. TokensOf(pieces)' = TokensOf(pieces)
    BY <2>3 DEF TokensOf
  <2>10. QED
    BY <2>1, <2>2, <2>3, <2>4, <2>5, <2>7, <2>8, <2>9
       DEF SInv, LineRead, LineParsed
<1>7. CASE Interrupt \/ UNCHANGED vars
  <2>1. /\ where' = where /\ UNCHANGED lexerVars /\ UNCHANGED parserVars
        /\ status' \in Nat
    BY <1>1, <1>7 DEF Interrupt, vars
  <2>2. pc' = pc /\ pieces' = pieces /\ tokens' = tokens /\ result' = result
    BY <2>1 DEF lexerVars, parserVars
  <2>3. where # "prompt" => LInv' /\ PiecesInv'
    BY <1>1, <2>1, LexerWaits, PiecesWait
  <2>4. where \in {"parser", "execution"} => PInv' /\ LineInv'
    BY <2>1, ParserWaits DEF SInv, LineParsed
  <2>5. RegisterInv'
    BY <1>1, <1>7, InterruptRegister, WaitingRegister
  <2>6. TokensOf(pieces)' = TokensOf(pieces)
    BY <2>2 DEF TokensOf
  <2>7. QED
    BY <1>1, <2>1, <2>2, <2>3, <2>4, <2>5, <2>6 DEF SInv, LineRead, LineParsed
<1>8. QED
  BY <1>2, <1>3, <1>4, <1>5, <1>6, <1>7 DEF Next, Shell

(* The invariant of a session. *)
THEOREM SessionInvariance == Spec => []SInv
BY SInvInit, SInvSteps, PTL DEF Spec

(***************************************************************************)
(* $? shows what the line before left, whatever was read, parsed or        *)
(* executed before and however often: handle_exit_status clears the        *)
(* register once, interrupts but for 130 (g_exit_status, my_handler).      *)
(***************************************************************************)
THEOREM StatusIsShown == Spec => []ShowsWhatWasLeft
<1>1. SInv => ShowsWhatWasLeft
  <2> SUFFICES ASSUME SInv PROVE ShowsWhatWasLeft
    OBVIOUS
  <2>1. /\ shown \in Seq(Shown) /\ AreExpected(shown)
        /\ where = "prompt" => Stands(left)
    BY DEF SInv, RegisterInv
  <2>2. where = "prompt" /\ ~interrupted => status = left
    BY <2>1 DEF Stands
  <2>3. DOMAIN shown = 1 .. Len(shown)
    BY <2>1
  <2>4. QED
    BY <2>1, <2>2, <2>3
       DEF ShowsWhatWasLeft, AreExpected, IsExpected, Expected, ClearedIn,
           ConvertExitStatus
<1>2. QED
  BY <1>1, SessionInvariance, PTL

-----------------------------------------------------------------------------
(***************************************************************************)
(* An ordinary line behind the lexer.  Its k-th token is its k-th item, so *)
(* what the parser knows by position is what the line says by characters.  *)
(***************************************************************************)
OrdinaryRead ==
  /\ line \in Lines /\ pieces \in Seq(Joint) /\ pieces # <<>>
  /\ tokens = TokensOf(pieces) /\ IsItsItems /\ AreTyped(pieces)

Indices == 1 .. Len(pieces)

ItemAt(k) == <<pieces[k].from, pieces[k].to>>

ItemsAt(S) == {ItemAt(k) : k \in S}

LEMMA TokenCount ==
  ASSUME OrdinaryRead
  PROVE  /\ Len(pieces) \in Nat /\ Len(pieces) > 0
         /\ DOMAIN pieces = Indices /\ Len(tokens) = Len(pieces) /\ DOMAIN tokens = Indices
<1>1. /\ Len(pieces) \in Nat /\ Len(pieces) > 0 /\ DOMAIN pieces = 1 .. Len(pieces)
  BY DEF OrdinaryRead
<1>2. DOMAIN tokens = 1 .. Len(pieces) /\ tokens = [k \in 1 .. Len(pieces) |-> tokens[k]]
  BY <1>1 DEF OrdinaryRead, TokensOf
<1>3. Len(tokens) = Len(pieces)
  BY <1>1, <1>2
<1>4. QED
  BY <1>1, <1>2, <1>3 DEF Indices

LEMMA TokenIsItem ==
  ASSUME OrdinaryRead, NEW k \in Indices
  PROVE  /\ pieces[k].from \in 1 .. Len(line) /\ pieces[k].to \in 1 .. Len(line)
         /\ pieces[k].from <= pieces[k].to
         /\ tokens[k].type = pieces[k].type /\ tokens[k].type \in Types
         /\ tokens[k].tail = tokens[k].type
         /\ ~tokens[k].found
         /\ ItemAt(k) \in Items
         /\ ItemAt(k) \in WordRuns <=> tokens[k].type = "word"
         /\ ItemAt(k) \in Operators <=> tokens[k].type # "word"
<1> DEFINE a == pieces[k].from
           b == pieces[k].to
<1>1. DOMAIN pieces = Indices /\ Len(line) \in Nat
  BY TokenCount, LineFacts DEF OrdinaryRead
<1>2. /\ a \in 1 .. Len(line) /\ b \in 1 .. Len(line) /\ pieces[k].type \in Types
  <2>1. pieces[k] \in Joint
    BY <1>1 DEF OrdinaryRead
  <2>2. QED
    BY <2>1 DEF Joint, Positions
<1>3. /\ tokens[k].type = pieces[k].type /\ tokens[k].tail = pieces[k].tail
      /\ tokens[k].found = pieces[k].found
  BY <1>1 DEF OrdinaryRead, TokensOf
<1>4. /\ pieces[k].type = "word" <=> <<a, b>> \in WordRuns
      /\ pieces[k].tail = pieces[k].type
      /\ <<a, b>> \in WordRuns \cup Operators
  BY <1>1 DEF OrdinaryRead, IsItsItems
<1>5. ~pieces[k].found
  BY <1>1 DEF OrdinaryRead, AreTyped, Typed
<1>6. a \in Nat /\ b \in Nat
  BY <1>1, <1>2
<1>7. <<a, b>> \in WordRuns => a <= b /\ IsText(a)
  <2>1. <<a, b>> \in WordRuns => a <= b /\ \A p \in a .. b : IsText(p)
    BY WordRun DEF OrdinaryRead
  <2>2. a <= b => a \in a .. b
    BY <1>6
  <2>3. QED
    BY <2>1, <2>2
<1>8. <<a, b>> \in Operators => a <= b /\ IsMeta(a)
  <2>1. <<a, b>> \in Operators => IsMeta(a) /\ (b = a \/ b = a + 1)
    BY <1>6, OperatorPositions
  <2>2. QED
    BY <1>6, <2>1
<1>9. <<a, b>> \in Operators <=> ~(<<a, b>> \in WordRuns)
  BY <1>4, <1>7, <1>8, MetaFacts
<1>10. a <= b
  BY <1>4, <1>7, <1>8
<1>11. QED
  BY <1>2, <1>3, <1>4, <1>5, <1>9, <1>10 DEF ItemAt, Items

LEMMA ItemsAreTokens ==
  ASSUME OrdinaryRead
  PROVE  Items = ItemsAt(Indices)
BY TokenCount DEF OrdinaryRead, IsItsItems, Items, ItemsAt, ItemAt

LEMMA ItemsInOrder ==
  ASSUME OrdinaryRead
  PROVE  \A j, k \in Indices : j < k <=> pieces[j].to < pieces[k].from
<1> DEFINE N == Len(pieces)
           Apart(d) == \A j \in 1 .. N : j + d + 1 <= N =>
                         pieces[j].to < pieces[j + d + 1].from
           T == {d \in Nat : Apart(d)}
<1>1. N \in Nat /\ Len(line) \in Nat /\ Indices = 1 .. N
  BY TokenCount, LineFacts DEF OrdinaryRead, Indices
<1>2. \A k \in 1 .. N : /\ pieces[k].from \in Nat /\ pieces[k].to \in Nat
                        /\ pieces[k].from <= pieces[k].to
  <2>1. ASSUME NEW k \in 1 .. N
        PROVE  /\ pieces[k].from \in 1 .. Len(line) /\ pieces[k].to \in 1 .. Len(line)
               /\ pieces[k].from <= pieces[k].to
    BY <1>1, TokenIsItem
  <2>2. QED
    BY <1>1, <2>1
<1>3. \A k \in 1 .. N - 1 : pieces[k].to < pieces[k + 1].from
  BY DEF OrdinaryRead, IsItsItems
<1> HIDE DEF N
<1>4. 0 \in T
  <2>1. \A j \in 1 .. N : j + 0 + 1 <= N => j \in 1 .. N - 1 /\ j + 0 + 1 = j + 1
    BY <1>1
  <2>2. QED
    BY <1>3, <2>1
<1>5. \A d \in T : d + 1 \in T
  <2> SUFFICES ASSUME NEW d \in Nat, Apart(d) PROVE Apart(d + 1)
    <3> HIDE DEF Apart
    <3>1. QED
      OBVIOUS
  <2> SUFFICES ASSUME NEW j \in 1 .. N, j + (d + 1) + 1 <= N
               PROVE  pieces[j].to < pieces[j + (d + 1) + 1].from
    OBVIOUS
  <2>1. /\ d \in Nat /\ j + d + 1 \in 1 .. N - 1 /\ j + d + 1 \in 1 .. N /\ j + d + 1 <= N
        /\ j + (d + 1) + 1 = (j + d + 1) + 1 /\ j + (d + 1) + 1 \in 1 .. N
    BY <1>1
  <2>2. pieces[j].to < pieces[j + d + 1].from
    BY <2>1
  <2>3. pieces[j + d + 1].to < pieces[(j + d + 1) + 1].from
    BY <1>3, <2>1
  <2>4. /\ pieces[j].to \in Nat /\ pieces[j + d + 1].from \in Nat
        /\ pieces[j + d + 1].to \in Nat /\ pieces[(j + d + 1) + 1].from \in Nat
        /\ pieces[j + d + 1].from <= pieces[j + d + 1].to
    BY <1>2, <2>1
  <2>5. QED
    BY <2>1, <2>2, <2>3, <2>4
<1>6. Nat \subseteq T
  <2> HIDE DEF T
  <2>1. T \subseteq Nat
    BY DEF T
  <2>2. QED
    BY <1>4, <1>5, <2>1, Induction
<1>7. ASSUME NEW j \in 1 .. N, NEW k \in 1 .. N, j < k
      PROVE  pieces[j].to < pieces[k].from
  <2>1. k - j - 1 \in Nat /\ j + (k - j - 1) + 1 = k /\ k <= N
    BY <1>1, <1>7
  <2>2. k - j - 1 \in T
    BY <1>6, <2>1
  <2>3. pieces[j].to < pieces[j + (k - j - 1) + 1].from
    BY <2>1, <2>2
  <2>4. QED
    BY <2>1, <2>3
<1>8. ASSUME NEW j \in 1 .. N, NEW k \in 1 .. N, pieces[j].to < pieces[k].from
      PROVE  j < k
  <2>1. j = k \/ j < k \/ k < j
    BY <1>1
  <2>2. k < j => pieces[k].to < pieces[j].from
    BY <1>7
  <2>3. QED
    BY <1>2, <1>8, <2>1, <2>2
<1>9. QED
  BY <1>1, <1>7, <1>8

LEMMA ItemIsToken ==
  ASSUME OrdinaryRead, NEW j \in Indices, NEW k \in Indices, ItemAt(j) = ItemAt(k)
  PROVE  j = k
<1>1. /\ pieces[j].to = pieces[k].to /\ pieces[j].from = pieces[k].from
  BY DEF ItemAt
<1>2. /\ pieces[j].from <= pieces[j].to
      /\ pieces[j].from \in 1 .. Len(line) /\ pieces[j].to \in 1 .. Len(line)
  BY TokenIsItem
<1>3. Len(line) \in Nat /\ j \in Nat /\ k \in Nat
  BY TokenCount, LineFacts DEF OrdinaryRead, Indices
<1>4. ~(j < k) /\ ~(k < j)
  <2>1. /\ j < k <=> pieces[j].to < pieces[k].from
        /\ k < j <=> pieces[k].to < pieces[j].from
    BY ItemsInOrder
  <2>2. ~(pieces[j].to < pieces[j].from)
    BY <1>2, <1>3
  <2>3. QED
    BY <1>1, <2>1, <2>2
<1>5. QED
  BY <1>3, <1>4

LEMMA KindOfToken ==
  ASSUME OrdinaryRead, NEW k \in Indices
  PROVE  Kind(ItemAt(k)) = tokens[k].type
<1> DEFINE a == pieces[k].from
           b == pieces[k].to
           r == ItemAt(k)
<1>1. /\ a \in 1 .. Len(line) /\ b \in 1 .. Len(line)
      /\ tokens[k].type = pieces[k].type
      /\ r \in WordRuns <=> tokens[k].type = "word"
      /\ r \in Operators <=> tokens[k].type # "word"
  BY TokenIsItem
<1>2. r = <<a, b>> /\ r[1] = a /\ r[2] = b
  BY DEF ItemAt
<1>3. CASE tokens[k].type = "word"
  BY <1>1, <1>3 DEF Kind
<1>4. CASE tokens[k].type # "word"
  <2>1. Len(line) \in Nat /\ DOMAIN line = 1 .. Len(line) /\ DOMAIN pieces = Indices
    BY TokenCount, LineFacts DEF OrdinaryRead
  <2>2. a \in Nat /\ b \in Nat /\ (b + 1) - 1 = b
    BY <1>1, <2>1
  <2>3. <<a, b>> \in Operators /\ r \notin WordRuns
    BY <1>1, <1>2, <1>4
  <2>4. /\ IsMeta(a)
        /\ b = a \/ (b = a + 1 /\ a < Len(line) /\ line[a] # "|" /\ line[a + 1] = line[a])
    BY <2>2, <2>3, OperatorPositions
  <2>5. line[a] \in {"|", "<", ">"}
    BY <2>4 DEF IsMeta, Metas
  <2>6. tokens[k].type = GetTokenType(a, b + 1)
    BY <1>1, <1>4, <2>1 DEF OrdinaryRead, AreTyped, Typed
  <2>7. At(a) = line[a]
    BY <1>1, <2>1 DEF At
  <2>8. CASE b = a
    <3>1. ~(a + 1 < b + 1)
      BY <2>2, <2>8
    <3>2. GetTokenType(a, b + 1) = IF line[a] = ">" THEN "out"
                                   ELSE IF line[a] = "<" THEN "in"
                                   ELSE IF line[a] = "|" THEN "pipe" ELSE "word"
      BY <2>7, <3>1 DEF GetTokenType
    <3>3. Kind(r) = IF line[a] = "|" THEN "pipe" ELSE IF line[a] = "<" THEN "in" ELSE "out"
      BY <1>2, <2>3, <2>8 DEF Kind
    <3>4. QED
      BY <2>5, <2>6, <3>2, <3>3
  <2>9. CASE b # a
    <3>1. a + 1 < b + 1 /\ At(a + 1) = line[a] /\ line[a] # "|"
      <4>1. b = a + 1 /\ a + 1 \in 1 .. Len(line) /\ line[a + 1] = line[a] /\ line[a] # "|"
        BY <2>1, <2>2, <2>4, <2>9
      <4>2. At(a + 1) = line[a]
        BY <2>1, <4>1 DEF At
      <4>3. QED
        BY <2>2, <4>1, <4>2
    <3>2. GetTokenType(a, b + 1) = IF line[a] = ">" THEN "append" ELSE "heredoc"
      BY <2>5, <2>7, <3>1 DEF GetTokenType
    <3>3. Kind(r) = IF line[a] = "<" THEN "heredoc" ELSE "append"
      BY <1>2, <2>3, <2>9, <3>1 DEF Kind
    <3>4. QED
      BY <2>5, <2>6, <3>1, <3>2, <3>3
  <2>10. QED
    BY <2>8, <2>9
<1>5. QED
  BY <1>3, <1>4

LEMMA NextIsAdjacent ==
  ASSUME OrdinaryRead
  PROVE  \A j, k \in Indices : Adjacent(ItemAt(j), ItemAt(k)) <=> k = j + 1
<1>1. /\ Len(pieces) \in Nat /\ Indices = 1 .. Len(pieces)
  BY TokenCount DEF Indices
<1>2. \A j, k \in Indices : ItemAt(j)[2] < ItemAt(k)[1] <=> j < k
  BY ItemsInOrder DEF ItemAt
<1>3. ASSUME NEW j \in Indices, NEW k \in Indices
      PROVE  Adjacent(ItemAt(j), ItemAt(k)) <=>
               j < k /\ \A m \in Indices : ~(j < m /\ m < k)
  <2>1. (\A t \in Items : ~(ItemAt(j)[2] < t[1] /\ t[2] < ItemAt(k)[1])) <=>
        \A m \in Indices : ~(ItemAt(j)[2] < ItemAt(m)[1] /\ ItemAt(m)[2] < ItemAt(k)[1])
    BY ItemsAreTokens, Zenon DEF ItemsAt
  <2>2. QED
    BY <1>2, <2>1 DEF Adjacent
<1>4. \A j, k \in Indices :
        (j < k /\ \A m \in Indices : ~(j < m /\ m < k)) <=> k = j + 1
  <2> TAKE j, k \in Indices
  <2>1. j < k /\ k # j + 1 => j + 1 \in Indices /\ j < j + 1 /\ j + 1 < k
    BY <1>1
  <2>2. k = j + 1 => j < k /\ \A m \in Indices : ~(j < m /\ m < k)
    BY <1>1
  <2>3. QED
    BY <2>1, <2>2
<1>5. QED
  BY <1>3, <1>4

(* What the sets of items are. *)
LEMMA SetsOfItems ==
  ASSUME OrdinaryRead
  PROVE  /\ WordRuns = ItemsAt({k \in Indices : tokens[k].type = "word"})
         /\ Pipes = ItemsAt({k \in Indices : IsPipe(k)})
         /\ Items \ Pipes = ItemsAt({k \in Indices : ~IsPipe(k)})
         /\ Operators \ Pipes = ItemsAt({k \in Indices : IsOperator(k)})
<1>1. Items = ItemsAt(Indices)
  BY ItemsAreTokens
<1>2. \A k \in Indices :
        /\ ItemAt(k) \in WordRuns <=> tokens[k].type = "word"
        /\ ItemAt(k) \in Operators <=> tokens[k].type # "word"
        /\ ItemAt(k) \in Pipes <=> IsPipe(k)
        /\ IsOperator(k) <=> tokens[k].type # "word" /\ ~IsPipe(k)
  <2> TAKE k \in Indices
  <2>1. /\ ItemAt(k) \in WordRuns <=> tokens[k].type = "word"
        /\ ItemAt(k) \in Operators <=> tokens[k].type # "word"
        /\ ItemAt(k) \in Items /\ tokens[k].type \in Types
    BY TokenIsItem
  <2>2. ItemAt(k) \in Pipes <=> IsPipe(k)
    BY <2>1, KindOfToken DEF Pipes, IsPipe
  <2>3. IsOperator(k) <=> tokens[k].type # "word" /\ ~IsPipe(k)
    BY <2>1 DEF IsOperator, IsPipe, Types, RedirTypes
  <2>4. QED
    BY <2>1, <2>2, <2>3
<1>3. WordRuns \subseteq Items /\ Operators \subseteq Items /\ Pipes \subseteq Items
  BY DEF Items, Pipes
<1>4. \A S : S \subseteq Items => S = ItemsAt({k \in Indices : ItemAt(k) \in S})
  BY <1>1 DEF ItemsAt
<1>5. WordRuns = ItemsAt({k \in Indices : tokens[k].type = "word"})
  <2>1. {k \in Indices : ItemAt(k) \in WordRuns} = {k \in Indices : tokens[k].type = "word"}
    BY <1>2
  <2>2. QED
    BY <1>3, <1>4, <2>1
<1>6. Pipes = ItemsAt({k \in Indices : IsPipe(k)})
  <2>1. {k \in Indices : ItemAt(k) \in Pipes} = {k \in Indices : IsPipe(k)}
    BY <1>2
  <2>2. QED
    BY <1>3, <1>4, <2>1
<1>7. Items \ Pipes = ItemsAt({k \in Indices : ~IsPipe(k)})
  <2>1. {k \in Indices : ItemAt(k) \in Items \ Pipes} = {k \in Indices : ~IsPipe(k)}
    BY <1>2, TokenIsItem
  <2>2. Items \ Pipes \subseteq Items
    OBVIOUS
  <2>3. QED
    BY <1>4, <2>1, <2>2
<1>8. Operators \ Pipes = ItemsAt({k \in Indices : IsOperator(k)})
  <2>1. {k \in Indices : ItemAt(k) \in Operators \ Pipes} = {k \in Indices : IsOperator(k)}
    BY <1>2
  <2>2. Operators \ Pipes \subseteq Items
    BY <1>3
  <2>3. QED
    BY <1>4, <2>1, <2>2
<1>9. QED
  BY <1>5, <1>6, <1>7, <1>8

LEMMA ItemsAtFacts ==
  ASSUME OrdinaryRead, NEW S, S \subseteq Indices, NEW k \in Indices
  PROVE  ItemAt(k) \in ItemsAt(S) <=> k \in S
<1>1. ASSUME ItemAt(k) \in ItemsAt(S) PROVE k \in S
  <2>1. PICK j \in S : ItemAt(k) = ItemAt(j)
    BY <1>1 DEF ItemsAt
  <2>2. j = k
    BY <2>1, ItemIsToken
  <2>3. QED
    BY <2>2
<1>2. k \in S => ItemAt(k) \in ItemsAt(S)
  BY DEF ItemsAt
<1>3. QED
  BY <1>1, <1>2

LEMMA AdjacentItems ==
  ASSUME NEW A, NEW B
  PROVE  /\ (\A r \in ItemsAt(A) : \E s \in ItemsAt(B) : Adjacent(r, s))
               <=> (\A k \in A : \E j \in B : Adjacent(ItemAt(k), ItemAt(j)))
         /\ (\A r \in ItemsAt(A) : \E s \in ItemsAt(B) : Adjacent(s, r))
               <=> (\A k \in A : \E j \in B : Adjacent(ItemAt(j), ItemAt(k)))
<1>1. /\ \A x : x \in ItemsAt(A) <=> \E k \in A : x = ItemAt(k)
      /\ \A x : x \in ItemsAt(B) <=> \E k \in B : x = ItemAt(k)
  BY DEF ItemsAt
<1>2. (\A r \in ItemsAt(A) : \E s \in ItemsAt(B) : Adjacent(r, s))
        <=> (\A k \in A : \E j \in B : Adjacent(ItemAt(k), ItemAt(j)))
  BY <1>1
<1>3. (\A r \in ItemsAt(A) : \E s \in ItemsAt(B) : Adjacent(s, r))
        <=> (\A k \in A : \E j \in B : Adjacent(ItemAt(j), ItemAt(k)))
  BY <1>1
<1>4. QED
  BY <1>2, <1>3

LEMMA SameGrammar ==
  ASSUME OrdinaryRead
  PROVE  InLineGrammar <=> InGrammar
<1> DEFINE N == Len(pieces)
<1>1. /\ N \in Nat /\ N > 0 /\ Indices = 1 .. N /\ Len(tokens) = N
  BY TokenCount DEF Indices
<1>2. \A j, k \in Indices : Adjacent(ItemAt(j), ItemAt(k)) <=> k = j + 1
  BY NextIsAdjacent
<1>3. Items # {}
  <2>1. 1 \in Indices
    BY <1>1
  <2>2. QED
    BY <2>1, TokenIsItem
<1> HIDE DEF N
<1>4. (\A r \in Pipes : /\ \E s \in Items \ Pipes : Adjacent(s, r)
                        /\ \E s \in Items \ Pipes : Adjacent(r, s))
      <=> \A k \in Indices : IsPipe(k) =>
            /\ \E j \in Indices : ~IsPipe(j) /\ k = j + 1
            /\ \E j \in Indices : ~IsPipe(j) /\ j = k + 1
  <2>1. (\A r \in Pipes : /\ \E s \in Items \ Pipes : Adjacent(s, r)
                          /\ \E s \in Items \ Pipes : Adjacent(r, s))
        <=> \A k \in {k \in Indices : IsPipe(k)} :
              /\ \E j \in {j \in Indices : ~IsPipe(j)} : Adjacent(ItemAt(j), ItemAt(k))
              /\ \E j \in {j \in Indices : ~IsPipe(j)} : Adjacent(ItemAt(k), ItemAt(j))
    <3> DEFINE A == {k \in Indices : IsPipe(k)}
               B == {j \in Indices : ~IsPipe(j)}
    <3>1. Pipes = ItemsAt(A) /\ Items \ Pipes = ItemsAt(B)
      BY SetsOfItems
    <3> HIDE DEF A, B
    <3>2. /\ (\A r \in Pipes : \E s \in Items \ Pipes : Adjacent(r, s))
               <=> (\A k \in A : \E j \in B : Adjacent(ItemAt(k), ItemAt(j)))
          /\ (\A r \in Pipes : \E s \in Items \ Pipes : Adjacent(s, r))
               <=> (\A k \in A : \E j \in B : Adjacent(ItemAt(j), ItemAt(k)))
      BY <3>1, AdjacentItems
    <3>3. QED
      BY <3>2, Zenon DEF A, B
  <2>2. QED
    BY <1>2, <2>1
<1>5. (\A r \in Operators \ Pipes : \E s \in WordRuns : Adjacent(r, s))
      <=> \A k \in Indices : IsOperator(k) =>
            \E j \in Indices : tokens[j].type = "word" /\ j = k + 1
  <2>1. (\A r \in Operators \ Pipes : \E s \in WordRuns : Adjacent(r, s))
        <=> \A k \in {k \in Indices : IsOperator(k)} :
              \E j \in {j \in Indices : tokens[j].type = "word"} :
                Adjacent(ItemAt(k), ItemAt(j))
    <3> DEFINE A == {k \in Indices : IsOperator(k)}
               B == {j \in Indices : tokens[j].type = "word"}
    <3>1. Operators \ Pipes = ItemsAt(A) /\ WordRuns = ItemsAt(B)
      BY SetsOfItems
    <3> HIDE DEF A, B
    <3>2. (\A r \in Operators \ Pipes : \E s \in WordRuns : Adjacent(r, s))
            <=> (\A k \in A : \E j \in B : Adjacent(ItemAt(k), ItemAt(j)))
      BY <3>1, AdjacentItems
    <3>3. QED
      BY <3>2 DEF A, B
  <2>2. QED
    BY <1>2, <2>1
<1>6. (\A k \in Indices : IsPipe(k) =>
            /\ \E j \in Indices : ~IsPipe(j) /\ k = j + 1
            /\ \E j \in Indices : ~IsPipe(j) /\ j = k + 1)
      <=> /\ ~IsPipe(1) /\ ~IsPipe(N)
          /\ \A k \in 1 .. N - 1 : IsPipe(k) => ~IsPipe(k + 1)
  <2>1. ASSUME \A k \in Indices : IsPipe(k) =>
                 /\ \E j \in Indices : ~IsPipe(j) /\ k = j + 1
                 /\ \E j \in Indices : ~IsPipe(j) /\ j = k + 1
        PROVE  /\ ~IsPipe(1) /\ ~IsPipe(N)
               /\ \A k \in 1 .. N - 1 : IsPipe(k) => ~IsPipe(k + 1)
    <3>1. 1 \in Indices /\ N \in Indices
      BY <1>1
    <3>2. \A j \in Indices : 1 # j + 1 /\ j # N + 1
      BY <1>1
    <3>3. \A k \in 1 .. N - 1 : k \in Indices
      BY <1>1
    <3>4. QED
      BY <2>1, <3>1, <3>2, <3>3
  <2>2. ASSUME ~IsPipe(1), ~IsPipe(N),
               \A k \in 1 .. N - 1 : IsPipe(k) => ~IsPipe(k + 1),
               NEW k \in Indices, IsPipe(k)
        PROVE  /\ \E j \in Indices : ~IsPipe(j) /\ k = j + 1
               /\ \E j \in Indices : ~IsPipe(j) /\ j = k + 1
    <3>1. k # 1 /\ k # N
      BY <2>2
    <3>2. /\ k - 1 \in 1 .. N - 1 /\ k \in 1 .. N - 1 /\ k = (k - 1) + 1
          /\ k - 1 \in Indices /\ k + 1 \in Indices
      BY <1>1, <3>1
    <3>3. ~IsPipe(k + 1)
      BY <2>2, <3>2
    <3>4. ~IsPipe(k - 1)
      BY <2>2, <3>2
    <3>5. QED
      BY <3>2, <3>3, <3>4
  <2>3. QED
    BY <2>1, <2>2
<1>7. (\A k \in Indices : IsOperator(k) =>
            \E j \in Indices : tokens[j].type = "word" /\ j = k + 1)
      <=> \A k \in 1 .. N : IsOperator(k) => k < N /\ tokens[k + 1].type = "word"
  <2>1. \A k \in 1 .. N : k < N <=> k + 1 \in Indices
    BY <1>1
  <2>2. QED
    BY <1>1, <2>1
<1>8. InLineGrammar <=>
        /\ ~IsPipe(1) /\ ~IsPipe(N)
        /\ \A k \in 1 .. N - 1 : IsPipe(k) => ~IsPipe(k + 1)
        /\ \A k \in 1 .. N : IsOperator(k) => k < N /\ tokens[k + 1].type = "word"
  BY <1>3, <1>4, <1>5, <1>6, <1>7, Zenon DEF InLineGrammar
<1>9. QED
  BY <1>1, <1>8 DEF InGrammar

LEMMA ItemsCounted ==
  ASSUME OrdinaryRead, NEW S, S \subseteq Indices
  PROVE  Cardinality(ItemsAt(S)) = Cardinality(S)
<1> DEFINE f == [k \in S |-> ItemAt(k)]
<1>1. IsFiniteSet(S)
  <2>1. IsFiniteSet(Indices)
    BY TokenCount, FS_Interval DEF Indices
  <2>2. QED
    BY <2>1, FS_Subset
<1>2. f \in [S -> ItemsAt(S)]
  BY DEF ItemsAt
<1>3. \A j, k \in S : f[j] = f[k] => j = k
  BY ItemIsToken
<1>4. \A r \in ItemsAt(S) : \E k \in S : f[k] = r
  BY DEF ItemsAt
<1> HIDE DEF f
<1>5. f \in Bijection(S, ItemsAt(S))
  BY <1>2, <1>3, <1>4 DEF Bijection, Injection, Surjection, IsInjective
<1>6. ExistsBijection(S, ItemsAt(S))
  BY <1>5 DEF ExistsBijection
<1>7. QED
  BY <1>1, <1>6, FS_Bijection

(* The command a word is in, by its characters and by its token. *)
LEMMA CommandOfItem ==
  ASSUME OrdinaryRead, NEW k \in Indices
  PROVE  1 + Cardinality({r \in Pipes : r[2] < ItemAt(k)[1]}) = CommandOf(k)
<1> DEFINE S == {p \in 1 .. k - 1 : IsPipe(p)}
<1>1. Len(pieces) \in Nat /\ Indices = 1 .. Len(pieces)
  BY TokenCount DEF Indices
<1>2. \A p : p \in S <=> p \in Indices /\ IsPipe(p) /\ p < k
  BY <1>1
<1>3. \A p \in Indices : ItemAt(p)[2] < ItemAt(k)[1] <=> p < k
  BY ItemsInOrder DEF ItemAt
<1> HIDE DEF S
<1>4. {r \in Pipes : r[2] < ItemAt(k)[1]} = ItemsAt(S)
  <2>1. Pipes = ItemsAt({p \in Indices : IsPipe(p)})
    BY SetsOfItems
  <2>2. QED
    BY <1>2, <1>3, <2>1, Zenon DEF ItemsAt
<1>5. S \subseteq Indices
  BY <1>2
<1>6. Cardinality(ItemsAt(S)) = Cardinality(S)
  BY <1>5, ItemsCounted
<1>7. QED
  BY <1>4, <1>6 DEF CommandOf, S

LEMMA WordsOfCommand ==
  ASSUME OrdinaryRead, current = Len(tokens) + 1, NEW c, NEW T
  PROVE  WordsOf(c, T) = ItemsAt(Words(c, T))
<1>1. Len(pieces) \in Nat /\ Indices = 1 .. Len(pieces) /\ current - 1 = Len(pieces)
  BY TokenCount DEF Indices
<1>2. \A k \in Indices : c = 1 + Cardinality({r \in Pipes : r[2] < ItemAt(k)[1]})
                         <=> CommandOf(k) = c
  BY CommandOfItem
<1>3. \A k \in Indices : (\E r \in Items : Kind(r) \in T /\ Adjacent(r, ItemAt(k)))
                         <=> Follows(k, T)
  <2> TAKE k \in Indices
  <2>1. (\E r \in Items : Kind(r) \in T /\ Adjacent(r, ItemAt(k)))
        <=> \E j \in Indices : Kind(ItemAt(j)) \in T /\ Adjacent(ItemAt(j), ItemAt(k))
    BY ItemsAreTokens, Zenon DEF ItemsAt
  <2>2. (\E j \in Indices : Kind(ItemAt(j)) \in T /\ Adjacent(ItemAt(j), ItemAt(k)))
        <=> \E j \in Indices : tokens[j].type \in T /\ k = j + 1
    BY KindOfToken, NextIsAdjacent
  <2>3. (\E j \in Indices : tokens[j].type \in T /\ k = j + 1) <=> Follows(k, T)
    <3>1. \A j \in Indices : k = j + 1 <=> k > 1 /\ j = k - 1
      BY <1>1
    <3>2. k > 1 => k - 1 \in Indices
      BY <1>1
    <3>3. QED
      BY <3>1, <3>2 DEF Follows
  <2>4. QED
    BY <2>1, <2>2, <2>3
<1>4. Words(c, T) = {k \in {k \in Indices : tokens[k].type = "word"} :
                       CommandOf(k) = c /\ Follows(k, T)}
  BY <1>1 DEF Words
<1>5. WordRuns = ItemsAt({k \in Indices : tokens[k].type = "word"})
  BY SetsOfItems
<1>6. QED
  BY <1>2, <1>3, <1>4, <1>5, Zenon DEF WordsOf, ItemsAt

LEMMA ArgumentsOfCommand ==
  ASSUME OrdinaryRead, current = Len(tokens) + 1, NEW c
  PROVE  ArgumentsOf(c) = ItemsAt(Arguments(c))
<1> DEFINE T == RedirTypes \cup {"heredoc"}
           A == {k \in Indices : tokens[k].type = "word" /\ CommandOf(k) = c}
<1>1. Len(pieces) \in Nat /\ Indices = 1 .. Len(pieces) /\ current - 1 = Len(pieces)
  BY TokenCount DEF Indices
<1>2. T = {"in", "out", "append", "heredoc"}
  BY DEF RedirTypes
<1> HIDE DEF T
<1>3. WordsOf(c, T) = ItemsAt(Words(c, T)) /\ Words(c, T) \subseteq Indices
  BY <1>1, WordsOfCommand DEF Words
<1>4. \A k \in Indices : c = 1 + Cardinality({r \in Pipes : r[2] < ItemAt(k)[1]})
                         <=> CommandOf(k) = c
  BY CommandOfItem
<1>5. WordRuns = ItemsAt({k \in Indices : tokens[k].type = "word"})
  BY SetsOfItems
<1>6. {w \in WordRuns : c = 1 + Cardinality({r \in Pipes : r[2] < w[1]})} = ItemsAt(A)
  BY <1>4, <1>5, Zenon DEF ItemsAt
<1>7. ArgumentsOf(c) = ItemsAt(A) \ ItemsAt(Words(c, T))
  BY <1>2, <1>3, <1>6 DEF ArgumentsOf
<1>8. Arguments(c) = A \ Words(c, T)
  <2>1. \A k \in Indices : ~tokens[k].found
    BY TokenIsItem
  <2>2. \A k : k \in Arguments(c) <=> k \in A /\ ~Follows(k, T)
    BY <1>1, <2>1 DEF Arguments, T
  <2>3. \A k \in A : k \in Words(c, T) <=> Follows(k, T)
    BY <1>1 DEF Words
  <2>4. QED
    BY <2>2, <2>3
<1>9. A \subseteq Indices
  OBVIOUS
<1> HIDE DEF A
<1>10. ItemsAt(A) \ ItemsAt(Words(c, T)) = ItemsAt(A \ Words(c, T))
  <2>1. \A k \in A : ItemAt(k) \in ItemsAt(Words(c, T)) <=> k \in Words(c, T)
    BY <1>3, <1>9, ItemsAtFacts
  <2>2. QED
    BY <2>1 DEF ItemsAt
<1>11. QED
  BY <1>7, <1>8, <1>10

(* A list of tokens in their order is a list of items in theirs. *)
LEMMA ListedItems ==
  ASSUME OrdinaryRead, NEW s \in Seq(Nat), NEW S, S \subseteq Indices, Lists(s, S)
  PROVE  Are(s, ItemsAt(S))
<1>1. /\ {s[k] : k \in DOMAIN s} = S
      /\ \A k \in 1 .. Len(s) - 1 : s[k] < s[k + 1]
  BY DEF Lists
<1>2. {ItemAt(s[k]) : k \in DOMAIN s} = ItemsAt(S)
  BY <1>1 DEF ItemsAt
<1>3. \A k \in DOMAIN s : s[k] \in Indices
  BY <1>1
<1>4. \A k \in 1 .. Len(s) - 1 : k \in DOMAIN s /\ k + 1 \in DOMAIN s
  OBVIOUS
<1>5. \A k \in 1 .. Len(s) - 1 : pieces[s[k]].to < pieces[s[k + 1]].from
  BY <1>1, <1>3, <1>4, ItemsInOrder
<1>6. QED
  BY <1>2, <1>5 DEF Are, ItemAt

LEMMA SInvSays == SInv => ExecutesWhatItSays
<1> SUFFICES ASSUME SInv, Ordinary, where \in {"parser", "execution"}
             PROVE  /\ where = "parser" /\ result = "refused" => ~InLineGrammar
                    /\ where = "execution" =>
                         /\ IsClosedQuotes
                         /\ InLineGrammar
                         /\ Len(commands) = 1 + Cardinality(Pipes)
                         /\ \A c \in DOMAIN commands :
                              /\ Are(commands[c].args, ArgumentsOf(c))
                              /\ Are(commands[c].redir, WordsOf(c, {"in", "out", "append"}))
                              /\ Are(commands[c].herdoc, WordsOf(c, {"heredoc"}))
  BY DEF ExecutesWhatItSays
<1>1. /\ pc = "done" /\ pieces # <<>> /\ tokens = TokensOf(pieces)
      /\ PInv /\ LineInv /\ LInv /\ PiecesInv
      /\ where = "execution" => result = "accepted"
  BY DEF SInv, LineRead, LineParsed
<1>2. IsClosedQuotes
  BY <1>1 DEF PiecesInv
<1>3. OrdinaryRead
  <2>1. line \in Lines /\ pieces \in Seq(Joint) /\ SplitsIntoWords
    BY <1>1 DEF LInv, Places
  <2>2. IsItsItems
    BY <1>1, <1>2, <2>1 DEF SplitsIntoWords
  <2>3. QED
    BY <1>1, <2>1, <2>2 DEF OrdinaryRead, PiecesInv
<1>4. InLineGrammar <=> InGrammar
  BY <1>3, SameGrammar
<1>5. Plain
  BY <1>3, TokenCount, TokenIsItem DEF Plain, Indices
<1>6. AcceptsTheGrammar
  BY <1>1, PInvDecides
<1>7. CASE where = "parser"
  BY <1>4, <1>5, <1>6, <1>7 DEF AcceptsTheGrammar
<1>8. CASE where = "execution"
  <2>1. /\ result = "accepted" /\ InGrammar /\ current = Len(tokens) + 1
    BY <1>1, <1>6, <1>8 DEF AcceptsTheGrammar, PInv, Ended
  <2>2. CommandsAreTheLine
    BY <1>1, LineHolds
  <2>3. Len(commands) = 1 + Cardinality(Pipes)
    <3> DEFINE S == {p \in Indices : IsPipe(p)}
    <3>1. Len(commands) = 1 + Cardinality(S)
      BY <1>3, <2>1, <2>2, TokenCount DEF CommandsAreTheLine
    <3>2. Pipes = ItemsAt(S) /\ S \subseteq Indices
      BY <1>3, SetsOfItems
    <3> HIDE DEF S
    <3>3. QED
      BY <1>3, <3>1, <3>2, ItemsCounted
  <2>4. ASSUME NEW c \in DOMAIN commands
        PROVE  /\ Are(commands[c].args, ArgumentsOf(c))
               /\ Are(commands[c].redir, WordsOf(c, {"in", "out", "append"}))
               /\ Are(commands[c].herdoc, WordsOf(c, {"heredoc"}))
    <3>1. commands \in Seq(Command)
      BY <1>1 DEF PInv, ParserTypeOK
    <3>2. c \in 1 .. Len(commands) /\ commands[c] \in Command
      BY <3>1
    <3>3. /\ commands[c].args \in Seq(Nat) /\ commands[c].redir \in Seq(Nat)
          /\ commands[c].herdoc \in Seq(Nat)
      BY <3>2 DEF Command
    <3>4. /\ Lists(commands[c].args, Arguments(c))
          /\ Lists(commands[c].redir, Words(c, RedirTypes))
          /\ Lists(commands[c].herdoc, Words(c, {"heredoc"}))
      BY <2>2, <3>2 DEF CommandsAreTheLine
    <3>5. /\ Arguments(c) \subseteq Indices
          /\ \A T : Words(c, T) \subseteq Indices
      <4>1. current - 1 = Len(pieces)
        BY <1>3, <2>1, TokenCount
      <4>2. QED
        BY <4>1 DEF Arguments, Words, Indices
    <3>6. /\ Are(commands[c].args, ItemsAt(Arguments(c)))
          /\ Are(commands[c].redir, ItemsAt(Words(c, RedirTypes)))
          /\ Are(commands[c].herdoc, ItemsAt(Words(c, {"heredoc"})))
      BY <1>3, <3>3, <3>4, <3>5, ListedItems
    <3>7. /\ ArgumentsOf(c) = ItemsAt(Arguments(c))
          /\ WordsOf(c, RedirTypes) = ItemsAt(Words(c, RedirTypes))
          /\ WordsOf(c, {"heredoc"}) = ItemsAt(Words(c, {"heredoc"}))
      BY <1>3, <2>1, ArgumentsOfCommand, WordsOfCommand
    <3>8. QED
      BY <3>6, <3>7 DEF RedirTypes
  <2>5. QED
    BY <1>2, <1>4, <1>8, <2>1, <2>3, <2>4
<1>9. QED
  BY <1>7, <1>8

(***************************************************************************)
(* A line of any length whose dollars begin variables of one word is       *)
(* executed if and only if its characters are in the grammar, and each     *)
(* word of it is in its command, as what it stands for (tokenize,          *)
(* join_nodes, parse_tokens and the handlers behind it, put together by    *)
(* parsing_process).                                                       *)
(***************************************************************************)
THEOREM TheLineIsExecuted == Spec => []ExecutesWhatItSays
BY SInvSays, SessionInvariance, PTL

=============================================================================
