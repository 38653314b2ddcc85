-------------------------- MODULE LexerInvariant ---------------------------
(***************************************************************************)
(* The inductive invariant of Lexer: what the piece that is read may hold, *)
(* and what the pieces behind it stand for.                                *)
(***************************************************************************)
EXTENDS Lexer

Positions == 1 .. Len(line)

Piece == {t \in [from : Positions, to : Positions, type : Types,
                 info : BOOLEAN, found : BOOLEAN] : t.from <= t.to}

Joint == [from : Positions, to : Positions, type : Types, tail : Types,
          found : BOOLEAN, quoted : BOOLEAN]

Places ==
  /\ line \in Lines /\ value \in ValuesOf(line) /\ status \in Nat
  /\ pc \in {"check", "scan", "join", "done"}
  /\ start \in 1 .. Len(line) + 1
  /\ end \in start .. Len(line) + 2
  /\ end = Len(line) + 2 => start = Len(line) + 1
  /\ pc = "check" => start = 1 /\ end = 1
  /\ pc # "done" => pieces \in Seq(Piece)
  /\ pc = "check" => pieces = <<>>
  /\ pc \in {"scan", "join"} => IsClosedQuotes
  /\ pc = "join" => end > Len(line)

(* The pieces t end before q, one behind the other or at the same place.   *)
InOrder(t, q) ==
  /\ \A k \in DOMAIN t : t[k].to < q
  /\ \A j, k \in DOMAIN t : j < k => t[j].to <= t[k].to

-----------------------------------------------------------------------------
(***************************************************************************)
(* What is known when the quotes are seen: the piece that is read has text *)
(* only, but for the character behind a $?.                                *)
(***************************************************************************)
PlainText(s, e) ==
  /\ \A p \in s .. e : p <= Len(line) + 1 => Unquoted(p)
  /\ \A p \in s + 1 .. e - 1 : At(p) \in Letters \cup {"NUL"}
  /\ s < e => At(s) \in Letters \cup {"$", "NUL"} \/ BehindStatus(s)
  /\ s < e /\ At(s) = "$" /\ At(s + 1) = "a" => BehindStatus(s)

(* What a position of a piece may be. *)
MayHold(p, type) == IsText(p) \/ BehindStatus(p) \/ (IsMeta(p) /\ type # "word")

OperatorHas(t) ==
  \/ IsMeta(t.from)
  \/ /\ IsVariable(t.from, t.to + 1) /\ Unquoted(t.from)
     /\ value[t.from] \in OperatorTypes

(* An operator of the line is joined to nothing. *)
StandsAlone(t, k) ==
  \A p \in t[k].from .. t[k].to : IsMeta(p) /\ ~BehindStatus(p) =>
    ~t[k].info /\ (k > 1 => ~t[k - 1].info)

(* A piece is joined across text that is dropped and where words are glued. *)
JoinedAcross(a, q) == \A p \in a + 1 .. q - 1 : IsText(p) \/ GluedAt(p)

Meaning(t, q) ==
  /\ \A k \in DOMAIN t :
       /\ \A p \in t[k].from .. t[k].to : MayHold(p, t[k].type)
       /\ t[k].type # "word" => OperatorHas(t[k])
       /\ StandsAlone(t, k)
       /\ t[k].info => JoinedAcross(t[k].to, IF k = Len(t) THEN q ELSE t[k + 1].from)

(* At blanks only a split piece is joined to what follows. *)
EndsSplit(t, e) ==
  t # <<>> /\ t[Len(t)].info => \E r \in 1 .. e - 2 : IsSplit(r, e)

BlankGlues(t, s, e) == s = e /\ At(s) = " " => EndsSplit(t, s)

Sees(t, s, e) == PlainText(s, e) /\ Meaning(t, s) /\ BlankGlues(t, s, e)

-----------------------------------------------------------------------------
(***************************************************************************)
(* What is known of an ordinary line: its pieces are its operators and     *)
(* parts of its words, and there are blanks between them.                  *)
(***************************************************************************)
IsItem(t) ==
  IF t.type = "word"
  THEN /\ \A p \in t.from .. t.to : IsText(p)
       /\ t.info <=> (t.to < Len(line) /\ IsText(t.to + 1))
  ELSE <<t.from, t.to>> \in Operators /\ ~t.info

AreItems(t, q) ==
  /\ \A k \in DOMAIN t : IsItem(t[k])
  /\ \A j, k \in DOMAIN t : j < k => t[j].to < t[k].from
  /\ \A p \in 1 .. q - 1 :
       IsBlank(p) \/ \E k \in DOMAIN t : p \in t[k].from .. t[k].to

Sorts(t, s, e) ==
  /\ AreItems(t, s)
  /\ \A p \in s .. e - 1 : At(p) \in Letters
  /\ s = e /\ s <= Len(line) => Repeated(s) % 2 = 0

LInv ==
  /\ Places
  /\ pc = "scan" =>
       /\ InOrder(pieces, start)
       /\ InStep => Sees(pieces, start, end)
       /\ Ordinary => Sorts(pieces, start, end)
  /\ pc = "join" =>
       /\ InOrder(pieces, Len(line) + 1)
       /\ InStep => Meaning(pieces, Len(line) + 1)
       /\ Ordinary => AreItems(pieces, Len(line) + 1)
  /\ pc = "done" =>
       pieces \in Seq(Joint) /\ LexerTypeOK /\ QuotedIsText /\ SplitsIntoWords

=============================================================================
