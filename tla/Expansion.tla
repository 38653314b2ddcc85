----------------------------- MODULE Expansion ------------------------------
(***************************************************************************)
(* expand_env: the copy of a word, or of a line of a here-document, in     *)
(* which variables and $? are replaced by their values.  The copy is       *)
(* written into a block that is measured once and grows with the values.   *)
(* A word is a sequence of items, each with the characters that stand for  *)
(* it and with the value it has; a block is its size.                      *)
(*                                                                         *)
(* The definitions named X_... are what a slip could make of the           *)
(* definition X that follows them; no action uses them.                    *)
(***************************************************************************)
EXTENDS Integers, Sequences, SequencesExt

CONSTANTS
  Words,       \* the words to expand
  Margin       \* the room for values a block starts with

(* "c" is any other character. *)
Chars == {"'", "\"", "c", " "}

Item == [sort   : {"text", "var", "unset", "status"},
         source : Seq(Chars) \ {<<>>},
         value  : Seq(Chars)]

ASSUME ExpansionAssumption ==
  /\ \A w \in Words : /\ w \in Seq(Item)
                      /\ \A k \in DOMAIN w :
                           w[k].sort # "text" => Len(w[k].source) >= 2
  /\ Margin \in Nat

VARIABLES
  str,         \* the word
  expand_herdoc,   \* it is a line of a here-document
  next,        \* the item to read
  result,      \* what has been written
  old_size,    \* the size the function believes in
  block,       \* the size of the block
  outcome      \* "open", "done", or "outside": a write behind the block

expansionVars == <<str, expand_herdoc, next, result, old_size, block, outcome>>

NUL == "NUL"

SourceOf(w) == FlattenSeq([k \in DOMAIN w |-> w[k].source])

ExpansionInit ==
  /\ str \in Words
  /\ expand_herdoc \in BOOLEAN
  /\ next = 1
  /\ result = <<>>
  /\ old_size = Len(SourceOf(str)) + 2 + Margin
  /\ block = old_size
  /\ outcome = "open"

-----------------------------------------------------------------------------
FirstChar == IF str = <<>> THEN NUL ELSE str[1].source[1]

(* flaging *)
InQuotes == FirstChar \in {"'", "\""}

(* con: nothing is replaced in single quotes; in a here-document variables *)
(* are all the same.                                                       *)
IsReplaced(item) ==
  \/ item.sort \in {"var", "unset", "status"} /\ FirstChar # "'"
  \/ item.sort \in {"var", "unset"} /\ expand_herdoc

(* make_like_bash, when the word begins with no quote: each run of blanks  *)
(* becomes one.                                                            *)
MakeLikeBash(s) ==
  FlattenSeq([k \in DOMAIN s |->
                IF k > 1 /\ s[k] = " " /\ s[k - 1] = " " THEN <<>> ELSE <<s[k]>>])

Reads(S) ==
  /\ outcome = "open"
  /\ next <= Len(str)
  /\ str[next].sort \in S

(* Characters are written where the last one ended, and more behind them   *)
(* that the next ones replace; the block has the given size.               *)
Write(s, more, size) ==
  LET fits == Len(result) + Len(s) + more <= size IN
    /\ result' = result \o s
    /\ outcome' = IF fits THEN outcome ELSE "outside"
    /\ next' = IF fits THEN next + 1 ELSE next
    /\ UNCHANGED <<str, expand_herdoc>>

(* Text of the word itself is written without a look at the size. *)
CopyText ==
  /\ Reads({"text", "var", "unset", "status"})
  /\ ~IsReplaced(str[next])
  /\ Write(str[next].source, 0, block)
  /\ UNCHANGED <<old_size, block>>

CopyUnset_Nothing ==
  /\ Reads({"unset"})
  /\ IsReplaced(str[next])
  /\ Write(<<>>, 0, block)
  /\ UNCHANGED <<old_size, block>>

(* simple_condition: a NUL stands for a variable without a value. *)
CopyUnset ==
  /\ Reads({"unset"})
  /\ IsReplaced(str[next])
  /\ Write(<<NUL>>, 0, block)
  /\ UNCHANGED <<old_size, block>>

Grows_Late(len) == Len(result) + len > old_size + 1

Grows(len) == Len(result) + len >= old_size

(***************************************************************************)
(* make_the_envirement: the block grows to what it needs up to the end of  *)
(* the value, and to nothing for what stands behind it.  A value that is   *)
(* copied as it is takes its NUL along.                                    *)
(***************************************************************************)
CopyValue ==
  /\ Reads({"var", "status"})
  /\ IsReplaced(str[next])
  /\ LET len == Len(str[next].value)
         size == IF Grows(len) THEN Len(result) + len + 1 ELSE block IN
       /\ old_size' = IF Grows(len) THEN Len(result) + len ELSE old_size
       /\ block' = size
       /\ IF InQuotes THEN Write(str[next].value, 1, size)
          ELSE Write(MakeLikeBash(str[next].value), 0, size)

(* The NUL at the end. *)
Finish ==
  /\ outcome = "open"
  /\ next > Len(str)
  /\ outcome' = IF Len(result) + 1 > block THEN "outside" ELSE "done"
  /\ UNCHANGED <<str, expand_herdoc, next, result, old_size, block>>

Stopped == outcome # "open" /\ UNCHANGED expansionVars

ExpansionNext == CopyText \/ CopyUnset \/ CopyValue \/ Finish \/ Stopped

ExpansionSpec == ExpansionInit /\ [][ExpansionNext]_expansionVars

-----------------------------------------------------------------------------
(***************************************************************************)
(* Properties.                                                             *)
(***************************************************************************)
ExpansionTypeOK ==
  /\ str \in Words
  /\ expand_herdoc \in BOOLEAN
  /\ next \in 1 .. Len(str) + 1
  /\ result \in Seq(Chars \cup {NUL})
  /\ old_size \in Nat
  /\ block \in {old_size, old_size + 1}
  /\ outcome \in {"open", "done", "outside"}

(***************************************************************************)
(* The room a word needs: a word whose values are together no longer than  *)
(* the margin is expanded inside of its block, and a value never comes to  *)
(* lie outside, however long it is, since the block grows with it.  What   *)
(* can lie outside are characters of the word itself behind longer values, *)
(* and the NUL of a variable without one.                                  *)
(***************************************************************************)
IsValue(k) == str[k].sort \in {"var", "status"} /\ IsReplaced(str[k])

ValuesRead ==
  FlattenSeq([k \in 1 .. next - 1 |-> IF IsValue(k) THEN str[k].value ELSE <<>>])

StaysInside ==
  outcome = "outside" => /\ Len(ValuesRead) > Margin
                         /\ next <= Len(str) => ~IsValue(next)

(***************************************************************************)
(* What the rest of the shell reads of the copy ends at its first NUL: it  *)
(* is the word with its values up to the first variable that has none, and *)
(* all of it when there is no such variable.                               *)
(***************************************************************************)
Expanded(n) ==
  FlattenSeq([k \in 1 .. n |->
    IF ~IsReplaced(str[k]) THEN str[k].source
    ELSE IF InQuotes THEN str[k].value
    ELSE MakeLikeBash(str[k].value)])

IsUnset(k) == str[k].sort = "unset" /\ IsReplaced(str[k])

ReadAsText ==
  LET ends == {k \in DOMAIN result : result[k] = NUL} IN
    IF ends = {} THEN result ELSE SubSeq(result, 1, Min(ends) - 1)

ExpandsUpToUnset ==
  outcome = "done" =>
    LET cut == {k \in DOMAIN str : IsUnset(k)} IN
      ReadAsText = IF cut = {} THEN Expanded(Len(str)) ELSE Expanded(Min(cut) - 1)

=============================================================================
