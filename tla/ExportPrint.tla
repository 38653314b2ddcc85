---------------------------- MODULE ExportPrint -----------------------------
(***************************************************************************)
(* export without arguments: a copy of the array and the list, put         *)
(* together and sorted, is printed.  The definition named SortPass_Short   *)
(* is what a slip could make of SortPass; nothing uses it.                 *)
(***************************************************************************)
EXTENDS Environment

CONSTANT
  Rank         \* the place of a line NAME=value or NAME in the order of
               \* ft_strcmp

Printable == [name : Names, value : Values \cup {Declared}]

ASSUME RankAssumption ==
  /\ Rank \in [Printable -> Nat]
  /\ \A a, b \in Printable : Rank[a] = Rank[b] => a = b

-----------------------------------------------------------------------------
(* create_combined_list: the entries of the array, and behind them the     *)
(* names of the list.                                                      *)
CreateCombinedList ==
  env \o [k \in DOMAIN exported |-> [name |-> exported[k], value |-> Declared]]

SwapIfGreater(s, j) ==
  IF Rank[s[j]] > Rank[s[j + 1]]
  THEN [s EXCEPT ![j] = s[j + 1], ![j + 1] = s[j]]
  ELSE s

(* The arrays of one pass: the k-th is what k comparisons leave of s. *)
Pass(s) ==
  LET pass[k \in 0 .. Len(s) - 1] ==
        IF k = 0 THEN s ELSE SwapIfGreater(pass[k - 1], k)
  IN  pass

SortPass_Short(s, i) == Pass(s)[Len(s) - i - 1]

(* The i-th pass of sort_env_array; the last i - 1 places are sorted. *)
SortPass(s, i) == Pass(s)[Len(s) - i]

(* The i-th is what i passes leave of s. *)
Passes(s) ==
  LET passes[i \in 0 .. Len(s) - 1] ==
        IF i = 0 THEN s ELSE SortPass(passes[i - 1], i)
  IN  passes

SortEnvArray(s) == IF Len(s) < 2 THEN s ELSE Passes(s)[Len(s) - 1]

(* print_export_env *)
Printed == SortEnvArray(CreateCombinedList)

-----------------------------------------------------------------------------
(***************************************************************************)
(* Whatever export, unset and cd did, the lines that are printed are in    *)
(* order, and for every name that has a value or is listed there is one,   *)
(* with its value; only PWD and OLDPWD may have two, in the case of        *)
(* OverlapOnlyByCd.                                                        *)
(***************************************************************************)
LinesOf(p, n) == {k \in DOMAIN p : p[k].name = n}

PrintsWhatIsExported ==
  LET p == Printed IN
    /\ \A k \in 1 .. Len(p) - 1 : Rank[p[k]] < Rank[p[k + 1]]
    /\ \A n \in Names :
         IF ~Has(env, n) /\ ~Lists(exported, n) THEN LinesOf(p, n) = {}
         ELSE /\ \E k \in LinesOf(p, n) :
                   p[k].value = IF Has(env, n) THEN GetEnv(env, n) ELSE Declared
              /\ \/ Cardinality(LinesOf(p, n)) = 1
                 \/ Cardinality(LinesOf(p, n)) = 2 /\ n \in {PWD, OLDPWD}

=============================================================================
