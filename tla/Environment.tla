---------------------------- MODULE Environment -----------------------------
(***************************************************************************)
(* The variables of the shell: the environment array and the list of names *)
(* exported without a value, two structures that export, unset and cd      *)
(* change each in its own way, and the working directory.  A command with  *)
(* several arguments is one step of the model for each argument.  The      *)
(* definitions named X_... are what a slip could make of the definition X  *)
(* that follows; no action uses them.                                      *)
(***************************************************************************)
EXTENDS Integers, Sequences, FiniteSets

CONSTANTS
  Names,       \* the names of variables; unset takes any, export only
  Valid,       \* the valid identifiers among them
  Values,      \* the values of variables
  Dirs,        \* the directories, which are values too
  PWD, OLDPWD, HOME,
  NoValue,     \* what get_env returns for a name without a value, and
               \* getcwd in a directory that has been removed
  Declared,    \* what a name exported without a value has instead of one
  Envs,        \* the environments the shell may be started with
  Statuses     \* the statuses an earlier command may have left

Entry == [name : Names, value : Values]

DistinctNames(e) ==
  \A i, k \in DOMAIN e : e[i].name = e[k].name => i = k

ASSUME EnvironmentAssumption ==
  /\ Valid \subseteq Names
  /\ PWD \in Valid /\ OLDPWD \in Valid /\ HOME \in Valid
  /\ PWD # OLDPWD
  /\ Dirs \subseteq Values
  /\ NoValue \notin Values
  /\ Declared \notin Values \cup {NoValue}
  /\ \A e \in Envs : e \in Seq(Entry) /\ DistinctNames(e)
  /\ Statuses \subseteq Nat

VARIABLES
  env,         \* the array: entries name=value
  exported,    \* the list: names exported without a value
  cwd,         \* the working directory, or NoValue
  dirs,        \* the directories that exist
  pc,          \* "ready", or "moved" inside cd after its chdir
  status       \* the exit status register

vars == <<env, exported, cwd, dirs, pc, status>>

Init ==
  /\ env \in Envs
  /\ exported = <<>>
  /\ dirs = Dirs
  /\ cwd \in Dirs
  /\ pc = "ready"
  /\ status \in Statuses

-----------------------------------------------------------------------------
(***************************************************************************)
(* The array e.                                                            *)
(***************************************************************************)
Has(e, n) == \E i \in DOMAIN e : e[i].name = n

First(e, n) == CHOOSE i \in DOMAIN e :
  e[i].name = n /\ \A k \in 1 .. i - 1 : e[k].name # n

GetEnv(e, n) == IF Has(e, n) THEN e[First(e, n)].value ELSE NoValue

(* update_existing_var, or else add_env_variable. *)
SetVar_Appends(e, n, v) == Append(e, [name |-> n, value |-> v])

SetVar(e, n, v) ==
  IF Has(e, n) THEN [e EXCEPT ![First(e, n)] = [name |-> n, value |-> v]]
  ELSE Append(e, [name |-> n, value |-> v])

(* copy_env_without_var: the k-th entry kept is the k-th of another name. *)
Kept(e, n, k) == Cardinality({i \in 1 .. k : e[i].name # n})

WithoutVar(e, n) ==
  [k \in 1 .. Kept(e, n, Len(e)) |->
     e[CHOOSE i \in DOMAIN e : e[i].name # n /\ Kept(e, n, i) = k]]

(***************************************************************************)
(* The list l.                                                             *)
(***************************************************************************)
Lists(l, n) == \E i \in DOMAIN l : l[i] = n

AddExportedVar_Twice(l, n) == Append(l, n)

AddExportedVar(l, n) == IF Lists(l, n) THEN l ELSE Append(l, n)

(* The list without its i-th node, the first that has the name. *)
RemoveExportedVar(l, n) ==
  IF ~Lists(l, n) THEN l
  ELSE LET i == CHOOSE i \in DOMAIN l :
                  l[i] = n /\ \A k \in 1 .. i - 1 : l[k] # n
       IN [k \in 1 .. Len(l) - 1 |-> IF k < i THEN l[k] ELSE l[k + 1]]

-----------------------------------------------------------------------------
(* export name=value *)
ExportWithValue(n, v) ==
  /\ pc = "ready"
  /\ n \in Valid
  /\ exported' = RemoveExportedVar(exported, n)
  /\ env' = SetVar(env, n, v)
  /\ status' = 0
  /\ UNCHANGED <<cwd, dirs, pc>>

(* export name: the status stays what it was. *)
ExportWithoutValue_Always(n) ==
  /\ pc = "ready"
  /\ n \in Valid
  /\ exported' = AddExportedVar(exported, n)
  /\ UNCHANGED <<env, cwd, dirs, pc, status>>

ExportWithoutValue(n) ==
  /\ pc = "ready"
  /\ n \in Valid
  /\ exported' = IF Has(env, n) THEN exported ELSE AddExportedVar(exported, n)
  /\ UNCHANGED <<env, cwd, dirs, pc, status>>

(* An invalid name is refused: with a value 200 stands for the status 1. *)
ExportInvalid(n) ==
  /\ pc = "ready"
  /\ n \notin Valid
  /\ \E s \in {1, 200} : status' = s
  /\ UNCHANGED <<env, exported, cwd, dirs, pc>>

(* unset name: any name, known or not, valid or not. *)
UnsetVar_KeepsListed(n) ==
  /\ pc = "ready"
  /\ env' = WithoutVar(env, n)
  /\ status' = 0
  /\ UNCHANGED <<exported, cwd, dirs, pc>>

UnsetVar(n) ==
  /\ pc = "ready"
  /\ exported' = RemoveExportedVar(exported, n)
  /\ env' = WithoutVar(env, n)
  /\ status' = 0
  /\ UNCHANGED <<cwd, dirs, pc>>

PrintEnv ==
  /\ pc = "ready"
  /\ status' = 0
  /\ UNCHANGED <<env, exported, cwd, dirs, pc>>

-----------------------------------------------------------------------------
(***************************************************************************)
(* cd: chdir, then OLDPWD from the value of PWD, then PWD from getcwd.  The *)
(* directory may disappear between chdir and getcwd.                       *)
(***************************************************************************)
CdFails(s) ==
  /\ pc = "ready"
  /\ status' = s
  /\ UNCHANGED <<env, exported, cwd, dirs, pc>>

UpdateOldpwd ==
  IF Has(env, PWD) THEN SetVar(env, OLDPWD, GetEnv(env, PWD)) ELSE env

Moves(d) ==
  /\ pc = "ready"
  /\ cwd' = d
  /\ env' = UpdateOldpwd
  /\ pc' = "moved"
  /\ UNCHANGED <<exported, dirs, status>>

CdTo(d) ==
  \/ d \in dirs /\ Moves(d)
  \/ d \notin dirs /\ CdFails(200)

(* cd . works in a directory that has been removed. *)
CdDot == Moves(cwd)

(***************************************************************************)
(* Without an argument built_in_part1 reads one element past the array of  *)
(* arguments, and may take what it finds there for a second argument.      *)
(***************************************************************************)
CdHome ==
  \/ CdFails(1)
  \/ Has(env, HOME) /\ CdTo(GetEnv(env, HOME))

CdTooManyArguments == CdFails(1)

(* update_pwd, and the status 0 that cd sets whatever happened there. *)
UpdatePwd ==
  /\ pc = "moved"
  /\ env' = IF cwd # NoValue THEN SetVar(env, PWD, cwd) ELSE env
  /\ status' = 0
  /\ pc' = "ready"
  /\ UNCHANGED <<exported, cwd, dirs>>

(* Other processes remove and create directories. *)
OthersRemove(d) ==
  /\ d \in dirs
  /\ dirs' = dirs \ {d}
  /\ cwd' = IF cwd = d THEN NoValue ELSE cwd
  /\ UNCHANGED <<env, exported, pc, status>>

OthersCreate(d) ==
  /\ dirs' = dirs \cup {d}
  /\ UNCHANGED <<env, exported, cwd, pc, status>>

-----------------------------------------------------------------------------
Export(n) ==
  \/ \E v \in Values : ExportWithValue(n, v)
  \/ ExportWithoutValue(n)
  \/ ExportInvalid(n)

Cd == (\E d \in Dirs : CdTo(d)) \/ CdDot \/ CdHome \/ CdTooManyArguments

Next ==
  \/ \E n \in Names : Export(n) \/ UnsetVar(n)
  \/ PrintEnv
  \/ Cd \/ UpdatePwd
  \/ \E d \in Dirs : OthersRemove(d) \/ OthersCreate(d)

Spec == Init /\ [][Next]_vars

-----------------------------------------------------------------------------
(***************************************************************************)
(* Properties.                                                             *)
(***************************************************************************)
TypeOK ==
  /\ env \in Seq(Entry)
  /\ exported \in Seq(Valid)
  /\ cwd \in Dirs \cup {NoValue}
  /\ dirs \subseteq Dirs
  /\ pc \in {"ready", "moved"}
  /\ status \in Nat

(***************************************************************************)
(* No name is twice in the array, whatever export, cd and unset did before:*)
(* a program started by the shell would see one of the values, get_env the *)
(* other.  Each of the three has its own search for the entry.             *)
(***************************************************************************)
OneEntryPerName == DistinctNames(env)

(* No name is twice in the list, or one unset would not remove it. *)
ListedOnce == \A i, k \in DOMAIN exported : exported[i] = exported[k] => i = k

(***************************************************************************)
(* A name is in both structures only when cd put it into the array: export *)
(* without arguments prints such a name twice.                             *)
(***************************************************************************)
OverlapOnlyByCd ==
  \A n \in Names : Has(env, n) /\ Lists(exported, n) => n \in {PWD, OLDPWD}

(***************************************************************************)
(* The list is of variables without values, as the comment on its type     *)
(* says: minishell.h:58.  cd breaks it.                                    *)
(***************************************************************************)
ListedHaveNoValue == \A n \in Names : Lists(exported, n) => ~Has(env, n)

(***************************************************************************)
(* The two structures behave as one store: EnvStore.                       *)
(***************************************************************************)
Contents ==
  [n \in Names |-> IF Has(env, n) THEN GetEnv(env, n)
                   ELSE IF Lists(exported, n) THEN Declared ELSE NoValue]

Store == INSTANCE EnvStore WITH
  store <- Contents, here <- cwd, moving <- pc = "moved"

BehavesAsStore == Store!StoreSpec

=============================================================================
