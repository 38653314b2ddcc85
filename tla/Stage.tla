-------------------------------- MODULE Stage --------------------------------
(***************************************************************************)
(* A child of the fork loop from the moment its pipes are in place: it     *)
(* makes its redirections one by one, opens its here-document, and runs a  *)
(* builtin, looks for a program and becomes it, or has nothing to run.     *)
(* Pipeline has the same child with at most one redirection and with the   *)
(* outcome of the search as an input; what it finds plumbed (its property  *)
(* StageIsolation) is where this module starts.                            *)
(*                                                                         *)
(* The definitions named X_... are what a slip could make of the           *)
(* definition X that follows them; no action uses them.                    *)
(***************************************************************************)
EXTENDS ShellTables, Sequences

CONSTANTS
  Commands,    \* what a stage may have to run
  RedirLists,  \* its lists of redirections
  Paths,       \* the values of PATH
  Statuses,    \* the exit statuses it may inherit
  Leftovers,   \* the sets of descriptors it may inherit open above 2
  MaxChanges   \* bound: files other processes change while it works

NoCode == -1

(***************************************************************************)
(* A builtin, or exit, sets the status to code or, with NoCode, leaves it. *)
(* A name with a slash is a file that is there or not; a name without is   *)
(* looked for.  execve is what the kernel says of what was found.          *)
(***************************************************************************)
Files == {"exec", "plain", "dir", "absent", "unreachable"}

CommandType ==
  [kind : {"exit", "builtin", "slash", "name", "nothing"},
   code : {NoCode} \cup 0 .. 255, file : Files,
   execve : {"ok", "EACCES", "ENOTDIR", "ENOENT"}]

(* A directory is no output; as an input it is opened as a file is.        *)
RedirType ==
  [type : {"in"}, opens : {"yes", "no"}] \cup
  [type : {"out", "append"}, opens : {"yes", "no", "dir"}]

(* Where PATH has no entry, it is unset: Unset. *)
Unset == <<"unset">>

ASSUME StageAssumption ==
  /\ Commands \subseteq CommandType
  /\ \A l \in RedirLists : l \in Seq(RedirType)
  /\ \A p \in Paths : p = Unset \/ p \in Seq({"exec", "plain", "dir", "absent"})
  /\ Statuses \subseteq Nat
  /\ Leftovers \subseteq SUBSET Fd
  /\ \A s \in Leftovers : \A f \in s : f > 2
  /\ MaxChanges \in Nat

VARIABLES
  cmd, redirs, path,  \* the stage
  left, before,       \* what it inherits: open descriptors and the status
  doc,         \* its here-document: "none", "there", or "gone" again
  pc,          \* where the child is
  pass,        \* 1, or 2 when it opens its redirections again
  temp,        \* the redirection it is at
  fd,          \* its descriptors
  fdIn, fdOut, \* the numbers the last redirections were opened at
  status,      \* its status register
  i, store,    \* the entry of PATH it is at, and the last plain file found
  command,     \* the entry get_command returns; 0 for the name itself
  exited,      \* what it exits with
  changes      \* files changed under it

stage == <<cmd, redirs, path, left, before>>
search == <<i, store, command>>
vars == <<stage, doc, pc, pass, temp, fd, fdIn, fdOut, status, search, exited,
          changes>>

Opened(k) == [kind |-> "file", pipe |-> k]

Document == Opened(0)

NoExit == -1

(* setup_child_io has put the ends of the pipes at 0 and 1. *)
Inherited ==
  [f \in Fd |-> IF f = 0 THEN ReadEnd(1) ELSE IF f = 1 THEN WriteEnd(2)
                ELSE PromptTable(left)[f]]

Init ==
  /\ cmd \in Commands
  /\ redirs \in RedirLists
  /\ path \in IF cmd.kind = "name" THEN Paths ELSE {Unset}
  /\ doc \in {"none", "there"}
  /\ pc = "redir"
  /\ pass = 1
  /\ temp = 1
  /\ left \in Leftovers
  /\ fd = Inherited
  /\ fdIn = NoFd
  /\ fdOut = NoFd
  /\ before \in Statuses
  /\ status = before
  /\ i = 1
  /\ store = 0
  /\ command = 0
  /\ exited = NoExit
  /\ changes = 0

-----------------------------------------------------------------------------
AtRedir(types) ==
  /\ pc = "redir"
  /\ temp <= Len(redirs)
  /\ redirs[temp].type \in types

(* The second pass of a builtin opens with input_file and output_file. *)
ByBuiltin == pass = 2 /\ cmd.kind # "nothing"

(* The number of the redirection before is closed again before the next    *)
(* open; output_file alone does not.                                       *)
CloseStale ==
  IF redirs[temp].type = "in" THEN CloseAbove2(fd, fdIn)
  ELSE IF ByBuiltin THEN fd ELSE CloseAbove2(fd, fdOut)

(* A file is opened, put at descriptor to, and its own number closed. *)
Redirected_KeepsOpen(t, f, to) == Dup2(Put(t, f, Opened(temp)), f, to)

Redirected(t, f, to) == Close(Dup2(Put(t, f, Opened(temp)), f, to), f)

OpenRedIn ==
  /\ AtRedir({"in"})
  /\ redirs[temp].opens = "yes"
  /\ \E f \in Fd : /\ IsLowestFree(CloseStale, f)
                   /\ fdIn' = f
                   /\ fd' = Redirected(CloseStale, f, 0)
  /\ temp' = temp + 1
  /\ UNCHANGED <<stage, doc, pc, pass, fdOut, status, search, exited, changes>>

OpenRedOut ==
  /\ AtRedir({"out", "append"})
  /\ redirs[temp].opens = "yes"
  /\ \E f \in Fd : /\ IsLowestFree(CloseStale, f)
                   /\ fdOut' = f
                   /\ fd' = Redirected(CloseStale, f, 1)
  /\ temp' = temp + 1
  /\ UNCHANGED <<stage, doc, pc, pass, fdIn, status, search, exited, changes>>

(***************************************************************************)
(* The open fails: for the file, for want of a descriptor, or, the second  *)
(* time, because another process changed the file.  A directory is noticed *)
(* before, and the number of the output before is not closed again.        *)
(***************************************************************************)
IsDirectoryStr == redirs[temp].opens = "dir" /\ ~Full(fd)

Changed == pass = 2 /\ changes < MaxChanges /\ ~Full(CloseStale)

Fails ==
  /\ AtRedir({"in", "out", "append"})
  /\ \/ (redirs[temp].opens # "yes" \/ Full(CloseStale)) /\ UNCHANGED changes
     \/ Changed /\ changes' = changes + 1
  /\ IF IsDirectoryStr THEN UNCHANGED <<fd, fdIn, fdOut>>
     ELSE /\ fd' = CloseStale
          /\ IF redirs[temp].type = "in" THEN fdIn' = NoFd /\ UNCHANGED fdOut
             ELSE fdOut' = NoFd /\ UNCHANGED fdIn
  /\ UNCHANGED <<stage, doc, pass, temp, search, exited>>

(* The first time: close_all_fds, exit(1). *)
OpenFails_GoesOn ==
  /\ pass = 1
  /\ Fails
  /\ status' = 1
  /\ pc' = "doc"

OpenFails ==
  /\ pass = 1
  /\ Fails
  /\ status' = 1
  /\ pc' = "failed"

(* The second time the result is not looked at. *)
OpenFailsAgain ==
  /\ pass = 2
  /\ Fails
  /\ IF ByBuiltin
     THEN /\ status' \in IF Full(CloseStale) THEN {status}
                         ELSE {126, 127, status}
          /\ pc' = "builtin"
     ELSE status' = 1 /\ pc' = "leave"

OpenAll ==
  /\ pc = "redir"
  /\ temp > Len(redirs)
  /\ pc' = IF ByBuiltin THEN "builtin" ELSE "doc"
  /\ UNCHANGED <<stage, doc, pass, temp, fd, fdIn, fdOut, status, search,
                 exited, changes>>

(* The here-document comes after all redirections, wherever it was written *)
OpenDocument ==
  /\ pc = "doc"
  /\ doc = "there"
  /\ \E f \in Fd : /\ IsLowestFree(fd, f)
                   /\ fd' = Close(Dup2(Put(fd, f, Document), f, 0), f)
  /\ pc' = IF pass = 1 THEN "logic" ELSE "leave"
  /\ UNCHANGED <<stage, doc, pass, temp, fdIn, fdOut, status, search, exited,
                 changes>>

NoDocument ==
  /\ pc = "doc"
  /\ doc = "none"
  /\ pc' = IF pass = 1 THEN "logic" ELSE "leave"
  /\ UNCHANGED <<stage, doc, pass, temp, fd, fdIn, fdOut, status, search,
                 exited, changes>>

DocumentFails ==
  /\ pc = "doc"
  /\ doc # "none"
  /\ doc = "gone" \/ Full(fd)
  /\ pc' = "failed"
  /\ UNCHANGED <<stage, doc, pass, temp, fd, fdIn, fdOut, status, search,
                 exited, changes>>

-----------------------------------------------------------------------------
(* execute_command_logic.  A builtin backs up 0 and 1 first; the backups   *)
(* are never used, since the child exits.                                  *)
Copies(t, from) ==
  IF Full(t) THEN {t}
  ELSE {Put(t, f, t[from]) : f \in {g \in Fd : IsLowestFree(t, g)}}

Backup(t) == UNION {Copies(u, 0) : u \in Copies(t, 1)}

ExecuteBuiltin ==
  /\ pc = "logic"
  /\ cmd.kind \in {"exit", "builtin"}
  /\ fd' \in Backup(fd)
  /\ pass' = 2
  /\ temp' = 1
  /\ fdIn' = NoFd
  /\ pc' = IF redirs = <<>> THEN "builtin" ELSE "redir"
  /\ UNCHANGED <<stage, doc, fdOut, status, search, exited, changes>>

ExecuteNothing ==
  /\ pc = "logic"
  /\ cmd.kind = "nothing"
  /\ pass' = 2
  /\ temp' = 1
  /\ pc' = IF redirs = <<>> THEN "doc" ELSE "redir"
  /\ UNCHANGED <<stage, doc, fd, fdIn, fdOut, status, search, exited, changes>>

Set(code) == IF code = NoCode THEN status ELSE code

(* exec_red_child_built: exit sets the status and leaves; any other        *)
(* builtin leaves without running when the status was 1 before.            *)
SkipBuiltin == status = 1

Builtin ==
  /\ pc = "builtin"
  /\ IF cmd.kind = "exit" THEN status' = Set(cmd.code) /\ pc' = "leave"
     ELSE IF SkipBuiltin THEN UNCHANGED status /\ pc' = "leave"
     ELSE status' = Set(cmd.code) /\ pc' = "ran"
  /\ UNCHANGED <<stage, doc, pass, temp, fd, fdIn, fdOut, search, exited,
                 changes>>

(* What the builtin wrote is written: restore, cleanup_and_exit. *)
Ran ==
  /\ pc = "ran"
  /\ pc' = "leave"
  /\ UNCHANGED <<stage, doc, pass, temp, fd, fdIn, fdOut, status, search,
                 exited, changes>>

-----------------------------------------------------------------------------
(* check_file: a name with a slash is taken as it is.  A file whose stat   *)
(* fails for a reason without a message leaves the status as it is.        *)
CheckFile ==
  /\ pc = "logic"
  /\ cmd.kind = "slash"
  /\ IF cmd.file = "exec" THEN pc' = "execve" /\ UNCHANGED status
     ELSE /\ pc' = "leave"
          /\ status' = CASE cmd.file \in {"dir", "plain"} -> 126
                         [] cmd.file = "absent" -> 127
                         [] cmd.file = "unreachable" -> status
  /\ UNCHANGED <<stage, doc, pass, temp, fd, fdIn, fdOut, search, exited,
                 changes>>

(* get_command goes through the directories of PATH. *)
Lookup_LastWins ==
  /\ pc = "logic"
  /\ cmd.kind = "name"
  /\ path # Unset
  /\ i <= Len(path)
  /\ store' = IF path[i] \in {"plain", "exec"} THEN i ELSE store
  /\ i' = i + 1
  /\ UNCHANGED <<stage, doc, pc, pass, temp, fd, fdIn, fdOut, status, command,
                 exited, changes>>

Lookup ==
  /\ pc = "logic"
  /\ cmd.kind = "name"
  /\ path # Unset
  /\ i <= Len(path)
  /\ IF path[i] = "exec"
     THEN command' = i /\ pc' = "execve" /\ UNCHANGED <<i, store>>
     ELSE /\ store' = IF path[i] = "plain" THEN i ELSE store
          /\ i' = i + 1
          /\ UNCHANGED <<command, pc>>
  /\ UNCHANGED <<stage, doc, pass, temp, fd, fdIn, fdOut, status, exited,
                 changes>>

(* A file that cannot be executed is better than none. *)
LookupEnds ==
  /\ pc = "logic"
  /\ cmd.kind = "name"
  /\ path = Unset \/ i > Len(path)
  /\ IF path = Unset \/ store # 0
     THEN command' = store /\ pc' = "execve" /\ UNCHANGED status
     ELSE status' = 127 /\ pc' = "leave" /\ UNCHANGED command
  /\ UNCHANGED <<stage, doc, pass, temp, fd, fdIn, fdOut, i, store, exited,
                 changes>>

(* A plain file is refused by the kernel; for others it may have changed.  *)
Execve ==
  /\ pc = "execve"
  /\ cmd.execve = "ok"
  /\ cmd.kind = "name" /\ path # Unset => path[command] = "exec"
  /\ pc' = "running"
  /\ UNCHANGED <<stage, doc, pass, temp, fd, fdIn, fdOut, status, search,
                 exited, changes>>

Refusal ==
  IF cmd.kind = "name" /\ path # Unset /\ path[command] = "plain"
  THEN "EACCES" ELSE cmd.execve

(* execve_error: 100 and 200 in the register stand for earlier results. *)
ExecveError(e) ==
  IF e \in {"EACCES", "ENOTDIR"} THEN 126
  ELSE IF status \notin {100, 200} THEN 127
  ELSE IF status = 100 THEN 0 ELSE status

ExecveFails ==
  /\ pc = "execve"
  /\ Refusal # "ok"
  /\ status' = ExecveError(Refusal)
  /\ pc' = "leave"
  /\ UNCHANGED <<stage, doc, pass, temp, fd, fdIn, fdOut, search, exited,
                 changes>>

-----------------------------------------------------------------------------
(* exit(get_status()), or exit(1) *)
Leave ==
  /\ pc \in {"leave", "failed"}
  /\ exited' = IF pc = "leave" THEN status % 256 ELSE 1
  /\ fd' = NoTable
  /\ pc' = "exited"
  /\ UNCHANGED <<stage, doc, pass, temp, fdIn, fdOut, status, search, changes>>

(* The file of the here-document is removed under the child. *)
RemoveDocument ==
  /\ doc = "there"
  /\ pc \in {"redir", "logic"}
  /\ changes < MaxChanges
  /\ changes' = changes + 1
  /\ doc' = "gone"
  /\ UNCHANGED <<stage, pc, pass, temp, fd, fdIn, fdOut, status, search,
                 exited>>

Done == pc \in {"running", "exited"} /\ UNCHANGED vars

Next ==
  \/ OpenRedIn \/ OpenRedOut \/ OpenFails \/ OpenFailsAgain \/ OpenAll
  \/ OpenDocument \/ NoDocument \/ DocumentFails
  \/ ExecuteBuiltin \/ ExecuteNothing \/ Builtin \/ Ran
  \/ CheckFile \/ Lookup \/ LookupEnds \/ Execve \/ ExecveFails
  \/ Leave \/ RemoveDocument \/ Done

Spec == Init /\ [][Next]_vars

-----------------------------------------------------------------------------
(***************************************************************************)
(* Properties.                                                             *)
(***************************************************************************)
Places == {"redir", "doc", "logic", "builtin", "ran", "execve", "running",
           "leave", "failed", "exited"}

TypeOK ==
  /\ cmd \in Commands
  /\ redirs \in RedirLists
  /\ path \in Paths \cup {Unset}
  /\ left \in Leftovers
  /\ doc \in {"none", "there", "gone"}
  /\ pc \in Places
  /\ pass \in {1, 2}
  /\ temp \in 1 .. Len(redirs) + 1
  /\ fd \in Table
  /\ {fdIn, fdOut} \subseteq Fd \cup {NoFd}
  /\ {status, before} \subseteq Nat
  /\ i \in 1 .. Len(path) + 1
  /\ {store, command} \subseteq 0 .. Len(path)
  /\ exited \in Nat \cup {NoExit}
  /\ changes \in 0 .. MaxChanges

(***************************************************************************)
(* What a descriptor holds after the first n redirections, when it held    *)
(* start before them: the last of these types.                             *)
(***************************************************************************)
LastOf(n, types) ==
  LET ks == {k \in 1 .. n : redirs[k].type \in types}
  IN  IF ks = {} THEN 0 ELSE CHOOSE k \in ks : \A h \in ks : h <= k

Holds(n, types, start) ==
  IF LastOf(n, types) = 0 THEN start ELSE Opened(LastOf(n, types))

Outs == {"out", "append"}

LastInput  == Holds(Len(redirs), {"in"}, ReadEnd(1))
InputOf    == IF doc # "none" THEN Document ELSE LastInput
OutputOf   == Holds(Len(redirs), Outs, WriteEnd(2))

(* The builtin has made its backups. *)
BackedUp == pass = 2 /\ cmd.kind # "nothing"

FirstPass ==
  /\ pc \in {"redir", "doc"} => fd[0] = Holds(temp - 1, {"in"}, ReadEnd(1))
  /\ pc \in {"logic", "execve", "running"} => fd[0] = InputOf
  /\ pc \in {"redir", "doc", "logic", "execve", "running"} =>
       fd[1] = Holds(temp - 1, Outs, WriteEnd(2))
  /\ pc \in {"doc", "logic", "execve", "running"} => temp = Len(redirs) + 1

(* The second pass starts from the last output and comes to it again. *)
SecondPass ==
  /\ pc = "redir" => fd[1] = Holds(temp - 1, Outs, OutputOf)
  /\ pc = "redir" /\ temp > 1 => ~Full(fd)
  /\ pc \in {"builtin", "ran"} /\ changes = 0 => fd[1] = OutputOf

(* The numbers kept from earlier opens are closed, whatever was opened.    *)
StaleClosed ==
  /\ fdIn # NoFd => fdIn > 2 /\ fd[fdIn] = Closed
  /\ fdOut # NoFd /\ ~BackedUp => fdOut > 2 /\ fd[fdOut] = Closed

SInv ==
  /\ TypeOK
  /\ pc # "exited" =>
       /\ \A f \in 0 .. 2 : fd[f] # Closed
       /\ fd[2] = Tty
       /\ StaleClosed
       /\ ~BackedUp => \A f \in Fd : f > 2 => fd[f] \in {Leftover, Closed}
       /\ pass = 1 => FirstPass
       /\ BackedUp => SecondPass
  /\ pc \in {"logic", "execve", "running"} => pass = 1
  /\ pc = "doc" => ~BackedUp
  /\ pc \in {"builtin", "ran"} => BackedUp /\ cmd.kind \in {"exit", "builtin"}
  /\ \A k \in 1 .. temp - 1 : redirs[k].opens = "yes"
  /\ pass = 2 => /\ cmd.kind \in {"exit", "builtin", "nothing"}
                 /\ \A k \in 1 .. Len(redirs) : redirs[k].opens = "yes"

(***************************************************************************)
(* A program starts with its here-document, or else its last input, at 0   *)
(* and its last output at 1, whatever numbers they were opened at and      *)
(* closed at again, and with nothing else open but what was left; a        *)
(* builtin writes to its last output, although it opens everything twice,  *)
(* the second time perhaps without a free descriptor; and neither starts   *)
(* when a redirection failed.                                              *)
(***************************************************************************)
RunsOnLastFiles ==
  /\ pc = "running" => /\ fd[0] = InputOf /\ fd[1] = OutputOf /\ fd[2] = Tty
                       /\ \A f \in Fd : f > 2 => fd[f] \in {Leftover, Closed}
  /\ pc = "ran" /\ changes = 0 => fd[1] = OutputOf
  /\ pc \in {"running", "ran"} =>
       \A k \in 1 .. Len(redirs) : redirs[k].opens = "yes"

(* The first entry of PATH that can be executed, or else the last file.    *)
Candidates(sort) == {k \in 1 .. Len(path) : path[k] = sort}
Found ==
  IF path = Unset THEN 0
  ELSE IF Candidates("exec") # {}
       THEN CHOOSE k \in Candidates("exec") : \A h \in Candidates("exec") : k <= h
  ELSE CHOOSE k \in Candidates("plain") : \A h \in Candidates("plain") : h <= k

CannotOpen ==
  \/ \E k \in 1 .. Len(redirs) : redirs[k].opens # "yes"
  \/ Full(Inherited) /\ (redirs # <<>> \/ doc # "none")

NotFound ==
  /\ path # Unset
  /\ Candidates("exec") \cup Candidates("plain") = {}

ByRegister(s) == IF s = 100 THEN 0 ELSE IF s = 200 THEN 200 ELSE 127

(* What execve gives for what was found. *)
AfterExecve ==
  IF cmd.execve = "ENOENT" THEN ByRegister(before) ELSE 126

OfFile ==
  CASE cmd.file \in {"dir", "plain"} -> 126
    [] cmd.file = "absent"           -> 127
    [] cmd.file = "unreachable"      -> before
    [] cmd.file = "exec"             -> AfterExecve

OfName ==
  IF NotFound THEN 127
  ELSE IF path # Unset /\ path[Found] = "plain" THEN 126 ELSE AfterExecve

OfBuiltin ==
  IF cmd.kind = "builtin" /\ before = 1 THEN 1
  ELSE IF cmd.code = NoCode THEN before ELSE cmd.code

OfCommand ==
  CASE cmd.kind = "nothing" -> before
    [] cmd.kind = "slash"   -> OfFile
    [] cmd.kind = "name"    -> OfName
    [] cmd.kind \in {"exit", "builtin"} -> OfBuiltin

Expected == IF CannotOpen THEN 1 ELSE OfCommand

(***************************************************************************)
(* When no other process interferes, a stage executes the first entry of   *)
(* PATH that can be executed and otherwise the last that exists, and a     *)
(* stage that runs no program exits with the status its redirections, its  *)
(* builtin or the search give it.                                          *)
(***************************************************************************)
StatusOfStage ==
  /\ pc \in {"execve", "running"} /\ cmd.kind = "name" => command = Found
  /\ pc = "exited" /\ changes = 0 => exited = Expected % 256

=============================================================================
