------------------------------- MODULE Builtin -------------------------------
(***************************************************************************)
(* A line that is one builtin: the shell runs it itself, so it redirects   *)
(* its own standard input and output and must get the terminal back, also  *)
(* when a redirection fails; exit ends the shell.  SIGINT runs the handler *)
(* of the prompt, between any two steps.  What cd, export and unset change *)
(* is in Environment.                                                      *)
(*                                                                         *)
(* The definitions named X_... are what a slip could make of the           *)
(* definition X that follows them; no action uses them.                    *)
(***************************************************************************)
EXTENDS ShellTables, Sequences

CONSTANTS
  Commands,    \* the builtins to run, with their arguments
  RedirLists,  \* the lists of redirections to run them with
  Statuses,    \* the exit statuses an earlier line may have left
  Leftovers,   \* the sets of descriptors earlier lines may have left open
  IntMax,      \* the largest int
  LongMax,     \* the largest long
  MaxSigs      \* bound: SIGINT from the terminal

(***************************************************************************)
(* echo with arguments sets the status 0, newline (echo without) leaves it *)
(* alone, other sets it to code.  exit has args arguments, of which the    *)
(* first is numeric with this value or is not.                             *)
(***************************************************************************)
CommandType ==
  [kind : {"echo", "newline", "other", "exit"}, code : 0 .. 255,
   args : Nat, numeric : BOOLEAN, value : Int]

(* How the open of a redirection ends: with a descriptor, with one of the  *)
(* errors the shell has a message for, or with another one.                *)
RedirType ==
  [type : {"in", "out", "append"}, opens : {"yes", "named", "other"}]

ASSUME BuiltinAssumption ==
  /\ Commands \subseteq CommandType
  /\ \A l \in RedirLists : l \in Seq(RedirType)
  /\ Statuses \subseteq Nat
  /\ Leftovers \subseteq SUBSET Fd
  /\ \A s \in Leftovers : \A f \in s : f > 2
  /\ IntMax \in Nat
  /\ LongMax \in Nat
  /\ MaxSigs \in Nat

VARIABLES
  cmd, redirs, \* the builtin and its redirections
  pc,          \* where the shell is
  temp,        \* the redirection it is at
  fd,          \* its descriptors
  savedStdin,  \* fd->saved_stdin: the backup execute_command makes
  savedStdout1, savedStdin1,  \* the backups the redirections are undone from
  fdIn, fdOut, \* the numbers the last redirections were opened at
  errno,       \* of the open that failed
  status,      \* the exit status register
  before,      \* what it was when the line began
  ran,         \* descriptors 0 and 1 as the builtin found them
  exited,      \* what the shell exited with
  sigs         \* signals sent

files == <<fd, savedStdin, savedStdout1, savedStdin1, fdIn, fdOut, errno>>
vars == <<cmd, redirs, pc, temp, files, status, before, ran, exited, sigs>>

(* The file redirection k opens. *)
Opened(k) == [kind |-> "file", pipe |-> k]

NotRun == <<>>
NoExit == -1

Init ==
  /\ cmd \in Commands
  /\ redirs \in RedirLists
  /\ pc = "enter"
  /\ temp = 1
  /\ \E left \in Leftovers : fd = PromptTable(left)
  /\ savedStdin = NoFd
  /\ savedStdout1 = NoFd
  /\ savedStdin1 = NoFd
  /\ fdIn = NoFd
  /\ fdOut = NoFd
  /\ errno = "none"
  /\ status \in Statuses
  /\ before = status
  /\ ran = NotRun
  /\ exited = NoExit
  /\ sigs = 0

-----------------------------------------------------------------------------
(* execute_command: back up standard input. *)
Enter ==
  /\ pc = "enter"
  /\ Dup(fd, 0, savedStdin', fd')
  /\ pc' = "saveOut"
  /\ UNCHANGED <<cmd, redirs, temp, savedStdout1, savedStdin1, fdIn, fdOut,
                 errno, status, before, ran, exited, sigs>>

(* Back up both; a dup that fails is not noticed. *)
SaveStdout ==
  /\ pc = "saveOut"
  /\ Dup(fd, 1, savedStdout1', fd')
  /\ pc' = "saveIn"
  /\ UNCHANGED <<cmd, redirs, temp, savedStdin, savedStdin1, fdIn, fdOut,
                 errno, status, before, ran, exited, sigs>>

SaveStdin ==
  /\ pc = "saveIn"
  /\ Dup(fd, 0, savedStdin1', fd')
  /\ pc' = "redir"
  /\ UNCHANGED <<cmd, redirs, temp, savedStdin, savedStdout1, fdIn, fdOut,
                 errno, status, before, ran, exited, sigs>>

(* open_and_duplicate, one redirection a step. *)
AtRedir(types) ==
  /\ pc = "redir"
  /\ temp <= Len(redirs)
  /\ redirs[temp].type \in types

(* A file is opened, put at descriptor to, and its own number closed. *)
Redirected_KeepsOpen(t, f, to) == Dup2(Put(t, f, Opened(temp)), f, to)

Redirected(t, f, to) == Close(Dup2(Put(t, f, Opened(temp)), f, to), f)

(* The number of an earlier input is closed again before the next open. *)
CloseStale == CloseAbove2(fd, fdIn)

InputFile ==
  /\ AtRedir({"in"})
  /\ redirs[temp].opens = "yes"
  /\ \E f \in Fd : /\ IsLowestFree(CloseStale, f)
                   /\ fdIn' = f
                   /\ fd' = Redirected(CloseStale, f, 0)
  /\ temp' = temp + 1
  /\ UNCHANGED <<cmd, redirs, pc, savedStdin, savedStdout1, savedStdin1, fdOut,
                 errno, status, before, ran, exited, sigs>>

(* output_file and append_file differ in what they do to the file. *)
OutputFile ==
  /\ AtRedir({"out", "append"})
  /\ redirs[temp].opens = "yes"
  /\ \E f \in Fd : /\ IsLowestFree(fd, f)
                   /\ fdOut' = f
                   /\ fd' = Redirected(fd, f, 1)
  /\ temp' = temp + 1
  /\ UNCHANGED <<cmd, redirs, pc, savedStdin, savedStdout1, savedStdin1, fdIn,
                 errno, status, before, ran, exited, sigs>>

(* Only four errors have a message and set the status. *)
PrintOpenErrorParent == IF errno' = "named" THEN 1 ELSE status

(* open fails, for the file or for want of a descriptor (EMFILE). *)
OpenFails_RunsOn ==
  /\ AtRedir({"in", "out", "append"})
  /\ LET t == IF redirs[temp].type = "in" THEN CloseStale ELSE fd IN
       /\ Full(t) \/ redirs[temp].opens # "yes"
       /\ errno' = IF Full(t) THEN "other" ELSE redirs[temp].opens
       /\ fd' = t
  /\ IF redirs[temp].type = "in"
     THEN fdIn' = NoFd /\ UNCHANGED fdOut
     ELSE fdOut' = NoFd /\ UNCHANGED fdIn
  /\ status' = PrintOpenErrorParent
  /\ pc' = "exit"
  /\ UNCHANGED <<cmd, redirs, temp, savedStdin, savedStdout1, savedStdin1,
                 before, ran, exited, sigs>>

OpenFails ==
  /\ AtRedir({"in", "out", "append"})
  /\ LET t == IF redirs[temp].type = "in" THEN CloseStale ELSE fd IN
       /\ Full(t) \/ redirs[temp].opens # "yes"
       /\ errno' = IF Full(t) THEN "other" ELSE redirs[temp].opens
       /\ fd' = t
  /\ IF redirs[temp].type = "in"
     THEN fdIn' = NoFd /\ UNCHANGED fdOut
     ELSE fdOut' = NoFd /\ UNCHANGED fdIn
  /\ status' = PrintOpenErrorParent
  /\ pc' = "restore"
  /\ UNCHANGED <<cmd, redirs, temp, savedStdin, savedStdout1, savedStdin1,
                 before, ran, exited, sigs>>

AllRedirected ==
  /\ pc = "redir"
  /\ temp > Len(redirs)
  /\ pc' = "exit"
  /\ UNCHANGED <<cmd, redirs, temp, files, status, before, ran, exited, sigs>>

-----------------------------------------------------------------------------
(***************************************************************************)
(* ft_atoi computes in long double: it returns 2 once the digits before    *)
(* the last one exceed a long, and converts any other number to int, which *)
(* is undefined outside the range of int.                                  *)
(***************************************************************************)
Magnitude(n) == IF n < 0 THEN -n ELSE n

TooLong(n) == Magnitude(n) \div 10 > LongMax

IsInt(n) == n \in -IntMax - 1 .. IntMax

FtAtoi(n) ==
  IF TooLong(n) THEN {2} ELSE IF IsInt(n) THEN {n} ELSE 0 .. 255

(* What the kernel keeps of a status. *)
Byte(n) == n % 256

(* What exit sets the status to: with no argument or with a multiple of    *)
(* 256, 0 included, it leaves what is there.                               *)
FillError(c) ==
  IF c.args = 0 THEN {status}
  ELSE IF ~c.numeric THEN {2}
  ELSE {IF Byte(n) = 0 THEN status ELSE Byte(n) : n \in FtAtoi(c.value)}

TooMany_AnyFirst(c) == c.args > 1

TooMany(c) == c.args > 1 /\ c.numeric

MyExit ==
  /\ pc = "exit"
  /\ cmd.kind = "exit"
  /\ IF TooMany(cmd) THEN status' = 1 /\ pc' = "run"
     ELSE status' \in FillError(cmd) /\ pc' = "leave"
  /\ UNCHANGED <<cmd, redirs, temp, files, before, ran, exited, sigs>>

NoMyExit ==
  /\ pc = "exit"
  /\ cmd.kind # "exit"
  /\ pc' = "run"
  /\ UNCHANGED <<cmd, redirs, temp, files, status, before, ran, exited, sigs>>

(* close_fd2, exit(get_status()) *)
Leave ==
  /\ pc = "leave"
  /\ exited' = Byte(status)
  /\ fd' = NoTable
  /\ pc' = "exited"
  /\ UNCHANGED <<cmd, redirs, temp, savedStdin, savedStdout1, savedStdin1,
                 fdIn, fdOut, errno, status, before, ran, sigs>>

(* execute_builtin_command; an exit that did not exit is none of these. *)
ExecuteBuiltinCommand ==
  /\ pc = "run"
  /\ ran' = <<fd[0], fd[1]>>
  /\ status' = IF cmd.kind = "echo" THEN 0
               ELSE IF cmd.kind = "other" THEN cmd.code ELSE status
  /\ pc' = "restore"
  /\ UNCHANGED <<cmd, redirs, temp, files, before, exited, sigs>>

Undo_InputOnly(t) ==
  Close(Close(Dup2(t, savedStdin1, 0), savedStdout1), savedStdin1)

(* Both descriptors come back from their backups, which are closed. *)
Undo(t) ==
  Close(Close(Dup2(Dup2(t, savedStdout1, 1), savedStdin1, 0),
              savedStdout1), savedStdin1)

Restore ==
  /\ pc = "restore"
  /\ fd' = Undo(fd)
  /\ pc' = "back"
  /\ UNCHANGED <<cmd, redirs, temp, savedStdin, savedStdout1, savedStdin1,
                 fdIn, fdOut, errno, status, before, ran, exited, sigs>>

(* handle_single_builtin, then the end of the line in part_execution. *)
Back ==
  /\ pc = "back"
  /\ fd' = CloseFdsExceptStd(RestoreStdin(fd, savedStdin))
  /\ pc' = "prompt"
  /\ UNCHANGED <<cmd, redirs, temp, savedStdin, savedStdout1, savedStdin1,
                 fdIn, fdOut, errno, status, before, ran, exited, sigs>>

(* my_handler *)
Interrupt ==
  /\ sigs < MaxSigs
  /\ pc # "exited"
  /\ sigs' = sigs + 1
  /\ status' = 130
  /\ UNCHANGED <<cmd, redirs, pc, temp, files, before, ran, exited>>

Done == pc \in {"prompt", "exited"} /\ UNCHANGED vars

Line ==
  \/ Enter \/ SaveStdout \/ SaveStdin
  \/ InputFile \/ OutputFile \/ OpenFails \/ AllRedirected
  \/ MyExit \/ NoMyExit \/ Leave \/ ExecuteBuiltinCommand \/ Restore \/ Back

Next == Line \/ Interrupt \/ Done

Spec == Init /\ [][Next]_vars

-----------------------------------------------------------------------------
(***************************************************************************)
(* Properties.                                                             *)
(***************************************************************************)
Places == {"enter", "saveOut", "saveIn", "redir", "exit", "leave", "run",
           "restore", "back", "prompt", "exited"}

TypeOK ==
  /\ cmd \in Commands
  /\ redirs \in RedirLists
  /\ pc \in Places
  /\ temp \in 1 .. Len(redirs) + 1
  /\ fd \in Table
  /\ {savedStdin, savedStdout1, savedStdin1, fdIn, fdOut}
       \subseteq Fd \cup {NoFd}
  /\ errno \in {"none", "named", "other"}
  /\ {status, before} \subseteq Nat
  /\ ran = NotRun \/ ran \in Target \X Target
  /\ exited \in Nat \cup {NoExit}
  /\ sigs \in 0 .. MaxSigs

(* The redirections of these types that were made. *)
Made(types) == {k \in 1 .. temp - 1 : redirs[k].type \in types}

(* What the last of them left at a descriptor. *)
IsLast(target, types) ==
  IF Made(types) = {} THEN target = Tty
  ELSE \E k \in Made(types) : /\ target = Opened(k)
                              /\ \A h \in Made(types) : h <= k

(***************************************************************************)
(* The builtin runs, or the shell exits, only when all redirections were   *)
(* made, and reads from the last input and writes to the last output,      *)
(* whatever number they were opened at, closed at, and closed at again.    *)
(***************************************************************************)
RunsOnItsFiles ==
  /\ pc \in {"exit", "run", "leave", "exited"} => temp > Len(redirs)
  /\ ran # NotRun => /\ temp > Len(redirs)
                     /\ IsLast(ran[1], {"in"})
                     /\ IsLast(ran[2], {"out", "append"})

(***************************************************************************)
(* The prompt comes back on the terminal, with no descriptor of the line   *)
(* left: whichever of the backups could not be made, wherever the          *)
(* redirections stopped.  Errors go to the terminal all the time.          *)
(***************************************************************************)
OnlySpare(S) ==
  \A f \in Fd : f > 2 => f \in S \/ fd[f] \in {Closed, Leftover}

TerminalBack ==
  /\ pc # "exited" => fd[2] = Tty
  /\ pc \in {"back", "prompt"} => fd[0] = Tty /\ fd[1] = Tty
  /\ pc = "prompt" => OnlySpare({})

(***************************************************************************)
(* The status of the line: 1 for a redirection that failed, if its error   *)
(* has a message; else what the builtin leaves.  exit keeps the status for *)
(* a multiple of 256 and exits with it.  Only an interrupt may put 130 in  *)
(* its place.                                                              *)
(***************************************************************************)
PromisedByExit ==
  IF cmd.args = 0 THEN {before}
  ELSE IF ~cmd.numeric THEN {2}
  ELSE IF cmd.args > 1 THEN {1}
  ELSE IF TooLong(cmd.value) THEN {2}
  ELSE IF ~IsInt(cmd.value) THEN {before} \cup 1 .. 255
  ELSE IF Byte(cmd.value) = 0 THEN {before} ELSE {Byte(cmd.value)}

Promised ==
  IF temp <= Len(redirs) THEN {IF errno = "named" THEN 1 ELSE before}
  ELSE IF cmd.kind = "echo" THEN {0}
  ELSE IF cmd.kind = "newline" THEN {before}
  ELSE IF cmd.kind = "other" THEN {cmd.code}
  ELSE PromisedByExit

StatusOfLine ==
  /\ pc \in {"restore", "back", "prompt"} =>
       status \in Promised \cup (IF sigs = 0 THEN {} ELSE {130})
  /\ pc = "exited" =>
       \E c \in Promised \cup (IF sigs = 0 THEN {} ELSE {130}) :
         exited = Byte(c)

-----------------------------------------------------------------------------
(***************************************************************************)
(* The inductive invariant: a backup is there whenever descriptor 0 or 1   *)
(* is not the terminal, since a table too full for the backup is too full  *)
(* for a redirection, and the number of an earlier input is free when it   *)
(* is closed again.                                                        *)
(***************************************************************************)
Held(b) == b # NoFd => b \in Fd /\ b > 2 /\ fd[b] = Tty

OnTerminal == \A f \in 0 .. 2 : fd[f] = Tty

Fresh == temp = 1 /\ fdIn = NoFd

AtStart ==
  /\ pc \in {"enter", "saveOut", "saveIn"} => OnTerminal /\ Fresh
  /\ pc = "enter" => OnlySpare({})
  /\ pc = "saveOut" => Held(savedStdin) /\ OnlySpare({savedStdin})
  /\ pc = "saveIn" => /\ Held(savedStdin) /\ Held(savedStdout1)
                      /\ savedStdout1 # savedStdin \/ savedStdout1 = NoFd
                      /\ OnlySpare({savedStdin, savedStdout1})
                      /\ savedStdout1 = NoFd => Full(fd)

Working == pc \in {"redir", "exit", "run", "leave", "restore"}

NoBackup == savedStdout1 = NoFd \/ savedStdin1 = NoFd

AtWork ==
  Working =>
    /\ fd[2] = Tty
    /\ Held(savedStdin) /\ Held(savedStdout1) /\ Held(savedStdin1)
    /\ savedStdin \notin {savedStdout1, savedStdin1} \/ savedStdin = NoFd
    /\ savedStdout1 # savedStdin1 \/ savedStdin1 = NoFd
    /\ OnlySpare({savedStdin, savedStdout1, savedStdin1})
    /\ NoBackup => temp = 1 /\ Full(fd)
    /\ fdIn # NoFd => fdIn > 2 /\ fd[fdIn] = Closed
    /\ IsLast(fd[0], {"in"})
    /\ IsLast(fd[1], {"out", "append"})

AtEnd ==
  /\ pc = "back" => OnTerminal /\ Held(savedStdin) /\ OnlySpare({savedStdin})
  /\ pc = "prompt" => OnTerminal /\ OnlySpare({})

Interrupted == sigs > 0 /\ status = 130

StatusInv ==
  /\ pc \in {"enter", "saveOut", "saveIn", "redir", "exit"} =>
       /\ status = before \/ Interrupted
       /\ ran = NotRun /\ exited = NoExit
  /\ pc = "run" => /\ status = (IF cmd.kind = "exit" THEN 1 ELSE before)
                        \/ Interrupted
                   /\ cmd.kind = "exit" => TooMany(cmd)
                   /\ ran = NotRun
  /\ pc = "leave" => status \in Promised \/ Interrupted

BInv ==
  /\ TypeOK
  /\ AtStart /\ AtWork /\ AtEnd
  /\ RunsOnItsFiles
  /\ StatusInv /\ StatusOfLine

=============================================================================
