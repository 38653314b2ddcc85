------------------------------ MODULE Heredoc -------------------------------
(***************************************************************************)
(* The here-documents of command lines, which the shell reads before it    *)
(* executes a line: for every command that has some, one temporary file    *)
(* after the other, with a handler of its own for Ctrl-C that closes       *)
(* standard input to make readline return.  The signal may arrive between  *)
(* any two steps.  What the execution of the line does is in Pipeline;     *)
(* here it is one step.  The definitions named X_... are what a slip could *)
(* make of the definition X that follows; no action uses them.             *)
(***************************************************************************)
EXTENDS ShellTables, Sequences

CONSTANTS
  Lines,       \* the command lines: for each command its here-documents
  MaxLines,    \* bound: command lines
  MaxSigs,     \* bound: interrupts
  MaxFails     \* bound: files that cannot be opened

(***************************************************************************)
(* A command is the number of its here-documents, and whether it is a      *)
(* builtin: a line of one builtin forks nothing.                           *)
(***************************************************************************)
ASSUME HeredocAssumption ==
  /\ \A l \in Lines : l \in Seq([docs : Nat, builtin : BOOLEAN]) /\ Len(l) > 0
  /\ MaxLines \in Nat \ {0} /\ MaxSigs \in Nat /\ MaxFails \in Nat

SIGINT == 2

VARIABLES
  count,       \* the number of the command line
  line,        \* the command line
  pc,          \* where the shell is
  cmd,         \* temp_cmd: the command whose here-documents are read
  start,       \* data->start: the here-document, from 0
  fd,          \* the descriptors of the shell
  save,        \* the backup of standard input
  docFd,       \* fd: /dev/urandom, then the temporary file
  join,        \* the name of the temporary file
  handler,     \* the handler for SIGINT
  gValue,      \* g_value
  herdocFile,  \* cmd->herdoc_file of each command, or NoFile
  files,       \* the temporary files that exist
  status,      \* the exit status register
  sigs, fails  \* interrupts sent, files that could not be opened

place == <<count, line, cmd>>
input == <<fd, save, docFd>>
docs == <<join, herdocFile, files>>
bounds == <<sigs, fails>>
vars == <<place, pc, start, input, handler, gValue, docs, status, bounds>>

(***************************************************************************)
(* The ten letters that were read for a name are new: here the place of    *)
(* the document they are for.                                              *)
(***************************************************************************)
Name(c, i) == [line |-> count, cmd |-> c, doc |-> i]
NoFile == [line |-> 0, cmd |-> 0, doc |-> 0]

Init ==
  /\ count = 1
  /\ line \in Lines
  /\ pc = "scan"
  /\ cmd = 1
  /\ start = 0
  /\ fd = PromptTable({})
  /\ save = NoFd
  /\ docFd = NoFd
  /\ join = NoFile
  /\ handler = "my_handler"
  /\ gValue = 0
  /\ herdocFile = [c \in DOMAIN line |-> NoFile]
  /\ files = {}
  /\ status = 0
  /\ sigs = 0
  /\ fails = 0

-----------------------------------------------------------------------------
(* her_cmd_by_cmd: the commands of the line in their order. *)
SkipCommand ==
  /\ pc = "scan"
  /\ cmd <= Len(line)
  /\ line[cmd].docs = 0
  /\ cmd' = cmd + 1
  /\ UNCHANGED <<count, line, pc, start, input, handler, gValue, docs, status,
                 bounds>>

(* excute_herdoc_for_child: back up standard input. *)
Begin ==
  /\ pc = "scan"
  /\ cmd <= Len(line)
  /\ line[cmd].docs > 0
  /\ start' = 0
  /\ \/ (fd[0] = Closed \/ Full(fd)) /\ save' = NoFd /\ fd' = fd
     \/ /\ fd[0] # Closed
        /\ \E s \in Fd : /\ IsLowestFree(fd, s)
                         /\ save' = s
                         /\ fd' = Put(fd, s, fd[0])
  /\ pc' = "open"
  /\ UNCHANGED <<place, docFd, handler, gValue, docs, status, bounds>>

EndOfLine ==
  /\ pc = "scan"
  /\ cmd > Len(line)
  /\ pc' = "execute"
  /\ UNCHANGED <<place, start, input, handler, gValue, docs, status, bounds>>

(***************************************************************************)
(* One here-document.  generate_file_name opens /dev/urandom at the lowest *)
(* free descriptor, which is 0 when an interrupt has closed it.            *)
(***************************************************************************)
OpenRandom ==
  /\ pc = "open"
  /\ \E f \in Fd : /\ IsLowestFree(fd, f)
                   /\ docFd' = f
                   /\ fd' = Put(fd, f, File)
  /\ pc' = "name"
  /\ UNCHANGED <<place, start, save, handler, gValue, docs, status, bounds>>

(***************************************************************************)
(* The early return, with a block that nobody has written: the name may be *)
(* that of a file that is there, a new one, or none that can be opened     *)
(* (CreateFails).                                                            *)
(***************************************************************************)
RandomFails ==
  /\ pc = "open"
  /\ fails < MaxFails
  /\ fails' = fails + 1
  /\ join' \in files \cup {Name(cmd, start)}
  /\ pc' = "create"
  /\ UNCHANGED <<place, start, input, handler, gValue, herdocFile, files, status,
                 sigs>>

(* read_and_convert, ten times, and the close. *)
NameFile ==
  /\ pc = "name"
  /\ fd[docFd] # Closed
  /\ join' = Name(cmd, start)
  /\ fd' = Close(fd, docFd)
  /\ pc' = "create"
  /\ UNCHANGED <<place, start, save, docFd, handler, gValue, herdocFile, files,
                 status, bounds>>

(***************************************************************************)
(* my_server has closed the descriptor: i does not advance, the read is    *)
(* tried again, for ever.                                                  *)
(***************************************************************************)
ReadsNoName ==
  /\ pc = "name"
  /\ fd[docFd] = Closed
  /\ fd' = Close(fd, docFd)
  /\ UNCHANGED <<place, pc, start, save, docFd, handler, gValue, docs, status,
                 bounds>>

(* minishell_init creates the file, again at the lowest free descriptor. *)
CreateFile_FirstOnly ==
  /\ pc = "create"
  /\ IF start > 0 THEN UNCHANGED <<docFd, fd>>
     ELSE \E f \in Fd : /\ IsLowestFree(fd, f)
                        /\ docFd' = f
                        /\ fd' = Put(fd, f, File)
  /\ files' = files \cup {join}
  /\ pc' = "arm"
  /\ UNCHANGED <<place, start, save, handler, gValue, join, herdocFile, status,
                 bounds>>

CreateFile ==
  /\ pc = "create"
  /\ \E f \in Fd : /\ IsLowestFree(fd, f)
                   /\ docFd' = f
                   /\ fd' = Put(fd, f, File)
  /\ files' = files \cup {join}
  /\ pc' = "arm"
  /\ UNCHANGED <<place, start, save, handler, gValue, join, herdocFile, status,
                 bounds>>

(* The early return: the backup stays open, the handler what it is. *)
CreateFails ==
  /\ pc = "create"
  /\ fails < MaxFails
  /\ fails' = fails + 1
  /\ docFd' = NoFd
  /\ join' = NoFile
  /\ pc' = "check"
  /\ UNCHANGED <<place, start, fd, save, handler, gValue, herdocFile, files,
                 status, sigs>>

(* signal(SIGINT, my_server) *)
Arm ==
  /\ pc = "arm"
  /\ handler' = "my_server"
  /\ pc' = "reset"
  /\ UNCHANGED <<place, start, input, gValue, docs, status, bounds>>

(* make_loop forgets an interrupt that came before it. *)
Reset ==
  /\ pc = "reset"
  /\ gValue' = 0
  /\ pc' = "reading"
  /\ UNCHANGED <<place, start, input, handler, docs, status, bounds>>

(***************************************************************************)
(* make_loop reads lines and writes those before the delimiter to the      *)
(* file.  It ends with the delimiter or an end of file typed at the        *)
(* terminal, or because standard input is closed, or is the empty file.    *)
(***************************************************************************)
TypeDocument ==
  /\ pc = "reading"
  /\ fd[0] = Tty
  /\ pc' = "close"
  /\ UNCHANGED <<place, start, input, handler, gValue, docs, status, bounds>>

ReadNothing ==
  /\ pc = "reading"
  /\ fd[0] # Tty
  /\ pc' = "close"
  /\ UNCHANGED <<place, start, input, handler, gValue, docs, status, bounds>>

(* close, herdoc_condition_1: the file of the last here-document is kept. *)
CloseFile_KeepsFirst ==
  /\ pc = "close"
  /\ fd' = Close(fd, docFd)
  /\ IF start = 0
     THEN /\ herdocFile' = [herdocFile EXCEPT ![cmd] = join]
          /\ UNCHANGED files
     ELSE /\ files' = files \ {join}
          /\ UNCHANGED herdocFile
  /\ pc' = "test"
  /\ UNCHANGED <<place, start, save, docFd, handler, gValue, join, status,
                 bounds>>

CloseFile_KeepsAll ==
  /\ pc = "close"
  /\ fd' = Close(fd, docFd)
  /\ herdocFile' = [herdocFile EXCEPT ![cmd] = join]
  /\ pc' = "test"
  /\ UNCHANGED <<place, start, save, docFd, handler, gValue, join, files,
                 status, bounds>>

CloseFile ==
  /\ pc = "close"
  /\ fd' = Close(fd, docFd)
  /\ IF start = line[cmd].docs - 1
     THEN /\ herdocFile' = [herdocFile EXCEPT ![cmd] = join]
          /\ UNCHANGED files
     ELSE /\ files' = files \ {join}
          /\ UNCHANGED herdocFile
  /\ pc' = "test"
  /\ UNCHANGED <<place, start, save, docFd, handler, gValue, join, status,
                 bounds>>

(* herdoc_condition_2, and the condition of the loop. *)
TestInterrupt ==
  /\ pc = "test"
  /\ IF gValue = SIGINT
     THEN status' = 130 /\ start' = start /\ pc' = "restore"
     ELSE /\ start' = start + 1
          /\ status' = status
          /\ pc' = IF start + 1 < line[cmd].docs THEN "open" ELSE "restore"
  /\ UNCHANGED <<place, input, handler, gValue, docs, bounds>>

(* dup2(save, 0); close(save) *)
RestoreInput_AfterInterruptOnly ==
  /\ pc = "restore"
  /\ fd' = Close(IF gValue = SIGINT THEN Dup2(fd, save, 0) ELSE fd, save)
  /\ pc' = "rearm"
  /\ UNCHANGED <<place, start, save, docFd, handler, gValue, docs, status,
                 bounds>>

RestoreInput ==
  /\ pc = "restore"
  /\ fd' = RestoreStdin(fd, save)
  /\ pc' = "rearm"
  /\ UNCHANGED <<place, start, save, docFd, handler, gValue, docs, status,
                 bounds>>

Rearm_Forgotten ==
  /\ pc = "rearm"
  /\ pc' = "check"
  /\ UNCHANGED <<place, start, input, handler, gValue, docs, status, bounds>>

Rearm ==
  /\ pc = "rearm"
  /\ handler' = "my_handler"
  /\ pc' = "check"
  /\ UNCHANGED <<place, start, input, gValue, docs, status, bounds>>

(* The next command, or the line is abandoned. *)
Check ==
  /\ pc = "check"
  /\ IF gValue = SIGINT THEN pc' = "abandoned" /\ cmd' = cmd
                        ELSE pc' = "scan" /\ cmd' = cmd + 1
  /\ UNCHANGED <<count, line, start, input, handler, gValue, docs, status,
                 bounds>>

Abandon ==
  /\ pc = "abandoned"
  /\ gValue' = 0
  /\ pc' = "prompt"
  /\ UNCHANGED <<place, start, input, handler, docs, status, bounds>>

(***************************************************************************)
(* part_execution: the commands read their files, the file of the first    *)
(* command is removed, the descriptors above 2 are closed up to the first  *)
(* that is not open.  Waiting for children sets the handler.               *)
(***************************************************************************)
Execute ==
  /\ pc = "execute"
  /\ gValue' = 0
  /\ files' = files \ {herdocFile[1]}
  /\ fd' = CloseFdsExceptStd(fd)
  /\ handler' = IF Len(line) = 1 /\ line[1].builtin THEN handler
                ELSE "my_handler"
  /\ pc' = "prompt"
  /\ UNCHANGED <<place, start, save, docFd, join, herdocFile, status, bounds>>

(* The prompt: readline reads another line, or ends the shell. *)
NextLine ==
  /\ pc = "prompt"
  /\ fd[0] = Tty
  /\ count < MaxLines
  /\ count' = count + 1
  /\ line' \in Lines
  /\ cmd' = 1
  /\ herdocFile' = [c \in DOMAIN line' |-> NoFile]
  /\ pc' = "scan"
  /\ UNCHANGED <<start, input, handler, gValue, join, files, status, bounds>>

Leave ==
  /\ pc = "prompt"
  /\ pc' = "exit"
  /\ UNCHANGED <<place, start, input, handler, gValue, docs, status, bounds>>

Done == pc = "exit" /\ UNCHANGED vars

(***************************************************************************)
(* Ctrl-C.  my_server closes standard input; my_handler sets the status.   *)
(***************************************************************************)
Interrupt_KeepsStdin ==
  /\ sigs < MaxSigs
  /\ pc \notin {"execute", "exit"}
  /\ sigs' = sigs + 1
  /\ IF handler = "my_server"
     THEN gValue' = SIGINT /\ UNCHANGED <<fd, status>>
     ELSE status' = 130 /\ UNCHANGED <<fd, gValue>>
  /\ UNCHANGED <<place, pc, start, save, docFd, handler, docs, fails>>

Interrupt ==
  /\ sigs < MaxSigs
  /\ pc \notin {"execute", "exit"}
  /\ sigs' = sigs + 1
  /\ IF handler = "my_server"
     THEN fd' = Close(fd, 0) /\ gValue' = SIGINT /\ UNCHANGED status
     ELSE status' = 130 /\ UNCHANGED <<fd, gValue>>
  /\ UNCHANGED <<place, pc, start, save, docFd, handler, docs, fails>>

(* What the shell does without anyone at the terminal. *)
Shell ==
  \/ SkipCommand \/ Begin \/ EndOfLine \/ OpenRandom \/ NameFile
  \/ ReadsNoName \/ CreateFile \/ Arm \/ Reset \/ ReadNothing \/ CloseFile
  \/ TestInterrupt \/ RestoreInput \/ Rearm \/ Check \/ Abandon \/ Execute

Next ==
  \/ Shell \/ RandomFails \/ CreateFails \/ TypeDocument \/ NextLine \/ Leave
  \/ Done \/ Interrupt

Spec == Init /\ [][Next]_vars

(***************************************************************************)
(* The shell runs when it can; nobody has to type a document, and the      *)
(* kernel need not refuse a file.                                          *)
(***************************************************************************)
FairSpec == Spec /\ WF_vars(Shell)

-----------------------------------------------------------------------------
(***************************************************************************)
(* Properties.  An opening that fails leaves the function at once, with    *)
(* what it had changed: most of them are about lines where none failed.    *)
(***************************************************************************)
TypeOK ==
  /\ count \in 1 .. MaxLines
  /\ line \in Lines
  /\ pc \in {"scan", "open", "name", "create", "arm", "reset", "reading",
             "close", "test", "restore", "rearm", "check", "abandoned",
             "execute", "prompt", "exit"}
  /\ cmd \in 1 .. Len(line) + 1
  /\ start \in Nat
  /\ fd \in Table
  /\ save \in Fd \cup {NoFd}
  /\ docFd \in Fd \cup {NoFd}
  /\ join \in [line : Nat, cmd : Nat, doc : Nat]
  /\ handler \in {"my_handler", "my_server"}
  /\ gValue \in {0, SIGINT}
  /\ herdocFile \in [DOMAIN line -> [line : Nat, cmd : Nat, doc : Nat]]
  /\ files \subseteq [line : Nat, cmd : Nat, doc : Nat]
  /\ status \in {0, 130}
  /\ sigs \in 0 .. MaxSigs
  /\ fails \in 0 .. MaxFails

(***************************************************************************)
(* Commands are executed with the terminal as standard input, wherever     *)
(* interrupts closed it before: the one place where a close is not undone, *)
(* between the restore and the change of the handler, abandons the line.   *)
(***************************************************************************)
ExecutesOnTerminal ==
  pc \in {"scan", "execute"} /\ fails = 0 => fd[0] = Tty

(***************************************************************************)
(* What is typed goes into the file of this here-document: the descriptor  *)
(* it is written to is open on it, and is not standard input, which the    *)
(* file gets when an interrupt was forgotten by make_loop.                 *)
(***************************************************************************)
WritesItsFile ==
  pc = "reading" /\ fd[0] = Tty => docFd # 0 /\ fd[docFd] = File

(***************************************************************************)
(* A command with here-documents finds the file of the last one of them    *)
(* when it is executed, also when an interrupt was forgotten; of the files *)
(* of a line only those are left, whatever way the line went.              *)
(***************************************************************************)
FilesThere ==
  pc = "execute" /\ fails = 0 =>
    \A c \in DOMAIN line : line[c].docs > 0 =>
      /\ herdocFile[c] = Name(c, line[c].docs - 1)
      /\ herdocFile[c] \in files

OnlyLastFilesLeft ==
  pc \in {"execute", "abandoned", "prompt"} =>
    \A f \in files : f.line = count => f.doc = line[f.cmd].docs - 1

(***************************************************************************)
(* Here-documents leave no descriptor open and the handler of the prompt   *)
(* in place: with the other one, Ctrl-C at the prompt would end the shell. *)
(***************************************************************************)
PromptIsClean ==
  pc \in {"execute", "prompt"} /\ fails = 0 =>
    /\ \A f \in Fd : f > 2 => fd[f] = Closed
    /\ handler = "my_handler"

(***************************************************************************)
(* An interrupt while a here-document is read always abandons the line,    *)
(* with the status 130, although make_loop learns of it only through the   *)
(* end of its input, and three functions test the variable on the way.     *)
(***************************************************************************)
InterruptAbandons ==
  (pc = "reading" /\ gValue = SIGINT) ~> (pc = "abandoned" /\ status = 130)

=============================================================================
