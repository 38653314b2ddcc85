------------------------------ MODULE Pipeline ------------------------------
(***************************************************************************)
(* The execution of one command line by forked stages: the descriptors of  *)
(* the shell and of every child, the fork loop with its failures, signals  *)
(* from the terminal, the pipes between the stages, and the status the     *)
(* line leaves.  A line starts where an earlier one left the shell: any    *)
(* status, and descriptors that line did not close.  Lines that are one    *)
(* builtin run in the shell itself and are not in this module.             *)
(*                                                                         *)
(* The definitions named X_... are what a slip could make of the           *)
(* definition X that follows them; no action uses them.                    *)
(***************************************************************************)
EXTENDS ShellTables, Sequences

CONSTANTS
  Lines,       \* the command lines to execute
  Statuses,    \* the exit statuses an earlier line may have left
  Leftovers,   \* the sets of descriptors earlier lines may have left open
  PipeCap,     \* what a pipe holds before a writer blocks
  MaxSigs,     \* bound: signals from the terminal
  MaxFails     \* bound: pipe and fork calls the kernel refuses

(***************************************************************************)
(* A stage is a program with one redirection at most.  What the programs   *)
(* do is kept to their use of standard input and output:                   *)
(*   cat     copies its input to its output            (external)          *)
(*   head    copies one unit of it and ends            (external)          *)
(*   yes     writes for ever                           (external)          *)
(*   prog    neither reads nor writes, ends with code  (external)          *)
(*   echo    builtin, writes one unit, sets status 0                       *)
(*   newline builtin, echo without an argument: leaves the status alone    *)
(*   quiet   builtin that writes nothing and sets the status to code       *)
(*   exit    builtin exit, with code as its argument                       *)
(*   missing a name no directory of PATH has                               *)
(*   noexec  a file execve refuses, with code 126 (EACCES, ENOTDIR) or 127 *)
(*   empty   a command whose name expands to the empty string              *)
(*   none    a redirection without a command                               *)
(***************************************************************************)
Builtins == {"echo", "newline", "quiet", "exit"}
Kinds == Builtins \cup
  {"cat", "head", "yes", "prog", "missing", "noexec", "empty", "none"}
Redirs == {"none", "in", "out", "bad"}

StageType == [kind : Kinds, redir : Redirs, code : 0 .. 255]

ASSUME LinesAssumption ==
  \A l \in Lines : /\ l \in Seq(StageType)
                   /\ Len(l) > 0
                   /\ Len(l) = 1 => l[1].kind \notin Builtins

ASSUME BoundsAssumption ==
  /\ Statuses \subseteq Nat
  /\ Leftovers \subseteq SUBSET Fd
  /\ \A s \in Leftovers : \A f \in s : f > 2
  /\ PipeCap \in Nat \ {0}
  /\ MaxSigs \in Nat
  /\ MaxFails \in Nat

VARIABLES
  line,        \* the stages of the command line
  \* the shell process
  pc,          \* where the shell is in the execution of the line
  curr,        \* the stage the fork loop is at
  fd,          \* its descriptors
  savedStdin,  \* fd.saved_stdin: the backup of standard input for the line
  save,        \* params->save: the backup of standard input for one stage
  prevFd,      \* state.prev_fd: the read end left by the stage before
  pipeFd,      \* params->fd: the last two descriptors pipe() returned
  pidCount,    \* state.pid_count: children forked
  waited,      \* children waited for
  status,      \* the exit status register
  \* the children, one for each stage
  cpc,         \* where the child is
  cfd,         \* its descriptors
  cparams,     \* its copy of the shell's descriptor numbers
  cstatus,     \* its copy of the status register
  ending,      \* how it ended
  \* the rest
  pipe,        \* what each pipe holds
  sigs, fails  \* signals sent, calls refused

shell == <<curr, savedStdin, save, prevFd, pipeFd, pidCount, waited>>
children == <<cpc, cfd, cparams, cstatus, ending>>
vars == <<line, pc, shell, fd, status, children, pipe, sigs, fails>>

Last == Len(line)
Stage == 1 .. Last

SIGINT  == 2
SIGQUIT == 3
SIGPIPE == 13

NoEnding == [sig |-> 0, code |-> -1]
NoParams == [prev |-> NoFd, pipe |-> [r |-> 0, w |-> 0],
             save |-> NoFd, saved |-> NoFd]

Init ==
  /\ line \in Lines
  /\ status \in Statuses
  /\ \E left \in Leftovers : fd = PromptTable(left)
  /\ pc = "enter"
  /\ curr = 1
  /\ savedStdin = NoFd
  /\ save = NoFd
  /\ prevFd = NoFd
  /\ pipeFd = [r |-> 0, w |-> 0]
  /\ pidCount = 0
  /\ waited = 0
  /\ cpc = [j \in Stage |-> "unborn"]
  /\ cfd = [j \in Stage |-> NoTable]
  /\ cparams = [j \in Stage |-> NoParams]
  /\ cstatus = [j \in Stage |-> 0]
  /\ ending = [j \in Stage |-> NoEnding]
  /\ pipe = [j \in Stage |-> 0]
  /\ sigs = 0
  /\ fails = 0

-----------------------------------------------------------------------------
(***************************************************************************)
(* The shell.                                                              *)
(***************************************************************************)

(* empty_command: an empty name anywhere in the line sets 127 first. *)
EmptyCommand ==
  IF \E j \in Stage : line[j].kind = "empty" THEN 127 ELSE status

Enter ==
  /\ pc = "enter"
  /\ DupStdin(fd, savedStdin', fd')
  /\ status' = EmptyCommand
  /\ pc' = "iter"
  /\ UNCHANGED <<line, curr, save, prevFd, pipeFd, pidCount, waited,
                 children, pipe, sigs, fails>>

(***************************************************************************)
(* pipe_iteration: back up standard input, open the pipe to the next       *)
(* stage, fork.                                                            *)
(***************************************************************************)
DupFails ==
  /\ pc = "iter"
  /\ Full(fd)
  /\ save' = NoFd
  /\ pc' = "fail"
  /\ UNCHANGED <<line, curr, savedStdin, prevFd, pipeFd, pidCount, waited, fd,
                 status, children, pipe, sigs, fails>>

BeginLastStage ==
  /\ pc = "iter"
  /\ curr = Last
  /\ \E s \in Fd : /\ IsLowestFree(fd, s)
                   /\ save' = s
                   /\ fd' = Put(fd, s, fd[0])
  /\ pc' = "fork"
  /\ UNCHANGED <<line, curr, savedStdin, prevFd, pipeFd, pidCount, waited,
                 status, children, pipe, sigs, fails>>

BeginStage ==
  /\ pc = "iter"
  /\ curr < Last
  /\ \E s, r, w \in Fd :
       /\ IsLowestFree(fd, s)
       /\ IsPipe(Put(fd, s, fd[0]), r, w)
       /\ save' = s
       /\ pipeFd' = [r |-> r, w |-> w]
       /\ fd' = Put(Put(Put(fd, s, fd[0]), r, ReadEnd(curr)), w, WriteEnd(curr))
  /\ pc' = "fork"
  /\ UNCHANGED <<line, curr, savedStdin, prevFd, pidCount, waited,
                 status, children, pipe, sigs, fails>>

PipeFails ==
  /\ pc = "iter"
  /\ curr < Last
  /\ \E s \in Fd :
       /\ IsLowestFree(fd, s)
       /\ save' = s
       /\ LET t == Put(fd, s, fd[0]) IN
            /\ IF PipeRefused(t) THEN fails' = fails
               ELSE fails < MaxFails /\ fails' = fails + 1
            /\ fd' = RestoreStdin(Close(t, s), savedStdin)
  /\ pc' = "fail"
  /\ UNCHANGED <<line, curr, savedStdin, prevFd, pipeFd, pidCount, waited,
                 status, children, pipe, sigs>>

Fork ==
  /\ pc = "fork"
  /\ cpc' = [cpc EXCEPT ![curr] = "forked"]
  /\ cfd' = [cfd EXCEPT ![curr] = fd]
  /\ cparams' = [cparams EXCEPT ![curr] =
                   [prev |-> prevFd, pipe |-> pipeFd,
                    save |-> save, saved |-> savedStdin]]
  /\ cstatus' = [cstatus EXCEPT ![curr] = status]
  /\ pc' = "attach"
  /\ UNCHANGED <<line, shell, fd, status, ending, pipe, sigs, fails>>

(* fork refuses: handle_fork_error. *)
ForkFails ==
  /\ pc = "fork"
  /\ fails < MaxFails
  /\ fails' = fails + 1
  /\ fd' = RestoreStdin(Close(fd, save), savedStdin)
  /\ pc' = "fail"
  /\ UNCHANGED <<line, shell, status, children, pipe, sigs>>

ClosePrev_Forgets == fd

(* What the shell does after each fork: handle_parent_process first. *)
ClosePrev == IF prevFd = NoFd THEN fd ELSE Close(fd, prevFd)

Attach_ClosesBothEnds ==
  /\ pc = "attach"
  /\ curr < Last
  /\ fd' = RestoreStdin(Close(Close(ClosePrev, pipeFd.w), pipeFd.r), save)
  /\ prevFd' = pipeFd.r
  /\ pidCount' = pidCount + 1
  /\ curr' = curr + 1
  /\ pc' = "iter"
  /\ UNCHANGED <<line, savedStdin, save, pipeFd, waited, status, children,
                 pipe, sigs, fails>>

Attach ==
  /\ pc = "attach"
  /\ curr < Last
  /\ fd' = RestoreStdin(Close(ClosePrev, pipeFd.w), save)
  /\ prevFd' = pipeFd.r
  /\ pidCount' = pidCount + 1
  /\ curr' = curr + 1
  /\ pc' = "iter"
  /\ UNCHANGED <<line, savedStdin, save, pipeFd, waited, status, children,
                 pipe, sigs, fails>>

(***************************************************************************)
(* The last stage has no pipe of its own: the shell closes the numbers the *)
(* stage before got from pipe(), or descriptor 0 twice when there is none. *)
(***************************************************************************)
AttachLast ==
  /\ pc = "attach"
  /\ curr = Last
  /\ fd' = RestoreStdin(Close(Close(ClosePrev, pipeFd.r), pipeFd.w), save)
  /\ pidCount' = pidCount + 1
  /\ pc' = "cleanup"
  /\ UNCHANGED <<line, curr, savedStdin, save, prevFd, pipeFd, waited, status,
                 children, pipe, sigs, fails>>

(* cleanup_pipeline_fds, with the prev_fd of the state it is given. *)
CleanupPipelineFds(prev) ==
  CloseAbove2(CloseAbove2(CloseAbove2(fd, pipeFd.r), pipeFd.w), prev)

(***************************************************************************)
(* The fork loop failed: it cleans up with its own copy of the state, whose*)
(* prev_fd is still -1, and returns without waiting for the children.      *)
(***************************************************************************)
GiveUp ==
  /\ pc = "fail"
  /\ fd' = RestoreStdin(CleanupPipelineFds(NoFd), savedStdin)
  /\ pc' = "restore"
  /\ UNCHANGED <<line, shell, status, children, pipe, sigs, fails>>

(* The fork loop is done; from here on the shell ignores SIGINT. *)
Cleanup ==
  /\ pc = "cleanup"
  /\ fd' = CleanupPipelineFds(prevFd)
  /\ pc' = "wait"
  /\ UNCHANGED <<line, shell, status, children, pipe, sigs, fails>>

WaitStage_StopsAtInterrupt ==
  /\ pc = "wait"
  /\ LET j == waited + 1 IN
       /\ cpc[j] = "zombie"
       /\ cpc' = [cpc EXCEPT ![j] = "reaped"]
       /\ waited' = j
       /\ status' = IF ending[j].sig = 0 THEN ending[j].code ELSE 130
       /\ pc' = IF j = pidCount \/ ending[j].sig = SIGINT THEN "report"
                ELSE "wait"
  /\ UNCHANGED <<line, curr, fd, savedStdin, save, prevFd, pipeFd, pidCount,
                 cfd, cparams, cstatus, ending, pipe, sigs, fails>>

WaitStage_LastOnly ==
  /\ pc = "wait"
  /\ cpc[pidCount] = "zombie"
  /\ cpc' = [cpc EXCEPT ![pidCount] = "reaped"]
  /\ waited' = pidCount
  /\ status' = IF ending[pidCount].sig = 0 THEN ending[pidCount].code ELSE 0
  /\ pc' = "report"
  /\ UNCHANGED <<line, curr, fd, savedStdin, save, prevFd, pipeFd, pidCount,
                 cfd, cparams, cstatus, ending, pipe, sigs, fails>>

(***************************************************************************)
(* handle_core_dumped waits for the children in the order of their forks.  *)
(* One that died of SIGINT sets 130 unless it is alone; the last one sets  *)
(* its WEXITSTATUS, which is 0 when a signal killed it.                    *)
(***************************************************************************)
WaitStage ==
  /\ pc = "wait"
  /\ LET j == waited + 1 IN
       /\ cpc[j] = "zombie"
       /\ cpc' = [cpc EXCEPT ![j] = "reaped"]
       /\ waited' = j
       /\ status' = IF j = pidCount
                    THEN IF ending[j].sig = 0 THEN ending[j].code ELSE 0
                    ELSE IF ending[j].sig = SIGINT THEN 130 ELSE status
       /\ pc' = IF j = pidCount THEN "report" ELSE "wait"
  /\ UNCHANGED <<line, curr, fd, savedStdin, save, prevFd, pipeFd, pidCount,
                 cfd, cparams, cstatus, ending, pipe, sigs, fails>>

Report_FirstStage ==
  /\ pc = "report"
  /\ status' = IF ending[1].sig = 0 THEN status ELSE 128 + ending[1].sig
  /\ pc' = "rearm"
  /\ UNCHANGED <<line, shell, fd, children, pipe, sigs, fails>>

(* parent_status, given the status word of the last child. *)
Report ==
  /\ pc = "report"
  /\ status' = IF ending[pidCount].sig = 0 THEN status
               ELSE 128 + ending[pidCount].sig
  /\ pc' = "rearm"
  /\ UNCHANGED <<line, shell, fd, children, pipe, sigs, fails>>

(* signal(SIGINT, my_handler) *)
Rearm ==
  /\ pc = "rearm"
  /\ pc' = "restore"
  /\ UNCHANGED <<line, shell, fd, status, children, pipe, sigs, fails>>

Restore ==
  /\ pc = "restore"
  /\ fd' = CloseFdsExceptStd(RestoreStdin(fd, savedStdin))
  /\ pc' = "prompt"
  /\ UNCHANGED <<line, shell, status, children, pipe, sigs, fails>>

(* The shell waits for the next line; the model ends here. *)
AtPrompt ==
  /\ pc = "prompt"
  /\ UNCHANGED vars

-----------------------------------------------------------------------------
(***************************************************************************)
(* The children.                                                           *)
(***************************************************************************)

Alive(j) == cpc[j] \notin {"unborn", "zombie", "reaped"}

(* exit(code), or death by a signal: the kernel closes what it had open. *)
Ends(j, sig, code) ==
  /\ cpc' = [cpc EXCEPT ![j] = "zombie"]
  /\ ending' = [ending EXCEPT ![j] = [sig |-> sig, code |-> code]]
  /\ cfd' = [cfd EXCEPT ![j] = NoTable]

(* signal(SIGQUIT, SIG_DFL); signal(SIGINT, SIG_DFL) *)
ResetSignals(j) ==
  /\ cpc[j] = "forked"
  /\ cpc' = [cpc EXCEPT ![j] = "plumb"]
  /\ UNCHANGED <<line, pc, shell, fd, status, cfd, cparams, cstatus, ending,
                 pipe, sigs, fails>>

SetupChildIo_KeepsReadEnd(j) ==
  LET p == cparams[j]
      t == IF j < Last THEN Close(Dup2(cfd[j], p.pipe.w, 1), p.pipe.w)
           ELSE cfd[j]
  IN  IF p.prev = NoFd THEN t ELSE Close(Dup2(t, p.prev, 0), p.prev)

SetupChildIo_KeepsPrev(j) ==
  LET p == cparams[j]
      t == IF j < Last
           THEN Close(Close(Dup2(cfd[j], p.pipe.w, 1), p.pipe.w), p.pipe.r)
           ELSE cfd[j]
  IN  IF p.prev = NoFd THEN t ELSE Dup2(t, p.prev, 0)

SetupChildIo_ClosesFirst(j) ==
  LET p == cparams[j]
      t == IF j < Last
           THEN Dup2(Close(Close(cfd[j], p.pipe.w), p.pipe.r), p.pipe.w, 1)
           ELSE cfd[j]
  IN  IF p.prev = NoFd THEN t ELSE Close(Dup2(t, p.prev, 0), p.prev)

(* setup_child_io *)
SetupChildIo(j) ==
  LET p == cparams[j]
      t == IF j < Last
           THEN Close(Close(Dup2(cfd[j], p.pipe.w, 1), p.pipe.w), p.pipe.r)
           ELSE cfd[j]
  IN  IF p.prev = NoFd THEN t ELSE Close(Dup2(t, p.prev, 0), p.prev)

Plumb(j) ==
  /\ cpc[j] = "plumb"
  /\ cfd' = [cfd EXCEPT ![j] =
               Close(Close(SetupChildIo(j), cparams[j].saved), cparams[j].save)]
  /\ cpc' = [cpc EXCEPT ![j] = "redirect"]
  /\ UNCHANGED <<line, pc, shell, fd, status, cparams, cstatus, ending, pipe,
                 sigs, fails>>

(* excute_redirection_of_child: a file replaces the end of the pipe. *)
Redirected(j) ==
  CASE line[j].redir = "in"  -> Put(cfd[j], 0, File)
    [] line[j].redir = "out" -> Put(cfd[j], 1, File)
    [] OTHER                 -> cfd[j]

Redirect(j) ==
  /\ cpc[j] = "redirect"
  /\ line[j].redir # "bad"
  /\ cfd' = [cfd EXCEPT ![j] = Redirected(j)]
  /\ cpc' = [cpc EXCEPT ![j] = "start"]
  /\ UNCHANGED <<line, pc, shell, fd, status, cparams, cstatus, ending, pipe,
                 sigs, fails>>

(* The file cannot be opened: close_all_fds, exit(1). *)
RedirectFails(j) ==
  /\ cpc[j] = "redirect"
  /\ line[j].redir = "bad"
  /\ Ends(j, 0, 1)
  /\ UNCHANGED <<line, pc, shell, fd, status, cparams, cstatus, pipe, sigs,
                 fails>>

(***************************************************************************)
(* execute_command_logic: the stages that end before they run anything,    *)
(* and with which status.  A builtin in a child is not run at all when the *)
(* status register it inherited is 1.                                      *)
(***************************************************************************)
NotRun(j) ==
  \/ line[j].kind \in {"missing", "noexec", "empty", "none", "exit"}
  \/ line[j].kind \in Builtins /\ cstatus[j] = 1

(* execve_error: 100 and 200 are what the shell uses for other purposes. *)
ExecveError(j) ==
  CASE line[j].code = 126  -> 126
    [] cstatus[j] = 100    -> 0
    [] cstatus[j] = 200    -> 200
    [] OTHER               -> 127

NotRunStatus(j) ==
  CASE line[j].kind = "missing" -> 127
    [] line[j].kind = "noexec"  -> ExecveError(j)
    [] line[j].kind = "exit"    -> IF line[j].code = 0 THEN cstatus[j]
                                   ELSE line[j].code
    [] OTHER                    -> cstatus[j]

Refuse(j) ==
  /\ cpc[j] = "start"
  /\ NotRun(j)
  /\ Ends(j, 0, NotRunStatus(j))
  /\ UNCHANGED <<line, pc, shell, fd, status, cparams, cstatus, pipe, sigs,
                 fails>>

FirstStep(j) ==
  CASE line[j].kind \in {"cat", "head"}            -> "reading"
    [] line[j].kind \in {"yes", "echo", "newline"} -> "writing"
    [] OTHER                                       -> "done"

Start(j) ==
  /\ cpc[j] = "start"
  /\ ~NotRun(j)
  /\ cpc' = [cpc EXCEPT ![j] = FirstStep(j)]
  /\ UNCHANGED <<line, pc, shell, fd, status, cfd, cparams, cstatus, ending,
                 pipe, sigs, fails>>

(***************************************************************************)
(* The programs.  A pipe has the ends that the shell and the children have *)
(* open, at whatever number.                                               *)
(***************************************************************************)
HeldBySomeone(d) ==
  \/ \E f \in Fd : fd[f] = d
  \/ \E j \in Stage : \E f \in Fd : cfd[j][f] = d

Input(j)  == cfd[j][0]
Output(j) == cfd[j][1]

ReadPipe(j) ==
  /\ cpc[j] = "reading"
  /\ Input(j).kind = "read"
  /\ pipe[Input(j).pipe] > 0
  /\ pipe' = [pipe EXCEPT ![Input(j).pipe] = @ - 1]
  /\ cpc' = [cpc EXCEPT ![j] = "writing"]
  /\ UNCHANGED <<line, pc, shell, fd, status, cfd, cparams, cstatus, ending,
                 sigs, fails>>

AtEndOfInput(j) ==
  \/ Input(j) = File
  \/ /\ Input(j).kind = "read"
     /\ pipe[Input(j).pipe] = 0
     /\ ~HeldBySomeone(WriteEnd(Input(j).pipe))

ReadEof(j) ==
  /\ cpc[j] = "reading"
  /\ AtEndOfInput(j)
  /\ cpc' = [cpc EXCEPT ![j] = "done"]
  /\ UNCHANGED <<line, pc, shell, fd, status, cfd, cparams, cstatus, ending,
                 pipe, sigs, fails>>

(* Someone types a line, or an end of file, at the terminal. *)
ReadTty(j) ==
  /\ cpc[j] = "reading"
  /\ Input(j) = Tty
  /\ \E next \in {"writing", "done"} : cpc' = [cpc EXCEPT ![j] = next]
  /\ UNCHANGED <<line, pc, shell, fd, status, cfd, cparams, cstatus, ending,
                 pipe, sigs, fails>>

AfterWrite(j) ==
  CASE line[j].kind = "cat" -> "reading"
    [] line[j].kind = "yes" -> "writing"
    [] OTHER                -> "done"

Write(j) ==
  /\ cpc[j] = "writing"
  /\ IF Output(j).kind = "write"
     THEN /\ HeldBySomeone(ReadEnd(Output(j).pipe))
          /\ pipe[Output(j).pipe] < PipeCap
          /\ pipe' = [pipe EXCEPT ![Output(j).pipe] = @ + 1]
     ELSE pipe' = pipe
  /\ cpc' = [cpc EXCEPT ![j] = AfterWrite(j)]
  /\ UNCHANGED <<line, pc, shell, fd, status, cfd, cparams, cstatus, ending,
                 sigs, fails>>

WriteBroken(j) ==
  /\ cpc[j] = "writing"
  /\ Output(j).kind = "write"
  /\ ~HeldBySomeone(ReadEnd(Output(j).pipe))
  /\ Ends(j, SIGPIPE, 0)
  /\ UNCHANGED <<line, pc, shell, fd, status, cparams, cstatus, pipe, sigs,
                 fails>>

ExitStatus(j) ==
  CASE line[j].kind = "newline"          -> cstatus[j]
    [] line[j].kind \in {"prog", "quiet"} -> line[j].code
    [] OTHER                             -> 0

Exit(j) ==
  /\ cpc[j] = "done"
  /\ Ends(j, 0, ExitStatus(j))
  /\ UNCHANGED <<line, pc, shell, fd, status, cparams, cstatus, pipe, sigs,
                 fails>>

-----------------------------------------------------------------------------
(***************************************************************************)
(* Ctrl-C and Ctrl-\: the terminal signals the shell and all its children. *)
(* The shell has its handler, which sets 130, except while it waits, and   *)
(* ignores SIGQUIT.  A child has what it inherited until it resets both.   *)
(***************************************************************************)
Dies(j) == Alive(j) /\ cpc[j] # "forked"

Signal(s) ==
  /\ sigs < MaxSigs
  /\ pc # "prompt"
  /\ sigs' = sigs + 1
  /\ status' = IF s = SIGINT /\ pc \notin {"wait", "report", "rearm"}
               THEN 130 ELSE status
  /\ cstatus' = [j \in Stage |-> IF s = SIGINT /\ cpc[j] = "forked"
                                 THEN 130 ELSE cstatus[j]]
  /\ cpc' = [j \in Stage |-> IF Dies(j) THEN "zombie" ELSE cpc[j]]
  /\ cfd' = [j \in Stage |-> IF Dies(j) THEN NoTable ELSE cfd[j]]
  /\ ending' = [j \in Stage |-> IF Dies(j) THEN [sig |-> s, code |-> 0]
                                ELSE ending[j]]
  /\ UNCHANGED <<line, pc, shell, fd, cparams, pipe, fails>>

-----------------------------------------------------------------------------
Shell ==
  \/ Enter \/ DupFails \/ BeginStage \/ BeginLastStage \/ PipeFails
  \/ Fork \/ ForkFails \/ Attach \/ AttachLast \/ GiveUp \/ Cleanup
  \/ WaitStage \/ Report \/ Rearm \/ Restore

Child(j) ==
  \/ ResetSignals(j) \/ Plumb(j) \/ Redirect(j) \/ RedirectFails(j)
  \/ Refuse(j) \/ Start(j) \/ ReadPipe(j) \/ ReadEof(j) \/ Write(j)
  \/ WriteBroken(j) \/ Exit(j)

Next ==
  \/ Shell
  \/ \E j \in Stage : Child(j) \/ ReadTty(j)
  \/ \E s \in {SIGINT, SIGQUIT} : Signal(s)
  \/ AtPrompt

Spec == Init /\ [][Next]_vars

(***************************************************************************)
(* The kernel schedules the shell and every child; nothing is promised of  *)
(* who sits at the terminal, or of signals and failures.                   *)
(***************************************************************************)
FairSpec ==
  /\ Spec
  /\ WF_vars(Shell)
  /\ \A j \in 1 .. 3 : WF_vars(j \in Stage /\ Child(j))

-----------------------------------------------------------------------------
(***************************************************************************)
(* Properties.                                                             *)
(***************************************************************************)
Params == [prev : Fd \cup {NoFd}, pipe : [r : Fd, w : Fd],
           save : Fd \cup {NoFd}, saved : Fd \cup {NoFd}]

TypeOK ==
  /\ line \in Lines
  /\ pc \in {"enter", "iter", "fork", "attach", "fail", "cleanup", "wait",
             "report", "rearm", "restore", "prompt"}
  /\ curr \in Stage
  /\ fd \in Table
  /\ savedStdin \in Fd \cup {NoFd}
  /\ save \in Fd \cup {NoFd}
  /\ prevFd \in Fd \cup {NoFd}
  /\ pipeFd \in [r : Fd, w : Fd]
  /\ pidCount \in 0 .. Last
  /\ waited \in 0 .. Last
  /\ status \in Nat
  /\ cpc \in [Stage -> {"unborn", "forked", "plumb", "redirect", "start",
                        "reading", "writing", "done", "zombie", "reaped"}]
  /\ cfd \in [Stage -> Table]
  /\ cparams \in [Stage -> Params]
  /\ cstatus \in [Stage -> Nat]
  /\ ending \in [Stage -> [sig : Nat, code : Nat \cup {-1}]]
  /\ pipe \in [Stage -> 0 .. PipeCap]
  /\ sigs \in 0 .. MaxSigs
  /\ fails \in 0 .. MaxFails

(***************************************************************************)
(* The shell keeps its terminal: descriptors 0 to 2 refer to it in every   *)
(* state, although the executor closes descriptor 0 after a line of one    *)
(* stage, and closes the numbers of pipes it has closed before, and        *)
(* restores standard input from backups it may have closed.                *)
(***************************************************************************)
TerminalKept == \A f \in 0 .. 2 : fd[f] = Tty

(***************************************************************************)
(* The fork loop's closes never hit something else that took the number:   *)
(* while stages are started, the backup of standard input is open and the  *)
(* read end for the next stage is what prev_fd says.                       *)
(***************************************************************************)
BackupHeld ==
  pc \in {"iter", "fork", "attach", "cleanup", "wait", "report", "rearm"} =>
    savedStdin = NoFd \/ fd[savedStdin] = Tty

ChainHeld ==
  pc = "iter" /\ curr > 1 => prevFd # NoFd /\ fd[prevFd] = ReadEnd(curr - 1)

(***************************************************************************)
(* A stage that runs has the ends of the pipes to its two neighbours and   *)
(* of no other pipe, at descriptors 0 and 1, and no backup of the shell's: *)
(* setup_child_io and execute_child_process close all they inherited.      *)
(***************************************************************************)
Plumbed(j) == Alive(j) /\ cpc[j] \notin {"forked", "plumb"}

Redirects(j, way) == line[j].redir = way /\ cpc[j] # "redirect"

StageIsolation ==
  \A j \in Stage : Plumbed(j) =>
    /\ Input(j)  = IF Redirects(j, "in") THEN File
                   ELSE IF j = 1 THEN Tty ELSE ReadEnd(j - 1)
    /\ Output(j) = IF Redirects(j, "out") THEN File
                   ELSE IF j = Last THEN Tty ELSE WriteEnd(j)
    /\ \A f \in Fd : f > 2 => cfd[j][f] \in {Closed, Leftover}

(***************************************************************************)
(* The shell holds no end of a pipe while it waits, or a reader would wait *)
(* for an end of file that cannot come; and it comes back to the prompt    *)
(* with nothing of the line left open.  The exception is a fork that fails *)
(* in the middle of a line: the read end of the stage before stays open.   *)
(***************************************************************************)
NoPipeHeld == \A f \in Fd : fd[f].kind \notin {"read", "write"}

LeakedByFailedFork(f) ==
  /\ fails > 0
  /\ pidCount \in 1 .. Last - 2
  /\ f = prevFd
  /\ fd[f] = ReadEnd(pidCount)

NoDescriptorLeak ==
  /\ pc \in {"wait", "report", "rearm"} => NoPipeHeld
  /\ pc = "prompt" => \A f \in Fd : f > 2 =>
       fd[f] \in {Closed, Leftover} \/ LeakedByFailedFork(f)

(***************************************************************************)
(* The status of a line is the one of its last stage, in whatever order    *)
(* the stages end and whichever of them a signal kills: the loop that      *)
(* waits sets it to other values on the way.                               *)
(***************************************************************************)
StatusIsLastStage ==
  pc = "rearm" => status = IF ending[Last].sig = 0 THEN ending[Last].code
                           ELSE 128 + ending[Last].sig

(* A line whose stages were all started leaves no zombie at the prompt. *)
NoZombie ==
  pc = "prompt" /\ pidCount = Last => \A j \in Stage : cpc[j] = "reaped"

(***************************************************************************)
(* No stage dies of a broken pipe before the stage that reads from it had  *)
(* its turn: that one has ended, or reads from a file, or was never        *)
(* started because the executor gave up.                                   *)
(***************************************************************************)
GaveUp == pc \in {"fail", "restore", "prompt"} /\ pidCount < Last

BrokenPipeOnlyAfterReader ==
  \A j \in Stage : ending[j].sig = SIGPIPE =>
    /\ j < Last
    /\ \/ cpc[j + 1] \in {"zombie", "reaped"}
       \/ line[j + 1].redir = "in" /\ Alive(j + 1)
       \/ GaveUp /\ cpc[j + 1] = "unborn"

(***************************************************************************)
(* No stage is told that its input ended while the stage before it can     *)
(* still write to it.                                                      *)
(***************************************************************************)
ReadsEof(j) == cpc[j] = "reading" /\ cpc'[j] = "done" /\ Input(j).kind = "read"

EofOnlyAfterWriter ==
  [][\A j \in Stage : ReadsEof(j) =>
       \/ cpc[j - 1] \in {"zombie", "reaped"}
       \/ line[j - 1].redir = "out"]_vars

(***************************************************************************)
(* Every line comes back to the prompt when its stages can end by          *)
(* themselves (the lines of the run): writers that never stop are stopped  *)
(* by the end of their reader, which needs every other copy of the read    *)
(* end to be closed.                                                       *)
(***************************************************************************)
PromptReturns == <>(pc = "prompt")

(***************************************************************************)
(* The executor keeps what PipelineSpec promises.                          *)
(***************************************************************************)
Collected == pc \in {"rearm", "restore"} /\ pidCount = Last

Line == INSTANCE PipelineSpec WITH
  last   <- Last,
  phase  <- IF pc = "prompt" THEN "prompt"
            ELSE IF Collected THEN "collected" ELSE "running",
  ended  <- ending,
  result <- IF (Collected \/ pc = "prompt") /\ pidCount = Last THEN status
            ELSE -1

KeepsPromise == Line!AbstractSpec

=============================================================================
