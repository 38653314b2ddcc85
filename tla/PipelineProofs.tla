--------------------------- MODULE PipelineProofs ---------------------------
(***************************************************************************)
(* Proofs about Pipeline, for every set of lines, any number of stages,    *)
(* any descriptor limit and any number of signals and failures.            *)
(***************************************************************************)
EXTENDS PipelineInvariant, ShellTablesProofs

-----------------------------------------------------------------------------
(***************************************************************************)
(* Type correctness.  The steps that index a function by a count or by the *)
(* pipe of a descriptor need other parts of the invariant.                 *)
(***************************************************************************)
LEMMA LineFacts ==
  ASSUME line \in Lines
  PROVE  /\ Last \in Nat /\ Last > 0 /\ Stage = 1 .. Last
         /\ \A j \in Stage : line[j] \in StageType
BY LinesAssumption DEF Last, Stage

LEMMA InitType == Init => TypeOK
<1> SUFFICES ASSUME Init PROVE TypeOK
  OBVIOUS
<1>1. Last \in Nat /\ Last > 0 /\ Stage = 1 .. Last
  BY LineFacts DEF Init
<1>2. fd \in Table
  BY TargetTypes DEF Init, PromptTable, Table
<1>3. NoTable \in Table
  BY TargetTypes DEF NoTable, Table
<1>4. NoParams \in Params
  BY FdFacts DEF NoParams, Params
<1>5. NoEnding \in [sig : Nat, code : Nat \cup {-1}]
  BY DEF NoEnding
<1>6. QED
  BY <1>1, <1>2, <1>3, <1>4, <1>5, FdFacts, BoundsAssumption DEF Init, TypeOK

LEMMA ShellType ==
  ASSUME IInv, Shell
  PROVE  TypeOK'
<1> USE DEF IInv, TableInv
<1>0. /\ Last \in Nat /\ Last > 0 /\ Stage = 1 .. Last
      /\ 0 \in Fd /\ 1 \in Fd /\ 2 \in Fd /\ Fd \subseteq Nat /\ NoFd \notin Fd
  BY LineFacts, FdFacts DEF TypeOK
<1>1. CASE Enter
  <2>1. status' \in Nat
    BY <1>1 DEF Enter, EmptyCommand, TypeOK
  <2>2. fd' \in Table /\ savedStdin' \in Fd \cup {NoFd}
    BY <1>1, DupStdinTable DEF Enter, TypeOK
  <2>3. QED
    BY <1>1, <2>1, <2>2 DEF Enter, TypeOK, children, Stage, Last
<1>2. CASE DupFails
  BY <1>2 DEF DupFails, TypeOK, children, Stage, Last
<1>3. CASE BeginLastStage
  <2>1. fd[0] \in Target
    BY <1>0 DEF TypeOK, Table
  <2>2. fd' \in Table
    BY <1>3, <2>1, PutType DEF BeginLastStage, TypeOK
  <2>3. QED
    BY <1>3, <2>2 DEF BeginLastStage, TypeOK, children, Stage, Last
<1>4. CASE BeginStage
  <2>1. fd[0] \in Target /\ ReadEnd(curr) \in Target /\ WriteEnd(curr) \in Target
    BY <1>0, TargetTypes DEF TypeOK, Table
  <2>2. fd' \in Table
    BY <1>4, <2>1, PutType DEF BeginStage, TypeOK
  <2>3. QED
    BY <1>4, <2>2 DEF BeginStage, TypeOK, children, Stage, Last
<1>5. CASE PipeFails
  <2>1. fd[0] \in Target
    BY <1>0 DEF TypeOK, Table
  <2>2. fd' \in Table
    BY <1>5, <2>1, PutType, CloseType, Dup2Type DEF PipeFails, TypeOK, RestoreStdin
  <2>3. QED
    BY <1>5, <2>2, BoundsAssumption DEF PipeFails, TypeOK, children, Stage, Last
<1>6. CASE Fork
  <2>1. cparams' \in [Stage -> Params]
    BY <1>0, <1>6 DEF Fork, TypeOK, Params
  <2>2. QED
    BY <1>6, <2>1 DEF Fork, TypeOK, shell, Stage, Last
<1>7. CASE ForkFails
  <2>1. fd' \in Table
    BY <1>7, CloseType, Dup2Type DEF ForkFails, TypeOK, RestoreStdin
  <2>2. QED
    BY <1>7, <2>1, BoundsAssumption
    DEF ForkFails, TypeOK, shell, children, Stage, Last
<1>8. CASE Attach
  <2>1. fd' \in Table
    BY <1>8, CloseType, Dup2Type DEF Attach, ClosePrev, TypeOK, RestoreStdin
  <2>2. pidCount = curr - 1
    BY <1>8 DEF Attach, ShellInv, AtFork
  <2>3. QED
    BY <1>0, <1>8, <2>1, <2>2 DEF Attach, TypeOK, children, Stage, Last
<1>9. CASE AttachLast
  <2>1. fd' \in Table
    BY <1>9, CloseType, Dup2Type DEF AttachLast, ClosePrev, TypeOK, RestoreStdin
  <2>2. pidCount = curr - 1
    BY <1>9 DEF AttachLast, ShellInv, AtFork
  <2>3. QED
    BY <1>0, <1>9, <2>1, <2>2 DEF AttachLast, TypeOK, children, Stage, Last
<1>10. CASE GiveUp
  <2>1. fd' \in Table
    BY <1>10, CloseAbove2Type, CloseType, Dup2Type
    DEF GiveUp, CleanupPipelineFds, TypeOK, RestoreStdin
  <2>2. QED
    BY <1>10, <2>1 DEF GiveUp, TypeOK, shell, children, Stage, Last
<1>11. CASE Cleanup
  <2>1. fd' \in Table
    BY <1>11, CloseAbove2Type DEF Cleanup, CleanupPipelineFds, TypeOK
  <2>2. QED
    BY <1>11, <2>1 DEF Cleanup, TypeOK, shell, children, Stage, Last
<1>12. CASE WaitStage
  <2>1. waited + 1 \in Stage /\ pidCount = Last
    BY <1>0, <1>12 DEF WaitStage, WaitedInv, TypeOK, ShellInv, AtWait
  <2>2. ending[waited + 1] \in [sig : Nat, code : Nat]
    BY <1>12, <2>1 DEF WaitStage, EndedInv
  <2>3. status' \in Nat
    BY <1>12, <2>2 DEF WaitStage, TypeOK
  <2>4. QED
    BY <1>0, <1>12, <2>1, <2>3 DEF WaitStage, TypeOK, Stage, Last
<1>13. CASE Report
  <2>1. pidCount = Last /\ ending[Last] \in [sig : Nat, code : Nat \cup {-1}]
    BY <1>0, <1>13 DEF Report, TypeOK, ShellInv, AtWait
  <2>2. status' \in Nat
    BY <1>13, <2>1 DEF Report, TypeOK
  <2>3. QED
    BY <1>13, <2>2 DEF Report, TypeOK, shell, children, Stage, Last
<1>14. CASE Rearm
  BY <1>14 DEF Rearm, TypeOK, shell, children, Stage, Last
<1>15. CASE Restore
  <2>1. RestoreStdin(fd, savedStdin) \in Table
    BY CloseType, Dup2Type DEF TypeOK, RestoreStdin
  <2>2. fd' \in Table
    BY <1>15, <2>1, TargetTypes DEF Restore, CloseFdsExceptStd, Table
  <2>3. QED
    BY <1>15, <2>2 DEF Restore, TypeOK, shell, children, Stage, Last
<1>16. QED
  BY <1>1, <1>2, <1>3, <1>4, <1>5, <1>6, <1>7, <1>8, <1>9, <1>10, <1>11,
     <1>12, <1>13, <1>14, <1>15 DEF Shell

(* The pipes a running stage reads and writes are the line's. *)
LEMMA RunningEnds ==
  ASSUME IInv, NEW j \in Stage, Plumbed(j)
  PROVE  /\ Input(j).kind = "read" =>
              j > 1 /\ j - 1 \in Stage /\ Input(j) = ReadEnd(j - 1)
         /\ Output(j).kind = "write" => j < Last /\ Output(j) = WriteEnd(j)
<1>1. Last \in Nat /\ Last > 0 /\ Stage = 1 .. Last
  BY LineFacts DEF IInv, TableInv, TypeOK
<1>2. /\ Input(j)  = IF Redirects(j, "in") THEN File
                     ELSE IF j = 1 THEN Tty ELSE ReadEnd(j - 1)
      /\ Output(j) = IF Redirects(j, "out") THEN File
                     ELSE IF j = Last THEN Tty ELSE WriteEnd(j)
  BY DEF IInv, TableInv, StageIsolation
<1>3. QED
  BY <1>1, <1>2, Targets

LEMMA EndsType ==
  ASSUME TypeOK, NEW j \in Stage, NEW sig \in Nat, NEW code \in Nat,
         Ends(j, sig, code)
  PROVE  /\ cpc' \in [Stage -> {"unborn", "forked", "plumb", "redirect", "start",
                        "reading", "writing", "done", "zombie", "reaped"}]
         /\ cfd' \in [Stage -> Table]
         /\ ending' \in [Stage -> [sig : Nat, code : Nat \cup {-1}]]
<1>1. NoTable \in Table
  BY TargetTypes DEF NoTable, Table
<1>2. QED
  BY <1>1 DEF Ends, TypeOK

LEMMA ChildType ==
  ASSUME IInv, NEW j \in Stage, Child(j) \/ ReadTty(j)
  PROVE  TypeOK'
<1> USE DEF IInv, TableInv
<1>0. /\ Last \in Nat /\ Last > 0 /\ Stage = 1 .. Last
      /\ 0 \in Fd /\ 1 \in Fd /\ 2 \in Fd /\ Fd \subseteq Nat /\ NoFd \notin Fd
      /\ line[j] \in StageType
  BY LineFacts, FdFacts DEF TypeOK
<1>00. line[j].code \in Nat /\ cstatus[j] \in Nat
  <2>1. line[j].code \in 0 .. 255
    BY <1>0 DEF StageType
  <2>2. cstatus[j] \in Nat
    BY DEF TypeOK
  <2>3. QED
    BY <2>1, <2>2
<1>1. CASE ResetSignals(j)
  BY <1>1 DEF ResetSignals, TypeOK, shell, Stage, Last
<1>2. CASE Plumb(j)
  <2>1. cfd[j] \in Table
    BY DEF TypeOK
  <2>2. SetupChildIo(j) \in Table
    BY <2>1, CloseType, Dup2Type DEF SetupChildIo
  <2>3. cfd' \in [Stage -> Table]
    BY <1>2, <2>2, CloseType DEF Plumb, TypeOK
  <2>4. QED
    BY <1>2, <2>3 DEF Plumb, TypeOK, shell, Stage, Last
<1>3. CASE Redirect(j)
  <2>1. Redirected(j) \in Table
    BY PutType, TargetTypes DEF Redirected, TypeOK
  <2>2. QED
    BY <1>3, <2>1 DEF Redirect, TypeOK, shell, Stage, Last
<1>4. CASE RedirectFails(j)
  BY <1>4, EndsType DEF RedirectFails, TypeOK, shell, Stage, Last
<1>5. CASE Refuse(j)
  <2>1. NotRunStatus(j) \in Nat
    BY <1>00 DEF NotRunStatus, ExecveError
  <2>2. QED
    BY <1>5, <2>1, EndsType DEF Refuse, TypeOK, shell, Stage, Last
<1>6. CASE Start(j)
  <2>1. FirstStep(j) \in {"reading", "writing", "done"}
    BY DEF FirstStep
  <2>2. QED
    BY <1>6, <2>1 DEF Start, TypeOK, shell, Stage, Last
<1>7. CASE ReadPipe(j)
  <2>1. Input(j).pipe \in Stage
    BY <1>7, RunningEnds, Targets DEF ReadPipe, Plumbed, Alive
  <2>2. pipe' \in [Stage -> 0 .. PipeCap]
    BY <1>7, <2>1, BoundsAssumption DEF ReadPipe, TypeOK
  <2>3. QED
    BY <1>7, <2>2 DEF ReadPipe, TypeOK, shell, Stage, Last
<1>8. CASE ReadEof(j)
  BY <1>8 DEF ReadEof, TypeOK, shell, Stage, Last
<1>9. CASE Write(j)
  <2>1. AfterWrite(j) \in {"reading", "writing", "done"}
    BY DEF AfterWrite
  <2>2. pipe' \in [Stage -> 0 .. PipeCap]
    <3>1. CASE Output(j).kind = "write"
      <4>1. Output(j).pipe \in Stage
        BY <1>9, <3>1, RunningEnds, Targets DEF Write, Plumbed, Alive
      <4>2. QED
        BY <1>9, <3>1, <4>1, BoundsAssumption DEF Write, TypeOK
    <3>2. CASE Output(j).kind # "write"
      BY <1>9, <3>2 DEF Write, TypeOK
    <3>3. QED
      BY <3>1, <3>2
  <2>3. QED
    BY <1>9, <2>1, <2>2 DEF Write, TypeOK, shell, Stage, Last
<1>10. CASE WriteBroken(j)
  BY <1>10, EndsType DEF WriteBroken, TypeOK, shell, Stage, Last, SIGPIPE
<1>11. CASE Exit(j)
  <2>1. ExitStatus(j) \in Nat
    BY <1>00 DEF ExitStatus
  <2>2. QED
    BY <1>11, <2>1, EndsType DEF Exit, TypeOK, shell, Stage, Last
<1>12. CASE ReadTty(j)
  BY <1>12 DEF ReadTty, TypeOK, shell, Stage, Last
<1>13. QED
  BY <1>1, <1>2, <1>3, <1>4, <1>5, <1>6, <1>7, <1>8, <1>9, <1>10, <1>11,
     <1>12 DEF Child

LEMMA SignalType ==
  ASSUME IInv, NEW s \in {SIGINT, SIGQUIT}, Signal(s)
  PROVE  TypeOK'
<1>1. NoTable \in Table
  BY TargetTypes DEF NoTable, Table
<1>2. s \in Nat
  BY DEF SIGINT, SIGQUIT
<1>3. QED
  BY <1>1, <1>2, BoundsAssumption
  DEF Signal, IInv, TableInv, TypeOK, shell, Stage, Last

-----------------------------------------------------------------------------
(***************************************************************************)
(* The descriptor table of the shell, one lemma for each of its actions.   *)
(***************************************************************************)
LEMMA ShellFacts ==
  ASSUME IInv
  PROVE  /\ fd \in Table
         /\ fd[0] = Tty /\ fd[1] = Tty /\ fd[2] = Tty
         /\ 0 \in Fd /\ 1 \in Fd /\ 2 \in Fd /\ Fd \subseteq Nat
         /\ NoFd \notin Fd /\ NoFd = -1
         /\ curr \in Nat /\ curr > 0 /\ Last \in Nat /\ curr <= Last
BY FdFacts, LineFacts
DEF IInv, TableInv, TypeOK, ShellInv, TerminalKept, NoFd

LEMMA EnterShell ==
  ASSUME IInv, Enter
  PROVE  ShellInv'
<1>1. /\ savedStdin' \in Fd \cup {NoFd}
      /\ savedStdin' = NoFd => fd' = fd
      /\ savedStdin' # NoFd => /\ savedStdin' > 2 /\ fd[savedStdin'] = Closed
                               /\ \A g \in Fd : fd'[g] = IF g = savedStdin' THEN Tty ELSE fd[g]
  BY DupStdinType DEF Enter, IInv, TableInv, TypeOK, ShellInv, TerminalKept
<1>2. TerminalKept'
  BY <1>1, ShellFacts DEF TerminalKept
<1>3. AtIter'
  BY <1>1, ShellFacts
  DEF Enter, AtIter, IInv, TableInv, ShellInv, AtEnter, Backup, OnlySpare,
      StalePipe, Spare
<1>4. pc' = "iter"
  BY DEF Enter
<1>5. QED
  BY <1>2, <1>3, <1>4
  DEF ShellInv, AtEnter, AtFork, AtFail, AtCleanup, AtWait, AtRestore, AtEnd

LEMMA DupFailsShell ==
  ASSUME IInv, DupFails
  PROVE  ShellInv'
<1>1. TerminalKept'
  BY DEF DupFails, IInv, TableInv, ShellInv, TerminalKept
<1>2. AtFail'
  BY ShellFacts
  DEF DupFails, AtFail, IInv, TableInv, ShellInv, AtIter, Backup, SpentBackup,
      OnlySpare, StalePipe, Spare
<1>3. pc' = "fail"
  BY DEF DupFails
<1>4. QED
  BY <1>1, <1>2, <1>3
  DEF ShellInv, AtEnter, AtIter, AtFork, AtCleanup, AtWait, AtRestore, AtEnd

LEMMA BeginLastStageShell ==
  ASSUME IInv, BeginLastStage
  PROVE  ShellInv'
<1>1. /\ save' \in Fd /\ fd[save'] = Closed
      /\ \A g \in Fd : g < save' => fd[g] # Closed
      /\ \A g \in Fd : fd'[g] = IF g = save' THEN Tty ELSE fd[g]
  BY ShellFacts, PutType, TargetTypes DEF BeginLastStage, IsLowestFree
<1>2. save' > 2
  BY <1>1, ShellFacts, Targets
<1>3. TerminalKept'
  BY <1>1, <1>2, ShellFacts DEF TerminalKept
<1>4. /\ pc = "iter" /\ pc' = "fork" /\ curr = Last
      /\ UNCHANGED <<line, curr, savedStdin, prevFd, pipeFd, pidCount, fails>>
  BY DEF BeginLastStage
<1>5. AtIter
  BY DEF IInv, TableInv, ShellInv
<1>6. ForkTerminal(fd, Numbers)'
  BY <1>1, <1>2, <1>3, <1>4, <1>5, ShellFacts, Targets
  DEF ForkTerminal, Numbers, TerminalKept, AtIter, Backup
<1>7. ForkPipes(fd, curr, Numbers)'
  <2>1. curr = 1 => prevFd = NoFd
    BY <1>4, <1>5 DEF AtIter, StalePipe
  <2>2. curr > 1 => prevFd \in Fd /\ prevFd > 2 /\ fd'[prevFd] = ReadEnd(curr - 1)
    BY <1>1, <1>4, <1>5, ShellFacts, Targets
    DEF AtIter, StalePipe, IInv, TableInv, TypeOK
  <2>3. Last' = Last /\ ~(curr' < Last')
    BY <1>4, ShellFacts DEF Last
  <2>4. QED
    BY <1>4, <2>1, <2>2, <2>3 DEF ForkPipes, Numbers
<1>8. ForkRest(fd, curr, Numbers)'
  BY <1>1, <1>4, <1>5, ShellFacts
  DEF ForkRest, Numbers, AtIter, OnlySpare, Spare
<1>9. StalePipe'
  <2>1. CASE curr = 1
    BY <2>1, <1>4, <1>5 DEF AtIter, StalePipe
  <2>2. CASE curr > 1
    <3>1. PICK g \in Fd : g < pipeFd.w /\ fd[g] = Closed
      BY <1>4, <1>5, <2>2 DEF AtIter
    <3>2. save' # pipeFd.w
      BY <1>1, <3>1, ShellFacts DEF IInv, TableInv, TypeOK
    <3>3. pipeFd.w \in Fd
      BY DEF IInv, TableInv, TypeOK
    <3>4. QED
      BY <1>1, <1>4, <1>5, <2>2, <3>2, <3>3 DEF AtIter, StalePipe
  <2>3. QED
    BY <2>1, <2>2, ShellFacts
<1>10. AtFork'
  <2>1. pidCount' = curr' - 1 /\ ~(curr' < Last')
    BY <1>4, <1>5, ShellFacts DEF AtIter, Last
  <2>2. QED
    BY <1>6, <1>7, <1>8, <1>9, <2>1 DEF AtFork, ForkTable
<1>11. QED
  BY <1>3, <1>4, <1>10
  DEF ShellInv, AtEnter, AtIter, AtFail, AtCleanup, AtWait, AtRestore, AtEnd

LEMMA BeginStageShell ==
  ASSUME IInv, BeginStage
  PROVE  ShellInv'
<1>1. PICK s, r, w \in Fd :
        /\ IsLowestFree(fd, s)
        /\ IsPipe(Put(fd, s, fd[0]), r, w)
        /\ save' = s
        /\ pipeFd' = [r |-> r, w |-> w]
        /\ fd' = Put(Put(Put(fd, s, fd[0]), r, ReadEnd(curr)), w, WriteEnd(curr))
  BY DEF BeginStage
<1>2. Put(fd, s, Tty) \in Table /\ \A g \in Fd :
        Put(fd, s, Tty)[g] = IF g = s THEN Tty ELSE fd[g]
  BY ShellFacts, PutType, TargetTypes
<1>3. \A g \in Fd : fd'[g] = IF g = w THEN WriteEnd(curr)
                             ELSE IF g = r THEN ReadEnd(curr)
                             ELSE IF g = s THEN Tty ELSE fd[g]
  BY <1>1, <1>2, ShellFacts, PutType, TargetTypes
<1>4. /\ fd[s] = Closed /\ \A g \in Fd : g < s => fd[g] # Closed
      /\ r # s /\ fd[r] = Closed
  BY <1>1, <1>2, ShellFacts, Targets DEF IsPipe, IsLowestFree
<1>5. w # r /\ w # s /\ fd[w] = Closed
  <2>1. Put(Put(fd, s, Tty), r, ReadEnd(1))[w] = Closed
    BY <1>1, ShellFacts DEF IsPipe, IsLowestFree
  <2>2. QED
    BY <2>1, <1>2, PutType, TargetTypes, Targets
<1>6. s > 2 /\ r > 2 /\ w > 2 /\ s < w
  BY <1>4, <1>5, ShellFacts, Targets
<1>7. TerminalKept'
  BY <1>3, <1>6, ShellFacts DEF TerminalKept
<1>8. /\ pc = "iter" /\ pc' = "fork" /\ curr < Last
      /\ UNCHANGED <<line, curr, savedStdin, prevFd, pidCount, fails>>
  BY DEF BeginStage
<1>9. AtIter
  BY DEF IInv, TableInv, ShellInv
<1>10. ForkTerminal(fd, Numbers)'
  BY <1>1, <1>3, <1>4, <1>5, <1>6, <1>7, <1>8, <1>9, ShellFacts, Targets
  DEF ForkTerminal, Numbers, TerminalKept, AtIter, Backup
<1>11. ForkPipes(fd, curr, Numbers)'
  <2>1. curr = 1 => prevFd = NoFd
    BY <1>8, <1>9 DEF AtIter, StalePipe
  <2>2. curr > 1 => prevFd \in Fd /\ prevFd > 2 /\ fd[prevFd] = ReadEnd(curr - 1)
    BY <1>8, <1>9, ShellFacts, Targets
    DEF AtIter, StalePipe, IInv, TableInv, TypeOK
  <2>3. curr > 1 => fd'[prevFd] = ReadEnd(curr - 1)
    BY <1>3, <1>4, <1>5, <2>2, Targets
  <2>4. fd'[r] = ReadEnd(curr) /\ fd'[w] = WriteEnd(curr)
    BY <1>3, <1>5
  <2>5. QED
    BY <1>1, <1>6, <1>8, <2>1, <2>2, <2>3, <2>4 DEF ForkPipes, Numbers
<1>12. ForkRest(fd, curr, Numbers)'
  <2>1. Last' = Last
    BY <1>8 DEF Last
  <2>2. QED
    BY <1>1, <1>3, <1>8, <1>9, <2>1, ShellFacts
    DEF ForkRest, Numbers, AtIter, OnlySpare, Spare
<1>13. AtFork'
  <2>1. pidCount' = curr' - 1 /\ ~(curr' = Last') /\ save' < pipeFd'.w
    BY <1>1, <1>6, <1>8, <1>9, ShellFacts DEF AtIter, Last
  <2>2. QED
    BY <1>10, <1>11, <1>12, <2>1 DEF AtFork, ForkTable
<1>14. QED
  BY <1>7, <1>8, <1>13
  DEF ShellInv, AtEnter, AtIter, AtFail, AtCleanup, AtWait, AtRestore, AtEnd

(***************************************************************************)
(* Restoring standard input from a backup that refers to the terminal, or  *)
(* from one that is not open any more, only closes the backup.             *)
(***************************************************************************)
LEMMA RestoreTerminal ==
  ASSUME NEW t \in Table, NEW f, f # 0, t[0] = Tty,
         IsOpen(t, f) => t[f] = Tty
  PROVE  /\ RestoreStdin(t, f) \in Table
         /\ \A g \in Fd : RestoreStdin(t, f)[g] = IF g = f THEN Closed ELSE t[g]
BY RestoreType

LEMMA PipeFailsShell ==
  ASSUME IInv, PipeFails
  PROVE  ShellInv'
<1>1. PICK s \in Fd :
        /\ IsLowestFree(fd, s)
        /\ fd' = RestoreStdin(Close(Put(fd, s, fd[0]), s), savedStdin)
  BY DEF PipeFails
<1>2. AtIter /\ pc = "iter"
  BY DEF IInv, TableInv, ShellInv, PipeFails
<1>3. s > 2 /\ fd[s] = Closed
  BY <1>1, ShellFacts, Targets DEF IsLowestFree
<1> DEFINE t == Close(Put(fd, s, fd[0]), s)
<1>4. t \in Table /\ \A g \in Fd : t[g] = fd[g]
  <2>1. Put(fd, s, fd[0]) \in Table /\ \A g \in Fd :
          Put(fd, s, fd[0])[g] = IF g = s THEN fd[0] ELSE fd[g]
    BY ShellFacts, PutType, TargetTypes
  <2>2. QED
    BY <1>3, <2>1, CloseType
<1>5. \A g \in Fd : fd'[g] = IF g = savedStdin THEN Closed ELSE fd[g]
  <2>1. savedStdin # 0 /\ (IsOpen(t, savedStdin) => t[savedStdin] = Tty)
    BY <1>2, <1>4, ShellFacts DEF AtIter, Backup, IsOpen
  <2>2. t[0] = Tty
    BY <1>4, ShellFacts
  <2>3. QED
    BY <1>1, <1>4, <2>1, <2>2, RestoreTerminal
<1>6. savedStdin # NoFd => savedStdin \in Fd /\ savedStdin > 2
  BY <1>2 DEF AtIter, Backup
<1>7. TerminalKept'
  BY <1>5, <1>6, ShellFacts DEF TerminalKept
<1>8. /\ pc' = "fail"
      /\ UNCHANGED <<line, curr, savedStdin, prevFd, pipeFd, pidCount>>
  BY DEF PipeFails
<1>9. AtFail'
  BY <1>2, <1>5, <1>6, <1>8, ShellFacts
  DEF AtFail, AtIter, SpentBackup, OnlySpare, StalePipe, Spare
<1>10. QED
  BY <1>7, <1>8, <1>9
  DEF ShellInv, AtEnter, AtIter, AtFork, AtCleanup, AtWait, AtRestore, AtEnd

LEMMA ForkShell ==
  ASSUME IInv, Fork
  PROVE  ShellInv'
<1>1. /\ pc = "fork" /\ pc' = "attach"
      /\ UNCHANGED <<line, curr, savedStdin, save, prevFd, pipeFd, pidCount, fd>>
  BY DEF Fork, shell
<1>2. TerminalKept /\ AtFork
  BY DEF IInv, TableInv, ShellInv
<1>3. AtFork'
  BY <1>1, <1>2
  DEF AtFork, ForkTable, ForkTerminal, ForkPipes, ForkRest, Numbers, Spare,
      StalePipe, Last
<1>4. QED
  BY <1>1, <1>2, <1>3
  DEF TerminalKept, ShellInv, AtEnter, AtIter, AtFail, AtCleanup, AtWait,
      AtRestore, AtEnd

(* What the table of the shell is when it has to fork or has forked. *)
LEMMA ForkFacts ==
  ASSUME IInv, pc \in {"fork", "attach"}
  PROVE  /\ save \in Fd /\ save > 2 /\ fd[save] = Tty
         /\ savedStdin # NoFd => /\ savedStdin \in Fd /\ savedStdin > 2
                                 /\ fd[savedStdin] = Tty /\ savedStdin # save
         /\ curr = 1 => prevFd = NoFd
         /\ curr > 1 => /\ prevFd \in Fd /\ prevFd > 2
                        /\ fd[prevFd] = ReadEnd(curr - 1)
         /\ curr < Last => /\ pipeFd.r > 2 /\ fd[pipeFd.r] = ReadEnd(curr)
                           /\ pipeFd.w > 2 /\ fd[pipeFd.w] = WriteEnd(curr)
                           /\ save < pipeFd.w
         /\ curr = Last => StalePipe
         /\ pidCount = curr - 1
         /\ pipeFd.r \in Fd /\ pipeFd.w \in Fd
         /\ \A f \in Fd : f > 2 =>
              \/ Spare(fd, f)
              \/ f \in {save, savedStdin, prevFd}
              \/ curr < Last /\ f \in {pipeFd.r, pipeFd.w}
<1>1. AtFork
  BY DEF IInv, TableInv, ShellInv
<1>2. pipeFd.r \in Fd /\ pipeFd.w \in Fd
  BY DEF IInv, TableInv, TypeOK
<1>3. QED
  BY <1>1, <1>2
  DEF AtFork, ForkTable, ForkTerminal, ForkPipes, ForkRest, Numbers

LEMMA ForkFailsShell ==
  ASSUME IInv, ForkFails
  PROVE  ShellInv'
<1>1. /\ pc = "fork" /\ pc' = "fail" /\ fails' = fails + 1 /\ fails \in Nat
      /\ fd' = RestoreStdin(Close(fd, save), savedStdin)
      /\ UNCHANGED <<line, curr, savedStdin, save, prevFd, pipeFd, pidCount>>
  BY BoundsAssumption DEF ForkFails, shell, IInv, TableInv, TypeOK
<1>2. \A g \in Fd : fd'[g] = IF g \in {save, savedStdin} THEN Closed ELSE fd[g]
  <2>1. Close(fd, save) \in Table /\ \A g \in Fd :
          Close(fd, save)[g] = IF g = save THEN Closed ELSE fd[g]
    BY CloseType, ShellFacts
  <2>2. savedStdin # 0
    BY <1>1, ForkFacts, ShellFacts
  <2>3. IsOpen(Close(fd, save), savedStdin) => Close(fd, save)[savedStdin] = Tty
    BY <1>1, <2>1, ForkFacts, ShellFacts DEF IsOpen
  <2>4. Close(fd, save)[0] = Tty
    BY <1>1, <2>1, ForkFacts, ShellFacts
  <2>5. QED
    BY <1>1, <2>1, <2>2, <2>3, <2>4, RestoreTerminal
<1>3. TerminalKept'
  BY <1>1, <1>2, ForkFacts, ShellFacts DEF TerminalKept
<1>4. SpentBackup' /\ OnlySpare({savedStdin, prevFd, pipeFd.r, pipeFd.w})'
  BY <1>1, <1>2, ForkFacts DEF SpentBackup, OnlySpare, Spare
<1>5. pipeFd = [r |-> 0, w |-> 0] \/ (pipeFd.r > 2 /\ pipeFd.w > 2)
  BY <1>1, ForkFacts, ShellFacts DEF StalePipe
<1>6. \/ prevFd' = NoFd
      \/ prevFd' = pipeFd'.r
      \/ (Orphaned /\ prevFd \notin {savedStdin, pipeFd.r, pipeFd.w})'
  <2>1. CASE curr = 1
    BY <1>1, <2>1, ForkFacts
  <2>2. CASE curr > 1 /\ curr = Last
    BY <1>1, <2>2, ForkFacts DEF StalePipe
  <2>3. CASE curr > 1 /\ curr < Last
    <3>1. /\ prevFd \in Fd /\ prevFd \notin {savedStdin, save}
          /\ fd[prevFd] = ReadEnd(curr - 1)
      BY <1>1, <2>3, ForkFacts, ShellFacts, Targets
    <3>2. prevFd # pipeFd.w
      BY <1>1, <2>3, ForkFacts, Targets
    <3>3. prevFd # pipeFd.r
      <4>1. ReadEnd(curr - 1).pipe # ReadEnd(curr).pipe
        BY Targets, ShellFacts
      <4>2. QED
        BY <1>1, <2>3, <3>1, <4>1, ForkFacts
    <3>4. fd'[prevFd] = ReadEnd(pidCount)
      BY <1>1, <1>2, <3>1, ForkFacts
    <3>5. pidCount' \in 1 .. Last' - 2 /\ fails' > 0
      BY <1>1, <2>3, ForkFacts, ShellFacts DEF Last
    <3>6. QED
      BY <1>1, <3>1, <3>2, <3>3, <3>4, <3>5 DEF Orphaned
  <2>4. QED
    BY <2>1, <2>2, <2>3, ShellFacts
<1>7. AtFail'
  BY <1>1, <1>4, <1>5, <1>6, ForkFacts DEF AtFail
<1>8. QED
  BY <1>1, <1>3, <1>7
  DEF ShellInv, AtEnter, AtIter, AtFork, AtCleanup, AtWait, AtRestore, AtEnd

LEMMA ClosePrevFacts ==
  ASSUME IInv, pc = "attach"
  PROVE  /\ ClosePrev \in Table
         /\ \A g \in Fd : ClosePrev[g] = IF g = prevFd THEN Closed ELSE fd[g]
BY CloseType, ShellFacts DEF ClosePrev

LEMMA AttachShell ==
  ASSUME IInv, Attach
  PROVE  ShellInv'
<1>1. /\ pc = "attach" /\ pc' = "iter" /\ curr < Last
      /\ fd' = RestoreStdin(Close(ClosePrev, pipeFd.w), save)
      /\ prevFd' = pipeFd.r /\ pidCount' = pidCount + 1 /\ curr' = curr + 1
      /\ UNCHANGED <<line, savedStdin, save, pipeFd, fails>>
  BY DEF Attach
<1> DEFINE t == Close(ClosePrev, pipeFd.w)
<1>2. t \in Table /\ \A g \in Fd :
        t[g] = IF g \in {prevFd, pipeFd.w} THEN Closed ELSE fd[g]
  BY <1>1, ClosePrevFacts, CloseType
<1>3. 0 \notin {prevFd, pipeFd.w, save}
  BY <1>1, ForkFacts, ShellFacts
<1>4. \A g \in Fd :
        fd'[g] = IF g \in {prevFd, pipeFd.w, save} THEN Closed ELSE fd[g]
  <2>1. save # 0 /\ (IsOpen(t, save) => t[save] = Tty) /\ t[0] = Tty
    BY <1>1, <1>2, <1>3, ForkFacts, ShellFacts DEF IsOpen
  <2>2. QED
    BY <1>1, <1>2, <2>1, RestoreTerminal
<1>5. TerminalKept'
  BY <1>1, <1>4, ForkFacts, ShellFacts DEF TerminalKept
<1>6. Backup'
  BY <1>1, <1>4, ForkFacts, ShellFacts, Targets DEF Backup
<1>7. OnlySpare({savedStdin, prevFd})'
  BY <1>1, <1>4, ForkFacts DEF OnlySpare, Spare
<1>8. StalePipe'
  BY <1>1, <1>4, ForkFacts, ShellFacts DEF StalePipe
<1>9. fd'[prevFd'] = ReadEnd(curr' - 1)
  <2>1. pipeFd.r \notin {pipeFd.w, save}
    BY <1>1, ForkFacts, Targets
  <2>2. pipeFd.r # prevFd
    <3>1. CASE curr = 1
      BY <1>1, <3>1, ForkFacts, ShellFacts
    <3>2. CASE curr > 1
      <4>1. ReadEnd(curr - 1).pipe # ReadEnd(curr).pipe
        BY Targets, ShellFacts
      <4>2. QED
        BY <1>1, <3>2, <4>1, ForkFacts
    <3>3. QED
      BY <3>1, <3>2, ShellFacts
  <2>3. fd'[pipeFd.r] = ReadEnd(curr)
    BY <1>1, <1>4, <2>1, <2>2, ForkFacts
  <2>4. curr' - 1 = curr
    BY <1>1, ShellFacts
  <2>5. QED
    BY <1>1, <2>3, <2>4
<1>10. \E g \in Fd : g < pipeFd'.w /\ fd'[g] = Closed
  BY <1>1, <1>4, ForkFacts
<1>11. AtIter'
  <2>1. pidCount' = curr' - 1
    BY <1>1, ForkFacts, ShellFacts
  <2>2. QED
    BY <1>6, <1>7, <1>8, <1>9, <1>10, <2>1 DEF AtIter
<1>12. QED
  BY <1>1, <1>5, <1>11
  DEF ShellInv, AtEnter, AtFork, AtFail, AtCleanup, AtWait, AtRestore, AtEnd

(***************************************************************************)
(* After the last stage: for a line of one stage the two closes hit        *)
(* standard input, which the backup brings back; for a longer one they hit *)
(* the pipe before, whose ends are closed already.                         *)
(***************************************************************************)
LEMMA AttachLastShell ==
  ASSUME IInv, AttachLast
  PROVE  ShellInv'
<1>1. /\ pc = "attach" /\ pc' = "cleanup" /\ curr = Last
      /\ fd' = RestoreStdin(Close(Close(ClosePrev, pipeFd.r), pipeFd.w), save)
      /\ pidCount' = pidCount + 1
      /\ UNCHANGED <<line, curr, savedStdin, save, prevFd, pipeFd, fails>>
  BY DEF AttachLast
<1>2. StalePipe
  BY <1>1, ForkFacts
<1> DEFINE t == Close(Close(ClosePrev, pipeFd.r), pipeFd.w)
<1>3. t \in Table /\ \A g \in Fd :
        t[g] = IF g \in {prevFd, pipeFd.r, pipeFd.w} THEN Closed ELSE fd[g]
  <2>1. /\ Close(ClosePrev, pipeFd.r) \in Table
        /\ \A g \in Fd : Close(ClosePrev, pipeFd.r)[g] =
             IF g \in {prevFd, pipeFd.r} THEN Closed ELSE fd[g]
    BY <1>1, ClosePrevFacts, CloseType
  <2>2. QED
    BY <2>1, CloseType
<1>4. save \notin {prevFd, pipeFd.r, pipeFd.w} /\ t[save] = Tty
  <2>1. save \notin {prevFd, pipeFd.r, pipeFd.w}
    BY <1>1, <1>2, ForkFacts, ShellFacts, Targets DEF StalePipe
  <2>2. QED
    BY <1>1, <1>3, <2>1, ForkFacts
<1>5. \A g \in Fd :
        fd'[g] = IF g = save THEN Closed ELSE IF g = 0 THEN Tty ELSE t[g]
  <2>1. IsOpen(t, save) /\ save # 0
    BY <1>1, <1>4, ForkFacts, Targets DEF IsOpen
  <2>2. QED
    BY <1>1, <1>3, <1>4, <2>1, RestoreType
<1>6. \A g \in Fd : fd'[g] = IF g \in {save, prevFd} THEN Closed ELSE fd[g]
  <2>1. CASE curr = 1
    BY <1>1, <1>2, <1>3, <1>5, <2>1, ForkFacts, ShellFacts DEF StalePipe
  <2>2. CASE curr > 1
    BY <1>1, <1>2, <1>3, <1>5, <2>2, ForkFacts, ShellFacts DEF StalePipe
  <2>3. QED
    BY <2>1, <2>2, ShellFacts
<1>7. TerminalKept'
  BY <1>1, <1>6, ForkFacts, ShellFacts DEF TerminalKept
<1>8. Backup'
  BY <1>1, <1>6, ForkFacts, ShellFacts, Targets DEF Backup
<1>9. OnlySpare({savedStdin})'
  BY <1>1, <1>6, ForkFacts, ShellFacts DEF OnlySpare, Spare
<1>10. StalePipe'
  BY <1>1, <1>2, <1>6, ForkFacts DEF StalePipe
<1>11. curr' > 1 => fd'[prevFd'] = Closed
  BY <1>1, <1>6, ForkFacts
<1>12. pidCount' = Last'
  BY <1>1, ForkFacts, ShellFacts DEF Last
<1>13. AtCleanup'
  BY <1>8, <1>9, <1>10, <1>11, <1>12 DEF AtCleanup
<1>14. QED
  BY <1>1, <1>7, <1>13
  DEF ShellInv, AtEnter, AtIter, AtFork, AtFail, AtWait, AtRestore, AtEnd

LEMMA CleanupFacts ==
  ASSUME IInv, NEW prev
  PROVE  /\ CleanupPipelineFds(prev) \in Table
         /\ \A g \in Fd : CleanupPipelineFds(prev)[g] =
              IF g > 2 /\ g \in {pipeFd.r, pipeFd.w, prev} THEN Closed ELSE fd[g]
<1> DEFINE t1 == CloseAbove2(fd, pipeFd.r)
           t2 == CloseAbove2(t1, pipeFd.w)
<1>1. t1 \in Table /\ \A g \in Fd :
        t1[g] = IF g > 2 /\ g \in {pipeFd.r} THEN Closed ELSE fd[g]
  BY ShellFacts, CloseAbove2Type
<1>2. t2 \in Table /\ \A g \in Fd :
        t2[g] = IF g > 2 /\ g \in {pipeFd.r, pipeFd.w} THEN Closed ELSE fd[g]
  <2> HIDE DEF t1
  <2>1. QED
    BY <1>1, CloseAbove2Type
<1>3. CleanupPipelineFds(prev) = CloseAbove2(t2, prev)
  BY DEF CleanupPipelineFds
<1>4. QED
  <2> HIDE DEF t2
  <2>1. QED
    BY <1>2, <1>3, CloseAbove2Type

LEMMA GiveUpShell ==
  ASSUME IInv, GiveUp
  PROVE  ShellInv'
<1>1. /\ pc = "fail" /\ pc' = "restore"
      /\ fd' = RestoreStdin(CleanupPipelineFds(NoFd), savedStdin)
      /\ UNCHANGED <<line, curr, savedStdin, prevFd, pipeFd, pidCount, fails>>
  BY DEF GiveUp, shell
<1>2. AtFail
  BY DEF IInv, TableInv, ShellInv
<1> DEFINE t == CleanupPipelineFds(NoFd)
<1>3. t \in Table /\ \A g \in Fd :
        t[g] = IF g > 2 /\ g \in {pipeFd.r, pipeFd.w} THEN Closed ELSE fd[g]
  BY CleanupFacts, ShellFacts
<1>4. \A g \in Fd : fd'[g] =
        IF g = savedStdin \/ (g > 2 /\ g \in {pipeFd.r, pipeFd.w})
        THEN Closed ELSE fd[g]
  <2>1. savedStdin # 0 /\ (IsOpen(t, savedStdin) => t[savedStdin] = Tty)
    BY <1>1, <1>2, <1>3, ShellFacts DEF AtFail, SpentBackup, IsOpen
  <2>2. t[0] = Tty
    BY <1>3, ShellFacts
  <2>3. QED
    BY <1>1, <1>3, <2>1, <2>2, RestoreTerminal
<1>5. savedStdin # NoFd => savedStdin \in Fd /\ savedStdin > 2
  BY <1>1, <1>2 DEF AtFail, SpentBackup
<1>6. TerminalKept'
  BY <1>4, <1>5, ShellFacts DEF TerminalKept
<1>7. SpentBackup'
  BY <1>1, <1>4, <1>5 DEF SpentBackup
<1>8. pipeFd.r \in Fd /\ pipeFd.w \in Fd
  BY DEF IInv, TableInv, TypeOK
<1>9. \/ OnlySpare({savedStdin})'
      \/ (Orphaned /\ prevFd # savedStdin /\ OnlySpare({savedStdin, prevFd}))'
  <2>1. CASE Orphaned /\ prevFd \notin {savedStdin, pipeFd.r, pipeFd.w}
    BY <1>1, <1>2, <1>4, <2>1, ShellFacts
    DEF AtFail, Orphaned, OnlySpare, Spare, Last
  <2>2. CASE prevFd = NoFd \/ prevFd = pipeFd.r
    BY <1>1, <1>2, <1>4, <1>8, <2>2, ShellFacts DEF AtFail, OnlySpare, Spare
  <2>3. QED
    BY <1>1, <1>2, <2>1, <2>2 DEF AtFail
<1>10. AtRestore'
  BY <1>7, <1>9 DEF AtRestore
<1>11. QED
  BY <1>1, <1>6, <1>10
  DEF ShellInv, AtEnter, AtIter, AtFork, AtFail, AtCleanup, AtWait, AtEnd

LEMMA CleanupShell ==
  ASSUME IInv, Cleanup
  PROVE  ShellInv'
<1>1. /\ pc = "cleanup" /\ pc' = "wait"
      /\ fd' = CleanupPipelineFds(prevFd)
      /\ UNCHANGED <<line, curr, savedStdin, prevFd, pipeFd, pidCount, fails>>
  BY DEF Cleanup, shell
<1>2. AtCleanup
  BY DEF IInv, TableInv, ShellInv
<1>3. \A g \in Fd : fd'[g] = fd[g]
  <2>1. CASE curr = 1
    BY <1>1, <1>2, <2>1, CleanupFacts, ShellFacts DEF AtCleanup, StalePipe
  <2>2. CASE curr > 1
    BY <1>1, <1>2, <2>2, CleanupFacts, ShellFacts DEF AtCleanup, StalePipe
  <2>3. QED
    BY <2>1, <2>2, ShellFacts
<1>4. TerminalKept'
  BY <1>3, ShellFacts DEF TerminalKept
<1>5. AtWait'
  BY <1>1, <1>2, <1>3 DEF AtWait, AtCleanup, Backup, OnlySpare, Spare, Last
<1>6. QED
  BY <1>1, <1>4, <1>5
  DEF ShellInv, AtEnter, AtIter, AtFork, AtFail, AtCleanup, AtRestore, AtEnd

LEMMA WaitShell ==
  ASSUME IInv, WaitStage \/ Report \/ Rearm
  PROVE  ShellInv'
<1>1. /\ UNCHANGED <<line, curr, fd, savedStdin, prevFd, pipeFd, pidCount, fails>>
      /\ pc \in {"wait", "report", "rearm"}
      /\ pc' \in {"wait", "report", "rearm", "restore"}
  BY DEF WaitStage, Report, Rearm, shell
<1>2. TerminalKept /\ Backup /\ OnlySpare({savedStdin}) /\ pidCount = Last
  BY <1>1 DEF IInv, TableInv, ShellInv, AtWait
<1>3. TerminalKept' /\ AtWait' /\ AtRestore'
  BY <1>1, <1>2
  DEF TerminalKept, AtWait, AtRestore, Backup, SpentBackup, OnlySpare, Spare, Last
<1>4. QED
  BY <1>1, <1>3
  DEF ShellInv, AtEnter, AtIter, AtFork, AtFail, AtCleanup, AtEnd

LEMMA RestoreShell ==
  ASSUME IInv, Restore
  PROVE  ShellInv'
<1>1. /\ pc = "restore" /\ pc' = "prompt"
      /\ fd' = CloseFdsExceptStd(RestoreStdin(fd, savedStdin))
      /\ UNCHANGED <<line, savedStdin, prevFd, pidCount, fails>>
  BY DEF Restore, shell
<1>2. AtRestore
  BY DEF IInv, TableInv, ShellInv
<1> DEFINE t == RestoreStdin(fd, savedStdin)
<1>3. \A g \in Fd : t[g] = IF g = savedStdin THEN Closed ELSE fd[g]
  <2>1. savedStdin # 0 /\ (IsOpen(fd, savedStdin) => fd[savedStdin] = Tty)
    BY <1>1, <1>2, ShellFacts DEF AtRestore, SpentBackup, IsOpen
  <2>2. QED
    BY <2>1, ShellFacts, RestoreTerminal
<1>4. \A g \in Fd : /\ g \in 0 .. 2 => fd'[g] = t[g]
                    /\ fd'[g] \in {Closed, t[g]}
  BY <1>1, ShellFacts DEF CloseFdsExceptStd
<1>5. savedStdin # NoFd => savedStdin > 2
  BY <1>1, <1>2 DEF AtRestore, SpentBackup
<1>6. TerminalKept'
  BY <1>3, <1>4, <1>5, ShellFacts DEF TerminalKept
<1>7. AtEnd'
  <2>1. CASE OnlySpare({savedStdin})
    <3>1. OnlySpare({})'
      BY <1>3, <1>4, <2>1 DEF OnlySpare, Spare
    <3>2. QED
      BY <3>1 DEF AtEnd
  <2>2. CASE Orphaned /\ prevFd # savedStdin /\ OnlySpare({savedStdin, prevFd})
    <3>1. OnlySpare({prevFd})'
      BY <1>1, <1>3, <1>4, <2>2 DEF OnlySpare, Spare
    <3>2. fd'[prevFd] \in {Closed, ReadEnd(pidCount)}
      BY <1>3, <1>4, <2>2 DEF Orphaned
    <3>3. CASE fd'[prevFd] = Closed
      <4>1. OnlySpare({})'
        BY <1>1, <3>1, <3>3 DEF OnlySpare, Spare
      <4>2. QED
        BY <4>1 DEF AtEnd
    <3>4. CASE fd'[prevFd] = ReadEnd(pidCount)
      <4>1. Orphaned'
        BY <1>1, <2>2, <3>4 DEF Orphaned, Last
      <4>2. QED
        BY <3>1, <4>1 DEF AtEnd
    <3>5. QED
      BY <3>2, <3>3, <3>4
  <2>3. QED
    BY <1>1, <1>2, <2>1, <2>2 DEF AtRestore
<1>8. QED
  BY <1>1, <1>6, <1>7
  DEF ShellInv, AtEnter, AtIter, AtFork, AtFail, AtCleanup, AtWait, AtRestore

(* The steps of others leave the shell and its table alone. *)
LEMMA OthersShell ==
  ASSUME ShellInv, UNCHANGED <<line, pc, shell, fd, fails>>
  PROVE  ShellInv'
BY DEF ShellInv, TerminalKept, AtEnter, AtIter, AtFork, AtFail, AtCleanup,
       AtWait, AtRestore, AtEnd, ForkTable, ForkTerminal, ForkPipes, ForkRest,
       Numbers, Backup, SpentBackup, OnlySpare, Orphaned, StalePipe, Spare,
       Last, shell

LEMMA ShellStep ==
  ASSUME IInv, [Next]_vars
  PROVE  ShellInv'
<1>1. CASE Shell
  BY <1>1, EnterShell, DupFailsShell, BeginStageShell, BeginLastStageShell,
     PipeFailsShell, ForkShell, ForkFailsShell, AttachShell, AttachLastShell,
     GiveUpShell, CleanupShell, WaitShell, RestoreShell
  DEF Shell
<1>2. CASE \E j \in Stage : Child(j) \/ ReadTty(j)
  <2>1. UNCHANGED <<line, pc, shell, fd, fails>>
    BY <1>2
    DEF Child, ResetSignals, Plumb, Redirect, RedirectFails, Refuse, Start,
        ReadPipe, ReadEof, Write, WriteBroken, Exit, ReadTty
  <2>2. QED
    BY <2>1, OthersShell DEF IInv, TableInv
<1>3. CASE \E s \in {SIGINT, SIGQUIT} : Signal(s)
  <2>1. UNCHANGED <<line, pc, shell, fd, fails>>
    BY <1>3 DEF Signal
  <2>2. QED
    BY <2>1, OthersShell DEF IInv, TableInv
<1>4. CASE UNCHANGED vars
  <2>1. UNCHANGED <<line, pc, shell, fd, fails>>
    BY <1>4 DEF vars
  <2>2. QED
    BY <2>1, OthersShell DEF IInv, TableInv
<1>5. QED
  BY <1>1, <1>2, <1>3, <1>4 DEF Next, AtPrompt

-----------------------------------------------------------------------------
(***************************************************************************)
(* The descriptor tables of the children.                                  *)
(***************************************************************************)

(* What a stage may have open once it is plumbed. *)
Isolated(j) ==
  /\ Input(j)  = IF Redirects(j, "in") THEN File
                 ELSE IF j = 1 THEN Tty ELSE ReadEnd(j - 1)
  /\ Output(j) = IF Redirects(j, "out") THEN File
                 ELSE IF j = Last THEN Tty ELSE WriteEnd(j)
  /\ \A f \in Fd : f > 2 => cfd[j][f] \in {Closed, Leftover}

ChildOK(j) ==
  /\ cpc[j] \in {"forked", "plumb"} => ForkTable(cfd[j], j, cparams[j])
  /\ Plumbed(j) => Isolated(j)

LEMMA ChildOKs ==
  ASSUME IInv
  PROVE  \A j \in Stage : ChildOK(j)
BY DEF IInv, TableInv, ChildInv, StageIsolation, ChildOK, Isolated

LEMMA ChildUntouched ==
  ASSUME NEW j \in Stage, ChildOK(j), UNCHANGED line,
         cpc'[j] = cpc[j], cfd'[j] = cfd[j], cparams'[j] = cparams[j]
  PROVE  ChildOK(j)'
BY DEF ChildOK, ForkTable, ForkTerminal, ForkPipes, ForkRest, Spare, Plumbed,
       Isolated, Alive, Redirects, Input, Output, Last

LEMMA ChildEnded ==
  ASSUME NEW j \in Stage, cpc'[j] \in {"unborn", "zombie", "reaped"}
  PROVE  ChildOK(j)'
BY DEF ChildOK, Plumbed, Alive

LEMMA PlumbChild ==
  ASSUME IInv, NEW j \in Stage, Plumb(j)
  PROVE  ChildOK(j)'
<1> DEFINE p  == cparams[j]
           t0 == cfd[j]
           t1 == IF j < Last
                 THEN Close(Close(Dup2(t0, p.pipe.w, 1), p.pipe.w), p.pipe.r)
                 ELSE t0
           t2 == IF p.prev = NoFd THEN t1 ELSE Close(Dup2(t1, p.prev, 0), p.prev)
<1>1. /\ Last \in Nat /\ Last > 0 /\ Stage = 1 .. Last
      /\ 0 \in Fd /\ 1 \in Fd /\ 2 \in Fd /\ Fd \subseteq Nat /\ NoFd \notin Fd
      /\ NoFd = -1
  BY LineFacts, FdFacts DEF IInv, TableInv, TypeOK, NoFd
<1>2. t0 \in Table /\ p \in Params
  BY DEF IInv, TableInv, TypeOK
<1>3. ForkTable(t0, j, p)
  BY DEF IInv, TableInv, ChildInv, Plumb
<1>4. t0[0] = Tty /\ t0[1] = Tty /\ t0[2] = Tty
  BY <1>3 DEF ForkTable, ForkTerminal
<1>5. /\ t1 \in Table
      /\ t1[0] = Tty
      /\ t1[1] = IF j = Last THEN Tty ELSE WriteEnd(j)
      /\ \A f \in Fd : f > 2 =>
           t1[f] = IF j < Last /\ f \in {p.pipe.r, p.pipe.w} THEN Closed
                   ELSE t0[f]
  <2>1. CASE j < Last
    <3>1. /\ p.pipe.w \in Fd /\ p.pipe.w > 2 /\ t0[p.pipe.w] = WriteEnd(j)
          /\ p.pipe.r \in Fd /\ p.pipe.r > 2
      BY <1>2, <1>3, <2>1 DEF ForkTable, ForkPipes, Params
    <3>2. /\ Dup2(t0, p.pipe.w, 1) \in Table
          /\ \A g \in Fd : Dup2(t0, p.pipe.w, 1)[g] =
               IF g = 1 THEN WriteEnd(j) ELSE t0[g]
      BY <1>2, <3>1, Dup2Type, Targets DEF IsOpen
    <3>3. /\ Close(Dup2(t0, p.pipe.w, 1), p.pipe.w) \in Table
          /\ \A g \in Fd : Close(Dup2(t0, p.pipe.w, 1), p.pipe.w)[g] =
               IF g = p.pipe.w THEN Closed
               ELSE IF g = 1 THEN WriteEnd(j) ELSE t0[g]
      BY <3>2, CloseType
    <3>4. /\ t1 \in Table
          /\ \A g \in Fd : t1[g] =
               IF g \in {p.pipe.r, p.pipe.w} THEN Closed
               ELSE IF g = 1 THEN WriteEnd(j) ELSE t0[g]
      BY <2>1, <3>3, CloseType
    <3> HIDE DEF t1
    <3>5. t1[0] = Tty /\ t1[1] = WriteEnd(j)
      BY <1>1, <1>4, <3>1, <3>4
    <3>6. QED
      BY <1>1, <2>1, <3>4, <3>5
  <2>2. CASE ~(j < Last)
    BY <1>1, <1>2, <1>4, <2>2
  <2>3. QED
    BY <2>1, <2>2
<1>6. /\ t2 \in Table
      /\ t2[0] = IF j = 1 THEN Tty ELSE ReadEnd(j - 1)
      /\ t2[1] = t1[1]
      /\ \A f \in Fd : f > 2 => t2[f] = IF f = p.prev THEN Closed ELSE t1[f]
  <2> HIDE DEF t1
  <2>1. CASE j = 1
    BY <1>1, <1>3, <1>5, <2>1 DEF ForkTable, ForkPipes
  <2>2. CASE j > 1
    <3>1. p.prev \in Fd /\ p.prev > 2 /\ t0[p.prev] = ReadEnd(j - 1)
      BY <1>3, <2>2 DEF ForkTable, ForkPipes
    <3>2. t1[p.prev] = ReadEnd(j - 1)
      <4>1. CASE j < Last
        <5>1. t0[p.pipe.r] = ReadEnd(j) /\ t0[p.pipe.w] = WriteEnd(j)
          BY <1>3, <4>1 DEF ForkTable, ForkPipes
        <5>2. ReadEnd(j - 1).pipe # ReadEnd(j).pipe
          BY <1>1, Targets
        <5>3. p.prev \notin {p.pipe.r, p.pipe.w}
          BY <3>1, <5>1, <5>2, Targets
        <5>4. QED
          BY <1>5, <3>1, <5>3
      <4>2. CASE ~(j < Last)
        BY <1>5, <3>1, <4>2
      <4>3. QED
        BY <4>1, <4>2
    <3>3. p.prev # NoFd /\ IsOpen(t1, p.prev)
      BY <1>1, <3>1, <3>2, Targets DEF IsOpen
    <3>4. /\ Dup2(t1, p.prev, 0) \in Table
          /\ \A g \in Fd : Dup2(t1, p.prev, 0)[g] =
               IF g = 0 THEN ReadEnd(j - 1) ELSE t1[g]
      BY <1>5, <3>2, <3>3, Dup2Type
    <3>5. /\ t2 \in Table
          /\ \A g \in Fd : t2[g] =
               IF g = p.prev THEN Closed
               ELSE IF g = 0 THEN ReadEnd(j - 1) ELSE t1[g]
      BY <3>3, <3>4, CloseType
    <3>6. QED
      BY <1>1, <2>2, <3>1, <3>5
  <2>3. QED
    BY <1>1, <2>1, <2>2
<1>7. t2 = SetupChildIo(j)
  BY DEF SetupChildIo
<1> HIDE DEF t2
<1>8. /\ Close(Close(t2, p.saved), p.save) \in Table
      /\ \A g \in Fd : Close(Close(t2, p.saved), p.save)[g] =
           IF g \in {p.saved, p.save} THEN Closed ELSE t2[g]
  <2>1. Close(t2, p.saved) \in Table /\ \A g \in Fd :
          Close(t2, p.saved)[g] = IF g = p.saved THEN Closed ELSE t2[g]
    BY <1>6, CloseType
  <2>2. QED
    BY <2>1, CloseType
<1>9. cfd'[j] = Close(Close(t2, p.saved), p.save)
  BY <1>7 DEF Plumb, IInv, TableInv, TypeOK
<1>10. 0 \notin {p.saved, p.save} /\ 1 \notin {p.saved, p.save}
  BY <1>1, <1>3 DEF ForkTable, ForkTerminal
<1>11. cpc'[j] = "redirect" /\ line' = line /\ Last' = Last
  BY DEF Plumb, IInv, TableInv, TypeOK, Last
<1>12. /\ cfd'[j][0] = IF j = 1 THEN Tty ELSE ReadEnd(j - 1)
       /\ cfd'[j][1] = IF j = Last THEN Tty ELSE WriteEnd(j)
  BY <1>1, <1>5, <1>6, <1>8, <1>9, <1>10
<1>13. \A f \in Fd : f > 2 => cfd'[j][f] \in {Closed, Leftover}
  <2> HIDE DEF t1
  <2>1. \A f \in Fd : f > 2 =>
          \/ t0[f] \in {Closed, Leftover}
          \/ f \in {p.save, p.saved, p.prev}
          \/ j < Last /\ f \in {p.pipe.r, p.pipe.w}
    BY <1>3 DEF ForkTable, ForkRest, Spare
  <2>2. QED
    BY <2>1, <1>5, <1>6, <1>8, <1>9
<1>14. Isolated(j)'
  BY <1>11, <1>12, <1>13 DEF Isolated, Redirects, Input, Output
<1>15. QED
  BY <1>11, <1>14 DEF ChildOK

LEMMA RedirectChild ==
  ASSUME IInv, NEW j \in Stage, Redirect(j)
  PROVE  ChildOK(j)'
<1>1. /\ cpc[j] = "redirect" /\ cpc'[j] = "start" /\ line' = line /\ Last' = Last
      /\ cfd'[j] = Redirected(j)
  BY DEF Redirect, IInv, TableInv, TypeOK, Last
<1>2. cfd[j] \in Table /\ Isolated(j)
  BY <1>1, ChildOKs DEF ChildOK, Plumbed, Alive, IInv, TableInv, TypeOK
<1>3. \A g \in Fd : cfd'[j][g] =
        IF line[j].redir = "in" /\ g = 0 THEN File
        ELSE IF line[j].redir = "out" /\ g = 1 THEN File ELSE cfd[j][g]
  BY <1>1, <1>2, PutType, TargetTypes DEF Redirected
<1>4. /\ cfd[j][0] = IF j = 1 THEN Tty ELSE ReadEnd(j - 1)
      /\ cfd[j][1] = IF j = Last THEN Tty ELSE WriteEnd(j)
      /\ \A f \in Fd : f > 2 => cfd[j][f] \in {Closed, Leftover}
  BY <1>1, <1>2 DEF Isolated, Redirects, Input, Output
<1>5. /\ cfd'[j][0] = IF line[j].redir = "in" THEN File ELSE cfd[j][0]
      /\ cfd'[j][1] = IF line[j].redir = "out" THEN File ELSE cfd[j][1]
      /\ \A f \in Fd : f > 2 => cfd'[j][f] = cfd[j][f]
  <2>1. 0 \in Fd /\ 1 \in Fd
    BY FdFacts
  <2>2. cfd'[j][0] = IF line[j].redir = "in" THEN File ELSE cfd[j][0]
    BY <1>3, <2>1
  <2>3. cfd'[j][1] = IF line[j].redir = "out" THEN File ELSE cfd[j][1]
    BY <1>3, <2>1
  <2>4. ASSUME NEW f \in Fd, f > 2 PROVE cfd'[j][f] = cfd[j][f]
    <3>1. f # 0 /\ f # 1
      BY <2>4, FdFacts
    <3>2. QED
      BY <1>3, <3>1
  <2>5. QED
    BY <2>2, <2>3, <2>4
<1>6. Isolated(j)'
  BY <1>1, <1>4, <1>5 DEF Isolated, Redirects, Input, Output
<1>7. QED
  BY <1>1, <1>6 DEF ChildOK

(* A running child that only moves on keeps its table. *)
LEMMA RunningChild ==
  ASSUME IInv, NEW j \in Stage, UNCHANGED line, Plumbed(j), cpc[j] # "redirect",
         cfd'[j] = cfd[j], Plumbed(j)', cpc'[j] # "redirect"
  PROVE  ChildOK(j)'
<1>1. Isolated(j)
  BY ChildOKs DEF ChildOK
<1>2. Isolated(j)'
  BY <1>1 DEF Isolated, Redirects, Input, Output, Last
<1>3. QED
  BY <1>2 DEF ChildOK, Plumbed, Alive

LEMMA ChildTables ==
  ASSUME IInv, [Next]_vars
  PROVE  ChildInv' /\ StageIsolation'
<1> USE DEF IInv, TableInv
<1>1. UNCHANGED line
  BY DEF Next, Shell, Child, Enter, DupFails, BeginStage, BeginLastStage,
     PipeFails, Fork, ForkFails, Attach, AttachLast, GiveUp, Cleanup, WaitStage,
     Report, Rearm, Restore, ResetSignals, Plumb, Redirect, RedirectFails,
     Refuse, Start, ReadPipe, ReadEof, Write, WriteBroken, Exit, ReadTty,
     Signal, AtPrompt, vars
<1>2. Stage' = Stage
  BY <1>1 DEF Stage, Last
<1> SUFFICES ASSUME NEW k \in Stage PROVE ChildOK(k)'
  <2>1. (\A j \in Stage : ChildOK(j))'
    BY <1>2
  <2>2. QED
    BY <2>1 DEF ChildInv, StageIsolation, ChildOK, Isolated
<1>3. ChildOK(k)
  BY ChildOKs
<1>4. CASE Fork
  <2>1. CASE k = curr
    <3>1. /\ cpc'[k] = "forked" /\ cfd'[k] = fd /\ cparams'[k] = Numbers
      BY <1>4, <2>1 DEF Fork, TypeOK, Numbers
    <3>2. ForkTable(fd, k, Numbers)
      BY <1>4, <2>1 DEF Fork, ShellInv, AtFork
    <3>3. ForkTable(cfd'[k], k, cparams'[k])
      BY <3>1, <3>2
    <3>4. QED
      BY <1>1, <3>1, <3>3
      DEF ChildOK, Plumbed, ForkTable, ForkTerminal, ForkPipes, ForkRest, Spare, Last
  <2>2. CASE k # curr
    BY <1>1, <1>3, <1>4, <2>2, ChildUntouched DEF Fork, TypeOK
  <2>3. QED
    BY <2>1, <2>2
<1>5. CASE WaitStage
  <2>1. /\ UNCHANGED <<cfd, cparams>>
        /\ cpc' = [cpc EXCEPT ![waited + 1] = "reaped"]
    BY <1>5 DEF WaitStage
  <2>2. CASE k = waited + 1
    BY <2>1, <2>2, ChildEnded DEF TypeOK
  <2>3. CASE k # waited + 1
    BY <1>1, <1>3, <2>1, <2>3, ChildUntouched DEF TypeOK
  <2>4. QED
    BY <2>2, <2>3
<1>6. CASE UNCHANGED children
  BY <1>1, <1>3, <1>6, ChildUntouched DEF children
<1>7. CASE \E j \in Stage : Child(j) \/ ReadTty(j)
  <2>1. PICK j \in Stage : Child(j) \/ ReadTty(j)
    BY <1>7
  <2>2. CASE k # j
    <3>1. cpc'[k] = cpc[k] /\ cfd'[k] = cfd[k] /\ cparams'[k] = cparams[k]
      BY <2>1, <2>2
      DEF Child, ResetSignals, Plumb, Redirect, RedirectFails, Refuse, Start,
          ReadPipe, ReadEof, Write, WriteBroken, Exit, ReadTty, Ends, TypeOK
    <3>2. QED
      BY <1>1, <1>3, <3>1, ChildUntouched
  <2>3. CASE k = j /\ ResetSignals(j)
    <3>1. cpc[k] = "forked" /\ cpc'[k] = "plumb" /\ UNCHANGED <<cfd, cparams>>
      BY <2>3 DEF ResetSignals, TypeOK
    <3>2. QED
      BY <1>1, <1>3, <3>1
      DEF ChildOK, Plumbed, ForkTable, ForkTerminal, ForkPipes, ForkRest, Spare, Last
  <2>4. CASE k = j /\ (Plumb(j) \/ Redirect(j))
    BY <2>4, PlumbChild, RedirectChild
  <2>5. CASE k = j /\ (\/ RedirectFails(j) \/ Refuse(j) \/ WriteBroken(j)
                       \/ Exit(j))
    <3>1. cpc'[k] = "zombie"
      BY <2>5 DEF RedirectFails, Refuse, WriteBroken, Exit, Ends, TypeOK
    <3>2. QED
      BY <3>1, ChildEnded
  <2>6. CASE k = j /\ (\/ Start(j) \/ ReadPipe(j) \/ ReadEof(j) \/ Write(j)
                       \/ ReadTty(j))
    <3>1. /\ cpc[k] \in {"start", "reading", "writing"}
          /\ cpc'[k] \in {"reading", "writing", "done"}
          /\ cfd'[k] = cfd[k]
      BY <2>6 DEF Start, ReadPipe, ReadEof, Write, ReadTty, FirstStep,
                  AfterWrite, TypeOK
    <3>2. QED
      BY <1>1, <3>1, RunningChild DEF Plumbed, Alive
  <2>7. QED
    BY <2>1, <2>2, <2>3, <2>4, <2>5, <2>6 DEF Child
<1>8. CASE \E s \in {SIGINT, SIGQUIT} : Signal(s)
  <2>1. /\ cparams' = cparams
        /\ cpc'[k] = IF Dies(k) THEN "zombie" ELSE cpc[k]
        /\ cfd'[k] = IF Dies(k) THEN NoTable ELSE cfd[k]
    BY <1>8 DEF Signal
  <2>2. QED
    BY <1>1, <1>3, <2>1, ChildUntouched, ChildEnded
<1>9. QED
  BY <1>4, <1>5, <1>6, <1>7, <1>8
  DEF Next, Shell, Enter, DupFails, BeginStage, BeginLastStage, PipeFails,
      ForkFails, Attach, AttachLast, GiveUp, Cleanup, Report, Rearm, Restore,
      AtPrompt, vars

-----------------------------------------------------------------------------
(***************************************************************************)
(* Births, waits, endings and the status register.                         *)
(***************************************************************************)
LEMMA LineStep ==
  ASSUME [Next]_vars
  PROVE  line' = line /\ Stage' = Stage /\ Last' = Last
<1>1. UNCHANGED line
  BY DEF Next, Shell, Child, Enter, DupFails, BeginStage, BeginLastStage,
     PipeFails, Fork, ForkFails, Attach, AttachLast, GiveUp, Cleanup, WaitStage,
     Report, Rearm, Restore, ResetSignals, Plumb, Redirect, RedirectFails,
     Refuse, Start, ReadPipe, ReadEof, Write, WriteBroken, Exit, ReadTty,
     Signal, AtPrompt, vars
<1>2. QED
  BY <1>1 DEF Stage, Last

(* What a step of the kernel, a child or the terminal does to a child.     *)
LEMMA OthersStep ==
  ASSUME IInv,
         \/ \E j \in Stage : Child(j) \/ ReadTty(j)
         \/ \E s \in {SIGINT, SIGQUIT} : Signal(s)
         \/ UNCHANGED vars
  PROVE  /\ UNCHANGED <<pc, shell, fd, fails>>
         /\ pc \in {"wait", "report", "rearm", "prompt"} => UNCHANGED status
         /\ status' \in {status, 130}
         /\ \A k \in Stage :
              \/ cpc'[k] = cpc[k] /\ ending'[k] = ending[k]
              \/ /\ Alive(k) /\ Alive(k)'
                 /\ ending'[k] = ending[k]
              \/ /\ Alive(k) /\ cpc'[k] = "zombie"
                 /\ ending'[k] \in [sig : Nat, code : Nat]
<1> USE DEF IInv, TableInv
<1>1. CASE UNCHANGED vars
  BY <1>1 DEF vars, children
<1>2. CASE \E s \in {SIGINT, SIGQUIT} : Signal(s)
  <2>1. PICK s \in {SIGINT, SIGQUIT} : Signal(s)
    BY <1>2
  <2>2. [sig |-> s, code |-> 0] \in [sig : Nat, code : Nat]
    BY DEF SIGINT, SIGQUIT
  <2>3. /\ UNCHANGED <<pc, shell, fd, fails>>
        /\ pc \in {"wait", "report", "rearm", "prompt"} => UNCHANGED status
        /\ status' \in {status, 130}
    BY <2>1 DEF Signal
  <2>4. \A k \in Stage :
          /\ cpc'[k] = IF Dies(k) THEN "zombie" ELSE cpc[k]
          /\ ending'[k] = IF Dies(k) THEN [sig |-> s, code |-> 0] ELSE ending[k]
    BY <2>1 DEF Signal
  <2>5. QED
    BY <2>2, <2>3, <2>4 DEF Dies
<1>3. CASE \E j \in Stage : Child(j) \/ ReadTty(j)
  <2>1. PICK j \in Stage : Child(j) \/ ReadTty(j)
    BY <1>3
  <2>2. UNCHANGED <<pc, shell, fd, status, fails>>
    BY <2>1
    DEF Child, ResetSignals, Plumb, Redirect, RedirectFails, Refuse, Start,
        ReadPipe, ReadEof, Write, WriteBroken, Exit, ReadTty
  <2>3. \A k \in Stage : k # j => cpc'[k] = cpc[k] /\ ending'[k] = ending[k]
    BY <2>1
    DEF Child, ResetSignals, Plumb, Redirect, RedirectFails, Refuse, Start,
        ReadPipe, ReadEof, Write, WriteBroken, Exit, ReadTty, Ends, TypeOK
  <2>4. CASE \/ ResetSignals(j) \/ Plumb(j) \/ Redirect(j) \/ Start(j)
             \/ ReadPipe(j) \/ ReadEof(j) \/ Write(j) \/ ReadTty(j)
    <3>1. Alive(j) /\ Alive(j)' /\ ending'[j] = ending[j]
      BY <2>4
      DEF ResetSignals, Plumb, Redirect, Start, ReadPipe, ReadEof, Write,
          ReadTty, FirstStep, AfterWrite, Alive, TypeOK
    <3>2. QED
      BY <2>2, <2>3, <3>1
  <2>5. CASE \/ RedirectFails(j) \/ Refuse(j) \/ WriteBroken(j) \/ Exit(j)
    <3>1. line[j].code \in Nat /\ cstatus[j] \in Nat
      <4>1. line[j] \in StageType
        BY LineFacts DEF TypeOK
      <4>2. line[j].code \in 0 .. 255
        BY <4>1 DEF StageType
      <4>3. QED
        BY <4>2 DEF TypeOK
    <3>2. NotRunStatus(j) \in Nat /\ ExitStatus(j) \in Nat
      BY <3>1 DEF NotRunStatus, ExecveError, ExitStatus
    <3>3. /\ Alive(j) /\ cpc'[j] = "zombie"
          /\ ending'[j] \in [sig : Nat, code : Nat]
      BY <2>5, <3>2 DEF RedirectFails, Refuse, WriteBroken, Exit, Ends, Alive,
                        SIGPIPE, TypeOK
    <3>4. QED
      BY <2>2, <2>3, <3>3
  <2>6. QED
    BY <2>1, <2>4, <2>5 DEF Child
<1>4. QED
  BY <1>1, <1>2, <1>3

LEMMA NextCases ==
  ASSUME [Next]_vars
  PROVE  \/ Shell
         \/ \E j \in Stage : Child(j) \/ ReadTty(j)
         \/ \E s \in {SIGINT, SIGQUIT} : Signal(s)
         \/ UNCHANGED vars
BY DEF Next, AtPrompt

LEMMA BornStep ==
  ASSUME IInv, [Next]_vars
  PROVE  BornInv'
<1> SUFFICES ASSUME NEW k \in Stage PROVE (cpc[k] = "unborn" <=> k > Forked)'
  BY LineStep DEF BornInv
<1>1. cpc[k] = "unborn" <=> k > Forked
  BY DEF IInv, BornInv
<1>2. CASE Fork
  <2>1. pidCount = curr - 1
    BY <1>2 DEF IInv, TableInv, ShellInv, AtFork, Fork
  <2>2. k > curr <=> (k > pidCount /\ k # curr)
    <3>1. k \in Nat /\ curr \in Nat
      BY ShellFacts, LineFacts DEF IInv, TableInv, TypeOK
    <3>2. QED
      BY <2>1, <3>1
  <2>3. QED
    BY <1>1, <1>2, <2>1, <2>2 DEF Fork, Forked, IInv, TableInv, TypeOK, shell
<1>3. CASE Attach \/ AttachLast
  <2>1. pidCount' = curr
    BY <1>3, ForkFacts, ShellFacts DEF Attach, AttachLast
  <2>2. pc = "attach" /\ pc' # "attach" /\ cpc' = cpc
    BY <1>3 DEF Attach, AttachLast, children
  <2>3. QED
    BY <1>1, <2>1, <2>2 DEF Forked
<1>4. CASE WaitStage
  <2>1. waited + 1 \in Stage
    BY <1>4, ShellFacts DEF WaitStage, IInv, TableInv, WaitedInv, TypeOK, Stage
  <2>2. cpc[waited + 1] = "zombie" /\ cpc' = [cpc EXCEPT ![waited + 1] = "reaped"]
        /\ pc # "attach" /\ pc' # "attach" /\ pidCount' = pidCount
    BY <1>4 DEF WaitStage
  <2>3. QED
    BY <1>1, <2>1, <2>2 DEF Forked, IInv, TableInv, TypeOK
<1>5. CASE \/ Enter \/ DupFails \/ BeginStage \/ BeginLastStage \/ PipeFails
           \/ ForkFails \/ GiveUp \/ Cleanup \/ Report \/ Rearm \/ Restore
  <2>1. cpc' = cpc /\ pidCount' = pidCount /\ pc # "attach" /\ pc' # "attach"
    BY <1>5 DEF Enter, DupFails, BeginStage, BeginLastStage, PipeFails,
       ForkFails, GiveUp, Cleanup, Report, Rearm, Restore, shell, children
  <2>2. QED
    BY <1>1, <2>1 DEF Forked
<1>6. CASE ~Shell
  <2>1. pc' = pc /\ curr' = curr /\ pidCount' = pidCount
        /\ (cpc'[k] = "unborn" <=> cpc[k] = "unborn")
    BY <1>6, NextCases, OthersStep DEF Alive, shell
  <2>2. QED
    BY <1>1, <2>1 DEF Forked
<1>7. QED
  BY <1>2, <1>3, <1>4, <1>5, <1>6 DEF Shell

LEMMA WaitedStep ==
  ASSUME IInv, [Next]_vars
  PROVE  WaitedInv'
<1>1. WaitedInv /\ waited \in Nat /\ Last \in Nat /\ Last > 0 /\ Stage = 1 .. Last
  BY LineFacts DEF IInv, TableInv, TypeOK
<1>2. CASE WaitStage
  <2>1. waited + 1 \in Stage /\ pidCount = Last
    BY <1>1, <1>2 DEF WaitStage, WaitedInv, IInv, TableInv, ShellInv, AtWait
  <2>2. \A k \in Stage : cpc'[k] = IF k = waited + 1 THEN "reaped" ELSE cpc[k]
    BY <1>2, <2>1 DEF WaitStage, IInv, TableInv, TypeOK
  <2>3. \A k \in Stage : cpc'[k] = "reaped" <=> k <= waited + 1
    BY <1>1, <2>2 DEF WaitedInv
  <2>4. /\ waited' = waited + 1 /\ pidCount' = pidCount
        /\ pc' = IF waited + 1 = Last THEN "report" ELSE "wait"
    BY <1>2, <2>1 DEF WaitStage
  <2>5. QED
    BY <1>1, <2>1, <2>3, <2>4, LineStep DEF WaitedInv
<1>3. CASE Fork
  <2>1. \A k \in Stage : cpc'[k] = IF k = curr THEN "forked" ELSE cpc[k]
    BY <1>3 DEF Fork, IInv, TableInv, TypeOK
  <2>2. cpc[curr] = "unborn" /\ curr \in Stage
    <3>1. pidCount = curr - 1 /\ pc = "fork"
      BY <1>3 DEF Fork, IInv, TableInv, ShellInv, AtFork
    <3>2. QED
      BY <1>1, <3>1, ShellFacts DEF IInv, BornInv, Forked
  <2>3. pc = "fork" /\ pc' = "attach" /\ waited' = waited
    BY <1>3 DEF Fork, shell
  <2>4. waited = 0
    BY <1>1, <2>3 DEF WaitedInv
  <2>5. \A k \in Stage : cpc'[k] # "reaped"
    BY <1>1, <2>1, <2>4 DEF WaitedInv
  <2>6. QED
    BY <1>1, <2>3, <2>4, <2>5, LineStep DEF WaitedInv
<1>4. CASE \/ Enter \/ DupFails \/ BeginStage \/ BeginLastStage \/ PipeFails
           \/ ForkFails \/ Attach \/ AttachLast \/ Cleanup
  <2>1. /\ cpc' = cpc /\ waited' = waited
        /\ pc \in {"enter", "iter", "fork", "attach", "cleanup"}
        /\ pc' \in {"iter", "fork", "attach", "fail", "cleanup", "wait"}
    BY <1>4 DEF Enter, DupFails, BeginStage, BeginLastStage, PipeFails,
       ForkFails, Attach, AttachLast, Cleanup, shell, children
  <2>2. QED
    BY <1>1, <2>1, LineStep DEF WaitedInv
<1>5. CASE GiveUp
  <2>1. /\ pc = "fail" /\ pc' = "restore"
        /\ UNCHANGED <<cpc, waited, pidCount>>
    BY <1>5 DEF GiveUp, shell, children
  <2>2. pidCount # Last
    BY <1>1, <2>1, ShellFacts DEF IInv, TableInv, ShellInv, AtFail
  <2>3. QED
    BY <1>1, <2>1, <2>2, LineStep DEF WaitedInv
<1>6. CASE Report \/ Rearm \/ Restore
  <2>1. /\ UNCHANGED <<cpc, waited, pidCount>>
        /\ pc \in {"report", "rearm", "restore"}
        /\ pc' \in {"rearm", "restore", "prompt"}
        /\ pc = "report" => pc' = "rearm"
        /\ pc = "rearm" => pc' = "restore"
        /\ pc = "restore" => pc' = "prompt"
    BY <1>6 DEF Report, Rearm, Restore, shell, children
  <2>2. QED
    BY <1>1, <2>1, LineStep DEF WaitedInv
<1>7. CASE ~Shell
  <2>1. /\ UNCHANGED <<pc, waited, pidCount>>
        /\ \A k \in Stage : cpc'[k] = "reaped" <=> cpc[k] = "reaped"
    BY <1>7, NextCases, OthersStep DEF Alive, shell
  <2>2. QED
    BY <1>1, <2>1, LineStep DEF WaitedInv
<1>8. QED
  BY <1>2, <1>3, <1>4, <1>5, <1>6, <1>7 DEF Shell

LEMMA EndedStep ==
  ASSUME IInv, [Next]_vars
  PROVE  EndedInv'
<1> DEFINE E(k) == IF cpc[k] \in {"zombie", "reaped"}
                   THEN ending[k] \in [sig : Nat, code : Nat]
                   ELSE ending[k] = NoEnding
<1> SUFFICES ASSUME NEW k \in Stage PROVE E(k)'
  BY LineStep DEF EndedInv
<1>1. E(k)
  BY DEF IInv, EndedInv
<1>2. CASE Fork
  <2>1. pidCount = curr - 1 /\ pc = "fork"
    BY <1>2 DEF Fork, IInv, TableInv, ShellInv, AtFork
  <2>2. cpc[curr] = "unborn" /\ curr \in Stage
    BY <2>1, ShellFacts, LineFacts DEF IInv, BornInv, Forked, TableInv, TypeOK
  <2>3. ending' = ending /\ cpc' = [cpc EXCEPT ![curr] = "forked"]
    BY <1>2 DEF Fork
  <2>4. cpc'[k] = IF k = curr THEN "forked" ELSE cpc[k]
    BY <2>3 DEF IInv, TableInv, TypeOK
  <2>5. QED
    BY <1>1, <2>2, <2>3, <2>4
<1>3. CASE WaitStage
  <2>1. /\ cpc[waited + 1] = "zombie" /\ ending' = ending
        /\ cpc' = [cpc EXCEPT ![waited + 1] = "reaped"]
    BY <1>3 DEF WaitStage
  <2>2. cpc'[k] = IF k = waited + 1 THEN "reaped" ELSE cpc[k]
    BY <2>1 DEF IInv, TableInv, TypeOK
  <2>3. QED
    BY <1>1, <2>1, <2>2
<1>4. CASE Shell /\ ~Fork /\ ~WaitStage
  <2>1. cpc' = cpc /\ ending' = ending
    BY <1>4 DEF Shell, Enter, DupFails, BeginStage, BeginLastStage, PipeFails,
       ForkFails, Attach, AttachLast, GiveUp, Cleanup, Report, Rearm, Restore,
       children
  <2>2. QED
    BY <1>1, <2>1
<1>5. CASE ~Shell
  <2>1. \/ cpc'[k] = cpc[k] /\ ending'[k] = ending[k]
        \/ Alive(k) /\ Alive(k)' /\ ending'[k] = ending[k]
        \/ cpc'[k] = "zombie" /\ ending'[k] \in [sig : Nat, code : Nat]
    BY <1>5, NextCases, OthersStep
  <2>2. QED
    BY <1>1, <2>1 DEF Alive
<1>6. QED
  BY <1>2, <1>3, <1>4, <1>5

LEMMA StatusStep ==
  ASSUME IInv, [Next]_vars
  PROVE  StatusInv'
<1>1. StatusInv /\ Last \in Stage
  BY LineFacts DEF IInv, TableInv, TypeOK
<1>2. CASE WaitStage
  <2>1. pidCount = Last
    BY <1>2 DEF WaitStage, IInv, TableInv, ShellInv, AtWait
  <2>2. QED
    BY <1>2, <2>1, LineStep DEF WaitStage, StatusInv, StatusIsLastStage
<1>3. CASE Report
  <2>1. pidCount = Last
    BY <1>3 DEF Report, IInv, TableInv, ShellInv, AtWait
  <2>2. QED
    BY <1>1, <1>3, <2>1, LineStep
    DEF Report, StatusInv, StatusIsLastStage, children
<1>4. CASE Shell /\ ~WaitStage /\ ~Report
  <2>1. pc' \notin {"report", "rearm"}
    BY <1>4 DEF Shell, Enter, DupFails, BeginStage, BeginLastStage, PipeFails,
       Fork, ForkFails, Attach, AttachLast, GiveUp, Cleanup, Rearm, Restore
  <2>2. QED
    BY <2>1 DEF StatusInv, StatusIsLastStage
<1>5. CASE ~Shell
  <2>1. pc' = pc /\ (pc \in {"report", "rearm"} => status' = status)
    BY <1>5, NextCases, OthersStep
  <2>2. pc \in {"report", "rearm"} => cpc[Last] = "reaped"
    BY <1>1, LineFacts DEF IInv, WaitedInv, TableInv, TypeOK
  <2>3. pc \in {"report", "rearm"} => ending'[Last] = ending[Last]
    BY <1>1, <1>5, <2>2, NextCases, OthersStep DEF Alive
  <2>4. QED
    BY <1>1, <2>1, <2>3, LineStep DEF StatusInv, StatusIsLastStage
<1>6. QED
  BY <1>2, <1>3, <1>4, <1>5

-----------------------------------------------------------------------------
(***************************************************************************)
(* Somebody holds the read end of the pipe a stage writes to, until the    *)
(* reader had its turn; and the write end of the pipe a stage reads from,  *)
(* while the writer can still write.                                       *)
(***************************************************************************)
ReaderHadItsTurn(j) ==
  \/ cpc[j + 1] \in {"zombie", "reaped"}
  \/ line[j + 1].redir = "in" /\ Alive(j + 1)
  \/ GaveUp /\ cpc[j + 1] = "unborn"

LEMMA ReadEndHeld ==
  ASSUME IInv, NEW j \in Stage, j < Last, cpc[j] # "unborn",
         ~HeldBySomeone(ReadEnd(j))
  PROVE  ReaderHadItsTurn(j)
<1>1. /\ Last \in Nat /\ Stage = 1 .. Last /\ j \in Nat /\ j + 1 \in Stage
      /\ 0 \in Fd /\ (j + 1) - 1 = j /\ pidCount \in 0 .. Last
  <2>1. line \in Lines /\ pidCount \in 0 .. Last
    BY DEF IInv, TableInv, TypeOK
  <2>2. Last \in Nat /\ Stage = 1 .. Last
    BY <2>1, LineFacts
  <2>3. j \in Nat /\ j + 1 \in Stage /\ (j + 1) - 1 = j
    BY <2>2
  <2>4. QED
    BY <2>1, <2>2, <2>3, FdFacts
<1>2. /\ \A f \in Fd : fd[f] # ReadEnd(j)
      /\ \A f \in Fd : cfd[j + 1][f] # ReadEnd(j)
  BY <1>1 DEF HeldBySomeone
<1>3. ChildOK(j + 1)
  BY <1>1, ChildOKs
<1>4. CASE cpc[j + 1] = "unborn"
  <2>1. ~(j > Forked) /\ j + 1 > Forked
    BY <1>1, <1>4 DEF IInv, BornInv
  <2>2. Forked = j
    <3>1. Forked \in Int
      BY <1>1, ShellFacts DEF Forked
    <3>2. QED
      BY <1>1, <2>1, <3>1
  <2>3. CASE pc = "attach"
    <3>1. curr = j /\ pipeFd.r \in Fd /\ fd[pipeFd.r] = ReadEnd(curr)
      BY <2>2, <2>3, ForkFacts DEF Forked
    <3>2. QED
      BY <1>2, <3>1
  <2>4. CASE pc # "attach"
    <3>1. pidCount = j
      BY <2>2, <2>4 DEF Forked
    <3>2. pc # "iter"
      <4>1. SUFFICES ASSUME pc = "iter" PROVE FALSE
        OBVIOUS
      <4>2. curr = j + 1 /\ curr > 1
        BY <1>1, <3>1, <4>1, ShellFacts DEF IInv, TableInv, ShellInv, AtIter
      <4>3. fd[prevFd] = ReadEnd(j) /\ prevFd > 2
        BY <1>1, <4>1, <4>2 DEF IInv, TableInv, ShellInv, AtIter, StalePipe
      <4>4. prevFd \in Fd
        BY <4>3, ShellFacts DEF IInv, TableInv, TypeOK
      <4>5. QED
        BY <1>2, <4>3, <4>4
    <3>3. pc # "fork"
      <4>1. SUFFICES ASSUME pc = "fork" PROVE FALSE
        OBVIOUS
      <4>2. curr = j + 1 /\ curr > 1
        BY <1>1, <3>1, <4>1, ForkFacts, ShellFacts
      <4>3. prevFd \in Fd /\ fd[prevFd] = ReadEnd(j)
        BY <1>1, <4>1, <4>2, ForkFacts
      <4>4. QED
        BY <1>2, <4>3
    <3>4. pc \notin {"cleanup", "wait", "report", "rearm"}
      BY <3>1, <1>1 DEF IInv, TableInv, ShellInv, AtCleanup, AtWait
    <3>5. pc # "enter"
      BY <1>1, <3>1 DEF IInv, TableInv, ShellInv, AtEnter
    <3>6. pc \in {"fail", "restore", "prompt"}
      BY <2>4, <3>2, <3>3, <3>4, <3>5 DEF IInv, TableInv, TypeOK
    <3>7. QED
      BY <1>4, <3>1, <3>6 DEF GaveUp, ReaderHadItsTurn
  <2>5. QED
    BY <2>3, <2>4
<1>5. CASE cpc[j + 1] \in {"forked", "plumb"}
  <2>1. /\ cparams[j + 1].prev \in Fd
        /\ cfd[j + 1][cparams[j + 1].prev] = ReadEnd(j)
    BY <1>1, <1>3, <1>5 DEF ChildOK, ForkTable, ForkPipes
  <2>2. QED
    BY <1>2, <2>1
<1>6. CASE Plumbed(j + 1)
  <2>1. Input(j + 1) = IF Redirects(j + 1, "in") THEN File ELSE ReadEnd(j)
    BY <1>1, <1>3, <1>6 DEF ChildOK, Isolated
  <2>2. Redirects(j + 1, "in")
    BY <1>1, <1>2, <2>1 DEF Input
  <2>3. QED
    BY <1>6, <2>2 DEF ReaderHadItsTurn, Redirects, Plumbed
<1>7. QED
  BY <1>4, <1>5, <1>6 DEF Plumbed, Alive, ReaderHadItsTurn

LEMMA WriteEndHeld ==
  ASSUME IInv, NEW j \in Stage, j < Last, Alive(j), line[j].redir # "out",
         ~HeldBySomeone(WriteEnd(j))
  PROVE  FALSE
<1>1. /\ Last \in Nat /\ Stage = 1 .. Last /\ j \in Nat
      /\ 1 \in Fd /\ ChildOK(j)
  BY LineFacts, FdFacts, ChildOKs DEF IInv, TableInv, TypeOK
<1>2. \A f \in Fd : cfd[j][f] # WriteEnd(j)
  BY DEF HeldBySomeone
<1>3. CASE cpc[j] \in {"forked", "plumb"}
  <2>1. /\ cparams[j].pipe.w \in Fd
        /\ cfd[j][cparams[j].pipe.w] = WriteEnd(j)
    BY <1>1, <1>3 DEF ChildOK, ForkTable, ForkPipes, IInv, TableInv, TypeOK,
                      Params
  <2>2. QED
    BY <1>2, <2>1
<1>4. CASE Plumbed(j)
  <2>1. Output(j) = WriteEnd(j)
    BY <1>1, <1>4 DEF ChildOK, Isolated, Redirects
  <2>2. QED
    BY <1>1, <1>2, <2>1 DEF Output
<1>5. QED
  BY <1>3, <1>4 DEF Plumbed

(* What the reader of a stage went through stays true. *)
LEMMA TurnStays ==
  ASSUME IInv, [Next]_vars, NEW j \in Stage, j < Last, ReaderHadItsTurn(j)
  PROVE  ReaderHadItsTurn(j)'
<1>1. /\ Last \in Nat /\ Stage = 1 .. Last /\ j + 1 \in Stage
  BY LineFacts DEF IInv, TableInv, TypeOK
<1>2. CASE Shell /\ ~Fork /\ ~WaitStage
  <2>1. cpc' = cpc /\ (GaveUp => GaveUp')
    BY <1>2, LineStep
    DEF Shell, Enter, DupFails, BeginStage, BeginLastStage, PipeFails, ForkFails,
        Attach, AttachLast, GiveUp, Cleanup, Report, Rearm, Restore, children,
        shell, GaveUp
  <2>2. QED
    BY <2>1, LineStep DEF ReaderHadItsTurn, Alive
<1>3. CASE Fork
  <2>1. pidCount = curr - 1 /\ pc = "fork"
    BY <1>3 DEF Fork, IInv, TableInv, ShellInv, AtFork
  <2>2. cpc[curr] = "unborn"
    BY <2>1, ShellFacts, <1>1 DEF IInv, BornInv, Forked
  <2>3. /\ ~GaveUp
        /\ cpc'[j + 1] = IF j + 1 = curr THEN "forked" ELSE cpc[j + 1]
    BY <1>1, <1>3, <2>1 DEF Fork, GaveUp, IInv, TableInv, TypeOK
  <2>4. QED
    BY <2>2, <2>3, LineStep DEF ReaderHadItsTurn, Alive
<1>4. CASE WaitStage
  <2>1. /\ ~GaveUp /\ cpc[waited + 1] = "zombie"
        /\ cpc'[j + 1] = IF j + 1 = waited + 1 THEN "reaped" ELSE cpc[j + 1]
    BY <1>1, <1>4 DEF WaitStage, GaveUp, IInv, TableInv, TypeOK
  <2>2. QED
    BY <2>1, LineStep DEF ReaderHadItsTurn, Alive
<1>5. CASE ~Shell
  <2>1. /\ pc' = pc /\ pidCount' = pidCount
        /\ \/ cpc'[j + 1] = cpc[j + 1]
           \/ Alive(j + 1) /\ Alive(j + 1)'
           \/ Alive(j + 1) /\ cpc'[j + 1] = "zombie"
    BY <1>1, <1>5, NextCases, OthersStep DEF shell
  <2>2. QED
    BY <2>1, LineStep DEF ReaderHadItsTurn, GaveUp, Alive
<1>6. QED
  BY <1>2, <1>3, <1>4, <1>5

LEMMA BrokenPipeStep ==
  ASSUME IInv, [Next]_vars
  PROVE  BrokenPipeOnlyAfterReader'
<1>1. /\ Last \in Nat /\ Stage = 1 .. Last
  BY LineFacts DEF IInv, TableInv, TypeOK
<1> DEFINE B(j) == ending[j].sig = SIGPIPE => j < Last /\ ReaderHadItsTurn(j)
<1>2. \A j \in Stage : B(j)
  BY DEF IInv, BrokenPipeOnlyAfterReader, ReaderHadItsTurn
<1> SUFFICES ASSUME NEW j \in Stage PROVE B(j)'
  BY LineStep DEF BrokenPipeOnlyAfterReader, ReaderHadItsTurn
<1>3. CASE ending'[j] = ending[j]
  BY <1>2, <1>3, TurnStays, LineStep
<1>4. CASE WriteBroken(j)
  <2>1. /\ cpc[j] = "writing" /\ Output(j).kind = "write"
        /\ ~HeldBySomeone(ReadEnd(Output(j).pipe))
    BY <1>4 DEF WriteBroken
  <2>2. j < Last /\ Output(j) = WriteEnd(j)
    BY <2>1, RunningEnds DEF Plumbed, Alive
  <2>3. ~HeldBySomeone(ReadEnd(j))
    BY <2>1, <2>2, Targets
  <2>4. ReaderHadItsTurn(j)
    BY <2>1, <2>2, <2>3, ReadEndHeld
  <2>5. QED
    BY <2>2, <2>4, TurnStays, LineStep
<1>5. CASE ending'[j] # ending[j] /\ ~WriteBroken(j)
  <2>1. ending'[j].sig # SIGPIPE
    <3>1. CASE Shell
      BY <1>5, <3>1 DEF Shell, Enter, DupFails, BeginStage, BeginLastStage,
         PipeFails, Fork, ForkFails, Attach, AttachLast, GiveUp, Cleanup,
         WaitStage, Report, Rearm, Restore, children
    <3>2. CASE \E k \in Stage : Child(k) \/ ReadTty(k)
      <4>1. PICK k \in Stage : Child(k) \/ ReadTty(k)
        BY <3>2
      <4>2. CASE k # j
        BY <1>5, <4>1, <4>2
        DEF Child, ResetSignals, Plumb, Redirect, RedirectFails, Refuse, Start,
            ReadPipe, ReadEof, Write, WriteBroken, Exit, ReadTty, Ends, IInv,
            TableInv, TypeOK
      <4>3. CASE k = j
        BY <1>5, <4>1, <4>3
        DEF Child, ResetSignals, Plumb, Redirect, RedirectFails, Refuse, Start,
            ReadPipe, ReadEof, Write, Exit, ReadTty, Ends, IInv, TableInv,
            TypeOK, SIGPIPE
      <4>4. QED
        BY <4>2, <4>3
    <3>3. CASE \E s \in {SIGINT, SIGQUIT} : Signal(s)
      BY <1>5, <3>3 DEF Signal, SIGINT, SIGQUIT, SIGPIPE
    <3>4. CASE UNCHANGED vars
      BY <1>5, <3>4 DEF vars, children
    <3>5. QED
      BY <3>1, <3>2, <3>3, <3>4, NextCases
  <2>2. QED
    BY <2>1
<1>6. QED
  BY <1>3, <1>4, <1>5

-----------------------------------------------------------------------------
(***************************************************************************)
(* The invariant is inductive.                                             *)
(***************************************************************************)
LEMMA InitInv == Init => IInv
<1> SUFFICES ASSUME Init PROVE IInv
  OBVIOUS
<1>1. TypeOK
  BY InitType
<1>2. Last \in Nat /\ Last > 0 /\ Stage = 1 .. Last
  BY LineFacts DEF Init
<1>3. ShellInv
  <2>1. PICK left \in Leftovers : fd = PromptTable(left)
    BY DEF Init
  <2>2. TerminalKept
    BY <2>1, FdFacts DEF PromptTable, TerminalKept
  <2>3. OnlySpare({})
    BY <2>1, FdFacts DEF PromptTable, OnlySpare, Spare
  <2>4. QED
    BY <2>2, <2>3 DEF Init, ShellInv, AtEnter, AtIter, AtFork, AtFail, AtCleanup,
       AtWait, AtRestore, AtEnd, StalePipe
<1>4. ChildInv /\ StageIsolation
  BY DEF Init, ChildInv, StageIsolation, Plumbed, Alive
<1>5. BornInv /\ WaitedInv
  BY <1>2 DEF Init, BornInv, Forked, WaitedInv
<1>6. EndedInv /\ StatusInv
  BY DEF Init, EndedInv, StatusInv, StatusIsLastStage
<1>7. BrokenPipeOnlyAfterReader
  BY DEF Init, BrokenPipeOnlyAfterReader, NoEnding, SIGPIPE
<1>8. QED
  BY <1>1, <1>3, <1>4, <1>5, <1>6, <1>7 DEF IInv, TableInv

LEMMA NextInv == IInv /\ [Next]_vars => IInv'
<1> SUFFICES ASSUME IInv, [Next]_vars PROVE IInv'
  OBVIOUS
<1>1. TypeOK'
  <2>1. CASE UNCHANGED vars
    BY <2>1 DEF IInv, TableInv, TypeOK, vars, shell, children, Stage, Last
  <2>2. QED
    BY <2>1, NextCases, ShellType, ChildType, SignalType
<1>2. QED
  BY <1>1, ShellStep, ChildTables, BornStep, WaitedStep, EndedStep, StatusStep,
     BrokenPipeStep
  DEF IInv, TableInv

(* The descriptor tables, the births and endings and the status register   *)
(* are as the invariant says in every reachable state.                     *)
THEOREM Invariance == Spec => []IInv
BY InitInv, NextInv, PTL DEF Spec

(* TypeOK, for every instance: no descriptor number of the fork loop is    *)
(* ever outside the table, and no child leaves its program.                *)
THEOREM TypeCorrect == Spec => []TypeOK
BY Invariance, PTL DEF IInv, TableInv

(***************************************************************************)
(* However many stages a line has and wherever its execution fails, the    *)
(* shell keeps its terminal.                                               *)
(***************************************************************************)
THEOREM TerminalIsKept == Spec => []TerminalKept
<1>1. IInv => TerminalKept
  BY DEF IInv, TableInv, ShellInv
<1>2. QED
  BY <1>1, Invariance, PTL

(* The numbers the fork loop closes never hit a backup or the next pipe.   *)
THEOREM LoopKeepsItsOwn == Spec => [](BackupHeld /\ ChainHeld)
<1>1. IInv => BackupHeld /\ ChainHeld
  <2> SUFFICES ASSUME IInv PROVE BackupHeld /\ ChainHeld
    OBVIOUS
  <2>1. ChainHeld
    BY ShellFacts DEF ChainHeld, IInv, TableInv, ShellInv, AtIter, StalePipe
  <2>2. CASE pc \in {"fork", "attach"}
    BY <2>1, <2>2, ForkFacts DEF BackupHeld
  <2>3. CASE pc \notin {"fork", "attach"}
    BY <2>1, <2>3 DEF BackupHeld, IInv, TableInv, ShellInv, AtIter, AtCleanup,
       AtWait, Backup
  <2>4. QED
    BY <2>2, <2>3
<1>2. QED
  BY <1>1, Invariance, PTL

(* Every stage that runs has its own ends of its own pipes and no other.   *)
THEOREM StagesAreIsolated == Spec => []StageIsolation
<1>1. IInv => StageIsolation
  BY DEF IInv, TableInv
<1>2. QED
  BY <1>1, Invariance, PTL

(* The shell waits with no pipe open and comes back without a leak, except *)
(* for the read end that a fork failing in the middle of a line leaves.    *)
THEOREM NothingLeaks == Spec => []NoDescriptorLeak
<1>1. IInv => NoDescriptorLeak
  <2> SUFFICES ASSUME IInv PROVE NoDescriptorLeak
    OBVIOUS
  <2>1. ASSUME pc \in {"wait", "report", "rearm"} PROVE NoPipeHeld
    <3>1. Backup /\ OnlySpare({savedStdin}) /\ TerminalKept
      BY <2>1 DEF IInv, TableInv, ShellInv, AtWait
    <3>2. \A f \in Fd : fd[f] \in {Tty, Closed, Leftover}
      BY <3>1, ShellFacts, FdFacts DEF Backup, OnlySpare, Spare, TerminalKept
    <3>3. QED
      BY <3>2, Targets DEF NoPipeHeld
  <2>2. ASSUME pc = "prompt", NEW f \in Fd, f > 2
        PROVE  fd[f] \in {Closed, Leftover} \/ LeakedByFailedFork(f)
    BY <2>2 DEF IInv, TableInv, ShellInv, AtEnd, OnlySpare, Spare, Orphaned,
                LeakedByFailedFork
  <2>3. QED
    BY <2>1, <2>2 DEF NoDescriptorLeak
<1>2. QED
  BY <1>1, Invariance, PTL

(* The status of the line is the status of its last stage.                 *)
THEOREM StatusOfLine == Spec => []StatusIsLastStage
<1>1. IInv => StatusIsLastStage
  BY DEF IInv, StatusInv
<1>2. QED
  BY <1>1, Invariance, PTL

(* A line whose stages were all started leaves no zombie.                  *)
THEOREM AllAreWaitedFor == Spec => []NoZombie
<1>1. IInv => NoZombie
  BY LineFacts DEF IInv, WaitedInv, NoZombie, TableInv, TypeOK
<1>2. QED
  BY <1>1, Invariance, PTL

(* A broken pipe is never due to the shell's own bookkeeping.              *)
THEOREM BrokenPipes == Spec => []BrokenPipeOnlyAfterReader
<1>1. IInv => BrokenPipeOnlyAfterReader
  BY DEF IInv
<1>2. QED
  BY <1>1, Invariance, PTL

(* Nor is an end of file.                                                  *)
THEOREM EndsOfFile == Spec => EofOnlyAfterWriter
<1> DEFINE A == \A j \in Stage : ReadsEof(j) =>
                  \/ cpc[j - 1] \in {"zombie", "reaped"}
                  \/ line[j - 1].redir = "out"
<1>1. IInv /\ [Next]_vars => [A]_vars
  <2> SUFFICES ASSUME IInv, [Next]_vars, NEW j \in Stage, ReadsEof(j)
               PROVE  \/ cpc[j - 1] \in {"zombie", "reaped"}
                      \/ line[j - 1].redir = "out"
    OBVIOUS
  <2>1. /\ Last \in Nat /\ Stage = 1 .. Last
        /\ j > 1 /\ j - 1 \in Stage /\ Input(j) = ReadEnd(j - 1)
    BY RunningEnds, LineFacts
    DEF ReadsEof, Plumbed, Alive, IInv, TableInv, TypeOK
  <2>2. ReadEof(j)
    <3>1. cpc[j] = "reading" /\ cpc'[j] = "done" /\ Input(j).kind = "read"
      BY DEF ReadsEof
    <3>2. ~Shell
      BY <3>1 DEF Shell, Enter, DupFails, BeginStage, BeginLastStage, PipeFails,
         Fork, ForkFails, Attach, AttachLast, GiveUp, Cleanup, WaitStage, Report,
         Rearm, Restore, children, IInv, TableInv, TypeOK
    <3>3. ~(\E s \in {SIGINT, SIGQUIT} : Signal(s)) /\ ~UNCHANGED vars
      BY <3>1 DEF Signal, vars, children
    <3>4. PICK k \in Stage : Child(k) \/ ReadTty(k)
      BY <3>2, <3>3, NextCases
    <3>5. k = j
      BY <3>1, <3>4 DEF Child, ResetSignals, Plumb, Redirect, RedirectFails,
         Refuse, Start, ReadPipe, ReadEof, Write, WriteBroken, Exit, ReadTty,
         Ends, IInv, TableInv, TypeOK
    <3>6. ~ReadTty(j)
      BY <3>1, Targets DEF ReadTty
    <3>7. QED
      BY <3>1, <3>4, <3>5, <3>6
      DEF Child, ResetSignals, Plumb, Redirect, RedirectFails, Refuse, Start,
          ReadPipe, Write, WriteBroken, Exit, Ends, IInv, TableInv, TypeOK
  <2>3. ~HeldBySomeone(WriteEnd(j - 1))
    BY <2>1, <2>2, Targets DEF ReadEof, AtEndOfInput
  <2>4. cpc[j - 1] # "unborn"
    <3>1. cpc[j] # "unborn"
      BY DEF ReadsEof
    <3>2. ~(j > Forked) /\ Forked \in Int
      BY <3>1, ShellFacts DEF IInv, BornInv, Forked, TableInv, TypeOK
    <3>3. QED
      BY <2>1, <3>2 DEF IInv, BornInv
  <2>5. QED
    BY <2>1, <2>3, <2>4, WriteEndHeld DEF Alive
<1>2. QED
  BY <1>1, Invariance, PTL DEF Spec, EofOnlyAfterWriter

-----------------------------------------------------------------------------
(***************************************************************************)
(* Pipeline implements PipelineSpec.                                       *)
(***************************************************************************)
LEMMA Endings ==
  ASSUME IInv
  PROVE  /\ ending \in [Stage -> Line!Ending \cup {Line!Live}]
         /\ \A j \in Stage : (ending[j] = Line!Live) <=>
                             cpc[j] \notin {"zombie", "reaped"}
<1>1. Line!Live = NoEnding /\ Line!Ending = [sig : Nat, code : Nat]
  BY DEF Line!Live, NoEnding, Line!Ending
<1>2. NoEnding \notin [sig : Nat, code : Nat]
  BY DEF NoEnding
<1>3. DOMAIN ending = Stage /\ ending = [j \in Stage |-> ending[j]]
  BY DEF IInv, TableInv, TypeOK
<1>4. \A j \in Stage : ending[j] \in Line!Ending \cup {Line!Live}
  BY <1>1 DEF IInv, EndedInv
<1>5. QED
  BY <1>1, <1>2, <1>3, <1>4 DEF IInv, EndedInv

LEMMA InitRefines == Init => Line!SpecInit
BY LineFacts DEF Init, Line!SpecInit, Line!Live, NoEnding, Line!NoResult,
   Collected, Stage

(* The steps of the shell that PipelineSpec does not see. *)
LEMMA QuietSteps ==
  ASSUME IInv,
         \/ Enter \/ DupFails \/ BeginStage \/ BeginLastStage \/ PipeFails
         \/ Fork \/ ForkFails \/ Attach \/ AttachLast \/ GiveUp \/ Cleanup
         \/ WaitStage \/ Rearm
  PROVE  UNCHANGED Line!specVars
<1>1. [Next]_vars
  BY DEF Next, Shell
<1>2. ending' = ending
  BY DEF Enter, DupFails, BeginStage, BeginLastStage, PipeFails, Fork, ForkFails,
     Attach, AttachLast, GiveUp, Cleanup, WaitStage, Rearm, children
<1>3. CASE Rearm
  BY <1>1, <1>2, <1>3, LineStep DEF Rearm, Line!specVars, Collected, shell
<1>4. CASE ~Rearm
  <2>1. pc \notin {"rearm", "restore", "prompt"} /\ pc' \notin {"rearm", "prompt"}
    BY <1>4 DEF Enter, DupFails, BeginStage, BeginLastStage, PipeFails, Fork,
       ForkFails, Attach, AttachLast, GiveUp, Cleanup, WaitStage
  <2>2. pc' = "restore" => pidCount' # Last'
    <3>1. pc' = "restore" => GiveUp
      BY <1>4 DEF Enter, DupFails, BeginStage, BeginLastStage, PipeFails, Fork,
         ForkFails, Attach, AttachLast, GiveUp, Cleanup, WaitStage
    <3>2. GiveUp => pidCount # Last /\ pidCount' = pidCount
      BY ShellFacts DEF GiveUp, shell, IInv, TableInv, ShellInv, AtFail
    <3>3. QED
      BY <1>1, <3>1, <3>2, LineStep
  <2>3. QED
    BY <1>1, <1>2, <2>1, <2>2, LineStep DEF Line!specVars, Collected
<1>5. QED
  BY <1>3, <1>4

LEMMA ReportCollects ==
  ASSUME IInv, Report
  PROVE  Line!Collect
<1>1. [Next]_vars
  BY DEF Next, Shell
<1>2. /\ pc = "report" /\ pc' = "rearm" /\ pidCount = Last
      /\ pidCount' = pidCount /\ ending' = ending /\ line' = line /\ Last' = Last
      /\ waited = Last
  BY <1>1, LineStep DEF Report, shell, children, IInv, TableInv, ShellInv, AtWait,
     WaitedInv
<1>3. \A j \in 1 .. Last : ending[j] # Line!Live
  <2>1. Stage = 1 .. Last /\ Last \in Nat
    BY LineFacts DEF Stage, IInv, TableInv, TypeOK
  <2>2. \A j \in Stage : cpc[j] = "reaped"
    BY <1>2, <2>1 DEF IInv, WaitedInv
  <2>3. QED
    BY <2>1, <2>2, Endings DEF IInv
<1>4. status' = Line!Decode(ending[Last])
  BY <1>1, <1>2, StatusStep DEF StatusInv, StatusIsLastStage, Line!Decode
<1>5. QED
  BY <1>2, <1>3, <1>4 DEF Line!Collect, Collected

LEMMA RestoreShows ==
  ASSUME IInv, Restore
  PROVE  Line!ShowPrompt \/ Line!GiveUpLine
<1>1. [Next]_vars
  BY DEF Next, Shell
<1>2. /\ pc = "restore" /\ pc' = "prompt" /\ status' = status
      /\ pidCount' = pidCount /\ ending' = ending /\ Last' = Last
  BY <1>1, LineStep DEF Restore, shell, children
<1>3. CASE pidCount = Last
  BY <1>2, <1>3 DEF Line!ShowPrompt, Collected
<1>4. CASE pidCount # Last
  <2>1. Last \in Stage /\ Last > Forked
    BY <1>2, <1>4, LineFacts DEF Forked, IInv, TableInv, TypeOK
  <2>2. ending[Last] = Line!Live
    BY <2>1, Endings DEF IInv, BornInv
  <2>3. QED
    BY <1>2, <1>4, <2>2 DEF Line!GiveUpLine, Collected
<1>5. QED
  BY <1>3, <1>4

LEMMA OthersRefine ==
  ASSUME IInv,
         \/ \E j \in Stage : Child(j) \/ ReadTty(j)
         \/ \E s \in {SIGINT, SIGQUIT} : Signal(s)
         \/ UNCHANGED vars
  PROVE  Line!SpecNext \/ UNCHANGED Line!specVars
<1>1. [Next]_vars /\ IInv'
  BY NextInv DEF Next
<1>2. /\ pc' = pc /\ pidCount' = pidCount /\ Last' = Last /\ Stage' = Stage
      /\ Stage = 1 .. Last /\ Last \in Nat
      /\ status' \in {status, 130}
      /\ pc \in {"rearm", "prompt"} => status' = status
  BY <1>1, OthersStep, LineStep, LineFacts DEF shell, IInv, TableInv, TypeOK
<1>3. /\ ending' \in [Stage -> Line!Ending \cup {Line!Live}]
      /\ \A j \in Stage : ending'[j] # ending[j] => ending[j] = Line!Live
  <2>1. ending' \in [Stage -> Line!Ending \cup {Line!Live}]
    <3>1. \A j \in Stage : ending'[j] \in Line!Ending \cup {Line!Live}
      <4>1. Line!Live = NoEnding /\ Line!Ending = [sig : Nat, code : Nat]
        BY DEF Line!Live, NoEnding, Line!Ending
      <4>2. QED
        BY <1>1, <1>2, <4>1 DEF IInv, EndedInv
    <3>2. ending' = [j \in Stage |-> ending'[j]]
      BY <1>1, <1>2 DEF IInv, TableInv, TypeOK
    <3>3. QED
      BY <3>1, <3>2
  <2>2. \A j \in Stage : ending'[j] # ending[j] => Alive(j)
    BY OthersStep
  <2>3. QED
    BY <2>1, <2>2, Endings DEF Alive
<1>4. CASE Collected
  <2>1. waited = Last
    BY <1>4 DEF Collected, IInv, WaitedInv
  <2>2. \A j \in Stage : cpc[j] = "reaped"
    BY <1>2, <2>1 DEF IInv, WaitedInv
  <2>3. \A j \in Stage : ending'[j] = ending[j]
    BY <1>3, <2>2, Endings
  <2>4. ending' = ending
    BY <1>1, <1>2, <2>3 DEF IInv, TableInv, TypeOK
  <2>5. CASE status' = status
    BY <1>2, <2>4, <2>5 DEF Line!specVars, Collected
  <2>6. CASE status' = 130 /\ pc = "restore"
    BY <1>2, <1>4, <2>4, <2>6 DEF Line!SpecNext, Line!Interrupted, Collected
  <2>7. QED
    BY <1>2, <1>4, <2>5, <2>6 DEF Collected
<1>5. CASE ~Collected
  <2>1. UNCHANGED <<pc, pidCount>> /\ Last' = Last
        /\ (pc = "prompt" => status' = status)
    BY <1>2
  <2>2. Line!StagesEnd
    BY <1>2, <1>3, <1>5, <2>1 DEF Line!StagesEnd, Collected
  <2>3. QED
    BY <2>2 DEF Line!SpecNext
<1>6. QED
  BY <1>4, <1>5

(* The executor keeps what PipelineSpec promises: the prompt comes back    *)
(* after the last stage to end, with the status of the last stage, or the  *)
(* last stage was never started.                                           *)
THEOREM Implements == Spec => KeepsPromise
<1>1. IInv /\ [Next]_vars => [Line!SpecNext]_(Line!specVars)
  <2> SUFFICES ASSUME IInv, [Next]_vars
               PROVE  Line!SpecNext \/ UNCHANGED Line!specVars
    OBVIOUS
  <2>1. CASE Report
    BY <2>1, ReportCollects DEF Line!SpecNext
  <2>2. CASE Restore
    BY <2>2, RestoreShows DEF Line!SpecNext
  <2>3. CASE Shell /\ ~Report /\ ~Restore
    BY <2>3, QuietSteps DEF Shell
  <2>4. CASE ~Shell
    BY <2>4, NextCases, OthersRefine
  <2>5. QED
    BY <2>1, <2>2, <2>3, <2>4
<1>2. QED
  BY <1>1, InitRefines, Invariance, PTL DEF Spec, KeepsPromise, Line!AbstractSpec

=============================================================================
