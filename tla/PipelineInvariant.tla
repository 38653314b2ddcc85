------------------------- MODULE PipelineInvariant --------------------------
(***************************************************************************)
(* The inductive invariant of Pipeline: what the descriptor tables of the  *)
(* shell and of its children hold at every place of the fork loop, and     *)
(* which of the descriptor numbers it keeps are stale.                     *)
(***************************************************************************)
EXTENDS Pipeline

(* A descriptor the line has nothing to do with. *)
Spare(t, f) == t[f] \in {Closed, Leftover}

(* The shell's descriptor numbers as a child copies them. *)
Numbers == [prev |-> prevFd, pipe |-> pipeFd, save |-> save,
            saved |-> savedStdin]

(***************************************************************************)
(* The table t when stage j is forked, with the numbers p: the terminal,   *)
(* both backups of it, the read end of the pipe before the stage, and both *)
(* ends of the pipe after it.                                              *)
(***************************************************************************)
ForkTerminal(t, p) ==
  /\ \A f \in 0 .. 2 : t[f] = Tty
  /\ p.save \in Fd /\ p.save > 2 /\ t[p.save] = Tty
  /\ p.saved # NoFd => /\ p.saved \in Fd /\ p.saved > 2 /\ t[p.saved] = Tty
                       /\ p.saved # p.save

ForkPipes(t, j, p) ==
  /\ j = 1 => p.prev = NoFd
  /\ j > 1 => p.prev \in Fd /\ p.prev > 2 /\ t[p.prev] = ReadEnd(j - 1)
  /\ j < Last => /\ p.pipe.r > 2 /\ t[p.pipe.r] = ReadEnd(j)
                 /\ p.pipe.w > 2 /\ t[p.pipe.w] = WriteEnd(j)

ForkRest(t, j, p) ==
  \A f \in Fd : f > 2 =>
    \/ Spare(t, f)
    \/ f \in {p.save, p.saved, p.prev}
    \/ j < Last /\ f \in {p.pipe.r, p.pipe.w}

ForkTable(t, j, p) == ForkTerminal(t, p) /\ ForkPipes(t, j, p) /\ ForkRest(t, j, p)

(***************************************************************************)
(* The numbers of the pipe before, which the shell closes once more after  *)
(* the last stage: the write end is free, and stays free because a lower   *)
(* number is free, which the next backup of standard input takes.          *)
(***************************************************************************)
StalePipe ==
  IF curr = 1 THEN prevFd = NoFd /\ pipeFd = [r |-> 0, w |-> 0]
  ELSE /\ prevFd = pipeFd.r
       /\ prevFd > 2
       /\ pipeFd.w > 2
       /\ fd[pipeFd.w] = Closed

(* The backup of standard input for the line. *)
Backup == savedStdin # NoFd =>
  savedStdin \in Fd /\ savedStdin > 2 /\ fd[savedStdin] = Tty

SpentBackup == savedStdin # NoFd =>
  savedStdin \in Fd /\ savedStdin > 2 /\ fd[savedStdin] \in {Tty, Closed}

OnlySpare(S) == \A f \in Fd : f > 2 => f \in S \/ Spare(fd, f)

(* The read end a failed fork leaves open. *)
Orphaned ==
  /\ fails > 0
  /\ pidCount \in 1 .. Last - 2
  /\ prevFd \in Fd
  /\ fd[prevFd] = ReadEnd(pidCount)

AtEnter ==
  pc = "enter" => /\ OnlySpare({})
                  /\ curr = 1 /\ pidCount = 0 /\ StalePipe

AtIter ==
  pc = "iter" =>
    /\ Backup
    /\ OnlySpare({savedStdin, prevFd})
    /\ pidCount = curr - 1
    /\ StalePipe
    /\ curr > 1 => /\ fd[prevFd] = ReadEnd(curr - 1)
                   /\ \E g \in Fd : g < pipeFd.w /\ fd[g] = Closed

AtFork ==
  pc \in {"fork", "attach"} =>
    /\ ForkTable(fd, curr, Numbers)
    /\ pidCount = curr - 1
    /\ curr < Last => save < pipeFd.w
    /\ curr = Last => StalePipe

AtFail ==
  pc = "fail" =>
    /\ SpentBackup
    /\ OnlySpare({savedStdin, prevFd, pipeFd.r, pipeFd.w})
    /\ pidCount = curr - 1
    /\ \/ pipeFd = [r |-> 0, w |-> 0]
       \/ pipeFd.r > 2 /\ pipeFd.w > 2
    /\ \/ prevFd = NoFd
       \/ prevFd = pipeFd.r
       \/ Orphaned /\ prevFd \notin {savedStdin, pipeFd.r, pipeFd.w}

AtCleanup ==
  pc = "cleanup" =>
    /\ Backup
    /\ OnlySpare({savedStdin})
    /\ StalePipe
    /\ pidCount = Last
    /\ curr > 1 => fd[prevFd] = Closed

AtWait ==
  pc \in {"wait", "report", "rearm"} =>
    Backup /\ OnlySpare({savedStdin}) /\ pidCount = Last

AtRestore ==
  pc = "restore" =>
    /\ SpentBackup
    /\ \/ OnlySpare({savedStdin})
       \/ Orphaned /\ prevFd # savedStdin /\ OnlySpare({savedStdin, prevFd})

AtEnd ==
  pc = "prompt" =>
    \/ OnlySpare({})
    \/ Orphaned /\ OnlySpare({prevFd})

ShellInv ==
  /\ TerminalKept
  /\ AtEnter /\ AtIter /\ AtFork /\ AtFail
  /\ AtCleanup /\ AtWait /\ AtRestore /\ AtEnd

(* A child before it has closed what it inherited, and after. *)
ChildInv ==
  \A j \in Stage : cpc[j] \in {"forked", "plumb"} =>
    ForkTable(cfd[j], j, cparams[j])

TableInv == TypeOK /\ ShellInv /\ ChildInv /\ StageIsolation

(***************************************************************************)
(* Which stages were born, waited for, and ended, and what of it the       *)
(* status register holds.                                                  *)
(***************************************************************************)
Forked == IF pc = "attach" THEN curr ELSE pidCount

BornInv == \A j \in Stage : cpc[j] = "unborn" <=> j > Forked

WaitedInv ==
  /\ \A j \in Stage : cpc[j] = "reaped" <=> j <= waited
  /\ pc \in {"enter", "iter", "fork", "attach", "fail", "cleanup"} => waited = 0
  /\ pc = "wait" => waited < Last
  /\ pc \in {"report", "rearm"} => waited = Last
  /\ pc \in {"restore", "prompt"} /\ pidCount = Last => waited = Last

EndedInv ==
  \A j \in Stage : IF cpc[j] \in {"zombie", "reaped"}
                   THEN ending[j] \in [sig : Nat, code : Nat]
                   ELSE ending[j] = NoEnding

StatusInv ==
  /\ pc = "report" => status = IF ending[Last].sig = 0
                               THEN ending[Last].code ELSE 0
  /\ StatusIsLastStage

IInv ==
  /\ TableInv
  /\ BornInv /\ WaitedInv /\ EndedInv /\ StatusInv
  /\ BrokenPipeOnlyAfterReader

=============================================================================
