---------------------------- MODULE BuiltinProofs ----------------------------
(***************************************************************************)
(* Proofs about Builtin, for every list of redirections, every argument of *)
(* exit, any descriptor limit and any number of interrupts.                *)
(***************************************************************************)
EXTENDS Builtin, ShellTablesProofs

(* A file a redirection opened is told apart from the rest by its number. *)
LEMMA OpenedFacts ==
  /\ \A k \in Nat : Opened(k) \in Target
  /\ \A k : Opened(k) # Tty /\ Opened(k) # Closed
  /\ Opened(temp).kind = "file"
BY DEF Opened, Target, Tty, Closed

(* The last redirection of some types leaves a descriptor open. *)
LEMMA LastIsOpen ==
  ASSUME NEW target, NEW types, IsLast(target, types)
  PROVE  target # Closed
BY OpenedFacts, Targets DEF IsLast

(* One more redirection made. *)
LEMMA MadeNext ==
  ASSUME TypeOK, temp <= Len(redirs), temp' = temp + 1, redirs' = redirs,
         NEW types
  PROVE  /\ redirs[temp].type \in types => Made(types)' = Made(types) \cup {temp}
         /\ redirs[temp].type \notin types => Made(types)' = Made(types)
         /\ \A h \in Made(types) : h <= temp
         /\ temp \in Nat /\ temp \in 1 .. Len(redirs)
<1>1. Len(redirs) \in Nat /\ temp \in Nat /\ temp \in 1 .. Len(redirs)
  BY BuiltinAssumption DEF TypeOK
<1>2. QED
  BY <1>1 DEF Made

(* A file is opened at a free number and moved to a standard descriptor:   *)
(* that descriptor changes and no other.                                   *)
LEMMA RedirectedType ==
  ASSUME NEW t \in Table, NEW f, IsLowestFree(t, f), NEW to \in {0, 1},
         temp \in Nat, \A g \in 0 .. 2 : t[g] # Closed
  PROVE  /\ Redirected(t, f, to) \in Table
         /\ \A g \in Fd : Redirected(t, f, to)[g] =
              IF g = to THEN Opened(temp) ELSE t[g]
         /\ f \in Fd /\ f > 2 /\ t[f] = Closed
BY OpenedFacts, MovedType DEF Redirected

(* Closing the number of an earlier input again closes nothing. *)
LEMMA StaleIsFree ==
  ASSUME TypeOK, fdIn # NoFd => fdIn > 2 /\ fd[fdIn] = Closed
  PROVE  CloseStale \in Table /\ \A g \in Fd : CloseStale[g] = fd[g]
<1>1. fd \in Table /\ fdIn \in Fd \cup {NoFd}
  BY DEF TypeOK
<1>2. /\ CloseAbove2(fd, fdIn) \in Table
      /\ \A g \in Fd : CloseAbove2(fd, fdIn)[g] =
           IF fdIn > 2 /\ g = fdIn THEN Closed ELSE fd[g]
  BY <1>1, CloseAbove2Type
<1>3. QED
  BY <1>1, <1>2, FdFacts DEF CloseStale

(* Both descriptors come back from their backups. *)
LEMMA UndoType ==
  ASSUME NEW t \in Table,
         savedStdout1 # NoFd => savedStdout1 > 2, savedStdin1 # NoFd => savedStdin1 > 2,
         savedStdout1 \in Fd \cup {NoFd}, savedStdin1 \in Fd \cup {NoFd}
  PROVE  /\ Undo(t) \in Table
         /\ \A g \in Fd : Undo(t)[g] =
              IF g \in {savedStdout1, savedStdin1} THEN Closed
              ELSE IF g = 1 /\ IsOpen(t, savedStdout1) THEN t[savedStdout1]
              ELSE IF g = 0 /\ IsOpen(t, savedStdin1) THEN t[savedStdin1]
              ELSE t[g]
<1> DEFINE a == Dup2(t, savedStdout1, 1)
           b == Dup2(a, savedStdin1, 0)
           c == Close(b, savedStdout1)
<1>1. /\ a \in Table
      /\ \A g \in Fd : a[g] = IF IsOpen(t, savedStdout1) /\ g = 1
                              THEN t[savedStdout1] ELSE t[g]
  BY Dup2Type
<1>2. IsOpen(a, savedStdin1) <=> IsOpen(t, savedStdin1)
  <2>1. savedStdin1 # 1
    BY DEF NoFd
  <2>2. QED
    BY <1>1, <2>1 DEF IsOpen
<1>3. savedStdin1 \in Fd => a[savedStdin1] = t[savedStdin1]
  <2>1. savedStdin1 # 1
    BY DEF NoFd
  <2>2. QED
    BY <1>1, <2>1
<1> HIDE DEF a
<1>4. /\ b \in Table
      /\ \A g \in Fd : b[g] = IF IsOpen(a, savedStdin1) /\ g = 0
                              THEN a[savedStdin1] ELSE a[g]
  BY <1>1, Dup2Type
<1> HIDE DEF b
<1>5. /\ c \in Table
      /\ \A g \in Fd : c[g] = IF g = savedStdout1 THEN Closed ELSE b[g]
  BY <1>4, CloseType
<1> HIDE DEF c
<1>6. /\ Close(c, savedStdin1) \in Table
      /\ \A g \in Fd : Close(c, savedStdin1)[g] =
           IF g = savedStdin1 THEN Closed ELSE c[g]
  BY <1>5, CloseType
<1>7. Undo(t) = Close(c, savedStdin1)
  BY DEF Undo, c, b, a
<1>8. IsOpen(t, savedStdin1) => savedStdin1 \in Fd
  BY DEF IsOpen
<1>9. QED
  BY <1>1, <1>2, <1>3, <1>4, <1>5, <1>6, <1>7, <1>8

-----------------------------------------------------------------------------
(* The invariant holds at the start of a line. *)
LEMMA InitInv == Init => BInv
<1> SUFFICES ASSUME Init PROVE BInv
  OBVIOUS
<1>1. PICK left \in Leftovers : fd = PromptTable(left)
  BY DEF Init
<1>2. fd \in Table /\ OnTerminal /\ OnlySpare({})
  BY <1>1, TargetTypes, NumFdAssumption, BuiltinAssumption
  DEF PromptTable, Table, OnTerminal, OnlySpare, Fd
<1>3. Len(redirs) \in Nat
  BY BuiltinAssumption DEF Init
<1>4. TypeOK
  BY <1>2, <1>3, BuiltinAssumption DEF Init, TypeOK, Places
<1>5. AtStart /\ AtWork /\ AtEnd
  BY <1>2 DEF Init, AtStart, AtWork, AtEnd, Working, Fresh
<1>6. RunsOnItsFiles /\ StatusInv /\ StatusOfLine
  BY DEF Init, RunsOnItsFiles, StatusInv, StatusOfLine
<1>7. QED
  BY <1>4, <1>5, <1>6 DEF BInv

(* The first backup of standard input. *)
LEMMA EnterInv == BInv /\ Enter => BInv'
<1> SUFFICES ASSUME BInv, Enter PROVE BInv'
  OBVIOUS
<1>1. /\ fd \in Table /\ OnTerminal /\ OnlySpare({}) /\ Fresh
  BY DEF BInv, TypeOK, AtStart, Enter
<1>2. /\ savedStdin' \in Fd \cup {NoFd}
      /\ fd' \in Table
      /\ savedStdin' = NoFd => fd' = fd
      /\ savedStdin' # NoFd => /\ savedStdin' > 2
                               /\ \A g \in Fd : fd'[g] = IF g = savedStdin' THEN Tty ELSE fd[g]
  BY <1>1, DupType DEF Enter, OnTerminal
<1>3. TypeOK'
  BY <1>2 DEF BInv, TypeOK, Enter, Places
<1>4. OnTerminal' /\ Fresh' /\ Held(savedStdin)' /\ OnlySpare({savedStdin})'
  BY <1>1, <1>2, FdFacts DEF OnTerminal, Fresh, Held, OnlySpare, Enter
<1>5. AtStart' /\ AtWork' /\ AtEnd'
  BY <1>4 DEF AtStart, AtWork, AtEnd, Working, Enter
<1>6. RunsOnItsFiles' /\ StatusInv' /\ StatusOfLine'
  BY DEF Enter, BInv, RunsOnItsFiles, StatusInv, StatusOfLine, Interrupted
<1>7. QED
  BY <1>3, <1>5, <1>6 DEF BInv
(* The backup of standard output, before anything is redirected. *)
LEMMA SaveStdoutInv == BInv /\ SaveStdout => BInv'
<1> SUFFICES ASSUME BInv, SaveStdout PROVE BInv'
  OBVIOUS
<1>1. /\ fd \in Table /\ OnTerminal /\ OnlySpare({savedStdin}) /\ Fresh
      /\ Held(savedStdin) /\ savedStdin \in Fd \cup {NoFd}
  BY DEF BInv, TypeOK, AtStart, SaveStdout
<1>2. /\ savedStdout1' \in Fd \cup {NoFd}
      /\ fd' \in Table
      /\ savedStdout1' = NoFd => fd' = fd
      /\ savedStdout1' # NoFd =>
           /\ savedStdout1' > 2 /\ fd[savedStdout1'] = Closed
           /\ \A g \in Fd : fd'[g] = IF g = savedStdout1' THEN Tty ELSE fd[g]
  BY <1>1, DupType DEF SaveStdout, OnTerminal
<1>3. savedStdout1' = NoFd => Full(fd)
  BY FdFacts DEF SaveStdout, Dup, IsLowestFree
<1>4. TypeOK'
  BY <1>2 DEF BInv, TypeOK, SaveStdout, Places
<1>5. savedStdout1' # savedStdin' \/ savedStdout1' = NoFd
  BY <1>1, <1>2, Targets DEF Held, SaveStdout
<1>6. OnTerminal' /\ Fresh' /\ Held(savedStdin)' /\ Held(savedStdout1)'
  BY <1>1, <1>2, FdFacts DEF OnTerminal, Fresh, Held, SaveStdout
<1>7. OnlySpare({savedStdin, savedStdout1})'
  BY <1>1, <1>2 DEF OnlySpare, SaveStdout
<1>8. AtStart' /\ AtWork' /\ AtEnd'
  BY <1>2, <1>3, <1>5, <1>6, <1>7
  DEF AtStart, AtWork, AtEnd, Working, SaveStdout, Full
<1>9. RunsOnItsFiles' /\ StatusInv' /\ StatusOfLine'
  BY DEF SaveStdout, BInv, RunsOnItsFiles, StatusInv, StatusOfLine, Interrupted
<1>10. QED
  BY <1>4, <1>8, <1>9 DEF BInv

(* The second backup of standard input: from here the table may change. *)
LEMMA SaveStdinInv == BInv /\ SaveStdin => BInv'
<1> SUFFICES ASSUME BInv, SaveStdin PROVE BInv'
  OBVIOUS
<1>1. /\ fd \in Table /\ OnTerminal /\ OnlySpare({savedStdin, savedStdout1})
      /\ Fresh /\ Held(savedStdin) /\ Held(savedStdout1)
      /\ savedStdin \in Fd \cup {NoFd} /\ savedStdout1 \in Fd \cup {NoFd}
      /\ savedStdout1 # savedStdin \/ savedStdout1 = NoFd
      /\ savedStdout1 = NoFd => Full(fd)
  BY DEF BInv, TypeOK, AtStart, SaveStdin
<1>2. /\ savedStdin1' \in Fd \cup {NoFd}
      /\ fd' \in Table
      /\ savedStdin1' = NoFd => fd' = fd
      /\ savedStdin1' # NoFd =>
           /\ savedStdin1' > 2 /\ fd[savedStdin1'] = Closed
           /\ \A g \in Fd : fd'[g] = IF g = savedStdin1' THEN Tty ELSE fd[g]
  BY <1>1, DupType DEF SaveStdin, OnTerminal
<1>3. savedStdin1' = NoFd => Full(fd)
  BY FdFacts DEF SaveStdin, Dup, IsLowestFree
<1>4. savedStdout1 = NoFd => savedStdin1' = NoFd
  BY <1>1, <1>2, FdFacts DEF Full
<1>5. TypeOK'
  BY <1>2 DEF BInv, TypeOK, SaveStdin, Places
<1>6. /\ savedStdin1' # savedStdin \/ savedStdin1' = NoFd
      /\ savedStdin1' # savedStdout1 \/ savedStdin1' = NoFd
  BY <1>1, <1>2, Targets DEF Held
<1>7. /\ OnTerminal' /\ Fresh'
      /\ Held(savedStdin)' /\ Held(savedStdout1)' /\ Held(savedStdin1)'
  BY <1>1, <1>2, FdFacts DEF OnTerminal, Fresh, Held, SaveStdin
<1>8. OnlySpare({savedStdin, savedStdout1, savedStdin1})'
  BY <1>1, <1>2 DEF OnlySpare, SaveStdin
<1>9. NoBackup' => Full(fd)'
  BY <1>2, <1>3, <1>4 DEF NoBackup, SaveStdin, Full
<1>10. IsLast(fd[0], {"in"})' /\ IsLast(fd[1], {"out", "append"})'
  BY <1>7 DEF IsLast, Made, Fresh, OnTerminal
<1>11. /\ fd'[2] = Tty /\ temp' = 1 /\ fdIn' = NoFd
       /\ savedStdin' = savedStdin /\ savedStdout1' = savedStdout1
  BY <1>7 DEF OnTerminal, Fresh, SaveStdin
<1>12. AtStart' /\ AtEnd'
  BY DEF AtStart, AtEnd, SaveStdin
<1>13. AtWork'
  BY <1>1, <1>6, <1>7, <1>8, <1>9, <1>10, <1>11 DEF AtWork
<1>14. RunsOnItsFiles' /\ StatusInv' /\ StatusOfLine'
  BY DEF SaveStdin, BInv, RunsOnItsFiles, StatusInv, StatusOfLine, Interrupted
<1>15. QED
  BY <1>5, <1>12, <1>13, <1>14 DEF BInv

-----------------------------------------------------------------------------
(***************************************************************************)
(* A redirection that is made changes one standard descriptor, so that the *)
(* backups stay where they are.                                            *)
(***************************************************************************)
LEMMA RedirectedInv ==
  ASSUME BInv, pc = "redir", temp <= Len(redirs), redirs' = redirs,
         pc' = pc, cmd' = cmd, temp' = temp + 1, status' = status,
         before' = before, ran' = ran, exited' = exited, sigs' = sigs,
         errno' = errno, savedStdin' = savedStdin,
         savedStdout1' = savedStdout1, savedStdin1' = savedStdin1,
         NEW to \in {0, 1}, NEW t \in Table, \A g \in Fd : t[g] = fd[g],
         NEW f, IsLowestFree(t, f), fd' = Redirected(t, f, to),
         fdIn' \in {fdIn, f}, fdOut' \in {fdOut, f},
         to = 0 <=> redirs[temp].type = "in",
         redirs[temp].type \in {"in", "out", "append"}
  PROVE  BInv'
<1>1. /\ TypeOK /\ fd \in Table /\ temp \in Nat
      /\ temp \in 1 .. Len(redirs) /\ Len(redirs) \in Nat
      /\ {savedStdin, savedStdout1, savedStdin1, fdIn, fdOut} \subseteq Fd \cup {NoFd}
  BY BuiltinAssumption DEF BInv, TypeOK
<1>2. AtWork /\ Working
  BY DEF BInv, Working
<1>3. fd[0] # Closed /\ fd[1] # Closed /\ fd[2] # Closed
  BY <1>2, LastIsOpen, Targets DEF AtWork
<1>4. \A g \in 0 .. 2 : t[g] # Closed
  BY <1>3, FdFacts
<1>5. /\ fd' \in Table
      /\ \A g \in Fd : fd'[g] = IF g = to THEN Opened(temp) ELSE t[g]
      /\ f \in Fd /\ f > 2 /\ t[f] = Closed
  BY <1>1, <1>4, RedirectedType
<1>6. \A g \in Fd : fd'[g] = IF g = to THEN Opened(temp) ELSE fd[g]
  BY <1>5
<1>7. ~NoBackup
  <2>1. ~Full(fd)
    BY <1>5 DEF Full
  <2>2. QED
    BY <1>2, <2>1 DEF AtWork
<1>8. TypeOK'
  BY <1>1, <1>5 DEF TypeOK, Places
<1>9. fd'[2] = Tty /\ Held(savedStdin)' /\ Held(savedStdout1)' /\ Held(savedStdin1)'
  <2>1. fd[2] = Tty /\ Held(savedStdin) /\ Held(savedStdout1) /\ Held(savedStdin1)
    BY <1>2 DEF AtWork
  <2>2. fd'[2] = Tty
    BY <1>6, <2>1, FdFacts
  <2>3. \A b \in Fd : b > 2 => fd'[b] = fd[b]
    BY <1>6, FdFacts
  <2>4. QED
    BY <2>1, <2>2, <2>3 DEF Held
<1>10. OnlySpare({savedStdin, savedStdout1, savedStdin1})'
  BY <1>2, <1>6, FdFacts DEF AtWork, OnlySpare
<1>11. fdIn' # NoFd => fdIn' > 2 /\ fd'[fdIn'] = Closed
  BY <1>1, <1>2, <1>5, <1>6, FdFacts DEF AtWork
<1>12. IsLast(fd[0], {"in"})'
  <2>1. CASE to = 0
    <3>1. Made({"in"})' = Made({"in"}) \cup {temp}
      BY <2>1, <1>1, MadeNext
    <3>2. \A h \in Made({"in"})' : h <= temp
      BY <3>1, <1>1, MadeNext
    <3>3. fd'[0] = Opened(temp)
      BY <2>1, <1>6, FdFacts
    <3>4. QED
      BY <3>1, <3>2, <3>3 DEF IsLast
  <2>2. CASE to = 1
    <3>1. Made({"in"})' = Made({"in"})
      BY <2>2, <1>1, MadeNext
    <3>2. fd'[0] = fd[0]
      BY <2>2, <1>6, FdFacts
    <3>3. QED
      BY <3>1, <3>2, <1>2 DEF IsLast, AtWork
  <2>3. QED
    BY <2>1, <2>2
<1>13. IsLast(fd[1], {"out", "append"})'
  <2>1. CASE to = 1
    <3>1. Made({"out", "append"})' = Made({"out", "append"}) \cup {temp}
      BY <2>1, <1>1, MadeNext
    <3>2. \A h \in Made({"out", "append"})' : h <= temp
      BY <3>1, <1>1, MadeNext
    <3>3. fd'[1] = Opened(temp)
      BY <2>1, <1>6, FdFacts
    <3>4. QED
      BY <3>1, <3>2, <3>3 DEF IsLast
  <2>2. CASE to = 0
    <3>1. Made({"out", "append"})' = Made({"out", "append"})
      BY <2>2, <1>1, MadeNext
    <3>2. fd'[1] = fd[1]
      BY <2>2, <1>6, FdFacts
    <3>3. QED
      BY <3>1, <3>2, <1>2 DEF IsLast, AtWork
  <2>3. QED
    BY <2>1, <2>2
<1>14. AtStart' /\ AtEnd'
  BY DEF AtStart, AtEnd
<1>15. ~NoBackup'
  BY <1>7 DEF NoBackup
<1>16. AtWork'
  BY <1>2, <1>9, <1>10, <1>11, <1>12, <1>13, <1>15 DEF AtWork
<1>17. RunsOnItsFiles' /\ StatusInv' /\ StatusOfLine'
  BY DEF BInv, RunsOnItsFiles, StatusInv, StatusOfLine, Interrupted
<1>18. QED
  BY <1>8, <1>14, <1>16, <1>17 DEF BInv

(* An input is opened after the number of the input before is closed. *)
LEMMA InputFileInv == BInv /\ InputFile => BInv'
<1> SUFFICES ASSUME BInv, InputFile PROVE BInv'
  OBVIOUS
<1>1. CloseStale \in Table /\ \A g \in Fd : CloseStale[g] = fd[g]
  BY StaleIsFree DEF BInv, AtWork, Working, InputFile, AtRedir
<1>2. PICK f \in Fd : /\ IsLowestFree(CloseStale, f)
                      /\ fdIn' = f
                      /\ fd' = Redirected(CloseStale, f, 0)
  BY DEF InputFile
<1>3. /\ pc = "redir" /\ temp <= Len(redirs) /\ redirs[temp].type = "in"
      /\ temp' = temp + 1 /\ redirs' = redirs /\ pc' = pc /\ cmd' = cmd
      /\ status' = status /\ before' = before /\ ran' = ran
      /\ exited' = exited /\ sigs' = sigs /\ errno' = errno
      /\ savedStdin' = savedStdin /\ savedStdout1' = savedStdout1
      /\ savedStdin1' = savedStdin1 /\ fdOut' = fdOut
  BY DEF InputFile, AtRedir
<1> HIDE DEF CloseStale
<1>4. QED
  BY <1>1, <1>2, <1>3, RedirectedInv

(* An output leaves the number of the last input alone. *)
LEMMA OutputFileInv == BInv /\ OutputFile => BInv'
<1> SUFFICES ASSUME BInv, OutputFile PROVE BInv'
  OBVIOUS
<1>1. fd \in Table
  BY DEF BInv, TypeOK
<1>2. PICK f \in Fd : /\ IsLowestFree(fd, f)
                      /\ fdOut' = f
                      /\ fd' = Redirected(fd, f, 1)
  BY DEF OutputFile
<1>3. /\ pc = "redir" /\ temp <= Len(redirs)
      /\ redirs[temp].type \in {"out", "append"}
      /\ temp' = temp + 1 /\ redirs' = redirs /\ pc' = pc /\ cmd' = cmd
      /\ status' = status /\ before' = before /\ ran' = ran
      /\ exited' = exited /\ sigs' = sigs /\ errno' = errno
      /\ savedStdin' = savedStdin /\ savedStdout1' = savedStdout1
      /\ savedStdin1' = savedStdin1 /\ fdIn' = fdIn
  BY DEF OutputFile, AtRedir
<1>4. QED
  BY <1>1, <1>2, <1>3, RedirectedInv

(* A redirection that fails changes no descriptor. *)
LEMMA OpenFailsInv == BInv /\ OpenFails => BInv'
<1> SUFFICES ASSUME BInv, OpenFails PROVE BInv'
  OBVIOUS
<1>1. /\ AtWork /\ Working /\ TypeOK /\ pc = "redir" /\ pc' = "restore"
      /\ temp <= Len(redirs) /\ temp' = temp /\ redirs' = redirs
  BY DEF BInv, Working, OpenFails, AtRedir
<1>2. CloseStale \in Table /\ \A g \in Fd : CloseStale[g] = fd[g]
  BY <1>1, StaleIsFree DEF AtWork
<1>3. PICK t \in Table :
        /\ \A g \in Fd : t[g] = fd[g]
        /\ Full(t) \/ redirs[temp].opens # "yes"
        /\ errno' = IF Full(t) THEN "other" ELSE redirs[temp].opens
        /\ fd' = t
  BY <1>1, <1>2 DEF OpenFails, TypeOK
<1>4. /\ errno' \in {"named", "other"}
      /\ status' = IF errno' = "named" THEN 1 ELSE status
  <2>1. redirs \in Seq(RedirType) /\ temp \in 1 .. Len(redirs)
    BY <1>1, BuiltinAssumption DEF TypeOK
  <2>2. redirs[temp] \in RedirType
    BY <2>1
  <2>3. redirs[temp].opens \in {"yes", "named", "other"}
    BY <2>2 DEF RedirType
  <2>4. status' = IF errno' = "named" THEN 1 ELSE status
    BY DEF OpenFails, PrintOpenErrorParent
  <2>5. QED
    BY <1>3, <2>3, <2>4
<1>5. TypeOK'
  <2>1. /\ fdIn' \in {fdIn, NoFd} /\ fdOut' \in {fdOut, NoFd}
        /\ cmd' = cmd /\ before' = before /\ ran' = ran /\ exited' = exited
        /\ sigs' = sigs /\ savedStdin' = savedStdin
        /\ savedStdout1' = savedStdout1 /\ savedStdin1' = savedStdin1
    BY DEF OpenFails
  <2>2. status' \in Nat
    BY <1>1, <1>4 DEF TypeOK
  <2>3. QED
    BY <1>1, <1>3, <1>4, <2>1, <2>2 DEF TypeOK, Places
<1>6. AtWork'
  <2>1. /\ fdIn' \in {fdIn, NoFd}
        /\ savedStdin' = savedStdin
        /\ savedStdout1' = savedStdout1 /\ savedStdin1' = savedStdin1
    BY DEF OpenFails
  <2>2. \A g \in Fd : fd'[g] = fd[g]
    BY <1>3
  <2>3. fd'[0] = fd[0] /\ fd'[1] = fd[1] /\ fd'[2] = fd[2]
    BY <2>2, FdFacts
  <2>4. Held(savedStdin)' /\ Held(savedStdout1)' /\ Held(savedStdin1)'
    BY <1>1, <2>1, <2>2 DEF AtWork, Held
  <2>5. OnlySpare({savedStdin, savedStdout1, savedStdin1})'
    BY <1>1, <2>1, <2>2 DEF AtWork, OnlySpare
  <2>6. NoBackup' => temp' = 1 /\ Full(fd)'
    BY <1>1, <2>1, <2>2 DEF AtWork, NoBackup, Full
  <2>7. fdIn' # NoFd => fdIn' > 2 /\ fd'[fdIn'] = Closed
    BY <1>1, <2>1, <2>2 DEF AtWork, TypeOK
  <2>8. IsLast(fd[0], {"in"})' /\ IsLast(fd[1], {"out", "append"})'
    BY <1>1, <2>3 DEF AtWork, IsLast, Made
  <2>9. QED
    BY <1>1, <2>1, <2>3, <2>4, <2>5, <2>6, <2>7, <2>8 DEF AtWork
<1>7. AtStart' /\ AtEnd'
  BY DEF AtStart, AtEnd, OpenFails
<1>8. RunsOnItsFiles' /\ StatusInv'
  BY <1>1 DEF OpenFails, AtRedir, BInv, RunsOnItsFiles, StatusInv
<1>9. StatusOfLine'
  <2>1. status = before \/ Interrupted
    BY <1>1 DEF BInv, StatusInv
  <2>2. Promised' = {IF errno' = "named" THEN 1 ELSE before}
    BY <1>1 DEF Promised, OpenFails
  <2>3. QED
    BY <1>1, <1>4, <2>1, <2>2 DEF StatusOfLine, Interrupted, OpenFails
<1>10. QED
  BY <1>5, <1>6, <1>7, <1>8, <1>9 DEF BInv

-----------------------------------------------------------------------------
(***************************************************************************)
(* Steps that leave the descriptors alone carry the table's part of the    *)
(* invariant along while the shell is at work.                             *)
(***************************************************************************)
LEMMA SameTables ==
  ASSUME BInv, Working, pc' \in {"redir", "exit", "run", "leave", "restore"},
         UNCHANGED <<files, temp, redirs>>
  PROVE  AtStart' /\ AtWork' /\ AtEnd'
<1>1. AtWork
  BY DEF BInv
<1>2. AtWork'
  BY <1>1 DEF AtWork, Working, files, Held, OnlySpare, NoBackup, Full, IsLast, Made
<1>3. QED
  BY <1>2 DEF AtStart, AtEnd, Working

LEMMA AllRedirectedInv == BInv /\ AllRedirected => BInv'
<1> SUFFICES ASSUME BInv, AllRedirected PROVE BInv'
  OBVIOUS
<1>1. AtStart' /\ AtWork' /\ AtEnd'
  BY SameTables DEF AllRedirected, Working
<1>2. TypeOK'
  BY DEF AllRedirected, BInv, TypeOK, Places, files
<1>3. RunsOnItsFiles' /\ StatusInv' /\ StatusOfLine'
  BY DEF AllRedirected, BInv, RunsOnItsFiles, StatusInv, StatusOfLine, Interrupted
<1>4. QED
  BY <1>1, <1>2, <1>3 DEF BInv

LEMMA NoMyExitInv == BInv /\ NoMyExit => BInv'
<1> SUFFICES ASSUME BInv, NoMyExit PROVE BInv'
  OBVIOUS
<1>1. AtStart' /\ AtWork' /\ AtEnd'
  BY SameTables DEF NoMyExit, Working
<1>2. TypeOK'
  BY DEF NoMyExit, BInv, TypeOK, Places, files
<1>3. RunsOnItsFiles' /\ StatusInv' /\ StatusOfLine'
  BY DEF NoMyExit, BInv, RunsOnItsFiles, StatusInv, StatusOfLine, Interrupted
<1>4. QED
  BY <1>1, <1>2, <1>3 DEF BInv

-----------------------------------------------------------------------------
(***************************************************************************)
(* exit.  What it sets the status to is what the line promises, or what an *)
(* interrupt put into the register before.                                 *)
(***************************************************************************)
LEMMA FillErrorPromised ==
  ASSUME TypeOK, temp > Len(redirs), cmd.kind = "exit", ~TooMany(cmd),
         status = before \/ Interrupted, NEW s \in FillError(cmd)
  PROVE  s \in Nat /\ (s \in Promised \/ (Interrupted /\ s = 130))
<1>1. /\ cmd.args \in Nat /\ cmd.numeric \in BOOLEAN /\ cmd.value \in Int
      /\ status \in Nat /\ before \in Nat /\ temp \in Nat /\ Len(redirs) \in Nat
  BY BuiltinAssumption DEF TypeOK, CommandType
<1>2. Promised = PromisedByExit
  BY <1>1 DEF Promised
<1>3. CASE cmd.args = 0
  <2>1. s = status /\ PromisedByExit = {before}
    BY <1>3 DEF FillError, PromisedByExit
  <2>2. QED
    BY <1>1, <1>2, <2>1 DEF Interrupted
<1>4. CASE cmd.args # 0 /\ ~cmd.numeric
  BY <1>2, <1>4 DEF FillError, PromisedByExit
<1>5. CASE cmd.args # 0 /\ cmd.numeric
  <2>1. ~(cmd.args > 1)
    BY <1>1, <1>5 DEF TooMany
  <2>2. PICK n \in FtAtoi(cmd.value) :
          s = IF Byte(n) = 0 THEN status ELSE Byte(n)
    BY <1>5 DEF FillError
  <2>3. CASE TooLong(cmd.value)
    <3>1. n = 2 /\ Byte(n) = 2
      BY <2>3 DEF FtAtoi, Byte
    <3>2. PromisedByExit = {2}
      BY <1>5, <2>1, <2>3 DEF PromisedByExit
    <3>3. QED
      BY <1>2, <2>2, <3>1, <3>2
  <2>4. CASE ~TooLong(cmd.value) /\ IsInt(cmd.value)
    <3>1. n = cmd.value /\ Byte(n) \in Nat
      BY <1>1, <2>4 DEF FtAtoi, Byte
    <3>2. PromisedByExit = IF Byte(n) = 0 THEN {before} ELSE {Byte(n)}
      BY <1>5, <2>1, <2>4, <3>1 DEF PromisedByExit
    <3>3. CASE Byte(n) = 0
      BY <1>1, <1>2, <2>2, <3>2, <3>3 DEF Interrupted
    <3>4. CASE Byte(n) # 0
      BY <1>2, <2>2, <3>1, <3>2, <3>4
    <3>5. QED
      BY <3>3, <3>4
  <2>5. CASE ~TooLong(cmd.value) /\ ~IsInt(cmd.value)
    <3>1. n \in 0 .. 255 /\ Byte(n) = n
      BY <2>5 DEF FtAtoi, Byte
    <3>2. PromisedByExit = {before} \cup 1 .. 255
      BY <1>5, <2>1, <2>5 DEF PromisedByExit
    <3>3. CASE n = 0
      BY <1>1, <1>2, <2>2, <3>1, <3>2, <3>3 DEF Interrupted
    <3>4. CASE n # 0
      BY <1>2, <2>2, <3>1, <3>2, <3>4
    <3>5. QED
      BY <3>3, <3>4
  <2>6. QED
    BY <2>3, <2>4, <2>5
<1>6. QED
  BY <1>1, <1>3, <1>4, <1>5

LEMMA MyExitInv == BInv /\ MyExit => BInv'
<1> SUFFICES ASSUME BInv, MyExit PROVE BInv'
  OBVIOUS
<1>1. AtStart' /\ AtWork' /\ AtEnd'
  BY SameTables DEF MyExit, Working
<1>2. /\ TypeOK /\ temp > Len(redirs)
      /\ status = before \/ Interrupted
      /\ ran = NotRun /\ exited = NoExit
  BY DEF BInv, MyExit, RunsOnItsFiles, StatusInv
<1>3. CASE TooMany(cmd)
  <2>1. TypeOK'
    BY <1>3 DEF MyExit, BInv, TypeOK, Places, files
  <2>2. RunsOnItsFiles' /\ StatusInv' /\ StatusOfLine'
    BY <1>2, <1>3 DEF MyExit, BInv, RunsOnItsFiles, StatusInv, StatusOfLine, TooMany
  <2>3. QED
    BY <1>1, <2>1, <2>2 DEF BInv
<1>4. CASE ~TooMany(cmd)
  <2>1. status' \in FillError(cmd) /\ pc' = "leave"
    BY <1>4 DEF MyExit
  <2>2. cmd.kind = "exit" /\ temp' = temp /\ redirs' = redirs /\ ran' = ran
    BY DEF MyExit
  <2>8. status' \in Nat /\ (status' \in Promised \/ (Interrupted /\ status' = 130))
    BY <1>2, <1>4, <2>1, <2>2, FillErrorPromised
  <2>3. TypeOK'
    BY <2>1, <2>8 DEF MyExit, BInv, TypeOK, Places, files
  <2>4. Promised' = Promised
    BY DEF MyExit, Promised, PromisedByExit, files
  <2>5. status' \in Promised' \/ Interrupted'
    BY <2>8, <2>4 DEF Interrupted, MyExit
  <2>6. RunsOnItsFiles' /\ StatusOfLine'
    BY <1>2, <2>1, <2>2 DEF RunsOnItsFiles, StatusOfLine
  <2>7. StatusInv'
    BY <2>1, <2>5 DEF StatusInv
  <2>9. QED
    BY <1>1, <2>3, <2>6, <2>7 DEF BInv
<1>5. QED
  BY <1>3, <1>4

(* The shell exits with the low eight bits of its status. *)
LEMMA LeaveInv == BInv /\ Leave => BInv'
<1> SUFFICES ASSUME BInv, Leave PROVE BInv'
  OBVIOUS
<1>1. status \in Nat /\ Byte(status) \in Nat
  BY DEF BInv, TypeOK, Byte
<1>2. NoTable \in Table
  BY TargetTypes DEF NoTable, Table
<1>3. TypeOK'
  BY <1>1, <1>2 DEF Leave, BInv, TypeOK, Places
<1>4. AtStart' /\ AtWork' /\ AtEnd'
  BY DEF Leave, AtStart, AtWork, AtEnd, Working
<1>5. Promised' = Promised
  BY DEF Leave, Promised, PromisedByExit
<1>6. status \in Promised \/ Interrupted
  BY DEF Leave, BInv, StatusInv
<1>7. StatusOfLine'
  BY <1>5, <1>6 DEF Leave, StatusOfLine, Interrupted
<1>8. RunsOnItsFiles' /\ StatusInv'
  BY DEF Leave, BInv, RunsOnItsFiles, StatusInv, IsLast, Made
<1>9. QED
  BY <1>3, <1>4, <1>7, <1>8 DEF BInv

(* The builtin runs. *)
LEMMA ExecuteInv == BInv /\ ExecuteBuiltinCommand => BInv'
<1> SUFFICES ASSUME BInv, ExecuteBuiltinCommand PROVE BInv'
  OBVIOUS
<1>1. AtStart' /\ AtWork' /\ AtEnd'
  BY SameTables DEF ExecuteBuiltinCommand, Working
<1>2. /\ TypeOK /\ temp > Len(redirs) /\ AtWork
      /\ status = (IF cmd.kind = "exit" THEN 1 ELSE before) \/ Interrupted
      /\ cmd.kind = "exit" => TooMany(cmd)
  BY DEF BInv, ExecuteBuiltinCommand, RunsOnItsFiles, StatusInv
<1>3. /\ cmd.args \in Nat /\ cmd.numeric \in BOOLEAN /\ cmd.code \in 0 .. 255
      /\ cmd.kind \in {"echo", "newline", "other", "exit"}
      /\ status \in Nat /\ temp \in Nat /\ Len(redirs) \in Nat
  BY <1>2, BuiltinAssumption DEF TypeOK, CommandType
<1>4. ran' \in Target \X Target /\ status' \in Nat
  <2>1. fd[0] \in Target /\ fd[1] \in Target
    BY <1>2, FdFacts DEF TypeOK, Table
  <2>2. ran' = <<fd[0], fd[1]>> /\ status' \in {0, cmd.code, status}
    BY DEF ExecuteBuiltinCommand
  <2>3. ran' \in Target \X Target
    BY <2>1, <2>2
  <2>4. status' \in Nat
    <3>1. cmd.code \in 0 .. 255
      BY <1>3, Zenon
    <3>2. status \in Nat
      BY <1>3, Zenon
    <3>3. QED
      BY <2>2, <3>1, <3>2
  <2>5. QED
    BY <2>3, <2>4
<1>5. TypeOK'
  BY <1>2, <1>4 DEF ExecuteBuiltinCommand, TypeOK, Places, files
<1>6. RunsOnItsFiles'
  <2>1. IsLast(fd[0], {"in"}) /\ IsLast(fd[1], {"out", "append"})
    BY <1>2 DEF AtWork, Working, ExecuteBuiltinCommand
  <2>2. ran' = <<fd[0], fd[1]>>
    BY DEF ExecuteBuiltinCommand
  <2>3. IsLast(ran[1], {"in"})' /\ IsLast(ran[2], {"out", "append"})'
    BY <2>1, <2>2 DEF IsLast, Made, ExecuteBuiltinCommand
  <2>4. QED
    BY <1>2, <2>3 DEF RunsOnItsFiles, ExecuteBuiltinCommand
<1>7. Promised' = Promised
  BY DEF ExecuteBuiltinCommand, Promised, PromisedByExit, files
<1>8. status' \in Promised \/ (Interrupted /\ status' = 130)
  <2>1. CASE cmd.kind = "exit"
    <3>1. Promised = PromisedByExit
      BY <1>2, <1>3, <2>1 DEF Promised
    <3>2. PromisedByExit = {1}
      BY <1>2, <1>3, <2>1 DEF PromisedByExit, TooMany
    <3>3. status' = status
      BY <2>1 DEF ExecuteBuiltinCommand
    <3>4. QED
      BY <1>2, <2>1, <3>1, <3>2, <3>3 DEF Interrupted
  <2>2. CASE cmd.kind # "exit"
    <3>1. Promised = IF cmd.kind = "echo" THEN {0}
                     ELSE IF cmd.kind = "newline" THEN {before} ELSE {cmd.code}
      BY <1>2, <1>3, <2>2 DEF Promised
    <3>2. QED
      BY <1>2, <1>3, <2>2, <3>1 DEF ExecuteBuiltinCommand, Interrupted
  <2>3. QED
    BY <2>1, <2>2
<1>9. StatusInv' /\ StatusOfLine'
  BY <1>7, <1>8 DEF ExecuteBuiltinCommand, StatusInv, StatusOfLine, Interrupted
<1>10. QED
  BY <1>1, <1>5, <1>6, <1>9 DEF BInv

(***************************************************************************)
(* The end of a line.  When a backup is missing no redirection was made,   *)
(* and the descriptor is the terminal already.                             *)
(***************************************************************************)
LEMMA RestoreInv == BInv /\ Restore => BInv'
<1> SUFFICES ASSUME BInv, Restore PROVE BInv'
  OBVIOUS
<1>1. /\ AtWork /\ Working /\ TypeOK /\ fd \in Table
      /\ savedStdout1 \in Fd \cup {NoFd} /\ savedStdin1 \in Fd \cup {NoFd}
      /\ savedStdin \in Fd \cup {NoFd}
      /\ temp' = temp /\ fd' = Undo(fd) /\ savedStdin' = savedStdin
  BY DEF BInv, Working, Restore, TypeOK
<1>2. /\ fd[2] = Tty
      /\ Held(savedStdin) /\ Held(savedStdout1) /\ Held(savedStdin1)
      /\ savedStdin \notin {savedStdout1, savedStdin1} \/ savedStdin = NoFd
      /\ OnlySpare({savedStdin, savedStdout1, savedStdin1})
      /\ NoBackup => temp = 1
      /\ IsLast(fd[0], {"in"}) /\ IsLast(fd[1], {"out", "append"})
  BY <1>1 DEF AtWork
<1>3. /\ fd' \in Table
      /\ \A g \in Fd : fd'[g] =
           IF g \in {savedStdout1, savedStdin1} THEN Closed
           ELSE IF g = 1 /\ IsOpen(fd, savedStdout1) THEN fd[savedStdout1]
           ELSE IF g = 0 /\ IsOpen(fd, savedStdin1) THEN fd[savedStdin1]
           ELSE fd[g]
  BY <1>1, <1>2, UndoType DEF Held
<1>4. /\ savedStdout1 # NoFd => /\ savedStdout1 > 2 /\ fd[savedStdout1] = Tty
                                /\ IsOpen(fd, savedStdout1)
      /\ savedStdin1 # NoFd => /\ savedStdin1 > 2 /\ fd[savedStdin1] = Tty
                               /\ IsOpen(fd, savedStdin1)
  BY <1>2, Targets DEF Held, IsOpen
<1>5. NoBackup => fd[0] = Tty /\ fd[1] = Tty
  BY <1>2 DEF IsLast, Made
<1>6. /\ fd'[2] = Tty /\ fd'[1] = Tty /\ fd'[0] = Tty
  <2>1. 0 \notin {savedStdout1, savedStdin1} /\ 1 \notin {savedStdout1, savedStdin1}
        /\ 2 \notin {savedStdout1, savedStdin1}
    BY <1>4 DEF NoFd
  <2>2. fd'[2] = fd[2]
    BY <1>3, <2>1, FdFacts
  <2>3. fd'[1] = Tty
    BY <1>3, <1>4, <1>5, <2>1, FdFacts DEF NoBackup, IsOpen
  <2>4. fd'[0] = Tty
    BY <1>3, <1>4, <1>5, <2>1, FdFacts DEF NoBackup, IsOpen
  <2>5. QED
    BY <1>2, <2>2, <2>3, <2>4
<1>7. OnTerminal'
  BY <1>6 DEF OnTerminal
<1>8. \A g \in Fd : g > 2 => fd'[g] = IF g \in {savedStdout1, savedStdin1}
                                      THEN Closed ELSE fd[g]
  BY <1>3
<1>9. Held(savedStdin)'
  BY <1>1, <1>2, <1>8 DEF Held
<1>10. OnlySpare({savedStdin})'
  BY <1>1, <1>2, <1>8 DEF OnlySpare
<1>11. AtStart' /\ AtWork' /\ AtEnd'
  BY <1>7, <1>9, <1>10 DEF Restore, AtStart, AtWork, AtEnd, Working
<1>12. TypeOK'
  BY <1>3 DEF Restore, BInv, TypeOK, Places
<1>13. Promised' = Promised
  BY DEF Restore, Promised, PromisedByExit
<1>14. RunsOnItsFiles' /\ StatusInv' /\ StatusOfLine'
  BY <1>13 DEF Restore, BInv, RunsOnItsFiles, StatusInv, StatusOfLine, IsLast, Made
<1>15. QED
  BY <1>11, <1>12, <1>14 DEF BInv

LEMMA BackInv == BInv /\ Back => BInv'
<1> SUFFICES ASSUME BInv, Back PROVE BInv'
  OBVIOUS
<1>1. /\ OnTerminal /\ Held(savedStdin) /\ OnlySpare({savedStdin}) /\ fd \in Table
      /\ savedStdin \in Fd \cup {NoFd}
  BY DEF BInv, AtEnd, Back, TypeOK
<1> DEFINE t == RestoreStdin(fd, savedStdin)
<1>2. savedStdin # 0
  BY <1>1 DEF Held, NoFd
<1>3. /\ t \in Table
      /\ \A g \in Fd : t[g] = IF g = savedStdin THEN Closed
                              ELSE IF g = 0 /\ IsOpen(fd, savedStdin)
                              THEN fd[savedStdin] ELSE fd[g]
  BY <1>1, <1>2, RestoreType
<1>4. fd' = CloseFdsExceptStd(t)
  BY DEF Back
<1> HIDE DEF t
<1>5. /\ t[0] = Tty /\ t[1] = Tty /\ t[2] = Tty
  <2>1. /\ fd[0] = Tty /\ fd[1] = Tty /\ fd[2] = Tty
        /\ savedStdin \notin 0 .. 2
        /\ IsOpen(fd, savedStdin) => fd[savedStdin] = Tty
    BY <1>1, FdFacts DEF OnTerminal, Held, IsOpen
  <2>2. QED
    BY <1>3, <2>1, FdFacts
<1>6. \A g \in Fd : g > 2 => t[g] \in {Closed, Leftover}
  BY <1>1, <1>3 DEF OnlySpare
<1>7. /\ fd' \in Table
      /\ \A g \in Fd : fd'[g] \in {Closed, t[g]} /\ (g <= 2 => fd'[g] = t[g])
  BY <1>3, <1>4, TargetTypes DEF CloseFdsExceptStd, Table, Fd
<1>8. OnTerminal' /\ OnlySpare({})'
  <2>1. fd'[0] = Tty /\ fd'[1] = Tty /\ fd'[2] = Tty
    BY <1>5, <1>7, FdFacts
  <2>2. \A g \in Fd : g > 2 => fd'[g] \in {Closed, Leftover}
    BY <1>6, <1>7
  <2>3. QED
    BY <2>1, <2>2 DEF OnTerminal, OnlySpare
<1>9. AtStart' /\ AtWork' /\ AtEnd'
  BY <1>8 DEF Back, AtStart, AtWork, AtEnd, Working
<1>10. TypeOK'
  BY <1>7 DEF Back, BInv, TypeOK, Places
<1>11. Promised' = Promised
  BY DEF Back, Promised, PromisedByExit
<1>12. RunsOnItsFiles' /\ StatusInv' /\ StatusOfLine'
  BY <1>11 DEF Back, BInv, RunsOnItsFiles, StatusInv, StatusOfLine, IsLast, Made
<1>13. QED
  BY <1>9, <1>10, <1>12 DEF BInv

(* The handler only writes the status. *)
LEMMA InterruptInv == BInv /\ Interrupt => BInv'
<1> SUFFICES ASSUME BInv, Interrupt PROVE BInv'
  OBVIOUS
<1>1. TypeOK'
  BY BuiltinAssumption DEF Interrupt, BInv, TypeOK, Places, files
<1>2. sigs' > 0 /\ status' = 130
  BY DEF Interrupt, BInv, TypeOK
<1>3. AtStart' /\ AtWork' /\ AtEnd'
  BY DEF Interrupt, BInv, AtStart, AtWork, AtEnd, Working, files, Held, OnlySpare,
         NoBackup, Full, IsLast, Made, OnTerminal, Fresh
<1>4. RunsOnItsFiles'
  BY DEF Interrupt, BInv, RunsOnItsFiles, IsLast, Made
<1>5. StatusInv' /\ StatusOfLine'
  BY <1>2 DEF Interrupt, BInv, StatusInv, StatusOfLine, Interrupted
<1>6. QED
  BY <1>1, <1>3, <1>4, <1>5 DEF BInv

(* A step that changes nothing. *)
LEMMA StutterInv == BInv /\ UNCHANGED vars => BInv'
<1> SUFFICES ASSUME BInv, UNCHANGED vars PROVE BInv'
  OBVIOUS
<1> USE DEF vars, files, BInv
<1>1. TypeOK'
  BY DEF TypeOK, Places
<1>2. AtStart' /\ AtEnd'
  BY DEF AtStart, AtEnd, OnTerminal, Fresh, Held, OnlySpare, Full
<1>3. AtWork'
  BY DEF AtWork, Working, Held, OnlySpare, NoBackup, Full, IsLast, Made
<1>4. RunsOnItsFiles'
  BY DEF RunsOnItsFiles, IsLast, Made
<1>5. StatusInv' /\ StatusOfLine'
  BY DEF StatusInv, StatusOfLine, Interrupted, Promised, PromisedByExit
<1>6. QED
  BY <1>1, <1>2, <1>3, <1>4, <1>5

-----------------------------------------------------------------------------
(***************************************************************************)
(* The invariant holds in every state.                                     *)
(***************************************************************************)
THEOREM BuiltinInvariance == Spec => []BInv
<1>1. BInv /\ [Next]_vars => BInv'
  BY EnterInv, SaveStdoutInv, SaveStdinInv, InputFileInv, OutputFileInv,
     OpenFailsInv, AllRedirectedInv, MyExitInv, NoMyExitInv, LeaveInv,
     ExecuteInv, RestoreInv, BackInv, InterruptInv, StutterInv
  DEF Next, Line, Done
<1>2. QED
  BY InitInv, <1>1, PTL DEF Spec

(* Every variable keeps its type. *)
THEOREM BuiltinTypes == Spec => []TypeOK
<1>1. BInv => TypeOK
  BY DEF BInv
<1>2. QED
  BY <1>1, BuiltinInvariance, PTL

(***************************************************************************)
(* A builtin runs on the files of its last redirections, and neither runs  *)
(* nor exits when one of them failed.                                      *)
(***************************************************************************)
THEOREM BuiltinRunsOnItsFiles == Spec => []RunsOnItsFiles
<1>1. BInv => RunsOnItsFiles
  BY DEF BInv
<1>2. QED
  BY <1>1, BuiltinInvariance, PTL

(***************************************************************************)
(* The prompt comes back on the terminal without a descriptor of the line, *)
(* however full the table was and wherever the redirections stopped.       *)
(***************************************************************************)
THEOREM BuiltinTerminalBack == Spec => []TerminalBack
<1>1. BInv => TerminalBack
  BY FdFacts DEF BInv, TypeOK, Places, AtStart, AtWork, AtEnd, Working,
     OnTerminal, TerminalBack
<1>2. QED
  BY <1>1, BuiltinInvariance, PTL

(***************************************************************************)
(* The status of the line is what its redirections and its builtin leave,  *)
(* and what the shell exits with, or 130 after an interrupt.               *)
(***************************************************************************)
THEOREM BuiltinStatus == Spec => []StatusOfLine
<1>1. BInv => StatusOfLine
  BY DEF BInv
<1>2. QED
  BY <1>1, BuiltinInvariance, PTL

=============================================================================
