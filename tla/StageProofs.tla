----------------------------- MODULE StageProofs -----------------------------
(***************************************************************************)
(* Proofs about Stage, for every command, every list of redirections and   *)
(* every PATH, for tables of any size and any number of files changed by   *)
(* others.  SInv is inductive; a second invariant, RInv, follows the       *)
(* status from what is inherited to what the stage exits with.             *)
(***************************************************************************)
EXTENDS Stage, ShellTablesProofs

(* A file a redirection opened is a target of its own. *)
LEMMA OpenedFacts ==
  /\ \A k \in Nat : Opened(k) \in Target
  /\ \A k : Opened(k) # Closed
  /\ Document \in Target /\ Document # Closed
BY DEF Opened, Document, Target, Closed

(* The lists of a stage, and the places in them. *)
LEMMA ListFacts ==
  ASSUME TypeOK
  PROVE  /\ Len(redirs) \in Nat /\ temp \in Nat
         /\ Len(path) \in Nat /\ i \in Nat
         /\ cmd \in CommandType
         /\ \A k \in 1 .. Len(redirs) : redirs[k] \in RedirType
<1>1. redirs \in Seq(RedirType)
  BY StageAssumption DEF TypeOK
<1>2. path = <<"unset">> \/ path \in Seq({"exec", "plain", "dir", "absent"})
  BY StageAssumption DEF TypeOK, Unset
<1>3. Len(path) \in Nat
  BY <1>2
<1> QED
  BY <1>1, <1>3, StageAssumption DEF TypeOK

(* What a descriptor holds after one more redirection. *)
LEMMA HoldsNext ==
  ASSUME TypeOK, temp <= Len(redirs), NEW types, NEW start
  PROVE  /\ redirs[temp].type \in types =>
              Holds(temp, types, start) = Opened(temp)
         /\ redirs[temp].type \notin types =>
              Holds(temp, types, start) = Holds(temp - 1, types, start)
<1> DEFINE ks(n) == {k \in 1 .. n : redirs[k].type \in types}
<1>1. temp \in Nat /\ temp >= 1
  BY ListFacts DEF TypeOK
<1>2. CASE redirs[temp].type \in types
  <2>1. temp \in ks(temp) /\ \A h \in ks(temp) : h <= temp
    BY <1>1, <1>2
  <2>2. \A k \in ks(temp) : (\A h \in ks(temp) : h <= k) => k = temp
    BY <1>1, <2>1
  <2> DEFINE top == CHOOSE k \in ks(temp) : \A h \in ks(temp) : h <= k
  <2>3. top = temp
    BY <2>1, <2>2
  <2>4. LastOf(temp, types) = top
    BY <2>1 DEF LastOf
  <2> QED
    BY <2>3, <2>4, <1>1, <1>2 DEF Holds
<1>3. CASE redirs[temp].type \notin types
  <2>1. ks(temp) = ks(temp - 1)
    BY <1>1, <1>3
  <2>2. \A n : LastOf(n, types) =
                 IF ks(n) = {} THEN 0
                 ELSE CHOOSE k \in ks(n) : \A h \in ks(n) : h <= k
    BY DEF LastOf
  <2> HIDE DEF ks
  <2>3. LastOf(temp, types) = LastOf(temp - 1, types)
    BY <2>1, <2>2
  <2> QED
    BY <2>3, <1>3 DEF Holds
<1> QED
  BY <1>2, <1>3

(* Before the first redirection a descriptor holds what it held. *)
LEMMA HoldsFirst ==
  ASSUME NEW types, NEW start
  PROVE  Holds(0, types, start) = start
<1>1. {k \in 1 .. 0 : redirs[k].type \in types} = {}
  OBVIOUS
<1> QED
  BY <1>1 DEF Holds, LastOf

(* All redirections made once more come to the same. *)
LEMMA HoldsAgain ==
  ASSUME NEW n, NEW types, NEW start
  PROVE  Holds(n, types, Holds(n, types, start)) = Holds(n, types, start)
BY DEF Holds

(* The list never changes. *)
LEMMA HoldsStays ==
  ASSUME redirs' = redirs
  PROVE  \A n, types, start : Holds(n, types, start)' = Holds(n, types, start)
BY DEF Holds, LastOf

(* Closing the numbers of earlier redirections again closes nothing. *)
LEMMA StaleIsFree ==
  ASSUME TypeOK, StaleClosed
  PROVE  CloseStale \in Table /\ \A g \in Fd : CloseStale[g] = fd[g]
<1>1. fd \in Table /\ fdIn \in Fd \cup {NoFd} /\ fdOut \in Fd \cup {NoFd}
  BY DEF TypeOK
<1>2. CASE redirs[temp].type = "in"
  BY <1>1, <1>2, CloseAbove2Type, FdFacts DEF CloseStale, StaleClosed
<1>3. CASE redirs[temp].type # "in" /\ ByBuiltin
  BY <1>1, <1>3 DEF CloseStale
<1>4. CASE redirs[temp].type # "in" /\ ~ByBuiltin
  BY <1>1, <1>4, CloseAbove2Type, FdFacts
  DEF CloseStale, StaleClosed, ByBuiltin, BackedUp
<1> QED
  BY <1>2, <1>3, <1>4

(* The backups of a builtin are made above 2. *)
LEMMA CopiesType ==
  ASSUME NEW t \in Table, NEW from \in {0, 1}, \A g \in 0 .. 2 : t[g] # Closed,
         NEW u \in Copies(t, from)
  PROVE  u \in Table /\ \A g \in 0 .. 2 : u[g] = t[g]
<1>1. CASE Full(t)
  BY <1>1 DEF Copies
<1>2. CASE ~Full(t)
  <2>1. PICK f \in Fd : IsLowestFree(t, f) /\ u = Put(t, f, t[from])
    BY <1>2 DEF Copies
  <2>2. t[from] \in Target
    BY FdFacts DEF Table
  <2>3. f \notin 0 .. 2
    BY <2>1 DEF IsLowestFree
  <2> QED
    BY <2>1, <2>2, <2>3, PutType, FdFacts DEF Fd
<1> QED
  BY <1>1, <1>2

LEMMA BackupType ==
  ASSUME NEW t \in Table, \A g \in 0 .. 2 : t[g] # Closed, NEW u \in Backup(t)
  PROVE  u \in Table /\ \A g \in 0 .. 2 : u[g] = t[g]
<1>1. PICK v \in Copies(t, 1) : u \in Copies(v, 0)
  BY DEF Backup
<1>2. v \in Table /\ \A g \in 0 .. 2 : v[g] = t[g]
  BY <1>1, CopiesType
<1> QED
  BY <1>1, <1>2, CopiesType

-----------------------------------------------------------------------------
(* The invariant holds when the child starts to redirect. *)
LEMMA InitSInv == ASSUME Init PROVE SInv
<1>1. fd = Inherited /\ left \in Leftovers /\ pc = "redir" /\ pass = 1 /\ temp = 1
  BY DEF Init
<1>2. /\ fd \in Table
      /\ fd[0] = ReadEnd(1) /\ fd[1] = WriteEnd(2) /\ fd[2] = Tty
      /\ \A f \in Fd : f > 2 => fd[f] \in {Leftover, Closed}
  BY <1>1, TargetTypes, FdFacts
  DEF Inherited, PromptTable, Table
<1>3. redirs \in Seq(RedirType) /\ Len(path) \in Nat
  BY StageAssumption DEF Init, Unset
<1>4. TypeOK
  BY <1>2, <1>3, StageAssumption DEF Init, TypeOK, Places
<1>5. StaleClosed /\ FirstPass
  BY <1>1, <1>2, HoldsFirst DEF Init, StaleClosed, FirstPass
<1> QED
  BY <1>1, <1>2, <1>4, <1>5, Targets, FdFacts DEF SInv, BackedUp

(***************************************************************************)
(* A redirection that is made changes the standard descriptor it is for.   *)
(***************************************************************************)
LEMMA RedirectedStep ==
  ASSUME SInv, NEW to \in {0, 1}, NEW f \in Fd,
         IsLowestFree(CloseStale, f), fd' = Redirected(CloseStale, f, to),
         pc = "redir", temp <= Len(redirs), redirs[temp].opens = "yes",
         to = 0 <=> redirs[temp].type = "in",
         fdIn' \in {fdIn, f}, fdOut' \in {fdOut, f}, temp' = temp + 1,
         UNCHANGED <<stage, doc, pc, pass, status, search, exited, changes>>
  PROVE  /\ SInv'
         /\ \A g \in Fd : fd'[g] = IF g = to THEN Opened(temp) ELSE fd[g]
         /\ fd[f] = Closed
<1>1. /\ TypeOK /\ StaleClosed /\ fd[2] = Tty
      /\ fd[0] # Closed /\ fd[1] # Closed
  BY DEF SInv
<1>2. CloseStale \in Table /\ \A g \in Fd : CloseStale[g] = fd[g]
  BY <1>1, StaleIsFree
<1>3. temp \in Nat /\ temp >= 1 /\ Len(redirs) \in Nat
      /\ redirs[temp] \in RedirType
  BY <1>1, ListFacts DEF TypeOK
<1>4. /\ fd' \in Table
      /\ \A g \in Fd : fd'[g] = IF g = to THEN Opened(temp) ELSE fd[g]
      /\ f > 2 /\ fd[f] = Closed
  <2>1. \A g \in 0 .. 2 : CloseStale[g] # Closed
    BY <1>1, <1>2, FdFacts, Targets
  <2> QED
    BY <2>1, <1>2, <1>3, OpenedFacts, MovedType DEF Redirected
<1>5. TypeOK'
  BY <1>1, <1>3, <1>4 DEF TypeOK, stage, search
<1>6. StaleClosed' /\ ~Full(fd)'
  BY <1>1, <1>4, FdFacts DEF TypeOK, StaleClosed, BackedUp, stage, Full
<1>7. /\ \A g \in 0 .. 2 : fd'[g] # Closed
      /\ fd'[2] = Tty
      /\ ~BackedUp' => \A g \in Fd : g > 2 => fd'[g] \in {Leftover, Closed}
  BY <1>1, <1>4, FdFacts, OpenedFacts DEF SInv, BackedUp, stage
<1>8. /\ Holds(temp, {"in"}, ReadEnd(1)) =
           IF to = 0 THEN Opened(temp) ELSE Holds(temp - 1, {"in"}, ReadEnd(1))
      /\ \A start : Holds(temp, Outs, start) =
           IF to = 1 THEN Opened(temp) ELSE Holds(temp - 1, Outs, start)
  <2>1. redirs[temp].type \in {"in"} <=> to = 0
    OBVIOUS
  <2>2. redirs[temp].type \in Outs <=> to = 1
    BY <1>3 DEF RedirType, Outs
  <2> QED
    BY <2>1, <2>2, <1>1, HoldsNext
<1>9. \A n, types, start : Holds(n, types, start)' = Holds(n, types, start)
  BY HoldsStays DEF stage
<1>10. OutputOf' = OutputOf
  BY <1>9 DEF OutputOf, stage
<1>11. pass' = 1 => FirstPass'
  BY <1>3, <1>4, <1>8, <1>9, FdFacts DEF SInv, FirstPass, Outs
<1>12. BackedUp' => SecondPass'
  BY <1>3, <1>4, <1>6, <1>8, <1>9, <1>10, FdFacts DEF SInv, SecondPass, BackedUp, Outs, stage
<1>13. SInv'
  BY <1>3, <1>5, <1>6, <1>7, <1>11, <1>12 DEF SInv, stage, BackedUp
<1> QED
  BY <1>4, <1>13

LEMMA OpenRedInStep == ASSUME SInv, OpenRedIn PROVE SInv'
<1>1. PICK f \in Fd : IsLowestFree(CloseStale, f) /\ fdIn' = f
                      /\ fd' = Redirected(CloseStale, f, 0)
  BY DEF OpenRedIn
<1> QED
  BY <1>1, RedirectedStep DEF OpenRedIn, AtRedir

LEMMA OpenRedOutStep == ASSUME SInv, OpenRedOut PROVE SInv'
<1>1. PICK f \in Fd : IsLowestFree(CloseStale, f) /\ fdOut' = f
                      /\ fd' = Redirected(CloseStale, f, 1)
  BY DEF OpenRedOut
<1> QED
  BY <1>1, RedirectedStep DEF OpenRedOut, AtRedir

(* A redirection that fails changes no descriptor. *)
LEMMA FailsKeeps ==
  ASSUME SInv, Fails
  PROVE  /\ fd' = fd
         /\ fdIn' \in {fdIn, NoFd} /\ fdOut' \in {fdOut, NoFd}
         /\ StaleClosed'
         /\ changes' \in 0 .. MaxChanges
         /\ UNCHANGED <<stage, doc, pass, temp, search, exited>>
<1>1. TypeOK /\ StaleClosed /\ pc = "redir"
  BY DEF SInv, Fails, AtRedir
<1>2. fd \in Table /\ CloseStale \in Table /\ \A g \in Fd : CloseStale[g] = fd[g]
  BY <1>1, StaleIsFree DEF TypeOK
<1>3. CloseStale = fd
  BY <1>2 DEF Table
<1>4. /\ fd' = fd
      /\ fdIn' \in {fdIn, NoFd} /\ fdOut' \in {fdOut, NoFd}
      /\ UNCHANGED <<stage, doc, pass, temp, search, exited>>
  BY <1>3 DEF Fails
<1>5. StaleClosed'
  BY <1>1, <1>4 DEF StaleClosed, BackedUp, stage
<1>6. changes' \in 0 .. MaxChanges
  BY <1>1, StageAssumption DEF Fails, Changed, TypeOK
<1> QED
  BY <1>4, <1>5, <1>6

LEMMA OpenFailsStep == ASSUME SInv, OpenFails PROVE SInv'
<1>1. TypeOK'
  BY FailsKeeps, FdFacts DEF OpenFails, SInv, TypeOK, stage, search, Places
<1> QED
  BY <1>1, FailsKeeps
  DEF OpenFails, Fails, AtRedir, SInv, FirstPass, SecondPass, BackedUp, stage

(***************************************************************************)
(* The second time a builtin goes on.  When nothing was changed under it   *)
(* the first redirection is the one that fails, for want of a descriptor.  *)
(***************************************************************************)
LEMMA OpenFailsAgainStep == ASSUME SInv, OpenFailsAgain PROVE SInv'
<1>1. /\ Fails /\ pass = 2 /\ pc = "redir" /\ TypeOK /\ StaleClosed
      /\ temp <= Len(redirs)
  BY DEF SInv, OpenFailsAgain, Fails, AtRedir
<1>2. TypeOK'
  BY <1>1, FailsKeeps, FdFacts, SMTT(30)
  DEF OpenFailsAgain, SInv, TypeOK, stage, search, Places
<1>3. OutputOf' = OutputOf
  BY <1>1, FailsKeeps, HoldsStays DEF OutputOf, stage
<1>4. ASSUME BackedUp, changes' = 0 PROVE fd[1] = OutputOf
  <2>1. \A g \in Fd : CloseStale[g] = fd[g]
    BY <1>1, StaleIsFree
  <2>2. redirs[temp].opens = "yes"
    BY <1>1, ListFacts DEF SInv, TypeOK
  <2>3. Full(CloseStale)
    BY <1>1, <1>4, <2>2 DEF Fails, TypeOK
  <2>4. Full(fd)
    BY <2>1, <2>3 DEF Full
  <2>5. temp = 1
    BY <1>1, <1>4, <2>4, ListFacts DEF SInv, SecondPass, TypeOK
  <2> QED
    BY <1>1, <1>4, <2>5, HoldsFirst DEF SInv, SecondPass
<1>5. BackedUp' => SecondPass'
  BY <1>1, <1>3, <1>4, FailsKeeps DEF OpenFailsAgain, SecondPass, BackedUp, ByBuiltin, stage
<1> QED
  BY <1>1, <1>2, <1>5, FailsKeeps
  DEF OpenFailsAgain, SInv, BackedUp, ByBuiltin, stage

(* The here-document takes the place of the last input. *)
LEMMA OpenDocumentStep == ASSUME SInv, OpenDocument PROVE SInv'
<1>1. PICK f \in Fd : IsLowestFree(fd, f)
                      /\ fd' = Close(Dup2(Put(fd, f, Document), f, 0), f)
  BY DEF OpenDocument
<1>2. TypeOK /\ pc = "doc" /\ \A g \in 0 .. 2 : fd[g] # Closed
  BY DEF SInv, OpenDocument
<1>3. /\ fd' \in Table
      /\ \A g \in Fd : fd'[g] = IF g = 0 THEN Document ELSE fd[g]
  BY <1>1, <1>2, OpenedFacts, MovedType DEF TypeOK
<1>4. TypeOK'
  BY <1>2, <1>3 DEF OpenDocument, TypeOK, stage, search, Places
<1>5. ~BackedUp
  BY DEF SInv, OpenDocument
<1>6. /\ \A n, types, start : Holds(n, types, start)' = Holds(n, types, start)
      /\ doc' = doc /\ doc = "there" /\ temp' = temp /\ redirs' = redirs
  BY HoldsStays DEF OpenDocument, stage
<1>7. pass = 1 => FirstPass'
  BY <1>2, <1>3, <1>6, FdFacts
  DEF OpenDocument, SInv, FirstPass, InputOf
<1>8. StaleClosed'
  BY <1>1, <1>2, <1>3, <1>5 DEF OpenDocument, SInv, StaleClosed, BackedUp, stage, TypeOK
<1>9. \A g \in Fd : g > 2 => fd'[g] = fd[g]
  BY <1>3
<1> QED
  BY <1>2, <1>3, <1>4, <1>5, <1>7, <1>8, <1>9, FdFacts, OpenedFacts
  DEF OpenDocument, SInv, BackedUp, stage

LEMMA ExecuteBuiltinStep == ASSUME SInv, ExecuteBuiltin PROVE SInv'
<1>1. TypeOK /\ pc = "logic" /\ pass = 1 /\ \A g \in 0 .. 2 : fd[g] # Closed
  BY DEF SInv, ExecuteBuiltin
<1>2. fd' \in Table /\ \A g \in 0 .. 2 : fd'[g] = fd[g]
  BY <1>1, BackupType DEF ExecuteBuiltin, TypeOK
<1>3. temp = Len(redirs) + 1 /\ fd[1] = OutputOf
  BY <1>1 DEF SInv, FirstPass, OutputOf
<1>4. TypeOK'
  BY <1>1, <1>2, ListFacts DEF ExecuteBuiltin, TypeOK, stage, search, Places
<1>5. OutputOf' = OutputOf /\ \A start : Holds(0, Outs, start)' = start
  BY HoldsStays, HoldsFirst DEF ExecuteBuiltin, OutputOf, stage
<1>6. SecondPass'
  BY <1>2, <1>3, <1>5, FdFacts DEF ExecuteBuiltin, SecondPass
<1>7. StaleClosed'
  BY DEF ExecuteBuiltin, StaleClosed, BackedUp, stage, NoFd
<1>8. \A k \in 1 .. Len(redirs) : redirs[k].opens = "yes"
  BY <1>1, <1>3, ListFacts DEF SInv
<1> QED
  BY <1>1, <1>2, <1>4, <1>6, <1>7, <1>8, ListFacts
  DEF ExecuteBuiltin, SInv, BackedUp, stage

LEMMA ExecuteNothingStep == ASSUME SInv, ExecuteNothing PROVE SInv'
<1>1. TypeOK /\ pc = "logic" /\ pass = 1 /\ temp = Len(redirs) + 1
  BY DEF SInv, FirstPass, ExecuteNothing
<1>2. TypeOK'
  BY <1>1, ListFacts DEF ExecuteNothing, TypeOK, stage, search, Places
<1>3. StaleClosed'
  BY <1>1 DEF ExecuteNothing, SInv, StaleClosed, BackedUp, stage
<1>4. \A k \in 1 .. Len(redirs) : redirs[k].opens = "yes"
  BY <1>1, ListFacts DEF SInv
<1> QED
  BY <1>1, <1>2, <1>3, <1>4 DEF ExecuteNothing, SInv, BackedUp, stage

(***************************************************************************)
(* The other steps leave the descriptors and the place in the list alone.  *)
(***************************************************************************)
LEMMA QuietStep ==
  ASSUME SInv, TypeOK', pc # "exited", pc' # "exited",
         UNCHANGED <<stage, pass, temp, fd, fdIn, fdOut>>,
         doc' = "none" <=> doc = "none", changes' = 0 => changes = 0,
         \/ pc' = pc
         \/ pc' \in {"leave", "failed"}
         \/ pc = "redir" /\ temp = Len(redirs) + 1 /\
              pc' = IF ByBuiltin THEN "builtin" ELSE "doc"
         \/ pc = "doc" /\ doc = "none" /\ pass = 1 /\ pc' = "logic"
         \/ pc = "builtin" /\ pc' = "ran"
         \/ pc \in {"logic", "execve"} /\ pc' \in {"execve", "running"}
  PROVE  SInv'
<1>1. /\ \A n, types, start : Holds(n, types, start)' = Holds(n, types, start)
      /\ temp' = temp /\ redirs' = redirs /\ fd' = fd
  BY HoldsStays DEF stage
<1>2. OutputOf' = OutputOf /\ InputOf' = InputOf
  BY <1>1 DEF OutputOf, InputOf, LastInput
<1>3. StaleClosed' /\ BackedUp' = BackedUp
  BY DEF SInv, StaleClosed, BackedUp, stage
<1>4. temp = Len(redirs) + 1 => temp - 1 = Len(redirs)
  BY ListFacts DEF SInv
<1>5. pass' = 1 => FirstPass'
  BY <1>1, <1>2, <1>4 DEF SInv, FirstPass, InputOf, LastInput, ByBuiltin
<1>6. BackedUp' => SecondPass'
  BY <1>1, <1>2, <1>3, <1>4, HoldsAgain
  DEF SInv, SecondPass, BackedUp, OutputOf
<1> QED
  BY <1>1, <1>3, <1>5, <1>6 DEF SInv, ByBuiltin, BackedUp, stage

LEMMA QuietSteps ==
  ASSUME SInv,
         \/ OpenAll \/ NoDocument \/ DocumentFails \/ Builtin \/ Ran \/ CheckFile
         \/ Lookup \/ LookupEnds \/ Execve \/ ExecveFails \/ RemoveDocument
  PROVE  SInv'
<1>1. TypeOK
  BY DEF SInv
<1>2. cmd.code \in {NoCode} \cup 0 .. 255
  BY <1>1, ListFacts DEF CommandType
<1>3. CASE OpenAll
  <2>1. TypeOK'
    BY <1>1, <1>3 DEF OpenAll, TypeOK, stage, search, Places
  <2>2. temp = Len(redirs) + 1
    BY <1>1, <1>3, ListFacts DEF OpenAll, TypeOK
  <2> QED
    BY <1>3, <2>1, <2>2, QuietStep DEF OpenAll
<1>4. CASE NoDocument
  <2>1. TypeOK'
    BY <1>1, <1>4 DEF NoDocument, TypeOK, stage, search, Places
  <2> QED
    BY <1>1, <1>4, <2>1, QuietStep DEF NoDocument, TypeOK
<1>5. CASE DocumentFails
  <2>1. TypeOK'
    BY <1>1, <1>5 DEF DocumentFails, TypeOK, stage, search, Places
  <2> QED
    BY <1>5, <2>1, QuietStep DEF DocumentFails
<1>6. CASE Builtin
  <2>1. Set(cmd.code) \in Nat
    <3>1. cmd.code # NoCode => cmd.code \in Nat
      BY <1>2
    <3>2. status \in Nat
      BY <1>1 DEF TypeOK
    <3> QED
      BY <3>1, <3>2 DEF Set
  <2>2. status' \in Nat /\ pc' \in {"leave", "ran"}
    BY <1>1, <1>6, <2>1 DEF Builtin, TypeOK
  <2>3. TypeOK'
    BY <1>1, <1>6, <2>2 DEF Builtin, TypeOK, stage, search, Places
  <2> QED
    BY <1>6, <2>2, <2>3, QuietStep DEF Builtin
<1>7. CASE Ran
  <2>1. TypeOK'
    BY <1>1, <1>7 DEF Ran, TypeOK, stage, search, Places
  <2> QED
    BY <1>7, <2>1, QuietStep DEF Ran
<1>8. CASE CheckFile
  <2>1. cmd.file \in Files
    BY <1>1, ListFacts DEF CommandType
  <2>2. status' \in Nat /\ pc' \in {"execve", "leave"}
    BY <1>1, <1>8, <2>1 DEF CheckFile, TypeOK, Files
  <2>3. TypeOK'
    BY <1>1, <1>8, <2>2 DEF CheckFile, TypeOK, stage, search, Places
  <2> QED
    BY <1>8, <2>2, <2>3, QuietStep DEF CheckFile
<1>9. CASE Lookup
  <2>1. i \in 1 .. Len(path) /\ Len(path) \in Nat
    BY <1>1, <1>9, ListFacts DEF Lookup, TypeOK
  <2>2. TypeOK'
    BY <1>1, <1>9, <2>1 DEF Lookup, TypeOK, stage, search, Places
  <2> QED
    BY <1>9, <2>2, QuietStep DEF Lookup
<1>10. CASE LookupEnds
  <2>1. TypeOK'
    BY <1>1, <1>10 DEF LookupEnds, TypeOK, stage, search, Places
  <2> QED
    BY <1>10, <2>1, QuietStep DEF LookupEnds
<1>11. CASE Execve
  <2>1. TypeOK'
    BY <1>1, <1>11 DEF Execve, TypeOK, stage, search, Places
  <2> QED
    BY <1>11, <2>1, QuietStep DEF Execve
<1>12. CASE ExecveFails
  <2>1. TypeOK'
    BY <1>1, <1>12 DEF ExecveFails, ExecveError, TypeOK, stage, search, Places
  <2> QED
    BY <1>12, <2>1, QuietStep DEF ExecveFails
<1>13. CASE RemoveDocument
  <2>1. TypeOK'
    BY <1>1, <1>13, StageAssumption
    DEF RemoveDocument, TypeOK, stage, search, Places
  <2>2. changes' # 0
    BY <1>1, <1>13 DEF RemoveDocument, TypeOK
  <2> QED
    BY <1>13, <2>1, <2>2, QuietStep DEF RemoveDocument
<1> QED
  BY <1>3, <1>4, <1>5, <1>6, <1>7, <1>8, <1>9, <1>10, <1>11, <1>12, <1>13

LEMMA LeaveStep == ASSUME SInv, Leave PROVE SInv'
<1>1. TypeOK'
  <2>1. NoTable \in Table
    BY TargetTypes DEF NoTable, Table
  <2>2. exited' \in Nat
    BY DEF Leave, SInv, TypeOK
  <2> QED
    BY <2>1, <2>2 DEF Leave, SInv, TypeOK, stage, search, Places
<1> QED
  BY <1>1 DEF Leave, SInv, BackedUp, stage

LEMMA StepSInv == ASSUME SInv, [Next]_vars PROVE SInv'
<1>1. CASE UNCHANGED vars
  <2>1. OutputOf' = OutputOf /\ InputOf' = InputOf
    BY <1>1, HoldsStays DEF vars, stage, OutputOf, InputOf, LastInput
  <2>2. \A n, types, start : Holds(n, types, start)' = Holds(n, types, start)
    BY <1>1, HoldsStays DEF vars, stage
  <2>3. TypeOK'
    BY <1>1 DEF SInv, TypeOK, vars, stage, search
  <2>4. (StaleClosed => StaleClosed') /\ (BackedUp' <=> BackedUp)
    BY <1>1 DEF StaleClosed, BackedUp, vars, stage
  <2>5. FirstPass => FirstPass'
    BY <1>1, <2>1, <2>2 DEF FirstPass, vars, stage
  <2>6. SecondPass => SecondPass'
    BY <1>1, <2>1, <2>2 DEF SecondPass, Full, vars, stage
  <2> QED
    BY <1>1, <2>3, <2>4, <2>5, <2>6 DEF SInv, vars, stage
<1>2. CASE Next
  BY <1>1, <1>2, OpenRedInStep, OpenRedOutStep, OpenFailsStep, OpenFailsAgainStep,
     OpenDocumentStep, ExecuteBuiltinStep, ExecuteNothingStep, QuietSteps, LeaveStep
  DEF Next, Done
<1> QED
  BY <1>1, <1>2

-----------------------------------------------------------------------------
(***************************************************************************)
(* The invariant of a stage (open_redirection.c, exec_red_child_built):    *)
(* what its descriptors and the stale numbers it keeps hold at each place. *)
(***************************************************************************)
THEOREM StageInvariance == Spec => []SInv
BY InitSInv, StepSInv, PTL DEF Spec

(***************************************************************************)
(* A program starts on its here-document or last input and its last        *)
(* output, a builtin on its last output, however many redirections there   *)
(* are, at whatever numbers they were opened; neither starts after one     *)
(* that failed.                                                            *)
(***************************************************************************)
THEOREM StageRunsOnLastFiles == Spec => []RunsOnLastFiles
<1>1. SInv => RunsOnLastFiles
  <2> SUFFICES ASSUME SInv PROVE RunsOnLastFiles
    OBVIOUS
  <2>1. CASE pc = "running"
    <3>1. temp = Len(redirs) + 1 /\ temp - 1 = Len(redirs) /\ pass = 1
      BY <2>1, ListFacts DEF SInv, FirstPass
    <3> QED
      BY <2>1, <3>1 DEF SInv, FirstPass, BackedUp, OutputOf, RunsOnLastFiles
  <2>2. CASE pc = "ran"
    BY <2>2 DEF SInv, SecondPass, BackedUp, RunsOnLastFiles
  <2> QED
    BY <2>1, <2>2 DEF RunsOnLastFiles
<1> QED
  BY <1>1, StageInvariance, PTL

-----------------------------------------------------------------------------
(***************************************************************************)
(* The second invariant.  Untouched: descriptors above 2 are as inherited, *)
(* but for a builtin's backups.  MayOpen: one open that was possible shows *)
(* that the inherited table was not full.  Searching and Chosen: what the  *)
(* search through PATH knows, and what it found.  StatusInv: the register  *)
(* on the way to the exit status, as long as nothing was changed.          *)
(***************************************************************************)
Untouched ==
  pc # "exited" /\ ~BackedUp =>
    \A f \in Fd : f > 2 => fd[f] = Inherited[f]

Prepared == pc \in {"logic", "execve", "running"}

MayOpen ==
  /\ temp > 1 => ~Full(Inherited)
  /\ Prepared \/ pass = 2 => (redirs # <<>> \/ doc # "none" => ~Full(Inherited))
  /\ Prepared => temp = Len(redirs) + 1

Searching ==
  /\ path = Unset => store = 0
  /\ cmd.kind = "name" /\ path # Unset /\ pc \in {"redir", "doc", "logic"} =>
       /\ \A k \in 1 .. i - 1 : /\ path[k] # "exec"
                                /\ path[k] = "plain" => k <= store
       /\ store # 0 => store < i /\ path[store] = "plain"

Chosen ==
  pc \in {"execve", "running"} =>
    /\ cmd.kind \in {"slash", "name"}
    /\ cmd.kind = "slash" => cmd.file = "exec"
    /\ cmd.kind = "name" => command = Found /\ ~NotFound

StatusInv ==
  changes = 0 =>
    /\ doc # "gone"
    /\ pc \in {"redir", "doc", "logic", "execve", "running", "builtin"} =>
         status = before
    /\ pc = "failed" => CannotOpen
    /\ pc \in {"leave", "ran"} => status = Expected
    /\ pc = "exited" => exited = Expected % 256

RInv == Untouched /\ MayOpen /\ Searching /\ Chosen /\ StatusInv

(* What a stage inherits leaves the standard descriptors open. *)
LEMMA InheritedOpen ==
  ASSUME left \in Leftovers
  PROVE  \A g \in 0 .. 2 : Inherited[g] # Closed
BY Targets, FdFacts DEF Inherited, PromptTable

(* Until a builtin makes its backups the table is full if it was before.   *)
LEMMA FullAsInherited ==
  ASSUME SInv, Untouched, pc # "exited", ~BackedUp
  PROVE  Full(fd) <=> Full(Inherited)
<1>1. \A g \in 0 .. 2 : Inherited[g] # Closed /\ fd[g] # Closed
  BY InheritedOpen DEF SInv, TypeOK
<1>2. \A g \in Fd : g > 2 => fd[g] = Inherited[g]
  BY DEF Untouched
<1>3. \A g \in Fd : g \in 0 .. 2 \/ g > 2
  BY DEF Fd
<1> QED
  BY <1>1, <1>2, <1>3 DEF Full

(* What the stage was started with decides these for good. *)
LEMMA Decided ==
  ASSUME UNCHANGED stage, doc' = "none" <=> doc = "none"
  PROVE  /\ Inherited' = Inherited
         /\ Full(Inherited)' <=> Full(Inherited)
         /\ CannotOpen' <=> CannotOpen
         /\ Found' = Found /\ (NotFound' <=> NotFound)
         /\ Expected' = Expected
<1>1. /\ cmd' = cmd /\ redirs' = redirs /\ path' = path
      /\ left' = left /\ before' = before
  BY DEF stage
<1>2. Inherited' = Inherited
  BY <1>1 DEF Inherited, PromptTable
<1>3. Full(Inherited)' <=> Full(Inherited)
  BY <1>2 DEF Full
<1>4. CannotOpen' <=> CannotOpen
  BY <1>1, <1>3 DEF CannotOpen
<1>5. Found' = Found
  BY <1>1 DEF Found, Candidates
<1>6. NotFound' <=> NotFound
  BY <1>1 DEF NotFound, Candidates
<1>7. AfterExecve' = AfterExecve
  BY <1>1 DEF AfterExecve, ByRegister
<1>8. OfFile' = OfFile
  BY <1>1, <1>7 DEF OfFile
<1>9. OfName' = OfName
  BY <1>1, <1>5, <1>6, <1>7 DEF OfName
<1>10. OfCommand' = OfCommand
  BY <1>1, <1>8, <1>9 DEF OfCommand, OfBuiltin
<1>11. Expected' = Expected
  BY <1>4, <1>10 DEF Expected
<1> QED
  BY <1>2, <1>3, <1>4, <1>5, <1>6, <1>11

(* A stage that could open what it has to open did not fail. *)
LEMMA NothingFailed ==
  ASSUME SInv, RInv, Prepared \/ pass = 2
  PROVE  ~CannotOpen
<1>1. redirs # <<>> \/ doc # "none" => ~Full(Inherited)
  BY DEF RInv, MayOpen
<1>2. \A k \in 1 .. Len(redirs) : redirs[k].opens = "yes"
  BY ListFacts DEF SInv, RInv, MayOpen
<1> QED
  BY <1>1, <1>2 DEF CannotOpen

LEMMA InitRInv == ASSUME Init PROVE RInv
<1>1. Untouched /\ MayOpen
  BY DEF Init, Untouched, MayOpen, Prepared
<1>2. Searching /\ Chosen /\ StatusInv
  BY DEF Init, Searching, Chosen, StatusInv
<1> QED
  BY <1>1, <1>2 DEF RInv

(***************************************************************************)
(* The redirections.  One that is made takes a free descriptor, which was  *)
(* free before.                                                            *)
(***************************************************************************)
LEMMA MadeRInv ==
  ASSUME SInv, RInv, pc = "redir", temp <= Len(redirs), NEW f \in Fd, NEW to \in {0, 1},
         fd[f] = Closed,
         \A g \in Fd : fd'[g] = IF g = to THEN Opened(temp) ELSE fd[g],
         temp' = temp + 1,
         UNCHANGED <<stage, doc, pc, pass, status, search, exited, changes>>
  PROVE  RInv'
<1>1. /\ TypeOK /\ temp \in 1 .. Len(redirs) /\ Len(redirs) \in Nat
      /\ redirs # <<>>
  BY ListFacts DEF SInv, TypeOK
<1>2. /\ Inherited' = Inherited /\ (Full(Inherited)' <=> Full(Inherited))
      /\ (CannotOpen' <=> CannotOpen) /\ Expected' = Expected
  BY Decided
<1>3. Untouched'
  BY <1>2, FdFacts DEF RInv, Untouched, BackedUp, stage
<1>4. ~Full(Inherited)
  <2>1. CASE BackedUp
    BY <2>1, <1>1 DEF RInv, MayOpen, BackedUp
  <2>2. CASE ~BackedUp
    BY <2>2, FullAsInherited DEF RInv, Full
  <2> QED
    BY <2>1, <2>2
<1>5. MayOpen'
  BY <1>2, <1>4 DEF MayOpen, Prepared
<1>6. Searching' /\ Chosen'
  BY DEF RInv, Searching, Chosen, stage, search
<1>7. StatusInv'
  BY <1>2 DEF RInv, StatusInv, stage
<1> QED
  BY <1>3, <1>5, <1>6, <1>7 DEF RInv

LEMMA OpenRInv ==
  ASSUME SInv, RInv, OpenRedIn \/ OpenRedOut
  PROVE  RInv'
<1>1. CASE OpenRedIn
  <2>1. PICK f \in Fd : IsLowestFree(CloseStale, f) /\ fdIn' = f
                        /\ fd' = Redirected(CloseStale, f, 0)
    BY <1>1 DEF OpenRedIn
  <2>2. /\ \A g \in Fd : fd'[g] = IF g = 0 THEN Opened(temp) ELSE fd[g]
        /\ fd[f] = Closed
    BY <1>1, <2>1, RedirectedStep DEF OpenRedIn, AtRedir
  <2> QED
    BY <1>1, <2>2, MadeRInv DEF OpenRedIn, AtRedir
<1>2. CASE OpenRedOut
  <2>1. PICK f \in Fd : IsLowestFree(CloseStale, f) /\ fdOut' = f
                        /\ fd' = Redirected(CloseStale, f, 1)
    BY <1>2 DEF OpenRedOut
  <2>2. /\ \A g \in Fd : fd'[g] = IF g = 1 THEN Opened(temp) ELSE fd[g]
        /\ fd[f] = Closed
    BY <1>2, <2>1, RedirectedStep DEF OpenRedOut, AtRedir
  <2> QED
    BY <1>2, <2>2, MadeRInv DEF OpenRedOut, AtRedir
<1> QED
  BY <1>1, <1>2

(* One that fails although nothing was changed has no file or no room. *)
LEMMA WhyItFails ==
  ASSUME SInv, RInv, Fails, changes' = 0
  PROVE  /\ changes = 0
         /\ redirs[temp].opens # "yes" \/ (Full(CloseStale) /\ Full(fd))
         /\ temp \in 1 .. Len(redirs) /\ redirs # <<>>
<1>1. TypeOK /\ StaleClosed /\ temp <= Len(redirs)
  BY DEF SInv, Fails, AtRedir
<1>2. \A g \in Fd : CloseStale[g] = fd[g]
  BY <1>1, StaleIsFree
<1>3. Full(CloseStale) => Full(fd)
  BY <1>2 DEF Full
<1>4. changes = 0 /\ (redirs[temp].opens # "yes" \/ Full(CloseStale))
  BY <1>1 DEF Fails, TypeOK
<1>5. temp \in 1 .. Len(redirs)
  BY <1>1, ListFacts DEF TypeOK
<1>6. redirs # <<>>
  BY <1>5
<1> QED
  BY <1>3, <1>4, <1>5, <1>6

LEMMA FailRInv ==
  ASSUME SInv, RInv, OpenFails \/ OpenFailsAgain
  PROVE  RInv'
<1>1. Fails /\ pc = "redir" /\ pc' \in {"failed", "builtin", "leave"}
  BY DEF OpenFails, OpenFailsAgain, Fails, AtRedir
<1>2. fd' = fd /\ UNCHANGED <<stage, doc, pass, temp, search, exited>>
  BY <1>1, FailsKeeps
<1>3. /\ Inherited' = Inherited /\ (Full(Inherited)' <=> Full(Inherited))
      /\ (CannotOpen' <=> CannotOpen) /\ Expected' = Expected
  BY <1>2, Decided
<1>4. Untouched'
  BY <1>1, <1>2, <1>3 DEF RInv, Untouched, BackedUp, stage
<1>5. MayOpen'
  BY <1>1, <1>2, <1>3 DEF RInv, MayOpen, Prepared, stage
<1>6. Searching' /\ Chosen'
  BY <1>1, <1>2 DEF RInv, Searching, Chosen, stage, search
<1>7. ASSUME changes' = 0 PROVE StatusInv'
  <2>1. /\ changes = 0
        /\ redirs[temp].opens # "yes" \/ (Full(CloseStale) /\ Full(fd))
        /\ temp \in 1 .. Len(redirs) /\ redirs # <<>>
    BY <1>1, <1>7, WhyItFails
  <2>2. ~BackedUp => (Full(fd) <=> Full(Inherited))
    BY <1>1, FullAsInherited DEF RInv
  <2>3. CASE OpenFails
    <3>1. ~BackedUp
      BY <2>3 DEF OpenFails, BackedUp
    <3>2. CannotOpen
      BY <2>1, <2>2, <3>1 DEF CannotOpen
    <3> QED
      BY <2>1, <2>3, <3>2, <1>2, <1>3 DEF OpenFails, StatusInv, RInv
  <2>4. CASE OpenFailsAgain
    <3>1. pass = 2 /\ redirs[temp].opens = "yes"
      BY <2>1, <2>4 DEF OpenFailsAgain, SInv
    <3>2. Full(CloseStale) /\ Full(fd) /\ ~Full(Inherited)
      BY <2>1, <3>1 DEF RInv, MayOpen
    <3>3. ByBuiltin
      BY <2>2, <3>1, <3>2 DEF ByBuiltin, BackedUp
    <3> QED
      BY <1>1, <1>2, <2>1, <2>4, <3>2, <3>3
      DEF OpenFailsAgain, StatusInv, RInv, stage
  <2> QED
    BY <2>3, <2>4
<1>8. StatusInv'
  BY <1>7 DEF StatusInv
<1> QED
  BY <1>4, <1>5, <1>6, <1>8 DEF RInv

(***************************************************************************)
(* The here-document.                                                      *)
(***************************************************************************)
LEMMA DocumentRInv ==
  ASSUME SInv, RInv, OpenDocument \/ NoDocument \/ DocumentFails
  PROVE  RInv'
<1>1. /\ pc = "doc" /\ ~BackedUp /\ TypeOK
      /\ UNCHANGED <<stage, doc, pass, temp, status, search, exited, changes>>
  BY DEF SInv, OpenDocument, NoDocument, DocumentFails
<1>2. /\ Inherited' = Inherited /\ (Full(Inherited)' <=> Full(Inherited))
      /\ (CannotOpen' <=> CannotOpen) /\ Expected' = Expected
  BY <1>1, Decided
<1>3. Full(fd) <=> Full(Inherited)
  BY <1>1, FullAsInherited DEF RInv
<1>4. \A g \in Fd : g > 2 => fd'[g] = fd[g]
  <2>1. CASE OpenDocument
    <3>1. PICK f \in Fd : IsLowestFree(fd, f)
                          /\ fd' = Close(Dup2(Put(fd, f, Document), f, 0), f)
      BY <2>1 DEF OpenDocument
    <3>2. \A g \in 0 .. 2 : fd[g] # Closed
      BY <1>1 DEF SInv
    <3> QED
      BY <1>1, <3>1, <3>2, OpenedFacts, MovedType DEF TypeOK
  <2>2. CASE NoDocument \/ DocumentFails
    BY <2>2 DEF NoDocument, DocumentFails
  <2> QED
    BY <2>1, <2>2
<1>5. Untouched'
  BY <1>1, <1>2, <1>4, FdFacts DEF RInv, Untouched, BackedUp, stage
<1>6. pass = 1 => temp = Len(redirs) + 1
  BY <1>1 DEF SInv, FirstPass
<1>7. Len(redirs) \in Nat /\ (redirs # <<>> => Len(redirs) > 0)
  BY <1>1, ListFacts, StageAssumption DEF TypeOK
<1>8. CASE DocumentFails
  <2>1. MayOpen' /\ Searching' /\ Chosen'
    BY <1>1, <1>2, <1>8
    DEF DocumentFails, RInv, MayOpen, Prepared, Searching, Chosen, stage, search
  <2>2. changes = 0 => CannotOpen
    BY <1>3, <1>8 DEF DocumentFails, RInv, StatusInv, CannotOpen
  <2>3. StatusInv'
    BY <1>1, <1>2, <1>8, <2>2 DEF DocumentFails, RInv, StatusInv, stage
  <2> QED
    BY <1>5, <2>1, <2>3 DEF RInv
<1>9. CASE OpenDocument \/ NoDocument
  <2>1. doc # "none" => ~Full(Inherited)
    BY <1>3, <1>9 DEF OpenDocument, NoDocument, IsLowestFree, Full
  <2>2. redirs # <<>> => ~Full(Inherited)
    BY <1>1, <1>6, <1>7 DEF RInv, MayOpen, TypeOK
  <2>3. pc' = IF pass = 1 THEN "logic" ELSE "leave"
    BY <1>9 DEF OpenDocument, NoDocument
  <2>4. MayOpen'
    BY <1>1, <1>2, <1>6, <2>1, <2>2, <2>3 DEF RInv, MayOpen, Prepared, TypeOK, stage
  <2>5. Searching' /\ Chosen'
    BY <1>1, <2>3 DEF RInv, Searching, Chosen, stage, search
  <2>6. pass = 2 => ~CannotOpen /\ cmd.kind = "nothing"
    BY <1>1, NothingFailed DEF BackedUp
  <2>7. pass = 2 => Expected = before
    BY <2>6 DEF Expected, OfCommand
  <2>8. StatusInv'
    BY <1>1, <1>2, <2>3, <2>7 DEF RInv, StatusInv, TypeOK, stage
  <2> QED
    BY <1>5, <2>4, <2>5, <2>8 DEF RInv
<1> QED
  BY <1>8, <1>9

(***************************************************************************)
(* The steps that leave the descriptors alone.                             *)
(***************************************************************************)
LEMMA StillUntouched ==
  ASSUME RInv, UNCHANGED <<stage, doc, pass, temp, fd>>,
         pc # "exited", Prepared' => Prepared
  PROVE  Untouched' /\ MayOpen'
<1>1. Inherited' = Inherited /\ (Full(Inherited)' <=> Full(Inherited))
  BY Decided
<1>2. Untouched'
  BY <1>1 DEF RInv, Untouched, BackedUp, stage
<1>3. redirs' = redirs
  BY DEF stage
<1>4. MayOpen'
  BY <1>1, <1>3 DEF RInv, MayOpen
<1> QED
  BY <1>2, <1>4

LEMMA OpenAllRInv == ASSUME SInv, RInv, OpenAll PROVE RInv'
<1>1. /\ pc = "redir" /\ pc' \in {"builtin", "doc"}
      /\ UNCHANGED <<stage, doc, pass, temp, fd, status, search, exited, changes>>
  BY DEF OpenAll
<1>2. Untouched' /\ MayOpen'
  BY <1>1, StillUntouched DEF Prepared
<1>3. Searching' /\ Chosen' /\ StatusInv'
  BY <1>1 DEF RInv, Searching, Chosen, StatusInv, stage, search
<1> QED
  BY <1>2, <1>3 DEF RInv

(* Before the logic everything could be opened. *)
LEMMA PassRInv ==
  ASSUME SInv, RInv, ExecuteBuiltin \/ ExecuteNothing
  PROVE  RInv'
<1>1. /\ pc = "logic" /\ pass' = 2 /\ temp' = 1
      /\ pc' \in {"redir", "builtin", "doc"}
      /\ cmd.kind \in {"exit", "builtin", "nothing"}
      /\ UNCHANGED <<stage, doc, status, search, exited, changes>>
  BY DEF ExecuteBuiltin, ExecuteNothing
<1>2. Inherited' = Inherited /\ (Full(Inherited)' <=> Full(Inherited))
  BY <1>1, Decided
<1>3. Untouched'
  <2>1. CASE ExecuteBuiltin
    BY <2>1, <1>1 DEF ExecuteBuiltin, Untouched, BackedUp, stage
  <2>2. CASE ExecuteNothing
    BY <2>2, <1>1, <1>2 DEF ExecuteNothing, RInv, Untouched, BackedUp, stage
  <2> QED
    BY <2>1, <2>2
<1>4. MayOpen'
  BY <1>1, <1>2 DEF RInv, MayOpen, Prepared, stage
<1>5. Searching' /\ Chosen' /\ StatusInv'
  BY <1>1 DEF RInv, Searching, Chosen, StatusInv, stage, search
<1> QED
  BY <1>3, <1>4, <1>5 DEF RInv

LEMMA BuiltinRInv == ASSUME SInv, RInv, Builtin PROVE RInv'
<1>1. /\ pc = "builtin" /\ pc' \in {"leave", "ran"} /\ pass = 2
      /\ cmd.kind \in {"exit", "builtin"}
      /\ UNCHANGED <<stage, doc, pass, temp, fd, search, exited, changes>>
  BY DEF Builtin, SInv, BackedUp
<1>2. Untouched' /\ MayOpen'
  BY <1>1, StillUntouched DEF Prepared
<1>3. Searching' /\ Chosen'
  BY <1>1 DEF RInv, Searching, Chosen, stage, search
<1>4. Expected' = Expected
  BY <1>1, Decided
<1>5. ~CannotOpen
  BY <1>1, NothingFailed
<1>6. Expected = OfBuiltin
  BY <1>1, <1>5 DEF Expected, OfCommand
<1>7. status = before => status' = OfBuiltin
  BY <1>1 DEF Builtin, SkipBuiltin, Set, OfBuiltin
<1>8. StatusInv'
  BY <1>1, <1>4, <1>6, <1>7 DEF RInv, StatusInv, stage
<1> QED
  BY <1>2, <1>3, <1>8 DEF RInv

LEMMA RanRInv == ASSUME SInv, RInv, Ran PROVE RInv'
<1>1. /\ pc = "ran" /\ pc' = "leave"
      /\ UNCHANGED <<stage, doc, pass, temp, fd, status, search, exited, changes>>
  BY DEF Ran
<1>2. (Untouched' /\ MayOpen') /\ Expected' = Expected
  BY <1>1, StillUntouched, Decided DEF Prepared
<1>3. Searching' /\ Chosen' /\ StatusInv'
  BY <1>1, <1>2 DEF RInv, Searching, Chosen, StatusInv, stage, search
<1> QED
  BY <1>2, <1>3 DEF RInv

(* A name with a slash. *)
LEMMA CheckFileRInv == ASSUME SInv, RInv, CheckFile PROVE RInv'
<1>1. /\ pc = "logic" /\ cmd.kind = "slash"
      /\ pc' \in {"execve", "leave"} /\ cmd.file \in Files
      /\ UNCHANGED <<stage, doc, pass, temp, fd, search, exited, changes>>
  BY ListFacts DEF CheckFile, SInv, CommandType
<1>2. (Untouched' /\ MayOpen') /\ Expected' = Expected
  BY <1>1, StillUntouched, Decided DEF Prepared
<1>3. Searching' /\ Chosen'
  BY <1>1 DEF CheckFile, RInv, Searching, Chosen, stage, search
<1>4. ~CannotOpen
  BY <1>1, NothingFailed DEF Prepared
<1>5. Expected = OfFile
  BY <1>1, <1>4 DEF Expected, OfCommand
<1>6. ASSUME status = before, pc' = "leave" PROVE status' = OfFile
  BY <1>1, <1>6 DEF CheckFile, OfFile, Files
<1>7. pc' = "execve" => status' = status
  BY <1>1 DEF CheckFile
<1>8. StatusInv'
  BY <1>1, <1>2, <1>5, <1>6, <1>7 DEF RInv, StatusInv, stage
<1> QED
  BY <1>2, <1>3, <1>8 DEF RInv

(***************************************************************************)
(* The search through PATH.  Of the entries that can be executed it takes  *)
(* the first, of those that only exist the last.                           *)
(***************************************************************************)
LEMMA FirstExec ==
  ASSUME TypeOK, path # Unset, i \in 1 .. Len(path), path[i] = "exec",
         \A k \in 1 .. i - 1 : path[k] # "exec"
  PROVE  Found = i /\ ~NotFound
<1>1. Len(path) \in Nat /\ i \in Nat
  BY ListFacts
<1> DEFINE execs == Candidates("exec")
           first(k) == \A h \in execs : k <= h
<1>2. i \in execs /\ \A k \in execs : k \in Nat /\ k >= i
  BY <1>1 DEF Candidates
<1>3. first(i) /\ \A k \in execs : first(k) => k = i
  BY <1>1, <1>2
<1>4. Found = CHOOSE k \in execs : first(k)
  BY <1>2 DEF Found
<1> HIDE DEF execs, first
<1>5. Found = i
  BY <1>2, <1>3, <1>4
<1> QED
  BY <1>2, <1>5 DEF NotFound, execs

LEMMA LastPlain ==
  ASSUME TypeOK, path # Unset, store \in 1 .. Len(path), path[store] = "plain",
         \A k \in 1 .. Len(path) : /\ path[k] # "exec"
                                   /\ path[k] = "plain" => k <= store
  PROVE  Found = store /\ ~NotFound
<1>1. Len(path) \in Nat /\ store \in Nat
  BY ListFacts
<1> DEFINE plains == Candidates("plain")
           last(k) == \A h \in plains : h <= k
<1>2. store \in plains /\ \A k \in plains : k \in Nat /\ k <= store
  BY <1>1 DEF Candidates
<1>3. last(store) /\ \A k \in plains : last(k) => k = store
  BY <1>1, <1>2
<1>4. Candidates("exec") = {}
  BY DEF Candidates
<1>5. Found = CHOOSE k \in plains : last(k)
  BY <1>4 DEF Found
<1> HIDE DEF plains, last
<1>6. Found = store
  BY <1>2, <1>3, <1>5
<1> QED
  BY <1>2, <1>6 DEF NotFound, plains

LEMMA LookupRInv == ASSUME SInv, RInv, Lookup PROVE RInv'
<1>1. /\ pc = "logic" /\ cmd.kind = "name" /\ path # Unset
      /\ i \in 1 .. Len(path) /\ i \in Nat /\ Len(path) \in Nat /\ TypeOK
      /\ UNCHANGED <<stage, doc, pass, temp, fd, status, exited, changes>>
      /\ pc' \in {"execve", "logic"}
  BY ListFacts DEF Lookup, SInv, TypeOK
<1>2. (Untouched' /\ MayOpen') /\ Expected' = Expected
  BY <1>1, StillUntouched, Decided DEF Prepared
<1>3. /\ Found' = Found /\ (NotFound' <=> NotFound)
      /\ cmd' = cmd /\ path' = path /\ before' = before
  BY <1>1, Decided DEF stage
<1>4. StatusInv'
  BY <1>1, <1>3 DEF RInv, StatusInv
<1>5. /\ \A k \in 1 .. i - 1 : /\ path[k] # "exec"
                               /\ path[k] = "plain" => k <= store
      /\ store # 0 => store < i /\ path[store] = "plain"
      /\ store \in Nat
  BY <1>1, ListFacts DEF RInv, Searching, TypeOK
<1>6. CASE path[i] = "exec"
  <2>1. Found = i /\ ~NotFound
    BY <1>1, <1>5, <1>6, FirstExec
  <2>2. /\ command' = i /\ pc' = "execve" /\ store' = store
    BY <1>6 DEF Lookup
  <2>3. Searching' /\ Chosen'
    BY <1>1, <1>3, <2>1, <2>2 DEF RInv, Searching, Chosen
  <2> QED
    BY <1>2, <1>4, <2>3 DEF RInv
<1>7. CASE path[i] # "exec"
  <2>1. /\ pc' = "logic" /\ i' = i + 1
        /\ store' = IF path[i] = "plain" THEN i ELSE store
    BY <1>1, <1>7 DEF Lookup
  <2>2. \A k \in 1 .. i' - 1 : /\ path[k] # "exec"
                               /\ path[k] = "plain" => k <= store'
    BY <1>1, <1>5, <1>7, <2>1
  <2>3. store' # 0 => store' < i' /\ path[store'] = "plain"
    BY <1>1, <1>5, <2>1
  <2>4. Searching' /\ Chosen'
    BY <1>1, <1>3, <2>1, <2>2, <2>3 DEF Searching, Chosen
  <2> QED
    BY <1>2, <1>4, <2>4 DEF RInv
<1> QED
  BY <1>6, <1>7

LEMMA LookupEndsRInv == ASSUME SInv, RInv, LookupEnds PROVE RInv'
<1>1. /\ pc = "logic" /\ cmd.kind = "name" /\ TypeOK
      /\ UNCHANGED <<stage, doc, pass, temp, fd, i, store, exited, changes>>
      /\ pc' \in {"execve", "leave"}
  BY DEF LookupEnds, SInv
<1>2. (Untouched' /\ MayOpen') /\ Expected' = Expected
  BY <1>1, StillUntouched, Decided DEF Prepared
<1>3. /\ Found' = Found /\ (NotFound' <=> NotFound)
      /\ cmd' = cmd /\ path' = path /\ before' = before
  BY <1>1, Decided DEF stage
<1>4. ~CannotOpen
  BY <1>1, NothingFailed DEF Prepared
<1>5. Searching'
  BY <1>1, <1>3 DEF RInv, Searching
<1>6. path # Unset =>
        /\ i = Len(path) + 1 /\ Len(path) \in Nat /\ store \in 0 .. Len(path)
        /\ \A k \in 1 .. Len(path) : /\ path[k] # "exec"
                                     /\ path[k] = "plain" => k <= store
        /\ store # 0 => path[store] = "plain"
  <2> SUFFICES ASSUME path # Unset
               PROVE  /\ i = Len(path) + 1 /\ Len(path) \in Nat
                      /\ store \in 0 .. Len(path)
                      /\ \A k \in 1 .. Len(path) :
                           /\ path[k] # "exec"
                           /\ path[k] = "plain" => k <= store
                      /\ store # 0 => path[store] = "plain"
    OBVIOUS
  <2>1. i = Len(path) + 1 /\ Len(path) \in Nat /\ store \in 0 .. Len(path)
    BY <1>1, ListFacts DEF LookupEnds, TypeOK
  <2> QED
    BY <1>1, <2>1 DEF RInv, Searching
<1>7. CASE path = Unset \/ store # 0
  <2>1. command' = store /\ pc' = "execve" /\ status' = status
    BY <1>7 DEF LookupEnds
  <2>2. Found = store /\ ~NotFound
    <3>1. CASE path = Unset
      BY <3>1 DEF RInv, Searching, Found, NotFound
    <3>2. CASE path # Unset
      BY <1>1, <1>6, <1>7, <3>2, LastPlain
    <3> QED
      BY <3>1, <3>2
  <2>3. Chosen'
    BY <1>1, <1>3, <2>1, <2>2 DEF Chosen
  <2>4. StatusInv'
    BY <1>1, <1>3, <2>1 DEF RInv, StatusInv
  <2> QED
    BY <1>2, <1>5, <2>3, <2>4 DEF RInv
<1>8. CASE path # Unset /\ store = 0
  <2>1. status' = 127 /\ pc' = "leave"
    BY <1>8 DEF LookupEnds
  <2>2. NotFound
    BY <1>6, <1>8 DEF NotFound, Candidates
  <2>3. Expected = 127
    BY <1>1, <1>4, <2>2 DEF Expected, OfCommand, OfName
  <2>4. Chosen' /\ StatusInv'
    BY <1>1, <1>2, <2>1, <2>3 DEF RInv, Chosen, StatusInv
  <2> QED
    BY <1>2, <1>5, <2>4 DEF RInv
<1> QED
  BY <1>7, <1>8

(***************************************************************************)
(* What was chosen is executed.                                            *)
(***************************************************************************)
LEMMA ExecveRInv == ASSUME SInv, RInv, Execve PROVE RInv'
<1>1. /\ pc = "execve" /\ pc' = "running"
      /\ UNCHANGED <<stage, doc, pass, temp, fd, status, search, exited, changes>>
  BY DEF Execve
<1>2. (Untouched' /\ MayOpen') /\ Found' = Found /\ (NotFound' <=> NotFound)
  BY <1>1, StillUntouched, Decided DEF Prepared
<1>3. Searching' /\ Chosen' /\ StatusInv'
  BY <1>1, <1>2 DEF RInv, Searching, Chosen, StatusInv, stage, search
<1> QED
  BY <1>2, <1>3 DEF RInv

(* The status after a refusal is the one expected of what was found. *)
LEMMA RefusedStatus ==
  ASSUME SInv, RInv, ExecveFails, status = before
  PROVE  status' = Expected
<1>1. /\ pc = "execve" /\ cmd \in CommandType /\ Refusal # "ok"
      /\ status' = ExecveError(Refusal)
  BY ListFacts DEF SInv, ExecveFails
<1>2. Expected = OfCommand
  BY <1>1, NothingFailed DEF Expected, Prepared
<1>3. cmd.execve \in {"ok", "EACCES", "ENOTDIR", "ENOENT"}
  BY <1>1 DEF CommandType
<1>4. ASSUME cmd.execve # "ok" PROVE ExecveError(cmd.execve) = AfterExecve
  BY <1>3, <1>4 DEF ExecveError, AfterExecve, ByRegister
<1>5. CASE cmd.kind = "slash"
  <2>1. cmd.file = "exec" /\ Refusal = cmd.execve
    BY <1>1, <1>5 DEF RInv, Chosen, Refusal
  <2>2. OfCommand = OfFile /\ OfFile = AfterExecve
    BY <1>5, <2>1 DEF OfCommand, OfFile
  <2> QED
    BY <1>1, <1>2, <1>4, <2>1, <2>2
<1>6. CASE cmd.kind = "name"
  <2>1. command = Found /\ ~NotFound
    BY <1>1, <1>6 DEF RInv, Chosen
  <2>2. OfCommand = OfName
    BY <1>6 DEF OfCommand
  <2>3. CASE path # Unset /\ path[Found] = "plain"
    <3>1. Refusal = "EACCES" /\ OfName = 126
      BY <1>6, <2>1, <2>3 DEF Refusal, OfName
    <3> QED
      BY <1>1, <1>2, <2>2, <3>1 DEF ExecveError
  <2>4. CASE ~(path # Unset /\ path[Found] = "plain")
    <3>1. Refusal = cmd.execve /\ OfName = AfterExecve
      BY <1>6, <2>1, <2>4 DEF Refusal, OfName
    <3> QED
      BY <1>1, <1>2, <1>4, <2>2, <3>1
  <2> QED
    BY <2>3, <2>4
<1> QED
  BY <1>1, <1>5, <1>6 DEF RInv, Chosen

LEMMA ExecveFailsRInv == ASSUME SInv, RInv, ExecveFails PROVE RInv'
<1>1. /\ pc = "execve" /\ pc' = "leave"
      /\ UNCHANGED <<stage, doc, pass, temp, fd, search, exited, changes>>
  BY DEF ExecveFails
<1>2. (Untouched' /\ MayOpen') /\ Expected' = Expected
  BY <1>1, StillUntouched, Decided DEF Prepared
<1>3. Searching' /\ Chosen'
  BY <1>1 DEF RInv, Searching, Chosen, stage, search
<1>4. StatusInv'
  BY <1>1, <1>2, RefusedStatus DEF RInv, StatusInv
<1> QED
  BY <1>2, <1>3, <1>4 DEF RInv

LEMMA LeaveRInv == ASSUME SInv, RInv, Leave PROVE RInv'
<1>1. /\ pc \in {"leave", "failed"} /\ pc' = "exited"
      /\ exited' = IF pc = "leave" THEN status % 256 ELSE 1
      /\ UNCHANGED <<stage, doc, pass, temp, search, changes>>
  BY DEF Leave
<1>2. Full(Inherited)' <=> Full(Inherited)
  BY <1>1, Decided
<1>3. Expected' = Expected
  BY <1>1, Decided
<1>4. Untouched' /\ MayOpen'
  BY <1>1, <1>2 DEF RInv, Untouched, MayOpen, Prepared, stage
<1>5. Searching' /\ Chosen'
  BY <1>1 DEF RInv, Searching, Chosen, stage, search
<1>6. changes = 0 => exited' = Expected % 256
  <2>1. CannotOpen => Expected = 1 /\ Expected % 256 = 1
    BY DEF Expected
  <2> QED
    BY <1>1, <2>1 DEF RInv, StatusInv
<1>7. StatusInv'
  BY <1>1, <1>3, <1>6 DEF RInv, StatusInv
<1> QED
  BY <1>4, <1>5, <1>7 DEF RInv

LEMMA RemoveRInv == ASSUME SInv, RInv, RemoveDocument PROVE RInv'
<1>1. /\ pc \in {"redir", "logic"} /\ doc # "none" /\ doc' # "none"
      /\ UNCHANGED <<stage, pc, pass, temp, fd, status, search, exited>>
  BY DEF RemoveDocument
<1>2. /\ Inherited' = Inherited /\ (Full(Inherited)' <=> Full(Inherited))
      /\ Found' = Found /\ (NotFound' <=> NotFound)
  BY <1>1, Decided
<1>3. Untouched' /\ MayOpen'
  BY <1>1, <1>2 DEF RInv, Untouched, MayOpen, Prepared, BackedUp, stage
<1>4. Searching' /\ Chosen'
  BY <1>1, <1>2 DEF RInv, Searching, Chosen, stage, search
<1>5. changes' # 0
  BY DEF RemoveDocument, SInv, TypeOK
<1> QED
  BY <1>3, <1>4, <1>5 DEF RInv, StatusInv

LEMMA StepRInv == ASSUME SInv, RInv, [Next]_vars PROVE RInv'
<1>1. CASE UNCHANGED vars
  <2>1. UNCHANGED <<stage, doc, pc, pass, temp, fd, status, search, exited,
                    changes>>
    BY <1>1 DEF vars
  <2>2. /\ Inherited' = Inherited /\ (Full(Inherited)' <=> Full(Inherited))
        /\ Found' = Found /\ (NotFound' <=> NotFound)
        /\ (CannotOpen' <=> CannotOpen) /\ Expected' = Expected
    BY <2>1, Decided
  <2>3. Untouched' /\ MayOpen'
    BY <2>1, <2>2 DEF RInv, Untouched, MayOpen, Prepared, BackedUp, stage
  <2>4. Searching' /\ Chosen' /\ StatusInv'
    BY <2>1, <2>2 DEF RInv, Searching, Chosen, StatusInv, stage, search
  <2> QED
    BY <2>3, <2>4 DEF RInv
<1>2. CASE Next
  BY <1>1, <1>2, OpenRInv, FailRInv, OpenAllRInv, DocumentRInv, PassRInv, BuiltinRInv,
     RanRInv, CheckFileRInv, LookupRInv, LookupEndsRInv, ExecveRInv, ExecveFailsRInv,
     LeaveRInv, RemoveRInv
  DEF Next, Done
<1> QED
  BY <1>1, <1>2

(***************************************************************************)
(* What a stage chooses to execute, and what it exits with when it runs    *)
(* nothing (get_command, check_file, execve_error, get_status): the first  *)
(* executable entry of PATH, of any length, or the last that exists; and   *)
(* the status of its redirections, its builtin or its search, also when    *)
(* the table was full or every redirection was made twice.                 *)
(***************************************************************************)
THEOREM StageStatus == Spec => []StatusOfStage
<1>1. Init => SInv /\ RInv
  BY InitSInv, InitRInv
<1>2. SInv /\ RInv /\ [Next]_vars => (SInv /\ RInv)'
  BY StepSInv, StepRInv
<1>3. SInv /\ RInv => StatusOfStage
  BY DEF RInv, Chosen, StatusInv, StatusOfStage
<1> QED
  BY <1>1, <1>2, <1>3, PTL DEF Spec

=============================================================================
