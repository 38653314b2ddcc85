---------------------------- MODULE HeredocProofs ----------------------------
(***************************************************************************)
(* Proofs about Heredoc, for lines of any length with any number of        *)
(* here-documents, any number of interrupts between any two steps, and     *)
(* tables of any size.                                                     *)
(***************************************************************************)
EXTENDS Heredoc, ShellTablesProofs

(* From the opening of the temporary file to its close, *)
Writing == {"arm", "reset", "reading", "close"}

(* in one here-document, and in one command. *)
InDocument == Writing \cup {"open", "name", "create", "test"}
InCommand  == InDocument \cup {"restore", "rearm", "check"}

(***************************************************************************)
(* The inductive invariant, in parts.  Where the shell is:                 *)
(***************************************************************************)
PlaceInv ==
  /\ pc \in InCommand => cmd \in DOMAIN line
  /\ pc \in InDocument => start < line[cmd].docs
  /\ pc = "execute" => cmd = Len(line) + 1

(* where the temporary file is open while the terminal is standard input;  *)
WriteInv ==
  pc \in Writing \ {"close"} /\ fd[0] = Tty =>
    docFd \in Fd /\ docFd # 0 /\ fd[docFd] = File

(* which files of the line are left, and what the next may be called;      *)
FilesInv ==
  /\ \A f \in files :
       /\ f.line <= count
       /\ f.line = count =>
            /\ f.cmd \in DOMAIN line
            /\ \/ f.doc = line[f.cmd].docs - 1
               \/ pc \in Writing /\ f = join
  /\ pc \in Writing \cup {"create"} =>
       /\ join.line <= count
       /\ join.line = count =>
            /\ join.cmd \in DOMAIN line
            /\ join.doc = line[join.cmd].docs - 1 \/ join = Name(cmd, start)

(* what the descriptors refer to: the terminal, unless an interrupt closed *)
(* standard input; the backup, and the temporary file;                     *)
TableInv ==
  /\ fd[1] = Tty /\ fd[2] = Tty
  /\ fd[0] \in {Tty, Closed} \/ (pc \in Writing \cup {"name"} /\ docFd = 0)
  /\ pc \in {"scan", "execute"} => fd[0] = Tty
  /\ pc \in {"rearm", "check"} => fd[0] = Tty \/ gValue = SIGINT
  /\ pc \in InDocument \cup {"restore"} =>
       save \in Fd /\ save > 2 /\ fd[save] = Tty
  /\ pc \in Writing \cup {"name"} => docFd \in Fd \ {save, 1, 2}
  /\ \A f \in Fd : f > 2 =>
       \/ fd[f] = Closed
       \/ pc \in InDocument \cup {"restore"} /\ f = save
       \/ pc \in Writing \cup {"name"} /\ f = docFd

(* when the handler of the prompt is in place;                             *)
HandlerInv ==
  pc \in {"scan", "check", "abandoned", "execute", "prompt", "exit"} =>
    handler = "my_handler"

(* and which commands have their file.                                     *)
HasFile(c) == herdocFile[c] = Name(c, line[c].docs - 1) /\ herdocFile[c] \in files

ReadInv ==
  /\ pc \in InCommand \cup {"scan", "execute"} =>
       \A c \in 1 .. cmd - 1 : line[c].docs > 0 => HasFile(c)
  /\ pc \in Writing => Name(cmd, start) \in files
  /\ pc \in Writing \cup {"create"} => join = Name(cmd, start)
  /\ pc = "test" /\ start = line[cmd].docs - 1 => HasFile(cmd)
  /\ pc \in {"restore", "rearm", "check"} => gValue = SIGINT \/ HasFile(cmd)

HInv ==
  /\ TypeOK /\ PlaceInv /\ WriteInv /\ FilesInv
  /\ fails = 0 => TableInv /\ HandlerInv /\ ReadInv

(* What the assumption says of a line. *)
LEMMA LineFacts ==
  ASSUME NEW l \in Lines
  PROVE  /\ Len(l) \in Nat /\ Len(l) > 0 /\ DOMAIN l = 1 .. Len(l)
         /\ \A c \in 1 .. Len(l) : l[c].docs \in Nat
<1> DEFINE Cmd == [docs : Nat, builtin : BOOLEAN]
<1>1. l \in Seq(Cmd) /\ Len(l) > 0
  BY HeredocAssumption
<1>2. \A x \in Cmd : x.docs \in Nat
  OBVIOUS
<1> HIDE DEF Cmd
<1> QED
  BY <1>1, <1>2

LEMMA Facts ==
  ASSUME TypeOK
  PROVE  /\ Len(line) \in Nat /\ Len(line) > 0 /\ DOMAIN line = 1 .. Len(line)
         /\ \A c \in 1 .. Len(line) : line[c].docs \in Nat
         /\ cmd \in Nat /\ start \in Nat /\ count \in Nat
         /\ fails \in Nat
<1>1. line \in Lines
  BY DEF TypeOK
<1>2. Len(line) \in Nat /\ MaxLines \in Nat /\ MaxFails \in Nat
  BY <1>1, LineFacts, HeredocAssumption
<1> QED
  BY <1>1, <1>2, LineFacts DEF TypeOK

(* The table of the prompt when nothing was left open. *)
LEMMA FirstTable ==
  /\ PromptTable({}) \in Table
  /\ \A f \in Fd : PromptTable({})[f] = IF f \in 0 .. 2 THEN Tty ELSE Closed
BY TargetTypes DEF PromptTable, Table

LEMMA InitHInv == ASSUME Init PROVE HInv
<1>1. TypeOK
  BY LineFacts, FirstTable, HeredocAssumption
  DEF Init, TypeOK, NoFile, SIGINT
<1>2. PlaceInv /\ WriteInv /\ FilesInv
  BY DEF Init, PlaceInv, WriteInv, FilesInv, InCommand, InDocument, Writing
<1>3. TableInv
  BY FirstTable, FdFacts
  DEF Init, TableInv, InDocument, Writing
<1>4. HandlerInv /\ ReadInv
  BY DEF Init, HandlerInv, ReadInv, InCommand, InDocument, Writing
<1> QED
  BY <1>1, <1>2, <1>3, <1>4 DEF HInv

-----------------------------------------------------------------------------
(***************************************************************************)
(* Steps that leave descriptors, files and the handler as they are.        *)
(***************************************************************************)
LEMMA SkipCommandStep == ASSUME HInv, SkipCommand PROVE HInv'
<1> USE Facts DEF HInv, SkipCommand, place, input, docs, bounds
<1>1. TypeOK'
  BY DEF TypeOK
<1>2. PlaceInv' /\ WriteInv' /\ FilesInv'
  BY DEF PlaceInv, WriteInv, FilesInv, InCommand, InDocument, Writing, Name
<1>3. fails = 0 => TableInv' /\ HandlerInv'
  BY DEF TableInv, HandlerInv, InDocument, Writing
<1>4. fails = 0 => ReadInv'
  BY DEF ReadInv, HasFile, Name, InCommand, InDocument, Writing
<1> QED
  BY <1>1, <1>2, <1>3, <1>4

LEMMA EndOfLineStep == ASSUME HInv, EndOfLine PROVE HInv'
<1> USE Facts DEF HInv, EndOfLine, place, input, docs, bounds
<1>1. TypeOK'
  BY DEF TypeOK
<1>2. PlaceInv' /\ WriteInv' /\ FilesInv'
  BY DEF TypeOK, PlaceInv, WriteInv, FilesInv, InCommand, InDocument, Writing, Name
<1>3. fails = 0 => TableInv' /\ HandlerInv'
  BY DEF TableInv, HandlerInv, InDocument, Writing
<1>4. fails = 0 => ReadInv'
  BY DEF ReadInv, HasFile, Name, InCommand, InDocument, Writing
<1> QED
  BY <1>1, <1>2, <1>3, <1>4

LEMMA ArmStep == ASSUME HInv, Arm PROVE HInv'
<1> USE Facts DEF HInv, Arm, place, input, docs, bounds
<1>1. TypeOK'
  BY DEF TypeOK
<1>2. PlaceInv' /\ WriteInv' /\ FilesInv'
  BY DEF TypeOK, PlaceInv, WriteInv, FilesInv, InCommand, InDocument, Writing, Name
<1>3. fails = 0 => TableInv' /\ HandlerInv'
  BY DEF TableInv, HandlerInv, InDocument, Writing
<1>4. fails = 0 => ReadInv'
  BY DEF ReadInv, HasFile, Name, InCommand, InDocument, Writing
<1> QED
  BY <1>1, <1>2, <1>3, <1>4

LEMMA ResetStep == ASSUME HInv, Reset PROVE HInv'
<1> USE Facts DEF HInv, Reset, place, input, docs, bounds
<1>1. TypeOK'
  BY DEF TypeOK
<1>2. PlaceInv' /\ WriteInv' /\ FilesInv'
  BY DEF TypeOK, PlaceInv, WriteInv, FilesInv, InCommand, InDocument, Writing, Name
<1>3. fails = 0 => TableInv' /\ HandlerInv'
  BY DEF TableInv, HandlerInv, InDocument, Writing
<1>4. fails = 0 => ReadInv'
  BY DEF ReadInv, HasFile, Name, InCommand, InDocument, Writing
<1> QED
  BY <1>1, <1>2, <1>3, <1>4

LEMMA TypeDocumentStep == ASSUME HInv, TypeDocument PROVE HInv'
<1> USE Facts DEF HInv, TypeDocument, place, input, docs, bounds
<1>1. TypeOK'
  BY DEF TypeOK
<1>2. PlaceInv' /\ WriteInv' /\ FilesInv'
  BY DEF TypeOK, PlaceInv, WriteInv, FilesInv, InCommand, InDocument, Writing, Name
<1>3. fails = 0 => TableInv' /\ HandlerInv'
  BY DEF TableInv, HandlerInv, InDocument, Writing
<1>4. fails = 0 => ReadInv'
  BY DEF ReadInv, HasFile, Name, InCommand, InDocument, Writing
<1> QED
  BY <1>1, <1>2, <1>3, <1>4

LEMMA ReadNothingStep == ASSUME HInv, ReadNothing PROVE HInv'
<1> USE Facts DEF HInv, ReadNothing, place, input, docs, bounds
<1>1. TypeOK'
  BY DEF TypeOK
<1>2. PlaceInv' /\ WriteInv' /\ FilesInv'
  BY DEF TypeOK, PlaceInv, WriteInv, FilesInv, InCommand, InDocument, Writing, Name
<1>3. fails = 0 => TableInv' /\ HandlerInv'
  BY DEF TableInv, HandlerInv, InDocument, Writing
<1>4. fails = 0 => ReadInv'
  BY DEF ReadInv, HasFile, Name, InCommand, InDocument, Writing
<1> QED
  BY <1>1, <1>2, <1>3, <1>4

LEMMA TestInterruptStep == ASSUME HInv, TestInterrupt PROVE HInv'
<1> USE Facts DEF HInv, TestInterrupt, place, input, docs, bounds
<1>1. TypeOK'
  <2>1. start' \in Nat /\ status' \in {0, 130} /\ pc' \in {"open", "restore"}
    BY DEF TypeOK
  <2>2. UNCHANGED <<place, input, handler, gValue, docs, bounds>> /\ TypeOK
    OBVIOUS
  <2> QED
    BY ONLY <2>1, <2>2 DEF TypeOK, place, input, docs, bounds
<1>2. /\ cmd \in DOMAIN line /\ line[cmd].docs \in Nat
      /\ start \in Nat /\ start < line[cmd].docs
  <2>1. TypeOK /\ PlaceInv /\ pc = "test"
    OBVIOUS
  <2>2. cmd \in DOMAIN line /\ start < line[cmd].docs
    BY ONLY <2>1 DEF PlaceInv, InCommand, InDocument
  <2> QED
    BY ONLY <2>1, <2>2, Facts
<1>3. start' \in Nat /\ (pc' = "open" => start' < line[cmd].docs)
      /\ pc' \in {"open", "restore"}
  BY <1>2
<1>4. PlaceInv'
  BY <1>2, <1>3 DEF PlaceInv, InCommand, InDocument, Writing
<1>5. WriteInv'
  BY <1>3 DEF WriteInv, Writing
<1>6. FilesInv'
  BY <1>3 DEF FilesInv, Name, Writing
<1>7. fails = 0 => TableInv' /\ HandlerInv'
  BY DEF TableInv, HandlerInv, InDocument, Writing
<1>8. fails = 0 => ReadInv'
  <2>1. pc' = "restore" => gValue = SIGINT \/ start = line[cmd].docs - 1
    BY <1>2
  <2>2. fails = 0 =>
          /\ \A c \in 1 .. cmd - 1 : line[c].docs > 0 => HasFile(c)
          /\ start = line[cmd].docs - 1 => HasFile(cmd)
    BY DEF ReadInv, InCommand, InDocument
  <2>3. \A c : HasFile(c)' <=> HasFile(c)
    BY DEF HasFile, Name
  <2> QED
    BY <1>3, <2>1, <2>2, <2>3 DEF ReadInv, Writing
<1> QED
  BY <1>1, <1>4, <1>5, <1>6, <1>7, <1>8

LEMMA RearmStep == ASSUME HInv, Rearm PROVE HInv'
<1> USE Facts DEF HInv, Rearm, place, input, docs, bounds
<1>1. TypeOK'
  BY DEF TypeOK
<1>2. PlaceInv' /\ WriteInv' /\ FilesInv'
  BY DEF TypeOK, PlaceInv, WriteInv, FilesInv, InCommand, InDocument, Writing, Name
<1>3. fails = 0 => TableInv' /\ HandlerInv'
  BY DEF TableInv, HandlerInv, InDocument, Writing
<1>4. fails = 0 => ReadInv'
  BY DEF ReadInv, HasFile, Name, InCommand, InDocument, Writing
<1> QED
  BY <1>1, <1>2, <1>3, <1>4

LEMMA CheckStep == ASSUME HInv, Check PROVE HInv'
<1> USE Facts DEF HInv, Check, place, input, docs, bounds
<1>1. cmd \in DOMAIN line /\ pc' \in {"abandoned", "scan"}
  BY DEF PlaceInv, InCommand
<1>2. TypeOK'
  <2>1. cmd' \in 1 .. Len(line) + 1
    BY <1>1
  <2>2. /\ TypeOK /\ pc' \in {"abandoned", "scan"}
        /\ UNCHANGED <<count, line, start, input, handler, gValue, docs, status,
                       bounds>>
    BY <1>1
  <2> QED
    BY ONLY <2>1, <2>2 DEF TypeOK, input, docs, bounds
<1>3. PlaceInv' /\ WriteInv'
  <2>1. PlaceInv'
    BY <1>1 DEF PlaceInv, InCommand, InDocument, Writing
  <2>2. WriteInv'
    BY <1>1 DEF WriteInv, InDocument, Writing
  <2> QED
    BY ONLY <2>1, <2>2
<1>4. FilesInv'
  BY <1>1 DEF FilesInv, Name, Writing
<1>5. fails = 0 => TableInv' /\ HandlerInv'
  BY DEF TableInv, HandlerInv, InDocument, Writing
<1>6. fails = 0 => ReadInv'
  <2>1. fails = 0 =>
          /\ \A c \in 1 .. cmd - 1 : line[c].docs > 0 => HasFile(c)
          /\ gValue = SIGINT \/ HasFile(cmd)
    BY DEF ReadInv, InCommand
  <2>2. \A c : HasFile(c)' <=> HasFile(c)
    BY DEF HasFile, Name
  <2>3. pc' = "scan" => cmd' = cmd + 1 /\ gValue # SIGINT
    OBVIOUS
  <2>4. fails = 0 /\ pc' = "scan" =>
          \A c \in 1 .. cmd' - 1 : line[c].docs > 0 => HasFile(c)
    BY <1>1, <2>1, <2>3
  <2> QED
    BY <1>1, <2>2, <2>4 DEF ReadInv, InCommand, InDocument, Writing
<1> QED
  BY <1>2, <1>3, <1>4, <1>5, <1>6

LEMMA AbandonStep == ASSUME HInv, Abandon PROVE HInv'
<1> USE Facts DEF HInv, Abandon, place, input, docs, bounds
<1>1. TypeOK'
  BY DEF TypeOK
<1>2. PlaceInv' /\ WriteInv' /\ FilesInv'
  BY DEF TypeOK, PlaceInv, WriteInv, FilesInv, InCommand, InDocument, Writing, Name
<1>3. fails = 0 => TableInv' /\ HandlerInv'
  BY DEF TableInv, HandlerInv, InDocument, Writing
<1>4. fails = 0 => ReadInv'
  BY DEF ReadInv, HasFile, Name, InCommand, InDocument, Writing
<1> QED
  BY <1>1, <1>2, <1>3, <1>4

LEMMA LeaveStep == ASSUME HInv, Leave PROVE HInv'
<1> USE Facts DEF HInv, Leave, place, input, docs, bounds
<1>1. TypeOK'
  BY DEF TypeOK
<1>2. PlaceInv' /\ WriteInv' /\ FilesInv'
  BY DEF TypeOK, PlaceInv, WriteInv, FilesInv, InCommand, InDocument, Writing, Name
<1>3. fails = 0 => TableInv' /\ HandlerInv'
  BY DEF TableInv, HandlerInv, InDocument, Writing
<1>4. fails = 0 => ReadInv'
  BY DEF ReadInv, HasFile, Name, InCommand, InDocument, Writing
<1> QED
  BY <1>1, <1>2, <1>3, <1>4

-----------------------------------------------------------------------------
(* No step at all. *)
LEMMA NoStep == ASSUME HInv, UNCHANGED vars PROVE HInv'
<1> USE DEF HInv, vars, place, input, docs, bounds
<1>1. TypeOK'
  BY DEF TypeOK
<1>2. PlaceInv' /\ WriteInv' /\ FilesInv'
  BY DEF PlaceInv, WriteInv, FilesInv, Name
<1>3. TableInv' <=> TableInv
  BY DEF TableInv
<1>4. (HandlerInv' <=> HandlerInv) /\ (ReadInv' <=> ReadInv)
  BY DEF HandlerInv, ReadInv, HasFile, Name
<1> QED
  BY <1>1, <1>2, <1>3, <1>4

(* What happens between two lines. *)
LEMMA NextLineStep == ASSUME HInv, NextLine PROVE HInv'
<1> USE Facts DEF HInv, NextLine, place, input, docs, bounds
<1>1. /\ line' \in Lines /\ cmd' = 1 /\ count' = count + 1
      /\ herdocFile' = [c \in DOMAIN line' |-> NoFile]
      /\ count \in 1 .. MaxLines /\ count < MaxLines /\ MaxLines \in Nat
  BY HeredocAssumption DEF TypeOK
<1>2. Len(line') \in Nat /\ Len(line') > 0
  BY <1>1, LineFacts
<1>3. NoFile \in [line : Nat, cmd : Nat, doc : Nat]
  BY DEF NoFile
<1>4. TypeOK'
  BY <1>1, <1>2, <1>3 DEF TypeOK
<1>5. PlaceInv' /\ WriteInv'
  BY DEF PlaceInv, WriteInv, InCommand, InDocument, Writing
<1>6. FilesInv'
  <2>1. \A f \in files : f.line <= count /\ f.line \in Nat
    BY DEF FilesInv, TypeOK
  <2> QED
    BY <1>1, <2>1 DEF FilesInv, Writing
<1>7. fails = 0 => TableInv'
  BY DEF TableInv, InDocument, Writing
<1>8. fails = 0 => HandlerInv' /\ ReadInv'
  BY <1>1 DEF HandlerInv, ReadInv, InCommand, InDocument, Writing
<1> QED
  BY <1>4, <1>5, <1>6, <1>7, <1>8

LEMMA RandomFailsStep == ASSUME HInv, RandomFails PROVE HInv'
<1> USE Facts DEF HInv, place, input, docs, bounds
<1>1. /\ pc = "open" /\ pc' = "create" /\ fails < MaxFails /\ fails' = fails + 1
      /\ join' \in files \cup {Name(cmd, start)}
      /\ UNCHANGED <<place, start, input, handler, gValue, herdocFile, files,
                     status, sigs>>
  BY DEF RandomFails
<1>2. cmd \in DOMAIN line
  BY <1>1 DEF PlaceInv, InCommand, InDocument
<1>3. join' \in [line : Nat, cmd : Nat, doc : Nat]
  <2>1. Name(cmd, start) \in [line : Nat, cmd : Nat, doc : Nat]
    BY DEF Name
  <2> QED
    BY <1>1, <2>1 DEF TypeOK
<1>4. TypeOK'
  <2>1. TypeOK /\ MaxFails \in Nat
    BY HeredocAssumption
  <2> QED
    BY ONLY <1>1, <1>3, <2>1 DEF TypeOK, place, input
<1>5. PlaceInv' /\ WriteInv'
  BY <1>1 DEF PlaceInv, WriteInv, InCommand, InDocument, Writing
<1>6. FilesInv'
  BY <1>1, <1>2 DEF FilesInv, Name, Writing
<1>7. fails' # 0
  BY <1>1
<1> QED
  BY <1>4, <1>5, <1>6, <1>7

LEMMA CreateFailsStep == ASSUME HInv, CreateFails PROVE HInv'
<1> USE Facts DEF HInv, CreateFails, place, input, docs, bounds
<1>1. TypeOK'
  BY HeredocAssumption DEF TypeOK, NoFile
<1>2. PlaceInv' /\ WriteInv' /\ FilesInv'
  BY DEF PlaceInv, WriteInv, FilesInv, InCommand, InDocument, Writing, Name
<1>3. fails' # 0
  OBVIOUS
<1> QED
  BY <1>1, <1>2, <1>3

-----------------------------------------------------------------------------
(***************************************************************************)
(* The backup: at a prompt nothing above 2 is open, so that there is a     *)
(* free descriptor, and it is above 2.                                     *)
(***************************************************************************)
LEMMA BeginStep == ASSUME HInv, Begin PROVE HInv'
<1> USE Facts DEF HInv, place, input, docs, bounds
<1>1. /\ pc = "scan" /\ cmd \in DOMAIN line /\ line[cmd].docs > 0
      /\ start' = 0 /\ pc' = "open"
      /\ UNCHANGED <<place, docFd, handler, gValue, docs, status, bounds>>
  BY DEF Begin, TypeOK
<1>2. CASE (fd[0] = Closed \/ Full(fd)) /\ save' = NoFd /\ fd' = fd
  <2>1. TypeOK'
    BY <1>1, <1>2 DEF TypeOK
  <2>2. PlaceInv' /\ WriteInv' /\ FilesInv'
    BY <1>1, <1>2 DEF PlaceInv, WriteInv, FilesInv, InCommand, InDocument,
      Writing, Name
  <2>3. fails # 0
    <3>1. SUFFICES ASSUME fails = 0, TableInv PROVE FALSE
      OBVIOUS
    <3>2. fd[0] = Tty /\ (3 \in Fd /\ fd[3] = Closed)
      BY <1>1, <3>1, NumFdAssumption DEF TableInv, InDocument, Writing, Fd
    <3> QED
      BY <1>2, <3>2, Targets DEF Full
  <2> QED
    BY <1>1, <2>1, <2>2, <2>3
<1>3. CASE /\ fd[0] # Closed
           /\ \E s \in Fd : /\ IsLowestFree(fd, s)
                            /\ save' = s
                            /\ fd' = Put(fd, s, fd[0])
  <2>1. PICK s \in Fd : IsLowestFree(fd, s) /\ save' = s /\ fd' = Put(fd, s, fd[0])
    BY <1>3
  <2>2. /\ fd' \in Table
        /\ \A g \in Fd : fd'[g] = IF g = s THEN fd[0] ELSE fd[g]
    <3>1. fd \in Table /\ fd[0] \in Target
      BY FdFacts DEF TypeOK, Table
    <3> QED
      BY <2>1, <3>1, PutType
  <2>3. TypeOK'
    BY <1>1, <2>1, <2>2 DEF TypeOK
  <2>4. PlaceInv' /\ WriteInv' /\ FilesInv'
    BY <1>1 DEF PlaceInv, WriteInv, FilesInv, InCommand, InDocument,
      Writing, Name
  <2>5. fails = 0 => TableInv' /\ HandlerInv'
    <3>1. SUFFICES ASSUME fails = 0, TableInv PROVE TableInv' /\ HandlerInv'
      OBVIOUS
    <3>2. /\ \A g \in 0 .. 2 : fd[g] = Tty
          /\ \A g \in Fd : g > 2 => fd[g] = Closed
      BY <1>1, <3>1 DEF TableInv, InDocument, Writing
    <3>3. s \in Fd /\ fd[s] = Closed
      BY <2>1 DEF IsLowestFree
    <3>4. s > 2
      BY <3>2, <3>3, Targets, FdFacts DEF Fd
    <3>5. /\ \A g \in 0 .. 2 : fd'[g] = Tty
          /\ fd'[s] = Tty
          /\ \A g \in Fd : g > 2 => fd'[g] = Closed \/ g = s
      BY <2>2, <3>2, <3>3, <3>4, FdFacts DEF Fd
    <3> QED
      BY <1>1, <2>1, <3>4, <3>5
      DEF TableInv, HandlerInv, InDocument, Writing
  <2>6. fails = 0 => ReadInv'
    <3>1. fails = 0 => \A c \in 1 .. cmd - 1 : line[c].docs > 0 => HasFile(c)
      BY <1>1 DEF ReadInv
    <3> QED
      BY <1>1, <3>1 DEF ReadInv, HasFile, Name, Writing
  <2> QED
    BY <1>1, <2>3, <2>4, <2>5, <2>6
<1> QED
  BY <1>2, <1>3 DEF Begin

(* /dev/urandom and the temporary file are opened where nothing is open, *)
LEMMA OpenTable ==
  ASSUME TypeOK, TableInv, pc \in {"open", "create"},
         NEW f \in Fd, IsLowestFree(fd, f), docFd' = f, fd' = Put(fd, f, File),
         pc' \in {"name", "arm"}, save' = save
  PROVE  TableInv' /\ (fd[0] = Tty => f # 0)
<1>1. \A g \in Fd : fd'[g] = IF g = f THEN File ELSE fd[g]
  BY PutType, TargetTypes DEF TypeOK
<1>2. /\ fd[1] = Tty /\ fd[2] = Tty /\ fd[0] \in {Tty, Closed}
      /\ save \in Fd /\ save > 2 /\ fd[save] = Tty
      /\ \A g \in Fd : g > 2 => fd[g] = Closed \/ g = save
  BY DEF TableInv, InDocument, Writing
<1>3. fd[f] = Closed /\ f \notin {save, 1, 2}
  BY <1>2, Targets DEF IsLowestFree
<1>4. /\ fd'[1] = Tty /\ fd'[2] = Tty /\ fd'[save] = Tty
      /\ fd'[0] \in {Tty, Closed} \/ f = 0
      /\ \A g \in Fd : g > 2 => fd'[g] = Closed \/ g = save \/ g = f
  BY <1>1, <1>2, <1>3, FdFacts
<1> QED
  BY <1>2, <1>3, <1>4, Targets DEF TableInv, InDocument, Writing

(* and closed again. *)
LEMMA CloseTable ==
  ASSUME TypeOK, TableInv, pc \in {"name", "close"}, fd' = Close(fd, docFd),
         pc' \in {"create", "test"}, save' = save
  PROVE  TableInv'
<1>1. \A g \in Fd : fd'[g] = IF g = docFd THEN Closed ELSE fd[g]
  BY CloseType DEF TypeOK
<1>2. /\ fd[1] = Tty /\ fd[2] = Tty
      /\ fd[0] \in {Tty, Closed} \/ docFd = 0
      /\ save \in Fd /\ save > 2 /\ fd[save] = Tty
      /\ docFd \in Fd \ {save, 1, 2}
      /\ \A g \in Fd : g > 2 => fd[g] = Closed \/ g = save \/ g = docFd
  BY DEF TableInv, InDocument, Writing
<1>3. /\ fd'[1] = Tty /\ fd'[2] = Tty /\ fd'[save] = Tty
      /\ fd'[0] \in {Tty, Closed}
      /\ \A g \in Fd : g > 2 => fd'[g] = Closed \/ g = save
  BY <1>1, <1>2, FdFacts
<1> QED
  BY <1>2, <1>3 DEF TableInv, InDocument, Writing

LEMMA OpenRandomStep == ASSUME HInv, OpenRandom PROVE HInv'
<1> USE Facts DEF HInv, place, input, docs, bounds
<1>1. /\ pc = "open" /\ pc' = "name"
      /\ UNCHANGED <<place, start, save, handler, gValue, docs, status, bounds>>
  BY DEF OpenRandom
<1>2. PICK f \in Fd : IsLowestFree(fd, f) /\ docFd' = f /\ fd' = Put(fd, f, File)
  BY DEF OpenRandom
<1>3. fd' \in Table
  BY <1>2, PutType, TargetTypes DEF TypeOK
<1>4. TypeOK'
  BY <1>1, <1>2, <1>3 DEF TypeOK
<1>5. PlaceInv' /\ WriteInv'
  BY <1>1 DEF PlaceInv, WriteInv, InCommand, InDocument, Writing
<1>6. FilesInv'
  BY <1>1 DEF FilesInv, Name, Writing
<1>7. fails = 0 => TableInv' /\ HandlerInv'
  BY <1>1, <1>2, OpenTable DEF HandlerInv
<1>8. fails = 0 => ReadInv'
  <2>1. fails = 0 => \A c \in 1 .. cmd - 1 : line[c].docs > 0 => HasFile(c)
    BY <1>1 DEF ReadInv, InCommand, InDocument
  <2> QED
    BY <1>1, <2>1 DEF ReadInv, HasFile, Name, Writing
<1> QED
  BY <1>1, <1>4, <1>5, <1>6, <1>7, <1>8

LEMMA NameFileStep == ASSUME HInv, NameFile PROVE HInv'
<1> USE Facts DEF HInv, place, input, docs, bounds
<1>1. /\ pc = "name" /\ pc' = "create" /\ fd' = Close(fd, docFd)
      /\ join' = Name(cmd, start)
      /\ UNCHANGED <<place, start, save, docFd, handler, gValue, herdocFile,
                     files, status, bounds>>
  BY DEF NameFile
<1>2. fd' \in Table
  BY <1>1, CloseType DEF TypeOK
<1>3. cmd \in DOMAIN line /\ Name(cmd, start) \in [line : Nat, cmd : Nat, doc : Nat]
  BY <1>1 DEF PlaceInv, InCommand, InDocument, Name
<1>4. TypeOK'
  BY <1>1, <1>2, <1>3 DEF TypeOK
<1>5. PlaceInv' /\ WriteInv'
  BY <1>1 DEF PlaceInv, WriteInv, InCommand, InDocument, Writing
<1>6. FilesInv'
  BY <1>1, <1>3 DEF FilesInv, Name, Writing
<1>7. fails = 0 => TableInv' /\ HandlerInv'
  BY <1>1, CloseTable DEF HandlerInv
<1>8. fails = 0 => ReadInv'
  <2>1. fails = 0 => \A c \in 1 .. cmd - 1 : line[c].docs > 0 => HasFile(c)
    BY <1>1 DEF ReadInv, InCommand, InDocument
  <2> QED
    BY <1>1, <2>1 DEF ReadInv, HasFile, Name, Writing
<1> QED
  BY <1>1, <1>4, <1>5, <1>6, <1>7, <1>8

(* The loop that never ends changes nothing. *)
LEMMA ReadsNoNameStep == ASSUME HInv, ReadsNoName PROVE HInv'
<1>1. fd' = fd
  <2>1. fd \in Table /\ fd' \in Table /\ \A g \in Fd : fd'[g] = fd[g]
    BY CloseType DEF HInv, TypeOK, ReadsNoName
  <2> QED
    BY <2>1 DEF Table
<1> QED
  BY <1>1, NoStep DEF ReadsNoName, vars, place, input, docs, bounds

LEMMA CreateFileStep == ASSUME HInv, CreateFile PROVE HInv'
<1> USE Facts DEF HInv, place, input, docs, bounds
<1>1. /\ pc = "create" /\ pc' = "arm" /\ files' = files \cup {join}
      /\ UNCHANGED <<place, start, save, handler, gValue, join, herdocFile,
                     status, bounds>>
  BY DEF CreateFile
<1>2. PICK f \in Fd : IsLowestFree(fd, f) /\ docFd' = f /\ fd' = Put(fd, f, File)
  BY DEF CreateFile
<1>3. fd' \in Table /\ \A g \in Fd : fd'[g] = IF g = f THEN File ELSE fd[g]
  BY <1>2, PutType, TargetTypes DEF TypeOK
<1>4. cmd \in DOMAIN line
  BY <1>1 DEF PlaceInv, InCommand, InDocument
<1>5. TypeOK'
  BY <1>1, <1>2, <1>3 DEF TypeOK
<1>6. PlaceInv'
  BY <1>1, <1>4 DEF PlaceInv, InCommand, InDocument, Writing
<1>7. WriteInv'
  <2>1. File # Tty
    BY Targets DEF File, Tty
  <2> QED
    BY <1>2, <1>3, <2>1, FdFacts DEF WriteInv
<1>8. FilesInv'
  BY <1>1, <1>4 DEF FilesInv, Name, Writing
<1>9. fails = 0 => TableInv' /\ HandlerInv'
  BY <1>1, <1>2, OpenTable DEF HandlerInv
<1>10. fails = 0 => ReadInv'
  <2>1. fails = 0 =>
          /\ \A c \in 1 .. cmd - 1 : line[c].docs > 0 => HasFile(c)
          /\ join = Name(cmd, start)
    BY <1>1 DEF ReadInv, InCommand, InDocument
  <2> QED
    BY <1>1, <2>1 DEF ReadInv, HasFile, Name
<1> QED
  BY <1>1, <1>5, <1>6, <1>7, <1>8, <1>9, <1>10

(***************************************************************************)
(* The file is closed, and removed unless it is the last of the command.   *)
(***************************************************************************)
LEMMA CloseFileStep == ASSUME HInv, CloseFile PROVE HInv'
<1> USE Facts DEF HInv, place, input, docs, bounds
<1>1. /\ pc = "close" /\ pc' = "test" /\ fd' = Close(fd, docFd)
      /\ UNCHANGED <<place, start, save, docFd, handler, gValue, join, status,
                     bounds>>
  BY DEF CloseFile
<1>2. fd' \in Table /\ \A g \in Fd : fd'[g] = IF g = docFd THEN Closed ELSE fd[g]
  BY <1>1, CloseType DEF TypeOK
<1>3. cmd \in DOMAIN line /\ start < line[cmd].docs
  BY <1>1 DEF PlaceInv, InCommand, InDocument, Writing
<1>4. \/ /\ start = line[cmd].docs - 1
         /\ herdocFile' = [herdocFile EXCEPT ![cmd] = join]
         /\ files' = files
      \/ /\ start # line[cmd].docs - 1
         /\ files' = files \ {join}
         /\ herdocFile' = herdocFile
  BY DEF CloseFile
<1>5. join \in [line : Nat, cmd : Nat, doc : Nat]
  BY DEF TypeOK
<1>6. /\ herdocFile' \in [DOMAIN line -> [line : Nat, cmd : Nat, doc : Nat]]
      /\ files' \subseteq [line : Nat, cmd : Nat, doc : Nat]
  <2> DEFINE Place == [line : Nat, cmd : Nat, doc : Nat]
  <2>1. /\ herdocFile \in [DOMAIN line -> Place] /\ files \subseteq Place
        /\ join \in Place
    BY <1>5 DEF TypeOK
  <2> HIDE DEF Place
  <2>2. herdocFile' \in [DOMAIN line -> Place] /\ files' \subseteq Place
    BY <1>4, <2>1
  <2> QED
    BY <2>2 DEF Place
<1>7. TypeOK'
  <2>1. TypeOK
    OBVIOUS
  <2> QED
    BY ONLY <1>1, <1>2, <1>6, <2>1 DEF TypeOK, place, bounds
<1>8. PlaceInv' /\ WriteInv'
  BY <1>1, <1>3 DEF PlaceInv, WriteInv, InCommand, InDocument, Writing
<1>9. FilesInv'
  <2>1. SUFFICES ASSUME NEW f \in files, f \in files'
                 PROVE  /\ f.line <= count
                        /\ f.line = count => /\ f.cmd \in DOMAIN line
                                             /\ f.doc = line[f.cmd].docs - 1
    BY <1>1, <1>4 DEF FilesInv, Writing
  <2>2. CASE f = join
    <3>1. start = line[cmd].docs - 1
      BY <1>4, <2>1, <2>2
    <3> QED
      BY <1>1, <1>3, <2>2, <3>1 DEF FilesInv, Name, Writing
  <2>3. CASE f # join
    BY <2>3 DEF FilesInv
  <2> QED
    BY <2>2, <2>3
<1>10. fails = 0 => TableInv' /\ HandlerInv'
  BY <1>1, CloseTable DEF HandlerInv
<1>11. fails = 0 => ReadInv'
  <2>1. SUFFICES ASSUME fails = 0, ReadInv PROVE ReadInv'
    OBVIOUS
  <2>2. /\ \A c \in 1 .. cmd - 1 : line[c].docs > 0 => HasFile(c)
        /\ join = Name(cmd, start)
    BY <1>1, <2>1 DEF ReadInv, InCommand, InDocument, Writing
  <2>3. \A c \in 1 .. cmd - 1 : HasFile(c) => HasFile(c)'
    <3>1. SUFFICES ASSUME NEW c \in 1 .. cmd - 1, HasFile(c) PROVE HasFile(c)'
      OBVIOUS
    <3>2. c # cmd
      <4>1. cmd \in Nat /\ c \in 1 .. cmd - 1
        BY <1>3, <3>1
      <4> QED
        BY ONLY <4>1
    <3>3. herdocFile'[c] = herdocFile[c]
      BY <1>4, <3>2 DEF TypeOK
    <3>4. herdocFile[c] # Name(cmd, start)
      BY <3>1, <3>2 DEF HasFile, Name
    <3>5. herdocFile[c] \in files /\ herdocFile[c] # join
      BY <2>2, <3>1, <3>4 DEF HasFile
    <3>6. herdocFile'[c] \in files'
      BY ONLY <1>4, <3>3, <3>5
    <3>7. herdocFile[c] = Name(c, line[c].docs - 1)
      BY <3>1 DEF HasFile
    <3>8. line' = line /\ count' = count
      BY <1>1
    <3> QED
      BY ONLY <3>3, <3>6, <3>7, <3>8 DEF HasFile, Name
  <2>4. start = line[cmd].docs - 1 => HasFile(cmd)'
    <3>1. SUFFICES ASSUME start = line[cmd].docs - 1 PROVE HasFile(cmd)'
      OBVIOUS
    <3>2. herdocFile'[cmd] = Name(cmd, start) /\ files' = files
      BY <1>3, <1>4, <2>2, <3>1 DEF TypeOK
    <3>3. Name(cmd, start) \in files
      BY <1>1, <2>1 DEF ReadInv, Writing
    <3> QED
      BY <1>1, <3>1, <3>2, <3>3 DEF HasFile, Name
  <2> QED
    BY <1>1, <2>2, <2>3, <2>4 DEF ReadInv, Writing
<1> QED
  BY <1>1, <1>7, <1>8, <1>9, <1>10, <1>11

(* Standard input gets what the backup refers to; the backup is closed. *)
LEMMA RestoreInputStep == ASSUME HInv, RestoreInput PROVE HInv'
<1> USE Facts DEF HInv, RestoreInput, place, input, docs, bounds
<1>1. fd' \in Table
  BY Dup2Type, CloseType DEF TypeOK, RestoreStdin
<1>2. TypeOK'
  BY <1>1 DEF TypeOK
<1>3. PlaceInv' /\ WriteInv' /\ FilesInv'
  BY DEF PlaceInv, WriteInv, FilesInv, InCommand, InDocument, Writing, Name
<1>4. fails = 0 => TableInv' /\ HandlerInv'
  <2>1. SUFFICES ASSUME fails = 0, TableInv PROVE TableInv' /\ HandlerInv'
    OBVIOUS
  <2>2. /\ fd[1] = Tty /\ fd[2] = Tty
        /\ save \in Fd /\ save > 2 /\ fd[save] = Tty
        /\ \A g \in Fd : g > 2 => fd[g] = Closed \/ g = save
    BY <2>1 DEF TableInv, InDocument, Writing
  <2>3. fd \in Table /\ fd' = RestoreStdin(fd, save) /\ IsOpen(fd, save)
    BY <2>2, Targets DEF TypeOK, IsOpen
  <2>4. \A g \in Fd : fd'[g] = IF g = save THEN Closed
                              ELSE IF g = 0 THEN Tty ELSE fd[g]
    BY <2>2, <2>3, RestoreType
  <2>5. /\ fd'[0] = Tty /\ fd'[1] = Tty /\ fd'[2] = Tty
        /\ \A g \in Fd : g > 2 => fd'[g] = Closed
    BY <2>2, <2>4, FdFacts
  <2> QED
    BY <2>5 DEF TableInv, HandlerInv, InDocument, Writing
<1>5. fails = 0 => ReadInv'
  BY DEF ReadInv, HasFile, Name, InCommand, InDocument, Writing
<1> QED
  BY <1>2, <1>3, <1>4, <1>5

(***************************************************************************)
(* The execution of the line finds no descriptor above 2 to close.         *)
(***************************************************************************)
LEMMA ExecuteStep == ASSUME HInv, Execute PROVE HInv'
<1> USE Facts DEF HInv, Execute, place, input, docs, bounds
<1>1. /\ fd' \in Table
      /\ \A g \in Fd : fd'[g] \in {fd[g], Closed} /\ (g <= 2 => fd'[g] = fd[g])
  <2>1. \A g \in Fd : fd[g] \in Target /\ Closed \in Target
    BY TargetTypes DEF TypeOK, Table
  <2> QED
    BY <2>1, FdFacts DEF CloseFdsExceptStd, Table
<1>2. TypeOK'
  <2>1. handler' \in {"my_handler", "my_server"} /\ gValue' \in {0, SIGINT}
    BY DEF TypeOK
  <2>2. /\ TypeOK /\ pc' = "prompt" /\ files' \subseteq files
        /\ UNCHANGED <<place, start, save, docFd, join, herdocFile, status, bounds>>
    OBVIOUS
  <2> QED
    BY ONLY <1>1, <2>1, <2>2 DEF TypeOK, place, bounds
<1>3. PlaceInv' /\ WriteInv' /\ FilesInv'
  BY DEF PlaceInv, WriteInv, FilesInv, InCommand, InDocument, Writing, Name
<1>4. fails = 0 => TableInv' /\ HandlerInv'
  <2>1. SUFFICES ASSUME fails = 0, TableInv, HandlerInv
                 PROVE  TableInv' /\ HandlerInv'
    OBVIOUS
  <2>2. /\ fd[0] = Tty /\ fd[1] = Tty /\ fd[2] = Tty
        /\ \A g \in Fd : g > 2 => fd[g] = Closed
    BY <2>1 DEF TableInv, InDocument, Writing
  <2>3. handler = "my_handler"
    BY <2>1 DEF HandlerInv, Writing
  <2>4. /\ fd'[0] = Tty /\ fd'[1] = Tty /\ fd'[2] = Tty
        /\ \A g \in Fd : g > 2 => fd'[g] = Closed
    BY <1>1, <2>2, FdFacts
  <2> QED
    BY <2>3, <2>4 DEF TableInv, HandlerInv, InDocument, Writing
<1>5. fails = 0 => ReadInv'
  BY DEF ReadInv, InCommand, InDocument, Writing
<1> QED
  BY <1>2, <1>3, <1>4, <1>5

(***************************************************************************)
(* Ctrl-C at any of these steps: at those where standard input has to be   *)
(* the terminal, the handler is not the one that closes it.                *)
(***************************************************************************)
LEMMA InterruptStep == ASSUME HInv, Interrupt PROVE HInv'
<1> USE Facts DEF HInv, place, input, docs, bounds
<1>1. /\ pc' = pc /\ pc # "execute" /\ sigs < MaxSigs /\ sigs' = sigs + 1
      /\ UNCHANGED <<place, start, save, docFd, handler, docs, fails>>
      /\ status' \in {status, 130}
  BY DEF Interrupt
<1>2. CASE handler = "my_server"
  <2>1. fd' = Close(fd, 0) /\ gValue' = SIGINT
    BY <1>2 DEF Interrupt
  <2>2. fd' \in Table /\ \A g \in Fd : fd'[g] = IF g = 0 THEN Closed ELSE fd[g]
    BY <2>1, CloseType DEF TypeOK
  <2>3. TypeOK'
    BY <1>1, <2>1, <2>2, HeredocAssumption DEF TypeOK
  <2>4. PlaceInv' /\ WriteInv' /\ FilesInv'
    BY <1>1, <2>2, Targets, FdFacts DEF PlaceInv, WriteInv, FilesInv, Name
  <2>5. fails = 0 => TableInv'
    <3>1. SUFFICES ASSUME fails = 0, TableInv, HandlerInv PROVE TableInv'
      OBVIOUS
    <3>2. pc \notin {"scan", "execute"}
      BY <1>2, <3>1 DEF HandlerInv
    <3>3. fd'[0] = Closed /\ fd'[1] = fd[1] /\ fd'[2] = fd[2]
      BY <2>2, FdFacts
    <3>4. pc \in InDocument \cup {"restore"} => fd'[save] = fd[save]
      BY <2>2, <3>1 DEF TableInv
    <3>5. \A g \in Fd : g > 2 => fd'[g] = fd[g]
      BY <2>2, FdFacts
    <3> QED
      BY <1>1, <2>1, <3>1, <3>2, <3>3, <3>4, <3>5 DEF TableInv
  <2>6. fails = 0 => HandlerInv' /\ ReadInv'
    BY <1>1, <2>1 DEF HandlerInv, ReadInv, HasFile, Name
  <2> QED
    BY <1>1, <2>3, <2>4, <2>5, <2>6
<1>3. CASE handler # "my_server"
  <2>1. UNCHANGED <<fd, gValue>>
    BY <1>3 DEF Interrupt
  <2>2. TypeOK'
    BY <1>1, <2>1, HeredocAssumption DEF TypeOK
  <2>3. PlaceInv' /\ WriteInv' /\ FilesInv'
    BY <1>1, <2>1 DEF PlaceInv, WriteInv, FilesInv, Name
  <2>4. fails = 0 => TableInv' /\ HandlerInv' /\ ReadInv'
    BY <1>1, <2>1 DEF TableInv, HandlerInv, ReadInv, HasFile, Name
  <2> QED
    BY <1>1, <2>2, <2>3, <2>4
<1> QED
  BY <1>2, <1>3

LEMMA StepHInv == ASSUME HInv, [Next]_vars PROVE HInv'
BY SkipCommandStep, BeginStep, EndOfLineStep, OpenRandomStep, RandomFailsStep,
   NameFileStep, ReadsNoNameStep, CreateFileStep, CreateFailsStep, ArmStep,
   ResetStep, TypeDocumentStep, ReadNothingStep, CloseFileStep,
   TestInterruptStep, RestoreInputStep, RearmStep, CheckStep, AbandonStep,
   ExecuteStep, NextLineStep, LeaveStep, InterruptStep, NoStep
DEF Next, Shell, Done

-----------------------------------------------------------------------------
(***************************************************************************)
(* The invariant holds in every state of the here-documents.               *)
(***************************************************************************)
THEOREM HeredocInvariance == Spec => []HInv
<1>1. Init => HInv
  BY InitHInv
<1>2. HInv /\ [Next]_vars => HInv'
  BY StepHInv
<1> QED
  BY <1>1, <1>2, PTL DEF Spec

(* Type correctness. *)
THEOREM HeredocTypes == Spec => []TypeOK
<1>1. HInv => TypeOK
  BY DEF HInv
<1> QED
  BY <1>1, HeredocInvariance, PTL

(***************************************************************************)
(* Commands are executed, and the next command's here-documents begun,     *)
(* with the terminal as standard input, wherever interrupts closed it      *)
(* before (my_server against dup2(save, 0)).                               *)
(***************************************************************************)
THEOREM ExecutesOnTheTerminal == Spec => []ExecutesOnTerminal
<1>1. HInv => ExecutesOnTerminal
  BY DEF HInv, TableInv, ExecutesOnTerminal
<1> QED
  BY <1>1, HeredocInvariance, PTL

(***************************************************************************)
(* What is typed at the terminal goes into the file of this here-document  *)
(* (ft_putstr_fd(line, fd) in make_loop), also when openings failed.       *)
(***************************************************************************)
THEOREM WritesToItsFile == Spec => []WritesItsFile
<1>1. HInv => WritesItsFile
  BY DEF HInv, WriteInv, WritesItsFile, Writing
<1> QED
  BY <1>1, HeredocInvariance, PTL

(***************************************************************************)
(* A command with here-documents finds the file of its last one when the   *)
(* line is executed.                                                       *)
(***************************************************************************)
THEOREM CommandsFindTheirFiles == Spec => []FilesThere
<1>1. HInv => FilesThere
  BY Facts DEF HInv, PlaceInv, ReadInv, HasFile, FilesThere
<1> QED
  BY <1>1, HeredocInvariance, PTL

(***************************************************************************)
(* Of the files of a line only the last one of a command is left, also     *)
(* when the line was abandoned or a file could not be opened.              *)
(***************************************************************************)
THEOREM NoOtherFileIsLeft == Spec => []OnlyLastFilesLeft
<1>1. HInv => OnlyLastFilesLeft
  BY DEF HInv, FilesInv, OnlyLastFilesLeft, Writing
<1> QED
  BY <1>1, HeredocInvariance, PTL

(***************************************************************************)
(* Here-documents leave no descriptor open, and the handler of the prompt  *)
(* in place.                                                               *)
(***************************************************************************)
THEOREM LeavesThePromptClean == Spec => []PromptIsClean
<1>1. HInv => PromptIsClean
  BY DEF HInv, TableInv, HandlerInv, PromptIsClean, InDocument, Writing
<1> QED
  BY <1>1, HeredocInvariance, PTL

=============================================================================
