------------------------- MODULE ShellTablesProofs -------------------------
(***************************************************************************)
(* Lemmas about descriptor tables, for any descriptor limit.               *)
(***************************************************************************)
EXTENDS ShellTables, TLAPS

(* The standard descriptors are descriptors; a failed dup returns none. *)
LEMMA FdFacts ==
  0 \in Fd /\ 1 \in Fd /\ 2 \in Fd /\ Fd \subseteq Nat /\ NoFd \notin Fd
BY NumFdAssumption DEF Fd, NoFd

(* What a descriptor refers to is told apart by its kind. *)
LEMMA Targets ==
  /\ Tty # Closed /\ Tty # Leftover /\ Leftover # Closed /\ File # Closed
  /\ \A k : /\ ReadEnd(k) # Closed /\ ReadEnd(k) # Tty /\ ReadEnd(k) # Leftover
            /\ WriteEnd(k) # Closed /\ WriteEnd(k) # Tty
            /\ WriteEnd(k) # Leftover
            /\ ReadEnd(k).kind = "read" /\ WriteEnd(k).kind = "write"
            /\ ReadEnd(k).pipe = k /\ WriteEnd(k).pipe = k
  /\ \A k, m : ReadEnd(k) # WriteEnd(m)
  /\ Tty.kind = "tty" /\ File.kind = "file" /\ Closed.kind = "closed"
  /\ Leftover.kind = "left"
BY DEF Tty, Leftover, Closed, File, ReadEnd, WriteEnd

LEMMA TargetTypes ==
  /\ Tty \in Target /\ Leftover \in Target /\ Closed \in Target
  /\ File \in Target
  /\ \A k \in Nat : ReadEnd(k) \in Target /\ WriteEnd(k) \in Target
BY DEF Target, Tty, Leftover, Closed, File, ReadEnd, WriteEnd

(* The calls on a table keep it a table. *)
LEMMA PutType ==
  ASSUME NEW t \in Table, NEW f, NEW d \in Target
  PROVE  /\ Put(t, f, d) \in Table
         /\ \A g \in Fd : Put(t, f, d)[g] = IF g = f THEN d ELSE t[g]
BY DEF Put, Table

LEMMA CloseType ==
  ASSUME NEW t \in Table, NEW f
  PROVE  /\ Close(t, f) \in Table
         /\ \A g \in Fd : Close(t, f)[g] = IF g = f THEN Closed ELSE t[g]
BY PutType, TargetTypes DEF Close

LEMMA CloseAbove2Type ==
  ASSUME NEW t \in Table, NEW f
  PROVE  /\ CloseAbove2(t, f) \in Table
         /\ \A g \in Fd : CloseAbove2(t, f)[g] =
              IF f > 2 /\ g = f THEN Closed ELSE t[g]
BY CloseType DEF CloseAbove2

LEMMA Dup2Type ==
  ASSUME NEW t \in Table, NEW a, NEW b
  PROVE  /\ Dup2(t, a, b) \in Table
         /\ \A g \in Fd : Dup2(t, a, b)[g] =
              IF IsOpen(t, a) /\ g = b THEN t[a] ELSE t[g]
<1>1. CASE IsOpen(t, a)
  <2>1. t[a] \in Target
    BY <1>1 DEF IsOpen, Table
  <2>2. QED
    BY <1>1, <2>1, PutType DEF Dup2
<1>2. CASE ~IsOpen(t, a)
  BY <1>2 DEF Dup2
<1>3. QED
  BY <1>1, <1>2

(***************************************************************************)
(* Restoring standard input from a backup: 0 gets what the backup refers   *)
(* to, the backup is closed, nothing else changes.                         *)
(***************************************************************************)
LEMMA RestoreType ==
  ASSUME NEW t \in Table, NEW f, f # 0
  PROVE  /\ RestoreStdin(t, f) \in Table
         /\ \A g \in Fd : RestoreStdin(t, f)[g] =
              IF g = f THEN Closed
              ELSE IF g = 0 /\ IsOpen(t, f) THEN t[f] ELSE t[g]
<1>1. Dup2(t, f, 0) \in Table
  BY Dup2Type
<1>2. \A g \in Fd : Dup2(t, f, 0)[g] =
        IF IsOpen(t, f) /\ g = 0 THEN t[f] ELSE t[g]
  BY Dup2Type
<1>3. QED
  BY <1>1, <1>2, CloseType DEF RestoreStdin

(***************************************************************************)
(* A standard descriptor is backed up at a number above 2 while 0 to 2 are *)
(* open.                                                                   *)
(***************************************************************************)
LEMMA DupType ==
  ASSUME NEW t \in Table, NEW from \in 0 .. 2, NEW f, NEW t2,
         Dup(t, from, f, t2),
         \A g \in 0 .. 2 : t[g] = Tty
  PROVE  /\ f \in Fd \cup {NoFd}
         /\ t2 \in Table
         /\ f = NoFd => t2 = t
         /\ f # NoFd => /\ f > 2 /\ t[f] = Closed
                        /\ \A g \in Fd : t2[g] = IF g = f THEN Tty ELSE t[g]
<1>1. CASE Full(t) /\ f = NoFd /\ t2 = t
  BY <1>1
<1>2. CASE \E g \in Fd : IsLowestFree(t, g) /\ f = g /\ t2 = Put(t, g, t[from])
  <2>1. f \in Fd /\ t[f] = Closed /\ t2 = Put(t, f, t[from])
    BY <1>2 DEF IsLowestFree
  <2>2. t[from] = Tty /\ t[0] = Tty /\ t[1] = Tty /\ t[2] = Tty
    OBVIOUS
  <2>3. f > 2
    BY <2>1, <2>2, Targets DEF Fd
  <2>4. f # NoFd
    BY <2>3 DEF NoFd
  <2>5. QED
    BY <2>1, <2>2, <2>3, <2>4, PutType, TargetTypes
<1>3. QED
  BY <1>1, <1>2 DEF Dup

(* The same of standard input, as it is cited for the fork loop. *)
LEMMA DupStdinType ==
  ASSUME NEW t \in Table, NEW f, NEW t2, DupStdin(t, f, t2),
         \A g \in 0 .. 2 : t[g] = Tty
  PROVE  /\ f \in Fd \cup {NoFd}
         /\ t2 \in Table
         /\ f = NoFd => t2 = t
         /\ f # NoFd => /\ f > 2 /\ t[f] = Closed
                        /\ \A g \in Fd : t2[g] = IF g = f THEN Tty ELSE t[g]
BY DupType DEF DupStdin

(* The backup of standard input is a descriptor, whatever 0 refers to. *)
LEMMA DupStdinTable ==
  ASSUME NEW t \in Table, NEW f, NEW t2, DupStdin(t, f, t2)
  PROVE  f \in Fd \cup {NoFd} /\ t2 \in Table
<1>1. t[0] \in Target
  BY FdFacts DEF Table
<1>2. QED
  BY <1>1, PutType DEF DupStdin, Dup

(***************************************************************************)
(* A file is opened at a free number, moved to a standard descriptor, and  *)
(* its number closed: that descriptor changes and no other.                *)
(***************************************************************************)
LEMMA MovedType ==
  ASSUME NEW t \in Table, NEW f, IsLowestFree(t, f), NEW to \in {0, 1},
         NEW d \in Target, d # Closed, \A g \in 0 .. 2 : t[g] # Closed
  PROVE  /\ Close(Dup2(Put(t, f, d), f, to), f) \in Table
         /\ \A g \in Fd : Close(Dup2(Put(t, f, d), f, to), f)[g] =
              IF g = to THEN d ELSE t[g]
         /\ f \in Fd /\ f > 2 /\ t[f] = Closed
<1>1. f \in Fd /\ t[f] = Closed /\ f > 2
  BY DEF IsLowestFree, Fd
<1> DEFINE p == Put(t, f, d)
<1>2. /\ p \in Table
      /\ \A g \in Fd : p[g] = IF g = f THEN d ELSE t[g]
  BY PutType
<1>3. IsOpen(p, f)
  BY <1>1, <1>2 DEF IsOpen
<1> HIDE DEF p
<1>4. /\ Dup2(p, f, to) \in Table
      /\ \A g \in Fd : Dup2(p, f, to)[g] = IF g = to THEN d ELSE p[g]
  BY <1>1, <1>2, <1>3, Dup2Type
<1>5. /\ Close(Dup2(p, f, to), f) \in Table
      /\ \A g \in Fd : Close(Dup2(p, f, to), f)[g] =
           IF g = f THEN Closed ELSE Dup2(p, f, to)[g]
  BY <1>4, CloseType
<1>6. QED
  BY <1>1, <1>2, <1>4, <1>5 DEF p

=============================================================================
