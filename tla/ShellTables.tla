----------------------------- MODULE ShellTables -----------------------------
(***************************************************************************)
(* What the shell does to its own descriptor table, whichever way it       *)
(* executes a line: back up a standard descriptor, restore it, and close   *)
(* what is left before the next prompt.  The definitions named X_... are   *)
(* what a slip could make of the definition X that follows them.           *)
(***************************************************************************)
EXTENDS Descriptors

(* The table of the shell at a prompt: the terminal, and what was left. *)
PromptTable(left) ==
  [f \in Fd |-> IF f \in 0 .. 2 THEN Tty
                ELSE IF f \in left THEN Leftover ELSE Closed]

(* dup(from): the descriptor it returns, and the table after it. *)
Dup(t, from, f, t2) ==
  \/ Full(t) /\ f = NoFd /\ t2 = t
  \/ \E g \in Fd : IsLowestFree(t, g) /\ f = g /\ t2 = Put(t, g, t[from])

DupStdin(t, f, t2) == Dup(t, 0, f, t2)

RestoreStdin_KeepsBackup(t, saved) == Dup2(t, saved, 0)
RestoreStdin_ClosesOnly(t, saved) == Close(t, saved)

(* dup2(saved_stdin, 0); close(saved_stdin) *)
RestoreStdin(t, saved) == Close(Dup2(t, saved, 0), saved)

CloseAbove2(t, f) == IF f > 2 THEN Close(t, f) ELSE t

(* close_fds_except_std: from 3 up, to the first number that is not open. *)
CloseFdsExceptStd(t) ==
  [f \in Fd |-> IF f > 2 /\ \A g \in 3 .. f : t[g] # Closed
                THEN Closed ELSE t[f]]

=============================================================================
