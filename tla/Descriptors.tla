----------------------------- MODULE Descriptors -----------------------------
(***************************************************************************)
(* File descriptor tables and the kernel calls the shell makes on them:    *)
(* dup, dup2, close, pipe.  The calls are not part of the repository: they *)
(* are modelled from how its code uses them.  A table is a function from   *)
(* the descriptor numbers of a process to what each number refers to.      *)
(***************************************************************************)
EXTENDS Integers

CONSTANT NumFd          \* a process has the descriptors 0 .. NumFd-1

ASSUME NumFdAssumption == NumFd \in Nat /\ NumFd > 3

Fd == 0 .. NumFd - 1

NoFd == -1              \* what a failed dup returns

(***************************************************************************)
(* What a descriptor refers to: the terminal, an end of the pipe that      *)
(* leaves stage k, a file, something an earlier line left open, or nothing.*)
(***************************************************************************)
Tty         == [kind |-> "tty",    pipe |-> 0]
File        == [kind |-> "file",   pipe |-> 0]
Leftover    == [kind |-> "left",   pipe |-> 0]
Closed      == [kind |-> "closed", pipe |-> 0]
ReadEnd(k)  == [kind |-> "read",   pipe |-> k]
WriteEnd(k) == [kind |-> "write",  pipe |-> k]

Target ==
  [kind : {"tty", "file", "left", "closed", "read", "write"}, pipe : Nat]

Table == [Fd -> Target]

NoTable == [f \in Fd |-> Closed]

Full(t) == \A f \in Fd : t[f] # Closed

IsOpen(t, f) == f \in Fd /\ t[f] # Closed

(***************************************************************************)
(* The number a call that opens a descriptor returns: the least free one.  *)
(***************************************************************************)
IsLowestFree(t, f) ==
  /\ f \in Fd
  /\ t[f] = Closed
  /\ \A g \in Fd : g < f => t[g] # Closed

Put(t, f, d) == [g \in Fd |-> IF g = f THEN d ELSE t[g]]

Close(t, f) == Put(t, f, Closed)

(***************************************************************************)
(* dup2(from, to): with a from that is not open it fails and changes       *)
(* nothing.                                                                *)
(***************************************************************************)
Dup2(t, from, to) == IF IsOpen(t, from) THEN Put(t, to, t[from]) ELSE t

(***************************************************************************)
(* pipe(): two descriptors, the lowest free ones, or failure when fewer    *)
(* than two are free.                                                      *)
(***************************************************************************)
IsPipe(t, r, w) ==
  /\ IsLowestFree(t, r)
  /\ IsLowestFree(Put(t, r, ReadEnd(1)), w)

PipeRefused(t) == \A r, w \in Fd : ~IsPipe(t, r, w)

=============================================================================
