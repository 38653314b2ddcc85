------------------------------- MODULE Memory -------------------------------
(***************************************************************************)
(* The read-eval loop and the memory it works with.  The garbage collector *)
(* is a list of every block handed out since the last line was executed;   *)
(* gc_cleanup_partial frees what is on it.  Two things live longer than a  *)
(* line: the entry PWD of the environment, which malloc made directly, and *)
(* the pointer saved_cwd, whose block is on the list.                      *)
(*                                                                         *)
(* A block stands for all the blocks one step makes for one purpose.  No   *)
(* malloc fails.  The definitions named X_... are what a slip could make   *)
(* of the definition X that follows them; no action uses them.             *)
(***************************************************************************)
EXTENDS Naturals

CONSTANTS
  Blocks,     \* the addresses malloc can give
  NoBlock,    \* NULL
  Offers(_),  \* which of the free addresses it may give: its own affair
  MaxKept     \* bound: lines read since one was executed

(* What a pointer of the loop is for.  text has none: it is made and read  *)
(* in one step.                                                            *)
Roots == {"data", "line", "token", "cmd", "saved", "PWD"}

(* What the list frees; PWD is freed by unset, cd, export and the end.     *)
Collected == {"data", "line", "token", "cmd", "saved", "text"}

ASSUME MemoryAssumption ==
  /\ NoBlock \notin Blocks
  /\ \A S \in SUBSET Blocks : Offers(S) \subseteq S
  /\ MaxKept \in Nat

VARIABLES
  pc,        \* where the loop is
  heap,      \* what each block holds, or "free"
  list,      \* how many nodes of the collector's list point at it
  at,        \* where each pointer points
  dir,       \* whether getcwd finds the current directory
  kept,      \* lines read since one was executed
  fellBack,  \* who asked for the saved directory and was given one
  faults     \* "stale": freed memory was read; "twice": it was freed again

vars == <<pc, heap, list, at, dir, kept, fellBack, faults>>

Malloc(b) == b \in Offers({c \in Blocks : heap[c] = "free"})

(* gc_malloc, or gc_register_external of what readline or getcwd made.     *)
Collect(b, role) ==
  /\ Malloc(b)
  /\ heap' = [heap EXCEPT ![b] = role]
  /\ list' = [list EXCEPT ![b] = @ + 1]

Fill(r) == \E b \in Blocks : Collect(b, r) /\ at' = [at EXCEPT ![r] = b]

Text == (\E b \in Blocks : Collect(b, "text")) /\ UNCHANGED at

Live(r) == at[r] \in Blocks /\ heap[at[r]] = r

Read(roots) ==
  faults' = faults \cup (IF \A r \in roots : Live(r) THEN {} ELSE {"stale"})

Init ==
  /\ pc = "start"
  /\ heap = [b \in Blocks |-> "free"]
  /\ list = [b \in Blocks |-> 0]
  /\ at = [r \in Roots |-> NoBlock]
  /\ dir \in BOOLEAN
  /\ kept = 0
  /\ fellBack = {}
  /\ faults = {}

-----------------------------------------------------------------------------
(* manage_saved_cwd(2): the pointer moves only when getcwd finds something *)
SaveCwd == IF dir THEN Fill("saved") ELSE UNCHANGED <<heap, list, at>>

InitSavedCwd ==
  /\ pc = "start"
  /\ SaveCwd
  /\ pc' = "copy"
  /\ UNCHANGED <<dir, kept, fellBack, faults>>

(* An entry of the environment is made by ft_strdup or ft_strjoin, and the *)
(* one it replaces is freed.                                               *)
NewPwd ==
  /\ \E b \in Blocks :
       /\ Malloc(b)
       /\ heap' = [c \in Blocks |-> IF c = at["PWD"] THEN "free"
                                    ELSE IF c = b THEN "PWD"
                                    ELSE heap[c]]
       /\ at' = [at EXCEPT !["PWD"] = b]
  /\ UNCHANGED list

(* Freeing an entry whose block is free already. *)
FreePwd == faults' = faults \cup (IF at["PWD"] = NoBlock \/ Live("PWD")
                                  THEN {} ELSE {"twice"})

(* copy_env: the shell may be started with PWD or without. *)
CopyEnv ==
  /\ pc = "copy"
  /\ NewPwd \/ UNCHANGED <<heap, list, at>>
  /\ pc' = "loop"
  /\ UNCHANGED <<dir, kept, fellBack, faults>>

-----------------------------------------------------------------------------
(* make_prompt: data for the next line, whatever became of the last one. *)
NewData ==
  /\ pc = "loop"
  /\ Fill("data")
  /\ kept' = kept + 1
  /\ pc' = "prompt"
  /\ UNCHANGED <<dir, fellBack, faults>>

NoOneKnows == ~dir /\ at["PWD"] = NoBlock

(* The prompt shows the directory, PWD, or "(unknown)". *)
Prompt ==
  /\ pc = "prompt"
  /\ NoOneKnows => at["saved"] = NoBlock
  /\ Text
  /\ Read(IF ~dir /\ at["PWD"] # NoBlock THEN {"PWD"} ELSE {})
  /\ pc' = "read"
  /\ UNCHANGED <<dir, kept, fellBack>>

(* prompt_helper copies the saved directory twice and frees the first      *)
(* copy, which is on the list and stays there.                             *)
PromptHelper ==
  /\ pc = "prompt"
  /\ NoOneKnows
  /\ at["saved"] # NoBlock
  /\ Read({"saved"})
  /\ \E b, c \in Blocks :
       /\ Malloc(b)
       /\ c \in Offers({d \in Blocks \ {b} : heap[d] = "free"})
       /\ heap' = [heap EXCEPT ![c] = "text"]
       /\ list' = [d \in Blocks |-> IF d \in {b, c} THEN list[d] + 1
                                    ELSE list[d]]
  /\ fellBack' = fellBack \cup {"prompt"}
  /\ pc' = "read"
  /\ UNCHANGED <<at, dir, kept>>

(* readline gives a line, which is registered. *)
ReadLine_Unregistered ==
  /\ pc = "read"
  /\ \E b \in Blocks :
       /\ Malloc(b)
       /\ heap' = [heap EXCEPT ![b] = "line"]
       /\ at' = [at EXCEPT !["line"] = b]
  /\ UNCHANGED list
  /\ pc' = "tokenize"
  /\ UNCHANGED <<dir, kept, fellBack, faults>>

ReadLine ==
  /\ pc = "read"
  /\ Fill("line")
  /\ pc' = "tokenize"
  /\ UNCHANGED <<dir, kept, fellBack, faults>>

EndOfFile ==
  /\ pc = "read"
  /\ pc' = "leave"
  /\ UNCHANGED <<heap, list, at, dir, kept, fellBack, faults>>

(* An empty line, one without tokens and one the parser refuses are        *)
(* dropped with all they allocated still on the list.                      *)
Drop ==
  /\ pc \in {"tokenize", "parse"}
  /\ kept < MaxKept
  /\ Read(IF pc = "parse" THEN {"data", "token"} ELSE {"data", "line"})
  /\ pc' = "loop"
  /\ UNCHANGED <<heap, list, at, dir, kept, fellBack>>

Tokenize ==
  /\ pc = "tokenize"
  /\ Read({"data", "line"})
  /\ Fill("token")
  /\ pc' = "parse"
  /\ UNCHANGED <<dir, kept, fellBack>>

ParsingCommand ==
  /\ pc = "parse"
  /\ Read({"data", "token"})
  /\ Fill("cmd")
  /\ pc' = "heredocs"
  /\ UNCHANGED <<dir, kept, fellBack>>

(***************************************************************************)
(* gc_cleanup_partial.  A block that is on the list and free, or on it     *)
(* twice, is freed twice: the C library notices and aborts the shell, or   *)
(* does not and the block is free.                                         *)
(***************************************************************************)
FreedTwice ==
  \E b \in Blocks : list[b] > (IF heap[b] = "free" THEN 0 ELSE 1)

CleanupPartial(next) ==
  /\ heap' = [b \in Blocks |-> IF list[b] > 0 THEN "free" ELSE heap[b]]
  /\ list' = [b \in Blocks |-> 0]
  /\ IF FreedTwice
     THEN faults' = faults \cup {"twice"} /\ pc' \in {next, "aborted"}
     ELSE UNCHANGED faults /\ pc' = next

(* interupte_herdoc: here-documents are read line by line; an interrupt    *)
(* frees what was read of them with the rest.                              *)
ReadDocument ==
  /\ pc = "heredocs"
  /\ Read({"data", "cmd"})
  /\ Text
  /\ pc' = "execute"
  /\ UNCHANGED <<dir, kept, fellBack>>

NoDocument ==
  /\ pc = "heredocs"
  /\ Read({"data", "cmd"})
  /\ pc' = "execute"
  /\ UNCHANGED <<heap, list, at, dir, kept, fellBack>>

InterruptedHeredoc_Executes ==
  /\ pc = "heredocs"
  /\ CleanupPartial("execute")
  /\ kept' = 0
  /\ UNCHANGED <<at, dir, fellBack>>

InterruptedHeredoc ==
  /\ pc = "heredocs"
  /\ CleanupPartial("loop")
  /\ kept' = 0
  /\ UNCHANGED <<at, dir, fellBack>>

-----------------------------------------------------------------------------
(* execute_command: which command it is decides where it goes on. *)
Execute ==
  /\ pc = "execute"
  /\ Read({"data", "cmd"})
  /\ pc' \in {"pwd", "cd", "export", "unset", "unlink", "leave"}
  /\ UNCHANGED <<heap, list, at, dir, kept, fellBack>>

(* cd fails, or goes to a directory that update_pwd then finds, or that is *)
(* gone again, which leaves everything as it is.  OLDPWD is made from PWD. *)
Chdir ==
  /\ pc = "cd"
  /\ \/ UNCHANGED <<dir, faults>> /\ pc' = "unlink"
     \/ /\ dir' \in BOOLEAN
        /\ pc' = IF dir' THEN "update_pwd" ELSE "unlink"
        /\ Read(IF at["PWD"] = NoBlock THEN {} ELSE {"PWD"})
  /\ UNCHANGED <<heap, list, at, kept, fellBack>>

(* get_current_directory and update_pwd refresh the saved directory first. *)
Refresh ==
  /\ pc \in {"pwd", "update_pwd"}
  /\ SaveCwd
  /\ pc' = IF pc = "pwd" THEN "show" ELSE "export"
  /\ UNCHANGED <<dir, kept, fellBack, faults>>

(* pwd prints PWD, or the directory, or what was saved, or an error. *)
MyPwd ==
  /\ pc = "show"
  /\ IF NoOneKnows /\ at["saved"] = NoBlock
     THEN UNCHANGED <<heap, list, at>> ELSE Text
  /\ IF NoOneKnows
     THEN IF at["saved"] = NoBlock THEN UNCHANGED <<faults, fellBack>>
          ELSE Read({"saved"}) /\ fellBack' = fellBack \cup {"pwd"}
     ELSE Read(IF at["PWD"] = NoBlock THEN {} ELSE {"PWD"})
          /\ UNCHANGED fellBack
  /\ pc' = "unlink"
  /\ UNCHANGED <<dir, kept>>

(* export PWD=..., and what cd does with PWD. *)
ExportPwd ==
  /\ pc = "export"
  /\ NewPwd
  /\ FreePwd
  /\ pc' = "unlink"
  /\ UNCHANGED <<dir, kept, fellBack>>

UnsetPwd ==
  /\ pc = "unset"
  /\ heap' = [b \in Blocks |-> IF b = at["PWD"] THEN "free" ELSE heap[b]]
  /\ at' = [at EXCEPT !["PWD"] = NoBlock]
  /\ FreePwd
  /\ pc' = "unlink"
  /\ UNCHANGED <<list, dir, kept, fellBack>>

(* part_execution after the command: it reads cmd once more. *)
EndOfLine ==
  /\ pc = "unlink"
  /\ Read({"cmd"})
  /\ pc' = "cleanup"
  /\ UNCHANGED <<heap, list, at, dir, kept, fellBack>>

Cleanup ==
  /\ pc = "cleanup"
  /\ CleanupPartial("loop")
  /\ kept' = 0
  /\ UNCHANGED <<at, dir, fellBack>>

(* gc_cleanup, and then the environment. *)
Leave ==
  /\ pc = "leave"
  /\ CleanupPartial("free_env")
  /\ UNCHANGED <<at, dir, kept, fellBack>>

FreeEnv ==
  /\ pc = "free_env"
  /\ heap' = [b \in Blocks |-> IF b = at["PWD"] THEN "free" ELSE heap[b]]
  /\ FreePwd
  /\ pc' = "exited"
  /\ UNCHANGED <<list, at, dir, kept, fellBack>>

(* Another process removes the current directory. *)
RemoveDirectory ==
  /\ dir
  /\ pc \notin {"exited", "aborted"}
  /\ dir' = FALSE
  /\ UNCHANGED <<pc, heap, list, at, kept, fellBack, faults>>

Done == pc \in {"exited", "aborted"} /\ UNCHANGED vars

Next ==
  \/ InitSavedCwd \/ CopyEnv
  \/ NewData \/ Prompt \/ PromptHelper \/ ReadLine \/ EndOfFile \/ Drop
  \/ Tokenize \/ ParsingCommand
  \/ ReadDocument \/ NoDocument \/ InterruptedHeredoc
  \/ Execute \/ Chdir \/ Refresh \/ MyPwd \/ ExportPwd \/ UnsetPwd
  \/ EndOfLine \/ Cleanup \/ Leave \/ FreeEnv
  \/ RemoveDirectory \/ Done

Spec == Init /\ [][Next]_vars

-----------------------------------------------------------------------------
(***************************************************************************)
(* Properties.                                                             *)
(***************************************************************************)
Places ==
  {"start", "copy", "loop", "prompt", "read", "tokenize", "parse", "heredocs",
   "execute", "pwd", "cd", "update_pwd", "show", "export", "unset", "unlink",
   "cleanup", "leave", "free_env", "exited", "aborted"}

TypeOK ==
  /\ pc \in Places
  /\ heap \in [Blocks -> {"free", "PWD"} \cup Collected]
  /\ list \in [Blocks -> Nat]
  /\ at \in [Roots -> Blocks \cup {NoBlock}]
  /\ dir \in BOOLEAN
  /\ kept \in Nat
  /\ fellBack \in SUBSET {"prompt", "pwd"}
  /\ faults \in SUBSET {"stale", "twice"}

(* Every block is owned once: by the list or by the environment. *)
Owned ==
  /\ \A b \in Blocks : list[b] = IF heap[b] \in Collected THEN 1 ELSE 0
  /\ \A b \in Blocks : heap[b] = "PWD" <=> b = at["PWD"]

(* What the loop has in hand at each place. *)
InHand ==
  CASE pc \in {"prompt", "read"} -> {"data"}
    [] pc = "tokenize" -> {"data", "line"}
    [] pc = "parse" -> {"data", "line", "token"}
    [] pc \in {"heredocs", "execute", "pwd", "cd", "update_pwd", "show",
               "export", "unset", "unlink"} -> {"data", "line", "token", "cmd"}
    [] OTHER -> {}

(***************************************************************************)
(* As long as no prompt fell back on the saved directory: every block has  *)
(* one owner, so that nothing is freed twice and nothing is forgotten, and *)
(* data, line, tokens and commands are alive at every place that reads     *)
(* them, lines dropped and here-documents interrupted in between included. *)
(***************************************************************************)
MInv ==
  /\ TypeOK
  /\ "prompt" \notin fellBack =>
       /\ pc \notin {"exited", "aborted"} => Owned
       /\ \A r \in InHand : Live(r)
       /\ "twice" \notin faults
  /\ fellBack = {} => faults = {}
  /\ pc = "free_env" => \A b \in Blocks : list[b] = 0

(***************************************************************************)
(* The shell leaves none of these blocks allocated, whatever lines it read *)
(* before and however it leaves: exit, or the end of its input.  The nodes *)
(* of the list of names without values and the collector's own list are    *)
(* not among them.                                                         *)
(***************************************************************************)
NothingLeft ==
  pc = "exited" /\ "prompt" \notin fellBack =>
    \A b \in Blocks : heap[b] = "free"

=============================================================================
