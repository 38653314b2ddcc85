---------------------------- MODULE MemoryProofs ----------------------------
(***************************************************************************)
(* MInv is inductive, for any set of blocks and any allocator.  An action  *)
(* gives out free blocks, frees what the list holds, or moves a pointer;   *)
(* the lemmas say what each of the first two does to the owners.           *)
(***************************************************************************)
EXTENDS Memory, TLAPS

Roles == {"free", "PWD"} \cup Collected

Sound == "prompt" \notin fellBack

-----------------------------------------------------------------------------
(* A block that is offered was free. *)
LEMMA OfferedIsFree ==
  ASSUME TypeOK, NEW b \in Blocks, Malloc(b)
  PROVE  heap[b] = "free"
BY MemoryAssumption DEF Malloc

(* A block given to the list has one owner, and nothing else changes.      *)
LEMMA CollectKeeps ==
  ASSUME TypeOK, NEW b \in Blocks, NEW role \in Collected, Collect(b, role)
  PROVE  /\ heap' \in [Blocks -> Roles]
         /\ list' \in [Blocks -> Nat]
         /\ heap'[b] = role
         /\ \A r \in Roots : Live(r) => heap'[at[r]] = r
         /\ Owned => \A c \in Blocks :
              /\ list'[c] = IF heap'[c] \in Collected THEN 1 ELSE 0
              /\ heap'[c] = "PWD" <=> c = at["PWD"]
<1>1. heap[b] = "free"
  BY OfferedIsFree DEF Collect
<1>2. /\ heap' = [heap EXCEPT ![b] = role]
      /\ list' = [list EXCEPT ![b] = list[b] + 1]
  BY DEF Collect
<1>3. /\ heap' \in [Blocks -> Roles]
      /\ list' \in [Blocks -> Nat]
      /\ heap'[b] = role
  BY <1>2 DEF TypeOK, Roles
<1>4. \A r \in Roots : Live(r) => heap'[at[r]] = r
  BY <1>1, <1>2 DEF TypeOK, Live, Roots
<1>5. ASSUME Owned, NEW c \in Blocks
      PROVE  /\ list'[c] = IF heap'[c] \in Collected THEN 1 ELSE 0
             /\ heap'[c] = "PWD" <=> c = at["PWD"]
  <2>1. CASE c = b
    <3>1. list[b] = 0
      BY <1>1, <1>5 DEF Owned, Collected
    <3>2. /\ heap'[c] = role /\ role # "PWD"
          /\ c # at["PWD"]
      BY <2>1, <1>1, <1>3, <1>5 DEF Owned, Collected
    <3>3. list'[c] = 1
      BY <2>1, <3>1, <1>2 DEF TypeOK
    <3> QED
      BY <3>2, <3>3
  <2>2. CASE c # b
    BY <2>2, <1>2, <1>5 DEF TypeOK, Owned
  <2> QED
    BY <2>1, <2>2
<1> QED
  BY <1>3, <1>4, <1>5

(* The same for the step that also moves the pointer to the block. *)
LEMMA FillKeeps ==
  ASSUME TypeOK, NEW r \in Roots \ {"PWD"}, Fill(r)
  PROVE  /\ heap' \in [Blocks -> Roles]
         /\ list' \in [Blocks -> Nat]
         /\ at' \in [Roots -> Blocks \cup {NoBlock}]
         /\ Live(r)'
         /\ \A s \in Roots \ {r} : at'[s] = at[s]
         /\ \A s \in Roots : Live(s) => Live(s)'
         /\ Owned => Owned'
<1>1. PICK b \in Blocks : Collect(b, r) /\ at' = [at EXCEPT ![r] = b]
  BY DEF Fill
<1>2. r \in Collected
  BY DEF Roots, Collected
<1>3. /\ heap' \in [Blocks -> Roles]
      /\ list' \in [Blocks -> Nat]
      /\ heap'[b] = r
      /\ \A s \in Roots : Live(s) => heap'[at[s]] = s
      /\ Owned => \A c \in Blocks :
           /\ list'[c] = IF heap'[c] \in Collected THEN 1 ELSE 0
           /\ heap'[c] = "PWD" <=> c = at["PWD"]
  BY <1>1, <1>2, CollectKeeps
<1>4. /\ at' \in [Roots -> Blocks \cup {NoBlock}]
      /\ at'[r] = b
      /\ \A s \in Roots \ {r} : at'[s] = at[s]
  BY <1>1 DEF TypeOK
<1>5. Live(r)'
  BY <1>3, <1>4 DEF Live
<1>6. \A s \in Roots : Live(s) => Live(s)'
  BY <1>3, <1>4, <1>5 DEF Live
<1>7. at'["PWD"] = at["PWD"]
  BY <1>4 DEF Roots
<1>8. Owned => Owned'
  BY <1>3, <1>7 DEF Owned
<1> QED
  BY <1>3, <1>4, <1>5, <1>6, <1>8

LEMMA TextKeeps ==
  ASSUME TypeOK, Text
  PROVE  /\ heap' \in [Blocks -> Roles]
         /\ list' \in [Blocks -> Nat]
         /\ at' = at
         /\ \A s \in Roots : Live(s) => Live(s)'
         /\ Owned => Owned'
<1>1. PICK b \in Blocks : Collect(b, "text") /\ at' = at
  BY DEF Text
<1>2. "text" \in Collected
  BY DEF Collected
<1> QED
  BY <1>1, <1>2, CollectKeeps DEF Live, Owned

-----------------------------------------------------------------------------
(* Reading what is alive is no fault. *)
LEMMA ReadKeeps ==
  ASSUME TypeOK, NEW R, Read(R)
  PROVE  /\ faults' \in SUBSET {"stale", "twice"}
         /\ "twice" \in faults' <=> "twice" \in faults
         /\ (\A r \in R : Live(r)) => faults' = faults
BY DEF TypeOK, Read

(* While every block has its owner, PWD is alive when it is set. *)
LEMMA PwdLives ==
  ASSUME TypeOK, Owned
  PROVE  at["PWD"] # NoBlock => Live("PWD")
BY DEF TypeOK, Owned, Live, Roots

(* What freeing the list does while every block has its owner. *)
LEMMA CleanupKeeps ==
  ASSUME TypeOK, NEW next \in Places, CleanupPartial(next), at' = at
  PROVE  /\ heap' \in [Blocks -> Roles]
         /\ list' \in [Blocks -> Nat]
         /\ \A b \in Blocks : list'[b] = 0
         /\ pc' \in {next, "aborted"}
         /\ faults' \in SUBSET {"stale", "twice"}
         /\ faults # {} => faults' # {}
         /\ Owned => /\ Owned' /\ faults' = faults /\ pc' = next
<1>1. /\ heap' = [b \in Blocks |-> IF list[b] > 0 THEN "free" ELSE heap[b]]
      /\ list' = [b \in Blocks |-> 0]
      /\ pc' \in {next, "aborted"}
  BY DEF CleanupPartial
<1>2. heap' \in [Blocks -> Roles] /\ list' \in [Blocks -> Nat]
  BY <1>1 DEF TypeOK, Roles
<1>3. faults' \in SUBSET {"stale", "twice"} /\ (faults # {} => faults' # {})
  BY DEF CleanupPartial, TypeOK
<1>4. ASSUME Owned
      PROVE  Owned' /\ faults' = faults /\ pc' = next
  <2>1. ~FreedTwice
    <3> SUFFICES ASSUME NEW b \in Blocks
                 PROVE  ~(list[b] > (IF heap[b] = "free" THEN 0 ELSE 1))
      BY DEF FreedTwice
    <3>1. list[b] = IF heap[b] \in Collected THEN 1 ELSE 0
      BY <1>4 DEF Owned
    <3>2. heap[b] = "free" => heap[b] \notin Collected
      BY DEF Collected
    <3> QED
      BY <3>1, <3>2
  <2>2. ASSUME NEW b \in Blocks
        PROVE  /\ list'[b] = IF heap'[b] \in Collected THEN 1 ELSE 0
               /\ heap'[b] = "PWD" <=> b = at'["PWD"]
    <3>1. list[b] = IF heap[b] \in Collected THEN 1 ELSE 0
      BY <1>4 DEF Owned
    <3>2. heap'[b] \notin Collected
      BY <1>1, <3>1 DEF Collected
    <3>3. heap'[b] = "PWD" <=> heap[b] = "PWD"
      BY <1>1, <3>1 DEF Collected
    <3> QED
      BY <1>1, <1>4, <3>2, <3>3 DEF Owned
  <2> QED
    BY <2>1, <2>2 DEF CleanupPartial, Owned
<1> QED
  BY <1>1, <1>2, <1>3, <1>4

(* A new entry PWD takes a free block and gives the old one back. *)
LEMMA NewPwdKeeps ==
  ASSUME TypeOK, NewPwd
  PROVE  /\ heap' \in [Blocks -> Roles]
         /\ list' = list
         /\ at' \in [Roots -> Blocks \cup {NoBlock}]
         /\ Owned => /\ Owned'
                     /\ \A s \in Roots \ {"PWD"} : Live(s) => Live(s)'
<1>1. PICK b \in Blocks :
        /\ Malloc(b)
        /\ heap' = [c \in Blocks |-> IF c = at["PWD"] THEN "free"
                                     ELSE IF c = b THEN "PWD"
                                     ELSE heap[c]]
        /\ at' = [at EXCEPT !["PWD"] = b]
  BY DEF NewPwd
<1>2. heap[b] = "free"
  BY <1>1, OfferedIsFree
<1>3. /\ at' \in [Roots -> Blocks \cup {NoBlock}]
      /\ at'["PWD"] = b
      /\ \A s \in Roots \ {"PWD"} : at'[s] = at[s]
  BY <1>1 DEF TypeOK, Roots
<1>4. heap' \in [Blocks -> Roles]
  BY <1>1 DEF TypeOK, Roles
<1>5. ASSUME Owned
      PROVE  Owned'
  <2>1. ASSUME NEW c \in Blocks
        PROVE  /\ list[c] = IF heap'[c] \in Collected THEN 1 ELSE 0
               /\ heap'[c] = "PWD" <=> c = b
    <3>1. /\ list[c] = IF heap[c] \in Collected THEN 1 ELSE 0
          /\ heap[c] = "PWD" <=> c = at["PWD"]
      BY <1>5 DEF Owned
    <3>2. b # at["PWD"]
      BY <1>2, <1>5 DEF Owned
    <3>3. CASE c = at["PWD"]
      BY <3>1, <3>2, <3>3, <1>1 DEF Collected
    <3>4. CASE c = b
      BY <3>1, <3>2, <3>4, <1>1, <1>2 DEF Collected
    <3>5. CASE c # at["PWD"] /\ c # b
      BY <3>1, <3>5, <1>1
    <3> QED
      BY <3>3, <3>4, <3>5
  <2> QED
    BY <2>1, <1>3 DEF Owned, NewPwd
<1>6. ASSUME Owned, NEW s \in Roots \ {"PWD"}, Live(s)
      PROVE  Live(s)'
  <2>1. at[s] # at["PWD"] /\ at[s] # b
    BY <1>2, <1>6 DEF Live, Owned, Roots
  <2> QED
    BY <2>1, <1>1, <1>3, <1>6 DEF Live
<1> QED
  BY <1>3, <1>4, <1>5, <1>6 DEF NewPwd

LEMMA SaveCwdKeeps ==
  ASSUME TypeOK, SaveCwd
  PROVE  /\ heap' \in [Blocks -> Roles]
         /\ list' \in [Blocks -> Nat]
         /\ at' \in [Roots -> Blocks \cup {NoBlock}]
         /\ \A s \in Roots : Live(s) => Live(s)'
         /\ Owned => Owned'
<1>1. CASE dir
  BY <1>1, FillKeeps DEF SaveCwd, Roots
<1>2. CASE ~dir
  BY <1>2 DEF SaveCwd, TypeOK, Live, Owned, Roles
<1> QED
  BY <1>1, <1>2

-----------------------------------------------------------------------------
(* What a step has to show, unless it is a fall back, frees the list or is *)
(* the last one.                                                           *)
LEMMA Moves ==
  ASSUME MInv,
         heap' \in [Blocks -> Roles], list' \in [Blocks -> Nat],
         at' \in [Roots -> Blocks \cup {NoBlock}],
         pc' \in Places \ {"free_env"}, dir' \in BOOLEAN, kept' \in Nat,
         fellBack' = fellBack, faults' \in SUBSET {"stale", "twice"},
         Sound => Owned' /\ faults' = faults /\ \A r \in InHand' : Live(r)'
  PROVE  MInv'
<1>1. TypeOK'
  BY DEF MInv, TypeOK, Roles
<1>2. fellBack' = {} => faults' = {}
  BY DEF MInv, Sound
<1> QED
  BY <1>1, <1>2 DEF MInv, Sound

(* What MInv says before a step. *)
LEMMA Before ==
  ASSUME MInv
  PROVE  /\ TypeOK
         /\ faults \in SUBSET {"stale", "twice"}
         /\ kept \in Nat /\ dir \in BOOLEAN
         /\ Sound => /\ pc \notin {"exited", "aborted"} => Owned
                     /\ \A r \in InHand : Live(r)
BY DEF MInv, TypeOK, Sound

LEMMA NewDataStep == ASSUME MInv, NewData PROVE MInv'
<1>1. "data" \in Roots \ {"PWD"}
  BY DEF Roots
<1>2. /\ heap' \in [Blocks -> Roles] /\ list' \in [Blocks -> Nat]
      /\ at' \in [Roots -> Blocks \cup {NoBlock}]
      /\ Live("data")' /\ (Owned => Owned')
  BY <1>1, Before, FillKeeps DEF NewData
<1>3. InHand' = {"data"} /\ pc' \in Places \ {"free_env"}
  BY DEF NewData, InHand, Places
<1> QED
  BY <1>2, <1>3, Before, Moves DEF NewData, Places

LEMMA ReadLineStep == ASSUME MInv, ReadLine PROVE MInv'
<1>1. "line" \in Roots \ {"PWD"} /\ "data" \in Roots
  BY DEF Roots
<1>2. /\ heap' \in [Blocks -> Roles] /\ list' \in [Blocks -> Nat]
      /\ at' \in [Roots -> Blocks \cup {NoBlock}]
      /\ Live("line")' /\ (Owned => Owned')
      /\ Live("data") => Live("data")'
  BY <1>1, Before, FillKeeps DEF ReadLine
<1>3. /\ InHand = {"data"} /\ InHand' = {"data", "line"}
      /\ pc' \in Places \ {"free_env"}
  BY DEF ReadLine, InHand, Places
<1> QED
  BY <1>2, <1>3, Before, Moves DEF ReadLine

LEMMA TokenizeStep == ASSUME MInv, Tokenize PROVE MInv'
<1>1. "token" \in Roots \ {"PWD"} /\ {"data", "line"} \subseteq Roots
  BY DEF Roots
<1>2. /\ heap' \in [Blocks -> Roles] /\ list' \in [Blocks -> Nat]
      /\ at' \in [Roots -> Blocks \cup {NoBlock}]
      /\ Live("token")' /\ (Owned => Owned')
      /\ \A r \in {"data", "line"} : Live(r) => Live(r)'
  BY <1>1, Before, FillKeeps DEF Tokenize
<1>3. /\ InHand = {"data", "line"} /\ InHand' = {"data", "line", "token"}
      /\ pc' \in Places \ {"free_env"}
  BY DEF Tokenize, InHand, Places
<1>4. /\ faults' \in SUBSET {"stale", "twice"}
      /\ (\A r \in {"data", "line"} : Live(r)) => faults' = faults
  BY Before, ReadKeeps DEF Tokenize
<1> QED
  BY <1>2, <1>3, <1>4, Before, Moves DEF Tokenize

LEMMA ParsingStep == ASSUME MInv, ParsingCommand PROVE MInv'
<1>1. "cmd" \in Roots \ {"PWD"} /\ {"data", "line", "token"} \subseteq Roots
  BY DEF Roots
<1>2. /\ heap' \in [Blocks -> Roles] /\ list' \in [Blocks -> Nat]
      /\ at' \in [Roots -> Blocks \cup {NoBlock}]
      /\ Live("cmd")' /\ (Owned => Owned')
      /\ \A r \in {"data", "line", "token"} : Live(r) => Live(r)'
  BY <1>1, Before, FillKeeps DEF ParsingCommand
<1>3. /\ InHand = {"data", "line", "token"}
      /\ InHand' = {"data", "line", "token", "cmd"}
      /\ pc' \in Places \ {"free_env"}
  BY DEF ParsingCommand, InHand, Places
<1>4. /\ faults' \in SUBSET {"stale", "twice"}
      /\ (\A r \in {"data", "token"} : Live(r)) => faults' = faults
  BY Before, ReadKeeps DEF ParsingCommand
<1> QED
  BY <1>2, <1>3, <1>4, Before, Moves DEF ParsingCommand

LEMMA DropStep == ASSUME MInv, Drop PROVE MInv'
<1>1. /\ faults' \in SUBSET {"stale", "twice"}
      /\ (\A r \in InHand : Live(r)) => faults' = faults
  <2>1. CASE pc = "parse"
    BY <2>1, Before, ReadKeeps DEF Drop, InHand
  <2>2. CASE pc = "tokenize"
    BY <2>2, Before, ReadKeeps DEF Drop, InHand
  <2> QED
    BY <2>1, <2>2 DEF Drop
<1>2. InHand' = {} /\ pc' \in Places \ {"free_env"}
  BY DEF Drop, InHand, Places
<1>3. /\ heap' \in [Blocks -> Roles] /\ list' \in [Blocks -> Nat]
      /\ at' \in [Roots -> Blocks \cup {NoBlock}]
      /\ Owned => Owned'
  BY Before DEF Drop, TypeOK, Owned, Roles
<1> QED
  BY <1>1, <1>2, <1>3, Before, Moves DEF Drop

-----------------------------------------------------------------------------
(* A step that only looks at memory. *)
LEMMA Looks ==
  ASSUME MInv, UNCHANGED <<heap, list, at, fellBack>>, kept' = kept,
         dir' \in BOOLEAN, pc' \in Places \ {"free_env"},
         pc \notin {"exited", "aborted"}, InHand' \subseteq InHand,
         faults' \in SUBSET {"stale", "twice"},
         Sound => faults' = faults
  PROVE  MInv'
<1>1. /\ heap' \in [Blocks -> Roles] /\ list' \in [Blocks -> Nat]
      /\ at' \in [Roots -> Blocks \cup {NoBlock}]
      /\ kept' \in Nat /\ fellBack' = fellBack
      /\ Owned => Owned'
  BY Before DEF TypeOK, Owned, Roles
<1>2. Sound => \A r \in InHand' : Live(r)'
  BY Before DEF Live
<1> QED
  BY <1>1, <1>2, Before, Moves

LEMMA LookingSteps ==
  ASSUME MInv,
         EndOfFile \/ NoDocument \/ Execute \/ Chdir \/ EndOfLine
           \/ RemoveDirectory
  PROVE  MInv'
<1>1. CASE EndOfFile
  <2>1. /\ pc' \in Places \ {"free_env"} /\ InHand' \subseteq InHand
        /\ faults' = faults /\ pc \notin {"exited", "aborted"}
    BY <1>1 DEF EndOfFile, Places, InHand
  <2> QED
    BY <1>1, <2>1, Before, Looks DEF EndOfFile
<1>2. CASE NoDocument
  <2>1. /\ pc' \in Places \ {"free_env"} /\ InHand' = InHand
        /\ InHand = {"data", "line", "token", "cmd"}
        /\ pc \notin {"exited", "aborted"}
    BY <1>2 DEF NoDocument, Places, InHand
  <2>2. faults' \in SUBSET {"stale", "twice"} /\ (Sound => faults' = faults)
    BY <1>2, <2>1, Before, ReadKeeps DEF NoDocument
  <2> QED
    BY <1>2, <2>1, <2>2, Before, Looks DEF NoDocument
<1>3. CASE Execute
  <2>1. /\ pc' \in Places \ {"free_env"} /\ InHand' \subseteq InHand
        /\ InHand = {"data", "line", "token", "cmd"}
        /\ pc \notin {"exited", "aborted"}
    BY <1>3 DEF Execute, Places, InHand
  <2>2. faults' \in SUBSET {"stale", "twice"} /\ (Sound => faults' = faults)
    BY <1>3, <2>1, Before, ReadKeeps DEF Execute
  <2> QED
    BY <1>3, <2>1, <2>2, Before, Looks DEF Execute
<1>4. CASE Chdir
  <2>1. /\ pc' \in Places \ {"free_env"} /\ InHand' = InHand
        /\ dir' \in BOOLEAN /\ pc \notin {"exited", "aborted"}
    BY <1>4, Before DEF Chdir, Places, InHand
  <2>2. faults' \in SUBSET {"stale", "twice"} /\ (Sound => faults' = faults)
    <3>1. CASE UNCHANGED <<dir, faults>>
      BY <3>1, Before
    <3>2. CASE Read(IF at["PWD"] = NoBlock THEN {} ELSE {"PWD"})
      <4>1. Sound => \A r \in IF at["PWD"] = NoBlock THEN {} ELSE {"PWD"} :
                       Live(r)
        BY <2>1, Before, PwdLives
      <4> QED
        BY <3>2, <4>1, Before, ReadKeeps
    <3> QED
      BY <1>4, <3>1, <3>2 DEF Chdir
  <2> QED
    BY <1>4, <2>1, <2>2, Before, Looks DEF Chdir
<1>5. CASE EndOfLine
  <2>1. /\ pc' \in Places \ {"free_env"} /\ InHand' \subseteq InHand
        /\ InHand = {"data", "line", "token", "cmd"}
        /\ pc \notin {"exited", "aborted"}
    BY <1>5 DEF EndOfLine, Places, InHand
  <2>2. faults' \in SUBSET {"stale", "twice"} /\ (Sound => faults' = faults)
    BY <1>5, <2>1, Before, ReadKeeps DEF EndOfLine
  <2> QED
    BY <1>5, <2>1, <2>2, Before, Looks DEF EndOfLine
<1>6. CASE RemoveDirectory
  BY <1>6 DEF RemoveDirectory, MInv, TypeOK, Owned, InHand, Live
<1> QED
  BY <1>1, <1>2, <1>3, <1>4, <1>5, <1>6

LEMMA PromptStep == ASSUME MInv, Prompt PROVE MInv'
<1>1. /\ heap' \in [Blocks -> Roles] /\ list' \in [Blocks -> Nat] /\ at' = at
      /\ at' \in [Roots -> Blocks \cup {NoBlock}]
      /\ Owned => Owned'
      /\ Live("data") => Live("data")'
  BY Before, TextKeeps DEF Prompt, TypeOK, Roots
<1>2. /\ InHand = {"data"} /\ InHand' = {"data"}
      /\ pc' \in Places \ {"free_env"} /\ pc \notin {"exited", "aborted"}
  BY DEF Prompt, InHand, Places
<1>3. faults' \in SUBSET {"stale", "twice"} /\ (Sound => faults' = faults)
  <2>1. Sound =>
          \A r \in IF ~dir /\ at["PWD"] # NoBlock THEN {"PWD"} ELSE {} : Live(r)
    BY <1>2, Before, PwdLives
  <2> QED
    BY <2>1, Before, ReadKeeps DEF Prompt
<1> QED
  BY <1>1, <1>2, <1>3, Before, Moves DEF Prompt

(* After it nothing is claimed but the types. *)
LEMMA PromptHelperStep == ASSUME MInv, PromptHelper PROVE MInv'
<1>1. "prompt" \in fellBack' /\ fellBack' \in SUBSET {"prompt", "pwd"}
  BY Before DEF PromptHelper, TypeOK
<1>2. heap' \in [Blocks -> Roles]
  BY Before DEF PromptHelper, TypeOK, Roles, Collected
<1>3. list' \in [Blocks -> Nat]
  BY Before DEF PromptHelper, TypeOK
<1>4. faults' \in SUBSET {"stale", "twice"}
  BY Before, ReadKeeps DEF PromptHelper
<1>5. pc' = "read" /\ UNCHANGED <<at, dir, kept>>
  BY DEF PromptHelper
<1>6. TypeOK'
  BY <1>1, <1>2, <1>3, <1>4, <1>5, Before DEF TypeOK, Roles, Places
<1> QED
  BY <1>1, <1>5, <1>6 DEF MInv

LEMMA StartSteps ==
  ASSUME MInv, InitSavedCwd \/ CopyEnv
  PROVE  MInv'
<1>1. CASE InitSavedCwd
  <2>1. /\ heap' \in [Blocks -> Roles] /\ list' \in [Blocks -> Nat]
        /\ at' \in [Roots -> Blocks \cup {NoBlock}]
        /\ Owned => Owned'
    BY <1>1, Before, SaveCwdKeeps DEF InitSavedCwd
  <2>2. InHand' = {} /\ pc' \in Places \ {"free_env"} /\ pc = "start"
    BY <1>1 DEF InitSavedCwd, InHand, Places
  <2> QED
    BY <1>1, <2>1, <2>2, Before, Moves DEF InitSavedCwd
<1>2. CASE CopyEnv
  <2>1. /\ heap' \in [Blocks -> Roles] /\ list' \in [Blocks -> Nat]
        /\ at' \in [Roots -> Blocks \cup {NoBlock}]
        /\ Owned => Owned'
    <3>1. CASE NewPwd
      BY <3>1, Before, NewPwdKeeps DEF TypeOK
    <3>2. CASE UNCHANGED <<heap, list, at>>
      BY <3>2, Before DEF TypeOK, Owned, Roles
    <3> QED
      BY <1>2, <3>1, <3>2 DEF CopyEnv
  <2>2. InHand' = {} /\ pc' \in Places \ {"free_env"} /\ pc = "copy"
    BY <1>2 DEF CopyEnv, InHand, Places
  <2> QED
    BY <1>2, <2>1, <2>2, Before, Moves DEF CopyEnv
<1> QED
  BY <1>1, <1>2

(* The pointers of the loop while a command runs. *)
Four == {"data", "line", "token", "cmd"}

LEMMA FourAreRoots == Four \subseteq Roots \ {"PWD"}
BY DEF Four, Roots

LEMMA ReadDocumentStep == ASSUME MInv, ReadDocument PROVE MInv'
<1>1. /\ heap' \in [Blocks -> Roles] /\ list' \in [Blocks -> Nat] /\ at' = at
      /\ at' \in [Roots -> Blocks \cup {NoBlock}]
      /\ Owned => Owned'
      /\ \A r \in Four : Live(r) => Live(r)'
  BY Before, TextKeeps, FourAreRoots DEF ReadDocument, TypeOK
<1>2. /\ InHand = Four /\ InHand' = Four
      /\ pc' \in Places \ {"free_env"} /\ pc \notin {"exited", "aborted"}
  BY DEF ReadDocument, InHand, Places, Four
<1>3. faults' \in SUBSET {"stale", "twice"} /\ (Sound => faults' = faults)
  BY <1>2, Before, ReadKeeps DEF ReadDocument, Four
<1> QED
  BY <1>1, <1>2, <1>3, Before, Moves DEF ReadDocument

LEMMA RefreshStep == ASSUME MInv, Refresh PROVE MInv'
<1>1. /\ heap' \in [Blocks -> Roles] /\ list' \in [Blocks -> Nat]
      /\ at' \in [Roots -> Blocks \cup {NoBlock}]
      /\ Owned => Owned'
      /\ \A r \in Four : Live(r) => Live(r)'
  BY Before, SaveCwdKeeps, FourAreRoots DEF Refresh
<1>2. /\ InHand = Four /\ InHand' = Four
      /\ pc' \in Places \ {"free_env"} /\ pc \notin {"exited", "aborted"}
  BY DEF Refresh, InHand, Places, Four
<1> QED
  BY <1>1, <1>2, Before, Moves DEF Refresh

(* pwd may read the saved directory, which adds no fault but "stale". *)
LEMMA MyPwdStep == ASSUME MInv, MyPwd PROVE MInv'
<1>1. /\ heap' \in [Blocks -> Roles] /\ list' \in [Blocks -> Nat] /\ at' = at
      /\ at' \in [Roots -> Blocks \cup {NoBlock}]
      /\ Owned => Owned'
      /\ \A r \in Four : Live(r) => Live(r)'
  <2>1. CASE Text
    BY <2>1, Before, TextKeeps, FourAreRoots DEF TypeOK
  <2>2. CASE UNCHANGED <<heap, list, at>>
    BY <2>2, Before DEF TypeOK, Owned, Live, Roles
  <2> QED
    BY <2>1, <2>2 DEF MyPwd
<1>2. /\ InHand = Four /\ InHand' = Four
      /\ pc' \in Places \ {"free_env"} /\ pc' = "unlink"
      /\ pc \notin {"exited", "aborted"}
  BY DEF MyPwd, InHand, Places, Four
<1>3. CASE UNCHANGED <<faults, fellBack>>
  BY <1>1, <1>2, <1>3, Before, Moves DEF MyPwd
<1>4. CASE Read({"saved"}) /\ fellBack' = fellBack \cup {"pwd"}
  <2>1. /\ faults' \in SUBSET {"stale", "twice"}
        /\ "twice" \in faults' <=> "twice" \in faults
    BY <1>4, Before, ReadKeeps
  <2>2. TypeOK'
    BY <1>1, <1>2, <1>4, <2>1, Before DEF MyPwd, TypeOK, Roles
  <2>3. /\ "prompt" \in fellBack' <=> "prompt" \in fellBack
        /\ fellBack' # {}
    BY <1>4
  <2>4. Sound => /\ Owned' /\ "twice" \notin faults'
                 /\ \A r \in InHand' : Live(r)'
    BY <1>1, <1>2, <2>1, Before DEF MInv, Sound
  <2> QED
    BY <1>2, <2>2, <2>3, <2>4 DEF MInv, Sound
<1>5. CASE /\ Read(IF at["PWD"] = NoBlock THEN {} ELSE {"PWD"})
           /\ UNCHANGED fellBack
  <2>1. Sound => \A r \in IF at["PWD"] = NoBlock THEN {} ELSE {"PWD"} : Live(r)
    BY <1>2, Before, PwdLives
  <2>2. faults' \in SUBSET {"stale", "twice"} /\ (Sound => faults' = faults)
    BY <1>5, <2>1, Before, ReadKeeps
  <2> QED
    BY <1>1, <1>2, <1>5, <2>2, Before, Moves DEF MyPwd
<1> QED
  BY <1>3, <1>4, <1>5 DEF MyPwd

LEMMA ExportStep == ASSUME MInv, ExportPwd PROVE MInv'
<1>1. /\ heap' \in [Blocks -> Roles] /\ list' \in [Blocks -> Nat]
      /\ at' \in [Roots -> Blocks \cup {NoBlock}]
      /\ Owned => Owned' /\ \A r \in Four : Live(r) => Live(r)'
  BY Before, NewPwdKeeps, FourAreRoots DEF ExportPwd, TypeOK
<1>2. /\ InHand = Four /\ InHand' = Four
      /\ pc' \in Places \ {"free_env"} /\ pc \notin {"exited", "aborted"}
  BY DEF ExportPwd, InHand, Places, Four
<1>3. faults' \in SUBSET {"stale", "twice"} /\ (Sound => faults' = faults)
  BY <1>2, Before, PwdLives DEF ExportPwd, FreePwd
<1> QED
  BY <1>1, <1>2, <1>3, Before, Moves DEF ExportPwd

(* Giving back the entry PWD leaves every other block with its owner. *)
LEMMA PwdFreed ==
  ASSUME TypeOK, Owned,
         heap' = [b \in Blocks |-> IF b = at["PWD"] THEN "free" ELSE heap[b]],
         list' = list
  PROVE  /\ \A b \in Blocks :
              /\ list'[b] = IF heap'[b] \in Collected THEN 1 ELSE 0
              /\ heap'[b] # "PWD"
         /\ \A r \in Four : Live(r) => heap'[at[r]] = r
<1>1. ASSUME NEW b \in Blocks
      PROVE  /\ list'[b] = IF heap'[b] \in Collected THEN 1 ELSE 0
             /\ heap'[b] # "PWD"
  <2>1. /\ list[b] = IF heap[b] \in Collected THEN 1 ELSE 0
        /\ heap[b] = "PWD" <=> b = at["PWD"]
    BY DEF Owned
  <2> QED
    BY <2>1 DEF Collected
<1>2. ASSUME NEW r \in Four, Live(r)
      PROVE  heap'[at[r]] = r
  <2>1. at[r] \in Blocks /\ heap[at[r]] = r /\ r # "PWD"
    BY <1>2 DEF Live, Four
  <2>2. at[r] # at["PWD"]
    BY <2>1 DEF Owned
  <2> QED
    BY <2>1, <2>2
<1> QED
  BY <1>1, <1>2

LEMMA UnsetStep == ASSUME MInv, UnsetPwd PROVE MInv'
<1>1. /\ heap' \in [Blocks -> Roles] /\ list' \in [Blocks -> Nat]
      /\ at' \in [Roots -> Blocks \cup {NoBlock}]
      /\ at'["PWD"] = NoBlock
      /\ \A r \in Four : at'[r] = at[r]
  BY Before, FourAreRoots DEF UnsetPwd, TypeOK, Roles, Roots
<1>2. /\ InHand = Four /\ InHand' = Four
      /\ pc' \in Places \ {"free_env"} /\ pc \notin {"exited", "aborted"}
  BY DEF UnsetPwd, InHand, Places, Four
<1>3. faults' \in SUBSET {"stale", "twice"} /\ (Sound => faults' = faults)
  BY <1>2, Before, PwdLives DEF UnsetPwd, FreePwd
<1>4. Owned => /\ \A b \in Blocks :
                    /\ list'[b] = IF heap'[b] \in Collected THEN 1 ELSE 0
                    /\ heap'[b] # "PWD"
               /\ \A r \in Four : Live(r) => heap'[at[r]] = r
  BY Before, PwdFreed DEF UnsetPwd
<1>5. Owned => Owned' /\ \A r \in Four : Live(r) => Live(r)'
  BY <1>1, <1>4, MemoryAssumption DEF Owned, Live
<1> QED
  BY <1>1, <1>2, <1>3, <1>5, Before, Moves DEF UnsetPwd

-----------------------------------------------------------------------------
(* The list is freed when the loop has nothing in hand afterwards. *)
LEMMA Frees ==
  ASSUME MInv, NEW next \in {"loop", "free_env"}, CleanupPartial(next),
         pc \notin {"exited", "aborted"}, UNCHANGED <<at, dir, fellBack>>,
         kept' \in Nat
  PROVE  MInv'
<1>1. next \in Places
  BY DEF Places
<1>2. /\ heap' \in [Blocks -> Roles] /\ list' \in [Blocks -> Nat]
      /\ \A b \in Blocks : list'[b] = 0
      /\ pc' \in {next, "aborted"}
      /\ faults' \in SUBSET {"stale", "twice"}
      /\ Owned => /\ Owned' /\ faults' = faults /\ pc' = next
  BY <1>1, Before, CleanupKeeps
<1>3. InHand' = {} /\ pc' \in Places
  BY <1>2 DEF InHand, Places
<1>4. TypeOK'
  BY <1>2, <1>3, Before DEF TypeOK, Roles
<1>5. Sound => Owned' /\ faults' = faults
  BY <1>2, Before
<1> QED
  BY <1>2, <1>3, <1>4, <1>5 DEF MInv, Sound

LEMMA FreeingSteps ==
  ASSUME MInv, InterruptedHeredoc \/ Cleanup \/ Leave
  PROVE  MInv'
<1>1. CASE InterruptedHeredoc
  BY <1>1, Frees DEF InterruptedHeredoc
<1>2. CASE Cleanup
  BY <1>2, Frees DEF Cleanup
<1>3. CASE Leave
  BY <1>3, Before, Frees DEF Leave
<1> QED
  BY <1>1, <1>2, <1>3

LEMMA FreeEnvStep ==
  ASSUME MInv, NothingLeft, FreeEnv
  PROVE  MInv' /\ NothingLeft'
<1>1. /\ pc = "free_env" /\ pc' = "exited" /\ InHand' = {} /\ pc' \in Places
      /\ UNCHANGED <<list, at, dir, kept, fellBack>>
      /\ heap' = [b \in Blocks |-> IF b = at["PWD"] THEN "free" ELSE heap[b]]
  BY DEF FreeEnv, InHand, Places
<1>2. faults' \in SUBSET {"stale", "twice"} /\ (Sound => faults' = faults)
  BY <1>1, Before, PwdLives DEF FreeEnv, FreePwd
<1>3. TypeOK'
  BY <1>1, <1>2, Before DEF TypeOK, Roles
<1>4. MInv'
  BY <1>1, <1>2, <1>3 DEF MInv, Sound
<1>5. ASSUME Sound, NEW b \in Blocks
      PROVE  heap'[b] = "free"
  <2>1. list[b] = 0 /\ Owned
    BY <1>1, <1>5, Before DEF MInv
  <2>2. heap[b] \notin Collected
    BY <2>1 DEF Owned
  <2>3. heap[b] \in {"free", "PWD"}
    BY <2>2, Before DEF TypeOK
  <2>4. heap[b] = "PWD" <=> b = at["PWD"]
    BY <2>1 DEF Owned
  <2> QED
    BY <1>1, <2>3, <2>4
<1> QED
  BY <1>1, <1>4, <1>5 DEF NothingLeft, Sound

-----------------------------------------------------------------------------
LEMMA InitMInv == ASSUME Init PROVE MInv /\ NothingLeft
<1>1. TypeOK
  BY DEF Init, TypeOK, Places
<1>2. Owned
  BY MemoryAssumption DEF Init, Owned, Collected, Roots
<1>3. InHand = {}
  BY DEF Init, InHand
<1> QED
  BY <1>1, <1>2, <1>3 DEF Init, MInv, NothingLeft

LEMMA StepMInv ==
  ASSUME MInv, NothingLeft, [Next]_vars
  PROVE  MInv' /\ NothingLeft'
<1>1. CASE FreeEnv
  BY <1>1, FreeEnvStep
<1>2. CASE Done \/ UNCHANGED vars
  BY <1>2 DEF Done, vars, MInv, NothingLeft, TypeOK, Owned, InHand, Live
<1>3. ASSUME [Next]_vars, ~FreeEnv, ~(Done \/ UNCHANGED vars)
      PROVE  MInv' /\ pc' # "exited"
  <2>1. MInv'
    BY <1>3, StartSteps, NewDataStep, PromptStep, PromptHelperStep,
       ReadLineStep, DropStep, TokenizeStep, ParsingStep, ReadDocumentStep,
       LookingSteps, RefreshStep, MyPwdStep, ExportStep, UnsetStep,
       FreeingSteps DEF Next
  <2>2. pc' # "exited"
    <3>1. CASE InitSavedCwd \/ CopyEnv \/ NewData \/ Prompt \/ PromptHelper
               \/ ReadLine \/ EndOfFile \/ Drop \/ Tokenize \/ ParsingCommand
      BY <3>1 DEF InitSavedCwd, CopyEnv, NewData, Prompt, PromptHelper,
         ReadLine, EndOfFile, Drop, Tokenize, ParsingCommand
    <3>2. CASE ReadDocument \/ NoDocument \/ Execute \/ Chdir \/ Refresh
               \/ MyPwd \/ ExportPwd \/ UnsetPwd \/ EndOfLine
      BY <3>2 DEF ReadDocument, NoDocument, Execute, Chdir, Refresh, MyPwd,
         ExportPwd, UnsetPwd, EndOfLine
    <3>3. CASE InterruptedHeredoc \/ Cleanup \/ Leave
      BY <3>3 DEF InterruptedHeredoc, Cleanup, Leave, CleanupPartial
    <3>4. CASE RemoveDirectory
      BY <3>4 DEF RemoveDirectory
    <3> QED
      BY <1>3, <3>1, <3>2, <3>3, <3>4 DEF Next
  <2> QED
    BY <2>1, <2>2
<1> QED
  BY <1>1, <1>2, <1>3 DEF NothingLeft

(***************************************************************************)
(* Whatever addresses malloc gives: a block is freed twice only after a    *)
(* prompt fell back on the saved directory, freed memory is read only      *)
(* after pwd or a prompt did, and everything the loop uses is alive.       *)
(***************************************************************************)
THEOREM MemoryIsOwned == Spec => []MInv
<1>1. Init => MInv /\ NothingLeft
  BY InitMInv
<1>2. MInv /\ NothingLeft /\ [Next]_vars => (MInv /\ NothingLeft)'
  BY StepMInv
<1> QED
  BY <1>1, <1>2, PTL DEF Spec

(* The shell gives back everything it allocated before it exits. *)
THEOREM ExitFreesEverything == Spec => []NothingLeft
<1>1. Init => MInv /\ NothingLeft
  BY InitMInv
<1>2. MInv /\ NothingLeft /\ [Next]_vars => (MInv /\ NothingLeft)'
  BY StepMInv
<1> QED
  BY <1>1, <1>2, PTL DEF Spec

=============================================================================
