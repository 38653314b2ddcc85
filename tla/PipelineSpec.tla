---------------------------- MODULE PipelineSpec ----------------------------
(***************************************************************************)
(* What the executor promises to the read-eval loop for one command line,  *)
(* whatever the descriptors and the scheduling: the prompt comes back only *)
(* when every stage has ended, with the status of the last stage, or with  *)
(* 130 when an interrupt arrives after that; or the executor gives up      *)
(* because a stage could not be started.                                   *)
(***************************************************************************)
EXTENDS Integers

VARIABLES
  last,        \* the number of stages of the line, the last one's number
  phase,       \* "running", "collected" or "prompt"
  ended,       \* how each stage ended, or Live
  result       \* the status of the line, or NoResult

(* A process ends with an exit code (sig = 0) or by a signal. *)
Ending   == [sig : Nat, code : Nat]
Live     == [sig |-> 0, code |-> -1]
NoResult == -1

Decode(e) == IF e.sig = 0 THEN e.code ELSE 128 + e.sig

specVars == <<last, phase, ended, result>>

SpecInit ==
  /\ last \in Nat \ {0}
  /\ phase = "running"
  /\ ended = [j \in 1 .. last |-> Live]
  /\ result = NoResult

(***************************************************************************)
(* Stages end in any order, several at once when a signal is sent to them  *)
(* all, also after the executor gave up on the line; none ends twice.      *)
(***************************************************************************)
StagesEnd ==
  /\ ended' \in [1 .. last -> Ending \cup {Live}]
  /\ \A j \in 1 .. last : ended'[j] # ended[j] => ended[j] = Live
  /\ UNCHANGED <<last, phase, result>>

Collect ==
  /\ phase = "running"
  /\ \A j \in 1 .. last : ended[j] # Live
  /\ phase' = "collected"
  /\ result' = Decode(ended[last])
  /\ UNCHANGED <<last, ended>>

Interrupted ==
  /\ phase = "collected"
  /\ result' = 130
  /\ UNCHANGED <<last, phase, ended>>

ShowPrompt ==
  /\ phase = "collected"
  /\ phase' = "prompt"
  /\ UNCHANGED <<last, ended, result>>

(* The executor gives up on a line it could not start as a whole. *)
GiveUpLine ==
  /\ phase = "running"
  /\ ended[last] = Live
  /\ phase' = "prompt"
  /\ UNCHANGED <<last, ended, result>>

SpecNext ==
  \/ StagesEnd
  \/ Collect
  \/ Interrupted
  \/ ShowPrompt
  \/ GiveUpLine

AbstractSpec == SpecInit /\ [][SpecNext]_specVars

=============================================================================
