------------------------------- MODULE Tokens -------------------------------
(***************************************************************************)
(* What the lexer and the parser have in common: the types of tokens, and  *)
(* the exit status register, which both write.                             *)
(***************************************************************************)
EXTENDS Integers, Sequences, FiniteSets

CONSTANT Statuses  \* the exit statuses an earlier line may have left

ASSUME StatusesAssumption == Statuses \subseteq Nat

VARIABLE status    \* the exit status register

RedirTypes == {"in", "out", "append"}
Types == RedirTypes \cup {"word", "pipe", "heredoc"}

=============================================================================
