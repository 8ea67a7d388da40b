---------------------------- MODULE MCTurnCards ----------------------------
(* Small instances of TurnCards for TLC. *)
EXTENDS TurnCards, TLC

\* Sound for the safety run: nothing tells two prompts apart.
PromptSymmetry == Permutations(Prompts)
=============================================================================
