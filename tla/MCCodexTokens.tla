---------------------------- MODULE MCCodexTokens ----------------------------
(* Tasks of one process.                                                   *)
EXTENDS CodexTokens, TLC

MCOneProcess == [t \in Tasks |-> CHOOSE p \in Processes : TRUE]
TaskSymmetry == Permutations(Tasks)
=============================================================================
