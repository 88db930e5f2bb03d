---------------------------- MODULE MCLocalState ----------------------------
(* Small instances of LocalState for TLC. *)
EXTENDS LocalState, TLC

Alike == Permutations(Processes) \cup Permutations(Names) \cup Permutations(Profiles)
             \cup Permutations(Addresses) \cup Permutations(Keys)
=============================================================================
