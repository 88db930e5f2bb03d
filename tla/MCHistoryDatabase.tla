------------------------- MODULE MCHistoryDatabase -------------------------
(* HistoryDatabase with interchangeable processes.                         *)
EXTENDS HistoryDatabase, TLC

Interchangeable == Permutations(Processes)
=============================================================================
