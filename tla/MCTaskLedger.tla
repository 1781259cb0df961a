---------------------------- MODULE MCTaskLedger ----------------------------
(* The ledger and what it tells the user, under every sequence of calls, for *)
(* two tasks that share one notes table.                                     *)
EXTENDS TaskTimeline, TLC

CallerSymmetry == Permutations(Tasks) \union Permutations(NoteKeys) \union Permutations(Runners)
=============================================================================
