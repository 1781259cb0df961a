---------------------------- MODULE MCTaskBridge ----------------------------
(* The bridge on small instances: see README.md for what each .cfg asks.     *)
EXTENDS TaskBridge, TLC

NameSymmetry == Permutations(Runners) \union Permutations(Controllers)
                    \union Permutations(NoteKeys) \union Permutations(Tasks)
=============================================================================
