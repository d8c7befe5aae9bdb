----------------------------- MODULE MCRunQueue -----------------------------
(* Small instances of RunQueue for TLC.                                    *)
EXTENDS RunQueue, TLC

WorkerSymmetry == Permutations(Workers)
QueueSymmetry  == Permutations(Workers) \cup Permutations(Runs)
=============================================================================
