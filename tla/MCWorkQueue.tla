----------------------------- MODULE MCWorkQueue -----------------------------
(* Values for TLC: datasets are named by numbers in the order of the glob of *)
(* queue-jobs.sh.                                                            *)
EXTENDS WorkQueue, TLC

CONSTANT NItems

MCItems == 1..NItems
MCBatch == [k \in 1..NItems |-> k]
Symmetry == Permutations(Workers)
=============================================================================
