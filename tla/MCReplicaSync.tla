---------------------------- MODULE MCReplicaSync -----------------------------
(* Model-checking instance of ReplicaSync: rows are interchangeable. *)
EXTENDS ReplicaSync, TLC

RowSymmetry == Permutations(Id)
=============================================================================
