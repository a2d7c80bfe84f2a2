---------------------------- MODULE MCTaskLease ----------------------------
(***************************************************************************)
(* Instances of TaskLease for TLC.                                         *)
(***************************************************************************)
EXTENDS TaskLeaseProperties, TLC

CONSTANTS t1, t2, w1, w2

Interchangeable == Permutations({w1, w2}) \cup Permutations({t1, t2})
=============================================================================
