---------------------------- MODULE MCNodeOutput ----------------------------
(***************************************************************************)
(* Instance of NodeOutput for TLC.                                         *)
(***************************************************************************)
EXTENDS NodeOutputProperties, TLC

CONSTANTS c1, c2, c3

Interchangeable == Permutations(Controllers)
=============================================================================
