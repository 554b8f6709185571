------------------------------ MODULE MCEmbkfs ------------------------------
(* A volume of one file and one snapshot, small enough to fill up. *)
EXTENDS Embkfs, TLC

CONSTANTS f1, v1, v2, n1

Symmetric == Permutations(Values)
=============================================================================
