---------------------------- MODULE MCCoordination ----------------------------
(***************************************************************************)
(* Small instances of the recovery store.                                  *)
(***************************************************************************)
EXTENDS CoordinationProperties, TLC

CONSTANTS d1, d2, d3, j1, j2

Symmetry == Permutations(Ids) \cup Permutations(Jobs)
=============================================================================
