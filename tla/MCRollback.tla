------------------------------ MODULE MCRollback ------------------------------
(***************************************************************************)
(* Small instances of a machine that rolls back.                           *)
(***************************************************************************)
EXTENDS RollbackProperties, TLC

CONSTANTS i1, i2, b1, b2, b3, b4, c1, c2, s1, installed

MCTargetOf == [i \in TxIds |-> s1]
BootSymmetry == Permutations(BootIds)
=============================================================================
