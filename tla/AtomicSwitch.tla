------------------------------ MODULE AtomicSwitch ------------------------------
(***************************************************************************)
(* What a system rollback promises, whatever is interrupted: the machine   *)
(* has one committed system at any time; a pending rollback replaces it in *)
(* one indivisible step or not at all; and no rollback does so twice.      *)
(***************************************************************************)
CONSTANTS Rollbacks, Initial, Nothing

VARIABLES
  current,   \* the committed system
  pending,   \* the rollback under way, Nothing when there is none
  switched   \* the rollbacks that became the committed system

Init ==
  /\ current = Initial
  /\ pending = Nothing
  /\ switched = {}

Begin ==
  /\ pending = Nothing
  /\ pending' \in Rollbacks \ switched
  /\ UNCHANGED <<current, switched>>

Commit ==
  /\ pending # Nothing
  /\ current' = pending
  /\ switched' = switched \cup {pending}
  /\ pending' = Nothing

Abandon ==
  /\ pending # Nothing
  /\ pending' = Nothing
  /\ UNCHANGED <<current, switched>>

Next == Begin \/ Commit \/ Abandon

Spec == Init /\ [][Next]_<<current, pending, switched>>
=============================================================================
