----------------------------- MODULE RestorePoints -----------------------------
(***************************************************************************)
(* What a store of restore points promises its user: a point that is       *)
(* offered stays until it is given up, it is given up only while nobody    *)
(* protects it, and once given up it never comes back.  A point may also   *)
(* be given up before it was ever complete.                                *)
(***************************************************************************)
CONSTANT Points

VARIABLE offer    \* for each point: "none", "open", "protected" or "gone"

Offers == {"none", "open", "protected", "gone"}

Moves ==
  {<<"none", "open">>, <<"none", "protected">>, <<"open", "protected">>, <<"protected", "open">>,
   <<"none", "gone">>, <<"open", "gone">>}

Init == offer = [p \in Points |-> "none"]

Next ==
  /\ offer' \in [Points -> Offers]
  /\ \A p \in Points : offer'[p] # offer[p] => <<offer[p], offer'[p]>> \in Moves

Spec == Init /\ [][Next]_offer
=============================================================================
