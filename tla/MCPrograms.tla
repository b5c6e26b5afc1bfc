------------------------------ MODULE MCPrograms ------------------------------
(* A small calendar: two days of two points in time each, weeks that a month  *)
(* may cut, one year.                                                         *)
EXTENDS Programs

Days == [t \in 0 .. LastTime |-> t \div 2]
Weeks == [t \in 0 .. LastTime |-> t \div 4]
Months == [t \in 0 .. LastTime |-> t \div 5]
Years == [t \in 0 .. LastTime |-> 0]

(* A typed letter, two words that agree beyond it and one that does not.      *)
Words == {<<1, 1, 1>>, <<1, 1, 2>>, <<1, 2>>}
Letter == <<1>>
================================================================================
