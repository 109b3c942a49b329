------------------------------ MODULE MCBilling ------------------------------
(* Instances of Billing for TLC: 29 January to 2 March of a common year.   *)
EXTENDS Billing, TLC

CONSTANT s1

MCIds == {s1}

Window == 32
WindowDay == [d \in 0 .. Window + 1 |-> IF d <= 2 THEN 29 + d ELSE IF d <= 30 THEN d - 2 ELSE d - 30]
WindowMonth == [d \in 0 .. Window + 1 |-> IF d <= 2 THEN 1 ELSE IF d <= 30 THEN 2 ELSE 3]

\* Days around the end of a month, and one inside it.
EveryMonth == {1, 14, 28}
SomeMonths == {29, 30, 31}
=============================================================================
