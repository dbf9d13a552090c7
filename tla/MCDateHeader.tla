---------------------------- MODULE MCDateHeader ----------------------------
(* An instance of DateHeader for TLC: the turn of a year. *)
EXTENDS DateHeader

Old == [wday |-> 0, mday |-> 31, mon |-> 11, year |-> 2023, hour |-> 23, min |-> 59, sec |-> 57]
New == [wday |-> 1, mday |-> 1, mon |-> 0, year |-> 2024, hour |-> 0, min |-> 0, sec |-> 0]

NewYear == [i \in 1 .. 6 |-> IF i <= 3 THEN [Old EXCEPT !.sec = 56 + i] ELSE [New EXCEPT !.sec = i - 4]]
=============================================================================
