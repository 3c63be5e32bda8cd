---------------------------- MODULE SlidingWindow ----------------------------
(***************************************************************************)
(* What a sensor's queue of readings is for: the last Length readings, of   *)
(* which GetAverageDht11 and its like take the average.                     *)
(***************************************************************************)
EXTENDS Naturals, Sequences

CONSTANTS Length,     \* readings in the window
          Values      \* what a reading can be, 0 among them

VARIABLE last         \* the readings, oldest first

Init == last = [i \in 1 .. Length |-> 0]

Insert(v) == last' = Append(Tail(last), v)

Next == \E v \in Values : Insert(v)

Spec == Init /\ [][Next]_last
=============================================================================
