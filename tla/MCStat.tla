------------------------------- MODULE MCStat -------------------------------
(* Stat with hours and days of two seconds.  The database begins with an    *)
(* hour of one unit (file b).  Of the two files the tasks read, a adds to   *)
(* that row and inserts one for another unit, and c begins just after the   *)
(* day that updates and wipes are about, with a flow between a local unit   *)
(* and another.                                                             *)
EXTENDS Stat

CONSTANTS j1, j2, c1, c2, u, v, w, l

Flow(begin, una, unb, input, output, nbytes) ==
  [begin |-> begin, una |-> una, unb |-> unb, input |-> input, output |-> output, nbytes |-> nbytes]

MCFiles ==
  [a |-> <<Flow(1, u, w, l, l, 1)>>, c |-> <<Flow(2, v, u, l, l, 4)>>,
   b |-> <<Flow(0, u, None, None, l, 2)>>]

MCGlobs == {<<"c","a">>}
MCFeeds == {"c"}
MCBefore == <<"b">>

MCArgs == {[start |-> 1, end |-> None, period |-> "day"],
           [start |-> 1, end |-> 1, period |-> None]}

MCCalendar == [day |-> [t \in 0 .. 3 |-> [start |-> t - (t % 2), end |-> t - (t % 2) + 2]]]

Symmetry == Permutations(Jobs)
=============================================================================
