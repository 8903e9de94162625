----------------------------- MODULE MCInetMap -----------------------------
(* Two units, one with two entries that may collide, include or exclude.   *)
EXTENDS InetMap

CONSTANTS u1, u2, e1, e2, e3

MCOwner == (e1 :> u1) @@ (e2 :> u1) @@ (e3 :> u2)
Shape(inet, time, flag, nice) ==
  [inet |-> [begin |-> inet[1], end |-> inet[2]], time |-> [begin |-> time[1], end |-> time[2]],
   flag |-> flag, nice |-> nice]
MCShapes ==
  (e1 :> {Shape(<<0, 2>>, <<0, 2>>, TRUE, 1)})
  @@ (e2 :> {Shape(<<2, 2>>, <<2, 0>>, FALSE, 0), Shape(<<2, 2>>, <<2, 0>>, FALSE, 1),
             Shape(<<2, 3>>, <<2, 0>>, TRUE, 1)})
  @@ (e3 :> {Shape(<<2, 3>>, <<0, 0>>, TRUE, 0), Shape(<<2, 3>>, <<2, 0>>, TRUE, 0)})
=============================================================================
