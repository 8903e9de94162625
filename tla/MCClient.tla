------------------------------ MODULE MCClient ------------------------------
(* Client on small instances.                                              *)
EXTENDS Client, TLC

Symmetry == Permutations(Threads)

\* Everything but missed, which no action reads and only the liveness properties do.
WithoutMissed ==
  <<pc, tables, mem, queue, blocked, kill, sendOnly, events, target, todo, after, hist>>
=============================================================================
