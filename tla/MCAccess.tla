------------------------------ MODULE MCAccess ------------------------------
(* Access on small instances.                                              *)
EXTENDS Access, TLC

Symmetry == Permutations(Sessions) \cup Permutations(Keys) \cup Permutations(Names)
=============================================================================
