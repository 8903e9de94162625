----------------------------- MODULE MCGateway -----------------------------
(* Two gateways with one interface each, one operator and three links.      *)
EXTENDS Gateway, TLC

Symmetry ==
  Permutations(Gws) \cup Permutations(Ops) \cup Permutations(Gls)
============================================================================
