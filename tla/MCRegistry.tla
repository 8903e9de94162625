---------------------------- MODULE MCRegistry ----------------------------
(* Registry on small instances: one chain of a consumer, a unit and an entry. *)
EXTENDS Registry
=============================================================================
