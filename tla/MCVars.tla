------------------------------- MODULE MCVars -------------------------------
(* Vars on small instances.                                                *)
EXTENDS Vars

CONSTANTS s1, s2

\* One session may load modules and fill the caches, the other may not.
RootAndAdmin == {(s1 :> "root") @@ (s2 :> "admin")}

NetflowTwice == [netflow |-> 2, private |-> 1, salt |-> 1]
=============================================================================
