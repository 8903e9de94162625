------------------------------ MODULE MCModule ------------------------------
(* Module on small instances.  "base" and "twin" have functions of one name;  *)
(* "auth" and "copy" have authorization methods of one name, and "copy"       *)
(* imports "base", as auth_salt does private.                               *)
EXTENDS Module, TLC

CONSTANTS base, twin, auth, copy

ImportBase == [m \in Modules |-> IF m = copy THEN base ELSE None]
ImportNone == [m \in Modules |-> None]

OwnName == [m \in Modules |-> m]
SharedName == [m \in Modules |-> IF m = copy THEN auth ELSE IF m = twin THEN base ELSE m]
=============================================================================
