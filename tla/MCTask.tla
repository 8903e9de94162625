------------------------------- MODULE MCTask -------------------------------
(* Task on a small instance: one task and two methods at a time.  What is   *)
(* safe for it is proved for any number of both in TaskProofs.              *)
EXTENDS Task
=============================================================================
