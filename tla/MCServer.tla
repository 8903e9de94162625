------------------------------ MODULE MCServer ------------------------------
(* Server on small instances.                                              *)
EXTENDS Server

SmallBatches == {<<1>>, <<1, 2, 3, 4>>, <<0, 1, 0, 2, 3>>}
=============================================================================
