------------------------------ MODULE MCPoolTx ------------------------------
(* Instances of PoolTx for TLC.                                            *)
EXTENDS PoolTx

CONSTANTS n1, n2, n3, a, b

(* Three nodes in a line: the two ends talk through the one in the middle. *)
Line == {<<n1, n2>>, <<n2, n1>>, <<n2, n3>>, <<n3, n2>>}

(* Both transactions alone and together, so that batches overlap.          *)
Overlapping == {<<a>>, <<b>>, <<a, b>>}
=============================================================================
