------------------------------ MODULE MCBuffer ------------------------------
(* The buffer on a small instance. *)
EXTENDS Buffer
MCBatchSizes == {1, 2, 4}
=============================================================================
