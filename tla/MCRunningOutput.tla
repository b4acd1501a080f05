-------------------------- MODULE MCRunningOutput --------------------------
(* An output with a small buffer. *)
EXTENDS RunningOutput
MCBatchSizes == {2}
MCBoth == BOOLEAN
=============================================================================
