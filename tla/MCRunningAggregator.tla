------------------------ MODULE MCRunningAggregator ------------------------
(* Small instances of RunningAggregator for TLC. *)
EXTENDS RunningAggregator

CONSTANTS m1, m2

MCMetric == {m1, m2}
=============================================================================
