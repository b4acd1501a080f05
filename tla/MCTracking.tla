----------------------------- MODULE MCTracking -----------------------------
(* Two groups of metrics on their way to two outputs. *)
EXTENDS Tracking
CONSTANTS g1, g2
MCGroup == {g1, g2}
=============================================================================
