------------------------------ MODULE MCAgent ------------------------------
(* Small instances of Agent for TLC. *)
EXTENDS Agent

MCPhases == {"init", "outputs", "aggprocs", "procs", "inputs"}
MCInputPhase == {"inputs"}
MCRun == {"run"}
MCOnce == {"once"}
MCModes == {"run", "once", "test"}
MCNone == {}
MCFirst == {1}
MCBoth == {1, 2}
=============================================================================
