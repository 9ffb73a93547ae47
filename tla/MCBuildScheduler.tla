-------------------------- MODULE MCBuildScheduler --------------------------
(* A small server for TLC.  Without symmetry: the run checks liveness.     *)
EXTENDS BuildScheduler
=============================================================================
