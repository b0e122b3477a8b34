---------------------------- MODULE MCRuntimeRun ----------------------------
(* Instances of RuntimeRun for TLC.                                            *)
EXTENDS RuntimeRun, TLC
=============================================================================
