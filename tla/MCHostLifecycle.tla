--------------------------- MODULE MCHostLifecycle ---------------------------
(* The model-checking instance of HostLifecycle.                           *)
EXTENDS HostLifecycle, TLC
=============================================================================
