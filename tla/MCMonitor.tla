----------------------------- MODULE MCMonitor ------------------------------
(* The model-checking instance of Monitor, with the control plane it watches. *)
EXTENDS Monitor
=============================================================================
