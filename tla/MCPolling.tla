----------------------------- MODULE MCPolling ------------------------------
(* Polling for TLC.  The run checks liveness too, so it uses no symmetry.  *)
EXTENDS Polling, TLC
=============================================================================
