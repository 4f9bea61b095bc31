----------------------------- MODULE MCJobQueue -----------------------------
(* JobQueue for TLC: constants are given in JobQueue.cfg.  One worker is   *)
(* fair and the other is not, so workers are not interchangeable.          *)
EXTENDS JobQueue
=============================================================================
