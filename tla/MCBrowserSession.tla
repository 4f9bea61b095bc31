-------------------------- MODULE MCBrowserSession --------------------------
(* BrowserSession for TLC.  The run checks liveness too, so it uses no symmetry.  *)
EXTENDS BrowserSession, TLC
=============================================================================
