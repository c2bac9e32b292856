---------------------------- MODULE MCRateLimit -----------------------------
(* Two messages per window of three ticks, over four windows.              *)
EXTENDS RateLimit
=============================================================================
