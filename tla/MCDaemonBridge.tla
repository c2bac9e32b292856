--------------------------- MODULE MCDaemonBridge ---------------------------
(* The caps scaled down so that each is exceeded: a buffer of three lines  *)
(* trimmed by two, a tail of two, a queue of two.                          *)
EXTENDS DaemonBridge
=============================================================================
