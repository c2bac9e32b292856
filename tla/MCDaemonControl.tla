-------------------------- MODULE MCDaemonControl ---------------------------
(* Two invocations of start, one of them with --watch, race for one socket *)
(* path; one stop; two messages, so that a request comes in while a        *)
(* prompt is open.                                                         *)
EXTENDS DaemonControl
=============================================================================
