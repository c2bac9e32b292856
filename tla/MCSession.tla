----------------------------- MODULE MCSession ------------------------------
(* Two devices that may use either of two keys, two codes.                 *)
EXTENDS Session
=============================================================================
