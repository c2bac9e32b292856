---------------------------- MODULE MCRendezvous ----------------------------
(* Instances of Rendezvous for TLC.  Connections and codes are             *)
(* interchangeable model values.                                           *)
EXTENDS Rendezvous, TLC

Symmetry == Permutations(Conns) \cup Permutations(Codes)
=============================================================================
