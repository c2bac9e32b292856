------------------------- MODULE MCConnectionSlots --------------------------
(* Five connections over two slots: the limit is reached, connections are  *)
(* rejected, and guards drop during every acquisition.                     *)
EXTENDS ConnectionSlots
=============================================================================
