------------------------- MODULE MCSignalingClient --------------------------
(* Two planes, this device and two others: enough for a peer on both       *)
(* planes, a list that shifts under the reader, and an outage.             *)
EXTENDS SignalingClient
=============================================================================
