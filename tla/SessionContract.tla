--------------------------- MODULE SessionContract --------------------------
(***************************************************************************)
(* The session contract the native apps are aligned to: five phases and    *)
(* nine legal transitions (native/shared/src/contract_parity.rs, which     *)
(* checks the table of bolt-core-sdk; the transitions themselves are the   *)
(* ones the methods of IpcManager state).                                  *)
(***************************************************************************)
VARIABLE phase

Phases == {"idle", "requesting", "incomingRequest", "connecting", "connected"}

Reset == {<<p, "idle">> : p \in Phases \ {"idle"}}

(* session_transitions_legal: the nine pairs. *)
LegalTransitions ==
    {<<"idle", "requesting">>, <<"idle", "incomingRequest">>,
     <<"requesting", "connecting">>, <<"incomingRequest", "connecting">>,
     <<"connecting", "connected">>} \union Reset

Init == phase = "idle"

Step == phase' \in Phases /\ <<phase, phase'>> \in LegalTransitions

(* A session that comes up before the shell saw the acceptance makes two   *)
(* legal transitions in one event, through connecting.                     *)
ThroughConnecting ==
    /\ <<phase, "connecting">> \in LegalTransitions
    /\ phase' = "connected"

Next == Step \/ ThroughConnecting

Spec == Init /\ [][Next]_phase

=============================================================================
