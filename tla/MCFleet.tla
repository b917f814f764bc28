------------------------------ MODULE MCFleet -------------------------------
(* Small instances of Dispatch and Heartbeat.  The two share no item here     *)
(* (PublishRoster is all the heartbeat sees of a dispatch): a run takes one   *)
(* of them, so that their states add up.                                      *)
EXTENDS Dispatch, Heartbeat

VARIABLE part

fleetVars == <<dispatchVars, beatVars, part>>

FleetInit ==
    /\ part \in {"dispatch", "heartbeat"}
    /\ DispatchInit /\ HeartbeatInit
    /\ part = "dispatch" => perTenant

FleetNext ==
    /\ UNCHANGED part
    /\ \/ part = "dispatch" /\ DispatchNext /\ UNCHANGED beatVars
       \/ part = "heartbeat" /\ HeartbeatNext /\ UNCHANGED dispatchVars

FleetSpec == FleetInit /\ [][FleetNext]_fleetVars /\ HeartbeatFairness

FleetTypeOK == DispatchTypeOK /\ HeartbeatTypeOK
=============================================================================
