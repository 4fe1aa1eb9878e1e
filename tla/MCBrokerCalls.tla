---------------------------- MODULE MCBrokerCalls ----------------------------
(* BrokerCalls for TLC: one call of any kind that may be aborted, and a    *)
(* mutation that shares its id or the room of the host.                    *)
EXTENDS BrokerCalls, TLC

CONSTANTS c1, c2

MCOps == c1 :> Ops @@ c2 :> {"mutation"}
=============================================================================
