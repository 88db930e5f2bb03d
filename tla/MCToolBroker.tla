---------------------------- MODULE MCToolBroker ----------------------------
(* A Broker with a read, a diagnostic the policy allows, one it does not,  *)
(* a tool the device cannot do, and a generic tool that is forbidden.      *)
EXTENDS ToolBroker

MCCapabilityOf == [t \in Names |-> IF t = "get_vlans" THEN "vlans" ELSE "facts"]
MCClassOf == [t \in Names |-> IF t \in {"ping", "get_ha_history"} THEN "diagnostic" ELSE "read_only"]
MCInventory == [d \in {"fw1"} |-> {"facts"}]
=============================================================================
