--------------------------- MODULE MCAgentRuntime ---------------------------
(* One device, tools of every kind, and identifiers that are only compared. *)
EXTENDS AgentRuntime, TLC

MCCapabilityOf == [t \in Names |-> "facts"]
MCClassOf == [t \in Names |-> IF t \in {"ping", "get_ha_history"} THEN "diagnostic"
                              ELSE "read_only"]
MCInventory == [d \in {"fw1"} |-> {"facts"}]
MCHealth == <<"get_routes">>
MCRefused == <<"get_ha_history", "get_vlans">>
CallIdSymmetry == Permutations(CallIds)
=============================================================================
