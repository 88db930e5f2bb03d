-------------------------- MODULE MCFortiOSCommands --------------------------
(***************************************************************************)
(* Small answers and a small manifest for the FortiOS commands.            *)
(***************************************************************************)
EXTENDS FortiOSCommands

MCGreetings == {<<"prompt">>, <<"text", "prompt">>, <<"prompt_like", "text", "prompt">>}
MCAnswers ==
  {<<"echo", "text", "prompt">>, <<"text", "text", "prompt">>,
   <<"echo", "text", "pager", "more", "text", "pager", "more", "text", "prompt">>,
   <<"echo", "text", "prompt_like", "text", "prompt">>,
   <<"echo", "denied", "prompt">>, <<"echo", "unavailable", "denied", "prompt">>,
   <<"echo", "unavailable", "prompt">>, <<"rejected", "prompt">>,
   [i \in 1..11 |-> IF i = 11 THEN "prompt" ELSE "text"]}

MCManifest ==
  [show |-> [class |-> "read_only", executable |-> TRUE, interactive |-> FALSE],
   watch |-> [class |-> "read_only", executable |-> FALSE, interactive |-> TRUE],
   review |-> [class |-> "read_only", executable |-> FALSE, interactive |-> FALSE],
   set |-> [class |-> "change", executable |-> FALSE, interactive |-> FALSE]]

MCRequested == DOMAIN MCManifest \cup {"absent"}
MCCollections == {<<"first", "second">>}

Two == <<"listing", "listing">>
Parses == {[texts |-> <<"listing">>, parses |-> p] : p \in BOOLEAN}
HA(sync, n) == [texts |-> <<"listing">>, health |-> "ok", mode |-> "cluster", header |-> TRUE,
                rows |-> [i \in 1..n |-> [sync |-> sync, role |-> "primary"]]]
Routing(texts, rows) ==
  [texts |-> texts, identity |-> TRUE, header |-> TRUE, rows |-> rows]
Up(state) == <<[state |-> state, prefixes |-> "some"]>>
RoutingAnswers(up) ==
  {Routing(Two, Up(up)), Routing(Two, <<>>), Routing(<<"disabled", "listing">>, <<>>),
   Routing(<<"command_unavailable", "listing">>, <<>>)}

MCProbeOutputs ==
  [get_device_facts |-> {[texts |-> <<"listing">>, version |-> v] :
                           v \in {"in_range", "no_patch", "missing"}},
   get_system_health |-> {[texts |-> <<"listing">>, cpu |-> c, memory |-> "low"] :
                            c \in {"low", "absent"}},
   get_interfaces |-> {[texts |-> Two, rows |-> <<>>],
                       [texts |-> Two, rows |-> <<[name |-> "wan1", admin |-> "up", oper |-> "up",
                                                   errors |-> FALSE]>>]},
   get_route_summary |-> Parses,
   get_firewall_policies |-> Parses,
   get_ha_status |-> {HA("in_sync", 2), HA("unknown", 2), HA("in_sync", 3)},
   get_sdwan_status |-> {[texts |-> <<t, "empty_output">>, members |-> FALSE, checks |-> <<>>,
                          explicit_none |-> FALSE] : t \in {"disabled", "empty_output"}},
   get_ipsec_status |-> {[texts |-> <<"listing", "empty_output">>, gateways |-> <<>>,
                          tunnels |-> <<>>, header |-> TRUE]},
   get_bgp_status |-> RoutingAnswers("established") \X {Routing(Two, Up("idle"))},
   get_ospf_status |-> {Routing(Two, Up("full"))} \X {Routing(Two, Up("full"))}]
=============================================================================
