-------------------------- MODULE MCInvestigations --------------------------
(***************************************************************************)
(* Small answers for the investigations: for every read, outputs that take *)
(* its parser and its rules through their cases.                           *)
(***************************************************************************)
EXTENDS Investigations

Listing == <<"listing">>
Rows(S, n) == UNION {[1..k -> S] : k \in 0..n}

Members == {[sync |-> s, role |-> r] : s \in {"in_sync", "out_of_sync"}, r \in {"primary"}}
           \cup {[sync |-> "unknown", role |-> "secondary"]}

\* The configuration status names its members before any other section does.
InOrder(rows) == \A i, j \in DOMAIN rows : i < j /\ rows[i].sync = "unknown" => rows[j].sync = "unknown"

HAListing(health, mode, rows) ==
  [texts |-> Listing, health |-> health, mode |-> mode, header |-> rows # <<>>, rows |-> rows]
Synced(n) == [i \in 1..n |-> [sync |-> "in_sync", role |-> "primary"]]

HAOutputs ==
  {HAListing(h, "cluster", r) : h \in {"ok", "failing"},
                                r \in {q \in Rows(Members, 2) : InOrder(q) /\ Len(q) # 1}}
  \cup {HAListing(h, m, r) : h \in {"warning", "absent"}, m \in {"standalone", "absent"},
                             r \in Rows(Members, 1)}
  \cup {HAListing("ok", "cluster", Synced(n)) : n \in {1, 3}}
  \cup {[HAListing("absent", "absent", <<>>) EXCEPT !.texts = <<t>>] :
          t \in {"empty_output", "permission_denied"}}

MemberOutputs == {HAListing("ok", "cluster", Synced(n)) : n \in {0, 2, 3}}

At(clock, offset, aware) == [known |-> TRUE, clock |-> clock, offset |-> offset, aware |-> aware]
Unstamped == [known |-> FALSE, clock |-> 0, offset |-> 0, aware |-> FALSE]
Line(says, member, interface, at) ==
  [says |-> says, member |-> member, interface |-> interface, at |-> at]

Lines ==
  {Line("heartbeat_lost", "m1", "ha1", At(0, 0, FALSE)),
   Line("heartbeat_lost", "m1", "ha1", At(9, 0, FALSE)),
   Line("heartbeat_lost", "m2", "none", At(3, 3, TRUE)),
   Line("new_member", "m1", "none", At(10, 0, FALSE)),
   Line("member_left", "m2", "none", Unstamped),
   Line("member_restarted", "m1", "none", At(1, 0, FALSE)),
   Line("ha_process_restarted", "none", "none", Unstamped),
   Line("heartbeat_interface_down", "none", "ha1", At(0, 0, FALSE)),
   Line("heartbeat_interface_restored", "none", "ha1", At(1, 0, FALSE)),
   Line("unknown", "none", "none", Unstamped)}
Told == Lines \ {Line("heartbeat_lost", "m2", "none", At(3, 3, TRUE)),
                 Line("unknown", "none", "none", Unstamped)}

HistoryOutputs ==
  {[texts |-> Listing, cut |-> FALSE, lines |-> l] : l \in Rows(Lines, 1) \cup (Told \X Told)}
  \cup {[texts |-> Listing, cut |-> TRUE, lines |-> <<>>],
        [texts |-> <<"command_unavailable">>, cut |-> FALSE, lines |-> <<>>]}

ChecksumOutputs ==
  {[texts |-> Listing, rows |-> r] :
     r \in {<<>>,
            <<[label |-> "root", digest |-> "a"]>>,
            <<[label |-> "root", digest |-> "a"], [label |-> "root", digest |-> "a"]>>,
            <<[label |-> "root", digest |-> "a"], [label |-> "root", digest |-> "b"]>>,
            <<[label |-> "global", digest |-> "a"], [label |-> "root", digest |-> "b"]>>}}

Wan(admin, oper, errors) == [name |-> "wan1", admin |-> admin, oper |-> oper, errors |-> errors]
HAPort(oper, errors) == [name |-> "ha1", admin |-> "up", oper |-> oper, errors |-> errors]

InterfaceOutputs ==
  {[texts |-> <<"listing", "listing">>, rows |-> r] :
     r \in {<<>>, <<HAPort("up", FALSE)>>, <<HAPort("down", FALSE)>>, <<HAPort("up", TRUE)>>}
           \cup {<<Wan(a, o, FALSE)>> : a \in {"up", "down", "default"},
                                        o \in {"up", "down", "absent"}}}

SDWANOutputs ==
  {[texts |-> <<"listing", "listing">>, members |-> m, checks |-> c, explicit_none |-> FALSE] :
     m \in BOOLEAN,
     c \in Rows({[state |-> s, sla |-> l] : s \in PathStates, l \in SLAStates}, 2)}
  \cup {[texts |-> <<t, "empty_output">>, members |-> FALSE, checks |-> <<>>,
         explicit_none |-> FALSE] : t \in Absences \cup {"empty_output", "permission_denied"}}
  \cup {[texts |-> <<"listing", "listing">>, members |-> TRUE, explicit_none |-> FALSE,
         checks |-> [i \in 1..3 |-> [state |-> "alive", sla |-> "passing"]]]}

Gateways == {[name |-> n, interface |-> "wan1", status |-> s, sas |-> k] :
               n \in {"t1", "t2"}, s \in {"established", "down", "absent"}, k \in {"none", "some"}}
Tunnels == {[name |-> n, base |-> "t1", sas |-> k] :
              n \in {"t1", "t1_0", "t3"}, k \in {<<>>, <<0>>, <<1>>, <<2, 0>>, <<3>>}}
IPsecOutputs ==
  {[texts |-> <<"listing", "listing">>, gateways |-> g, tunnels |-> t, header |-> TRUE] :
     g \in Rows(Gateways, 1) \cup {<<x, y>> : x, y \in {g \in Gateways : g.sas = "none"}},
     t \in Rows(Tunnels, 1)}
  \cup {[texts |-> <<t, "empty_output">>, gateways |-> <<>>, tunnels |-> <<>>, header |-> FALSE] :
          t \in Absences \cup {"empty_output", "listing"}}

Neighbors(states, prefixes) == {[state |-> s, prefixes |-> p] : s \in states, p \in prefixes}
RoutingOutputs(rows) ==
  {[texts |-> <<"listing", "listing">>, identity |-> TRUE, header |-> TRUE, rows |-> r] : r \in rows}
  \cup {[texts |-> <<t, "listing">>, identity |-> FALSE, header |-> FALSE, rows |-> <<>>] :
          t \in {"listing", "empty_output", "command_unavailable", "permission_denied",
                 "disabled", "not_configured"}}
BGPRows == Rows(Neighbors({"established", "idle", "unknown"}, {"some", "zero"}), 1)
           \cup {[i \in 1..3 |-> [state |-> "established", prefixes |-> "some"]]}
OSPFRows == Rows(Neighbors({"full", "init"}, {"none"}), 1)
            \cup {[i \in 1..3 |-> [state |-> "full", prefixes |-> "none"]]}

RouteRows == {[default |-> d, selected |-> s, continued |-> c] :
                d \in BOOLEAN, s \in BOOLEAN, c \in BOOLEAN}

MCOutputs ==
  [get_device_facts |-> {[texts |-> Listing, version |-> v] :
                           v \in {"in_range", "no_patch", "malformed", "missing"}},
   get_interfaces |-> InterfaceOutputs,
   get_system_health |-> {[texts |-> Listing, cpu |-> c, memory |-> m] :
                            c \in {"low", "high", "critical", "absent"}, m \in {"low", "high"}},
   get_routes |-> {[texts |-> Listing, header |-> TRUE, rows |-> r] : r \in Rows(RouteRows, 2)}
                  \cup {[texts |-> Listing, header |-> FALSE, rows |-> <<>>]},
   get_ha_status |-> HAOutputs,
   get_ha_members |-> MemberOutputs,
   get_ha_history |-> HistoryOutputs,
   get_ha_checksum_nonsync |-> ChecksumOutputs,
   get_sdwan_status |-> SDWANOutputs,
   get_ipsec_status |-> IPsecOutputs,
   get_bgp_status |-> RoutingOutputs(BGPRows) \X {o \in RoutingOutputs(BGPRows) : Len(o.rows) # 1},
   get_ospf_status |-> RoutingOutputs(OSPFRows) \X RoutingOutputs(OSPFRows)]
=============================================================================
