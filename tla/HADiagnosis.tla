----------------------------- MODULE HADiagnosis -----------------------------
(***************************************************************************)
(* What NetSage concludes from HA evidence                                 *)
(* (src/src/netsage/investigations/ha_correlation.py, ha_diagnosis.py).    *)
(*                                                                         *)
(* "gathered" maps the operations collected so far to what they gave; an   *)
(* operation whose record has error "none" is evidence and its name stands *)
(* for the evidence id, any other is a collection failure.                 *)
(***************************************************************************)
EXTENDS FortiOSParsers

CONSTANT Window      \* HA_CORRELATION_WINDOW_SECONDS

ASSUME WindowAssumption == Window \in Nat \ {0}

Has(gathered, op) == op \in DOMAIN gathered /\ gathered[op].error = "none"
EvidenceOf(gathered) == {op \in DOMAIN gathered : Has(gathered, op)}
FailuresOf(gathered) == DOMAIN gathered \ EvidenceOf(gathered)
\* Mutant: evidence is cited without having been collected.
Cited_Unread(gathered, op) == {op}
Cited(gathered, op) == {op} \cap EvidenceOf(gathered)

Finding(code, severity, evidence) ==
  [code |-> code, severity |-> severity, evidence |-> evidence]
Diagnosis(says, strength, evidence, missing) ==
  [says |-> says, strength |-> strength, evidence |-> evidence, missing |-> missing]
NoDiagnosis == Diagnosis("nothing", "none", {}, {})

----------------------------------------------------------------------------
(* Correlation of the history with the status, checksums and interfaces.   *)

MembershipTypes == {"member_left", "member_joined", "member_rejoined"}
\* Mutant: a member that came back is taken to have restarted.
RestartTypes_OrRejoin == {"member_restarted", "member_booted", "member_rejoined"}
RestartTypes == {"member_restarted", "member_booted"}
IncidentTypes == MembershipTypes \cup RestartTypes
  \cup {"heartbeat_lost", "heartbeat_restored", "heartbeat_interface_down",
        "heartbeat_interface_restored", "failover", "ha_process_restarted",
        "sync_lost", "sync_restored"}

\* Events are ordered by the text of their timestamps, not by the instants.
TextOrder(at) == 100 * at.clock + (IF at.aware THEN 1 + at.offset ELSE 0)
Instant(at) == at.clock - at.offset
SameEpisode(earlier, later) ==
  earlier.aware = later.aware /\ Instant(later) - Instant(earlier) <= Window

Episodes(events) ==
  LET significant == SelectSeq(events, LAMBDA e : e.type \in IncidentTypes /\ e.at.known)
      ordered == SortSeq([i \in DOMAIN significant |-> [event |-> significant[i], index |-> i]],
                         LAMBDA a, b : \/ TextOrder(a.event.at) < TextOrder(b.event.at)
                                       \/ /\ TextOrder(a.event.at) = TextOrder(b.event.at)
                                          /\ a.index < b.index)
      Group(groups, item) ==
        IF groups # <<>> /\ SameEpisode(Last(Last(groups)).at, item.event.at)
        THEN Append(Front(groups), Append(Last(groups), item.event))
        ELSE Append(groups, <<item.event>>)
  IN  FoldLeft(Group, <<>>, ordered)

OutOfSync(status) ==
  \E i \in DOMAIN status.members : status.members[i].sync = "out_of_sync"

\* Mutant: an unknown operational state counts as down.
InterfaceDown_NotUp(interface) == interface.oper # "up"
InterfaceDown(interface) == "down" \in {interface.admin, interface.oper}

Correlate(gathered) ==
  LET status   == gathered["get_ha_status"]
      history  == gathered["get_ha_history"]
      checksum == Has(gathered, "get_ha_checksum_nonsync")
      events   == {history.events[i] : i \in DOMAIN history.events}
      types    == {e.type : e \in events}
      named    == {e.interface : e \in events} \ {"none"}
      matched  == IF Has(gathered, "get_interfaces")
                  THEN {f \in gathered["get_interfaces"].interfaces : f.name \in named}
                  ELSE {}
      losses   == Cardinality({i \in DOMAIN history.events :
                                 history.events[i].type = "heartbeat_lost"})
      membership == types \cap MembershipTypes # {}
      communication == /\ "heartbeat_lost" \in types
                       /\ membership \/ "heartbeat_restored" \in types \/ losses > 1
      episodes == Episodes(history.events)
      unstable == {i \in DOMAIN episodes :
                     \E j \in DOMAIN episodes[i] :
                        episodes[i][j].type \in MembershipTypes \cup {"heartbeat_lost"}}
      flapped  == \E f \in named :
                     {"heartbeat_interface_down", "heartbeat_interface_restored"}
                       \subseteq {e.type : e \in {d \in events : d.interface = f}}
      drift    == OutOfSync(status)
                  \/ (checksum /\ gathered["get_ha_checksum_nonsync"].mismatches > 0)
      instable == (flapped /\ matched # {})
                  \/ (communication /\ \E f \in matched : f.errors)
      When(condition, value) == IF condition THEN {value} ELSE {}
  IN  [episodes |-> Len(episodes),
       patterns |->
            When(drift, "configuration_drift")
       \cup When(communication, "heartbeat_communication_instability")
       \cup When(membership, "cluster_membership_instability")
       \cup When(Cardinality(unstable) > 1, "repeated_instability")
       \cup When(\E f \in matched : InterfaceDown(f), "heartbeat_interface_unavailable")
       \cup When(instable, "heartbeat_interface_instability")
       \cup When(types \cap RestartTypes # {}, "member_restart")
       \cup When("ha_process_restarted" \in types, "ha_process_restart"),
       missing |->
            When(history.truncated, "ha_history_truncated")
       \cup When(types = {"unknown"}, "ha_history_unrecognized")
       \cup When(~checksum, "checksum_detail_unavailable")
       \cup IF ~(communication \/ membership) THEN {}
            ELSE {"heartbeat_physical_layer_unobservable"}
                 \cup When(matched = {}, "heartbeat_interface_state_unavailable")
                 \cup When(types \cap RestartTypes = {}, "member_restart_evidence_unavailable")]

----------------------------------------------------------------------------
(* Assessment: findings, one diagnosis at most, and the summary.           *)

NoCorrelation == [episodes |-> 0, patterns |-> {}, missing |-> {}]

Synchronization(status) ==
  LET states == {status.members[i].sync : i \in DOMAIN status.members}
  IN  CASE "out_of_sync" \in states -> "out_of_sync"
        [] states = {"in_sync"} -> "in_sync"
        [] OTHER -> "unknown"

StatusFindings(status, checksum_ids) ==
  CASE status.enabled = "no" -> {Finding("ha_disabled", "info", {"get_ha_status"})}
    [] status.enabled # "no" /\ OutOfSync(status) ->
         {Finding("ha_configuration_out_of_sync", "warning", {"get_ha_status"} \cup checksum_ids)}
    [] status.enabled # "no" /\ ~OutOfSync(status) /\ status.health # "healthy"
         /\ status.health # "unknown" ->
         {Finding("ha_health_degraded",
                  IF status.health = "unhealthy" THEN "critical" ELSE "warning",
                  {"get_ha_status"})}
    [] OTHER -> IF status.enabled = "yes" /\ status.members # <<>>
                THEN {Finding("ha_cluster_healthy", "info", {"get_ha_status"})} ELSE {}

\* What each pattern is reported as, and whether interface evidence is cited.
PatternFindings ==
  [heartbeat_communication_instability |->
     <<"ha_heartbeat_communication_instability", "warning", FALSE>>,
   cluster_membership_instability |->
     <<"ha_cluster_membership_instability", "warning", FALSE>>,
   repeated_instability |-> <<"repeated_ha_member_instability", "warning", FALSE>>,
   heartbeat_interface_instability |-> <<"ha_heartbeat_link_instability", "warning", TRUE>>,
   heartbeat_interface_unavailable |->
     <<"ha_heartbeat_interface_unavailable", "critical", TRUE>>,
   member_restart |-> <<"member_restart_observed", "warning", FALSE>>,
   ha_process_restart |-> <<"ha_process_restart_observed", "warning", FALSE>>]

\* The precedence of the diagnoses, with the strength of each.
Conclusions(status, patterns) ==
  <<<<"ha_process_restart" \in patterns, "ha_process_restart", "confirmed">>,
    <<"member_restart" \in patterns, "member_restart", "confirmed">>,
    <<"heartbeat_interface_instability" \in patterns, "heartbeat_link", "strong">>,
    <<"heartbeat_interface_unavailable" \in patterns, "heartbeat_interface", "strong">>,
    <<"heartbeat_communication_instability" \in patterns, "heartbeat_communication", "probable">>,
    <<OutOfSync(status), "out_of_sync", "confirmed">>,
    <<status.health \in {"degraded", "unhealthy"}, "health_degraded", "confirmed">>,
    <<"cluster_membership_instability" \in patterns, "membership_instability", "probable">>>>

Assess(gathered, missing_evidence) ==
  LET status   == gathered["get_ha_status"]
      checked  == Has(gathered, "get_ha_checksum_nonsync")
      correlated == Has(gathered, "get_ha_history")
      correlation == IF correlated THEN Correlate(gathered) ELSE NoCorrelation
      patterns == correlation.patterns
      mismatch == checked /\ gathered["get_ha_checksum_nonsync"].mismatches > 0
      mismatch_ids == IF mismatch THEN {"get_ha_checksum_nonsync"} ELSE {}
      history_ids == Cited(gathered, "get_ha_history")
      When(condition, finding) == IF condition THEN {finding} ELSE {}
      findings ==
             StatusFindings(status, mismatch_ids)
        \cup When(status.enabled = "yes" /\ Len(status.members) < 2,
                  Finding("ha_member_count_low", "warning", {"get_ha_status"}))
        \cup When(mismatch, Finding("ha_checksum_mismatch", "warning", mismatch_ids))
        \cup When(/\ OutOfSync(status) /\ checked
                  /\ gathered["get_ha_checksum_nonsync"].synchronized = "yes",
                  Finding("ha_synchronization_observations_disagree", "warning",
                          {"get_ha_status", "get_ha_checksum_nonsync"}))
        \cup {Finding(PatternFindings[p][1], PatternFindings[p][2],
                      history_ids \cup IF PatternFindings[p][3]
                                       THEN Cited(gathered, "get_interfaces") ELSE {}) :
                p \in patterns \cap DOMAIN PatternFindings}
        \cup When(/\ OutOfSync(status) /\ correlated
                  /\ patterns \cap {"heartbeat_communication_instability", "member_restart",
                                    "ha_process_restart"} = {},
                  Finding("ha_drift_without_transport_failure", "info",
                          {"get_ha_status"} \cup history_ids
                            \cup Cited(gathered, "get_ha_checksum_nonsync")))
      missing == correlation.missing \cup missing_evidence
      conclusions == Conclusions(status, patterns)
      reached == {i \in DOMAIN conclusions : conclusions[i][1]}
      first == conclusions[CHOOSE i \in reached : \A j \in reached : i <= j]
  IN  [findings |-> findings,
       synchronization |-> Synchronization(status),
       diagnosis |-> IF reached = {} THEN NoDiagnosis
                     ELSE Diagnosis(first[2], first[3],
                                    UNION {f.evidence : f \in findings}, missing)]
=============================================================================
