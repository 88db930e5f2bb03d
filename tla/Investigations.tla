--------------------------- MODULE Investigations ---------------------------
(***************************************************************************)
(* The deterministic investigations                                        *)
(* (src/src/netsage/investigations/fortios.py): each collects evidence one *)
(* read at a time, from a device that may change between two reads, and    *)
(* then concludes.                                                         *)
(***************************************************************************)
EXTENDS HADiagnosis, FortiOSDriver

CONSTANTS Kinds,       \* the workflows the run starts
          Outputs      \* for every read, what a device may answer

\* A read answered by no text at all: the broker or the transport failed.
Unreachable == Raised("transport_failed", "transport", <<>>)

VARIABLES kind,        \* the workflow, "none" before it starts
          todo,        \* the reads still to be made at this stage, in order
          gathered,    \* what every read made so far gave
          version,     \* the driver's cached firmware version, "none" if unread
          report       \* the report, NoReport until the workflow ends
vars == <<kind, todo, gathered, version, report>>

FirstStage ==
  [health |-> <<"get_device_facts", "get_interfaces", "get_system_health", "get_routes">>,
   ha |-> <<"get_ha_status", "get_ha_members">>,
   sdwan |-> <<"get_sdwan_status">>,
   ipsec |-> <<"get_ipsec_status", "get_interfaces">>,
   routing |-> <<"get_bgp_status", "get_ospf_status">>,
   default_route |-> <<"get_routes">>,
   interface_state |-> <<"get_interfaces">>]

\* The interface an interface-state investigation asks about.
Target == "wan1"

ASSUME KindsAssumption == Kinds \subseteq DOMAIN FirstStage

----------------------------------------------------------------------------
(* Diagnoses that only say what is missing.                                *)

Insufficient(evidence, missing) ==
  Diagnosis("insufficient", "insufficient", evidence, missing)

PartialDiagnosis ==
  IF FailuresOf(gathered) = {} THEN NoDiagnosis
  ELSE Insufficient(EvidenceOf(gathered), FailuresOf(gathered))

When(condition, finding) == IF condition THEN {finding} ELSE {}
Some(rows, Test(_)) == \E i \in DOMAIN rows : Test(rows[i])

----------------------------------------------------------------------------
(* Health: findings of the resources, the interfaces and the routes.       *)

HasActiveDefaultRoute == \E r \in gathered["get_routes"].routes : r.default /\ r.selected

ResourceFindings(load, code) ==
  When(load \in {"high", "critical"},
       Finding(code, IF load = "critical" THEN "critical" ELSE "warning",
               {"get_system_health"}))

RouteFinding ==
  IF HasActiveDefaultRoute THEN Finding("active_default_route", "info", {"get_routes"})
  ELSE Finding("missing_default_route", "warning", {"get_routes"})

HealthFindings ==
  (IF Has(gathered, "get_system_health")
   THEN ResourceFindings(gathered["get_system_health"].cpu, "high_cpu")
        \cup ResourceFindings(gathered["get_system_health"].memory, "high_memory")
   ELSE {})
  \cup (IF Has(gathered, "get_interfaces")
        THEN {IF f.admin = "down"
              THEN Finding("interface_administratively_down", "info", {"get_interfaces"})
              ELSE Finding("interface_operationally_down", "warning", {"get_interfaces"}) :
                f \in {g \in gathered["get_interfaces"].interfaces : InterfaceDown(g)}}
        ELSE {})
  \cup (IF Has(gathered, "get_routes") THEN {RouteFinding} ELSE {})

NoDefaultRoute == Diagnosis("no_default_route", "confirmed", {"get_routes"}, {})

HealthConclusion ==
  [findings |-> HealthFindings, synchronization |-> "none",
   diagnosis |-> IF FailuresOf(gathered) # {} THEN PartialDiagnosis
                 ELSE IF HasActiveDefaultRoute THEN NoDiagnosis ELSE NoDefaultRoute]

DefaultRouteConclusion ==
  [synchronization |-> "none",
   findings |-> IF Has(gathered, "get_routes") THEN {RouteFinding} ELSE {},
   diagnosis |-> IF Has(gathered, "get_routes") /\ ~HasActiveDefaultRoute
                 THEN NoDefaultRoute ELSE PartialDiagnosis]

----------------------------------------------------------------------------
(* One interface.                                                          *)

InterfaceConclusion ==
  LET Cite == {"get_interfaces"}
      Conclude(finding, diagnosis) ==
        [findings |-> finding, diagnosis |-> diagnosis, synchronization |-> "none"]
      named == {f \in gathered["get_interfaces"].interfaces : f.name = Target}
      interface == CHOOSE f \in named : TRUE
      states == <<interface.admin, interface.oper>>
  IN  CASE ~Has(gathered, "get_interfaces") -> Conclude({}, PartialDiagnosis)
        [] Has(gathered, "get_interfaces") /\ named = {} ->
             Conclude({}, Insufficient(Cite, {"interface"}))
        [] OTHER ->
             CASE interface.admin = "down" ->
                    Conclude({Finding("interface_administratively_down", "info", Cite)},
                             Diagnosis("administratively_down", "confirmed", Cite, {}))
               [] states = <<"up", "down">> ->
                    Conclude({Finding("interface_operationally_down", "warning", Cite)},
                             Diagnosis("operationally_down", "confirmed", Cite, {}))
               [] states = <<"up", "up">> ->
                    Conclude({Finding("interface_up", "info", Cite)}, NoDiagnosis)
               [] OTHER -> Conclude({}, Insufficient(Cite, {"interface"}))

----------------------------------------------------------------------------
(* SD-WAN.                                                                 *)

SDWANConclusion ==
  LET Cite == {"get_sdwan_status"}
      status == gathered["get_sdwan_status"]
      Conclude(findings, diagnosis) ==
        [findings |-> findings, diagnosis |-> diagnosis, synchronization |-> "none"]
      dead == Some(status.checks, LAMBDA c : c.state = "dead")
      alive == Some(status.checks, LAMBDA c : c.state = "alive")
      failing == Some(status.checks, LAMBDA c : c.sla = "failing")
  IN  CASE ~Has(gathered, "get_sdwan_status") -> Conclude({}, PartialDiagnosis)
        [] OTHER ->
             IF status.truncated THEN Conclude({}, Insufficient(Cite, {"sdwan_truncated"}))
             ELSE IF status.enabled = "no"
                  THEN Conclude({Finding("sdwan_disabled", "info", Cite)}, NoDiagnosis)
             ELSE IF status.checks = <<>>
                  THEN Conclude({}, Insufficient(Cite, {"health_checks"}))
             ELSE Conclude(
                    When(dead, Finding("sdwan_member_down", "warning", Cite))
                    \cup When(failing, Finding("sdwan_sla_failing", "warning", Cite))
                    \cup When(dead /\ alive,
                              Finding("sdwan_healthy_alternative", "info", Cite))
                    \cup When(alive /\ ~dead /\ ~failing,
                              Finding("sdwan_paths_healthy", "info", Cite)),
                    IF alive THEN NoDiagnosis
                    ELSE Diagnosis("no_alive_path", "confirmed", Cite, {}))

----------------------------------------------------------------------------
(* IPsec: the tunnels are related to the interfaces read after them.       *)

\* Mutant: a diagnosis drawn from what was read stands although a read is missing.
PartialOr_Concluded(diagnosis) ==
  IF diagnosis # NoDiagnosis THEN diagnosis ELSE PartialDiagnosis
PartialOr(diagnosis) == IF FailuresOf(gathered) = {} THEN diagnosis ELSE PartialDiagnosis

IPsecDiagnosis(down, missing, bound) ==
  LET Cite == {"get_ipsec_status"}
  IN  CASE bound -> Diagnosis("bound_interface_down", "strong",
                              Cite \cup {"get_interfaces"}, {})
        [] ~bound /\ missing -> Diagnosis("phase2_missing", "confirmed", Cite, {})
        [] ~bound /\ ~missing /\ down -> Diagnosis("phase1_down", "confirmed", Cite, {})
        [] OTHER -> NoDiagnosis

IPsecConclusion ==
  LET Cite == {"get_ipsec_status"}
      status == gathered["get_ipsec_status"]
      Conclude(findings, diagnosis) ==
        [findings |-> findings, diagnosis |-> PartialOr(diagnosis), synchronization |-> "none"]
      down == Some(status.phase1, LAMBDA p : p = "down")
      missing == Some(status.tunnels,
                      LAMBDA t : /\ t.phase1 = "established"
                                 /\ t.phase2 \cap {"established", "rekeying"} = {})
      downInterfaces == IF Has(gathered, "get_interfaces")
                        THEN {f.name : f \in {g \in gathered["get_interfaces"].interfaces :
                                                InterfaceDown(g)}}
                        ELSE {}
      bound == Some(status.tunnels,
                    LAMBDA t : t.phase1 = "down" /\ t.interface \in downInterfaces)
  IN  IF ~Has(gathered, "get_ipsec_status") THEN Conclude({}, NoDiagnosis)
      ELSE IF status.truncated
           THEN Conclude({}, Insufficient(EvidenceOf(gathered), {"ipsec_truncated"}))
      ELSE IF status.enabled = "no"
           THEN Conclude({Finding("ipsec_disabled", "info", Cite)}, NoDiagnosis)
      ELSE IF status.enabled = "unknown"
           THEN Conclude({}, Insufficient(EvidenceOf(gathered), {"associations"}))
      ELSE Conclude(
             When(down, Finding("ipsec_phase1_down", "warning", Cite))
             \cup When(missing, Finding("ipsec_phase2_missing", "warning", Cite))
             \cup When(bound, Finding("ipsec_bound_interface_down", "critical",
                                      Cite \cup {"get_interfaces"}))
             \cup When(status.tunnels # <<>> /\ ~down /\ ~missing,
                       Finding("ipsec_tunnels_established", "info", Cite)),
             IPsecDiagnosis(down, missing, bound))

----------------------------------------------------------------------------
(* Dynamic routing: two protocols, judged apart and concluded together.    *)

\* Mutant: a neighbor whose state was not recognised is passed over.
Away_WhenKnown(neighbors, up) == Some(neighbors, LAMBDA n : n.state \notin {up, "unknown"})
Away(neighbors, up) == Some(neighbors, LAMBDA n : n.state # up)

\* What one protocol adds: the neighbors that are not up are "affected".
ProtocolFindings(op, up, codes) ==
  LET status == gathered[op]
      away == Away(status.neighbors, up)
      silent == /\ op = "get_bgp_status"
                /\ Some(status.neighbors, LAMBDA n : n.state = up /\ n.prefixes = "zero")
  IN  IF status.truncated THEN {}
      ELSE IF status.enabled = "no" THEN {Finding(codes.disabled, "info", {op})}
      ELSE When(away, Finding(codes.affected, "warning", {op}))
           \cup When(silent, Finding(codes.silent, "warning", {op}))
           \cup When(status.neighbors = <<>>, Finding(codes.none, "warning", {op}))

Protocols ==
  [get_bgp_status |-> [up |-> "established",
                       codes |-> [disabled |-> "bgp_disabled",
                                  affected |-> "bgp_neighbor_not_established",
                                  silent |-> "bgp_zero_received_prefixes",
                                  none |-> "bgp_no_neighbors"]],
   get_ospf_status |-> [up |-> "full",
                        codes |-> [disabled |-> "ospf_disabled",
                                   affected |-> "ospf_neighbor_not_full",
                                   silent |-> "none",
                                   none |-> "ospf_no_neighbors"]]]

RoutingConclusion ==
  LET read == DOMAIN Protocols \cap EvidenceOf(gathered)
      findings == UNION {ProtocolFindings(op, Protocols[op].up, Protocols[op].codes) :
                           op \in read}
      truncated == {op \in read : gathered[op].truncated}
      affected == {op \in read : \E f \in findings : f.code = Protocols[op].codes.affected}
  IN  [findings |-> findings, synchronization |-> "none",
       diagnosis |-> PartialOr(
         IF truncated # {} THEN Insufficient(EvidenceOf(gathered), {"neighbors_truncated"})
         ELSE IF affected # {}
              THEN Diagnosis("neighbors_degraded", "confirmed", affected, {})
         ELSE NoDiagnosis)]

----------------------------------------------------------------------------
(* HA: two more stages of reads after an anomaly.                          *)

InterfaceRelevant ==
  MembershipTypes \cup {"heartbeat_lost", "heartbeat_restored",
                        "heartbeat_interface_down", "heartbeat_interface_restored"}

\* The members read apart from the status count, when they could be read.
ObservedMembers ==
  Len(IF Has(gathered, "get_ha_members") THEN gathered["get_ha_members"].members
                                         ELSE gathered["get_ha_status"].members)

RequiresDiagnostics ==
  LET status == gathered["get_ha_status"]
  IN  \/ status.truncated
      \/ /\ status.enabled = "yes"
         /\ \/ status.health \in {"degraded", "unhealthy"}
            \/ ObservedMembers < 2
            \/ Some(status.members, LAMBDA m : m.sync # "in_sync")

NextStage ==
  IF kind # "ha" \/ ~Has(gathered, "get_ha_status") THEN <<>>
  ELSE CASE DOMAIN gathered = {"get_ha_status", "get_ha_members"} ->
              IF RequiresDiagnostics THEN <<"get_ha_history", "get_ha_checksum_nonsync">>
                                     ELSE <<>>
         [] "get_ha_checksum_nonsync" \in DOMAIN gathered
            /\ "get_interfaces" \notin DOMAIN gathered ->
              IF /\ Has(gathered, "get_ha_history")
                 /\ Some(gathered["get_ha_history"].events,
                         LAMBDA e : e.type \in InterfaceRelevant)
              THEN <<"get_interfaces">> ELSE <<>>
         [] OTHER -> <<>>

HAMissingLabel ==
  [get_ha_status |-> "ha_status_unavailable",
   get_ha_members |-> "ha_member_state_unavailable",
   get_ha_history |-> "ha_history_unrecognized",
   get_ha_checksum_nonsync |-> "checksum_detail_unavailable",
   get_interfaces |-> "heartbeat_interface_state_unavailable"]

HAConclusion ==
  LET truncated == gathered["get_ha_status"].truncated
      missing == {HAMissingLabel[op] : op \in FailuresOf(gathered)}
                 \cup IF truncated THEN {"ha_member_state_unavailable"} ELSE {}
      assessment == Assess(gathered, missing)
  IN  IF ~Has(gathered, "get_ha_status")
      THEN [findings |-> {}, diagnosis |-> PartialDiagnosis, synchronization |-> "none"]
      ELSE [assessment EXCEPT
              !.diagnosis = IF truncated /\ @ = NoDiagnosis
                            THEN Insufficient(EvidenceOf(gathered), {"ha_members_truncated"})
                            ELSE @]

----------------------------------------------------------------------------
Conclusion ==
  CASE kind = "health" -> HealthConclusion
    [] kind = "ha" -> HAConclusion
    [] kind = "sdwan" -> SDWANConclusion
    [] kind = "ipsec" -> IPsecConclusion
    [] kind = "routing" -> RoutingConclusion
    [] kind = "default_route" -> DefaultRouteConclusion
    [] OTHER -> InterfaceConclusion

\* How a report grades itself.
ReportStatus(findings, diagnosis) ==
  IF FailuresOf(gathered) # {} \/ diagnosis.strength = "insufficient" THEN "insufficient"
  ELSE IF \E f \in findings : f.severity = "critical" THEN "critical"
  ELSE IF \E f \in findings : f.severity = "warning" THEN "warning"
  ELSE "healthy"

Report ==
  [status |-> ReportStatus(Conclusion.findings, Conclusion.diagnosis),
   evidence |-> EvidenceOf(gathered), failures |-> FailuresOf(gathered),
   findings |-> Conclusion.findings, diagnosis |-> Conclusion.diagnosis,
   synchronization |-> Conclusion.synchronization]
NoReport == [status |-> "none"]

----------------------------------------------------------------------------
Init ==
  /\ kind = "none" /\ todo = <<>> /\ gathered = <<>>
  /\ version = "none" /\ report = NoReport

Start(k) ==
  /\ kind = "none"
  /\ kind' = k /\ todo' = FirstStage[k]
  /\ UNCHANGED <<gathered, version, report>>

Gather(op, observation) ==
  /\ gathered' = [read \in DOMAIN gathered \cup {op} |->
                    IF read = op THEN observation ELSE gathered[read]]
  /\ todo' = Tail(todo)
  /\ UNCHANGED <<kind, report>>

\* The facts are read once and kept for the firmware comparisons that follow.
CollectFacts ==
  /\ todo # <<>> /\ Head(todo) = "get_device_facts"
  /\ \E out \in Outputs["get_device_facts"] :
       LET facts == Read("get_device_facts", version, out)
       IN  /\ Gather("get_device_facts", facts)
           /\ version' = IF facts.error = "none" THEN facts.version ELSE version

Collect ==
  /\ todo # <<>> /\ Head(todo) \notin VariantReads \cup {"get_device_facts"}
  /\ \E out \in Outputs[Head(todo)] : Gather(Head(todo), Read(Head(todo), version, out))
  /\ UNCHANGED version

\* A read with variants needs the firmware version, and reads the facts for it.
CollectVariant ==
  /\ todo # <<>> /\ Head(todo) \in VariantReads
  /\ \E out \in Outputs[Head(todo)] :
       \E facts \in IF version = "none" THEN Outputs["get_device_facts"]
                    ELSE {[texts |-> <<"listing">>, version |-> version]} :
          LET known == Read("get_device_facts", version, facts)
          IN  IF known.error # "none"
              THEN Gather(Head(todo), known) /\ UNCHANGED version
              ELSE /\ Gather(Head(todo), Read(Head(todo), known.version, out))
                   /\ version' = known.version

CollectFails ==
  /\ todo # <<>>
  /\ Gather(Head(todo), Unreachable)
  /\ UNCHANGED version

Deepen ==
  /\ kind # "none" /\ todo = <<>> /\ NextStage # <<>> /\ report = NoReport
  /\ todo' = NextStage
  /\ UNCHANGED <<kind, gathered, version, report>>

Conclude ==
  /\ kind # "none" /\ todo = <<>> /\ NextStage = <<>> /\ report = NoReport
  /\ report' = Report
  /\ UNCHANGED <<kind, todo, gathered, version>>

Next ==
  \/ \E k \in Kinds : Start(k)
  \/ CollectFacts \/ Collect \/ CollectVariant \/ CollectFails
  \/ Deepen \/ Conclude

Spec == Init /\ [][Next]_vars

----------------------------------------------------------------------------
Reported == report # NoReport

\* Every read made is one of the workflow's, none is made twice, and the
\* stages end: the reads of fortios.py's staged collection.
TypeOK ==
  /\ kind \in Kinds \cup {"none"}
  /\ \A op \in DOMAIN gathered : op \in Reads /\ gathered[op].error \in STRING
  /\ {todo[i] : i \in DOMAIN todo} \subseteq Reads \ DOMAIN gathered
  /\ version \in Versions \cup {"none"}
  /\ Reported => todo = <<>>

\* A report is never rejected by its own model (InvestigationReport and
\* Diagnosis validators): findings and diagnosis cite collected evidence only,
\* a supported diagnosis cites some, and a partial collection says so.
EvidenceResolves ==
  Reported =>
    /\ \A f \in report.findings : f.evidence # {} /\ f.evidence \subseteq report.evidence
    /\ report.diagnosis.evidence \subseteq report.evidence
    /\ report.diagnosis.strength \in {"confirmed", "strong", "probable"} =>
         report.diagnosis.evidence # {}
    /\ report.failures # {} => report.status = "insufficient"

\* A restart is concluded only from a history that says so: a member that was
\* lost and came back is no evidence of a reboot.
RestartOnlyIfSaid ==
  Reported /\ report.diagnosis.says \in {"member_restart", "ha_process_restart"} =>
    /\ Has(gathered, "get_ha_history")
    /\ Some(gathered["get_ha_history"].events,
            LAMBDA e : e.type \in {"member_restarted", "member_booted", "ha_process_restarted"})

\* Outside HA, whose stages judge what they have, a report that misses a read
\* never names a cause (_partial_diagnosis has the last word).
PartialNamesNoCause ==
  Reported /\ kind # "ha" /\ report.failures # {} =>
    report.diagnosis.says = "insufficient"

\* What a read shows that an operator has to hear of.
ShowsFault(op) ==
  LET seen == gathered[op]
  IN  CASE op = "get_sdwan_status" ->
             seen.truncated \/ Some(seen.checks, LAMBDA c : c.state = "dead" \/ c.sla = "failing")
        [] op = "get_ipsec_status" ->
             seen.truncated \/ Some(seen.phase1, LAMBDA p : p = "down")
        [] op \in VariantReads ->
             seen.truncated \/ Some(seen.neighbors, LAMBDA n : n.state # Protocols[op].up)
        [] op = "get_ha_status" ->
             seen.enabled # "no" /\ (seen.truncated \/ OutOfSync(seen))
        [] op = "get_ha_history" ->
             Some(seen.events, LAMBDA e : e.type \in MembershipTypes \cup RestartTypes)
        [] op = "get_interfaces" ->
             /\ kind = "health"
             /\ \E f \in seen.interfaces : f.admin = "up" /\ f.oper = "down"
        [] op = "get_routes" -> ~\E r \in seen.routes : r.default /\ r.selected
        [] op = "get_system_health" -> seen.status # "healthy"
        [] OTHER -> FALSE

\* A report graded healthy hides nothing: every read succeeded, and none of
\* them shows a fault, whichever of the rules should have caught it.
HealthyHidesNothing ==
  Reported /\ report.status = "healthy" =>
    /\ FailuresOf(gathered) = {}
    /\ \A op \in DOMAIN gathered : ~ShowsFault(op)

\* When an interface is blamed, it was read and it is down or has errors,
\* or the history says it flapped.
BlamedInterfaceSeen ==
  Reported /\ report.diagnosis.says \in {"heartbeat_link", "heartbeat_interface",
                                        "bound_interface_down"} =>
    /\ "get_interfaces" \in report.diagnosis.evidence
    /\ \/ \E f \in gathered["get_interfaces"].interfaces :
             f.admin = "down" \/ f.oper = "down" \/ f.errors
       \/ /\ Has(gathered, "get_ha_history")
          /\ Some(gathered["get_ha_history"].events,
                  LAMBDA e : e.type = "heartbeat_interface_down")
=============================================================================
