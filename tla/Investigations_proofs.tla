------------------------- MODULE Investigations_proofs -------------------------
(***************************************************************************)
(* Proofs about Investigations, for any set of workflows, any answers of   *)
(* the device to the reads and any limits of the parsers.                  *)
(*                                                                         *)
(* What a report says is decided in one step, from what was gathered: the  *)
(* invariant says which reads are gathered or still to be made and what    *)
(* their values tell (Collected), and each workflow's conclusion is sound  *)
(* for whatever such an invariant allows (Sound).                          *)
(***************************************************************************)
EXTENDS Investigations, SequenceTheorems, TLAPS

ReadsOf ==
  [health |-> {"get_device_facts", "get_interfaces", "get_system_health", "get_routes"},
   ha |-> {"get_ha_status", "get_ha_members", "get_ha_history",
           "get_ha_checksum_nonsync", "get_interfaces"},
   sdwan |-> {"get_sdwan_status"},
   ipsec |-> {"get_ipsec_status", "get_interfaces"},
   routing |-> {"get_bgp_status", "get_ospf_status"},
   default_route |-> {"get_routes"},
   interface_state |-> {"get_interfaces"}]

\* The relations between the fields of a value that the rules rely on.
Tells(op, value) ==
  value.error = "none" =>
    /\ op = "get_system_health" /\ value.status # "healthy" =>
         \/ value.cpu \in {"high", "critical"}
         \/ value.memory \in {"high", "critical"}
    /\ op = "get_sdwan_status" /\ value.enabled = "no" => value.checks = <<>>
    /\ op = "get_ipsec_status" /\ value.enabled = "no" => value.phase1 = <<>>
    /\ op \in VariantReads /\ value.enabled = "no" => value.neighbors = <<>>

Due == DOMAIN gathered \cup {todo[i] : i \in 1..Len(todo)}

Collected ==
  /\ kind \in Kinds \cup {"none"}
  /\ todo \in Seq(Reads)
  /\ kind = "none" => Due = {}
  /\ kind = "ha" => "get_ha_status" \in Due /\ Due \subseteq ReadsOf["ha"]
  /\ kind \in Kinds \ {"ha"} => Due = ReadsOf[kind]
  /\ \A op \in DOMAIN gathered : Tells(op, gathered[op])

----------------------------------------------------------------------------
(* What the values read tell.                                              *)

LEMMA HealthTells ==
  ASSUME NEW out, ParseSystemHealth(out).error = "none"
  PROVE  /\ {"error", "status", "cpu", "memory"} = DOMAIN ParseSystemHealth(out)
         /\ ParseSystemHealth(out).status # "healthy" =>
              \/ ParseSystemHealth(out).cpu \in {"high", "critical"}
              \/ ParseSystemHealth(out).memory \in {"high", "critical"}
BY DEF ParseSystemHealth, Failed

LEMMA SDWANTells ==
  ASSUME NEW out, ParseSDWANStatus(out).error = "none"
  PROVE  /\ {"error", "enabled", "checks"} \subseteq DOMAIN ParseSDWANStatus(out)
         /\ ParseSDWANStatus(out).enabled = "no" => ParseSDWANStatus(out).checks = <<>>
<1> DEFINE texts  == SelectSeq(out.texts, LAMBDA t : t # "empty_output")
           error  == FirstError(texts)
           absent == {texts[i] : i \in DOMAIN texts} \cap Absences
           checks == Bounded(out.checks, MaxPaths)
<1>1. \/ ParseSDWANStatus(out) = Failed("empty_output")
      \/ ParseSDWANStatus(out) =
           [error |-> "none", enabled |-> "no", checks |-> <<>>, truncated |-> FALSE,
            feature |-> IF "not_configured" \in absent THEN "not_configured" ELSE "disabled",
            parser |-> "parsed"]
      \/ error # "none" /\ ParseSDWANStatus(out) = Failed(error)
      \/ ParseSDWANStatus(out) = Failed("output_unrecognized")
      \/ ParseSDWANStatus(out) =
           [error |-> "none", enabled |-> "yes", checks |-> checks,
            truncated |-> Truncated(out.checks, MaxPaths), feature |-> "enabled",
            parser |-> ParserState(~out.members \/ (checks = <<>> /\ ~out.explicit_none))]
  BY DEF ParseSDWANStatus
<1> HIDE DEF texts, error, absent, checks
<1> QED
  BY <1>1 DEF Failed

LEMMA IPsecTells ==
  ASSUME NEW out, ParseIPsecStatus(out).error = "none"
  PROVE  /\ {"error", "enabled", "phase1"} \subseteq DOMAIN ParseIPsecStatus(out)
         /\ ParseIPsecStatus(out).enabled = "no" => ParseIPsecStatus(out).phase1 = <<>>
BY DEF ParseIPsecStatus, Failed

LEMMA RoutingTells ==
  ASSUME NEW op \in VariantReads, NEW variant, NEW out,
         ParseVariant(op, variant, out).error = "none"
  PROVE  /\ {"error", "enabled", "neighbors"} \subseteq DOMAIN ParseVariant(op, variant, out)
         /\ ParseVariant(op, variant, out).enabled = "no" =>
              ParseVariant(op, variant, out).neighbors = <<>>
BY DEF ParseVariant, VariantReads, ParseBGPSummary, ParseBGPNeighbors, ParseOSPFStatus,
       AbsentRouting, RoutingStatus, Failed

\* A value carries its fields on when the variants attempted are added to it.
LEMMA AttemptsAdded ==
  ASSUME NEW value, NEW attempted, NEW field \in DOMAIN value, field # "attempted"
  PROVE  WithAttempts(value, attempted)[field] = value[field]
BY DEF WithAttempts

LEMMA FailureTells ==
  ASSUME NEW op, NEW category, category # "none", NEW by, NEW attempted
  PROVE  Tells(op, Raised(category, by, attempted))
BY DEF Tells, Raised

LEMMA ReadTells ==
  ASSUME NEW op \in Reads, NEW cached, NEW out
  PROVE  Tells(op, Read(op, cached, out))
<1>1. CASE op \in VariantReads
  <2> DEFINE used == IF VariantError(op, 1, out[1]) \in Retryable THEN 2 ELSE 1
             error == VariantError(op, used, out[used])
             attempted == SubSeq(Attempts[op], 1, used)
             value == ParseVariant(op, used, out[used])
  <2>1. ShellError(out[used].texts) # "none" => error # "none"
    BY DEF VariantError
  <2>2. \/ Read(op, cached, out) = Raised("malformed", "parser", <<>>)
        \/ Read(op, cached, out) = Raised("command_unavailable", "exhausted", <<>>)
        \/ /\ ShellError(out[used].texts) # "none"
           /\ Read(op, cached, out) = Raised(error, "transport", <<>>)
        \/ error # "none" /\ Read(op, cached, out) = Raised(error, "exhausted", attempted)
        \/ Read(op, cached, out) = WithAttempts(value, attempted)
    BY <1>1 DEF Read, ReadVariants
  <2>3. value.error = "none" =>
          /\ {"error", "enabled", "neighbors"} \subseteq DOMAIN value
          /\ value.enabled = "no" => value.neighbors = <<>>
    BY <1>1, RoutingTells
  <2>4. op \notin {"get_system_health", "get_sdwan_status", "get_ipsec_status"}
    BY <1>1 DEF VariantReads
  <2>5. "error" \in DOMAIN value
    BY <1>1 DEF ParseVariant, VariantReads, ParseBGPSummary, ParseBGPNeighbors,
                ParseOSPFStatus, AbsentRouting, RoutingStatus, Failed
  <2> HIDE DEF used, error, attempted, value
  <2>6. CASE Read(op, cached, out) = WithAttempts(value, attempted)
    <3>1. /\ WithAttempts(value, attempted)["error"] = value["error"]
          /\ value.error = "none" =>
               /\ WithAttempts(value, attempted)["enabled"] = value["enabled"]
               /\ WithAttempts(value, attempted)["neighbors"] = value["neighbors"]
      BY <2>3, <2>5, AttemptsAdded
    <3> QED
      BY <2>3, <2>4, <2>6, <3>1 DEF Tells
  <2> QED
    BY <2>1, <2>2, <2>6, FailureTells
<1>2. CASE op \notin VariantReads
  <2> DEFINE value == ParseRead(op, out)
  <2>1. \/ /\ ShellError(out.texts) # "none"
           /\ Read(op, cached, out) = Raised(ShellError(out.texts), "transport", <<>>)
        \/ value.error # "none" /\ Read(op, cached, out) = Raised(value.error, "parser", <<>>)
        \/ value.error = "none" /\ Read(op, cached, out) = WithAttempts(value, <<>>)
    BY <1>2 DEF Read
  <2>2. CASE op = "get_system_health" /\ value.error = "none"
    <3>1. value = ParseSystemHealth(out)
      BY <2>2 DEF ParseRead
    <3> HIDE DEF value
    <3>2. \A field \in {"error", "status", "cpu", "memory"} :
            WithAttempts(value, <<>>)[field] = value[field]
      BY <2>2, <3>1, HealthTells, AttemptsAdded
    <3>3. Tells(op, WithAttempts(value, <<>>))
      BY <2>2, <3>1, <3>2, HealthTells DEF Tells, VariantReads
    <3> QED
      BY <2>1, <2>2, <3>3, FailureTells
  <2>3. CASE op = "get_sdwan_status" /\ value.error = "none"
    <3>1. value = ParseSDWANStatus(out)
      BY <2>3 DEF ParseRead
    <3> HIDE DEF value
    <3>2. \A field \in {"error", "enabled", "checks"} :
            WithAttempts(value, <<>>)[field] = value[field]
      BY <2>3, <3>1, SDWANTells, AttemptsAdded
    <3>3. Tells(op, WithAttempts(value, <<>>))
      BY <2>3, <3>1, <3>2, SDWANTells DEF Tells, VariantReads
    <3> QED
      BY <2>1, <2>3, <3>3, FailureTells
  <2>4. CASE op = "get_ipsec_status" /\ value.error = "none"
    <3>1. value = ParseIPsecStatus(out)
      BY <2>4 DEF ParseRead
    <3> HIDE DEF value
    <3>2. \A field \in {"error", "enabled", "phase1"} :
            WithAttempts(value, <<>>)[field] = value[field]
      BY <2>4, <3>1, IPsecTells, AttemptsAdded
    <3>3. Tells(op, WithAttempts(value, <<>>))
      BY <2>4, <3>1, <3>2, IPsecTells DEF Tells, VariantReads
    <3> QED
      BY <2>1, <2>4, <3>3, FailureTells
  <2>5. CASE op \notin {"get_system_health", "get_sdwan_status", "get_ipsec_status"}
    BY <1>2, <2>5 DEF Tells
  <2> HIDE DEF value
  <2> QED
    BY <2>1, <2>2, <2>3, <2>4, <2>5, FailureTells
<1> QED
  BY <1>1, <1>2

----------------------------------------------------------------------------
(* What a conclusion has to be, whichever workflow draws it.               *)

CitesRead(findings) ==
  \A f \in findings : f.evidence # {} /\ f.evidence \subseteq EvidenceOf(gathered)

HistoryTells(types) ==
  /\ Has(gathered, "get_ha_history")
  /\ Some(gathered["get_ha_history"].events, LAMBDA e : e.type \in types)

InterfaceBlamed ==
  \/ \E f \in gathered["get_interfaces"].interfaces :
       f.admin = "down" \/ f.oper = "down" \/ f.errors
  \/ HistoryTells({"heartbeat_interface_down"})

Blaming == {"heartbeat_link", "heartbeat_interface", "bound_interface_down"}
Restarting == {"member_restart", "ha_process_restart"}

DiagnosisSound(diagnosis) ==
  /\ diagnosis.evidence \subseteq EvidenceOf(gathered)
  /\ diagnosis.strength \in {"confirmed", "strong", "probable"} => diagnosis.evidence # {}
  /\ diagnosis.says \in Restarting =>
       HistoryTells({"member_restarted", "member_booted", "ha_process_restarted"})
  /\ kind # "ha" /\ FailuresOf(gathered) # {} => diagnosis.says = "insufficient"
  /\ diagnosis.says \in Blaming => "get_interfaces" \in diagnosis.evidence /\ InterfaceBlamed

HidesNothing(findings, diagnosis) ==
  /\ FailuresOf(gathered) = {}
  /\ diagnosis.strength # "insufficient"
  /\ \A f \in findings : f.severity \notin {"critical", "warning"}
  => \A op \in DOMAIN gathered : ~ShowsFault(op)

Sound(conclusion) ==
  /\ CitesRead(conclusion.findings)
  /\ DiagnosisSound(conclusion.diagnosis)
  /\ HidesNothing(conclusion.findings, conclusion.diagnosis)

LEMMA InsufficientSound ==
  ASSUME NEW evidence, evidence \subseteq EvidenceOf(gathered), NEW missing
  PROVE  DiagnosisSound(Insufficient(evidence, missing))
BY DEF DiagnosisSound, Insufficient, Diagnosis, Restarting, Blaming

LEMMA InsufficientTells ==
  ASSUME NEW findings, NEW evidence, NEW missing
  PROVE  HidesNothing(findings, Insufficient(evidence, missing))
BY DEF HidesNothing, Insufficient, Diagnosis

LEMMA NoneSound ==
  ASSUME kind = "ha" \/ FailuresOf(gathered) = {}
  PROVE  DiagnosisSound(NoDiagnosis)
BY DEF DiagnosisSound, NoDiagnosis, Diagnosis, Restarting, Blaming

LEMMA PartialSound == DiagnosisSound(PartialDiagnosis)
BY InsufficientSound, NoneSound DEF PartialDiagnosis

LEMMA PartialTells ==
  ASSUME NEW findings, FailuresOf(gathered) # {}
  PROVE  HidesNothing(findings, PartialDiagnosis)
BY InsufficientTells DEF PartialDiagnosis

LEMMA EvidenceIs ==
  /\ \A op : op \in EvidenceOf(gathered) <=> Has(gathered, op)
  /\ FailuresOf(gathered) = {} <=> \A op \in DOMAIN gathered : Has(gathered, op)
BY DEF EvidenceOf, FailuresOf, Has

\* At the end of the reads, every read of the workflow was made.
LEMMA AllRead ==
  ASSUME Collected, todo = <<>>
  PROVE  /\ kind = "ha" => /\ "get_ha_status" \in DOMAIN gathered
                           /\ DOMAIN gathered \subseteq ReadsOf["ha"]
         /\ kind \in Kinds \ {"ha"} => DOMAIN gathered = ReadsOf[kind]
         /\ \A op \in DOMAIN gathered : Tells(op, gathered[op])
<1>1. {todo[i] : i \in 1..Len(todo)} = {}
  BY SMT
<1> QED
  BY <1>1 DEF Collected, Due

----------------------------------------------------------------------------
(* The default route and the interface.                                    *)

LEMMA RouteFindingSound ==
  ASSUME Has(gathered, "get_routes")
  PROVE  /\ CitesRead({RouteFinding})
         /\ RouteFinding.severity \notin {"critical", "warning"} => HasActiveDefaultRoute
BY EvidenceIs DEF CitesRead, RouteFinding, Finding

LEMMA NoDefaultRouteSound ==
  ASSUME Has(gathered, "get_routes"), FailuresOf(gathered) = {}
  PROVE  DiagnosisSound(NoDefaultRoute)
BY EvidenceIs DEF DiagnosisSound, NoDefaultRoute, Diagnosis, Restarting, Blaming

LEMMA DefaultRouteSound ==
  ASSUME Collected, todo = <<>>, kind = "default_route", kind \in Kinds
  PROVE  Sound(DefaultRouteConclusion)
<1>1. DOMAIN gathered = {"get_routes"}
  BY AllRead DEF ReadsOf
<1>2. CASE ~Has(gathered, "get_routes")
  <2>1. DefaultRouteConclusion =
          [synchronization |-> "none", findings |-> {}, diagnosis |-> PartialDiagnosis]
    BY <1>2 DEF DefaultRouteConclusion
  <2>2. FailuresOf(gathered) # {}
    BY <1>1, <1>2, EvidenceIs
  <2> QED
    BY <2>1, <2>2, PartialSound, PartialTells DEF Sound, CitesRead
<1>3. CASE Has(gathered, "get_routes")
  <2>1. FailuresOf(gathered) = {}
    BY <1>1, <1>3, EvidenceIs
  <2>2. PartialDiagnosis = NoDiagnosis
    BY <2>1 DEF PartialDiagnosis
  <2>3. /\ DefaultRouteConclusion.findings = {RouteFinding}
        /\ DefaultRouteConclusion.diagnosis \in {NoDefaultRoute, NoDiagnosis}
    BY <1>3, <2>2 DEF DefaultRouteConclusion
  <2>4. HasActiveDefaultRoute => \A op \in DOMAIN gathered : ~ShowsFault(op)
    BY <1>1 DEF ShowsFault, HasActiveDefaultRoute, VariantReads
  <2>5. HidesNothing(DefaultRouteConclusion.findings, DefaultRouteConclusion.diagnosis)
    BY <1>3, <2>3, <2>4, RouteFindingSound DEF HidesNothing
  <2> QED
    BY <1>3, <2>1, <2>3, <2>5, RouteFindingSound, NoDefaultRouteSound, NoneSound DEF Sound
<1> QED
  BY <1>2, <1>3

LEMMA InterfaceSound ==
  ASSUME Collected, todo = <<>>, kind = "interface_state", kind \in Kinds
  PROVE  Sound(InterfaceConclusion)
<1> DEFINE Cite == {"get_interfaces"}
           Outcome(finding, diagnosis) ==
             [findings |-> finding, diagnosis |-> diagnosis, synchronization |-> "none"]
<1>1. DOMAIN gathered = Cite
  BY AllRead DEF ReadsOf
<1>2. CASE ~Has(gathered, "get_interfaces")
  <2>1. InterfaceConclusion = Outcome({}, PartialDiagnosis)
    BY <1>2 DEF InterfaceConclusion
  <2>2. FailuresOf(gathered) # {}
    BY <1>1, <1>2, EvidenceIs
  <2> QED
    BY <2>1, <2>2, PartialSound, PartialTells DEF Sound, CitesRead
<1>3. CASE Has(gathered, "get_interfaces")
  <2>1. FailuresOf(gathered) = {} /\ EvidenceOf(gathered) = Cite
    BY <1>1, <1>3, EvidenceIs DEF EvidenceOf
  <2>2. \/ \E f, d : /\ f.evidence = Cite /\ f.severity \in {"info", "warning"}
                     /\ d.evidence = Cite /\ d.strength = "confirmed"
                     /\ d.says \in {"administratively_down", "operationally_down"}
                     /\ InterfaceConclusion = Outcome({f}, d)
        \/ \E f : /\ f.evidence = Cite
                  /\ InterfaceConclusion = Outcome({f}, NoDiagnosis)
        \/ InterfaceConclusion = Outcome({}, Insufficient(Cite, {"interface"}))
    <3> DEFINE named == {f \in gathered["get_interfaces"].interfaces : f.name = Target}
               interface == CHOOSE f \in named : TRUE
               states == <<interface.admin, interface.oper>>
    <3>1. \/ InterfaceConclusion = Outcome({}, Insufficient(Cite, {"interface"}))
          \/ InterfaceConclusion =
               Outcome({Finding("interface_administratively_down", "info", Cite)},
                        Diagnosis("administratively_down", "confirmed", Cite, {}))
          \/ InterfaceConclusion =
               Outcome({Finding("interface_operationally_down", "warning", Cite)},
                        Diagnosis("operationally_down", "confirmed", Cite, {}))
          \/ InterfaceConclusion = Outcome({Finding("interface_up", "info", Cite)}, NoDiagnosis)
      BY <1>3, Zenon DEF InterfaceConclusion
    <3> QED
      BY <3>1 DEF Finding, Diagnosis
  <2>3. \A op \in DOMAIN gathered : ~ShowsFault(op)
    BY <1>1 DEF ShowsFault, VariantReads
  <2>4. \A findings, diagnosis : HidesNothing(findings, diagnosis)
    BY <2>3 DEF HidesNothing
  <2> QED
    BY <2>1, <2>2, <2>4, InsufficientSound, NoneSound
    DEF Sound, CitesRead, DiagnosisSound, Restarting, Blaming
<1> QED
  BY <1>2, <1>3

----------------------------------------------------------------------------
(* Health.                                                                 *)

LEMMA HealthSound ==
  ASSUME Collected, todo = <<>>, kind = "health", kind \in Kinds
  PROVE  Sound(HealthConclusion)
<1>1. /\ DOMAIN gathered = ReadsOf["health"]
      /\ \A op \in DOMAIN gathered : Tells(op, gathered[op])
  BY AllRead
<1>2. CitesRead(HealthFindings)
  <2>1. \A f \in HealthFindings :
          \E op \in {"get_system_health", "get_interfaces", "get_routes"} :
             f.evidence = {op} /\ Has(gathered, op)
    <3>1. \A load, code : \A f \in ResourceFindings(load, code) : f.evidence = {"get_system_health"}
      BY DEF ResourceFindings, When, Finding
    <3>2. RouteFinding.evidence = {"get_routes"}
      BY DEF RouteFinding, Finding
    <3>3. \A code, severity, evidence : Finding(code, severity, evidence).evidence = evidence
      BY DEF Finding
    <3> QED
      BY <3>1, <3>2, <3>3 DEF HealthFindings
  <2> QED
    BY <2>1, EvidenceIs DEF CitesRead
<1>3. HealthConclusion.findings = HealthFindings
  BY DEF HealthConclusion
<1>4. CASE FailuresOf(gathered) # {}
  <2>1. HealthConclusion.diagnosis = PartialDiagnosis
    BY <1>4 DEF HealthConclusion
  <2> QED
    BY <1>2, <1>3, <1>4, <2>1, PartialSound, PartialTells DEF Sound
<1>5. CASE FailuresOf(gathered) = {}
  <2>1. \A op \in ReadsOf["health"] : Has(gathered, op) /\ gathered[op].error = "none"
    BY <1>1, <1>5, EvidenceIs DEF Has
  <2>2. /\ Has(gathered, "get_routes") /\ Has(gathered, "get_system_health")
        /\ Has(gathered, "get_interfaces")
    BY <2>1 DEF ReadsOf
  <2>3. HealthConclusion.diagnosis \in {NoDiagnosis, NoDefaultRoute}
    BY <1>5 DEF HealthConclusion
  <2>4. ASSUME \A f \in HealthFindings : f.severity \notin {"critical", "warning"},
               NEW op \in DOMAIN gathered, ShowsFault(op)
        PROVE  FALSE
    <3>1. /\ ResourceFindings(gathered["get_system_health"].cpu, "high_cpu") \subseteq HealthFindings
          /\ ResourceFindings(gathered["get_system_health"].memory, "high_memory") \subseteq HealthFindings
          /\ RouteFinding \in HealthFindings
          /\ \A f \in gathered["get_interfaces"].interfaces :
               InterfaceDown(f) /\ f.admin # "down" =>
                 Finding("interface_operationally_down", "warning", {"get_interfaces"})
                   \in HealthFindings
      BY <2>2 DEF HealthFindings
    <3>2. CASE op = "get_system_health"
      <4>1. gathered[op].status # "healthy"
        BY <2>4, <3>2 DEF ShowsFault, VariantReads
      <4>2. \/ gathered[op].cpu \in {"high", "critical"}
            \/ gathered[op].memory \in {"high", "critical"}
        BY <1>1, <2>1, <3>2, <4>1 DEF Tells
      <4>3. \A load, code : load \in {"high", "critical"} =>
              \E f \in ResourceFindings(load, code) : f.severity \in {"critical", "warning"}
        BY DEF ResourceFindings, When, Finding
      <4> QED
        BY <2>4, <3>1, <3>2, <4>2, <4>3
    <3>3. CASE op = "get_routes"
      <4>1. ~HasActiveDefaultRoute
        BY <2>4, <3>3 DEF ShowsFault, VariantReads, HasActiveDefaultRoute
      <4> QED
        BY <2>2, <2>4, <3>1, <4>1, RouteFindingSound
    <3>4. CASE op = "get_interfaces"
      <4>1. PICK f \in gathered["get_interfaces"].interfaces : f.admin = "up" /\ f.oper = "down"
        BY <2>4, <3>4 DEF ShowsFault, VariantReads
      <4>2. Finding("interface_operationally_down", "warning", {"get_interfaces"})
              \in HealthFindings
        BY <3>1, <4>1 DEF InterfaceDown
      <4> QED
        BY <2>4, <4>2 DEF Finding
    <3>5. CASE op = "get_device_facts"
      BY <2>4, <3>5 DEF ShowsFault, VariantReads
    <3> QED
      BY <1>1, <3>2, <3>3, <3>4, <3>5 DEF ReadsOf
  <2>5. HidesNothing(HealthConclusion.findings, HealthConclusion.diagnosis)
    BY <1>3, <2>4 DEF HidesNothing
  <2> QED
    BY <1>2, <1>3, <1>5, <2>2, <2>3, <2>5, NoneSound, NoDefaultRouteSound DEF Sound
<1> QED
  BY <1>4, <1>5

----------------------------------------------------------------------------
(* SD-WAN.                                                                 *)

LEMMA SDWANSound ==
  ASSUME Collected, todo = <<>>, kind = "sdwan", kind \in Kinds
  PROVE  Sound(SDWANConclusion)
<1> DEFINE Cite == {"get_sdwan_status"}
           status == gathered["get_sdwan_status"]
           Outcome(findings, diagnosis) ==
             [findings |-> findings, diagnosis |-> diagnosis, synchronization |-> "none"]
           dead == \E i \in DOMAIN status.checks : status.checks[i].state = "dead"
           alive == \E i \in DOMAIN status.checks : status.checks[i].state = "alive"
           failing == \E i \in DOMAIN status.checks : status.checks[i].sla = "failing"
           found == When(dead, Finding("sdwan_member_down", "warning", Cite))
                    \cup When(failing, Finding("sdwan_sla_failing", "warning", Cite))
                    \cup When(dead /\ alive, Finding("sdwan_healthy_alternative", "info", Cite))
                    \cup When(alive /\ ~dead /\ ~failing,
                              Finding("sdwan_paths_healthy", "info", Cite))
           said == IF alive THEN NoDiagnosis
                   ELSE Diagnosis("no_alive_path", "confirmed", Cite, {})
<1>1. /\ DOMAIN gathered = Cite
      /\ \A op \in DOMAIN gathered : Tells(op, gathered[op])
  BY AllRead DEF ReadsOf
<1>2. CASE ~Has(gathered, "get_sdwan_status")
  <2>1. SDWANConclusion = Outcome({}, PartialDiagnosis)
    BY <1>2 DEF SDWANConclusion
  <2>2. FailuresOf(gathered) # {}
    BY <1>1, <1>2, EvidenceIs
  <2> QED
    BY <2>1, <2>2, PartialSound, PartialTells DEF Sound, CitesRead
<1>3. CASE Has(gathered, "get_sdwan_status")
  <2>1. FailuresOf(gathered) = {} /\ EvidenceOf(gathered) = Cite
    BY <1>1, <1>3, EvidenceIs DEF EvidenceOf
  <2>2. status.enabled = "no" => status.checks = <<>>
    BY <1>1, <1>3 DEF Tells, Has
  <2>3. ShowsFault("get_sdwan_status") => status.truncated \/ dead \/ failing
    <3>1. ShowsFault("get_sdwan_status") =>
            \/ status.truncated
            \/ \E i \in DOMAIN status.checks : \/ status.checks[i].state = "dead"
                                               \/ status.checks[i].sla = "failing"
      BY DEF ShowsFault, Some, VariantReads
    <3> QED
      BY <3>1
  <2>4. \/ SDWANConclusion = Outcome({}, Insufficient(Cite, {"sdwan_truncated"}))
        \/ /\ ~status.truncated /\ status.enabled = "no"
           /\ SDWANConclusion = Outcome({Finding("sdwan_disabled", "info", Cite)}, NoDiagnosis)
        \/ SDWANConclusion = Outcome({}, Insufficient(Cite, {"health_checks"}))
        \/ ~status.truncated /\ SDWANConclusion = Outcome(found, said)
    BY <1>3 DEF SDWANConclusion, Some
  <2>5. CitesRead(found)
    BY <2>1 DEF CitesRead, When, Finding
  <2>6. DiagnosisSound(said)
    BY <2>1, NoneSound DEF DiagnosisSound, Diagnosis, Restarting, Blaming
  <2>7. ~status.truncated => HidesNothing(found, said)
    <3>1. /\ dead => Finding("sdwan_member_down", "warning", Cite) \in found
          /\ failing => Finding("sdwan_sla_failing", "warning", Cite) \in found
      BY DEF When
    <3>2. \A code : Finding(code, "warning", Cite).severity = "warning"
      BY DEF Finding
    <3> HIDE DEF found, said, dead, failing
    <3> QED
      BY <1>1, <2>3, <3>1, <3>2 DEF HidesNothing
  <2>8. ~status.truncated /\ status.enabled = "no" =>
          \A findings, diagnosis : HidesNothing(findings, diagnosis)
    <3>1. DOMAIN <<>> = {}
      OBVIOUS
    <3> QED
      BY <1>1, <2>2, <2>3, <3>1 DEF HidesNothing
  <2>9. CitesRead({Finding("sdwan_disabled", "info", Cite)})
    BY <2>1 DEF CitesRead, Finding
  <2> HIDE DEF found, said
  <2> QED
    BY <2>1, <2>4, <2>5, <2>6, <2>7, <2>8, <2>9, InsufficientSound, InsufficientTells, NoneSound
    DEF Sound, CitesRead
<1> QED
  BY <1>2, <1>3

----------------------------------------------------------------------------
(* IPsec.                                                                  *)

LEMMA PartialOrSound ==
  ASSUME NEW diagnosis, FailuresOf(gathered) = {} => DiagnosisSound(diagnosis)
  PROVE  DiagnosisSound(PartialOr(diagnosis))
BY PartialSound DEF PartialOr

LEMMA PartialOrTells ==
  ASSUME NEW findings, NEW diagnosis,
         FailuresOf(gathered) = {} => HidesNothing(findings, diagnosis)
  PROVE  HidesNothing(findings, PartialOr(diagnosis))
BY PartialTells DEF PartialOr

LEMMA IPsecSound ==
  ASSUME Collected, todo = <<>>, kind = "ipsec", kind \in Kinds
  PROVE  Sound(IPsecConclusion)
<1> DEFINE Cite == {"get_ipsec_status"}
           status == gathered["get_ipsec_status"]
           Outcome(findings, diagnosis) ==
             [findings |-> findings, diagnosis |-> PartialOr(diagnosis), synchronization |-> "none"]
           down == Some(status.phase1, LAMBDA p : p = "down")
           missing == Some(status.tunnels,
                           LAMBDA t : /\ t.phase1 = "established"
                                      /\ t.phase2 \cap {"established", "rekeying"} = {})
           downInterfaces == IF Has(gathered, "get_interfaces")
                             THEN {f.name : f \in {g \in gathered["get_interfaces"].interfaces :
                                                     InterfaceDown(g)}}
                             ELSE {}
           bound == Some(status.tunnels,
                         LAMBDA t : t.phase1 = "down" /\ t.interface \in downInterfaces)
           found == When(down, Finding("ipsec_phase1_down", "warning", Cite))
                    \cup When(missing, Finding("ipsec_phase2_missing", "warning", Cite))
                    \cup When(bound, Finding("ipsec_bound_interface_down", "critical",
                                             Cite \cup {"get_interfaces"}))
                    \cup When(status.tunnels # <<>> /\ ~down /\ ~missing,
                              Finding("ipsec_tunnels_established", "info", Cite))
           said == IPsecDiagnosis(down, missing, bound)
<1>1. /\ DOMAIN gathered = {"get_ipsec_status", "get_interfaces"}
      /\ \A op \in DOMAIN gathered : Tells(op, gathered[op])
  BY AllRead DEF ReadsOf
<1>2. \/ /\ ~Has(gathered, "get_ipsec_status")
         /\ IPsecConclusion = Outcome({}, NoDiagnosis)
      \/ \E label : IPsecConclusion = Outcome({}, Insufficient(EvidenceOf(gathered), {label}))
      \/ /\ Has(gathered, "get_ipsec_status") /\ ~status.truncated /\ status.enabled = "no"
         /\ IPsecConclusion = Outcome({Finding("ipsec_disabled", "info", Cite)}, NoDiagnosis)
      \/ /\ Has(gathered, "get_ipsec_status") /\ ~status.truncated
         /\ IPsecConclusion = Outcome(found, said)
  <2> HIDE DEF found, said
  <2>1. \/ ~Has(gathered, "get_ipsec_status") /\ IPsecConclusion = Outcome({}, NoDiagnosis)
        \/ IPsecConclusion = Outcome({}, Insufficient(EvidenceOf(gathered), {"ipsec_truncated"}))
        \/ IPsecConclusion = Outcome({}, Insufficient(EvidenceOf(gathered), {"associations"}))
        \/ /\ Has(gathered, "get_ipsec_status") /\ ~status.truncated /\ status.enabled = "no"
           /\ IPsecConclusion = Outcome({Finding("ipsec_disabled", "info", Cite)}, NoDiagnosis)
        \/ /\ Has(gathered, "get_ipsec_status") /\ ~status.truncated
           /\ IPsecConclusion = Outcome(found, said)
    BY Zenon DEF IPsecConclusion, found, said
  <2> QED
    BY <2>1, Zenon
<1>3. ShowsFault("get_ipsec_status") => status.truncated \/ down
  BY DEF ShowsFault, VariantReads
<1>4. ~ShowsFault("get_interfaces")
  BY DEF ShowsFault, VariantReads
<1>5. bound => Has(gathered, "get_interfaces") /\ InterfaceBlamed
  <2>1. bound => downInterfaces # {}
    BY DEF Some
  <2>2. downInterfaces # {} =>
          /\ Has(gathered, "get_interfaces")
          /\ \E f \in gathered["get_interfaces"].interfaces : InterfaceDown(f)
    OBVIOUS
  <2> QED
    BY <2>1, <2>2 DEF InterfaceBlamed, InterfaceDown
<1> HIDE DEF down, missing, bound, downInterfaces
<1>6. CASE ~Has(gathered, "get_ipsec_status") /\ IPsecConclusion = Outcome({}, NoDiagnosis)
  <2>1. FailuresOf(gathered) # {}
    BY <1>1, <1>6, EvidenceIs
  <2> QED
    BY <1>6, <2>1, PartialOrSound, PartialOrTells DEF Sound, CitesRead
<1>7. CASE \E label : IPsecConclusion = Outcome({}, Insufficient(EvidenceOf(gathered), {label}))
  BY <1>7, PartialOrSound, PartialOrTells, InsufficientSound, InsufficientTells
  DEF Sound, CitesRead
<1>8. CASE /\ Has(gathered, "get_ipsec_status") /\ ~status.truncated /\ status.enabled = "no"
           /\ IPsecConclusion = Outcome({Finding("ipsec_disabled", "info", Cite)}, NoDiagnosis)
  <2>1. status.phase1 = <<>>
    BY <1>1, <1>8 DEF Tells, Has
  <2>2. ~down
    <3>1. DOMAIN <<>> = {}
      OBVIOUS
    <3> QED
      BY <2>1, <3>1 DEF down, Some
  <2>3. \A findings, diagnosis : HidesNothing(findings, diagnosis)
    BY <1>1, <1>3, <1>4, <1>8, <2>2 DEF HidesNothing
  <2>4. CitesRead({Finding("ipsec_disabled", "info", Cite)})
    BY <1>8, EvidenceIs DEF CitesRead, Finding
  <2> QED
    BY <1>8, <2>3, <2>4, PartialOrSound, NoneSound DEF Sound
<1>9. CASE /\ Has(gathered, "get_ipsec_status") /\ ~status.truncated
           /\ IPsecConclusion = Outcome(found, said)
  <2>1. CitesRead(found)
    <3>1. \A f \in found : \/ f.evidence = Cite
                           \/ bound /\ f.evidence = Cite \cup {"get_interfaces"}
      BY DEF When, Finding
    <3> HIDE DEF found
    <3> QED
      BY <1>5, <1>9, <3>1, EvidenceIs DEF CitesRead
  <2>2. FailuresOf(gathered) = {} => DiagnosisSound(said)
    <3>1. said \in {Diagnosis("bound_interface_down", "strong", Cite \cup {"get_interfaces"}, {}),
                    Diagnosis("phase2_missing", "confirmed", Cite, {}),
                    Diagnosis("phase1_down", "confirmed", Cite, {}), NoDiagnosis}
      BY DEF IPsecDiagnosis
    <3>2. said.says = "bound_interface_down" => bound
      BY DEF IPsecDiagnosis, NoDiagnosis, Diagnosis
    <3>3. said \in {Diagnosis("bound_interface_down", "strong", Cite \cup {"get_interfaces"}, {})} => bound
      BY <3>2 DEF Diagnosis
    <3> HIDE DEF said
    <3> QED
      BY <1>5, <1>9, <3>1, <3>3, EvidenceIs, NoneSound
      DEF DiagnosisSound, Diagnosis, Restarting, Blaming
  <2>3. HidesNothing(found, said)
    <3>1. down => Finding("ipsec_phase1_down", "warning", Cite) \in found
      BY DEF When
    <3>2. Finding("ipsec_phase1_down", "warning", Cite).severity = "warning"
      BY DEF Finding
    <3> HIDE DEF found, said
    <3> QED
      BY <1>1, <1>3, <1>4, <1>9, <3>1, <3>2 DEF HidesNothing
  <2> HIDE DEF found, said
  <2> QED
    BY <1>9, <2>1, <2>2, <2>3, PartialOrSound, PartialOrTells DEF Sound
<1> HIDE DEF found, said
<1> QED
  BY <1>2, <1>6, <1>7, <1>8, <1>9

----------------------------------------------------------------------------
(* Dynamic routing.                                                        *)

\* What one protocol's rules make of a status that was read.
LEMMA ProtocolTells ==
  ASSUME NEW op \in VariantReads, Has(gathered, op), Tells(op, gathered[op]),
         ShowsFault(op), ~gathered[op].truncated
  PROVE  /\ op \in DOMAIN Protocols
         /\ Finding(Protocols[op].codes.affected, "warning", {op})
              \in ProtocolFindings(op, Protocols[op].up, Protocols[op].codes)
<1>1. Some(gathered[op].neighbors, LAMBDA n : n.state # Protocols[op].up)
  BY DEF ShowsFault, VariantReads
<1>2. Away(gathered[op].neighbors, Protocols[op].up)
  BY <1>1 DEF Away
<1>3. gathered[op].enabled # "no"
  <2>1. DOMAIN <<>> = {}
    OBVIOUS
  <2>2. gathered[op].neighbors # <<>>
    BY <1>1, <2>1 DEF Some
  <2> QED
    BY <2>2 DEF Tells, Has
<1> QED
  BY <1>2, <1>3 DEF ProtocolFindings, When, VariantReads, Protocols

LEMMA RoutingSound ==
  ASSUME Collected, todo = <<>>, kind = "routing", kind \in Kinds
  PROVE  Sound(RoutingConclusion)
<1> DEFINE read == DOMAIN Protocols \cap EvidenceOf(gathered)
           found == UNION {ProtocolFindings(op, Protocols[op].up, Protocols[op].codes) :
                             op \in read}
           truncated == {op \in read : gathered[op].truncated}
           affected == {op \in read : \E f \in found : f.code = Protocols[op].codes.affected}
           said == IF truncated # {} THEN Insufficient(EvidenceOf(gathered), {"neighbors_truncated"})
                   ELSE IF affected # {}
                        THEN Diagnosis("neighbors_degraded", "confirmed", affected, {})
                   ELSE NoDiagnosis
<1>1. /\ DOMAIN gathered = VariantReads
      /\ \A op \in DOMAIN gathered : Tells(op, gathered[op])
  BY AllRead DEF ReadsOf, VariantReads
<1>2. /\ RoutingConclusion.findings = found
      /\ RoutingConclusion.diagnosis = PartialOr(said)
  BY DEF RoutingConclusion
<1>3. CitesRead(found)
  <2>1. \A op, up, codes : \A f \in ProtocolFindings(op, up, codes) : f.evidence = {op}
    BY DEF ProtocolFindings, When, Finding
  <2>2. \A f \in found : \E op \in read : f.evidence = {op}
    BY <2>1
  <2> QED
    BY <2>2 DEF CitesRead
<1>4. FailuresOf(gathered) = {} => DiagnosisSound(said)
  <2>1. affected \subseteq EvidenceOf(gathered)
    OBVIOUS
  <2>2. \/ said \in {Insufficient(EvidenceOf(gathered), {"neighbors_truncated"}), NoDiagnosis}
        \/ affected # {} /\ said = Diagnosis("neighbors_degraded", "confirmed", affected, {})
    OBVIOUS
  <2> HIDE DEF said, affected
  <2>3. FailuresOf(gathered) = {} /\ affected # {}
          => DiagnosisSound(Diagnosis("neighbors_degraded", "confirmed", affected, {}))
    BY <2>1 DEF DiagnosisSound, Diagnosis, Restarting, Blaming
  <2> QED
    BY <2>2, <2>3, InsufficientSound, NoneSound
<1>5. FailuresOf(gathered) = {} => HidesNothing(found, said)
  <2> SUFFICES ASSUME FailuresOf(gathered) = {}, said.strength # "insufficient",
                      \A f \in found : f.severity \notin {"critical", "warning"},
                      NEW op \in DOMAIN gathered, ShowsFault(op)
               PROVE  FALSE
    BY DEF HidesNothing
  <2>1. op \in VariantReads /\ Has(gathered, op) /\ Tells(op, gathered[op])
    BY <1>1, EvidenceIs
  <2>2. op \in read
    BY <2>1, EvidenceIs DEF Protocols, VariantReads
  <2>3. truncated = {}
    BY DEF Insufficient, Diagnosis
  <2>4. ~gathered[op].truncated
    BY <2>2, <2>3
  <2>5. Finding(Protocols[op].codes.affected, "warning", {op}) \in found
    BY <2>1, <2>2, <2>4, ProtocolTells
  <2> QED
    BY <2>5 DEF Finding
<1> HIDE DEF found, said
<1> QED
  BY <1>2, <1>3, <1>4, <1>5, PartialOrSound, PartialOrTells DEF Sound

----------------------------------------------------------------------------
(* HA: what each pattern of the history rests on.                          *)

Told(types) == \E i \in DOMAIN gathered["get_ha_history"].events :
                 gathered["get_ha_history"].events[i].type \in types

LEMMA PatternsRestOn ==
  /\ "member_restart" \in Correlate(gathered).patterns <=> Told(RestartTypes)
  /\ "ha_process_restart" \in Correlate(gathered).patterns <=> Told({"ha_process_restarted"})
  /\ "cluster_membership_instability" \in Correlate(gathered).patterns <=> Told(MembershipTypes)
  /\ "heartbeat_interface_unavailable" \in Correlate(gathered).patterns =>
       /\ Has(gathered, "get_interfaces")
       /\ \E f \in gathered["get_interfaces"].interfaces : InterfaceDown(f)
  /\ "heartbeat_interface_instability" \in Correlate(gathered).patterns =>
       /\ Has(gathered, "get_interfaces")
       /\ \/ Told({"heartbeat_interface_down"})
          \/ \E f \in gathered["get_interfaces"].interfaces : f.errors
<1> DEFINE status   == gathered["get_ha_status"]
           history  == gathered["get_ha_history"]
           checksum == Has(gathered, "get_ha_checksum_nonsync")
           events   == {history.events[i] : i \in DOMAIN history.events}
           types    == {e.type : e \in events}
           named    == {e.interface : e \in events} \ {"none"}
           matched  == IF Has(gathered, "get_interfaces")
                       THEN {f \in gathered["get_interfaces"].interfaces : f.name \in named}
                       ELSE {}
           losses   == Cardinality({i \in DOMAIN history.events :
                                      history.events[i].type = "heartbeat_lost"})
           membership == types \cap MembershipTypes # {}
           communication == /\ "heartbeat_lost" \in types
                            /\ membership \/ "heartbeat_restored" \in types \/ losses > 1
           episodes == Episodes(history.events)
           unstable == {i \in DOMAIN episodes :
                          \E j \in DOMAIN episodes[i] :
                             episodes[i][j].type \in MembershipTypes \cup {"heartbeat_lost"}}
           flapped  == \E f \in named :
                          {"heartbeat_interface_down", "heartbeat_interface_restored"}
                            \subseteq {e.type : e \in {d \in events : d.interface = f}}
           drift    == OutOfSync(status)
                       \/ (checksum /\ gathered["get_ha_checksum_nonsync"].mismatches > 0)
           instable == (flapped /\ matched # {})
                       \/ (communication /\ \E f \in matched : f.errors)
           down     == \E f \in matched : InterfaceDown(f)
           repeated == Cardinality(unstable) > 1
           restarted == types \cap RestartTypes # {}
           process   == "ha_process_restarted" \in types
           Name(condition, value) == IF condition THEN {value} ELSE {}
<1>1. Correlate(gathered).patterns =
             Name(drift, "configuration_drift")
        \cup Name(communication, "heartbeat_communication_instability")
        \cup Name(membership, "cluster_membership_instability")
        \cup Name(repeated, "repeated_instability")
        \cup Name(down, "heartbeat_interface_unavailable")
        \cup Name(instable, "heartbeat_interface_instability")
        \cup Name(restarted, "member_restart")
        \cup Name(process, "ha_process_restart")
  BY DEF Correlate
<1>2. \A wanted : types \cap wanted # {} <=> Told(wanted)
  BY DEF Told
<1>3. matched # {} =>
        Has(gathered, "get_interfaces") /\ matched \subseteq gathered["get_interfaces"].interfaces
  OBVIOUS
<1>4. flapped => Told({"heartbeat_interface_down"})
  BY DEF Told
<1> HIDE DEF drift, communication, repeated, flapped, matched, types
<1>5. process <=> Told({"ha_process_restarted"})
  BY <1>2
<1>6. instable => /\ Has(gathered, "get_interfaces")
                  /\ \/ Told({"heartbeat_interface_down"})
                     \/ \E f \in gathered["get_interfaces"].interfaces : f.errors
  BY <1>3, <1>4
<1>7. down => /\ Has(gathered, "get_interfaces")
              /\ \E f \in gathered["get_interfaces"].interfaces : InterfaceDown(f)
  BY <1>3
<1>8. (restarted <=> Told(RestartTypes)) /\ (membership <=> Told(MembershipTypes))
  BY <1>2
<1> HIDE DEF instable, down, restarted, process, membership
<1> QED
  BY <1>1, <1>5, <1>6, <1>7, <1>8

----------------------------------------------------------------------------
(* HA: the assessment.                                                     *)

HAStatus == gathered["get_ha_status"]
Patterns == IF Has(gathered, "get_ha_history") THEN Correlate(gathered).patterns ELSE {}
PatternFinding(p) ==
  Finding(PatternFindings[p][1], PatternFindings[p][2],
          Cited(gathered, "get_ha_history")
            \cup IF PatternFindings[p][3] THEN Cited(gathered, "get_interfaces") ELSE {})

LEMMA StatusTells ==
  ASSUME NEW ids
  PROVE  /\ \A f \in StatusFindings(HAStatus, ids) :
              f.evidence \in {{"get_ha_status"}, {"get_ha_status"} \cup ids}
         /\ OutOfSync(HAStatus) \/ HAStatus.health \in {"degraded", "unhealthy"} =>
              StatusFindings(HAStatus, ids) # {}
         /\ /\ HAStatus.enabled # "no"
            /\ OutOfSync(HAStatus) \/ HAStatus.health \in {"degraded", "unhealthy"}
            => \E f \in StatusFindings(HAStatus, ids) : f.severity \in {"critical", "warning"}
<1> DEFINE status == HAStatus
           stated == StatusFindings(status, ids)
           degraded == status.health \notin {"healthy", "unknown"}
<1>1. CASE status.enabled = "no"
  <2>1. stated = {Finding("ha_disabled", "info", {"get_ha_status"})}
    BY <1>1 DEF StatusFindings
  <2> QED
    BY <1>1, <2>1 DEF Finding
<1>2. CASE status.enabled # "no" /\ OutOfSync(status)
  <2>1. stated = {Finding("ha_configuration_out_of_sync", "warning", {"get_ha_status"} \cup ids)}
    BY <1>2 DEF StatusFindings
  <2> QED
    BY <1>2, <2>1 DEF Finding
<1>3. CASE status.enabled # "no" /\ ~OutOfSync(status) /\ degraded
  <2>1. stated = {Finding("ha_health_degraded",
                          IF status.health = "unhealthy" THEN "critical" ELSE "warning",
                          {"get_ha_status"})}
    BY <1>3 DEF StatusFindings
  <2> QED
    BY <1>3, <2>1 DEF Finding
<1>4. CASE status.enabled # "no" /\ ~OutOfSync(status) /\ ~degraded
  <2>1. stated \in {{Finding("ha_cluster_healthy", "info", {"get_ha_status"})}, {}}
    BY <1>4 DEF StatusFindings
  <2> QED
    BY <1>4, <2>1 DEF Finding
<1> QED
  BY <1>1, <1>2, <1>3, <1>4

LEMMA PatternTells ==
  ASSUME NEW p \in Patterns \cap DOMAIN PatternFindings
  PROVE  /\ PatternFinding(p).evidence # {}
         /\ PatternFinding(p).evidence \subseteq EvidenceOf(gathered)
         /\ PatternFinding(p).severity \in {"critical", "warning"}
<1>1. Cited(gathered, "get_ha_history") = {"get_ha_history"}
  BY EvidenceIs DEF Patterns, Cited
<1>2. \A op : Cited(gathered, op) \subseteq EvidenceOf(gathered)
  BY DEF Cited
<1>3. PatternFindings[p][2] \in {"critical", "warning"}
  BY DEF PatternFindings
<1> QED
  BY <1>1, <1>2, <1>3 DEF PatternFinding, Finding

\* The findings of the assessment.
LEMMA AssessmentCites ==
  ASSUME Has(gathered, "get_ha_status"), NEW missing
  PROVE  /\ CitesRead(Assess(gathered, missing).findings)
         /\ \A p \in Patterns \cap DOMAIN PatternFindings :
              PatternFinding(p) \in Assess(gathered, missing).findings
         /\ \E ids : StatusFindings(HAStatus, ids) \subseteq Assess(gathered, missing).findings
<1> DEFINE checked  == Has(gathered, "get_ha_checksum_nonsync")
           correlated == Has(gathered, "get_ha_history")
           mismatch == checked /\ gathered["get_ha_checksum_nonsync"].mismatches > 0
           mismatch_ids == IF mismatch THEN {"get_ha_checksum_nonsync"} ELSE {}
           history_ids == Cited(gathered, "get_ha_history")
           low == HAStatus.enabled = "yes" /\ Len(HAStatus.members) < 2
           disagree == /\ OutOfSync(HAStatus) /\ checked
                       /\ gathered["get_ha_checksum_nonsync"].synchronized = "yes"
           apart == /\ OutOfSync(HAStatus) /\ correlated
                    /\ Patterns \cap {"heartbeat_communication_instability", "member_restart",
                                      "ha_process_restart"} = {}
           Add(condition, finding) == IF condition THEN {finding} ELSE {}
           lowest == Finding("ha_member_count_low", "warning", {"get_ha_status"})
           differs == Finding("ha_checksum_mismatch", "warning", mismatch_ids)
           disputed == Finding("ha_synchronization_observations_disagree", "warning",
                               {"get_ha_status", "get_ha_checksum_nonsync"})
           drifts == Finding("ha_drift_without_transport_failure", "info",
                             {"get_ha_status"} \cup history_ids
                               \cup Cited(gathered, "get_ha_checksum_nonsync"))
           observed == {PatternFinding(p) : p \in Patterns \cap DOMAIN PatternFindings}
           stated == StatusFindings(HAStatus, mismatch_ids)
<1>1. Assess(gathered, missing).findings =
        stated \cup Add(low, lowest) \cup Add(mismatch, differs) \cup Add(disagree, disputed)
          \cup observed \cup Add(apart, drifts)
  BY DEF Assess, Patterns, HAStatus, PatternFinding, NoCorrelation
<1>2. {"get_ha_status"} \cup mismatch_ids \subseteq EvidenceOf(gathered)
  BY EvidenceIs
<1>3. CitesRead(stated)
  BY <1>2, StatusTells DEF CitesRead
<1>4. CitesRead(observed)
  BY PatternTells DEF CitesRead
<1>5. CitesRead(Add(low, lowest)) /\ CitesRead(Add(mismatch, differs))
  <2>1. lowest.evidence = {"get_ha_status"} /\ differs.evidence = mismatch_ids
    BY DEF Finding
  <2>2. mismatch => mismatch_ids # {}
    OBVIOUS
  <2> HIDE DEF lowest, differs, mismatch, mismatch_ids
  <2> QED
    BY <1>2, <2>1, <2>2 DEF CitesRead
<1>6. CitesRead(Add(disagree, disputed)) /\ CitesRead(Add(apart, drifts))
  BY EvidenceIs DEF CitesRead, Finding, Cited
<1> HIDE DEF stated, lowest, differs, disputed, observed, drifts
<1> QED
  BY <1>1, <1>3, <1>4, <1>5, <1>6 DEF CitesRead, observed, stated

\* Whatever is diagnosed was in a finding, and the findings cite what was read.
LEMMA AssessmentDiagnoses ==
  ASSUME NEW missing
  PROVE  \/ Assess(gathered, missing).diagnosis = NoDiagnosis
         \/ \E i \in 1..8 :
              /\ Conclusions(HAStatus, Patterns)[i][1]
              /\ Assess(gathered, missing).diagnosis =
                   Diagnosis(Conclusions(HAStatus, Patterns)[i][2],
                             Conclusions(HAStatus, Patterns)[i][3],
                             UNION {f.evidence : f \in Assess(gathered, missing).findings},
                             Assess(gathered, missing).diagnosis.missing)
<1> DEFINE conclusions == Conclusions(HAStatus, Patterns)
           reached == {i \in DOMAIN conclusions : conclusions[i][1]}
           first == conclusions[CHOOSE i \in reached : \A j \in reached : i <= j]
           known == (IF Has(gathered, "get_ha_history") THEN Correlate(gathered)
                     ELSE NoCorrelation).missing \cup missing
           findings == Assess(gathered, missing).findings
<1>1. Assess(gathered, missing).diagnosis =
        IF reached = {} THEN NoDiagnosis
        ELSE Diagnosis(first[2], first[3], UNION {f.evidence : f \in findings}, known)
  BY DEF Assess, Patterns, HAStatus, NoCorrelation
<1>2. DOMAIN conclusions = 1..8
  BY DEF Conclusions
<1> HIDE DEF conclusions
<1>3. ASSUME reached # {}
      PROVE  (CHOOSE i \in reached : \A j \in reached : i <= j) \in reached
  <2>1. reached \subseteq Nat /\ reached # {}
    BY <1>2, <1>3
  <2>2. \E i \in reached : \A j \in reached : i <= j
    BY <1>2, <1>3
  <2> QED
    BY <2>2
<1> HIDE DEF findings, known
<1>4. CASE reached = {}
  BY <1>1, <1>4
<1>5. CASE reached # {}
  <2>1. Assess(gathered, missing).diagnosis =
          Diagnosis(first[2], first[3], UNION {f.evidence : f \in findings}, known)
    BY <1>1, <1>5
  <2>2. Assess(gathered, missing).diagnosis.missing = known
    BY <2>1 DEF Diagnosis
  <2> QED
    BY <1>2, <1>3, <1>5, <2>1, <2>2 DEF conclusions, findings
<1> QED
  BY <1>4, <1>5

\* The pattern or the state each diagnosis rests on.
LEMMA ConclusionsRestOn ==
  ASSUME NEW i \in 1..8, Conclusions(HAStatus, Patterns)[i][1],
         NEW says, says = Conclusions(HAStatus, Patterns)[i][2]
  PROVE  /\ Conclusions(HAStatus, Patterns)[i][3] # "insufficient"
         /\ says = "ha_process_restart" => "ha_process_restart" \in Patterns
         /\ says = "member_restart" => "member_restart" \in Patterns
         /\ says = "heartbeat_link" => "heartbeat_interface_instability" \in Patterns
         /\ says = "heartbeat_interface" => "heartbeat_interface_unavailable" \in Patterns
         /\ says # "bound_interface_down"
         /\ \/ Patterns \cap DOMAIN PatternFindings # {}
            \/ OutOfSync(HAStatus)
            \/ HAStatus.health \in {"degraded", "unhealthy"}
<1>1. DOMAIN PatternFindings =
        {"heartbeat_communication_instability", "cluster_membership_instability",
         "repeated_instability", "heartbeat_interface_instability",
         "heartbeat_interface_unavailable", "member_restart", "ha_process_restart"}
  BY DEF PatternFindings
<1> DEFINE rules == Conclusions(HAStatus, Patterns)
<1>2. /\ rules[1][1] => "ha_process_restart" \in Patterns
      /\ rules[2][1] => "member_restart" \in Patterns
      /\ rules[3][1] => "heartbeat_interface_instability" \in Patterns
      /\ rules[4][1] => "heartbeat_interface_unavailable" \in Patterns
      /\ rules[5][1] => "heartbeat_communication_instability" \in Patterns
      /\ rules[6][1] => OutOfSync(HAStatus)
      /\ rules[7][1] => HAStatus.health \in {"degraded", "unhealthy"}
      /\ rules[8][1] => "cluster_membership_instability" \in Patterns
  BY Zenon DEF Conclusions
<1>3. /\ rules[1][2] = "ha_process_restart" /\ rules[1][3] = "confirmed"
      /\ rules[2][2] = "member_restart" /\ rules[2][3] = "confirmed"
      /\ rules[3][2] = "heartbeat_link" /\ rules[3][3] = "strong"
      /\ rules[4][2] = "heartbeat_interface" /\ rules[4][3] = "strong"
      /\ rules[5][2] = "heartbeat_communication" /\ rules[5][3] = "probable"
      /\ rules[6][2] = "out_of_sync" /\ rules[6][3] = "confirmed"
      /\ rules[7][2] = "health_degraded" /\ rules[7][3] = "confirmed"
      /\ rules[8][2] = "membership_instability" /\ rules[8][3] = "probable"
  BY DEF Conclusions
<1> HIDE DEF rules
<1>4. rules[i][1] /\ says = rules[i][2] /\ Conclusions(HAStatus, Patterns)[i][3] = rules[i][3]
  BY DEF rules
<1>5. CASE i = 1
  BY <1>1, <1>2, <1>3, <1>4, <1>5
<1>6. CASE i = 2
  BY <1>1, <1>2, <1>3, <1>4, <1>6
<1>7. CASE i = 3
  BY <1>1, <1>2, <1>3, <1>4, <1>7
<1>8. CASE i = 4
  BY <1>1, <1>2, <1>3, <1>4, <1>8
<1>9. CASE i = 5
  BY <1>1, <1>2, <1>3, <1>4, <1>9
<1>10. CASE i = 6
  BY <1>1, <1>2, <1>3, <1>4, <1>10
<1>11. CASE i = 7
  BY <1>1, <1>2, <1>3, <1>4, <1>11
<1>12. CASE i = 8
  BY <1>1, <1>2, <1>3, <1>4, <1>12
<1> QED
  BY <1>5, <1>6, <1>7, <1>8, <1>9, <1>10, <1>11, <1>12

LEMMA HASound ==
  ASSUME Collected, todo = <<>>, kind = "ha", kind \in Kinds
  PROVE  Sound(HAConclusion)
<1> DEFINE truncated == HAStatus.truncated
           missing == {HAMissingLabel[op] : op \in FailuresOf(gathered)}
                      \cup IF truncated THEN {"ha_member_state_unavailable"} ELSE {}
           assessment == Assess(gathered, missing)
           findings == assessment.findings
           diagnosis == assessment.diagnosis
           Cut == Insufficient(EvidenceOf(gathered), {"ha_members_truncated"})
<1>1. "get_ha_status" \in DOMAIN gathered /\ DOMAIN gathered \subseteq ReadsOf["ha"]
  BY AllRead
<1>2. CASE ~Has(gathered, "get_ha_status")
  <2>1. HAConclusion = [findings |-> {}, diagnosis |-> PartialDiagnosis, synchronization |-> "none"]
    BY <1>2 DEF HAConclusion
  <2>2. FailuresOf(gathered) # {}
    BY <1>1, <1>2, EvidenceIs
  <2> QED
    BY <2>1, <2>2, PartialSound, PartialTells DEF Sound, CitesRead
<1>3. CASE Has(gathered, "get_ha_status")
  <2>1. /\ HAConclusion.findings = findings
        /\ HAConclusion.diagnosis = IF truncated /\ diagnosis = NoDiagnosis THEN Cut ELSE diagnosis
    <3>1. DOMAIN assessment = {"findings", "synchronization", "diagnosis"}
      BY DEF Assess
    <3>2. HAConclusion = [assessment EXCEPT !.diagnosis = IF truncated /\ @ = NoDiagnosis
                                                          THEN Cut ELSE @]
      BY <1>3 DEF HAConclusion, HAStatus
    <3> HIDE DEF assessment, Cut
    <3> QED
      BY <3>1, <3>2
  <2> HIDE DEF missing
  <2>2. /\ CitesRead(findings)
        /\ \A p \in Patterns \cap DOMAIN PatternFindings : PatternFinding(p) \in findings
    BY <1>3, AssessmentCites
  <2>3. PICK ids : StatusFindings(HAStatus, ids) \subseteq findings
    BY <1>3, AssessmentCites
  <2>4. \/ diagnosis = NoDiagnosis
        \/ \E i \in 1..8 :
             /\ Conclusions(HAStatus, Patterns)[i][1]
             /\ diagnosis = Diagnosis(Conclusions(HAStatus, Patterns)[i][2],
                                      Conclusions(HAStatus, Patterns)[i][3],
                                      UNION {f.evidence : f \in findings}, diagnosis.missing)
    BY AssessmentDiagnoses
  <2> HIDE DEF assessment
  <2>5. ASSUME Patterns # {}
        PROVE  /\ Has(gathered, "get_ha_history")
               /\ Patterns = Correlate(gathered).patterns
    BY <2>5 DEF Patterns
  <2>6. ASSUME diagnosis # NoDiagnosis
        PROVE  \/ Patterns \cap DOMAIN PatternFindings # {}
               \/ OutOfSync(HAStatus)
               \/ HAStatus.health \in {"degraded", "unhealthy"}
    <3>1. PICK i \in 1..8 : Conclusions(HAStatus, Patterns)[i][1]
      BY <2>4, <2>6
    <3> QED
      BY <3>1, ConclusionsRestOn
  <2>7. ASSUME diagnosis # NoDiagnosis
        PROVE  DiagnosisSound(diagnosis)
    <3> DEFINE rules == Conclusions(HAStatus, Patterns)
               cited == UNION {f.evidence : f \in findings}
    <3>1. PICK i \in 1..8 : rules[i][1] /\ diagnosis = Diagnosis(rules[i][2], rules[i][3],
                                                                 cited, diagnosis.missing)
      BY <2>4, <2>7
    <3>2. diagnosis.says = rules[i][2] /\ diagnosis.evidence = cited
      BY <3>1 DEF Diagnosis
    <3>3. cited \subseteq EvidenceOf(gathered)
      BY <2>2 DEF CitesRead
    <3>4. cited # {}
      <4>1. findings # {}
        BY <2>2, <2>3, <2>6, <2>7, StatusTells
      <4> QED
        BY <2>2, <4>1 DEF CitesRead
    <3>5. ASSUME diagnosis.says \in Restarting
          PROVE  HistoryTells({"member_restarted", "member_booted", "ha_process_restarted"})
      <4>1. Patterns \cap {"member_restart", "ha_process_restart"} # {}
        BY <3>1, <3>2, <3>5, ConclusionsRestOn DEF Restarting
      <4>2. Told(RestartTypes) \/ Told({"ha_process_restarted"})
        BY <2>5, <4>1, PatternsRestOn
      <4> QED
        BY <2>5, <4>1, <4>2 DEF HistoryTells, Told, Some, RestartTypes
    <3>6. ASSUME diagnosis.says \in Blaming
          PROVE  "get_interfaces" \in diagnosis.evidence /\ InterfaceBlamed
      <4>1. PICK p \in {"heartbeat_interface_instability", "heartbeat_interface_unavailable"} :
              p \in Patterns
        BY <3>1, <3>2, <3>6, ConclusionsRestOn DEF Blaming
      <4>2. Has(gathered, "get_ha_history") /\ p \in Correlate(gathered).patterns
        BY <2>5, <4>1
      <4>3. Has(gathered, "get_interfaces")
        BY <4>1, <4>2, PatternsRestOn
      <4>4. InterfaceBlamed
        <5>1. \/ Told({"heartbeat_interface_down"})
              \/ \E f \in gathered["get_interfaces"].interfaces : InterfaceDown(f) \/ f.errors
          BY <4>1, <4>2, PatternsRestOn
        <5>2. Told({"heartbeat_interface_down"}) => HistoryTells({"heartbeat_interface_down"})
          BY <4>2 DEF Told, HistoryTells, Some
        <5> QED
          BY <5>1, <5>2 DEF InterfaceBlamed, InterfaceDown
      <4>5. PatternFinding(p) \in findings
        BY <2>2, <4>1 DEF PatternFindings
      <4>6. "get_interfaces" \in PatternFinding(p).evidence
        <5>1. PatternFindings[p][3]
          <6>1. /\ PatternFindings["heartbeat_interface_instability"][3] = TRUE
                /\ PatternFindings["heartbeat_interface_unavailable"][3] = TRUE
            BY DEF PatternFindings
          <6> QED
            BY <4>1, <6>1
        <5>2. "get_interfaces" \in Cited(gathered, "get_interfaces")
          BY <4>3, EvidenceIs DEF Cited
        <5> QED
          BY <5>1, <5>2 DEF PatternFinding, Finding
      <4> QED
        BY <3>2, <4>4, <4>5, <4>6
    <3> QED
      BY <3>2, <3>3, <3>4, <3>5, <3>6 DEF DiagnosisSound
  <2>8. DiagnosisSound(diagnosis)
    BY <2>7, NoneSound
  <2>9. HidesNothing(findings, IF truncated /\ diagnosis = NoDiagnosis THEN Cut ELSE diagnosis)
    <3> SUFFICES ASSUME FailuresOf(gathered) = {},
                        ~(truncated /\ diagnosis = NoDiagnosis),
                        \A f \in findings : f.severity \notin {"critical", "warning"},
                        NEW op \in DOMAIN gathered, ShowsFault(op)
                 PROVE  FALSE
      BY DEF HidesNothing, Insufficient, Diagnosis
    <3>1. Patterns \cap DOMAIN PatternFindings = {}
      BY <2>2, PatternTells
    <3>2. HAStatus.enabled = "no" \/ ~(\/ OutOfSync(HAStatus)
                                       \/ HAStatus.health \in {"degraded", "unhealthy"})
      BY <2>3, StatusTells
    <3>3. CASE op = "get_ha_status"
      <4>1. HAStatus.enabled # "no" /\ (truncated \/ OutOfSync(HAStatus))
        BY <3>3 DEF ShowsFault, VariantReads, HAStatus
      <4> QED
        BY <2>6, <3>1, <3>2, <4>1
    <3>4. CASE op = "get_ha_history"
      <4>1. Told(MembershipTypes \cup RestartTypes)
        BY <3>4 DEF ShowsFault, VariantReads, Some, Told
      <4>2. Told(MembershipTypes) \/ Told(RestartTypes)
        BY <4>1 DEF Told
      <4>3. Patterns = Correlate(gathered).patterns
        BY <3>4, EvidenceIs DEF Patterns
      <4> QED
        BY <3>1, <4>2, <4>3, PatternsRestOn DEF PatternFindings
    <3>5. CASE op \in {"get_ha_members", "get_ha_checksum_nonsync", "get_interfaces"}
      BY <3>5 DEF ShowsFault, VariantReads
    <3> QED
      BY <1>1, <3>3, <3>4, <3>5 DEF ReadsOf
  <2> QED
    BY <2>1, <2>2, <2>8, <2>9, InsufficientSound DEF Sound
<1> QED
  BY <1>2, <1>3

----------------------------------------------------------------------------
(* The reads, one after the other, and the one step that concludes.        *)

LEMMA ConclusionSound ==
  ASSUME Collected, todo = <<>>, kind # "none"
  PROVE  Sound(Conclusion)
<1>1. kind \in Kinds /\ kind \in DOMAIN FirstStage
  BY KindsAssumption DEF Collected
<1>2. kind \in {"health", "ha", "sdwan", "ipsec", "routing", "default_route", "interface_state"}
  BY <1>1 DEF FirstStage
<1> QED
  BY <1>1, <1>2, HealthSound, HASound, SDWANSound, IPsecSound, RoutingSound,
     DefaultRouteSound, InterfaceSound
  DEF Conclusion

\* The first reads of a workflow.
LEMMA FirstStageIs ==
  ASSUME NEW k \in Kinds
  PROVE  /\ k # "none"
         /\ FirstStage[k] \in Seq(Reads)
         /\ k = "ha" => {FirstStage[k][i] : i \in 1..Len(FirstStage[k])}
                          = {"get_ha_status", "get_ha_members"}
         /\ k # "ha" => {FirstStage[k][i] : i \in 1..Len(FirstStage[k])} = ReadsOf[k]
<1>1. k \in {"health", "ha", "sdwan", "ipsec", "routing", "default_route", "interface_state"}
  BY KindsAssumption DEF FirstStage
<1>2. /\ 1..1 = {1} /\ 1..2 = {1, 2} /\ 1..4 = {1, 2, 3, 4}
  OBVIOUS
<1>3. CASE k = "health"
  <2>1. FirstStage[k] = <<"get_device_facts", "get_interfaces", "get_system_health", "get_routes">>
    BY <1>3 DEF FirstStage
  <2> QED
    BY <1>2, <1>3, <2>1 DEF ReadsOf, Reads
<1>4. CASE k = "ha"
  <2>1. FirstStage[k] = <<"get_ha_status", "get_ha_members">>
    BY <1>4 DEF FirstStage
  <2> QED
    BY <1>2, <1>4, <2>1 DEF ReadsOf, Reads
<1>5. CASE k = "ipsec"
  <2>1. FirstStage[k] = <<"get_ipsec_status", "get_interfaces">>
    BY <1>5 DEF FirstStage
  <2> QED
    BY <1>2, <1>5, <2>1 DEF ReadsOf, Reads
<1>6. CASE k = "routing"
  <2>1. FirstStage[k] = <<"get_bgp_status", "get_ospf_status">>
    BY <1>6 DEF FirstStage
  <2> QED
    BY <1>2, <1>6, <2>1 DEF ReadsOf, Reads
<1>7. CASE k \in {"sdwan", "default_route", "interface_state"}
  <2>1. \E read \in Reads : FirstStage[k] = <<read>> /\ ReadsOf[k] = {read}
    BY <1>7 DEF FirstStage, ReadsOf, Reads
  <2> QED
    BY <1>2, <1>7, <2>1
<1> QED
  BY <1>1, <1>3, <1>4, <1>5, <1>6, <1>7

\* One read made: what was due is due or gathered.
LEMMA GatherCollects ==
  ASSUME Collected, todo # <<>>, NEW value, Tells(Head(todo), value),
         Gather(Head(todo), value)
  PROVE  Collected'
<1> DEFINE op == Head(todo)
<1>1. /\ gathered' = [read \in DOMAIN gathered \cup {op} |->
                        IF read = op THEN value ELSE gathered[read]]
      /\ todo' = Tail(todo) /\ kind' = kind
  BY DEF Gather
<1>2. todo \in Seq(Reads) /\ Len(todo) \in Nat /\ Len(todo) >= 1
  BY DEF Collected
<1>3. /\ Tail(todo) \in Seq(Reads)
      /\ Len(Tail(todo)) = Len(todo) - 1
      /\ \A i \in 1..Len(todo) - 1 : Tail(todo)[i] = todo[i + 1]
      /\ Head(todo) = todo[1]
  BY <1>2
<1>4. {todo[i] : i \in 1..Len(todo)} = {op} \cup {Tail(todo)[i] : i \in 1..Len(Tail(todo))}
  <2>1. \A i \in 1..Len(todo) : i = 1 \/ (i - 1 \in 1..Len(todo) - 1 /\ todo[i] = Tail(todo)[i - 1])
    BY <1>2, <1>3
  <2>2. \A i \in 1..Len(Tail(todo)) : i + 1 \in 1..Len(todo) /\ Tail(todo)[i] = todo[i + 1]
    BY <1>2, <1>3
  <2> HIDE DEF op
  <2> QED
    BY <1>2, <1>3, <2>1, <2>2 DEF op
<1>5. Due' = Due
  BY <1>1, <1>4 DEF Due
<1>6. \A read \in DOMAIN gathered' : Tells(read, gathered'[read])
  BY <1>1 DEF Collected
<1> QED
  BY <1>1, <1>3, <1>5, <1>6 DEF Collected

LEMMA StartCollects ==
  ASSUME Collected, NEW k \in Kinds, Start(k)
  PROVE  Collected'
<1>1. kind = "none" /\ kind' = k /\ todo' = FirstStage[k] /\ gathered' = gathered
  BY DEF Start
<1>2. DOMAIN gathered = {} /\ Due' = {FirstStage[k][i] : i \in 1..Len(FirstStage[k])}
  BY <1>1 DEF Collected, Due
<1> QED
  BY <1>1, <1>2, FirstStageIs DEF Collected, ReadsOf

LEMMA DeepenCollects ==
  ASSUME Collected, Deepen
  PROVE  Collected'
<1>1. /\ kind # "none" /\ todo = <<>> /\ NextStage # <<>>
      /\ todo' = NextStage /\ kind' = kind /\ gathered' = gathered
  BY DEF Deepen
<1>2. /\ kind = "ha"
      /\ \/ NextStage = <<"get_ha_history", "get_ha_checksum_nonsync">>
         \/ NextStage = <<"get_interfaces">>
  <2>1. \/ NextStage = <<>>
        \/ kind = "ha" /\ NextStage = <<"get_ha_history", "get_ha_checksum_nonsync">>
        \/ kind = "ha" /\ NextStage = <<"get_interfaces">>
    <3> DEFINE a == Has(gathered, "get_ha_status")
               b == DOMAIN gathered = {"get_ha_status", "get_ha_members"}
               c == "get_ha_checksum_nonsync" \in DOMAIN gathered
                    /\ "get_interfaces" \notin DOMAIN gathered
    <3>1. CASE kind # "ha" \/ ~a
      BY <3>1 DEF NextStage
    <3>2. CASE kind = "ha" /\ a /\ b
      BY <3>2 DEF NextStage
    <3>3. CASE kind = "ha" /\ a /\ ~b /\ c
      BY <3>3 DEF NextStage
    <3>4. CASE kind = "ha" /\ a /\ ~b /\ ~c
      BY <3>4 DEF NextStage
    <3> QED
      BY <3>1, <3>2, <3>3, <3>4
  <2> QED
    BY <1>1, <2>1
<1>3. /\ NextStage \in Seq(Reads)
      /\ {NextStage[i] : i \in 1..Len(NextStage)} \subseteq ReadsOf["ha"]
  <2> DEFINE next == NextStage
  <2> HIDE DEF next
  <2>1. /\ next \in Seq(Reads)
        /\ {next[i] : i \in 1..Len(next)} \subseteq ReadsOf["ha"]
    <3>1. 1..1 = {1} /\ 1..2 = {1, 2}
      OBVIOUS
    <3>2. CASE next = <<"get_ha_history", "get_ha_checksum_nonsync">>
      BY <3>1, <3>2 DEF Reads, ReadsOf
    <3>3. CASE next = <<"get_interfaces">>
      BY <3>1, <3>3 DEF Reads, ReadsOf
    <3> QED
      BY <1>2, <3>2, <3>3 DEF next
  <2> QED
    BY <2>1 DEF next
<1>4. {todo[i] : i \in 1..Len(todo)} = {}
  BY <1>1
<1>5. Due = DOMAIN gathered
  BY <1>4 DEF Due
<1>6. Due' = DOMAIN gathered \cup {todo'[i] : i \in 1..Len(todo')}
  BY <1>1 DEF Due
<1> QED
  BY <1>1, <1>2, <1>3, <1>5, <1>6 DEF Collected

\* A report, once there, is the last thing that happens.
Ended == Reported => todo = <<>> /\ kind # "none"

Judged ==
  /\ EvidenceResolves
  /\ RestartOnlyIfSaid
  /\ PartialNamesNoCause
  /\ HealthyHidesNothing
  /\ BlamedInterfaceSeen

IInv == Collected /\ Ended /\ Judged

LEMMA ConcludeJudges ==
  ASSUME Collected, Conclude
  PROVE  Judged'
<1> DEFINE concluded == Conclusion
           says == concluded.diagnosis.says
<1>1. /\ kind # "none" /\ todo = <<>> /\ report' = Report
      /\ kind' = kind /\ gathered' = gathered
  BY DEF Conclude
<1>2. Sound(concluded)
  BY <1>1, ConclusionSound
<1>3. /\ report'.status = ReportStatus(concluded.findings, concluded.diagnosis)
      /\ report'.evidence = EvidenceOf(gathered)
      /\ report'.failures = FailuresOf(gathered)
      /\ report'.findings = concluded.findings
      /\ report'.diagnosis = concluded.diagnosis
  BY <1>1 DEF Report
<1> HIDE DEF concluded
<1>4. EvidenceResolves'
  BY <1>2, <1>3 DEF EvidenceResolves, Sound, CitesRead, DiagnosisSound, ReportStatus
<1>5. RestartOnlyIfSaid'
  BY <1>1, <1>2, <1>3
  DEF RestartOnlyIfSaid, Sound, DiagnosisSound, HistoryTells, Restarting, Has, Some
<1>6. PartialNamesNoCause'
  BY <1>1, <1>2, <1>3 DEF PartialNamesNoCause, Sound, DiagnosisSound
<1>7. HealthyHidesNothing'
  <2>1. report'.status = "healthy" =>
          FailuresOf(gathered) = {} /\ \A op \in DOMAIN gathered : ~ShowsFault(op)
    BY <1>2, <1>3 DEF Sound, HidesNothing, ReportStatus
  <2>2. FailuresOf(gathered)' = FailuresOf(gathered)
    BY <1>1 DEF FailuresOf, EvidenceOf, Has
  <2>3. \A op : ShowsFault(op)' <=> ShowsFault(op)
    BY <1>1, Zenon DEF ShowsFault, Some, OutOfSync
  <2> QED
    BY <1>1, <2>1, <2>2, <2>3 DEF HealthyHidesNothing
<1>8. BlamedInterfaceSeen'
  BY <1>1, <1>2, <1>3
  DEF BlamedInterfaceSeen, Sound, DiagnosisSound, InterfaceBlamed, HistoryTells, Blaming, Has, Some
<1> QED
  BY <1>4, <1>5, <1>6, <1>7, <1>8 DEF Judged

LEMMA NotReportedJudged ==
  ASSUME ~Reported
  PROVE  Ended /\ Judged
BY DEF Ended, Judged, EvidenceResolves, RestartOnlyIfSaid, PartialNamesNoCause,
       HealthyHidesNothing, BlamedInterfaceSeen

\* A step that ends without a report leaves nothing to judge.
LEMMA StillNotReported == (~Reported)' => (Ended /\ Judged)'
BY NotReportedJudged, PTL

LEMMA NothingChanges ==
  ASSUME IInv, UNCHANGED vars
  PROVE  IInv'
<1>1. kind' = kind /\ todo' = todo /\ gathered' = gathered /\ report' = report
  BY DEF vars
<1>2. Collected' /\ Ended'
  BY <1>1 DEF IInv, Collected, Due, Ended, Reported
<1>3. EvidenceResolves' /\ RestartOnlyIfSaid' /\ PartialNamesNoCause' /\ BlamedInterfaceSeen'
  BY <1>1 DEF IInv, Judged, EvidenceResolves, RestartOnlyIfSaid, PartialNamesNoCause,
              BlamedInterfaceSeen, Reported, Has, Some
<1>4. HealthyHidesNothing'
  <2>1. FailuresOf(gathered)' = FailuresOf(gathered)
    BY <1>1 DEF FailuresOf, EvidenceOf, Has
  <2>2. \A op : ShowsFault(op)' <=> ShowsFault(op)
    BY <1>1, Zenon DEF ShowsFault, Some, OutOfSync
  <2> QED
    BY <1>1, <2>1, <2>2 DEF IInv, Judged, HealthyHidesNothing, Reported
<1> QED
  BY <1>2, <1>3, <1>4 DEF IInv, Judged

LEMMA InvariantHolds == Spec => []IInv
<1>1. Init => IInv
  <2> SUFFICES ASSUME Init PROVE IInv
    OBVIOUS
  <2>1. ~Reported /\ kind = "none" /\ todo = <<>> /\ gathered = <<>>
    BY DEF Init, Reported
  <2>2. DOMAIN gathered = {} /\ {todo[i] : i \in 1..Len(todo)} = {} /\ todo \in Seq(Reads)
    BY <2>1
  <2> QED
    BY <2>1, <2>2, NotReportedJudged, FirstStageIs DEF IInv, Collected, Due
<1>2. IInv /\ [Next]_vars => IInv'
  <2> SUFFICES ASSUME IInv, [Next]_vars PROVE IInv'
    OBVIOUS
  <2>1. ASSUME NEW k \in Kinds, Start(k) PROVE IInv'
    <3>1. (~Reported)'
      BY <2>1 DEF IInv, Ended, Start, Reported
    <3> QED
      BY <2>1, <3>1, StartCollects, StillNotReported DEF IInv
  <2>2. ASSUME todo # <<>>, NEW value, Tells(Head(todo), value), Gather(Head(todo), value)
        PROVE  IInv'
    <3>1. (~Reported)'
      BY <2>2 DEF IInv, Ended, Gather, Reported
    <3> QED
      BY <2>2, <3>1, GatherCollects, StillNotReported DEF IInv
  <2>3. todo # <<>> => Head(todo) \in Reads
    BY DEF IInv, Collected
  <2>4. CASE CollectFacts
    BY <2>2, <2>3, <2>4, ReadTells DEF CollectFacts
  <2>5. CASE Collect
    BY <2>2, <2>3, <2>5, ReadTells DEF Collect
  <2>6. CASE CollectVariant
    <3>1. PICK out \in Outputs[Head(todo)],
               facts \in IF version = "none" THEN Outputs["get_device_facts"]
                         ELSE {[texts |-> <<"listing">>, version |-> version]} :
            LET known == Read("get_device_facts", version, facts)
            IN  \/ known.error # "none" /\ Gather(Head(todo), known)
                \/ Gather(Head(todo), Read(Head(todo), known.version, out))
      BY <2>6 DEF CollectVariant
    <3> DEFINE known == Read("get_device_facts", version, facts)
    <3>2. known.error # "none" => Tells(Head(todo), known)
      BY DEF Tells
    <3>3. Tells(Head(todo), Read(Head(todo), known.version, out)) /\ todo # <<>>
      BY <2>3, <2>6, ReadTells DEF CollectVariant
    <3> QED
      BY <2>2, <3>1, <3>2, <3>3
  <2>7. CASE CollectFails
    <3>1. Tells(Head(todo), Unreachable)
      BY FailureTells DEF Unreachable
    <3> QED
      BY <2>2, <2>7, <3>1 DEF CollectFails
  <2>8. CASE Deepen
    <3>1. (~Reported)'
      BY <2>8 DEF Deepen, Reported
    <3> QED
      BY <2>8, <3>1, DeepenCollects, StillNotReported DEF IInv
  <2>9. CASE Conclude
    <3>1. Ended'
      BY <2>9 DEF Conclude, Ended
    <3>2. Collected'
      BY <2>9 DEF Conclude, IInv, Collected, Due
    <3> QED
      BY <2>9, <3>1, <3>2, ConcludeJudges DEF IInv
  <2> QED
    BY <2>1, <2>4, <2>5, <2>6, <2>7, <2>8, <2>9, NothingChanges DEF Next
<1> QED
  BY <1>1, <1>2, PTL DEF Spec

----------------------------------------------------------------------------
(* The theorems.                                                           *)

\* A report is never rejected by its own model (the validators of
\* InvestigationReport and Diagnosis): for any answers of the device, findings
\* and diagnosis cite only what was collected, a supported diagnosis cites
\* something, and a report that misses a read is graded insufficient.
THEOREM EveryClaimIsCited == Spec => []EvidenceResolves
BY InvariantHolds, PTL DEF IInv, Judged

\* ha_diagnosis.py concludes a restart only from a history that tells of one,
\* whatever else the cluster shows.
THEOREM RestartsAreSaid == Spec => []RestartOnlyIfSaid
BY InvariantHolds, PTL DEF IInv, Judged

\* Outside HA, a report that misses a read names no cause: _partial_diagnosis
\* has the last word in every workflow.
THEOREM PartialReportsNameNoCause == Spec => []PartialNamesNoCause
BY InvariantHolds, PTL DEF IInv, Judged

\* A report graded healthy hides nothing: every read succeeded and none of
\* them shows a fault, whatever the device answered and wherever the limits
\* of the parsers cut an answer.
THEOREM HealthyMeansHealthy == Spec => []HealthyHidesNothing
BY InvariantHolds, PTL DEF IInv, Judged

\* An interface is blamed only when it was read, and is down, has errors or
\* is said by the history to have gone down.
THEOREM BlameIsSeen == Spec => []BlamedInterfaceSeen
BY InvariantHolds, PTL DEF IInv, Judged
=============================================================================
