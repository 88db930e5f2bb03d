------------------------- MODULE CompatibilityProbe -------------------------
(***************************************************************************)
(* The compatibility probe (src/src/netsage/compatibility/probe.py,        *)
(* service.py): the device is prepared, then ten reads are made through    *)
(* the broker, one after the other, and what can be observed is reported   *)
(* area by area.                                                           *)
(***************************************************************************)
EXTENDS FortiOSDriver

CONSTANTS ProbeOutputs,          \* for every operation, what the device may answer
          MaxTransportFailures   \* bound: the reads of a probe the transport fails

ASSUME MaxTransportFailuresAssumption == MaxTransportFailures \in Nat \ {0}

VARIABLES observed,     \* the observations so far, in the order of Specs
          known,        \* the firmware version of the facts, "none" without them
          areas         \* the report, <<>> until the probe ends
probeVars == <<observed, known, areas>>

Spec_(operation, area) == [operation |-> operation, area |-> area]
Specs ==
  <<Spec_("get_device_facts", "system"), Spec_("get_system_health", "system"),
    Spec_("get_interfaces", "interfaces"), Spec_("get_route_summary", "routing"),
    Spec_("get_firewall_policies", "firewall"), Spec_("get_ha_status", "ha"),
    Spec_("get_sdwan_status", "sdwan"), Spec_("get_ipsec_status", "ipsec"),
    Spec_("get_bgp_status", "bgp"), Spec_("get_ospf_status", "ospf")>>
Areas == {Specs[i].area : i \in DOMAIN Specs}

TransportErrors == {"authentication_failed", "host_key_failed", "transport_failed", "timeout",
                    "output_limit", "permission_denied", "command_unavailable", "command_rejected"}
FatalErrors == {"authentication_failed", "host_key_failed", "transport_failed", "timeout",
                "output_limit"}
PrepareErrors == {"credential_unavailable", "host_key_failed", "transport_failed"}

----------------------------------------------------------------------------
\* The category an error is reported under: parse errors and values that do
\* not validate are unrecognized output, an error no case names is transport.
CategoryOf(error) ==
  CASE error \in {"parse_error", "malformed"} -> "output_unrecognized"
    [] error = "command_rejected" -> "transport_failed"
    [] OTHER -> error

StateForError(category) ==
  CASE category = "permission_denied" -> "permission_denied"
    [] category \in {"empty_output", "output_unrecognized"} -> "output_unrecognized"
    [] OTHER -> "unavailable"

Observation(state, parser, category, variants) ==
  [state |-> state, parser |-> parser, category |-> category, variants |-> variants]

ErrorObservation(failure) ==
  LET category == CategoryOf(failure.error)
  IN  Observation(StateForError(category),
                  IF failure.by = "transport"
                     /\ category \in {"permission_denied", "command_unavailable"}
                  THEN "not_applicable" ELSE "unrecognized",
                  category, failure.attempted)

FatalObservation(category) == Observation("unavailable", "not_applicable", category, <<>>)
MissingVersion == Observation("partial", "not_applicable", "partial", <<>>)

\* A feature whose state is not known is only partly observed; so is a
\* truncated one.
FeatureObservation(value) ==
  LET state == IF value.truncated \/ value.feature = "unknown" THEN "partial" ELSE value.feature
      parser == IF value.truncated THEN "partial" ELSE value.parser
  IN  Observation(state, parser, IF "partial" \in {state, parser} THEN "partial" ELSE "none",
                  IF value.attempted # <<>> THEN value.attempted ELSE <<"v1">>)

Features == {"get_ha_status", "get_sdwan_status", "get_ipsec_status"} \cup VariantReads

ObservationOf(operation, value) ==
  CASE value.error # "none" -> ErrorObservation(value)
    [] value.error = "none" /\ operation \in Features -> FeatureObservation(value)
    [] OTHER -> Observation("supported", "parsed", "none", <<"normalized">>)

\* Routes summarised and policies are parsed, or not.
ReadOne(operation, out) ==
  IF operation \in Reads THEN Read(operation, known, out)
  ELSE IF ShellError(out.texts) # "none" THEN Raised(ShellError(out.texts), "transport", <<>>)
  ELSE IF out.parses THEN [error |-> "none"] ELSE Raised("parse_error", "parser", <<>>)

----------------------------------------------------------------------------
OperationsOf(area) == {i \in DOMAIN Specs : Specs[i].area = area}

(* Mutant: an area is judged by the first of its operations.               *)
Aggregate_First(area) ==
  LET first == observed[Min(OperationsOf(area))]
  IN  [state |-> first.state, parser |-> first.parser, category |-> first.category]
\* Operations of one area that differ make it partly observed.
Aggregate(area) ==
  LET first == observed[Min(OperationsOf(area))]
      states == {observed[i].state : i \in OperationsOf(area)}
      failed == {i \in OperationsOf(area) : observed[i].category # "none"}
  IN  IF Cardinality(states) > 1
      THEN [state |-> "partial", parser |-> "partial", category |-> "partial"]
      ELSE [state |-> first.state, parser |-> first.parser,
            category |-> IF failed = {} THEN "none" ELSE observed[Min(failed)].category]

FailedReport(category) ==
  [a \in Areas |-> [state |-> "unavailable", parser |-> "not_applicable",
                    category |-> category]]

----------------------------------------------------------------------------
ProbeInit == observed = <<>> /\ known = "none" /\ areas = <<>>

Probing == areas = <<>> /\ Len(observed) < Len(Specs)
Operation == Specs[Len(observed) + 1].operation

\* The device cannot be prepared: nothing is read.
PrepareFails ==
  /\ areas = <<>> /\ observed = <<>>
  /\ \E category \in PrepareErrors : areas' = FailedReport(category)
  /\ UNCHANGED <<observed, known>>

\* An observation of the first operation that is fatal stands for all of them.
Observe(observation) ==
  observed' = IF observed = <<>> /\ observation.category \in FatalErrors
              THEN <<observation>> \o [i \in 1..(Len(Specs) - 1) |->
                                         FatalObservation(observation.category)]
              ELSE Append(observed, observation)

SkipUnversioned ==
  /\ Probing /\ Operation \in VariantReads /\ known = "none"
  /\ Observe(MissingVersion)
  /\ UNCHANGED <<known, areas>>

Reading == Probing /\ (Operation \in VariantReads => known # "none")

ProbeRead ==
  /\ Reading
  /\ \E out \in ProbeOutputs[Operation] :
       LET value == ReadOne(Operation, out)
       IN  /\ Observe(ObservationOf(Operation, value))
           /\ known' = IF Operation = "get_device_facts" /\ value.error = "none"
                       THEN value.version ELSE known
  /\ UNCHANGED areas

TransportFailures == Cardinality({i \in DOMAIN observed : observed[i].category \in TransportErrors})

ProbeReadFails ==
  /\ Reading /\ TransportFailures < MaxTransportFailures
  /\ \E error \in TransportErrors :
       Observe(ErrorObservation(Raised(error, "transport", <<>>)))
  /\ UNCHANGED <<known, areas>>

PublishReport ==
  /\ areas = <<>> /\ Len(observed) = Len(Specs)
  /\ areas' = [a \in Areas |-> Aggregate(a)]
  /\ UNCHANGED <<observed, known>>

ProbeNext == PrepareFails \/ SkipUnversioned \/ ProbeRead \/ ProbeReadFails \/ PublishReport

----------------------------------------------------------------------------
(* The report claims no more than was observed: an area said to be         *)
(* supported, enabled, disabled or not configured was read in full by each *)
(* of its operations, and one said to be parsed or to be without error has *)
(* no operation that failed or was only partly recognised (_aggregate).    *)
ClaimsAreObserved ==
  \A a \in DOMAIN areas :
    LET seen == {observed[i] : i \in {j \in DOMAIN observed : Specs[j].area = a}}
        claimed == areas[a].state \in {"supported", "enabled", "disabled", "not_configured"}
    IN  /\ claimed => seen # {} /\ \A o \in seen : o.state = areas[a].state
        /\ areas[a].parser = "parsed" => \A o \in seen : o.parser = "parsed"
        /\ areas[a].category = "none" => claimed /\ \A o \in seen : o.category = "none"
=============================================================================
