--------------------------- MODULE FortiOSParsers ---------------------------
(***************************************************************************)
(* What the FortiOS parsers make of the text a FortiGate answers           *)
(* (src/src/netsage/drivers/fortios/parsers.py and semantic/).             *)
(*                                                                         *)
(* An output is what the regular expressions can tell apart: the kind of   *)
(* each of its texts (one per command), and the rows they find in them, in *)
(* the order they stand in.                                                *)
(* A parser returns a record whose "error" is "none", or the category of   *)
(* the error it raises.  Facts that are three-valued in the code           *)
(* (True, False, None) are "yes", "no" and "unknown".                      *)
(***************************************************************************)
EXTENDS Integers, Sequences, SequencesExt, FiniteSets

CONSTANTS MaxHAMembers,     \* MAX_HA_MEMBERS
          MaxAssociations,  \* MAX_IPSEC_PHASE1, MAX_IPSEC_TUNNELS
          MaxPaths,         \* MAX_SDWAN_HEALTH_CHECKS
          MaxNeighbors,     \* MAX_ROUTING_NEIGHBORS
          MaxEvents         \* MAX_HA_HISTORY_EVENTS

ASSUME LimitsAssumption ==
  /\ MaxHAMembers \in Nat \ {0} /\ MaxAssociations \in Nat \ {0}
  /\ MaxPaths \in Nat \ {0} /\ MaxNeighbors \in Nat \ {0} /\ MaxEvents \in Nat \ {0}

----------------------------------------------------------------------------
(* Text that carries no rows is told apart by what it says.                *)

TextFaults == {"empty_output", "permission_denied", "command_unavailable"}
Absences == {"disabled", "not_configured"}
Texts == {"listing"} \cup TextFaults \cup Absences

Failed(category) == [error |-> category]
TextError(text) == IF text \in TextFaults THEN text ELSE "none"

\* The first error of the texts a parser requires, in its order.
FirstError(texts) ==
  LET faulty == SelectSeq(texts, LAMBDA t : t \in TextFaults)
  IN  IF faulty = <<>> THEN "none" ELSE Head(faulty)

Bounded(rows, limit) == SubSeq(rows, 1, IF Len(rows) < limit THEN Len(rows) ELSE limit)
Truncated(rows, limit) == Len(rows) > limit

FeatureOf(enabled) ==
  CASE enabled = "yes" -> "enabled" [] enabled = "no" -> "disabled" [] OTHER -> "unknown"
ParserState(partial) == IF partial THEN "partial" ELSE "parsed"

----------------------------------------------------------------------------
(* HA status: "rows" are the members in the order they are first met, those *)
(* of the configuration status before those only a role or a usage names.   *)

HealthOf(text) ==
  CASE text = "ok" -> "healthy" [] text = "failing" -> "unhealthy"
    [] text = "warning" -> "degraded" [] OTHER -> "unknown"

ParseHAStatus(out) ==
  LET members == Bounded(out.rows, MaxHAMembers)
      health  == HealthOf(out.health)
      enabled == CASE out.mode = "standalone" -> "no"
                   [] out.mode = "cluster" -> "yes"
                   [] OTHER -> IF members = <<>> THEN "unknown" ELSE "yes"
      vague   == \E i \in DOMAIN members :
                    members[i].role = "unknown" \/ members[i].sync = "unknown"
      partial == \/ enabled = "unknown"
                 \/ enabled = "yes" /\ (members = <<>> \/ health = "unknown" \/ vague)
  IN  IF TextError(out.texts[1]) # "none" THEN Failed(TextError(out.texts[1]))
      ELSE IF out.health = "absent" /\ out.mode = "absent" /\ ~out.header
           THEN Failed("output_unrecognized")
      ELSE [error |-> "none", enabled |-> enabled, health |-> health, members |-> members,
            feature |-> FeatureOf(enabled), parser |-> ParserState(partial),
            truncated |-> Truncated(out.rows, MaxHAMembers)]

----------------------------------------------------------------------------
(* SD-WAN: the health checks with their path and SLA states, and whether   *)
(* member rows were found at all.                                          *)

PathStates == {"alive", "dead", "degraded", "unknown"}
SLAStates == {"passing", "failing", "unknown"}

ParseSDWANStatus(out) ==
  LET texts  == SelectSeq(out.texts,
                          LAMBDA t : t # "empty_output")
      error  == FirstError(texts)
      absent == {texts[i] : i \in DOMAIN texts} \cap Absences
      checks == Bounded(out.checks, MaxPaths)
  IN  IF texts = <<>> THEN Failed("empty_output")
      ELSE IF absent # {}
           THEN [error |-> "none", enabled |-> "no", checks |-> <<>>, truncated |-> FALSE,
                 feature |-> IF "not_configured" \in absent THEN "not_configured"
                                                            ELSE "disabled",
                 parser |-> "parsed"]
      ELSE IF error # "none" THEN Failed(error)
      ELSE IF ~out.members /\ checks = <<>> THEN Failed("output_unrecognized")
      ELSE [error |-> "none", enabled |-> "yes", checks |-> checks,
            truncated |-> Truncated(out.checks, MaxPaths), feature |-> "enabled",
            parser |-> ParserState(~out.members \/ (checks = <<>> /\ ~out.explicit_none))]

----------------------------------------------------------------------------
(* IPsec: the gateways of the IKE listing and the tunnels, joined by name  *)
(* (the last gateway of a name wins, and a tunnel may have its base name). *)

PhaseOf(gateway) ==
  IF gateway.status \in {"established", "down"} THEN gateway.status
  ELSE CASE gateway.sas = "none" -> "unknown"
         [] gateway.sas = "some" -> "established"
         [] OTHER -> "down"

Phase2Of(sas) ==
  CASE sas = 1 -> "established" [] sas = 2 -> "rekeying" [] sas = 0 -> "down"
    [] OTHER -> "unknown"

\* The index of the gateway a tunnel is joined to, 0 when there is none.
GatewayOf(gateways, tunnel) ==
  LET Named(n) == {i \in DOMAIN gateways : gateways[i].name = n}
      LastOf(S) == CHOOSE i \in S : \A j \in S : j <= i
  IN  IF Named(tunnel.name) # {} THEN LastOf(Named(tunnel.name))
      ELSE IF Named(tunnel.base) # {} THEN LastOf(Named(tunnel.base)) ELSE 0

JoinTunnel(gateways, tunnel) ==
  LET g == GatewayOf(gateways, tunnel)
  IN  [interface |-> IF g = 0 THEN "none" ELSE gateways[g].interface,
       phase1 |-> IF g = 0 THEN "unknown" ELSE PhaseOf(gateways[g]),
       phase2 |-> {Phase2Of(tunnel.sas[i]) : i \in DOMAIN tunnel.sas}]

ParseIPsecStatus(out) ==
  LET texts    == SelectSeq(out.texts,
                            LAMBDA t : t # "empty_output")
      absent   == {texts[i] : i \in DOMAIN texts} \cap Absences
      error    == FirstError(texts)
      gateways == Bounded(out.gateways, MaxAssociations)
      tunnels  == [i \in DOMAIN Bounded(out.tunnels, MaxAssociations) |->
                     JoinTunnel(gateways, out.tunnels[i])]
      phases   == [i \in DOMAIN gateways |-> PhaseOf(gateways[i])]
      enabled  == IF gateways # <<>> \/ tunnels # <<>> THEN "yes" ELSE "unknown"
      partial  == \/ gateways = <<>> \/ tunnels = <<>>
                  \/ \E i \in DOMAIN phases : phases[i] = "unknown"
                  \/ \E i \in DOMAIN tunnels : tunnels[i].phase1 = "unknown"
                                               \/ "unknown" \in tunnels[i].phase2
  IN  IF texts = <<>> THEN Failed("empty_output")
      ELSE IF absent # {}
           THEN [error |-> "none", enabled |-> "no", phase1 |-> <<>>, tunnels |-> <<>>,
                 truncated |-> FALSE, parser |-> "parsed",
                 feature |-> IF "not_configured" \in absent THEN "not_configured"
                                                            ELSE "disabled"]
      ELSE IF error # "none" THEN Failed(error)
      ELSE IF enabled = "unknown" /\ ~out.header THEN Failed("output_unrecognized")
      ELSE [error |-> "none", enabled |-> enabled, phase1 |-> phases, tunnels |-> tunnels,
            feature |-> FeatureOf(enabled), parser |-> ParserState(partial),
            truncated |-> Truncated(out.gateways, MaxAssociations)
                          \/ Truncated(out.tunnels, MaxAssociations)]

----------------------------------------------------------------------------
(* Dynamic routing: a BGP summary, its detailed fallback, and OSPF.        *)

AbsentRouting(text) ==
  [error |-> "none", enabled |-> "no", neighbors |-> <<>>, truncated |-> FALSE,
   feature |-> text, parser |-> "parsed"]

RoutingStatus(rows, identified) ==
  LET neighbors == Bounded(rows, MaxNeighbors)
  IN  [error |-> "none", enabled |-> "yes", neighbors |-> neighbors,
       truncated |-> Truncated(rows, MaxNeighbors), feature |-> "enabled",
       parser |-> ParserState(~identified \/ \E i \in DOMAIN neighbors :
                                                neighbors[i].state = "unknown")]

ParseBGPSummary(out) ==
  IF TextError(out.texts[1]) # "none" THEN Failed(TextError(out.texts[1]))
  ELSE IF out.texts[1] \in Absences THEN AbsentRouting(out.texts[1])
  ELSE IF ~out.identity /\ ~out.header THEN Failed("output_unrecognized")
  ELSE RoutingStatus(IF out.header THEN out.rows ELSE <<>>, out.identity)

\* The detailed listing has no summary header: its rows are its blocks.
ParseBGPNeighbors(out) ==
  IF TextError(out.texts[1]) # "none" THEN Failed(TextError(out.texts[1]))
  ELSE IF out.texts[1] \in Absences THEN AbsentRouting(out.texts[1])
  ELSE IF out.rows = <<>> THEN Failed("output_unrecognized")
  ELSE RoutingStatus(out.rows, TRUE)

ParseOSPFStatus(out) ==
  LET texts == out.texts
      absent == {texts[i] : i \in DOMAIN texts} \cap Absences
  IN  IF texts = <<"empty_output", "empty_output">> THEN Failed("empty_output")
      ELSE IF absent # {}
           THEN AbsentRouting(IF "not_configured" \in absent THEN "not_configured" ELSE "disabled")
      ELSE IF FirstError(texts) # "none" THEN Failed(FirstError(texts))
      ELSE IF ~out.identity /\ ~out.header THEN Failed("output_unrecognized")
      ELSE RoutingStatus(IF out.header THEN out.rows ELSE <<>>, out.identity)

----------------------------------------------------------------------------
(* HA checksums.  A digest stands under a label; every VDOM's label is     *)
(* collapsed into one scope, so digests of different VDOMs are compared.   *)

ScopeOf(label) == IF label \in {"global", "all"} THEN label ELSE "vdom"

ParseHAChecksum(out) ==
  LET scopes == {ScopeOf(out.rows[i].label) : i \in DOMAIN out.rows}
      Under(s) == {i \in DOMAIN out.rows : ScopeOf(out.rows[i].label) = s}
      Comparable == {s \in scopes : Cardinality(Under(s)) >= 2}
      Mismatched == {s \in Comparable :
                       Cardinality({out.rows[i].digest : i \in Under(s)}) > 1}
  IN  IF TextError(out.texts[1]) # "none" THEN Failed(TextError(out.texts[1]))
      ELSE IF out.rows = <<>> THEN Failed("output_unrecognized")
      ELSE [error |-> "none", mismatches |-> Cardinality(Mismatched),
            synchronized |-> IF Comparable = {} THEN "unknown"
                             ELSE IF Mismatched = {} THEN "yes" ELSE "no"]

----------------------------------------------------------------------------
(* HA history: one event per line; a member that was lost or left makes    *)
(* its next arrival a rejoin; an event already seen is dropped.            *)

LineEvent(line, unstable) ==
  LET kind == CASE line.says = "new_member" ->
                     IF line.member \in unstable THEN "member_rejoined" ELSE "member_joined"
                [] OTHER -> line.says
  IN  [type |-> kind, member |-> line.member, interface |-> line.interface, at |-> line.at]

AfterLine(state, line) ==
  LET event == LineEvent(line, state.unstable)
      unstable == CASE event.type \in {"heartbeat_lost", "member_left"} ->
                         state.unstable \cup ({line.member} \ {"none"})
                    [] event.type = "member_rejoined" -> state.unstable \ {line.member}
                    [] OTHER -> state.unstable
      repeated == event.type # "unknown"
                  /\ \E i \in DOMAIN state.events : state.events[i] = event
  IN  [unstable |-> unstable,
       events |-> IF repeated THEN state.events ELSE Append(state.events, event)]

ParseHAHistory(out) ==
  LET all == FoldLeft(AfterLine, [unstable |-> {}, events |-> <<>>], out.lines).events
      events == Bounded(all, MaxEvents)
      unrecognized == Cardinality({i \in DOMAIN events : events[i].type = "unknown"})
  IN  IF TextError(out.texts[1]) # "none" THEN Failed(TextError(out.texts[1]))
      ELSE [error |-> "none", events |-> events, unrecognized |-> unrecognized,
            truncated |-> out.cut \/ Truncated(all, MaxEvents)]

----------------------------------------------------------------------------
(* The deterministic reads: interfaces, routes, system health.  They have  *)
(* one kind of error and no categories.                                    *)

StateOf(word, default) == IF word \in {"up", "down"} THEN word ELSE default

\* An interface the physical listing misses has an unknown operational state.
ParseInterfaces(out) ==
  IF out.rows = <<>> THEN Failed("parse_error")
  ELSE [error |-> "none",
        interfaces |-> {[name |-> out.rows[i].name,
                         admin |-> StateOf(out.rows[i].admin, "up"),
                         oper |-> StateOf(out.rows[i].oper, "unknown"),
                         errors |-> out.rows[i].errors] : i \in DOMAIN out.rows}]

\* A continuation line inherits the previous line's code and prefix.
RouteRow(rows, i) ==
  LET owners == {j \in 1..i : ~rows[j].continued}
      owner == CHOOSE j \in owners : \A k \in owners : k <= j
  IN  [default |-> rows[owner].default, selected |-> rows[owner].selected]

ParseRoutes(out) ==
  IF ~out.header THEN Failed("parse_error")
  ELSE [error |-> "none",
        routes |-> {RouteRow(out.rows, i) :
                      i \in {j \in DOMAIN out.rows : \E k \in 1..j : ~out.rows[k].continued}}]

\* Loads are classes: "low" < 75%, "high" in 75..90, "critical" above.
ParseSystemHealth(out) ==
  IF "absent" \in {out.cpu, out.memory} THEN Failed("parse_error")
  ELSE [error |-> "none", cpu |-> out.cpu, memory |-> out.memory,
        status |-> IF "critical" \in {out.cpu, out.memory} THEN "unhealthy"
                   ELSE IF "high" \in {out.cpu, out.memory} THEN "degraded" ELSE "healthy"]
=============================================================================
