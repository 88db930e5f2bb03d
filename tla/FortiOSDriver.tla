---------------------------- MODULE FortiOSDriver ----------------------------
(***************************************************************************)
(* The FortiOS driver (src/src/netsage/drivers/fortios/driver.py,          *)
(* variants.py, version.py): which commands a read runs, what the shell's  *)
(* checks make of their texts before a parser sees them, and which reviewed *)
(* variant a BGP or OSPF read falls back to.                               *)
(*                                                                         *)
(* A failed read says where the error is raised: by the transport, by a    *)
(* parser, or by a parser after the variants were exhausted; the variants  *)
(* it attempted travel with the last kind only.                            *)
(***************************************************************************)
EXTENDS FortiOSParsers

Reads == {"get_device_facts", "get_interfaces", "get_system_health", "get_routes",
          "get_ha_status", "get_ha_members", "get_ha_history", "get_ha_checksum_nonsync",
          "get_sdwan_status", "get_ipsec_status", "get_bgp_status", "get_ospf_status"}
VariantReads == {"get_bgp_status", "get_ospf_status"}

\* How the firmware text of the facts compares with the variants' 7.0.0-7.6.99:
\* without a patch number it is not comparable, and supports no variant.
Versions == {"in_range", "no_patch", "out_of_range", "malformed"}

Attempts == [get_bgp_status |-> <<"bgp-summary-v1", "bgp-neighbors-v1">>,
             get_ospf_status |-> <<"ospf-neighbor-all-v1", "ospf-neighbor-v1">>]
Retryable == {"command_unavailable", "empty_output", "output_unrecognized"}

Raised(category, by, attempted) ==
  [error |-> category, by |-> by, attempted |-> attempted]

\* The transport refuses these texts, whichever of the commands wrote them.
ShellError(texts) ==
  LET refused == SelectSeq(texts, LAMBDA t : t \in {"permission_denied",
                                                    "command_unavailable"})
  IN  IF refused = <<>> THEN "none" ELSE Head(refused)

ParseVariant(op, variant, out) ==
  CASE op = "get_ospf_status" -> ParseOSPFStatus(out)
    [] op = "get_bgp_status" /\ variant = 1 -> ParseBGPSummary(out)
    [] OTHER -> ParseBGPNeighbors(out)

VariantError(op, variant, out) ==
  IF ShellError(out.texts) # "none" THEN ShellError(out.texts)
  ELSE ParseVariant(op, variant, out).error

\* A value that was parsed carries the variants attempted for it.
WithAttempts(value, attempted) ==
  [field \in DOMAIN value \cup {"attempted"} |->
     IF field = "attempted" THEN attempted ELSE value[field]]

\* outs[v] is what the commands of variant v answer.
ReadVariants(op, version, outs) ==
  LET first == VariantError(op, 1, outs[1])
      used  == IF first \in Retryable THEN 2 ELSE 1
      error == VariantError(op, used, outs[used])
      attempted == SubSeq(Attempts[op], 1, used)
      status == ParseVariant(op, used, outs[used])
  IN  CASE version = "malformed" -> Raised("malformed", "parser", <<>>)
        [] version \in {"no_patch", "out_of_range"} ->
             Raised("command_unavailable", "exhausted", <<>>)
        [] version = "in_range" /\ ShellError(outs[used].texts) # "none" ->
             Raised(error, "transport", <<>>)
        [] version = "in_range" /\ ShellError(outs[used].texts) = "none" /\ error # "none" ->
             Raised(error, "exhausted", attempted)
        [] OTHER -> WithAttempts(status, attempted)

\* A list of members is all or nothing: a truncated status fails the read.
Membership(status) ==
  IF status.error # "none" THEN status
  ELSE IF status.truncated THEN Failed("incomplete")
  ELSE [error |-> "none", members |-> status.members]

ParseFacts(out) ==
  IF out.version = "missing" THEN Failed("parse_error")
  ELSE [error |-> "none", version |-> out.version]

ParseRead(op, out) ==
  CASE op = "get_device_facts" -> ParseFacts(out)
    [] op = "get_interfaces" -> ParseInterfaces(out)
    [] op = "get_system_health" -> ParseSystemHealth(out)
    [] op = "get_routes" -> ParseRoutes(out)
    [] op = "get_ha_status" -> ParseHAStatus(out)
    [] op = "get_ha_members" -> Membership(ParseHAStatus(out))
    [] op = "get_ha_history" -> ParseHAHistory(out)
    [] op = "get_ha_checksum_nonsync" -> ParseHAChecksum(out)
    [] op = "get_sdwan_status" -> ParseSDWANStatus(out)
    [] OTHER -> ParseIPsecStatus(out)

Read(op, version, out) ==
  IF op \in VariantReads THEN ReadVariants(op, version, out)
  ELSE IF ShellError(out.texts) # "none"
       THEN Raised(ShellError(out.texts), "transport", <<>>)
       ELSE LET value == ParseRead(op, out)
            IN  IF value.error # "none" THEN Raised(value.error, "parser", <<>>)
                ELSE WithAttempts(value, <<>>)
=============================================================================
