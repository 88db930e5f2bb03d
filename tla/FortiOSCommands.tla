--------------------------- MODULE FortiOSCommands ---------------------------
(***************************************************************************)
(* What one netsage process does with a FortiGate besides investigating:   *)
(* it executes a catalog command, collects a read of several commands in   *)
(* one session, or probes the compatibility, never two of them at once     *)
(* (cli/fortios_catalog_commands.py, compatibility/service.py).            *)
(***************************************************************************)
EXTENDS CatalogExecutor, CompatibilityProbe

CONSTANT Collections    \* the command sequences of reads

vars == <<sessionVars, catalogVars, probeVars>>

Init == SessionInit /\ CatalogInit /\ ProbeInit

Idle == stage = "idle" /\ commands = <<>> /\ outcome = "none"
Unprobed == observed = <<>> /\ areas = <<>>

Catalog == Unprobed /\ (Idle \/ stage # "idle") /\ CatalogNext /\ UNCHANGED probeVars
Collect ==
  /\ Unprobed /\ Idle
  /\ \E c \in Collections : Submit(c)
  /\ UNCHANGED <<catalogVars, probeVars>>
Session == SessionNext /\ UNCHANGED <<catalogVars, probeVars>>
Probe == Idle /\ ProbeNext /\ UNCHANGED <<sessionVars, catalogVars>>

Next == Catalog \/ Collect \/ Session \/ Probe

Spec == Init /\ [][Next]_vars
=============================================================================
