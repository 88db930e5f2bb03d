-------------------------- MODULE CatalogExecutor --------------------------
(***************************************************************************)
(* Execution of a promoted catalog command                                 *)
(* (src/src/netsage/drivers/fortios/catalog/executor.py, registry.py, and  *)
(* the transport's own check of the manifest): prepare, run the command in *)
(* one session, check its output, record one audit event.                  *)
(***************************************************************************)
EXTENDS FortiOSTransport

CONSTANTS Manifest,   \* the definitions of the command IDs that are known
          Requested   \* the IDs asked for, known or not

\* validate_support: an executable definition is read-only, renderable, and
\* its output is approved as sanitized text on both sides, so that neither the
\* renderer nor the transport's own look at the manifest can refuse it.
ASSUME ManifestAssumption ==
  \A id \in DOMAIN Manifest : Manifest[id].executable => Manifest[id].class = "read_only"

\* How the arguments given compare with the definition's.
ArgumentFaults == {"unsupported_type", "names_mismatch", "unsafe_value", "out_of_bounds"}
ArgumentVerdicts == {"valid", "sensitive"} \cup ArgumentFaults
\* Where redacting what is to be sent may fail, or find a secret.
RedactionVerdicts == {"clean", "fails", "sensitive"}

VARIABLES stage,   \* "idle", "running", "done", "cancelled"
          reply,   \* what execute() gave: "none", "result", or an error code
          trail    \* the audit events
catalogVars == <<stage, reply, trail>>

DeniedCodes == {"UNKNOWN_COMMAND", "NOT_EXECUTABLE", "POLICY_DENIED", "INTERACTIVE_UNSUPPORTED"}

\* _prepare: the first check that fails names the error.
PrepareError(id, arguments, redaction) ==
  IF id \notin DOMAIN Manifest THEN "UNKNOWN_COMMAND"
  ELSE CASE Manifest[id].class # "read_only" -> "POLICY_DENIED"
         [] Manifest[id].class = "read_only" /\ ~Manifest[id].executable ->
              IF Manifest[id].interactive THEN "INTERACTIVE_UNSUPPORTED" ELSE "NOT_EXECUTABLE"
         [] OTHER ->
              CASE arguments = "unsupported_type" -> "INVALID_ARGUMENT"
                [] arguments # "unsupported_type" /\ redaction = "fails" ->
                     "OUTPUT_REDACTION_FAILED"
                [] OTHER ->
                     IF arguments # "valid" \/ redaction = "sensitive"
                     THEN "INVALID_ARGUMENT" ELSE "none"

CodeOf(error) ==
  CASE error = "timeout" -> "TIMEOUT"
    [] error = "output_limit" -> "OUTPUT_LIMIT_EXCEEDED"
    [] OTHER -> "TRANSPORT_FAILED"

CatalogInit == stage = "idle" /\ reply = "none" /\ trail = <<>>

\* The failure is recorded, or the audit's own failure replaces it.
Fail(code) ==
  /\ stage' = "done"
  /\ \/ /\ trail' = Append(trail, [result |-> IF code \in DeniedCodes THEN "denied" ELSE "failure",
                                   code |-> code])
        /\ reply' = code
     \/ reply' = "AUDIT_FAILED" /\ UNCHANGED trail

Execute(id) ==
  /\ stage = "idle"
  /\ \E arguments \in ArgumentVerdicts, redaction \in RedactionVerdicts :
       LET error == PrepareError(id, arguments, redaction)
       IN  IF error # "none" THEN Fail(error) /\ UNCHANGED sessionVars
           ELSE Submit(<<id>>) /\ stage' = "running" /\ UNCHANGED <<reply, trail>>

Running == stage = "running" /\ outcome = "none"

SessionFails ==
  /\ stage = "running" /\ outcome \notin {"none", "ok"}
  /\ Fail(CodeOf(outcome)) /\ UNCHANGED sessionVars

(* Mutant: the event is written before the output is judged.               *)
Returned_Early ==
  \E fault \in {"OUTPUT_REDACTION_FAILED", "OUTPUT_LIMIT_EXCEEDED", "none"} :
    /\ trail' = Append(trail, [result |-> "success", code |-> "none"])
    /\ stage' = "done" /\ reply' = IF fault = "none" THEN "result" ELSE fault
\* The output may still fail its own redaction or limit; then the SUCCESS event
\* is written, or its failure becomes the error that is recorded.
Returned ==
  \/ Fail("OUTPUT_REDACTION_FAILED") \/ Fail("OUTPUT_LIMIT_EXCEEDED")
  \/ /\ trail' = Append(trail, [result |-> "success", code |-> "none"])
     /\ stage' = "done" /\ reply' = "result"
  \/ Fail("AUDIT_FAILED")

SessionReturns ==
  /\ stage = "running" /\ outcome = "ok"
  /\ Returned /\ UNCHANGED sessionVars

\* asyncio.timeout() around the transport: the session is cancelled.
ExecutionTimesOut == Running /\ Stop("cancelled") /\ Fail("TIMEOUT")

\* The caller is cancelled: nothing of the executor runs but the finally.
Cancel == Running /\ Stop("cancelled") /\ stage' = "cancelled" /\ UNCHANGED <<reply, trail>>

CatalogNext ==
  \/ \E id \in Requested : Execute(id)
  \/ SessionFails \/ SessionReturns \/ ExecutionTimesOut \/ Cancel

----------------------------------------------------------------------------
(* The audit trail tells how a finished execution ended: one SUCCESS event *)
(* exactly when its result was returned, at most one event, none only when *)
(* the audit itself failed, DENIED only for commands that reached no       *)
(* device; and no connection outlives the execution, cancelled or not.     *)
TrailTellsOutcome ==
  /\ stage \in {"done", "cancelled"} => link # "open" /\ Len(trail) <= 1
  /\ stage = "done" =>
       /\ reply = "result" <=> \E i \in DOMAIN trail : trail[i].result = "success"
       /\ reply = "result" => outcome = "ok"
       /\ trail = <<>> => reply = "AUDIT_FAILED"
       /\ \A i \in DOMAIN trail : trail[i].result = "denied" => link = "none"
=============================================================================
