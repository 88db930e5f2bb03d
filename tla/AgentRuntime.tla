---------------------------- MODULE AgentRuntime ----------------------------
(***************************************************************************)
(* One AI-assisted investigation: a deterministic workflow collects a      *)
(* fixed list of operations and reports; then AgentRuntime.run lets an AI  *)
(* provider ask for further tool calls, within limits, until the provider  *)
(* gives a final assessment that the runtime validates against the         *)
(* evidence and the deterministic report.                                  *)
(*                                                                         *)
(* The provider is any program at all: each of its responses is chosen     *)
(* freely.  The contents of a batch of tool calls are chosen one call at a *)
(* time, when the runtime gets to it: nothing in run() looks at a call     *)
(* before that, it only counts them.                                       *)
(***************************************************************************)
EXTENDS EvidenceCollector

CONSTANTS
    Device,            \* the device under investigation
    WorkflowTools,     \* the operations of the deterministic workflow, in order
    CallIds,           \* tool-call identifiers the provider may use
    ForgedIds,         \* evidence identifiers the provider may invent
    ReportStrengths,   \* strengths deterministic conclusions may have
    MaxAgentSteps, MaxToolCallsTotal, MaxToolCallsPerStep,
    NoDiagnosis, NoBaseline

Strengths == {"insufficient", "probable", "strong", "confirmed"}
Rank == [insufficient |-> 0, probable |-> 1, strong |-> 2, confirmed |-> 3]
Diagnoses == [strength : Strengths, ids : SUBSET Nat]
Baselines == [ids : SUBSET Nat, diagnosis : Diagnoses \cup {NoDiagnosis},
              confirmed : SUBSET Nat, touches : Nat]

ASSUME AgentAssumption ==
    /\ Device \in DOMAIN Inventory
    /\ WorkflowTools \in Seq(Names)
    /\ ForgedIds \subseteq Nat
    /\ ReportStrengths \subseteq Strengths
    /\ MaxAgentSteps \in Nat \ {0}
    /\ MaxToolCallsTotal \in Nat \ {0}
    /\ MaxToolCallsPerStep \in Nat \ {0}
    /\ NoDiagnosis \notin Diagnoses
    /\ NoBaseline \notin Baselines

VARIABLES
    pc,          \* where the investigation is
    position,    \* the next operation of the deterministic workflow
    incomplete,  \* TRUE once a deterministic collection failed
    baseline,    \* the deterministic report: its evidence, its conclusion, the evidence of
                 \* its CONFIRMED findings; and (history) the handlers it started
    step,        \* provider rounds started
    snapshot,    \* evidence listed when the current round's context was built
    remaining,   \* tool calls of the current response not yet accepted
    current,     \* the tool call being collected
    callIds, signatures, total, results,   \* the locals of run()
    report       \* how the run ended

runVars == <<step, snapshot, remaining, current, callIds, signatures, total, results>>
baselineVars == <<position, incomplete, baseline>>
vars == <<collectorVars, pc, baselineVars, runVars, report>>

ToolCalls == [id : CallIds, tool : Names, destination : Destinations \cup {NoDestination}]
Signature(c) == <<c.tool, c.destination>>
Statuses == {"success", "tool_denied", "device_unavailable", "collection_failed",
             "invalid_arguments", "unsupported_capability", "repeated_tool_call"}
Categories == {"none", "provider_failed", "invalid_response", "invalid_evidence_reference",
               "deterministic_contradiction", "repeated_tool_call", "step_limit_reached",
               "tool_limit_reached"}
NoReport == [state |-> "running", category |-> "none", strength |-> "insufficient", cited |-> {}]
Reports == [state : {"running", "completed", "failed", "limit_reached"},
            category : Categories, strength : Strengths, cited : SUBSET Nat]

Programs == {"workflow", "workflowCollecting", "start", "context", "generating",
             "executing", "collecting", "done", "raised"}

TypeOK ==
    /\ CollectorTypeOK
    /\ pc \in Programs
    /\ position \in 1..(Len(WorkflowTools) + 1)
    /\ incomplete \in BOOLEAN
    /\ baseline \in Baselines \cup {NoBaseline}
    /\ step \in Nat /\ total \in Nat /\ remaining \in Nat
    /\ snapshot \subseteq Nat
    /\ current \in ToolCalls \cup {NoCall}
    /\ callIds \subseteq CallIds
    /\ signatures \subseteq Names \X (Destinations \cup {NoDestination})
    /\ results \in Seq([id : CallIds, tool : Names, status : Statuses, evidence : Nat])
    /\ report \in Reports

Offered == AiToolsForDevice(Device)

-----------------------------------------------------------------------------
(* The deterministic workflow.                                             *)

WorkflowRefused ==
    /\ pc = "workflow"
    /\ position <= Len(WorkflowTools)
    /\ CollectRefused(WorkflowTools[position], Device, NoDestination)
    /\ position' = position + 1
    /\ incomplete' = TRUE
    /\ UNCHANGED <<pc, baseline, runVars, report>>

WorkflowStarts ==
    /\ pc = "workflow"
    /\ position <= Len(WorkflowTools)
    /\ CollectStarts(WorkflowTools[position], Device, NoDestination)
    /\ pc' = "workflowCollecting"
    /\ UNCHANGED <<baselineVars, runVars, report>>

WorkflowEnds ==
    /\ pc = "workflowCollecting"
    /\ CollectEnds
    /\ position' = position + 1
    /\ incomplete' = (incomplete \/ observation'.error # "none")
    /\ pc' = "workflow"
    /\ UNCHANGED <<baseline, runVars, report>>

(* What the workflow may conclude: nothing or a conclusion over the        *)
(* collected evidence, and only INSUFFICIENT once a collection failed.     *)
Conclusions ==
    {d \in [strength : ReportStrengths \cup {"insufficient"}, ids : SUBSET EvidenceIds] :
        /\ d.strength # "insufficient" => d.ids # {}
        /\ incomplete => d = [strength |-> "insufficient", ids |-> EvidenceIds]}

WorkflowReports ==
    /\ pc = "workflow"
    /\ position > Len(WorkflowTools)
    /\ \E diagnosis \in Conclusions \cup (IF incomplete THEN {} ELSE {NoDiagnosis}),
          confirmed \in SUBSET EvidenceIds :
        baseline' = [ids |-> EvidenceIds, diagnosis |-> diagnosis, confirmed |-> confirmed,
                     touches |-> Len(touched)]
    /\ pc' = "start"
    /\ UNCHANGED <<collectorVars, position, incomplete, runVars, report>>

-----------------------------------------------------------------------------
(* AgentRuntime.run.                                                       *)

Finish(state, category) ==
    /\ pc' = "done"
    /\ report' = [NoReport EXCEPT !.state = state, !.category = category]

Failed(category) == Finish("failed", category)
Limited(category) == Finish("limit_reached", category)

StartRun ==
    /\ pc = "start"
    /\ pc' = "context"
    /\ UNCHANGED <<collectorVars, baselineVars, runVars, report>>

(* The request or the report names another device.                         *)
RejectMismatch ==
    /\ pc = "start"
    /\ Failed("invalid_response")
    /\ UNCHANGED <<collectorVars, baselineVars, runVars>>

BuildContext ==
    /\ pc = "context"
    /\ step < MaxAgentSteps
    /\ step' = step + 1
    /\ snapshot' = EvidenceIds
    /\ pc' = "generating"
    /\ UNCHANGED <<collectorVars, baselineVars, remaining, current, callIds, signatures,
                   total, results, report>>

(* The context holds recognized secret material: the error leaves run().   *)
ContextUnsafe ==
    /\ pc = "context"
    /\ step < MaxAgentSteps
    /\ pc' = "raised"
    /\ UNCHANGED <<collectorVars, baselineVars, runVars, report>>

(* Mutant: off by one, the loop waits for a round it never starts.         *)
StepLimitReached_OffByOne ==
    /\ pc = "context"
    /\ step > MaxAgentSteps
    /\ Limited("step_limit_reached")
    /\ UNCHANGED <<collectorVars, baselineVars, runVars>>

StepLimitReached ==
    /\ pc = "context"
    /\ step = MaxAgentSteps
    /\ Limited("step_limit_reached")
    /\ UNCHANGED <<collectorVars, baselineVars, runVars>>

(* The provider raises AIProviderError, or its response has neither type.  *)
ProviderFails ==
    /\ pc = "generating"
    /\ Failed("provider_failed") \/ Failed("invalid_response")
    /\ UNCHANGED <<collectorVars, baselineVars, runVars>>

-----------------------------------------------------------------------------
(* A final assessment and its validation.                                  *)

Assessments ==
    {a \in [strength : Strengths, cited : SUBSET (EvidenceIds \cup ForgedIds)] :
        a.strength # "insufficient" => a.cited # {}}

(* Mutant: only the shape of the citation list is looked at.               *)
CitesUnknownEvidence_ShapeOnly(a) == a.strength # "insufficient" /\ a.cited = {}

CitesUnknownEvidence(a) ==
    \/ a.strength # "insufficient" /\ a.cited = {}
    \/ ~(a.cited \subseteq snapshot)

(* Mutant: a stronger assessment needs no new evidence.                    *)
ContradictsBaseline_AnyStrength(a) ==
    \/ ~(baseline.confirmed \subseteq a.cited)
    \/ /\ baseline.diagnosis # NoDiagnosis
       /\ baseline.diagnosis.strength = "confirmed"
       /\ \/ a.strength # "confirmed"
          \/ ~(baseline.diagnosis.ids \subseteq a.cited)

(* Mutant: confirmed findings only count when there is a diagnosis.        *)
ContradictsBaseline_FindingsForgotten(a) ==
    /\ baseline.diagnosis # NoDiagnosis
    /\ \/ ~(baseline.confirmed \subseteq a.cited)
       \/ /\ baseline.diagnosis.strength = "confirmed"
          /\ \/ a.strength # "confirmed"
             \/ ~(baseline.diagnosis.ids \subseteq a.cited)
       \/ /\ Rank[a.strength] > Rank[baseline.diagnosis.strength]
          /\ a.cited \subseteq baseline.ids

ContradictsBaseline(a) ==
    \/ ~(baseline.confirmed \subseteq a.cited)
    \/ /\ baseline.diagnosis # NoDiagnosis
       /\ \/ /\ baseline.diagnosis.strength = "confirmed"
             /\ \/ a.strength # "confirmed"
                \/ ~(baseline.diagnosis.ids \subseteq a.cited)
          \/ /\ Rank[a.strength] > Rank[baseline.diagnosis.strength]
             /\ a.cited \subseteq baseline.ids

ProviderConcludes(a) ==
    /\ pc = "generating"
    /\ \/ CitesUnknownEvidence(a) /\ Failed("invalid_evidence_reference")
       \/ /\ ~CitesUnknownEvidence(a)
          /\ ContradictsBaseline(a)
          /\ Failed("deterministic_contradiction")
       \/ /\ ~CitesUnknownEvidence(a)
          /\ ~ContradictsBaseline(a)
          /\ pc' = "done"
          /\ report' = [state |-> "completed", category |-> "none",
                        strength |-> a.strength, cited |-> a.cited]
    /\ UNCHANGED <<collectorVars, baselineVars, runVars>>

-----------------------------------------------------------------------------
(* A batch of tool calls.                                                  *)

(* Mutant: the total is tested for one more call, not for the whole batch. *)
ProviderCallsTools_CountsOne(n) ==
    /\ pc = "generating"
    /\ \/ /\ n > MaxToolCallsPerStep \/ total + 1 > MaxToolCallsTotal
          /\ Limited("tool_limit_reached")
          /\ UNCHANGED remaining
       \/ /\ n <= MaxToolCallsPerStep /\ total + 1 <= MaxToolCallsTotal
          /\ pc' = "executing"
          /\ remaining' = n
          /\ UNCHANGED report
    /\ UNCHANGED <<collectorVars, baselineVars, step, snapshot, current, callIds,
                   signatures, total, results>>

(* Both limits are tested on the whole batch, before any call of it runs.  *)
ProviderCallsTools(n) ==
    /\ pc = "generating"
    /\ \/ /\ n > MaxToolCallsPerStep \/ total + n > MaxToolCallsTotal
          /\ Limited("tool_limit_reached")
          /\ UNCHANGED remaining
       \/ /\ n <= MaxToolCallsPerStep /\ total + n <= MaxToolCallsTotal
          /\ pc' = "executing"
          /\ remaining' = n
          /\ UNCHANGED report
    /\ UNCHANGED <<collectorVars, baselineVars, step, snapshot, current, callIds,
                   signatures, total, results>>

AnswerWith(c, status, evidence) ==
    results' = Append(results, [id |-> c.id, tool |-> c.tool, status |-> status,
                                evidence |-> evidence])

(* Mutant: the batch loop does not leave at its end.                       *)
NextCall_Never(left) == pc' = "executing"

NextCall(left) == pc' = IF left = 0 THEN "context" ELSE "executing"

RejectDuplicateId(c) ==
    /\ pc = "executing"
    /\ c.id \in callIds
    /\ Failed("invalid_response")
    /\ UNCHANGED <<collectorVars, baselineVars, runVars>>

RejectRepeatedCall(c) ==
    /\ pc = "executing"
    /\ c.id \notin callIds
    /\ Signature(c) \in signatures
    /\ callIds' = callIds \cup {c.id}
    /\ AnswerWith(c, "repeated_tool_call", 0)
    /\ Failed("repeated_tool_call")
    /\ UNCHANGED <<collectorVars, baselineVars, step, snapshot, remaining, current,
                   signatures, total>>

(* Mutant: the signature of an accepted call is not remembered.            *)
AcceptCall_Forgets(c) ==
    /\ pc = "executing"
    /\ c.id \notin callIds
    /\ Signature(c) \notin signatures
    /\ callIds' = callIds \cup {c.id}
    /\ total' = total + 1
    /\ remaining' = remaining - 1
    /\ UNCHANGED <<baselineVars, step, snapshot, signatures, report>>

AcceptCall(c) ==
    /\ pc = "executing"
    /\ c.id \notin callIds
    /\ Signature(c) \notin signatures
    /\ callIds' = callIds \cup {c.id}
    /\ signatures' = signatures \cup {Signature(c)}
    /\ total' = total + 1
    /\ remaining' = remaining - 1
    /\ UNCHANGED <<baselineVars, step, snapshot, report>>

TakesDestination(c) == (c.destination # NoDestination) <=> (c.tool \in DestinationTools)

RefuseTool(c) ==
    /\ AcceptCall(c)
    /\ c.tool \notin Offered
    /\ AnswerWith(c, "tool_denied", 0)
    /\ NextCall(remaining - 1)
    /\ UNCHANGED <<collectorVars, current>>

RefuseArguments(c) ==
    /\ AcceptCall(c)
    /\ c.tool \in Offered
    /\ ~TakesDestination(c)
    /\ AnswerWith(c, "invalid_arguments", 0)
    /\ NextCall(remaining - 1)
    /\ UNCHANGED <<collectorVars, current>>

(* The Broker repeats the checks that made the tool offered, so it cannot  *)
(* refuse here: tool table, inventory and policy do not change in a run.   *)
ExecuteTool(c) ==
    /\ AcceptCall(c)
    /\ c.tool \in Offered
    /\ TakesDestination(c)
    /\ CollectStarts(c.tool, Device, c.destination)
    /\ current' = c
    /\ pc' = "collecting"
    /\ UNCHANGED results

(* Mutant: an error without a status of its own falls through to success.  *)
StatusOf_DefaultSuccess(o) ==
    CASE o.error = "AuthorizationDeniedError" -> "tool_denied"
      [] o.error = "UnsupportedDeviceCapabilityError" -> "unsupported_capability"
      [] o.error \in {"FortiOSConnectionError", "TimeoutError"} -> "device_unavailable"
      [] OTHER -> "success"

StatusOf(o) ==
    CASE o.error = "none" -> "success"
      [] o.error = "AuthorizationDeniedError" -> "tool_denied"
      [] o.error = "UnsupportedDeviceCapabilityError" -> "unsupported_capability"
      [] o.error \in {"FortiOSConnectionError", "TimeoutError"} -> "device_unavailable"
      [] o.error \in {"InvalidToolArgumentsError", "ValueError"} -> "invalid_arguments"
      [] OTHER -> "collection_failed"

ToolAnswers ==
    /\ pc = "collecting"
    /\ CollectEnds
    /\ AnswerWith(current, StatusOf(observation'), observation'.evidence)
    /\ NextCall(remaining)
    /\ current' = NoCall
    /\ UNCHANGED <<baselineVars, step, snapshot, remaining, callIds, signatures, total, report>>

(* Ctrl-C while the provider or a driver handler is awaited.               *)
Interrupted ==
    /\ \/ pc = "generating" /\ UNCHANGED collectorVars
       \/ pc \in {"workflowCollecting", "collecting"} /\ CollectCancelled
    /\ pc' = "raised"
    /\ UNCHANGED <<baselineVars, runVars, report>>

-----------------------------------------------------------------------------
Init ==
    /\ registered = Names \ ForbiddenNames
    /\ call = NoCall /\ touched = <<>> /\ audit = <<>> /\ replies = <<>>
    /\ store = <<>>
    /\ observation = [evidence |-> 0, error |-> "none"]
    /\ pc = "workflow"
    /\ position = 1
    /\ incomplete = FALSE
    /\ baseline = NoBaseline
    /\ step = 0 /\ total = 0 /\ remaining = 0
    /\ snapshot = {}
    /\ current = NoCall
    /\ callIds = {} /\ signatures = {} /\ results = <<>>
    /\ report = NoReport

Workflow == WorkflowRefused \/ WorkflowStarts \/ WorkflowEnds \/ WorkflowReports

RuntimeStep ==
    \/ StartRun \/ RejectMismatch
    \/ BuildContext \/ ContextUnsafe \/ StepLimitReached
    \/ ToolAnswers

ProviderStep ==
    \/ ProviderFails
    \/ \E a \in Assessments : ProviderConcludes(a)
    \/ \E n \in 1..(MaxToolCallsPerStep + 1) : ProviderCallsTools(n)

CallStep ==
    \E c \in ToolCalls :
        \/ RejectDuplicateId(c) \/ RejectRepeatedCall(c)
        \/ RefuseTool(c) \/ RefuseArguments(c) \/ ExecuteTool(c)

Next == Workflow \/ RuntimeStep \/ ProviderStep \/ CallStep \/ Interrupted

Spec == Init /\ [][Next]_vars

(* The provider call and every driver handler end within their timeouts,   *)
(* and nothing else in the task blocks.                                    *)
Fairness == WF_vars(Workflow) /\ WF_vars(RuntimeStep) /\ WF_vars(ProviderStep)
              /\ WF_vars(CallStep)
FairSpec == Spec /\ Fairness

-----------------------------------------------------------------------------
(* Properties.                                                             *)

RunPhase == step > 0   \* a first context was built

Collected(id) ==
    /\ id \in EvidenceIds
    /\ \E k \in DOMAIN audit :
        audit[k] = [tool |-> store[id], device |-> Device, result |-> "success"]
    /\ \E k \in DOMAIN touched :
        touched[k].tool = store[id] /\ touched[k].device = Device

(* Nothing is cited on the provider's word alone: every identifier of an   *)
(* accepted assessment was in the context of the round that concluded, and *)
(* came from a driver call on this device with a SUCCESS event in the      *)
(* audit trail (AgentRuntime._validate_final, EvidenceCollector.collect).  *)
AssessmentIsGrounded ==
    report.state = "completed" => \A id \in report.cited : id \in snapshot /\ Collected(id)

(* Every envelope of the store, cited or not, has its driver call and its  *)
(* SUCCESS event: a result whose event the sink lost is never evidence.    *)
EvidenceIsAudited == \A id \in EvidenceIds : Collected(id)

(* An accepted assessment cannot bend the deterministic report: it keeps   *)
(* the evidence of CONFIRMED findings and a CONFIRMED diagnosis, and is    *)
(* stronger than the diagnosis only when it cites evidence that one of     *)
(* this run's own tool calls returned (AgentRuntime._validate_final).      *)
DeterministicReportStands ==
    report.state = "completed" =>
        /\ baseline.confirmed \subseteq report.cited
        /\ baseline.diagnosis # NoDiagnosis =>
            /\ baseline.diagnosis.strength = "confirmed" =>
                report.strength = "confirmed" /\ baseline.diagnosis.ids \subseteq report.cited
            /\ Rank[report.strength] > Rank[baseline.diagnosis.strength] =>
                \E i \in DOMAIN results :
                    results[i].status = "success" /\ results[i].evidence \in report.cited

(* The provider is told the truth about what its calls brought: successful *)
(* results and the evidence added since the deterministic report are the   *)
(* same things, one to one, and no two results answer the same call id     *)
(* (AgentRuntime._execute).                                                *)
ResultsMatchEvidence ==
    RunPhase =>
        /\ \A i \in DOMAIN results : results[i].status = "success" =>
            /\ results[i].evidence \in EvidenceIds \ baseline.ids
            /\ store[results[i].evidence] = results[i].tool
        /\ \A i \in DOMAIN results : results[i].status # "success" => results[i].evidence = 0
        /\ \A i, j \in DOMAIN results : i # j => results[i].id # results[j].id
        /\ \A i, j \in DOMAIN results :
            i # j /\ results[i].status = "success" => results[i].evidence # results[j].evidence
        /\ \A id \in EvidenceIds \ baseline.ids :
            \E i \in DOMAIN results : results[i].evidence = id

(* However the provider spreads its calls over responses, the run starts   *)
(* at most MaxToolCallsTotal handlers, and a response it has let in has    *)
(* that room for all of its calls (the limit tests of AgentRuntime.run).   *)
ToolBudget ==
    RunPhase =>
        /\ Len(touched) <= baseline.touches + total
        /\ total + remaining <= MaxToolCallsTotal

(* The device never runs the same tool with the same destination twice for *)
(* one run, whatever call identifiers the provider makes up.               *)
NoCallRunsTwice ==
    RunPhase =>
        \A i, j \in (baseline.touches + 1)..Len(touched) : i # j => touched[i] # touched[j]

(* The reader of a run sees what EvidenceBoundary promises.                *)
Boundary == INSTANCE EvidenceBoundary
    WITH Unset <- NoBaseline,
         observed <- EvidenceIds,
         conclusion <- baseline,
         verdict <- [strength |-> IF report.state = "completed" THEN report.strength ELSE "none",
                     cited |-> report.cited]

(* AgentRuntime, over any provider and any tool behaviour, implements the  *)
(* abstract evidence boundary (workflow, collect, run and _validate_final).*)
BoundaryKept == Boundary!Spec

(* A run ends: with a report, or with an exception out of run().           *)
RunEnds == <>(pc \in {"done", "raised"})
=============================================================================
