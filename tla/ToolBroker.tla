----------------------------- MODULE ToolBroker -----------------------------
(***************************************************************************)
(* The Tool Broker: the only way from a caller (an investigator, the agent *)
(* loop) to a network driver.  A caller names a tool and gives arguments;  *)
(* the Broker refuses the call or starts the driver handler, and records   *)
(* one audit event for the decision when the invocation ends.              *)
(*                                                                         *)
(* Only what the decisions look at is kept: names, capabilities, operation *)
(* classes, which arguments were given.  Payloads, durations and redaction *)
(* of the output are left out.                                             *)
(***************************************************************************)
EXTENDS Naturals, Sequences, FiniteSets

CONSTANTS
    Names,              \* every tool name a caller may utter
    ForbiddenNames,     \* generic tools that may never be registered
    Devices,            \* every device name a caller may utter
    Destinations,       \* values of the "destination" argument
    Capabilities,       \* device capabilities
    CapabilityOf,       \* the capability each tool needs
    ClassOf,            \* the operation class of each tool
    AiVisible,          \* tools promoted to AI providers
    DestinationTools,   \* tools whose required arguments hold "destination"
    Inventory,          \* inventory device -> its capabilities
    AllowedDiagnostics, \* diagnostics the policy allows by name
    HandlerErrors,      \* exception types a driver handler may raise
    MaxInvocations,     \* bound on the invocations of one behaviour
    NoDevice, NoDestination, NoCall

OperationClasses == {"read_only", "diagnostic", "configuration", "destructive"}
SinkError == "HistoryPersistenceError"
RefusalErrors == {"ToolNotAllowedError", "InvalidToolArgumentsError",
                  "UnsupportedDeviceCapabilityError", "AuthorizationDeniedError"}
BrokerErrors == RefusalErrors \cup HandlerErrors
                  \cup {SinkError, "InvalidToolResultError", "CancelledError"}
AuditResults == {"success", "denied", "failure"}

Arguments == [device : Devices \cup {NoDevice},
              destination : Destinations \cup {NoDestination},
              unexpected : BOOLEAN]
Calls == [tool : Names, device : DOMAIN Inventory,
          destination : Destinations \cup {NoDestination}]
AuditEvents == [tool : Names, device : Devices \cup {NoDevice}, result : AuditResults]
Replies == [tool : Names, outcome : BrokerErrors \cup {"success"}, recorded : BOOLEAN]

ASSUME BrokerAssumption ==
    /\ CapabilityOf \in [Names -> Capabilities]
    /\ ClassOf \in [Names -> OperationClasses]
    /\ ForbiddenNames \subseteq Names
    /\ AiVisible \subseteq Names
    /\ DestinationTools \subseteq Names
    /\ AllowedDiagnostics \subseteq Names
    /\ DOMAIN Inventory \subseteq Devices
    /\ Inventory \in [DOMAIN Inventory -> SUBSET Capabilities]
    /\ NoDevice \notin Devices
    /\ NoDestination \notin Destinations
    /\ NoCall \notin Calls
    /\ "success" \notin BrokerErrors
    /\ HandlerErrors \cap (RefusalErrors \cup {SinkError, "CancelledError"}) = {}
    /\ MaxInvocations \in Nat

VARIABLES
    registered,  \* the names in the Broker's tool table
    call,        \* the invocation whose handler is awaited, or NoCall
    touched,     \* history: the calls whose driver handler was started
    audit,       \* the events accepted by the audit sink, oldest first
    replies      \* history: how every finished invocation ended

brokerVars == <<registered, call, touched, audit, replies>>

BrokerTypeOK ==
    /\ registered \subseteq Names
    /\ call \in Calls \cup {NoCall}
    /\ touched \in Seq(Calls)
    /\ audit \in Seq(AuditEvents)
    /\ replies \in Seq(Replies)

-----------------------------------------------------------------------------
(* Policy, tool table and argument checks.                                 *)

Authorized(tool) ==
    \/ ClassOf[tool] = "read_only"
    \/ ClassOf[tool] = "diagnostic" /\ tool \in AllowedDiagnostics

ToolsForDevice(device) ==
    {tool \in registered : CapabilityOf[tool] \in Inventory[device] /\ Authorized(tool)}

AiToolsForDevice(device) == ToolsForDevice(device) \cap AiVisible

ArgumentsMatch(tool, args) ==
    /\ ~args.unexpected
    /\ (args.destination # NoDestination) <=> (tool \in DestinationTools)

(* Mutant: the policy is left to the list of offered tools.                *)
Refusal_UnauthorizedRuns(tool, args) ==
    IF tool \notin registered THEN "ToolNotAllowedError"
    ELSE IF args.device \notin DOMAIN Inventory \/ ~ArgumentsMatch(tool, args)
         THEN "InvalidToolArgumentsError"
    ELSE IF CapabilityOf[tool] \notin Inventory[args.device]
         THEN "UnsupportedDeviceCapabilityError"
    ELSE "none"

(* The refusal of an invocation, in the order invoke() tests for one.      *)
Refusal(tool, args) ==
    IF tool \notin registered THEN "ToolNotAllowedError"
    ELSE IF \/ args.device = NoDevice
            \/ ~ArgumentsMatch(tool, args)
            \/ args.device \notin DOMAIN Inventory THEN "InvalidToolArgumentsError"
    ELSE IF CapabilityOf[tool] \notin Inventory[args.device]
         THEN "UnsupportedDeviceCapabilityError"
    ELSE IF ~Authorized(tool) THEN "AuthorizationDeniedError"
    ELSE "none"

-----------------------------------------------------------------------------
(* Mutant: the event carries the error code in place of the result category. *)
Settle_RawOutcome(tool, device, result, outcome) ==
    /\ audit' = Append(audit, [tool |-> tool, device |-> device, result |-> outcome])
    /\ replies' = Append(replies,
                         [tool |-> tool, outcome |-> outcome, recorded |-> TRUE])

(* An invocation ends by recording one event; when the sink raises, its    *)
(* error replaces the result and the event is lost.                        *)
Settle(tool, device, result, outcome) ==
    \/ /\ audit' = Append(audit, [tool |-> tool, device |-> device, result |-> result])
       /\ replies' = Append(replies,
                            [tool |-> tool, outcome |-> outcome, recorded |-> TRUE])
    \/ /\ UNCHANGED audit
       /\ replies' = Append(replies,
                            [tool |-> tool, outcome |-> SinkError, recorded |-> FALSE])

Register(tool) ==
    /\ tool \notin ForbiddenNames \cup registered
    /\ registered' = registered \cup {tool}
    /\ UNCHANGED <<call, touched, audit, replies>>

(* Mutant: a refusal is recorded like a failed execution.                  *)
Deny_AsFailure(tool, args) ==
    /\ call = NoCall
    /\ Refusal(tool, args) # "none"
    /\ Settle(tool, args.device, "failure", Refusal(tool, args))
    /\ UNCHANGED <<registered, call, touched>>

Deny(tool, args) ==
    /\ call = NoCall
    /\ Refusal(tool, args) # "none"
    /\ Settle(tool, args.device, "denied", Refusal(tool, args))
    /\ UNCHANGED <<registered, call, touched>>

StartHandler(tool, args) ==
    /\ call = NoCall
    /\ Refusal(tool, args) = "none"
    /\ call' = [tool |-> tool, device |-> args.device, destination |-> args.destination]
    /\ touched' = Append(touched, call')
    /\ UNCHANGED <<registered, audit, replies>>

HandlerReturns ==
    /\ call # NoCall
    /\ Settle(call.tool, call.device, "success", "success")
    /\ call' = NoCall
    /\ UNCHANGED <<registered, touched>>

(* Mutant: the SUCCESS event is written on the failure path too.           *)
HandlerRaises_AsSuccess(error) ==
    /\ call # NoCall
    /\ Settle(call.tool, call.device, "success", error)
    /\ call' = NoCall
    /\ UNCHANGED <<registered, touched>>

(* The handler raises, or it returns a result for another device or tool.  *)
HandlerRaises(error) ==
    /\ call # NoCall
    /\ Settle(call.tool, call.device, "failure", error)
    /\ call' = NoCall
    /\ UNCHANGED <<registered, touched>>

(* Cancelling the task that awaits the handler: CancelledError is not an   *)
(* Exception, so invoke() records nothing on the way out.                  *)
HandlerCancelled ==
    /\ call # NoCall
    /\ replies' = Append(replies, [tool |-> call.tool, outcome |-> "CancelledError",
                                   recorded |-> FALSE])
    /\ call' = NoCall
    /\ UNCHANGED <<registered, touched, audit>>

HandlerEnds ==
    \/ HandlerReturns
    \/ \E error \in HandlerErrors \cup {"InvalidToolResultError"} : HandlerRaises(error)

Outcome == replies'[Len(replies')].outcome   \* of the invocation this step ends

-----------------------------------------------------------------------------
BrokerInit ==
    /\ registered = {}
    /\ call = NoCall
    /\ touched = <<>>
    /\ audit = <<>>
    /\ replies = <<>>

BrokerNext ==
    \/ \E tool \in Names : Register(tool)
    \/ /\ Len(replies) < MaxInvocations
       /\ \E tool \in Names, args \in Arguments : Deny(tool, args) \/ StartHandler(tool, args)
    \/ HandlerEnds
    \/ HandlerCancelled

BrokerSpec == BrokerInit /\ [][BrokerNext]_brokerVars

-----------------------------------------------------------------------------
(* Properties.                                                             *)

(* The invocations whose event the sink accepted, and the place of the     *)
(* event of one of them in the trail.                                      *)
Recorded == {i \in DOMAIN replies : replies[i].recorded}
EventOf(i) == Cardinality({k \in Recorded : k <= i})

EndedWith(outcome) == {i \in DOMAIN replies : replies[i].outcome = outcome}
Executions == {i \in DOMAIN audit : audit[i].result # "denied"}

(* The audit trail tells, in order and one event each, how the invocations *)
(* ended whose event the sink accepted: a success is never recorded for a  *)
(* refused or failed call, nor the reverse (ToolBroker.invoke).            *)
AuditTellsWhatHappened ==
    /\ Len(audit) = Cardinality(Recorded)
    /\ \A i \in Recorded :
        /\ audit[EventOf(i)].tool = replies[i].tool
        /\ audit[EventOf(i)].result = "success" <=> replies[i].outcome = "success"
        /\ audit[EventOf(i)].result = "denied" <=> replies[i].outcome \in RefusalErrors

(* Every driver handler started is accounted for: it is in flight, or its  *)
(* end is in the audit trail as success or failure, or the task was        *)
(* cancelled, or the sink lost the event; and the trail never reports an   *)
(* execution that did not happen (ToolBroker.invoke).                      *)
HandlersAccounted ==
    LET explained == Cardinality(Executions) + Cardinality(EndedWith("CancelledError"))
                       + (IF call = NoCall THEN 0 ELSE 1)
    IN Len(touched) \in explained .. explained + Cardinality(EndedWith(SinkError))

(* No driver is reached past the capability, policy and inventory checks,  *)
(* whatever is registered before or after the call (ToolBroker.invoke).    *)
OnlyAuthorizedTouches ==
    \A i \in DOMAIN touched :
        /\ touched[i].tool \in ToolsForDevice(touched[i].device) \ ForbiddenNames
        /\ touched[i].destination # NoDestination <=> touched[i].tool \in DestinationTools
=============================================================================
