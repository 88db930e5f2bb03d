SPECIFICATION Spec
CONSTANTS
    Names = {"get_routes", "get_vlans", "ping", "shell"}
    ForbiddenNames = {"shell"}
    Devices = {"fw1"}
    Destinations = {"ip1"}
    Capabilities = {"facts"}
    CapabilityOf <- MCCapabilityOf
    ClassOf <- MCClassOf
    AiVisible = {"get_routes", "get_vlans", "ping"}
    DestinationTools = {"ping"}
    Inventory <- MCInventory
    AllowedDiagnostics = {}
    HandlerErrors = {"FortiOSConnectionError"}
    MaxInvocations = 0
    NoDevice = NoDevice
    NoDestination = NoDestination
    NoCall = NoCall
    EvidenceOperations = {"get_routes", "get_vlans", "ping"}
    Device = "fw1"
    WorkflowTools <- MCHealth
    CallIds = {u1, u2, u3, u4}
    ForgedIds = {9}
    ReportStrengths = {"probable", "confirmed"}
    MaxAgentSteps = 3
    MaxToolCallsTotal = 3
    MaxToolCallsPerStep = 2
    NoDiagnosis = NoDiagnosis
    NoBaseline = NoBaseline
SYMMETRY CallIdSymmetry
INVARIANTS TypeOK AssessmentIsGrounded EvidenceIsAudited DeterministicReportStands ResultsMatchEvidence ToolBudget NoCallRunsTwice
PROPERTIES BoundaryKept
CHECK_DEADLOCK FALSE
