SPECIFICATION FairSpec
CONSTANTS
    Names = {"get_ha_history", "get_vlans", "ping", "shell"}
    ForbiddenNames = {"shell"}
    Devices = {"fw1"}
    Destinations = {"ip1", "ip2"}
    Capabilities = {"facts"}
    CapabilityOf <- MCCapabilityOf
    ClassOf <- MCClassOf
    AiVisible = {"get_vlans", "ping"}
    DestinationTools = {"ping"}
    Inventory <- MCInventory
    AllowedDiagnostics = {"ping"}
    HandlerErrors = {"FortiOSConnectionError"}
    MaxInvocations = 0
    NoDevice = NoDevice
    NoDestination = NoDestination
    NoCall = NoCall
    EvidenceOperations = {"get_ha_history", "get_vlans", "ping"}
    Device = "fw1"
    WorkflowTools <- MCRefused
    CallIds = {u1, u2, u3}
    ForgedIds = {9}
    ReportStrengths = {"probable", "confirmed"}
    MaxAgentSteps = 2
    MaxToolCallsTotal = 2
    MaxToolCallsPerStep = 2
    NoDiagnosis = NoDiagnosis
    NoBaseline = NoBaseline
PROPERTIES RunEnds
CHECK_DEADLOCK FALSE
