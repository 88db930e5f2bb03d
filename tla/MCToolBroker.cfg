SPECIFICATION BrokerSpec
CONSTANTS
    Names = {"get_device_facts", "get_vlans", "ping", "get_ha_history", "shell"}
    ForbiddenNames = {"shell"}
    Devices = {"fw1", "other"}
    Destinations = {"ip1"}
    Capabilities = {"facts", "vlans"}
    CapabilityOf <- MCCapabilityOf
    ClassOf <- MCClassOf
    AiVisible = {"get_device_facts", "get_vlans", "ping"}
    DestinationTools = {"ping"}
    Inventory <- MCInventory
    AllowedDiagnostics = {"ping"}
    HandlerErrors = {"FortiOSConnectionError"}
    MaxInvocations = 2
    NoDevice = NoDevice
    NoDestination = NoDestination
    NoCall = NoCall
INVARIANTS BrokerTypeOK AuditTellsWhatHappened HandlersAccounted OnlyAuthorizedTouches
CHECK_DEADLOCK FALSE
