SPECIFICATION Spec
CONSTANTS
    Tasks = {t1}
    Processes = {p1}
    ProcessOf <- MCOneProcess
    MaxChunks = 2
    MaxJobs = 1
    MaxFaults = 0
    MaxStops = 1
    None = None
INVARIANTS CancelledStoresNothing
CHECK_DEADLOCK FALSE
