SPECIFICATION Spec
CONSTANTS
    Tasks = {t1, t2}
    Processes = {p1}
    ProcessOf <- MCOneProcess
    MaxChunks = 2
    MaxJobs = 4
    MaxFaults = 1
    MaxStops = 1
    None = None
SYMMETRY TaskSymmetry
INVARIANTS TypeOK ActiveIsWhole AtomicallyActivated StoredTokenUsable NoTokenReused NoStrayRecords
PROPERTIES OneBundle
CHECK_DEADLOCK FALSE
