SPECIFICATION Spec
CONSTANTS
    Processes = {p1, p2}
    Names = {n1}
    Profiles = {c1}
    Addresses = {a1, a2}
    Keys = {k1, k2}
    MaxJobs = 5
    MaxFaults = 1
    MaxCrashes = 1
    MaxRekeys = 1
    None = None
SYMMETRY Alike
CHECK_DEADLOCK FALSE
INVARIANTS OnlyReviewedKeys
