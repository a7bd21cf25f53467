SPECIFICATION Spec
CONSTANTS
    Saves = {s1}
    MaxRemovals = 2
    Steps = 1
    Finalizers = 1
    MaxFaults = 1
    Faults = {"refused", "unsure", "crash"}
INVARIANTS TypeOK CleanupExcludesWriters AdmissionFollowsRemoval MergeAndRemovalAgree
PROPERTIES RemovalAnswered
CHECK_DEADLOCK FALSE
