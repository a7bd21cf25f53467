SPECIFICATION Spec
CONSTANTS
    Histories = {"fresh"}
    MaxRevision = 1
    MaxGeneration = 1
    MaxAttempts = 1
    MaxFaults = 1
    Faults = {"write"}
INVARIANTS EditsAreStorable
CHECK_DEADLOCK FALSE
