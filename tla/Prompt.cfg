SPECIFICATION Spec
CONSTANTS
    Histories = {"fresh", "legacy"}
    MaxRevision = 1
    MaxGeneration = 2
    MaxAttempts = 2
    MaxFaults = 1
    Faults = {"save", "clear", "write", "reopen", "stop", "crash"}
INVARIANTS TypeOK JournalAdmitsWrites DoneWasWritten LeaseGivenBack
PROPERTIES NoBlindRewrite ClearsOnlySentText DeliverySettles
CHECK_DEADLOCK FALSE
