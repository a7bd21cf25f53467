SPECIFICATION Spec
CONSTANTS
    thisTask = thisTask
    thisClient = thisClient
    peerClient = peerClient
    thisOwner = thisOwner
    someAction = someAction
    nothing = nothing
    typing = typing
    merging = merging
    Tasks = {thisTask}
    Clients = {thisClient, peerClient}
    Owners = {thisOwner}
    Actions = {someAction}
    LeaseMs = 1
    None = nothing
    Task = thisTask
    Self = thisClient
    Owner = thisOwner
    Action = someAction
    Callers = {typing, merging}
    Sessions = {typing}
    MaxGeneration = 2
    MaxLeases = 2
    MaxFaults = 2
    Faults = {"peer", "removal", "renewal", "blip"}
    MaxHolds = 2
INVARIANTS TypeOK NoSessionAgainstPeer CleanWhenUndisturbed
PROPERTIES HoldersKeepGrant
CHECK_DEADLOCK FALSE
