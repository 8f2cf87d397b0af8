SPECIFICATION FairSpec
CONSTANTS
    Clients = {"r0", "other"}
    JobOf <- TwoJobs
    Signalled = {"r0"}
    Ids = {1, 2, 3}
    None = None
    Faults = {"crash", "lost", "slow", "store"}
    MaxFaults = 1
INVARIANTS StagingOwned SuccessAnswered StrandedForCause
PROPERTY SignalHonoured
