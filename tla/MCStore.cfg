SPECIFICATION FairSpec
CONSTANTS
    Steps = {1, 2}
    Paths = {"shard", "opt"}
    Optimizer = "opt"
    Attempts = {"first", "second"}
    Persistent = {"first"}
    Bytes <- TwoBytes
    Expectations = {{"second"}, {"first", "second"}}
    ManifestJSON = "manifest.json"
    None = None
    Damaged = Damaged
    MaxFaults = 1
    MaxUint = 3
    MaxDimensions = 2
    MaxChunks = 3
    Atoi <- Spelled
    SomeTensors <- SmallTensors
    SomeManifests <- SmallManifests
INVARIANTS ReceiptsTrue CommittedComplete AcknowledgedIsCommitted
INVARIANTS RestoredIsCommitted NewestIsFound 
PROPERTY SaveCommits
CHECK_DEADLOCK FALSE
