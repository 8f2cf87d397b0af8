SPECIFICATION FairSpec
CONSTANTS
    Mi = 2
    MemoryUnit = 3
    Gres = {"gpu", "tpu", "none"}
    Profiles = {"gpu", "tpu"}
    Footprints <- OneSimulator
    SomeJobs = {}
    SomeQueues = {}
    Workers = {1, 2}
    Queue <- OneByOne
    Group <- ApartGroup
    Pool <- SharedPool
    Shape <- SmallLarge
    MaxWorkers <- OneWorker
    MinReady <- NoneReady
    Lag = FALSE
    Faults = {"call", "cluster", "probe"}
    MaxFaults = 1
PROPERTIES DemandServed 
CHECK_DEADLOCK FALSE
