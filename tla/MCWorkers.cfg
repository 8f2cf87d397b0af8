SPECIFICATION Spec
CONSTANTS
    Mi = 2
    MemoryUnit = 3
    Gres = {"gpu", "tpu", "none"}
    Profiles = {"gpu", "tpu"}
    Footprints <- OneSimulator
    SomeJobs <- SmallJobs
    SomeQueues <- SmallQueues
    Workers = {1, 2}
    Queue <- OneByOne
    Group <- OneGroup
    Pool <- TwoPools
    Shape <- SmallLarge
    MaxWorkers <- OneOfEach
    MinReady <- KeepCPU
    Lag = FALSE
    Faults = {"call", "fail", "delete", "claim", "recover", "cancel", "probe", "cluster"}
    MaxFaults = 1
  
PROPERTY NoBusyWorkerTakenDown
CHECK_DEADLOCK FALSE
