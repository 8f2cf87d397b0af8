SPECIFICATION Spec
CONSTANTS
    w1 = w1
    w2 = w2
    Workers = {w1, w2}
    Jobs = {1}
    Outside = Outside
    Preemptible = {1}
    MaxAbandoned = 1
SYMMETRY WorkerSymmetry
INVARIANT RebootBarrier
INVARIANT OneCallPerLostSave
PROPERTY RequeueAfterNotice
PROPERTY RecordedIsFinal
CHECK_DEADLOCK FALSE
