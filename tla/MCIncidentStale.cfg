SPECIFICATION Spec
CONSTANTS
    c1 = c1
    Cells = {c1}
    Lag = TRUE
    Interference = {}
    MaxIncidents = 2
    MaxBoots = 2
    MaxAbandoned = 0
PROPERTY IncidentsNeverReopened
PROPERTY ManualRepairIsFinal
