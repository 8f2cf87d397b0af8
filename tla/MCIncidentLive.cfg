SPECIFICATION FairSpec
CONSTANTS
    c1 = c1
    Cells = {c1}
    Lag = FALSE
    Interference = {"untaint", "lose"}
    MaxIncidents = 1
    MaxBoots = 2
    MaxAbandoned = 0
PROPERTY RecoveryEnds
PROPERTY TaintComesBack
