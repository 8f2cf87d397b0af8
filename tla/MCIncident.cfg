SPECIFICATION Spec
CONSTANTS
    c1 = c1
    c2 = c2
    Cells = {c1, c2}
    Lag = FALSE
    Interference = {}
    MaxIncidents = 2
    MaxBoots = 3
    MaxAbandoned = 1
CONSTRAINT FewDisturbances
SYMMETRY CellSymmetry
 
PROPERTY UntaintedOnlyVerified
 
