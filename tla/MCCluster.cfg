SPECIFICATION Spec
CONSTANTS
    Specs <- GoodBadGood
    Lagging = {"cluster", "config"}
    Faults = {"claim", "jwt", "rest", "call", "accounting", "pod", "crash"}
    MaxFaults = 1
CONSTRAINT FewDisturbances
   
INVARIANT ConfigFirst
CHECK_DEADLOCK FALSE
