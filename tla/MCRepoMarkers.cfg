\* The operator may run into a conflict between the check and the commit.
SPECIFICATION Spec
CONSTANTS
    Paths = {inside, outside}
    Regions = {inside}
    Budget = 3
    Mishaps = {"conflictAfterCheck"}
INVARIANTS
    NoMarkersCommitted
