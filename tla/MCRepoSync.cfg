\* A file inside the regions and one outside, under each policy.
SPECIFICATION FairSpec
CONSTANTS
    Paths = {inside, outside}
    Regions = {inside}
    Budget = 3
    Mishaps = {}
INVARIANTS
    TypeOK
    PolicyRespected
    NothingLost
    NoMarkersCommitted
PROPERTIES
    EditsSurvive
    Converges
    StuckIsTold
