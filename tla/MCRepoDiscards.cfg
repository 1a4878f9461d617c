\* The operator may edit while a pull stands in a conflict.
SPECIFICATION Spec
CONSTANTS
    Paths = {inside, outside}
    Regions = {inside}
    Budget = 3
    Mishaps = {"editDuringRebase"}
PROPERTIES
    EditsSurvive
