\* The agent's verdict against the wall clock on the day the clocks change.
SPECIFICATION Spec
CONSTANTS
    Day = 6
    Windows <- AfternoonWindow
    Jump = 1
    Skip = 1
INVARIANT WindowsFollowWallClock
CHECK_DEADLOCK FALSE
