\* Two days of clock over every small configuration.  A refused configuration
\* starts no agent, and the clock stops at its horizon.
SPECIFICATION Spec
CONSTANTS
    Day = 6
    Written <- SmallWritten
    Horizon = 12
INVARIANTS
    TypeOK
    LoadedIsResolved
    HoldsOutAsAsked
    NoBoundaryMissed
CHECK_DEADLOCK FALSE
