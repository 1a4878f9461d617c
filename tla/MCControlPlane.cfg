\* Starts, stops and crashes of three daemons around one socket, in every
\* order.
SPECIFICATION FairSpec
CONSTANTS
    Daemons = {d1, d2, d3}
    Callers = {c1, c2}
INVARIANTS
    TypeOK
    ServingIsReachable
    NoCallCutOff
PROPERTIES
    StartFailsOnlyBesideAnother
    StopEnds
