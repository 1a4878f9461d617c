\* Every interleaving of the agent's goroutines and callers with a window, a
\* snooze, failing aborts, unrecognised conflicts and crashes.
SPECIFICATION Spec
CONSTANTS
    Day = 4
    Windows <- MiddayWindow
    CommitPolicy = "regions"
    Clients = {c1}
    ErrorTexts = {"e1"}
    Durations = {0, 2}
    Horizon = 3
    Faults = {"abortFails", "conflictUnrecognised", "crash"}
INVARIANTS
    TypeOK
    SyncingIffInCycle
    RestingStateAgrees
    SnoozeReachesCycle
    NoWorkOverRebase
PROPERTIES
    ImplementsGate
