\* Under the fairness of the goroutine scheduler and of time alone; git may hang
\* whether or not it is killed.  Aborts that return work, and conflicts are
\* recognised.  Two different errors, so that one can replace the other; no
\* snooze of no length.
SPECIFICATION FairSpec
CONSTANTS
    Day = 3
    Windows <- MiddayWindow
    CommitPolicy = "all"
    Clients = {c1}
    ErrorTexts = {"e1", "e2"}
    Durations = {1}
    Horizon = 2
    Faults = {}
INVARIANTS
    RebaseIsAborted
    StandingErrorTold
PROPERTIES
    RequestsDroppedOnlyByPauses
    
    HoldoutEnds
    SnoozeEnds
    RecoveryAnnounced
