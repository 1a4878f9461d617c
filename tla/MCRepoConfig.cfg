\* Every start over the small disks.  A start ends: the daemon runs, or it has
\* failed.
SPECIFICATION Spec
CONSTANTS
    Lists = {"pre_commit", "holdout_windows"}
    Home <- HomeDir
    Cwd <- WorkingDir
    Dirs <- SmallDirs
    Disks <- SmallDisks
    Trees <- SmallTrees
INVARIANTS
    TypeOK
    SelectsAsAsked
    IdentifiersHold
CHECK_DEADLOCK FALSE
