\* Two entries, of one bot or two, under one policy or two.
SPECIFICATION FairSpec
CONSTANTS
    Entries = {first, second}
    Bots = {oneBot, otherBot}
    Policies = {strict, open}
    MaxPosts = 1
    MaxDials = 2
CHECK_DEADLOCK FALSE
INVARIANTS
    TypeOK
    CommandsRunOnce
    NobodyListensAfterExit
PROPERTIES
    ExitFollows
    HearsAgain
