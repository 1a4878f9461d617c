\* An agent and a caller at three sinks, with every request failing or not.
\* After the last alert nothing is left to do.
SPECIFICATION FairSpec
CONSTANTS
    Agents = {a1}
    Callers = {c}
    Details = {x, y}
    None = none
    Other = other
    LogBot = log
    bot = bot
    Bots = {bot}
    Users = {u1, u2}
    u1 = u1
    u2 = u2
    Sinks <- SmallSinks
    MaxAlerts = 4
INVARIANTS
    TypeOK
    LastWordStands
PROPERTY AlertsEnd
CHECK_DEADLOCK FALSE
