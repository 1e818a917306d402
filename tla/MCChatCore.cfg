\* One user and one listener over a clock of 3 ticks and three messages:
\* the rate window rolls, slow mode rejects, GetMessages sees deletions.
CONSTANTS
    Users = {u1}
    System = system
    Listeners = {l1}
    MaxPerMin = 2
    SlowModeDelay = 1
    Minute = 2
    MuteDurations = {}
    BanDurations = {}
    MaxTime = 3
    MaxMsgs = 3

SPECIFICATION FairSpec

INVARIANT TypeOK
INVARIANT SlidingWindowCap
INVARIANT SlowModeSpacing
INVARIANT GetMessagesNewestFirst
PROPERTY EveryMessageDelivered
