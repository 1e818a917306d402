CONSTANTS
    Users = {u1, u2}
    System = system
    Listeners = {}
    MaxPerMin = 2
    SlowModeDelay = 1
    Minute = 2
    MuteDurations = {0, 1}
    BanDurations = {0, 1}
    MaxTime = 2
    MaxMsgs = 1

SPECIFICATION FairSpec

PROPERTY MuteEventuallyLifted
