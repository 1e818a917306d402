CONSTANTS
    Users = {u1, u2}
    System = system
    Listeners = {}
    MaxPerMin = 2
    SlowModeDelay = 1
    Minute = 2
    MuteDurations = {0, 1}
    BanDurations = {}
    MaxTime = 2
    MaxMsgs = 2

SPECIFICATION Spec

INVARIANT MuteHonoured
