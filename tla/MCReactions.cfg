CONSTANTS
    Users = {"u1", "u2"}
    Rooms = {r1}
    Types <- MCTypes
    Req = {"q1", "q2"}
    Readers = {"s1"}
    ReqUser <- MCSerialUser
    Second = 2
    Minute = 3
    MaxPerSecond = 2
    MaxPerMinute = 2
    ReactionTTL = 2
    MaxRecent = 2
    TopN = 1
    MaxTime = 3
    MaxInst = 2
    MaxSends = 3

SPECIFICATION Spec

INVARIANT TypeOK
INVARIANT PerSecondSpacing
INVARIANT MinuteWindowCap
INVARIANT LogAndIndexAgree
INVARIANT RecentIsNewestFirst
INVARIANT RecentListedNewestFirst
PROPERTY LeaderboardCorrect
