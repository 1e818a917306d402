\* Two users following one streamer with default preferences, one notify
\* call, two SendNotification IDs, a per-user cap of 1 so that the cap
\* drops notifications, and a clock of two ticks with a TTL of one so that
\* a cleanup removes some notifications and keeps others.
CONSTANTS
    Users = {a, b}
    Prefs <- MCPrefs
    MaxNotifs = 1
    MaxCalls = 1
    MaxIds = 1
    MaxTime = 1
    TTL = 1
    Null = Null
SPECIFICATION Spec
INVARIANT
    TypeOK
    FollowersMatchSubscriptions
    NotificationsShown
