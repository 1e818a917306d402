\* Two followers of one streamer, default preferences, one notify call and
\* a per-user cap of 2.
CONSTANTS
    Users = {a, b}
    Prefs <- MCPrefs
    MaxNotifs = 2
    MaxCalls = 1
    MaxIds = 0
    MaxTime = 0
    TTL = 1
    Null = Null
SPECIFICATION Spec
INVARIANT
    EachFollowerNotifiedOnce
