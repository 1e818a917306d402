\* Two recordings of one streamer, two playback sessions, a known duration
\* of 2 ticks (and the handler's 0 is not needed: a zero duration only turns
\* the completion check off), a session timeout shorter than a tick (a
\* session one tick past its heartbeat is stale) over a clock of 1.
CONSTANTS
    Ids = {r1, r2}
    Streamers = {s1}
    Sessions = {p1, p2}
    Durations <- MCDurations
    AutoPublish = FALSE
    Timeout = 0
    Unit = 2
    MaxTime = 1
SPECIFICATION FairSpec
INVARIANTS
    TypeOK
    
    ListingShowsLiveRecordings
PROPERTY
    LifecycleRefined
    ProcessingEventuallyReady
