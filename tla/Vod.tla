-------------------------------- MODULE Vod --------------------------------
(***************************************************************************)
(* VODService of src/unnamed/part_008 (lines 570-1123) with the recording  *)
(* handlers of src/pkg/service/streaming_api.go.                           *)
(*                                                                         *)
(* Every service method holds vs.mu for its whole body: one action each.   *)
(* Two things run across several lock acquisitions:                        *)
(*  - processRecording, started by StopRecording: it looks the recording   *)
(*    up under the lock, sleeps unlocked, and then writes through the      *)
(*    pointer it kept, whether or not the recording is still in the map;   *)
(*  - handleStartRecording: StartRecording, then the encoder start, then   *)
(*    on failure DeleteRecording.                                          *)
(* A recording object outlives its map entry, so objs holds every object  *)
(* ever created and inMap the ids the map holds.  Durations are ticks of  *)
(* Unit time units.  The running average divides and truncates as the     *)
(* code's time.Duration division does, but at whole ticks where the code  *)
(* truncates at nanoseconds.                                              *)
(***************************************************************************)
EXTENDS Integers, Sequences, SequencesExt, FiniteSets

CONSTANTS
    Ids,            \* recording ids (time-stamped, never reused)
    Streamers,      \* streamer identities
    Sessions,       \* playback session ids (time-stamped, never reused)
    Durations,      \* durations StopRecording may be given, in ticks
    AutoPublish,    \* config.AutoPublish
    Timeout,        \* config.SessionTimeout, in ticks
    Unit,           \* time units per tick
    MaxTime         \* bound: the clock

VARIABLES
    now,
    objs,       \* recording objects: id -> [streamer, status, public, dur, views, avg]
    inMap,      \* ids held by vs.recordings
    created,    \* ids in the order StartRecording created them
    index,      \* vs.streamerRecordings: streamer -> id list
    procs,      \* processRecording goroutines: id -> "lookup" | "sleep"
    starting,   \* handleStartRecording requests waiting on the encoder
    sessions,   \* vs.playbackSessions: id -> [rec, start, hb, pos, watch, completed]
    used        \* session ids handed out so far

vars == <<now, objs, inMap, created, index, procs, starting, sessions, used>>

MaxViews == Cardinality(Sessions)

\* Positions UpdatePlaybackSession may report, in ticks.
Positions == {0} \cup Durations

-----------------------------------------------------------------------------
Init ==
    /\ now = 0
    /\ objs = [i \in {} |-> {}]
    /\ inMap = {}
    /\ created = <<>>
    /\ index = [s \in Streamers |-> <<>>]
    /\ procs = [i \in {} |-> "lookup"]
    /\ starting = {}
    /\ sessions = [p \in {} |-> {}]
    /\ used = {}

Tick ==
    /\ now < MaxTime
    /\ now' = now + 1
    /\ UNCHANGED <<objs, inMap, created, index, procs, starting, sessions, used>>

\* handleStartRecording, first step: StartRecording stores a new recording
\* and indexes it under its streamer.
StartRecording(i, s) ==
    /\ i \notin ToSet(created)
    /\ objs' = objs @@ (i :> [streamer |-> s, status |-> "recording",
                              public |-> AutoPublish, dur |-> 0,
                              views |-> 0, avg |-> 0])
    /\ inMap' = inMap \cup {i}
    /\ created' = Append(created, i)
    /\ index' = [index EXCEPT ![s] = Append(@, i)]
    /\ starting' = starting \cup {i}
    /\ UNCHANGED <<now, procs, sessions, used>>

\* handleStartRecording, second step, the encoder started: the metadata
\* update is called with nothing to update.
EgressStarted(i) ==
    /\ i \in starting
    /\ starting' = starting \ {i}
    /\ UNCHANGED <<now, objs, inMap, created, index, procs, sessions, used>>

\* Seeded fault: the index loses its oldest entry instead of the deleted id.
DeleteRecordingIndexTail(i) ==
    /\ i \in inMap
    /\ objs' = [objs EXCEPT ![i].status = "deleted"]
    /\ index' = [index EXCEPT ![objs[i].streamer] = Tail(@)]
    /\ inMap' = inMap \ {i}

\* DeleteRecording: status deleted on the object, out of the index (first
\* match) and out of the map.  A missing id is an error and changes nothing.
DeleteRecording(i) ==
    /\ i \in inMap
    /\ objs' = [objs EXCEPT ![i].status = "deleted"]
    /\ index' = [index EXCEPT ![objs[i].streamer] = RemoveFirst(@, i)]
    /\ inMap' = inMap \ {i}

\* handleStartRecording, second step, the encoder failed: the recording is
\* deleted (the error, if it is already gone, is ignored).
EgressFailed(i) ==
    /\ i \in starting
    /\ starting' = starting \ {i}
    /\ IF i \in inMap THEN DeleteRecording(i) ELSE UNCHANGED <<objs, index, inMap>>
    /\ UNCHANGED <<now, created, procs, sessions, used>>

\* A caller's DeleteRecording; an id not in the map is "recording not
\* found" and changes nothing.
Delete(i) ==
    \/ /\ DeleteRecording(i)
       /\ UNCHANGED <<now, created, procs, starting, sessions, used>>
    \/ /\ i \notin inMap
       /\ UNCHANGED vars

\* Seeded fault: StopRecording without its status check.
StopRecordingAnyStatus(i, d) ==
    /\ i \in inMap
    /\ i \notin DOMAIN procs
    /\ objs' = [objs EXCEPT ![i].dur = d, ![i].status = "processing"]
    /\ procs' = procs @@ (i :> "lookup")
    /\ UNCHANGED <<now, inMap, created, index, starting, sessions, used>>

\* StopRecording: only a recording in "recording" status; it takes the
\* duration and starts processRecording.  handleStopRecording first asks
\* the encoder to stop and ignores a failure, and always passes 0.
StopRecording(i, d) ==
    /\ i \in inMap
    /\ objs[i].status = "recording"
    /\ objs' = [objs EXCEPT ![i].dur = d, ![i].status = "processing"]
    /\ procs' = procs @@ (i :> "lookup")
    /\ UNCHANGED <<now, inMap, created, index, starting, sessions, used>>

\* Seeded fault: the existence check is inverted.
ProcessLookupInverted(i) ==
    /\ i \in DOMAIN procs /\ procs[i] = "lookup"
    /\ procs' = IF i \notin inMap THEN [procs EXCEPT ![i] = "sleep"]
                ELSE [x \in DOMAIN procs \ {i} |-> procs[x]]
    /\ UNCHANGED <<now, objs, inMap, created, index, starting, sessions, used>>

\* processRecording, under the lock: the lookup.  A recording gone from the
\* map ends the goroutine; otherwise it keeps the pointer and sleeps.
ProcessLookup(i) ==
    /\ i \in DOMAIN procs /\ procs[i] = "lookup"
    /\ procs' = IF i \in inMap THEN [procs EXCEPT ![i] = "sleep"]
                ELSE [x \in DOMAIN procs \ {i} |-> procs[x]]
    /\ UNCHANGED <<now, objs, inMap, created, index, starting, sessions, used>>

\* processRecording after the sleep, under the lock again: the kept object
\* becomes ready, in the map or not (thumbnail and video URL are data; under
\* AutoPublish only PublishedAt is stamped).
ProcessFinish(i) ==
    /\ i \in DOMAIN procs /\ procs[i] = "sleep"
    /\ objs' = [objs EXCEPT ![i].status = "ready"]
    /\ procs' = [x \in DOMAIN procs \ {i} |-> procs[x]]
    /\ UNCHANGED <<now, inMap, created, index, starting, sessions, used>>

PublishRecording(i) ==
    /\ i \in inMap
    /\ objs[i].status = "ready"
    /\ objs' = [objs EXCEPT ![i].public = TRUE]
    /\ UNCHANGED <<now, inMap, created, index, procs, starting, sessions, used>>

\* StartPlaybackSession: a ready, public recording gets a session and a view.
StartPlaybackSession(p, i) ==
    /\ p \notin used
    /\ i \in inMap
    /\ objs[i].status = "ready"
    /\ objs[i].public
    /\ sessions' = sessions @@ (p :> [rec |-> i, start |-> now, hb |-> now,
                                      pos |-> 0, watch |-> 0, completed |-> FALSE])
    /\ used' = used \cup {p}
    /\ objs' = [objs EXCEPT ![i].views = @ + 1]
    /\ UNCHANGED <<now, inMap, created, index, procs, starting>>

\* UpdatePlaybackSession: heartbeat, position, watch time since the start,
\* and Completed latched once the position reaches 95% of a known duration.
UpdatePlaybackSession(p, pos) ==
    LET i == sessions[p].rec
        done == i \in inMap /\ objs[i].dur > 0 /\ 100 * pos >= 95 * objs[i].dur
    IN /\ p \in DOMAIN sessions
       /\ sessions' = [sessions EXCEPT ![p].hb = now, ![p].pos = pos,
                                       ![p].watch = Unit * (now - sessions[p].start),
                                       ![p].completed = @ \/ done]
       /\ UNCHANGED <<now, objs, inMap, created, index, procs, starting, used>>

\* Seeded fault: the running total is kept instead of the running mean.
AverageWithoutDivision(avg, views, w) == avg + w

\* EndPlaybackSession's estimator: the old average weighted by ViewCount - 1.
RunningAverage(avg, views, w) == (avg * (views - 1) + w) \div views

\* EndPlaybackSession: a recording still in the map folds the session's
\* watch time into its average; the session is removed.
EndPlaybackSession(p) ==
    LET i == sessions[p].rec
        w == sessions[p].watch
    IN /\ p \in DOMAIN sessions
       /\ objs' = IF i \in inMap /\ objs[i].views > 0
                  THEN [objs EXCEPT ![i].avg = RunningAverage(@, objs[i].views, w)]
                  ELSE objs
       /\ sessions' = [x \in DOMAIN sessions \ {p} |-> sessions[x]]
       /\ UNCHANGED <<now, inMap, created, index, procs, starting, used>>

\* CleanupStaleSessions: sessions without a heartbeat for over the timeout.
CleanupStaleSessions ==
    LET stale == {p \in DOMAIN sessions : now - sessions[p].hb > Timeout}
    IN /\ stale # {}
       /\ sessions' = [x \in DOMAIN sessions \ stale |-> sessions[x]]
       /\ UNCHANGED <<now, objs, inMap, created, index, procs, starting, used>>

\* CleanupExpiredRecordings: ExpiresAt is RecordedAt plus the retention, so
\* the expired recordings are the k oldest still in the map.  They are marked
\* deleted and leave the map; the streamer index keeps their ids.
CleanupExpiredRecordings(k) ==
    LET gone == {created[j] : j \in 1..k} \cap inMap
    IN /\ gone # {}
       /\ objs' = [i \in DOMAIN objs |->
                     IF i \in gone THEN [objs[i] EXCEPT !.status = "deleted"]
                     ELSE objs[i]]
       /\ inMap' = inMap \ gone
       /\ UNCHANGED <<now, created, index, procs, starting, sessions, used>>

\* ListRecordingsByStreamer, under vs.mu.RLock: ids offset+1 .. offset+limit
\* of the streamer's index, skipping those no longer in vs.recordings.
ListRecordingsByStreamer(st, limit, offset) ==
    LET ids == index[st]
        end == IF offset + limit > Len(ids) THEN Len(ids) ELSE offset + limit
    IN IF offset >= Len(ids) THEN <<>>
       ELSE SelectSeq(SubSeq(ids, offset + 1, end), LAMBDA i : i \in inMap)

Next ==
    \/ Tick
    \/ \E i \in Ids, s \in Streamers : StartRecording(i, s)
    \/ \E i \in Ids :
          \/ EgressStarted(i) \/ EgressFailed(i) \/ Delete(i)
          \/ \E d \in Durations : StopRecording(i, d)
          \/ ProcessLookup(i) \/ ProcessFinish(i) \/ PublishRecording(i)
    \/ \E p \in Sessions, i \in Ids : StartPlaybackSession(p, i)
    \/ \E p \in Sessions :
          \/ \E pos \in Positions : UpdatePlaybackSession(p, pos)
          \/ EndPlaybackSession(p)
    \/ CleanupStaleSessions
    \/ \E k \in 1..Len(created) : CleanupExpiredRecordings(k)

Spec == Init /\ [][Next]_vars

\* The Go scheduler runs every processRecording goroutine and its sleep
\* ends: both of its steps are weakly fair.  Nothing else is assumed.
FairSpec ==
    /\ Spec
    /\ \A i \in Ids : WF_vars(ProcessLookup(i)) /\ WF_vars(ProcessFinish(i))

-----------------------------------------------------------------------------
TypeOK ==
    /\ now \in 0..MaxTime
    /\ DOMAIN objs = ToSet(created) /\ inMap \subseteq DOMAIN objs
    /\ \A i \in DOMAIN objs :
          objs[i] \in [streamer : Streamers, public : BOOLEAN,
                       status : {"recording", "processing", "ready", "deleted"},
                       dur : {0} \cup Durations, views : 0..MaxViews,
                       avg : 0..Unit * MaxTime]
    /\ index \in [Streamers -> Seq(Ids)]
    /\ DOMAIN procs \subseteq DOMAIN objs /\ starting \subseteq DOMAIN objs
    /\ DOMAIN sessions \subseteq used /\ used \subseteq Sessions
    /\ \A p \in DOMAIN sessions :
          /\ sessions[p].rec \in DOMAIN objs
          /\ sessions[p].watch \in 0..Unit * MaxTime
          /\ sessions[p].completed \in BOOLEAN

\* handleListRecordings for a streamer: the first page of 50 (the "" and
\* "ALL" branch calls ListAllRecordings, which VODService does not define).
HandleListRecordings(st) == ListRecordingsByStreamer(st, 50, 0)

\* handleListRecordings, the only reader of streamerRecordings, pages
\* through a streamer's index with limit 50 and offset 0 and skips ids gone
\* from vs.recordings.  Deletes, failed-egress rollbacks and expiry sweeps
\* (which leave ids in the index) all interleave; the page is exactly the
\* streamer's recordings still in the map, oldest first.
ListingShowsLiveRecordings ==
    \A st \in Streamers :
        HandleListRecordings(st) =
            SelectSeq(created, LAMBDA i : i \in inMap /\ objs[i].streamer = st)

ProcessingEventuallyReady ==
    \A i \in Ids :
        (i \in inMap /\ objs[i].status = "processing")
            ~> (i \notin inMap \/ objs[i].status = "ready")

\* The recording lifecycle as callers see it through the map: a recording
\* not in the map is deleted if it was ever created, whatever a sleeping
\* processRecording later writes to its object.
VL == INSTANCE VodLifecycle
        WITH status <- [i \in Ids |->
                          IF i \in inMap THEN objs[i].status
                          ELSE IF i \in ToSet(created) THEN "deleted" ELSE "none"],
             public <- [i \in Ids |-> i \in inMap /\ objs[i].public]

\* Every behaviour of the service and its handlers is a behaviour of the
\* lifecycle of spec section 4.D: forward moves only, publish only when
\* ready, deletion final.
LifecycleRefined == VL!Spec
=============================================================================
