------------------------------ MODULE Analytics ------------------------------
(***************************************************************************)
(* AnalyticsService of src/unnamed/part_009, for one room name.            *)
(*                                                                         *)
(* Every operation runs under as.mu, so each is one atomic action.  The    *)
(* sampling goroutine that StartStreamAnalytics starts (updateAnalyticsLoop)*)
(* is a process of its own: it finds the record by room name on every tick *)
(* and stops when the name is gone or its context is cancelled.  Retention *)
(* is left to nondeterminism: CleanupOldAnalytics may drop any ended       *)
(* record.  The derived metrics (averages, rates, retention) and the       *)
(* per-dimension counters are left out: no property reads them.           *)
(***************************************************************************)
EXTENDS Integers, Sequences, FiniteSets

CONSTANTS
    Viewers,        \* viewer identities
    MaxTimeline,    \* config.MaxTimelinePoints
    MaxJoins,       \* bound: RecordViewerJoin calls per record
    MaxLoops,       \* bound: sampling goroutines alive at once
    MaxSamples      \* bound: timeline samples taken per record

ASSUME {MaxTimeline, MaxJoins, MaxLoops, MaxSamples} \subseteq Nat \ {0}

VARIABLES
    exists,     \* as.streamAnalytics holds the room
    ended,      \* EndTime is set
    a,          \* the counters of the record: cur, total, uniq, peak
    timeline,   \* ViewerTimeline values
    sessions,   \* viewerSessions[room]: viewer -> open (LeftAt == nil)
    loops,      \* number of live updateAnalyticsLoop goroutines of the room
    samples     \* ghost: every value sampled into this record's timeline

vars == <<exists, ended, a, timeline, sessions, loops,
          samples>>

Zero == [cur |-> 0, total |-> 0, uniq |-> 0, peak |-> 0]

-----------------------------------------------------------------------------
\* RecordViewerJoin's counter updates.
JoinCounters(c, isUnique) ==
    LET cur == c.cur + 1
    IN [c EXCEPT !.cur = cur, !.total = @ + 1,
                 !.uniq = IF isUnique THEN @ + 1 ELSE @,
                 !.peak = IF cur > @ THEN cur ELSE @]

\* Seeded fault: the decrement is not clamped at zero.
LeaveCountersUnclamped(c) == [c EXCEPT !.cur = @ - 1]

\* RecordViewerLeave's counter update, clamped at zero.
LeaveCounters(c) == [c EXCEPT !.cur = IF @ - 1 < 0 THEN 0 ELSE @ - 1]

\* Seeded fault: the oldest point is dropped only past one extra point.
AppendSampleLate(t, v) ==
    LET s == Append(t, v) IN IF Len(s) > MaxTimeline + 1 THEN Tail(s) ELSE s

\* Seeded fault: a full timeline drops the new point instead of the oldest.
AppendSampleKeepOld(t, v) ==
    IF Len(t) >= MaxTimeline THEN t ELSE Append(t, v)

\* updateAnalyticsLoop: append a point, drop the oldest past the maximum.
AppendSample(t, v) ==
    LET s == Append(t, v) IN IF Len(s) > MaxTimeline THEN Tail(s) ELSE s

-----------------------------------------------------------------------------
Init ==
    /\ exists = FALSE
    /\ ended = FALSE
    /\ a = Zero
    /\ timeline = <<>>
    /\ sessions = [v \in {} |-> FALSE]
    /\ loops = 0
    /\ samples = <<>>

\* StartStreamAnalytics: a fresh record and session map, and a sampler.
StartStreamAnalytics ==
    /\ ~exists
    /\ loops < MaxLoops
    /\ exists' = TRUE
    /\ ended' = FALSE
    /\ a' = Zero
    /\ timeline' = <<>>
    /\ sessions' = [v \in {} |-> FALSE]
    /\ loops' = loops + 1
    /\ samples' = <<>>

\* StopStreamAnalytics: sets EndTime and closes the open sessions.  It does
\* not touch CurrentViewers, and may be called again.
StopStreamAnalytics ==
    /\ exists
    /\ ended' = TRUE
    /\ sessions' = [v \in DOMAIN sessions |-> FALSE]
    /\ UNCHANGED <<exists, a, timeline, loops, samples>>

\* RecordViewerJoin: unique unless the viewer has a closed session; the
\* viewer's session is replaced by an open one.
RecordViewerJoin(v) ==
    LET isUnique == ~(v \in DOMAIN sessions /\ ~sessions[v])
    IN /\ exists
       /\ a.total < MaxJoins
       /\ a' = JoinCounters(a, isUnique)
       /\ sessions' = [x \in DOMAIN sessions \cup {v} |->
                         IF x = v THEN TRUE ELSE sessions[x]]
       /\ UNCHANGED <<exists, ended, timeline, loops, samples>>

\* RecordViewerLeave: any existing session, open or not, is closed and
\* CurrentViewers goes down.
RecordViewerLeave(v) ==
    /\ exists
    /\ v \in DOMAIN sessions
    /\ sessions' = [sessions EXCEPT ![v] = FALSE]
    /\ a' = LeaveCounters(a)
    /\ UNCHANGED <<exists, ended, timeline, loops, samples>>

\* A tick of a sampler: the record of this room name, whichever it is, gets
\* a point of CurrentViewers.
LoopSample ==
    /\ loops > 0
    /\ exists
    /\ Len(samples) < MaxSamples
    /\ timeline' = AppendSample(timeline, a.cur)
    /\ samples' = Append(samples, a.cur)
    /\ UNCHANGED <<exists, ended, a, sessions, loops>>

\* A tick of a sampler after the record is gone: the goroutine returns.
LoopExit ==
    /\ loops > 0
    /\ ~exists
    /\ loops' = loops - 1
    /\ UNCHANGED <<exists, ended, a, timeline, sessions, samples>>

\* ctx.Done(): the context StartStreamAnalytics was given is cancelled.
LoopCancel ==
    /\ loops > 0
    /\ loops' = loops - 1
    /\ UNCHANGED <<exists, ended, a, timeline, sessions, samples>>

\* CleanupOldAnalytics: an ended record past retention is dropped with its
\* sessions.
CleanupOldAnalytics ==
    /\ exists /\ ended
    /\ exists' = FALSE
    /\ sessions' = [v \in {} |-> FALSE]
    /\ UNCHANGED <<ended, a, timeline, loops, samples>>

Next ==
    \/ StartStreamAnalytics
    \/ StopStreamAnalytics
    \/ \E v \in Viewers : RecordViewerJoin(v) \/ RecordViewerLeave(v)
    \/ LoopSample \/ LoopExit \/ LoopCancel
    \/ CleanupOldAnalytics

Spec == Init /\ [][Next]_vars

-----------------------------------------------------------------------------
TypeOK ==
    /\ exists \in BOOLEAN /\ ended \in BOOLEAN
    /\ a \in [cur : Nat, total : 0..MaxJoins, uniq : 0..MaxJoins, peak : Nat]
    /\ timeline \in Seq(Nat) /\ Len(timeline) <= MaxTimeline
    /\ DOMAIN sessions \subseteq Viewers
    /\ \A v \in DOMAIN sessions : sessions[v] \in BOOLEAN
    /\ loops \in 0..MaxLoops
    /\ samples \in Seq(Nat)

\* The invariant of spec section 8 over RecordViewerJoin and
\* RecordViewerLeave: current viewers never go negative (a leave of an
\* already closed session decrements again, so only the clamp keeps it at
\* zero), never exceed the peak, and unique viewers never exceed total.
SpecCounterInvariant ==
    a.cur >= 0 /\ a.cur <= a.peak /\ a.total >= a.uniq

\* updateAnalyticsLoop's viewer timeline is exactly the newest
\* MaxTimelinePoints samples, in sample order, however many samplers feed it.
TimelineKeepsNewest ==
    LET n == Len(samples)
        from == IF n > MaxTimeline THEN n - MaxTimeline + 1 ELSE 1
    IN timeline = SubSeq(samples, from, n)

\* The viewers RecordViewerJoin has a session open for (LeftAt == nil).
OpenSessions == {v \in DOMAIN sessions : sessions[v]}

\* Spec section 7, scenario 6 (join alice, bob, alice; leave alice; join
\* alice: current=2): while the stream runs, CurrentViewers is the number
\* of viewers watching, one per open session.  RecordViewerJoin counts a
\* viewer whose session is still open again, and RecordViewerLeave counts
\* down for a session that is already closed.
CurrentCountsOpenSessions ==
    exists /\ ~ended => a.cur = Cardinality(OpenSessions)
=============================================================================
