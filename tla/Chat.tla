-------------------------------- MODULE Chat --------------------------------
(***************************************************************************)
(* ChatService of src/unnamed/part_008 (lines 1-569), for one chat room.   *)
(*                                                                         *)
(* Every handler looks the room up under cs.mu and then runs to completion *)
(* under room.mu; no handler deletes a room, so each handler is one atomic  *)
(* action.  Rooms share nothing but the handler list, so one room is       *)
(* enough.  What runs outside room.mu is modelled as processes of its own: *)
(*   - the goroutine MuteParticipant starts to unmute after a duration     *)
(*     (`timers`);                                                         *)
(*   - the goroutine notifyHandlers starts per handler and message         *)
(*     (`pending`), which hands the message to a listener (`delivered`).   *)
(* Message content is left out except for its length class: replaceWord    *)
(* returns its input, so the bad-word filter changes nothing.              *)
(***************************************************************************)
EXTENDS Integers, Sequences, SequencesExt, FiniteSets

CONSTANTS
    Users,          \* participant identities
    System,         \* the sender id "system" of join/leave notices
    Listeners,      \* registered ChatMessageHandlers
    MaxPerMin,      \* Settings.MaxMessagesPerMin
    SlowModeDelay,  \* Settings.SlowModeDelay, in ticks (0: off)
    Minute,         \* time.Minute, in ticks
    MuteDurations,  \* durations a moderator passes to MuteParticipant
    BanDurations,   \* durations a moderator passes to BanParticipant
    MaxTime,        \* bound: last tick of the clock
    MaxMsgs         \* bound: length of the message log

ASSUME /\ System \notin Users
       /\ {MaxPerMin, SlowModeDelay, Minute, MaxTime, MaxMsgs} \subseteq Nat
       /\ MuteDurations \subseteq Nat /\ BanDurations \subseteq Nat

VARIABLES
    now,        \* the clock
    created,    \* cs.rooms holds the room
    msgs,       \* room.Messages: [sender, ts, deleted]
    parts,      \* room.Participants: identity -> IsMuted
    mods,       \* room.Moderators
    banned,     \* room.BannedUsers: identity -> ban expiry
    timers,     \* sleeping unmute goroutines: [user, at]
    registered, \* cs.messageHandlers
    pending,    \* handler goroutines not yet run: [l, k] for message k
    delivered,  \* delivered[l]: indices of the messages l has received
    muteLog,    \* ghost: mutes in force: [user, after, until]
    regAt       \* ghost: regAt[l] the log length when l was registered

vars == <<now, created, msgs, parts, mods, banned, timers, registered,
          pending, delivered, muteLog, regAt>>

Message == [sender: Users \cup {System}, ts: 0..MaxTime, deleted: BOOLEAN]
Forever == MaxTime + 1          \* the end of a mute with no duration
NoTime == -1                    \* beforeTimestamp == nil

Put(f, k, v) == [x \in DOMAIN f \cup {k} |-> IF x = k THEN v ELSE f[x]]
Drop(f, k)   == [x \in DOMAIN f \ {k} |-> f[x]]

-----------------------------------------------------------------------------
(* countRecentMessages: scan from the newest message, stop at the first    *)
(* one older than the cutoff, count the sender's.                          *)

\* Seeded fault: the scan stops at messages not after the cutoff.
RECURSIVE CountRecentStrict(_, _, _, _)
CountRecentStrict(m, u, cutoff, i) ==
    IF i = 0 \/ m[i].ts <= cutoff THEN 0
    ELSE (IF m[i].sender = u THEN 1 ELSE 0) + CountRecentStrict(m, u, cutoff, i - 1)

RECURSIVE CountRecent(_, _, _, _)
CountRecent(m, u, cutoff, i) ==
    IF i = 0 \/ m[i].ts < cutoff THEN 0
    ELSE (IF m[i].sender = u THEN 1 ELSE 0) + CountRecent(m, u, cutoff, i - 1)

countRecentMessages(u) == CountRecent(msgs, u, now - Minute, Len(msgs))

\* Seeded fault: the backward scan stops before the first message (i > 0).
getLastMessageSkipFirst(u) == SelectLastInSubSeq(msgs, 2, Len(msgs), LAMBDA x : x.sender = u)

\* getLastMessage: index of the sender's newest message, 0 for nil.
getLastMessage(u) == SelectLastInSeq(msgs, LAMBDA x : x.sender = u)

\* The slow-mode branch of SendMessage.
SlowModeBlocks(u) ==
    LET k == getLastMessage(u)
    IN  SlowModeDelay > 0 /\ k # 0 /\ now - msgs[k].ts < SlowModeDelay

\* Seeded fault: the notified index is one past the appended message.
NotifyPastEnd(m) == {[l |-> registered[i], k |-> Len(m) + 1] : i \in 1..Len(registered)}

\* Seeded fault: the loop over the handlers starts at the second one.
NotifySkipFirst(m) == {[l |-> registered[i], k |-> Len(m)] : i \in 2..Len(registered)}

\* notifyHandlers after an append to m: one goroutine per handler.
Notify(m) == {[l |-> registered[i], k |-> Len(m)] : i \in 1..Len(registered)}

\* Seeded fault: deleted messages are not skipped.
RECURSIVE GetMessagesWithDeleted(_, _, _, _, _)
GetMessagesWithDeleted(m, limit, before, i, acc) ==
    IF i = 0 \/ Len(acc) >= limit THEN acc
    ELSE GetMessagesWithDeleted(m, limit, before, i - 1,
             IF before = NoTime \/ m[i].ts < before THEN Append(acc, m[i]) ELSE acc)

\* GetMessages: walk back from the newest message while fewer than limit
\* are collected, keeping the non-deleted ones older than before.
RECURSIVE GetMessagesLoop(_, _, _, _, _)
GetMessagesLoop(m, limit, before, i, acc) ==
    IF i = 0 \/ Len(acc) >= limit THEN acc
    ELSE GetMessagesLoop(m, limit, before, i - 1,
             IF (before = NoTime \/ m[i].ts < before) /\ ~m[i].deleted
               THEN Append(acc, m[i]) ELSE acc)

GetMessages(m, limit, before) == GetMessagesLoop(m, limit, before, Len(m), <<>>)

\* Appending a notice or message and notifying the handlers of it.
Post(x) == /\ msgs' = Append(msgs, x)
           /\ pending' = pending \cup Notify(msgs')

-----------------------------------------------------------------------------
Init ==
    /\ now = 0
    /\ created = FALSE
    /\ msgs = <<>>
    /\ parts = [u \in {} |-> FALSE]
    /\ mods = {}
    /\ banned = [u \in {} |-> 0]
    /\ timers = {}
    /\ registered = <<>>
    /\ pending = {}
    /\ delivered = [l \in Listeners |-> <<>>]
    /\ muteLog = {}
    /\ regAt = [l \in Listeners |-> 0]

Tick ==
    /\ now < MaxTime
    /\ now' = now + 1
    /\ UNCHANGED <<created, msgs, parts, mods, banned, timers, registered,
                   pending, delivered, muteLog, regAt>>

\* CreateChatRoom (the API silences "already exists").
CreateChatRoom ==
    /\ ~created
    /\ created' = TRUE
    /\ UNCHANGED <<now, msgs, parts, mods, banned, timers, registered,
                   pending, delivered, muteLog, regAt>>

\* RegisterMessageHandler appends to the handler slice (each listener is
\* registered once).
RegisterMessageHandler(l) ==
    /\ l \notin ToSet(registered)
    /\ registered' = Append(registered, l)
    /\ regAt' = [regAt EXCEPT ![l] = Len(msgs)]
    /\ UNCHANGED <<now, created, msgs, parts, mods, banned, timers,
                   pending, delivered, muteLog>>

\* JoinChatRoom: refused while banned, an expired ban is cleared; the
\* participant record is replaced by a fresh, unmuted one.
JoinChatRoom(u, isModerator) ==
    /\ created
    /\ Len(msgs) < MaxMsgs
    /\ u \in DOMAIN banned => ~(now < banned[u])
    /\ banned' = Drop(banned, u)
    /\ parts' = Put(parts, u, FALSE)
    /\ mods' = IF isModerator THEN mods \cup {u} ELSE mods
    /\ Post([sender |-> System, ts |-> now, deleted |-> FALSE])
    /\ UNCHANGED <<now, created, timers, registered, delivered, muteLog, regAt>>

\* LeaveChatRoom: the participant and its moderator flag go.
LeaveChatRoom(u) ==
    /\ created
    /\ Len(msgs) < MaxMsgs
    /\ u \in DOMAIN parts
    /\ parts' = Drop(parts, u)
    /\ mods' = mods \ {u}
    /\ muteLog' = {m \in muteLog : m.user # u}
    /\ Post([sender |-> System, ts |-> now, deleted |-> FALSE])
    /\ UNCHANGED <<now, created, banned, timers, registered, delivered, regAt>>

\* SendMessage.  An unknown sender is registered first, and stays
\* registered when a later check fails.  tooLong: the content is longer
\* than MaxMessageLength.
SendMessage(u, tooLong) ==
    LET muted == u \in DOMAIN parts /\ parts[u]
    IN /\ created
       /\ parts' = IF u \in DOMAIN parts THEN parts ELSE Put(parts, u, FALSE)
       /\ IF ~muted /\ ~tooLong
             /\ countRecentMessages(u) < MaxPerMin
             /\ ~SlowModeBlocks(u)
            THEN /\ Len(msgs) < MaxMsgs
                 /\ Post([sender |-> u, ts |-> now, deleted |-> FALSE])
            ELSE UNCHANGED <<msgs, pending>>
       /\ UNCHANGED <<now, created, mods, banned, timers, registered,
                      delivered, muteLog, regAt>>

\* DeleteMessage: a moderator marks message k deleted.
DeleteMessage(k, moderator) ==
    /\ created
    /\ moderator \in mods
    /\ k \in 1..Len(msgs)
    /\ msgs' = [msgs EXCEPT ![k].deleted = TRUE]
    /\ UNCHANGED <<now, created, parts, mods, banned, timers, registered,
                   pending, delivered, muteLog, regAt>>

\* Seeded fault: the unmute is scheduled only for durations above one tick.
MuteParticipantLongOnly(u, moderator, d) ==
    /\ created
    /\ now + d <= MaxTime
    /\ moderator \in mods
    /\ u \in DOMAIN parts
    /\ parts' = [parts EXCEPT ![u] = TRUE]
    /\ timers' = IF d > 1 THEN timers \cup {[user |-> u, at |-> now + d]} ELSE timers
    /\ muteLog' = {m \in muteLog : m.user # u} \cup
                  {[user |-> u, after |-> Len(msgs), until |-> IF d > 0 THEN now + d ELSE Forever]}
    /\ UNCHANGED <<now, created, msgs, mods, banned, registered, pending, delivered, regAt>>

\* MuteParticipant: a moderator mutes a participant; a positive duration
\* starts a goroutine that unmutes after it.  Bound: the timer is due
\* within the clock.
MuteParticipant(u, moderator, d) ==
    /\ created
    /\ now + d <= MaxTime
    /\ moderator \in mods
    /\ u \in DOMAIN parts
    /\ parts' = [parts EXCEPT ![u] = TRUE]
    /\ timers' = IF d > 0 THEN timers \cup {[user |-> u, at |-> now + d]} ELSE timers
    /\ muteLog' = {m \in muteLog : m.user # u} \cup
                  {[user |-> u, after |-> Len(msgs), until |-> IF d > 0 THEN now + d ELSE Forever]}
    /\ UNCHANGED <<now, created, msgs, mods, banned, registered, pending, delivered, regAt>>

\* The unmute goroutine wakes (time.Sleep returns no earlier than `at`) and
\* clears IsMuted of whoever is the participant with that identity now.
UnmuteTimer(t) ==
    /\ t \in timers
    /\ now >= t.at
    /\ timers' = timers \ {t}
    /\ parts' = IF t.user \in DOMAIN parts THEN [parts EXCEPT ![t.user] = FALSE] ELSE parts
    /\ UNCHANGED <<now, created, msgs, mods, banned, registered, pending,
                   delivered, muteLog, regAt>>

\* BanParticipant: records the expiry and removes the participant.
BanParticipant(u, moderator, d) ==
    /\ created
    /\ moderator \in mods
    /\ banned' = Put(banned, u, now + d)
    /\ parts' = Drop(parts, u)
    /\ muteLog' = {m \in muteLog : m.user # u}
    /\ UNCHANGED <<now, created, msgs, mods, timers, registered, pending, delivered, regAt>>

\* A handler goroutine runs: listener l receives message k.
Deliver(p) ==
    /\ p \in pending
    /\ pending' = pending \ {p}
    /\ delivered' = [delivered EXCEPT ![p.l] = Append(@, p.k)]
    /\ UNCHANGED <<now, created, msgs, parts, mods, banned, timers,
                   registered, muteLog, regAt>>

Next ==
    \/ Tick
    \/ CreateChatRoom
    \/ \E l \in Listeners : RegisterMessageHandler(l)
    \/ \E u \in Users : \/ \E b \in BOOLEAN : JoinChatRoom(u, b) \/ SendMessage(u, b)
                        \/ LeaveChatRoom(u)
    \/ \E k \in 1..MaxMsgs, m \in Users : DeleteMessage(k, m)
    \/ \E u, m \in Users : \/ \E d \in MuteDurations : MuteParticipant(u, m, d)
                           \/ \E d \in BanDurations : BanParticipant(u, m, d)
    \/ \E t \in timers : UnmuteTimer(t)
    \/ \E p \in pending : Deliver(p)

Spec == Init /\ [][Next]_vars

(* Fairness: the clock advances while it may, a sleeping unmute goroutine  *)
(* runs once it is due, and a started handler goroutine runs: the Go        *)
(* scheduler runs every runnable goroutine eventually.                      *)
FairSpec ==
    /\ Spec
    /\ WF_vars(Tick)
    /\ \A u \in Users, t \in 0..MaxTime : WF_vars(UnmuteTimer([user |-> u, at |-> t]))
    /\ \A l \in Listeners, k \in 1..MaxMsgs : WF_vars(Deliver([l |-> l, k |-> k]))

-----------------------------------------------------------------------------
TypeOK ==
    /\ now \in 0..MaxTime
    /\ created \in BOOLEAN
    /\ msgs \in Seq(Message) /\ Len(msgs) <= MaxMsgs
    /\ DOMAIN parts \subseteq Users /\ \A u \in DOMAIN parts : parts[u] \in BOOLEAN
    /\ mods \subseteq Users
    /\ DOMAIN banned \subseteq Users
    /\ timers \subseteq [user: Users, at: Nat]
    /\ registered \in Seq(Listeners) /\ regAt \in [Listeners -> 0..MaxMsgs]
    /\ pending \subseteq [l: Listeners, k: 1..Len(msgs)]
    /\ delivered \in [Listeners -> Seq(1..MaxMsgs)]

\* The messages of u in the log with timestamps in [t - Minute, t].
InWindow(u, t) == {k \in 1..Len(msgs) : msgs[k].sender = u /\ t - Minute <= msgs[k].ts
                                                          /\ msgs[k].ts <= t}

(* Rate limit of SendMessage (countRecentMessages): no trailing minute,    *)
(* anchored anywhere, holds more than MaxMessagesPerMin messages of one     *)
(* sender, deleted ones and ones sent before a leave and rejoin included.   *)
SlidingWindowCap ==
    \A u \in Users, t \in 0..MaxTime : Cardinality(InWindow(u, t)) <= MaxPerMin

(* Slow mode of SendMessage (getLastMessage): two messages of one sender    *)
(* are at least SlowModeDelay apart.                                        *)
SlowModeSpacing ==
    SlowModeDelay > 0 =>
        \A j, k \in 1..Len(msgs) :
            j < k /\ msgs[j].sender = msgs[k].sender /\ msgs[k].sender # System
                => msgs[k].ts - msgs[j].ts >= SlowModeDelay

\* The newest `limit` of the visible messages older than `before`, newest
\* first: what GetMessages is documented to return.
GetMessagesRef(m, limit, before) ==
    LET vis == SelectSeq(m, LAMBDA x : ~x.deleted /\ (before = NoTime \/ x.ts < before))
        n == IF Len(vis) > limit THEN limit ELSE Len(vis)
    IN  Reverse(SubSeq(vis, Len(vis) - n + 1, Len(vis)))

(* GetMessages' backward walk with its early stop returns exactly the       *)
(* newest `limit` non-deleted messages older than beforeTimestamp, newest   *)
(* first, for every limit and cut-off, after any deletes.                   *)
GetMessagesNewestFirst ==
    \A limit \in 0..MaxMsgs, before \in {NoTime} \cup 0..MaxTime :
        GetMessages(msgs, limit, before) = GetMessagesRef(msgs, limit, before)

(* MuteParticipant: a muted participant who has not left and was not       *)
(* banned sends nothing until the mute's duration has elapsed (forever      *)
(* when no duration was given).                                             *)
MuteHonoured ==
    \A m \in muteLog : \A k \in m.after + 1..Len(msgs) :
        msgs[k].sender = m.user => msgs[k].ts >= m.until

(* Timer goroutine of MuteParticipant: a participant muted for a positive  *)
(* duration is eventually unmuted, is no longer a participant, or has been  *)
(* muted again with no duration, which a timer must then leave in force.    *)
MutedForever(u) == \E m \in muteLog : m.user = u /\ m.until = Forever

MuteEventuallyLifted ==
    \A u \in Users :
        (\E m \in muteLog : m.user = u /\ m.until # Forever)
            ~> (u \notin DOMAIN parts \/ ~parts[u] \/ MutedForever(u))

(* notifyHandlers: every message appended after a listener registered      *)
(* eventually reaches that listener.                                        *)
EveryMessageDelivered ==
    \A l \in Listeners, k \in 1..MaxMsgs :
        (l \in ToSet(registered) /\ regAt[l] < k /\ k <= Len(msgs))
            ~> k \in ToSet(delivered[l])
=============================================================================
