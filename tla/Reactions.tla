------------------------------ MODULE Reactions ------------------------------
(***************************************************************************)
(* ReactionService of src/pkg/streaming/reactions.go.                      *)
(*                                                                         *)
(* The service keeps a map from room names to ReactionRoom objects.  A     *)
(* room object outlives its map entry: a request that looked it up keeps   *)
(* the pointer, so room state is indexed by an instance number and the map *)
(* `rooms` points names at instances.                                      *)
(*                                                                         *)
(* SendReaction runs in three steps, each under a different lock:          *)
(*   Lookup   rs.mu (read, then write to auto-create the room)             *)
(*   Check    room.mu read lock, released before the limits are compared   *)
(*   Append   room.mu write lock: log, per-user index, stats, leaderboard, *)
(*            rate-limit counter                                           *)
(* and any number of requests interleave between those steps.  Time is a   *)
(* global clock in ticks; Second and Minute are durations in ticks.        *)
(***************************************************************************)
EXTENDS Integers, Sequences, SequencesExt, FiniteSets

CONSTANTS
    Users,          \* participant identities
    Rooms,          \* room names
    Types,          \* reaction types
    Req,            \* concurrent HTTP request handlers
    Readers,        \* concurrent handleGetReactionStats requests
    ReqUser,        \* ReqUser[q]: the user on whose behalf q sends
    Second,         \* time.Second, in ticks
    Minute,         \* time.Minute, in ticks
    MaxPerSecond,   \* config.MaxReactionsPerSecond
    MaxPerMinute,   \* config.MaxReactionsPerMinute
    ReactionTTL,    \* config.ReactionTTL, in ticks
    MaxRecent,      \* config.MaxRecentReactions
    TopN,           \* length of the leaderboard (10 in updateTopReactors)
    MaxTime,        \* bound: last tick of the clock
    MaxInst,        \* bound: room objects ever created
    MaxSends        \* bound: reactions appended per room object

ASSUME /\ ReqUser \in [Req -> Users]
       /\ MaxPerSecond > 0 /\ Second >= MaxPerSecond
       /\ {MaxPerMinute, ReactionTTL, MaxRecent, TopN, MaxTime, MaxInst, MaxSends} \subseteq Nat

VARIABLES
    now,        \* the clock
    rooms,      \* rs.rooms: room name -> instance, NoRoom when absent
    nextInst,   \* next instance number to allocate
    room,       \* room[i]: the state of ReactionRoom object i
    hist,       \* ghost: hist[i] every reaction ever appended to object i
    req,        \* req[q]: program counter and locals of handler q
    rd          \* rd[s]: the room object stats reader s is encoding, or NoRoom

vars == <<now, rooms, nextInst, room, hist, req, rd>>

NoRoom == 0
Insts == 1..MaxInst
NoType == "none"

\* A handler between requests.
IdleReq == [pc |-> "idle", type |-> NoType, inst |-> NoRoom]

Reaction == [user: Users, type: Types, ts: 0..MaxTime]
RateLimit == [last: 0..MaxTime, count: Nat, ws: 0..MaxTime]

\* time.Second / time.Duration(MaxReactionsPerSecond): the minimum spacing
MinGap == Second \div MaxPerSecond

\* The value of f at k, or d when k is not a key of the Go map f.
Lookup(f, k, d) == IF k \in DOMAIN f THEN f[k] ELSE d

\* f with key k (possibly new) bound to v.
Put(f, k, v) == [x \in DOMAIN f \cup {k} |-> IF x = k THEN v ELSE f[x]]

\* The last n elements of s.
LastN(s, n) == IF Len(s) <= n THEN s ELSE SubSeq(s, Len(s) - n + 1, Len(s))

\* The ReactionRoom literal built by CreateReactionRoom and SendReaction.
NewRoom == [log    |-> <<>>,                      \* Reactions
            byUser |-> [u \in {} |-> <<>>],       \* UserReactions
            rl     |-> [u \in {} |-> [last |-> 0, count |-> 0, ws |-> 0]],
            total  |-> 0,                         \* Stats.TotalReactions
            counts |-> [t \in Types |-> 0],       \* Stats.ReactionCounts
            recent |-> <<>>,                      \* Stats.RecentReactions
            top    |-> <<>>]                      \* Stats.TopReactors

-----------------------------------------------------------------------------
(* updateTopReactors: the nested loop that sorts by count, descending.     *)

\* Seeded fault: the comparison turned round (sorts ascending).
RECURSIVE SortInnerAscending(_, _, _)
SortInnerAscending(a, i, j) ==
    IF j > Len(a) THEN a
    ELSE SortInnerAscending(IF a[j].count < a[i].count
                              THEN [a EXCEPT ![i] = a[j], ![j] = a[i]]
                              ELSE a, i, j + 1)

\* One pass of the inner loop: for j := i+1 .. n, swap a[i], a[j] when
\* a[j].count > a[i].count.
RECURSIVE SortInner(_, _, _)
SortInner(a, i, j) ==
    IF j > Len(a) THEN a
    ELSE SortInner(IF a[j].count > a[i].count
                     THEN [a EXCEPT ![i] = a[j], ![j] = a[i]]
                     ELSE a, i, j + 1)

\* The outer loop: for i := 1 .. n.
RECURSIVE SortOuter(_, _)
SortOuter(a, i) == IF i > Len(a) THEN a ELSE SortOuter(SortInner(a, i, i + 1), i + 1)

\* The leaderboard built from the per-user index, whose keys Go's map
\* iteration visits in the order `order`, sorted and cut to TopN entries.
TopReactors(byUser, order) ==
    LET list == [k \in 1..Len(order) |->
                    [user |-> order[k], count |-> Len(byUser[order[k]])]]
        sorted == SortOuter(list, 1)
    IN  IF Len(sorted) > TopN THEN SubSeq(sorted, 1, TopN) ELSE sorted

-----------------------------------------------------------------------------
(* updateRateLimit: create the counter, roll the window, count.            *)

\* Seeded fault: the window start rolls but the count is not reset.
UpdateRateLimitNoReset(rl, u) ==
    LET base  == Lookup(rl, u, [last |-> 0, count |-> 0, ws |-> now])
        rolled == IF now - base.ws >= Minute THEN [base EXCEPT !.ws = now] ELSE base
    IN  Put(rl, u, [rolled EXCEPT !.last = now, !.count = @ + 1])

\* updateRateLimit, called at the end of the critical section.
UpdateRateLimit(rl, u) ==
    LET base  == Lookup(rl, u, [last |-> 0, count |-> 0, ws |-> now])
        rolled == IF now - base.ws >= Minute
                    THEN [base EXCEPT !.ws = now, !.count = 0]
                    ELSE base
    IN  Put(rl, u, [rolled EXCEPT !.last = now, !.count = @ + 1])

\* Seeded fault: the spacing threshold is one tick short.
RateLimitedLooseGap(rl, u) ==
    /\ u \in DOMAIN rl
    /\ \/ now - rl[u].last < MinGap - 1
       \/ now - rl[u].ws < Minute /\ rl[u].count >= MaxPerMinute

\* checkRateLimit: the error branches.  No counter yet means no limit.
RateLimited(rl, u) ==
    /\ u \in DOMAIN rl
    /\ \/ now - rl[u].last < MinGap
       \/ now - rl[u].ws < Minute /\ rl[u].count >= MaxPerMinute

\* Seeded fault: the user's index is overwritten instead of appended to.
AddReactionIndexOverwrite(r, x, order) ==
    LET byUser == Put(r.byUser, x.user, <<x>>)
    IN [r EXCEPT !.log = Append(@, x), !.byUser = byUser, !.total = @ + 1,
                 !.counts[x.type] = @ + 1,
                 !.recent = LET s == <<x>> \o r.recent
                            IN IF Len(s) > MaxRecent THEN SubSeq(s, 1, MaxRecent) ELSE s,
                 !.top = TopReactors(byUser, order), !.rl = UpdateRateLimit(@, x.user)]

\* Seeded fault: the recent list is appended to instead of prepended to.
AddReactionRecentAppended(r, x, order) ==
    LET byUser == Put(r.byUser, x.user, Append(Lookup(r.byUser, x.user, <<>>), x))
    IN [r EXCEPT !.log = Append(@, x), !.byUser = byUser, !.total = @ + 1,
                 !.counts[x.type] = @ + 1,
                 !.recent = LET s == r.recent \o <<x>>
                            IN IF Len(s) > MaxRecent THEN SubSeq(s, 1, MaxRecent) ELSE s,
                 !.top = TopReactors(byUser, order), !.rl = UpdateRateLimit(@, x.user)]

\* Seeded fault: the recent list is truncated one element too late.
AddReactionRecentOffByOne(r, x, order) ==
    LET byUser == Put(r.byUser, x.user, Append(Lookup(r.byUser, x.user, <<>>), x))
        s == <<x>> \o r.recent
    IN [r EXCEPT !.log = Append(@, x), !.byUser = byUser, !.total = @ + 1,
                 !.counts[x.type] = @ + 1,
                 !.recent = IF Len(s) > MaxRecent + 1 THEN SubSeq(s, 1, MaxRecent + 1) ELSE s,
                 !.top = TopReactors(byUser, order), !.rl = UpdateRateLimit(@, x.user)]

\* The body of SendReaction under room.mu.Lock, for reaction x, with the
\* leaderboard built in map-iteration order `order`.
AddReaction(r, x, order) ==
    LET byUser == Put(r.byUser, x.user, Append(Lookup(r.byUser, x.user, <<>>), x))
        recent == <<x>> \o r.recent
    IN [r EXCEPT !.log    = Append(@, x),
                 !.byUser = byUser,
                 !.total  = @ + 1,
                 !.counts[x.type] = @ + 1,
                 !.recent = IF Len(recent) > MaxRecent THEN SubSeq(recent, 1, MaxRecent)
                                                       ELSE recent,
                 !.top    = TopReactors(byUser, order),
                 !.rl     = UpdateRateLimit(@, x.user)]

-----------------------------------------------------------------------------
Init ==
    /\ now = 0
    /\ rooms = [r \in Rooms |-> NoRoom]
    /\ nextInst = 1
    /\ room = [i \in Insts |-> NewRoom]
    /\ hist = [i \in Insts |-> <<>>]
    /\ req = [q \in Req |-> IdleReq]
    /\ rd = [s \in Readers |-> NoRoom]

\* The clock advances.
Tick ==
    /\ now < MaxTime
    /\ now' = now + 1
    /\ UNCHANGED <<rooms, nextInst, room, hist, req, rd>>

\* CreateReactionRoom: fails when the name is taken.
CreateReactionRoom(r) ==
    /\ rooms[r] = NoRoom
    /\ nextInst <= MaxInst
    /\ rooms' = [rooms EXCEPT ![r] = nextInst]
    /\ nextInst' = nextInst + 1
    /\ UNCHANGED <<now, room, hist, req, rd>>

\* DeleteReactionRoom: drops the map entry; in-flight requests keep the object.
DeleteReactionRoom(r) ==
    /\ rooms' = [rooms EXCEPT ![r] = NoRoom]
    /\ UNCHANGED <<now, nextInst, room, hist, req, rd>>

\* SendReaction, lines up to the rate-limit check: the room exists.
SendLookup(q) ==
    /\ req[q].pc = "idle"
    /\ \E r \in Rooms, t \in Types :
         /\ rooms[r] # NoRoom
         /\ room[rooms[r]].total < MaxSends
         /\ req' = [req EXCEPT ![q] = [pc |-> "check", type |-> t, inst |-> rooms[r]]]
    /\ UNCHANGED <<now, rooms, nextInst, room, hist, rd>>

\* SendReaction, lines up to the rate-limit check: the room is auto-created.
SendAutoCreate(q) ==
    /\ req[q].pc = "idle"
    /\ nextInst <= MaxInst
    /\ \E r \in Rooms, t \in Types :
         /\ rooms[r] = NoRoom
         /\ rooms' = [rooms EXCEPT ![r] = nextInst]
         /\ req' = [req EXCEPT ![q] = [pc |-> "check", type |-> t, inst |-> nextInst]]
    /\ nextInst' = nextInst + 1
    /\ UNCHANGED <<now, room, hist, rd>>

\* checkRateLimit returns an error: the request fails.
SendRejected(q) ==
    /\ req[q].pc = "check"
    /\ RateLimited(room[req[q].inst].rl, ReqUser[q])
    /\ req' = [req EXCEPT ![q] = IdleReq]
    /\ UNCHANGED <<now, rooms, nextInst, room, hist, rd>>

\* checkRateLimit passes; the room lock is not held until SendAppend.
SendChecked(q) ==
    /\ req[q].pc = "check"
    /\ ~RateLimited(room[req[q].inst].rl, ReqUser[q])
    /\ req' = [req EXCEPT ![q].pc = "append"]
    /\ UNCHANGED <<now, rooms, nextInst, room, hist, rd>>

\* The critical section of SendReaction under room.mu.Lock.
SendAppend(q) ==
    LET i == req[q].inst
        x == [user |-> ReqUser[q], type |-> req[q].type, ts |-> now]
        keys == DOMAIN room[i].byUser \cup {x.user}
    IN /\ req[q].pc = "append"
       /\ \E order \in SetToSeqs(keys) :
             room' = [room EXCEPT ![i] = AddReaction(@, x, order)]
       /\ hist' = [hist EXCEPT ![i] = Append(@, x)]
       /\ req' = [req EXCEPT ![q] = IdleReq]
       /\ UNCHANGED <<now, rooms, nextInst, rd>>

\* CleanupOldReactions: every room in the map drops reactions not newer
\* than now - ReactionTTL from its log and from each user's index.
CleanupOldReactions ==
    LET cutoff == now - ReactionTTL
        Fresh(s) == SelectSeq(s, LAMBDA x : x.ts > cutoff)
        live == {rooms[r] : r \in {n \in Rooms : rooms[n] # NoRoom}}
    IN /\ room' = [i \in Insts |->
                     IF i \in live
                       THEN [room[i] EXCEPT
                               !.log = Fresh(@),
                               !.byUser = [u \in DOMAIN @ |-> Fresh(@[u])]]
                       ELSE room[i]]
       /\ UNCHANGED <<now, rooms, nextInst, hist, req, rd>>

\* GetReactionStats: the room is looked up under rs.mu, then room.Stats is
\* returned under room.mu.RLock; the pointer outlives both locks.  A missing
\* room is an error.  handleGetReactionStats then encodes the Stats with no
\* lock held.
GetReactionStats(s) ==
    /\ rd[s] = NoRoom
    /\ \E r \in Rooms :
         \/ /\ rooms[r] # NoRoom
            /\ rd' = [rd EXCEPT ![s] = rooms[r]]
         \/ /\ rooms[r] = NoRoom
            /\ UNCHANGED rd
    /\ UNCHANGED <<now, rooms, nextInst, room, hist, req>>

\* handleGetReactionStats: json.Encode of the Stats (TotalReactions, the
\* ReactionCounts map, RecentReactions, TopReactors) ends.
EncodeStats(s) ==
    /\ rd[s] # NoRoom
    /\ rd' = [rd EXCEPT ![s] = NoRoom]
    /\ UNCHANGED <<now, rooms, nextInst, room, hist, req>>

\* Seeded fault: the loop walks the log from the oldest end.
GetRecentReactionsOldestFirst(i, limit) ==
    LET log == room[i].log
    IN SubSeq(log, 1, IF limit < Len(log) THEN limit ELSE Len(log))

\* GetRecentReactions, under room.mu.RLock: from the newest end of the log,
\* at most `limit` reactions.
GetRecentReactions(i, limit) == Reverse(LastN(room[i].log, limit))

\* GetUserReactions, under room.mu.RLock: the user's index entry, or empty.
GetUserReactions(i, u) == Lookup(room[i].byUser, u, <<>>)

Next ==
    \/ Tick
    \/ CleanupOldReactions
    \/ \E r \in Rooms : CreateReactionRoom(r) \/ DeleteReactionRoom(r)
    \/ \E q \in Req : \/ SendLookup(q) \/ SendAutoCreate(q)
                      \/ SendRejected(q) \/ SendChecked(q) \/ SendAppend(q)
    \/ \E s \in Readers : GetReactionStats(s) \/ EncodeStats(s)

Spec == Init /\ [][Next]_vars

-----------------------------------------------------------------------------
TypeOK ==
    /\ now \in 0..MaxTime
    /\ rooms \in [Rooms -> {NoRoom} \cup Insts]
    /\ nextInst \in 1..MaxInst + 1
    /\ hist \in [Insts -> Seq(Reaction)]
    /\ \A i \in Insts :
         /\ room[i].log \in Seq(Reaction)
         /\ DOMAIN room[i].byUser \subseteq Users
         /\ DOMAIN room[i].rl \subseteq Users
         /\ \A u \in DOMAIN room[i].rl : room[i].rl[u] \in RateLimit
         /\ room[i].counts \in [Types -> Nat]
         /\ Len(room[i].recent) <= MaxRecent
         /\ Len(room[i].top) <= TopN
    /\ req \in [Req -> [pc: {"idle", "check", "append"},
                        type: Types \cup {NoType},
                        inst: {NoRoom} \cup Insts]]
    /\ rd \in [Readers -> {NoRoom} \cup Insts]

\* The reactions user u appended to object i, oldest first.
SentBy(i, u) == SelectSeq(hist[i], LAMBDA x : x.user = u)

(* Per-second limit (checkRateLimit / updateRateLimit): two reactions of   *)
(* one user in one room are at least Second/MaxPerSecond apart.            *)
PerSecondSpacing ==
    \A i \in Insts, u \in Users :
        LET s == SentBy(i, u)
        IN  \A k \in 1..Len(s) - 1 : s[k + 1].ts - s[k].ts >= MinGap

(* Per-minute limit: a user's counter never passes MaxPerMinute and counts *)
(* exactly that user's reactions since the start of the current window,    *)
(* across window rolls in updateRateLimit.                                 *)
MinuteWindowCap ==
    \A i \in Insts : \A u \in DOMAIN room[i].rl :
        LET w == room[i].rl[u]
        IN  /\ w.count <= MaxPerMinute
            /\ w.count = Len(SelectSeq(SentBy(i, u), LAMBDA x : x.ts >= w.ws))

(* Append and CleanupOldReactions keep the room log and the per-user index *)
(* in step: the log is the newest part of everything appended, and each    *)
(* user's index is exactly that user's part of the log.                    *)
LogAndIndexAgree ==
    \A i \in Insts :
        /\ IsSuffix(room[i].log, hist[i])
        /\ \A k \in 1..Len(room[i].log) : room[i].log[k].user \in DOMAIN room[i].byUser
        /\ \A u \in Users :
              GetUserReactions(i, u) = SelectSeq(room[i].log, LAMBDA x : x.user = u)

(* Stats.RecentReactions is the newest MaxRecent reactions ever appended,  *)
(* newest first (prepend, then truncate); the TTL sweep leaves it alone.   *)
RecentIsNewestFirst ==
    \A i \in Insts : room[i].recent = Reverse(LastN(hist[i], MaxRecent))

\* Reference leaderboard for index byUser: sorted by count, descending, the
\* TopN (or all) users, no user left out who has more than one listed.
IsLeaderboard(top, byUser) ==
    /\ Len(top) = IF Cardinality(DOMAIN byUser) > TopN THEN TopN
                  ELSE Cardinality(DOMAIN byUser)
    /\ \A k \in 1..Len(top) : /\ top[k].user \in DOMAIN byUser
                              /\ top[k].count = Len(byUser[top[k].user])
    /\ \A j, k \in 1..Len(top) : j < k => /\ top[j].user # top[k].user
                                         /\ top[j].count >= top[k].count
    /\ \A u \in DOMAIN byUser :
          (\A k \in 1..Len(top) : top[k].user # u) =>
              \A k \in 1..Len(top) : top[k].count >= Len(byUser[u])

(* Every append leaves a correct leaderboard of the per-user index, in     *)
(* whatever order Go's map iteration hands the users to the sort.          *)
LeaderboardCorrect ==
    [][\A i \in Insts :
         room'[i].total # room[i].total => IsLeaderboard(room'[i].top, room'[i].byUser)]_vars

(* What /reactions/recent lists agrees with Stats.RecentReactions: the     *)
(* GetRecentReactions walk of the log and the prepend-and-truncate list    *)
(* kept by SendReaction give the same newest reactions, newest first; a    *)
(* CleanupOldReactions sweep, which trims the log but not the Stats, only  *)
(* shortens the walk from its old end.                                     *)
RecentListedNewestFirst ==
    \A i \in Insts : IsPrefix(GetRecentReactions(i, MaxRecent), room[i].recent)

(* handleGetReactionStats encodes room.Stats after GetReactionStats has    *)
(* released room.mu; json.Encode ranges over the ReactionCounts map.  No   *)
(* SendReaction may write the Stats of that room object meanwhile: Go      *)
(* aborts the process on a map written while it is iterated.               *)
NoStatsWriteWhileEncoding ==
    [][\A s \in Readers :
         rd[s] # NoRoom => room'[rd[s]].counts = room[rd[s]].counts]_vars
=============================================================================
