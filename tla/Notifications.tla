--------------------------- MODULE Notifications ---------------------------
(***************************************************************************)
(* The follower fan-out of NotificationService, src/pkg/streaming/         *)
(* notifications.go, for one streamer.                                     *)
(*                                                                         *)
(* ns.streamerFollowers[streamer] is a Go slice: a header (backing array,  *)
(* length) over an array of some capacity.  Subscribe appends to it, in    *)
(* place while the capacity allows and into a new, doubled array           *)
(* otherwise; Unsubscribe removes with append(f[:i], f[i+1:]...), which    *)
(* shifts the tail left inside the same array.  NotifyStreamStarted and    *)
(* NotifyStreamEnded copy the header under RLock and range over it with no *)
(* lock; each iteration checks the follower's subscription under RLock and *)
(* adds the notification under Lock.  So the notifier is a process whose   *)
(* reads of the array interleave with in-place writes.                     *)
(*                                                                         *)
(* With one streamer a user has at most one subscription, reduced to its   *)
(* two stream preferences.  A notification is reduced to its ID, its       *)
(* CreatedAt on a clock whose tick is of the order of NotificationTTL, and *)
(* its IsRead flag; the ID is a fresh number (the code's                   *)
(* "notif-<UnixNano>-<user>").  No code registers a notification handler,  *)
(* so sendNotification does nothing.  A notification's CreatedAt is read   *)
(* microseconds before addNotification takes the lock, far below one tick, *)
(* so the two are one step.                                                *)
(***************************************************************************)
EXTENDS Integers, Sequences, SequencesExt, FiniteSets

CONSTANTS
    Users,          \* user identities
    Prefs,          \* preference records Subscribe may be given
    MaxNotifs,      \* config.MaxNotificationsPerUser
    MaxCalls,       \* bound: notify calls
    MaxIds,         \* bound: notification IDs SendNotification may use
    MaxTime,        \* bound: clock ticks
    TTL,            \* config.NotificationTTL, in ticks
    Null            \* a model value: an array slot never written

Kinds == {"start", "end"}   \* NotifyStreamStarted, NotifyStreamEnded

VARIABLES
    subs,       \* ns.subscriptions: user -> [start, end] preferences
    mem,        \* backing arrays, by allocation number: capacity-long sequences
    hdr,        \* ns.streamerFollowers[streamer]: [arr, len]; arr 0 is nil
    notifs,     \* ns.notifications: user -> [id, at, read] records, oldest first
    nf,         \* the notifier: [pc, kind, arr, len, idx, cur]
    calls,      \* notify calls started
    steady,     \* ghost: users subscribed for this kind since the call began
    got,        \* ghost: user -> notifications this call gave it
    online,     \* ns.onlineUsers
    now,        \* the clock time.Now() reads
    nextId,     \* the next fresh notification ID
    hist,       \* ghost: user -> every [id, at] added for it, in order
    marked,     \* ghost: IDs marked read
    cut         \* ghost: the cutoff of the last cleanup (-1: none yet)

vars == <<subs, mem, hdr, notifs, nf, calls, steady, got, online, now, nextId, hist, marked, cut>>
others == <<online, now, nextId, hist, marked, cut>>

Cap(h) == IF h.arr = 0 THEN 0 ELSE Len(mem[h.arr])

-----------------------------------------------------------------------------
\* NewNotificationService: every map empty.
Init ==
    /\ subs = [u \in {} |-> {}]
    /\ mem = <<>>
    /\ hdr = [arr |-> 0, len |-> 0]
    /\ notifs = [u \in Users |-> <<>>]
    /\ nf = [pc |-> "idle", kind |-> "start", arr |-> 0, len |-> 0, idx |-> 1, cur |-> Null]
    /\ calls = 0
    /\ steady = {}
    /\ got = [u \in Users |-> 0]
    /\ online = {}
    /\ now = 0
    /\ nextId = 0
    /\ hist = [u \in Users |-> <<>>]
    /\ marked = {}
    /\ cut = -1

\* Go's append of one element: in place below the capacity, else a copy
\* into a new array of twice the capacity (one for an empty slice).
GrowCap(c) == IF c = 0 THEN 1 ELSE 2 * c

AppendFollower(u) ==
    IF hdr.len < Cap(hdr)
    THEN /\ mem' = [mem EXCEPT ![hdr.arr][hdr.len + 1] = u]
         /\ hdr' = [hdr EXCEPT !.len = @ + 1]
    ELSE LET c == GrowCap(Cap(hdr))
         IN /\ mem' = Append(mem, [j \in 1..c |->
                                    IF j <= hdr.len THEN mem[hdr.arr][j]
                                    ELSE IF j = hdr.len + 1 THEN u ELSE Null])
            /\ hdr' = [arr |-> Len(mem) + 1, len |-> hdr.len + 1]

\* Subscribe: refused if already subscribed; otherwise the subscription and
\* the follower are appended.
Subscribe(u, p) ==
    /\ u \notin DOMAIN subs
    /\ subs' = [x \in DOMAIN subs \cup {u} |-> IF x = u THEN p ELSE subs[x]]
    /\ AppendFollower(u)
    /\ UNCHANGED <<notifs, nf, calls, steady, got>>
    /\ UNCHANGED others

\* Mutant: the tail is shifted but the slice keeps its length.
RemoveFollowerKeepLen(u) ==
    LET a == mem[hdr.arr]
        i == CHOOSE j \in 1..hdr.len : a[j] = u /\ \A k \in 1..j - 1 : a[k] # u
    IN /\ mem' = [mem EXCEPT ![hdr.arr] =
                    [j \in 1..Len(a) |-> IF j >= i /\ j < hdr.len THEN a[j + 1] ELSE a[j]]]
       /\ hdr' = hdr

\* Unsubscribe's append(followers[:i], followers[i+1:]...): the first match
\* is overwritten by the tail, shifted left in the same array; the last slot
\* keeps its old value.
RemoveFollower(u) ==
    LET a == mem[hdr.arr]
        i == CHOOSE j \in 1..hdr.len : a[j] = u /\ \A k \in 1..j - 1 : a[k] # u
    IN /\ mem' = [mem EXCEPT ![hdr.arr] =
                    [j \in 1..Len(a) |-> IF j >= i /\ j < hdr.len THEN a[j + 1] ELSE a[j]]]
       /\ hdr' = [hdr EXCEPT !.len = @ - 1]

\* Unsubscribe: both lists lose their entry; a user not subscribed is not
\* in either list, and nothing changes.
Unsubscribe(u) ==
    \/ /\ u \in DOMAIN subs
       /\ subs' = [x \in DOMAIN subs \ {u} |-> subs[x]]
       /\ RemoveFollower(u)
       /\ steady' = steady \ {u}
       /\ UNCHANGED <<notifs, nf, calls, got>>
       /\ UNCHANGED others
    \/ /\ u \notin DOMAIN subs
       /\ UNCHANGED vars

\* NotifyStreamStarted / NotifyStreamEnded, under RLock: the slice header
\* is copied.  NotifyStreamStarted returns at once on a missing or empty
\* list; NotifyStreamEnded ranges over it, to the same effect.
NotifyBegin(k) ==
    /\ nf.pc = "idle"
    /\ calls < MaxCalls
    /\ calls' = calls + 1
    /\ nf' = [nf EXCEPT !.pc = IF hdr.len = 0 THEN "idle" ELSE "read",
                        !.kind = k, !.arr = hdr.arr, !.len = hdr.len, !.idx = 1]
    /\ steady' = {u \in DOMAIN subs : subs[u][k]}
    /\ got' = [u \in Users |-> 0]
    /\ UNCHANGED <<subs, mem, hdr, notifs>>
    /\ UNCHANGED others

\* The range loop, with no lock held: the next element of the copied
\* header is read from the shared array, or the call returns.
NotifyRead ==
    /\ nf.pc = "read"
    /\ nf' = IF nf.idx <= nf.len
             THEN [nf EXCEPT !.pc = "check", !.cur = mem[nf.arr][nf.idx]]
             ELSE [nf EXCEPT !.pc = "idle"]
    /\ UNCHANGED <<subs, mem, hdr, notifs, calls, steady, got>>
    /\ UNCHANGED others

\* The preference loop of NotifyStreamEnded (and, with EnableStreamStart,
\* of NotifyStreamStarted): the follower's subscription to this streamer
\* enables this kind of notification.
ShouldNotify(u, k) == u \in DOMAIN subs /\ subs[u][k]

\* Under RLock: does the follower's subscription enable this kind?
NotifyCheck ==
    /\ nf.pc = "check"
    /\ nf' = IF ShouldNotify(nf.cur, nf.kind)
             THEN [nf EXCEPT !.pc = "add"]
             ELSE [nf EXCEPT !.pc = "read", !.idx = @ + 1]
    /\ UNCHANGED <<subs, mem, hdr, notifs, calls, steady, got>>
    /\ UNCHANGED others

\* Mutant: the per-user limit is not applied.
AddNotificationUncapped(s, n) == Append(s, n)

\* addNotification, under Lock: append, keep the newest MaxNotificationsPerUser.
AddNotification(s, n) ==
    LET t == Append(s, n)
    IN IF Len(t) > MaxNotifs THEN SubSeq(t, Len(t) - MaxNotifs + 1, Len(t)) ELSE t

\* A new notification for u, created now with the next ID, handed to
\* addNotification; the ghost history records it.
Deliver(u) ==
    /\ notifs' = [notifs EXCEPT ![u] = AddNotification(@, [id |-> nextId, at |-> now, read |-> FALSE])]
    /\ hist' = [hist EXCEPT ![u] = Append(@, [id |-> nextId, at |-> now])]
    /\ nextId' = nextId + 1

NotifyAdd ==
    /\ nf.pc = "add"
    /\ Deliver(nf.cur)
    /\ got' = [got EXCEPT ![nf.cur] = @ + 1]
    /\ nf' = [nf EXCEPT !.pc = "read", !.idx = @ + 1]
    /\ UNCHANGED <<subs, mem, hdr, calls, steady, online, now, marked, cut>>

\* SendNotification: addNotification, then sendNotification, which finds
\* no handler registered for the WebSocket channel.
SendNotification(u) ==
    /\ nextId < MaxIds
    /\ Deliver(u)
    /\ UNCHANGED <<subs, mem, hdr, nf, calls, steady, got, online, now, marked, cut>>

\* MarkAsRead, under Lock: the notification with this ID is marked read;
\* with no list for the user, or no such ID in it, an error and no change.
\* IDs are unique, so the first match is the only one.
MarkAsRead(u, i) ==
    \/ /\ \E j \in DOMAIN notifs[u] :
            /\ notifs[u][j].id = i
            /\ notifs' = [notifs EXCEPT ![u][j].read = TRUE]
       /\ marked' = marked \cup {i}
       /\ UNCHANGED <<subs, mem, hdr, nf, calls, steady, got, online, now, nextId, hist, cut>>
    \/ /\ \A j \in DOMAIN notifs[u] : notifs[u][j].id # i
       /\ UNCHANGED vars

\* MarkAllAsRead, under Lock: every unread notification of the user is marked.
MarkAllAsRead(u) ==
    /\ notifs' = [notifs EXCEPT ![u] = [j \in DOMAIN notifs[u] |-> [notifs[u][j] EXCEPT !.read = TRUE]]]
    /\ marked' = marked \cup {notifs[u][j].id : j \in DOMAIN notifs[u]}
    /\ UNCHANGED <<subs, mem, hdr, nf, calls, steady, got, online, now, nextId, hist, cut>>

\* SetUserOnlineStatus, under Lock: set or delete the onlineUsers entry.
SetUserOnlineStatus(u, isOnline) ==
    /\ online' = IF isOnline THEN online \cup {u} ELSE online \ {u}
    /\ UNCHANGED <<subs, mem, hdr, notifs, nf, calls, steady, got, now, nextId, hist, marked, cut>>

\* Mutant: a notification created exactly at the cutoff is kept.
CleanupKeepsCutoff ==
    LET cutoff == now - TTL
    IN /\ notifs' = [u \in Users |-> SelectSeq(notifs[u], LAMBDA n : n.at >= cutoff)]
       /\ cut' = cutoff
       /\ UNCHANGED <<subs, mem, hdr, nf, calls, steady, got, online, now, nextId, hist, marked>>

\* CleanupExpiredNotifications, under Lock: cutoff = now - NotificationTTL;
\* every user's list keeps the notifications with CreatedAt.After(cutoff).
CleanupExpiredNotifications ==
    LET cutoff == now - TTL
    IN /\ notifs' = [u \in Users |-> SelectSeq(notifs[u], LAMBDA n : n.at > cutoff)]
       /\ cut' = cutoff
       /\ UNCHANGED <<subs, mem, hdr, nf, calls, steady, got, online, now, nextId, hist, marked>>

\* Time passes.
Tick ==
    /\ now < MaxTime
    /\ now' = now + 1
    /\ UNCHANGED <<subs, mem, hdr, notifs, nf, calls, steady, got, online, nextId, hist, marked, cut>>

\* GetNotifications, under RLock: from the newest back, the first `limit`
\* notifications (unread ones only, if asked).
GetNotifications(u, unreadOnly, limit) ==
    LET sel == SelectSeq(Reverse(notifs[u]), LAMBDA n : ~unreadOnly \/ ~n.read)
    IN SubSeq(sel, 1, IF limit < Len(sel) THEN limit ELSE Len(sel))

\* GetUnreadCount, under RLock.
GetUnreadCount(u) == Len(SelectSeq(notifs[u], LAMBDA n : ~n.read))

\* GetFollowerCount, under RLock: len(streamerFollowers[streamer]).
GetFollowerCount == hdr.len

NotifyStep == NotifyRead \/ NotifyCheck \/ NotifyAdd

Next ==
    \/ \E u \in Users, p \in Prefs : Subscribe(u, p)
    \/ \E u \in Users : Unsubscribe(u)
    \/ \E k \in Kinds : NotifyBegin(k)
    \/ NotifyRead \/ NotifyCheck \/ NotifyAdd
    \/ \E u \in Users : SendNotification(u)
    \/ \E u \in Users, i \in 0..nextId : MarkAsRead(u, i)
    \/ \E u \in Users : MarkAllAsRead(u)
    \/ \E u \in Users, b \in BOOLEAN : SetUserOnlineStatus(u, b)
    \/ CleanupExpiredNotifications
    \/ Tick

Spec == Init /\ [][Next]_vars

-----------------------------------------------------------------------------
TypeOK ==
    /\ DOMAIN subs \subseteq Users /\ \A u \in DOMAIN subs : subs[u] \in Prefs
    /\ \A a \in 1..Len(mem) : \A j \in DOMAIN mem[a] : mem[a][j] \in Users \cup {Null}
    /\ hdr.len \in 0..Cap(hdr)
    /\ \A u \in Users : /\ notifs[u] \in Seq([id : 0..nextId - 1, at : 0..now, read : BOOLEAN])
                        /\ Len(notifs[u]) <= MaxNotifs
    /\ nf.pc \in {"idle", "read", "check", "add"} /\ nf.kind \in Kinds
    /\ calls \in 0..MaxCalls
    /\ online \subseteq Users /\ now \in 0..MaxTime /\ cut \in -1..now

\* "NotifyStreamStarted notifies followers when a stream starts ... Send
\* notifications to all followers": when a notify call returns, every user
\* who was subscribed to this kind of notification for the whole call got
\* exactly one notification from it.  An Unsubscribe shifting the shared
\* array under the unlocked range loop, and a Subscribe writing into the
\* slot it freed, make the loop skip one follower and visit another twice.
EachFollowerNotifiedOnce ==
    nf.pc = "idle" /\ calls > 0 => \A u \in steady : got[u] = 1

\* The streamer's follower list (its live prefix in the shared array, the
\* count GetFollowerCount reports) holds exactly the subscribed users, each
\* once, whatever Subscribe's in-place appends and Unsubscribe's in-place
\* shifts have done to the array it shares with a running notifier.
FollowersMatchSubscriptions ==
    /\ GetFollowerCount = Cardinality(DOMAIN subs)
    /\ \A u \in DOMAIN subs : \E j \in 1..hdr.len : mem[hdr.arr][j] = u

\* Of the notifications ever added for a user, those created after the
\* last cleanup's cutoff, the newest MaxNotificationsPerUser of them.
Retained(u) ==
    LET live == SelectSeq(hist[u], LAMBDA h : h.at > cut)
        k == IF Len(live) < MaxNotifs THEN Len(live) ELSE MaxNotifs
    IN SubSeq(live, Len(live) - k + 1, Len(live))

\* What a user is shown: GetNotifications lists, newest first, exactly the
\* unexpired notifications added for the user that addNotification's cap
\* kept, each read exactly when MarkAsRead or MarkAllAsRead reached it,
\* and GetUnreadCount counts the unread ones; across the notifier's adds,
\* the cap, the cleanup's rebuild of every list and the read marks.
NotificationsShown ==
    \A u \in Users :
        LET r == Retained(u)
        IN /\ GetNotifications(u, FALSE, MaxNotifs) =
                Reverse([j \in 1..Len(r) |-> [id |-> r[j].id, at |-> r[j].at,
                                              read |-> r[j].id \in marked]])
           /\ GetUnreadCount(u) = Cardinality({j \in 1..Len(r) : r[j].id \notin marked})
=============================================================================
