----------------------------- MODULE StreamKeys -----------------------------
(***************************************************************************)
(* StreamKeyManager of src/pkg/streaming/streamkey.go, with the validate   *)
(* handler of src/pkg/service/streaming_api.go that composes two of its    *)
(* calls.  Every manager method holds m.mu for its whole body, so each is  *)
(* one action.  handleValidateStreamKey calls ValidateStreamKey (under     *)
(* RLock) and then MarkKeyAsUsed (under Lock), and answers valid:true      *)
(* after the second call whatever it returned: it is a process of two     *)
(* steps, and any other method may run between them.                       *)
(*                                                                         *)
(* Keys are drawn from a set of model values never reused, as 256-bit      *)
(* random keys are.  Time is a tick counter; ExpiresAt is now + expiresIn. *)
(* Metadata and permissions are left out: no operation reads them.         *)
(***************************************************************************)
EXTENDS Integers, Sequences, SequencesExt, FiniteSets

CONSTANTS
    Keys,       \* the keys rand.Read may produce
    Owners,     \* streamer identities
    Handlers,   \* concurrent handleValidateStreamKey requests
    TTLs,       \* expiresIn values a generate request may carry, in ticks
    MaxTime,    \* bound: the clock
    MaxUses,    \* bound: valid:true answers per key
    NoExpiry    \* a model value: ExpiresAt == nil

Idle == "idle"          \* a handler not inside a request

VARIABLES
    now,            \* the clock
    keys,           \* m.keys: key -> [owner, active, exp, usage]
    streamerKeys,   \* m.streamerKeys: owner -> key list
    issued,         \* keys generated so far (rand never repeats one)
    pc              \* handler -> Idle, or the key it validated

vars == <<now, keys, streamerKeys, issued, pc>>

\* The code's expiry test: ExpiresAt != nil && now.After(*ExpiresAt).
Expired(k) == keys[k].exp # NoExpiry /\ now > keys[k].exp

-----------------------------------------------------------------------------
Init ==
    /\ now = 0
    /\ keys = [k \in {} |-> {}]
    /\ streamerKeys = [o \in Owners |-> <<>>]
    /\ issued = {}
    /\ pc = [h \in Handlers |-> Idle]

Tick ==
    /\ now < MaxTime
    /\ now' = now + 1
    /\ UNCHANGED <<keys, streamerKeys, issued, pc>>

\* GenerateStreamKey(owner, room, nil, expiresIn): an active key with no
\* use, appended to the owner's list.
GenerateStreamKey(k, o, ttl) ==
    /\ k \notin issued
    /\ keys' = [x \in DOMAIN keys \cup {k} |->
                  IF x = k
                  THEN [owner |-> o, active |-> TRUE, usage |-> 0,
                        exp |-> IF ttl = NoExpiry THEN NoExpiry ELSE now + ttl]
                  ELSE keys[x]]
    /\ streamerKeys' = [streamerKeys EXCEPT ![o] = Append(@, k)]
    /\ issued' = issued \cup {k}
    /\ UNCHANGED <<now, pc>>

\* ValidateStreamKey's checks: the key exists, is active and is unexpired.
Valid(k) == k \in DOMAIN keys /\ keys[k].active /\ ~Expired(k)

\* handleValidateStreamKey, first step: ValidateStreamKey succeeds.
ValidateStreamKey(h, k) ==
    /\ pc[h] = Idle
    /\ Valid(k)
    /\ keys[k].usage + Cardinality({x \in Handlers : pc[x] = k}) < MaxUses
    /\ pc' = [pc EXCEPT ![h] = k]
    /\ UNCHANGED <<now, keys, streamerKeys, issued>>

\* handleValidateStreamKey when ValidateStreamKey fails: 401, no change.
ValidateRejected(h, k) ==
    /\ pc[h] = Idle
    /\ ~Valid(k)
    /\ UNCHANGED vars

\* Seeded fault: the usage count is bumped twice.
MarkKeyAsUsedTwice(ks, k) ==
    IF k \in DOMAIN ks THEN [ks EXCEPT ![k].usage = @ + 2] ELSE ks

\* MarkKeyAsUsed: the usage count of an existing key goes up.
MarkKeyAsUsed(ks, k) ==
    IF k \in DOMAIN ks THEN [ks EXCEPT ![k].usage = @ + 1] ELSE ks

\* handleValidateStreamKey, second step: MarkKeyAsUsed, its error ignored,
\* and the valid:true answer.
MarkAndRespond(h) ==
    /\ pc[h] # Idle
    /\ keys' = MarkKeyAsUsed(keys, pc[h])
    /\ pc' = [pc EXCEPT ![h] = Idle]
    /\ UNCHANGED <<now, streamerKeys, issued>>

\* RevokeStreamKey: IsActive := false on an existing key.
RevokeStreamKey(k) ==
    /\ k \in DOMAIN keys
    /\ keys' = [keys EXCEPT ![k].active = FALSE]
    /\ UNCHANGED <<now, streamerKeys, issued, pc>>

\* Seeded fault: the key leaves m.keys but stays in the owner's list.
DeleteFromIndexSkipped(k) ==
    /\ keys' = [x \in DOMAIN keys \ {k} |-> keys[x]]
    /\ UNCHANGED streamerKeys

\* The removal DeleteStreamKey and CleanupExpiredKeys share: out of m.keys
\* and out of the owner's list (the loop removes the first match and breaks).
DeleteFromIndex(k) ==
    /\ keys' = [x \in DOMAIN keys \ {k} |-> keys[x]]
    /\ streamerKeys' = [streamerKeys EXCEPT ![keys[k].owner] = RemoveFirst(@, k)]

\* DeleteStreamKey.
DeleteStreamKey(k) ==
    /\ k \in DOMAIN keys
    /\ DeleteFromIndex(k)
    /\ UNCHANGED <<now, issued, pc>>

\* CleanupExpiredKeys: one pass, under the lock, removing every expired key
\* from m.keys and from its owner's list.
CleanupExpiredKeys ==
    LET gone == {k \in DOMAIN keys : Expired(k)}
    IN /\ gone # {}
       /\ keys' = [x \in DOMAIN keys \ gone |-> keys[x]]
       /\ streamerKeys' = [o \in Owners |->
                             SelectSeq(streamerKeys[o], LAMBDA x : x \notin gone)]
       /\ UNCHANGED <<now, issued, pc>>

\* GetStreamKeysByStreamer, under m.mu.RLock: the owner's list, skipping
\* ids that are no longer in m.keys.
GetStreamKeysByStreamer(o) ==
    SelectSeq(streamerKeys[o], LAMBDA k : k \in DOMAIN keys)

Next ==
    \/ Tick
    \/ \E k \in Keys, o \in Owners, t \in TTLs : GenerateStreamKey(k, o, t)
    \/ \E h \in Handlers, k \in Keys : ValidateStreamKey(h, k) \/ ValidateRejected(h, k)
    \/ \E h \in Handlers : MarkAndRespond(h)
    \/ \E k \in Keys : RevokeStreamKey(k) \/ DeleteStreamKey(k)
    \/ CleanupExpiredKeys

Spec == Init /\ [][Next]_vars

-----------------------------------------------------------------------------
TypeOK ==
    /\ now \in 0..MaxTime
    /\ DOMAIN keys \subseteq issued /\ issued \subseteq Keys
    /\ \A k \in DOMAIN keys :
          keys[k] \in [owner : Owners, active : BOOLEAN, usage : 0..MaxUses,
                       exp : {NoExpiry} \cup Nat]
    /\ streamerKeys \in [Owners -> Seq(Keys)]
    /\ pc \in [Handlers -> {Idle} \cup Keys]

\* The owner index that GenerateStreamKey, DeleteStreamKey and
\* CleanupExpiredKeys maintain beside m.keys lists every stored key exactly
\* once, under its owner, and nothing else: GetStreamKeysByStreamer never
\* has a dangling id to skip, and returns each key of a streamer once.
IndexMatchesKeys ==
    \A o \in Owners :
        /\ GetStreamKeysByStreamer(o) = streamerKeys[o]
        /\ IsInjective(streamerKeys[o])
        /\ ToSet(streamerKeys[o]) = {k \in DOMAIN keys : keys[k].owner = o}
=============================================================================
