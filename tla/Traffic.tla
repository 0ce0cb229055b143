------------------------------ MODULE Traffic ------------------------------
(***************************************************************************)
(* The traffic counters of the subscription manager                        *)
(* (service/subscriptions.go): the ingress loop publishes an event and     *)
(* calls Observe, API callers register and remove pairs, and Snapshot      *)
(* answers GET /dxlink/subscriptions.  Observe and Snapshot touch the      *)
(* three atomics of an entry one by one, Observe without the lock.         *)
(***************************************************************************)
EXTENDS Naturals

CONSTANTS
    Keys,       \* the (event, symbol) pairs in play
    MaxEvents,  \* bound: events published
    MaxCalls    \* bound: calls of Add, Remove and Snapshot, together

ASSUME TrafficAssumption == MaxEvents \in Nat /\ MaxCalls \in Nat

VARIABLES
    entry,      \* m.state: over the registered keys, the subState's atomics
    obs,        \* the ingress loop: where it is, the event's key, m.now()
    clock,      \* nanoseconds, as seen by m.now()
    since,      \* history: publishes of a key since it was registered
    snap,       \* the call of Snapshot in progress
    seen,       \* history: what the last Snapshot returned for a key
    calls       \* calls made so far

vars == <<entry, obs, clock, since, snap, seen, calls>>

Registered == DOMAIN entry
NoEntry == [msgCount |-> 0, firstSeenAt |-> 0, lastSeenAt |-> 0]
Info == [msgCount : 0..MaxEvents, firstSeenAt : 0..MaxEvents, lastSeenAt : 0..MaxEvents]

(* The points of Observe; at "lost" it holds an entry that is no longer in *)
(* the map.                                                                *)
ObservePoints == {"idle", "lookup", "count", "first", "last", "lost"}

(* Types of the variables. *)
TypeOK ==
    /\ Registered \subseteq Keys /\ \A k \in Registered : entry[k] \in Info
    /\ obs \in [at : ObservePoints, key : Keys, nsec : 0..MaxEvents]
    /\ clock \in 0..MaxEvents
    /\ since \in [Keys -> 0..MaxEvents]
    /\ snap \in [at : {"idle", "pick", "first", "last"}, left : SUBSET Keys, key : Keys, info : Info]
    /\ seen \in [Keys -> Info]
    /\ calls \in 0..MaxCalls

Init ==
    /\ entry = [k \in {} |-> NoEntry]
    /\ obs \in [at : {"idle"}, key : Keys, nsec : {0}]
    /\ clock = 0
    /\ since = [k \in Keys |-> 0]
    /\ snap \in [at : {"idle"}, left : {{}}, key : Keys, info : {NoEntry}]
    /\ seen = [k \in Keys |-> NoEntry]
    /\ calls = 0

-----------------------------------------------------------------------------
(* runIngressLoop publishes an event of k and goes on to Observe; events   *)
(* may come for pairs that are not registered.                             *)
Publish(k) ==
    /\ obs.at = "idle" /\ clock < MaxEvents
    /\ clock' = clock + 1
    /\ since' = [since EXCEPT ![k] = IF k \in Registered THEN @ + 1 ELSE @]
    /\ obs' = [at |-> "lookup", key |-> k, nsec |-> clock + 1]
    /\ UNCHANGED <<entry, snap, seen, calls>>

(* The entry is looked up under the read lock. *)
ObserveLookup ==
    /\ obs.at = "lookup"
    /\ obs' = [obs EXCEPT !.at = IF obs.key \in Registered THEN "count" ELSE "idle"]
    /\ UNCHANGED <<entry, clock, since, snap, seen, calls>>

(* The entry Observe holds, and one atomic write into it. *)
Held == entry[obs.key]
Write(at, next, written) ==
    /\ obs.at = at
    /\ obs' = [obs EXCEPT !.at = next]
    /\ entry' = [entry EXCEPT ![obs.key] = written]
    /\ UNCHANGED <<clock, since, snap, seen, calls>>

ObserveCount == Write("count", "first", [Held EXCEPT !.msgCount = Held.msgCount + 1])

(* Load, then CompareAndSwap(0, nsec). *)
ObserveFirst ==
    Write("first", "last",
          [Held EXCEPT !.firstSeenAt = IF Held.firstSeenAt = 0 THEN obs.nsec ELSE Held.firstSeenAt])

(* Mutant: the event is observed again. *)
ObserveLastAgain == Write("last", "lookup", [Held EXCEPT !.lastSeenAt = obs.nsec])

ObserveLast == Write("last", "idle", [Held EXCEPT !.lastSeenAt = obs.nsec])

(* The writes of an Observe whose entry is gone reach nobody. *)
ObserveLost ==
    /\ obs.at = "lost"
    /\ obs' = [obs EXCEPT !.at = "idle"]
    /\ UNCHANGED <<entry, clock, since, snap, seen, calls>>

-----------------------------------------------------------------------------
(* The commits of Add and Remove take m.mu, which Snapshot's read lock     *)
(* keeps out.                                                              *)
Register(k) ==
    /\ snap.at = "idle" /\ calls < MaxCalls
    /\ k \in Keys \ Registered
    /\ calls' = calls + 1
    /\ entry' = [q \in Registered \cup {k} |-> IF q = k THEN NoEntry ELSE entry[q]]
    /\ since' = [since EXCEPT ![k] = 0]
    /\ seen' = [seen EXCEPT ![k] = NoEntry]
    /\ UNCHANGED <<obs, clock, snap>>

Unregister(k) ==
    /\ snap.at = "idle" /\ calls < MaxCalls
    /\ k \in Registered
    /\ calls' = calls + 1
    /\ entry' = [q \in Registered \ {k} |-> entry[q]]
    /\ obs' = IF obs.at \in {"count", "first", "last"} /\ obs.key = k
                THEN [obs EXCEPT !.at = "lost"] ELSE obs
    /\ UNCHANGED <<clock, since, snap, seen>>

(* Snapshot holds the read lock and goes through the map in any order. *)
SnapshotBegin ==
    /\ snap.at = "idle" /\ calls < MaxCalls
    /\ calls' = calls + 1
    /\ snap' = [snap EXCEPT !.at = "pick", !.left = Registered]
    /\ UNCHANGED <<entry, obs, clock, since, seen>>

SnapshotCount(k) ==
    /\ snap.at = "pick" /\ k \in snap.left
    /\ snap' = [at |-> "first", left |-> snap.left \ {k}, key |-> k,
                info |-> [NoEntry EXCEPT !.msgCount = entry[k].msgCount]]
    /\ UNCHANGED <<entry, obs, clock, since, seen, calls>>

SnapshotFirst ==
    /\ snap.at = "first"
    /\ snap' = [snap EXCEPT !.at = "last", !.info.firstSeenAt = entry[snap.key].firstSeenAt]
    /\ UNCHANGED <<entry, obs, clock, since, seen, calls>>

(* Mutant: the count is read last. *)
SnapshotLastCounts ==
    /\ snap.at = "last"
    /\ seen' = [seen EXCEPT ![snap.key] =
                  [entry[snap.key] EXCEPT !.firstSeenAt = snap.info.firstSeenAt]]
    /\ snap' = [snap EXCEPT !.at = "pick", !.info = NoEntry]
    /\ UNCHANGED <<entry, obs, clock, since, calls>>

SnapshotLast ==
    /\ snap.at = "last"
    /\ seen' = [seen EXCEPT ![snap.key] =
                  [snap.info EXCEPT !.lastSeenAt = entry[snap.key].lastSeenAt]]
    /\ snap' = [snap EXCEPT !.at = "pick", !.info = NoEntry]
    /\ UNCHANGED <<entry, obs, clock, since, calls>>

SnapshotEnd ==
    /\ snap.at = "pick" /\ snap.left = {}
    /\ snap' = [snap EXCEPT !.at = "idle"]
    /\ UNCHANGED <<entry, obs, clock, since, seen, calls>>

-----------------------------------------------------------------------------
Observe == ObserveLookup \/ ObserveCount \/ ObserveFirst \/ ObserveLast \/ ObserveLost
Snapshot == SnapshotBegin \/ (\E k \in Keys : SnapshotCount(k))
            \/ SnapshotFirst \/ SnapshotLast \/ SnapshotEnd

Next ==
    \/ \E k \in Keys : Publish(k) \/ Register(k) \/ Unregister(k)
    \/ Observe
    \/ Snapshot

Spec == Init /\ [][Next]_vars

-----------------------------------------------------------------------------
(* msgCount is the number of messages published for the pair since it was  *)
(* registered, less the one inside Observe, and at most one more: a        *)
(* message published before the registration and looked up after it is     *)
(* counted (service.go:570-574).  An Observe that found the entry before a *)
(* Remove and an Add counts on the old one.                                *)
CountTracksPublished ==
    \A k \in Registered :
        /\ entry[k].msgCount <= since[k] + 1
        /\ since[k] <= entry[k].msgCount + (IF obs.at \in {"lookup", "count"} /\ obs.key = k THEN 1 ELSE 0)

(* What GET /dxlink/subscriptions can rely on although Snapshot reads the  *)
(* three atomics one by one: two messages counted mean that one is fully   *)
(* recorded, and the first sight is not after the last.  A count without   *)
(* times, times without a count and a last sight without a first are all   *)
(* possible on the first message.                                          *)
Coherent(i) ==
    /\ i.msgCount >= 2 => i.firstSeenAt # 0 /\ i.lastSeenAt # 0
    /\ (i.firstSeenAt # 0 /\ i.lastSeenAt # 0) => i.firstSeenAt <= i.lastSeenAt
SnapshotCoherent == \A k \in Registered : Coherent(seen[k])

=============================================================================
