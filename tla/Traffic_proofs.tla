--------------------------- MODULE Traffic_proofs ---------------------------
(***************************************************************************)
(* Proofs about Traffic, for every set of keys and every bound on events   *)
(* and calls: what the counters and a Snapshot of them can be relied on    *)
(* for although Observe writes, and Snapshot reads, one atomic at a time.  *)
(***************************************************************************)
EXTENDS Traffic, TLAPS

(* Observe is at work on the pair k: about to count it, or past the count. *)
Owes(k) == obs.at \in {"lookup", "count"} /\ obs.key = k
Recording(k) == obs.at \in {"first", "last"} /\ obs.key = k

(* Observe holds an entry of the map until it is "lost", and works with    *)
(* the time of the last event.                                             *)
ObserveInv ==
    /\ entry \in [Registered -> Info]
    /\ obs.at \in {"count", "first", "last"} => obs.key \in Registered
    /\ obs.at # "idle" => clock >= 1 /\ obs.nsec = clock

(* The event Observe owes is part of what was published, but not of what   *)
(* was counted.                                                            *)
Owed(k) == IF Owes(k) THEN 1 ELSE 0
CountInv ==
    /\ \A k \in Keys : since[k] <= clock
    /\ \A k \in Registered :
        /\ entry[k].msgCount + Owed(k) <= clock
        /\ entry[k].msgCount + Owed(k) <= since[k] + 1
        /\ since[k] <= entry[k].msgCount + Owed(k)

(* An entry between the writes of Observe: the sight of a counted message  *)
(* is missing only while Observe records it.                               *)
EntryInv ==
    \A k \in Registered :
        /\ entry[k].firstSeenAt <= clock /\ entry[k].lastSeenAt <= clock
        /\ entry[k].lastSeenAt # 0 =>
               entry[k].firstSeenAt # 0 /\ entry[k].firstSeenAt <= entry[k].lastSeenAt
        /\ entry[k].msgCount >= 2 => entry[k].lastSeenAt # 0
        /\ (entry[k].msgCount >= 1 /\ ~Recording(k)) => entry[k].lastSeenAt # 0
        /\ (obs.at = "last" /\ obs.key = k) => entry[k].firstSeenAt # 0

(* What Snapshot has read of an entry and not yet handed out, against what *)
(* it will still read; the read lock keeps the entry in the map.           *)
SnapInv ==
    /\ snap.at # "idle" => snap.left \subseteq Registered
    /\ snap.at \in {"first", "last"} =>
        /\ snap.key \in Registered
        /\ snap.info.msgCount >= 2 => entry[snap.key].lastSeenAt # 0
    /\ snap.at = "last" =>
        /\ snap.info.msgCount >= 2 => snap.info.firstSeenAt # 0
        /\ snap.info.firstSeenAt # 0 => snap.info.firstSeenAt = entry[snap.key].firstSeenAt

IInv == TypeOK /\ ObserveInv /\ CountInv /\ EntryInv /\ SnapInv /\ SnapshotCoherent

(* Nothing is registered, observed or read in the initial state. *)
LEMMA InitIInv == Init => IInv
<1> SUFFICES ASSUME Init PROVE IInv
  OBVIOUS
<1> USE TrafficAssumption DEF Init
<1>1. NoEntry \in Info
  BY DEF NoEntry, Info
<1>2. Registered = {}
  BY DEF Registered
<1>3. TypeOK
  BY <1>1, <1>2 DEF TypeOK, ObservePoints
<1>4. ObserveInv
  BY <1>2 DEF ObserveInv, Registered
<1>5. CountInv /\ EntryInv /\ SnapInv /\ SnapshotCoherent
  BY <1>2 DEF CountInv, EntryInv, SnapInv, SnapshotCoherent
<1>6. QED
  BY <1>3, <1>4, <1>5 DEF IInv

(* The loop publishes: the event is owed to its pair, if that is registered. *)
LEMMA PublishStep ==
    ASSUME IInv, NEW k \in Keys, Publish(k)
    PROVE  IInv'
<1> USE TrafficAssumption DEF IInv, Publish
<1>1. /\ Registered' = Registered /\ Registered \subseteq Keys
      /\ clock \in Nat /\ clock' \in 0..MaxEvents
      /\ obs'.at = "lookup" /\ obs'.key = k /\ obs'.nsec = clock'
  BY DEF Registered, TypeOK
<1>2. since' \in [Keys -> 0..MaxEvents]
  BY <1>1 DEF CountInv, TypeOK
<1>3. TypeOK'
  BY <1>1, <1>2 DEF TypeOK, ObservePoints
<1>4. ObserveInv'
  BY <1>1 DEF ObserveInv
<1>5. CountInv'
  BY <1>1, <1>2 DEF CountInv, TypeOK, Owed, Owes, Info
<1>6. EntryInv'
  BY <1>1 DEF EntryInv, TypeOK, Recording, Info
<1>7. SnapInv' /\ SnapshotCoherent'
  BY <1>1 DEF SnapInv, SnapshotCoherent, Coherent
<1>8. QED
  BY <1>3, <1>4, <1>5, <1>6, <1>7

(* Observe finds its entry, or gives up. *)
LEMMA LookupStep ==
    ASSUME IInv, ObserveLookup
    PROVE  IInv'
<1> USE DEF IInv, ObserveLookup
<1>1. /\ Registered' = Registered /\ Registered \subseteq Keys
      /\ obs.at = "lookup" /\ obs'.key = obs.key /\ obs'.nsec = obs.nsec
      /\ obs'.at = IF obs.key \in Registered THEN "count" ELSE "idle"
      /\ obs' \in [at : ObservePoints, key : Keys, nsec : 0..MaxEvents]
  BY DEF Registered, TypeOK, ObservePoints
<1>2. TypeOK'
  BY <1>1 DEF TypeOK
<1>3. ObserveInv'
  BY <1>1 DEF ObserveInv
<1>4. CountInv'
  BY <1>1 DEF CountInv, Owed, Owes
<1>5. EntryInv'
  BY <1>1 DEF EntryInv, Recording
<1>6. SnapInv' /\ SnapshotCoherent'
  BY <1>1 DEF SnapInv, SnapshotCoherent, Coherent
<1>7. QED
  BY <1>2, <1>3, <1>4, <1>5, <1>6

(* The writes of a lost Observe change nothing. *)
LEMMA LostStep ==
    ASSUME IInv, ObserveLost
    PROVE  IInv'
<1> USE DEF IInv, ObserveLost
<1>1. /\ Registered' = Registered
      /\ obs.at = "lost" /\ obs'.at = "idle" /\ obs'.key = obs.key
      /\ obs' \in [at : ObservePoints, key : Keys, nsec : 0..MaxEvents]
  BY DEF Registered, TypeOK, ObservePoints
<1>2. TypeOK' /\ ObserveInv'
  BY <1>1 DEF TypeOK, ObserveInv
<1>3. CountInv' /\ EntryInv'
  BY <1>1 DEF CountInv, Owed, Owes, EntryInv, Recording
<1>4. SnapInv' /\ SnapshotCoherent'
  BY <1>1 DEF SnapInv, SnapshotCoherent, Coherent
<1>5. QED
  BY <1>2, <1>3, <1>4

(* An atomic write of Observe changes one entry of the map, and nothing    *)
(* else but the point Observe is at.                                       *)
LEMMA WriteFacts ==
    ASSUME IInv, NEW at \in {"count", "first", "last"}, NEW next \in ObservePoints,
           NEW written \in Info, Write(at, next, written)
    PROVE  /\ obs.key \in Registered /\ Registered' = Registered
           /\ entry' \in [Registered -> Info]
           /\ entry'[obs.key] = written
           /\ \A k \in Registered : k # obs.key => entry'[k] = entry[k]
           /\ obs.at = at /\ obs'.at = next /\ obs'.key = obs.key /\ obs'.nsec = obs.nsec
           /\ UNCHANGED <<clock, since, snap, seen, calls>>
           /\ TypeOK'
<1> USE DEF IInv, Write
<1>1. obs.key \in Registered /\ entry \in [Registered -> Info]
  BY DEF ObserveInv
<1>2. /\ Registered' = Registered
      /\ entry' \in [Registered -> Info]
      /\ entry'[obs.key] = written
      /\ \A k \in Registered : k # obs.key => entry'[k] = entry[k]
  BY <1>1 DEF Registered
<1>3. /\ obs'.at = next /\ obs'.key = obs.key /\ obs'.nsec = obs.nsec
      /\ obs' \in [at : ObservePoints, key : Keys, nsec : 0..MaxEvents]
  BY DEF TypeOK
<1>4. TypeOK'
  BY <1>2, <1>3 DEF TypeOK
<1>5. QED
  BY <1>1, <1>2, <1>3, <1>4

(* The message is counted: it is owed no more, and if it is not the first  *)
(* one of the entry, the sight of the one before is recorded.              *)
LEMMA CountStep ==
    ASSUME IInv, ObserveCount
    PROVE  IInv'
<1> DEFINE written == [Held EXCEPT !.msgCount = Held.msgCount + 1]
<1>1. /\ obs.at = "count" /\ obs.key \in Registered /\ Held = entry[obs.key] /\ Held \in Info
      /\ clock \in 0..MaxEvents
      /\ since \in [Keys -> 0..MaxEvents] /\ Registered \subseteq Keys
      /\ Held.msgCount + 1 <= clock
  BY DEF IInv, ObserveCount, Write, ObserveInv, Held, CountInv, Owed, Owes, TypeOK
<1>2. /\ written \in Info
      /\ written.msgCount = Held.msgCount + 1
      /\ written.firstSeenAt = Held.firstSeenAt /\ written.lastSeenAt = Held.lastSeenAt
  BY <1>1, TrafficAssumption DEF Info
<1> HIDE DEF written
<1>3. Write("count", "first", written)
  BY DEF ObserveCount, written
<1>4. /\ Registered' = Registered
      /\ entry' \in [Registered -> Info]
      /\ entry'[obs.key] = written
      /\ \A k \in Registered : k # obs.key => entry'[k] = entry[k]
      /\ obs'.at = "first" /\ obs'.key = obs.key /\ obs'.nsec = obs.nsec
      /\ UNCHANGED <<clock, since, snap, seen, calls>>
      /\ TypeOK'
  BY <1>2, <1>3, WriteFacts DEF ObservePoints
<1>5. ObserveInv'
  BY <1>1, <1>4 DEF IInv, ObserveInv
<1>6. CountInv'
  BY <1>1, <1>2, <1>4 DEF IInv, CountInv, Owed, Owes, Info
<1>7. EntryInv'
  BY <1>1, <1>2, <1>4 DEF IInv, EntryInv, Recording, Info
<1>8. SnapInv' /\ SnapshotCoherent'
  BY <1>1, <1>2, <1>4 DEF IInv, SnapInv, SnapshotCoherent, Coherent
<1>9. QED
  BY <1>4, <1>5, <1>6, <1>7, <1>8 DEF IInv

(* The first sight is set once and never moved. *)
LEMMA FirstStep ==
    ASSUME IInv, ObserveFirst
    PROVE  IInv'
<1> DEFINE sight == IF Held.firstSeenAt = 0 THEN obs.nsec ELSE Held.firstSeenAt
           written == [Held EXCEPT !.firstSeenAt = sight]
<1>1. /\ obs.at = "first" /\ obs.key \in Registered /\ Held = entry[obs.key] /\ Held \in Info
      /\ clock \in 0..MaxEvents /\ obs.nsec = clock /\ clock >= 1
      /\ since \in [Keys -> 0..MaxEvents] /\ Registered \subseteq Keys
  BY DEF IInv, ObserveFirst, Write, ObserveInv, Held, TypeOK
<1>2. /\ written \in Info /\ written.firstSeenAt # 0 /\ written.firstSeenAt <= clock
      /\ Held.firstSeenAt # 0 => written.firstSeenAt = Held.firstSeenAt
      /\ written.msgCount = Held.msgCount /\ written.lastSeenAt = Held.lastSeenAt
  BY <1>1, TrafficAssumption DEF Info, IInv, EntryInv
<1> HIDE DEF written
<1>3. Write("first", "last", written)
  BY DEF ObserveFirst, written
<1>4. /\ Registered' = Registered
      /\ entry' \in [Registered -> Info]
      /\ entry'[obs.key] = written
      /\ \A k \in Registered : k # obs.key => entry'[k] = entry[k]
      /\ obs'.at = "last" /\ obs'.key = obs.key /\ obs'.nsec = obs.nsec
      /\ UNCHANGED <<clock, since, snap, seen, calls>>
      /\ TypeOK'
  BY <1>2, <1>3, WriteFacts DEF ObservePoints
<1>5. ObserveInv'
  BY <1>1, <1>4 DEF IInv, ObserveInv
<1>6. CountInv'
  BY <1>1, <1>2, <1>4 DEF IInv, CountInv, Owed, Owes, Info
<1>7. EntryInv'
  BY <1>1, <1>2, <1>4 DEF IInv, EntryInv, Recording, Info
<1>8. SnapInv' /\ SnapshotCoherent'
  BY <1>1, <1>2, <1>4 DEF IInv, SnapInv, SnapshotCoherent, Coherent
<1>9. QED
  BY <1>4, <1>5, <1>6, <1>7, <1>8 DEF IInv

(* The last sight is the time of the last event, not before the first. *)
LEMMA LastStep ==
    ASSUME IInv, ObserveLast
    PROVE  IInv'
<1> DEFINE written == [Held EXCEPT !.lastSeenAt = obs.nsec]
<1>1. /\ obs.at = "last" /\ obs.key \in Registered /\ Held = entry[obs.key] /\ Held \in Info
      /\ clock \in 0..MaxEvents /\ obs.nsec = clock /\ clock >= 1
      /\ since \in [Keys -> 0..MaxEvents] /\ Registered \subseteq Keys
  BY DEF IInv, ObserveLast, Write, ObserveInv, Held, TypeOK
<1>2. /\ written \in Info /\ written.lastSeenAt = clock
      /\ written.msgCount = Held.msgCount /\ written.firstSeenAt = Held.firstSeenAt
  BY <1>1, TrafficAssumption DEF Info
<1> HIDE DEF written
<1>3. Write("last", "idle", written)
  BY DEF ObserveLast, written
<1>4. /\ Registered' = Registered
      /\ entry' \in [Registered -> Info]
      /\ entry'[obs.key] = written
      /\ \A k \in Registered : k # obs.key => entry'[k] = entry[k]
      /\ obs'.at = "idle" /\ obs'.key = obs.key /\ obs'.nsec = obs.nsec
      /\ UNCHANGED <<clock, since, snap, seen, calls>>
      /\ TypeOK'
  BY <1>2, <1>3, WriteFacts DEF ObservePoints
<1>5. ObserveInv'
  BY <1>1, <1>4 DEF IInv, ObserveInv
<1>6. CountInv'
  BY <1>1, <1>2, <1>4 DEF IInv, CountInv, Owed, Owes, Info
<1>7. EntryInv'
  BY <1>1, <1>2, <1>4 DEF IInv, EntryInv, Recording, Info
<1>8. SnapInv' /\ SnapshotCoherent'
  BY <1>1, <1>2, <1>4 DEF IInv, SnapInv, SnapshotCoherent, Coherent
<1>9. QED
  BY <1>4, <1>5, <1>6, <1>7, <1>8 DEF IInv

(* A new entry starts from nothing; a pair that is registered is not the   *)
(* one whose entry Observe holds.                                          *)
LEMMA RegisterStep ==
    ASSUME IInv, NEW k \in Keys, Register(k)
    PROVE  IInv'
<1> USE TrafficAssumption DEF IInv, Register
<1>1. /\ NoEntry \in Info
      /\ NoEntry.msgCount = 0 /\ NoEntry.firstSeenAt = 0 /\ NoEntry.lastSeenAt = 0
  BY DEF NoEntry, Info
<1>2. /\ k \notin Registered /\ Registered' = Registered \cup {k} /\ Registered \subseteq Keys
      /\ entry' \in [Registered' -> Info] /\ entry'[k] = NoEntry
      /\ \A q \in Registered : entry'[q] = entry[q]
      /\ clock \in Nat
  BY <1>1 DEF Registered, TypeOK, ObserveInv
<1>3. /\ since' \in [Keys -> 0..MaxEvents] /\ since'[k] = 0
      /\ \A q \in Registered : since'[q] = since[q]
      /\ seen' \in [Keys -> Info] /\ seen'[k] = NoEntry
      /\ \A q \in Registered : seen'[q] = seen[q]
  BY <1>1, <1>2 DEF TypeOK
<1>4. TypeOK'
  BY <1>2, <1>3 DEF TypeOK
<1>5. ObserveInv'
  BY <1>2 DEF ObserveInv
<1>6. CountInv'
  BY <1>1, <1>2, <1>3 DEF CountInv, Owed, Owes, ObserveInv, TypeOK
<1>7. EntryInv'
  BY <1>1, <1>2 DEF EntryInv, Recording, ObserveInv
<1>8. SnapInv'
  BY <1>2 DEF SnapInv
<1>9. SnapshotCoherent'
  BY <1>1, <1>2, <1>3 DEF SnapshotCoherent, Coherent
<1>10. QED
  BY <1>4, <1>5, <1>6, <1>7, <1>8, <1>9

(* A removed entry takes the Observe that holds it out of the map. *)
LEMMA UnregisterStep ==
    ASSUME IInv, NEW k \in Keys, Unregister(k)
    PROVE  IInv'
<1> USE TrafficAssumption DEF IInv, Unregister
<1>1. /\ Registered' = Registered \ {k} /\ Registered \subseteq Keys
      /\ entry' \in [Registered' -> Info]
      /\ \A q \in Registered' : entry'[q] = entry[q]
  BY DEF Registered, TypeOK, ObserveInv
<1>2. /\ obs' \in [at : ObservePoints, key : Keys, nsec : 0..MaxEvents]
      /\ obs'.key = obs.key /\ obs'.nsec = obs.nsec
      /\ obs'.at = IF obs.at \in {"count", "first", "last"} /\ obs.key = k
                     THEN "lost" ELSE obs.at
  BY DEF TypeOK, ObservePoints
<1>3. TypeOK'
  BY <1>1, <1>2 DEF TypeOK
<1>4. ObserveInv'
  BY <1>1, <1>2 DEF ObserveInv
<1>5. CountInv' /\ EntryInv'
  BY <1>1, <1>2 DEF CountInv, Owed, Owes, EntryInv, Recording
<1>6. SnapInv' /\ SnapshotCoherent'
  BY <1>1 DEF SnapInv, SnapshotCoherent, Coherent
<1>7. QED
  BY <1>3, <1>4, <1>5, <1>6

(* What no step of Snapshot touches. *)
LEMMA SnapshotFrame ==
    ASSUME IInv, UNCHANGED <<entry, obs, clock, since>>
    PROVE  Registered' = Registered /\ ObserveInv' /\ CountInv' /\ EntryInv'
BY DEF IInv, Registered, ObserveInv, CountInv, Owed, Owes, EntryInv, Recording

(* Snapshot takes the read lock, goes through the map, reads the count of  *)
(* a pair, then its first and its last sight, and ends.                    *)
LEMMA SnapshotStep ==
    ASSUME IInv, Snapshot
    PROVE  IInv'
<1> USE TrafficAssumption DEF IInv
<1> DEFINE Calling == [at : {"idle", "pick", "first", "last"}, left : SUBSET Keys,
                       key : Keys, info : Info]
<1>1. snap \in Calling /\ Registered \subseteq Keys
  BY DEF TypeOK
<1>2. CASE SnapshotBegin
  <2> USE <1>2 DEF SnapshotBegin
  <2>1. Registered' = Registered /\ ObserveInv' /\ CountInv' /\ EntryInv'
    BY SnapshotFrame
  <2>2. snap' \in Calling /\ snap'.at = "pick" /\ snap'.left = Registered
    BY <1>1
  <2>3. TypeOK'
    BY <2>1, <2>2 DEF TypeOK
  <2>4. SnapInv' /\ SnapshotCoherent'
    BY <2>1, <2>2 DEF SnapInv, SnapshotCoherent, Coherent
  <2>5. QED
    BY <2>1, <2>3, <2>4
<1>3. CASE \E k \in Keys : SnapshotCount(k)
  <2> PICK k \in Keys : SnapshotCount(k)
    BY <1>3
  <2> USE DEF SnapshotCount
  <2>1. Registered' = Registered /\ ObserveInv' /\ CountInv' /\ EntryInv'
    BY SnapshotFrame
  <2>2. k \in Registered /\ entry[k] \in Info
    BY DEF SnapInv, ObserveInv
  <2>3. /\ snap'.at = "first" /\ snap'.left = snap.left \ {k} /\ snap'.key = k
        /\ snap'.info \in Info /\ snap'.info.msgCount = entry[k].msgCount
        /\ snap' \in Calling
    BY <1>1, <2>2 DEF NoEntry, Info
  <2>4. TypeOK'
    BY <2>1, <2>3 DEF TypeOK
  <2>5. SnapInv' /\ SnapshotCoherent'
    BY <2>1, <2>2, <2>3 DEF SnapInv, EntryInv, SnapshotCoherent, Coherent
  <2>6. QED
    BY <2>1, <2>4, <2>5
<1>4. CASE SnapshotFirst
  <2> USE <1>4 DEF SnapshotFirst
  <2>1. Registered' = Registered /\ ObserveInv' /\ CountInv' /\ EntryInv'
    BY SnapshotFrame
  <2>2. snap.key \in Registered /\ entry[snap.key] \in Info
    BY DEF SnapInv, ObserveInv
  <2>3. /\ snap'.at = "last" /\ snap'.left = snap.left /\ snap'.key = snap.key
        /\ snap'.info.msgCount = snap.info.msgCount
        /\ snap'.info.firstSeenAt = entry[snap.key].firstSeenAt
        /\ snap' \in Calling
    BY <1>1, <2>2 DEF Info
  <2>4. TypeOK'
    BY <2>1, <2>3 DEF TypeOK
  <2>5. SnapInv' /\ SnapshotCoherent'
    BY <2>1, <2>2, <2>3 DEF SnapInv, EntryInv, SnapshotCoherent, Coherent
  <2>6. QED
    BY <2>1, <2>4, <2>5
<1>5. CASE SnapshotLast
  <2> USE <1>5 DEF SnapshotLast
  <2>1. Registered' = Registered /\ ObserveInv' /\ CountInv' /\ EntryInv'
    BY SnapshotFrame
  <2>2. /\ snap.key \in Registered /\ entry[snap.key] \in Info /\ snap.key \in Keys
        /\ snap.info \in Info /\ seen \in [Keys -> Info]
    BY <1>1 DEF SnapInv, ObserveInv, TypeOK
  <2>3. snap' \in Calling /\ snap'.at = "pick" /\ snap'.left = snap.left
    <3>1. NoEntry \in Info
      BY DEF NoEntry, Info
    <3>2. QED
      BY <1>1, <3>1
  <2> DEFINE read == [snap.info EXCEPT !.lastSeenAt = entry[snap.key].lastSeenAt]
  <2>4. /\ read \in Info /\ read.msgCount = snap.info.msgCount
        /\ read.firstSeenAt = snap.info.firstSeenAt
        /\ read.lastSeenAt = entry[snap.key].lastSeenAt
    BY <2>2 DEF Info
  <2>5. seen' = [seen EXCEPT ![snap.key] = read]
    OBVIOUS
  <2> HIDE DEF read
  <2>6. Coherent(read)
    BY <2>2, <2>4 DEF Coherent, SnapInv, EntryInv
  <2>7. TypeOK'
    BY <2>1, <2>2, <2>3, <2>4, <2>5 DEF TypeOK
  <2>8. SnapInv'
    BY <2>1, <2>3 DEF SnapInv
  <2>9. SnapshotCoherent'
    BY <1>1, <2>1, <2>2, <2>5, <2>6 DEF SnapshotCoherent
  <2>10. QED
    BY <2>1, <2>7, <2>8, <2>9
<1>6. CASE SnapshotEnd
  <2> USE <1>6 DEF SnapshotEnd
  <2>1. Registered' = Registered /\ ObserveInv' /\ CountInv' /\ EntryInv'
    BY SnapshotFrame
  <2>2. snap' \in Calling /\ snap'.at = "idle"
    BY <1>1
  <2>3. TypeOK'
    BY <2>1, <2>2 DEF TypeOK
  <2>4. SnapInv' /\ SnapshotCoherent'
    BY <2>1, <2>2 DEF SnapInv, SnapshotCoherent, Coherent
  <2>5. QED
    BY <2>1, <2>3, <2>4
<1>7. QED
  BY <1>2, <1>3, <1>4, <1>5, <1>6 DEF Snapshot

(* Every step preserves the invariant. *)
LEMMA Inductive == IInv /\ [Next]_vars => IInv'
<1> SUFFICES ASSUME IInv, [Next]_vars PROVE IInv'
  OBVIOUS
<1>1. CASE \E k \in Keys : Publish(k) \/ Register(k) \/ Unregister(k)
  BY <1>1, PublishStep, RegisterStep, UnregisterStep
<1>2. CASE Observe
  BY <1>2, LookupStep, CountStep, FirstStep, LastStep, LostStep DEF Observe
<1>3. CASE Snapshot
  BY <1>3, SnapshotStep
<1>4. CASE UNCHANGED vars
  <2>1. Registered' = Registered /\ ObserveInv' /\ CountInv' /\ EntryInv'
    BY <1>4, SnapshotFrame DEF vars
  <2>2. QED
    BY <1>4, <2>1 DEF vars, IInv, TypeOK, SnapInv, SnapshotCoherent, Coherent
<1>5. QED
  BY <1>1, <1>2, <1>3, <1>4 DEF Next

(* The strengthened invariant holds throughout. *)
THEOREM Invariance == Spec => []IInv
<1>1. Init => IInv
  BY InitIInv
<1>2. IInv /\ [Next]_vars => IInv'
  BY Inductive
<1>3. QED
  BY <1>1, <1>2, PTL DEF Spec

(* msgCount, as Observe counts it without the lock, is what was published  *)
(* for the pair since it was registered, less the message inside Observe   *)
(* and at most one more, for every number of pairs, events and calls.      *)
THEOREM CountsPublished == Spec => []CountTracksPublished
<1>1. IInv => CountTracksPublished
  <2> SUFFICES ASSUME IInv, NEW k \in Registered
               PROVE  /\ entry[k].msgCount <= since[k] + 1
                      /\ since[k] <= entry[k].msgCount + Owed(k)
    BY DEF CountTracksPublished, Owed, Owes
  <2>1. entry[k].msgCount \in Nat /\ since[k] \in Nat /\ Owed(k) \in {0, 1}
    BY TrafficAssumption DEF IInv, TypeOK, Info, Owed
  <2>2. QED
    BY <2>1 DEF IInv, CountInv
<1>2. QED
  BY Invariance, <1>1, PTL

(* Whatever the interleaving of Snapshot's reads with Observe's writes, an *)
(* answer that counts two messages shows both times, and they are in       *)
(* order.                                                                  *)
THEOREM SnapshotsCohere == Spec => []SnapshotCoherent
<1>1. IInv => SnapshotCoherent
  BY DEF IInv
<1>2. QED
  BY Invariance, <1>1, PTL

(* The state keeps its types: in particular no counter outgrows the events *)
(* published, and only pairs in play are registered.                       *)
THEOREM TypeCorrect == Spec => []TypeOK
<1>1. IInv => TypeOK
  BY DEF IInv
<1>2. QED
  BY Invariance, <1>1, PTL

=============================================================================
