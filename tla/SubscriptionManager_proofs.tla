---------------------- MODULE SubscriptionManager_proofs ----------------------
(***************************************************************************)
(* Proofs about SubscriptionManager, for every set of keys and callers and *)
(* every value of the bounds.                                              *)
(***************************************************************************)
EXTENDS SubscriptionManager, TLAPS

(* A call that is past its check; shape of the call record. *)
CallShape ==
    \A p \in Callers :
        /\ call[p].at = "idle" => call[p].keys = {}
        /\ call[p].at # "idle" => call[p].op \in {"add", "remove"}
        /\ call[p].at \in {"send", "commit"} => call[p].conn \in Conns
        /\ call[p].solo \subseteq call[p].keys

(* A key that a call works on alone: nobody else has it, no replay owes    *)
(* it, the registration is as the check left it, the call sends on the     *)
(* current controller, and once its frame is out the server has followed.  *)
SoloInv ==
    \A p \in Callers : \A k \in call[p].solo :
        /\ \A q \in Callers \ {p} : k \notin call[q].keys
        /\ k \notin replay
        /\ k \in state <=> call[p].op = "remove"
        /\ call[p].at \in {"send", "commit"} => call[p].conn = fc
        /\ (link[fc] = "open" /\ call[p].at = "commit") =>
               (k \in wire[fc] <=> call[p].op = "add")
        /\ (link[fc] = "open" /\ call[p].at \in {"load", "send"} /\ k \notin raced) =>
               (k \in wire[fc] <=> call[p].op = "remove")

(* A busy key outside raced is a key its caller works on alone. *)
BusyInv == \A p \in Callers : call[p].keys \subseteq call[p].solo \cup raced

(* Keys a replay still owes: registered, not yet on the new wire, idle. *)
ReplayInv ==
    \A k \in replay \ raced :
        /\ k \in state
        /\ k \notin Busy
        /\ k \notin wire[fc]

(* Connections dialled later than the current one carry nothing yet, and a *)
(* counter Observe is about to bump has room.                              *)
FutureInv == \A c \in Conns : c > fc => link[c] = "none" /\ wire[c] = {}
ObservedInv == observed # None => observed \in state /\ msgCount[observed] < MaxCount

IInv ==
    /\ TypeOK
    /\ CallShape
    /\ SoloInv
    /\ BusyInv
    /\ ReplayInv
    /\ FutureInv
    /\ ObservedInv
    /\ LockstepUnlessRaced

(* The initial state has no call, no replay and an empty wire. *)
LEMMA InitIInv == Init => IInv
<1> SUFFICES ASSUME Init PROVE IInv
  OBVIOUS
<1> USE ManagerAssumption DEF Init
<1>1. TypeOK
  BY DEF TypeOK, Conns, LinkState, Call, Idle
<1>2. Busy = {}
  BY DEF Busy, Idle
<1>3. QED
  BY <1>1, <1>2 DEF IInv, CallShape, SoloInv, BusyInv, ReplayInv, FutureInv, ObservedInv,
        LockstepUnlessRaced, Conns, Idle

(* Shrinking the solo keys of a call record keeps the rest of it. *)
LEMMA SoloUpdate ==
    ASSUME NEW r \in Call, NEW S \in SUBSET Keys
    PROVE  LET t == [r EXCEPT !.solo = S]
           IN  /\ t \in Call
               /\ t.op = r.op /\ t.at = r.at /\ t.keys = r.keys /\ t.conn = r.conn
               /\ t.solo = S
BY DEF Call

(* BulkAdd claims fresh keys: only solo sets shrink, nothing on the wire moves. *)
LEMMA BeginAddStep ==
    ASSUME IInv, NEW p \in Callers, NEW ks \in SUBSET Keys, BeginAdd(p, ks)
    PROVE  IInv'
<1> USE ManagerAssumption DEF IInv, BeginAdd, Enter, Fresh
<1>b. \A x : x \in Busy <=> \E q \in Callers : x \in call[q].keys
  BY DEF Busy
<1>c. \A x : x \in Busy' <=> \E q \in Callers : x \in call'[q].keys
  BY DEF Busy
<1>1. TypeOK'
  <2>1. ASSUME NEW q \in Callers PROVE call'[q] \in Call
    <3>1. call[q] \in Call /\ call[q].solo \in SUBSET Keys
      BY DEF TypeOK, Call
    <3>2. CASE q = p
      BY <3>2 DEF Call, TypeOK
    <3>3. CASE q # p
      BY <3>1, <3>3, SoloUpdate
    <3>4. QED
      BY <3>2, <3>3
  <2>2. call' \in [Callers -> Call]
    BY <2>1
  <2>3. QED
    BY <2>2 DEF TypeOK
<1>2. CallShape'
  BY DEF CallShape
<1>3. SoloInv'
  BY <1>b DEF SoloInv, LockstepUnlessRaced
<1>4. BusyInv'
  BY <1>b DEF BusyInv
<1>5. ReplayInv'
  BY <1>c DEF ReplayInv, BusyInv, SoloInv
<1>6. FutureInv'
  BY DEF FutureInv
<1>7. ObservedInv'
  BY DEF ObservedInv
<1>8. LockstepUnlessRaced'
  BY <1>b, <1>c DEF LockstepUnlessRaced, CallShape
<1>9. QED
  BY <1>1, <1>2, <1>3, <1>4, <1>5, <1>6, <1>7, <1>8

(* Remove claims one registered key: only solo sets shrink. *)
LEMMA BeginRemoveStep ==
    ASSUME IInv, NEW p \in Callers, NEW k \in Keys, BeginRemove(p, k)
    PROVE  IInv'
<1> USE ManagerAssumption DEF IInv, BeginRemove, Enter
<1>b. \A x : x \in Busy <=> \E q \in Callers : x \in call[q].keys
  BY DEF Busy
<1>c. \A x : x \in Busy' <=> \E q \in Callers : x \in call'[q].keys
  BY DEF Busy
<1>1. TypeOK'
  <2>1. ASSUME NEW q \in Callers PROVE call'[q] \in Call
    <3>1. call[q] \in Call /\ call[q].solo \in SUBSET Keys
      BY DEF TypeOK, Call
    <3>2. CASE q = p
      BY <3>2 DEF Call, TypeOK
    <3>3. CASE q # p
      BY <3>1, <3>3, SoloUpdate
    <3>4. QED
      BY <3>2, <3>3
  <2>2. call' \in [Callers -> Call]
    BY <2>1
  <2>3. QED
    BY <2>2 DEF TypeOK
<1>2. CallShape'
  BY DEF CallShape
<1>3. SoloInv'
  BY <1>b DEF SoloInv, LockstepUnlessRaced
<1>4. BusyInv'
  BY <1>b DEF BusyInv
<1>5. ReplayInv'
  BY <1>c DEF ReplayInv, BusyInv, SoloInv
<1>6. FutureInv'
  BY DEF FutureInv
<1>7. ObservedInv'
  BY DEF ObservedInv
<1>8. LockstepUnlessRaced'
  BY <1>b, <1>c DEF LockstepUnlessRaced, CallShape
<1>9. QED
  BY <1>1, <1>2, <1>3, <1>4, <1>5, <1>6, <1>7, <1>8

(* Loading the controller ties the call to the current connection. *)
LEMMA LoadControllerStep ==
    ASSUME IInv, NEW p \in Callers, LoadController(p)
    PROVE  IInv'
<1> USE ManagerAssumption DEF IInv, LoadController
<1>b. \A x : x \in Busy <=> \E q \in Callers : x \in call[q].keys
  BY DEF Busy
<1>c. \A x : x \in Busy' <=> \E q \in Callers : x \in call'[q].keys
  BY DEF Busy
<1>1. TypeOK'
  <2>1. call[p] \in Call
    BY DEF TypeOK
  <2>2. call'[p] \in Call
    <3>1. call'[p] = [op |-> call[p].op, at |-> "send", keys |-> call[p].keys,
                      conn |-> fc, solo |-> call[p].solo]
      BY <2>1 DEF TypeOK, Call
    <3>2. QED
      BY <2>1, <3>1 DEF TypeOK, Call
  <2>3. call' \in [Callers -> Call]
    BY <2>2 DEF TypeOK
  <2>4. QED
    BY <2>3 DEF TypeOK
<1>2. CallShape'
  BY DEF CallShape, TypeOK
<1>3. SoloInv'
  BY DEF SoloInv, TypeOK
<1>4. BusyInv'
  BY DEF BusyInv, TypeOK
<1>5. ReplayInv'
  BY <1>c DEF ReplayInv, BusyInv, SoloInv, TypeOK
<1>6. FutureInv'
  BY DEF FutureInv
<1>7. ObservedInv'
  BY DEF ObservedInv
<1>8. LockstepUnlessRaced'
  BY <1>b, <1>c DEF LockstepUnlessRaced, SoloInv, ReplayInv, CallShape, TypeOK, Call
<1>9. QED
  BY <1>1, <1>2, <1>3, <1>4, <1>5, <1>6, <1>7, <1>8

(* A delivered frame changes the wire only at keys its caller holds. *)
LEMMA SendOKStep ==
    ASSUME IInv, NEW p \in Callers, SendOK(p)
    PROVE  IInv'
<1> USE ManagerAssumption DEF IInv, SendOK, Apply
<1>b. \A x : x \in Busy <=> \E q \in Callers : x \in call[q].keys
  BY DEF Busy
<1>c. \A x : x \in Busy' <=> \E q \in Callers : x \in call'[q].keys
  BY DEF Busy
<1>1. TypeOK'
  <2>1. call[p] \in Call
    BY DEF TypeOK
  <2>2. call'[p] \in Call
    BY <2>1 DEF TypeOK, Call
  <2>3. call' \in [Callers -> Call]
    BY <2>2 DEF TypeOK
  <2>4. call[p].conn \in Conns /\ call[p].keys \in SUBSET Keys
    BY <2>1 DEF CallShape, Call
  <2>5. wire' \in [Conns -> SUBSET Keys]
    BY <2>4 DEF TypeOK
  <2>6. QED
    BY <2>3, <2>5 DEF TypeOK
<1>2. CallShape'
  BY DEF CallShape
<1>3. SoloInv'
  BY DEF SoloInv, CallShape, TypeOK
<1>4. BusyInv'
  BY DEF BusyInv
<1>5. ReplayInv'
  BY <1>c DEF ReplayInv, BusyInv, SoloInv
<1>6. FutureInv'
  BY DEF FutureInv
<1>7. ObservedInv'
  BY DEF ObservedInv
<1>8. LockstepUnlessRaced'
  BY <1>b, <1>c DEF LockstepUnlessRaced
<1>9. QED
  BY <1>1, <1>2, <1>3, <1>4, <1>5, <1>6, <1>7, <1>8

(* A failed send ends the call without touching the registry or the wire. *)
LEMMA SendErrStep ==
    ASSUME IInv, NEW p \in Callers, SendErr(p)
    PROVE  IInv'
<1> USE ManagerAssumption DEF IInv, SendErr, Idle
<1>b. \A x : x \in Busy <=> \E q \in Callers : x \in call[q].keys
  BY DEF Busy
<1>c. \A x : x \in Busy' <=> \E q \in Callers : x \in call'[q].keys
  BY DEF Busy
<1>1. TypeOK'
  BY DEF TypeOK, Call, LinkState, CallShape
<1>2. CallShape'
  BY DEF CallShape
<1>3. SoloInv'
  BY DEF SoloInv
<1>4. BusyInv'
  BY DEF BusyInv
<1>5. ReplayInv'
  BY <1>c DEF ReplayInv, BusyInv, SoloInv
<1>6. FutureInv'
  BY DEF FutureInv
<1>7. ObservedInv'
  BY DEF ObservedInv
<1>8. LockstepUnlessRaced'
  BY <1>b, <1>c DEF LockstepUnlessRaced, BusyInv, SoloInv
<1>9. QED
  BY <1>1, <1>2, <1>3, <1>4, <1>5, <1>6, <1>7, <1>8

(* Committing an Add registers exactly the keys its own frame subscribed. *)
LEMMA CommitAddStep ==
    ASSUME IInv, NEW p \in Callers, CommitAdd(p)
    PROVE  IInv'
<1> USE ManagerAssumption DEF IInv, CommitAdd, Idle
<1>b. \A x : x \in Busy <=> \E q \in Callers : x \in call[q].keys
  BY DEF Busy
<1>c. \A x : x \in Busy' <=> \E q \in Callers : x \in call'[q].keys
  BY DEF Busy
<1>1. TypeOK'
  BY DEF TypeOK, Call
<1>2. CallShape'
  BY DEF CallShape
<1>3. SoloInv'
  BY DEF SoloInv, CallShape, TypeOK
<1>4. BusyInv'
  BY DEF BusyInv, SoloInv
<1>5. ReplayInv'
  BY <1>c DEF ReplayInv, BusyInv, SoloInv
<1>6. FutureInv'
  BY DEF FutureInv
<1>7. ObservedInv'
  BY DEF ObservedInv, TypeOK
<1>8. LockstepUnlessRaced'
  BY <1>b, <1>c DEF LockstepUnlessRaced, BusyInv, SoloInv, CallShape
<1>9. QED
  BY <1>1, <1>2, <1>3, <1>4, <1>5, <1>6, <1>7, <1>8

(* Committing a Remove drops exactly the key its frame unsubscribed. *)
LEMMA CommitRemoveStep ==
    ASSUME IInv, NEW p \in Callers, CommitRemove(p)
    PROVE  IInv'
<1> USE ManagerAssumption DEF IInv, CommitRemove, Idle
<1>b. \A x : x \in Busy <=> \E q \in Callers : x \in call[q].keys
  BY DEF Busy
<1>c. \A x : x \in Busy' <=> \E q \in Callers : x \in call'[q].keys
  BY DEF Busy
<1>1. TypeOK'
  BY DEF TypeOK, Call
<1>2. CallShape'
  BY DEF CallShape
<1>3. SoloInv'
  BY DEF SoloInv, CallShape, TypeOK
<1>4. BusyInv'
  BY DEF BusyInv, SoloInv
<1>5. ReplayInv'
  BY <1>c DEF ReplayInv, BusyInv, SoloInv
<1>6. FutureInv'
  BY DEF FutureInv
<1>7. ObservedInv'
  BY DEF ObservedInv, TypeOK
<1>8. LockstepUnlessRaced'
  BY <1>b, <1>c DEF LockstepUnlessRaced, BusyInv, SoloInv, CallShape
<1>9. QED
  BY <1>1, <1>2, <1>3, <1>4, <1>5, <1>6, <1>7, <1>8

(* Traffic counting moves only the counters. *)
LEMMA ObserveStep ==
    ASSUME IInv, (\E k \in Keys : ObserveLookup(k)) \/ ObserveCount
    PROVE  IInv'
<1> USE ManagerAssumption DEF IInv, ObserveLookup, ObserveCount
<1>b. \A x : x \in Busy <=> \E q \in Callers : x \in call[q].keys
  BY DEF Busy
<1>c. \A x : x \in Busy' <=> \E q \in Callers : x \in call'[q].keys
  BY DEF Busy
<1>1. TypeOK'
  BY DEF TypeOK, ObservedInv
<1>2. CallShape'
  BY DEF CallShape
<1>3. SoloInv'
  BY DEF SoloInv
<1>4. BusyInv'
  BY DEF BusyInv
<1>5. ReplayInv'
  BY <1>c DEF ReplayInv, BusyInv, SoloInv
<1>6. FutureInv'
  BY DEF FutureInv
<1>7. ObservedInv'
  BY DEF ObservedInv
<1>8. LockstepUnlessRaced'
  BY <1>b, <1>c DEF LockstepUnlessRaced
<1>9. QED
  BY <1>1, <1>2, <1>3, <1>4, <1>5, <1>6, <1>7, <1>8

(* A lost connection leaves registry and calls alone; a dead one has no wire. *)
LEMMA LinkStep ==
    ASSUME IInv, NEW c \in Conns, Drop(c) \/ LoopsExit(c)
    PROVE  IInv'
<1> USE ManagerAssumption DEF IInv, Drop, LoopsExit
<1>b. \A x : x \in Busy <=> \E q \in Callers : x \in call[q].keys
  BY DEF Busy
<1>c. \A x : x \in Busy' <=> \E q \in Callers : x \in call'[q].keys
  BY DEF Busy
<1>1. TypeOK'
  BY DEF TypeOK, LinkState
<1>2. CallShape'
  BY DEF CallShape
<1>3. SoloInv'
  BY DEF SoloInv, TypeOK
<1>4. BusyInv'
  BY DEF BusyInv
<1>5. ReplayInv'
  BY <1>c DEF ReplayInv, BusyInv, SoloInv, TypeOK
<1>6. FutureInv'
  BY DEF FutureInv, TypeOK
<1>7. ObservedInv'
  BY DEF ObservedInv
<1>8. LockstepUnlessRaced'
  BY <1>b, <1>c DEF LockstepUnlessRaced, TypeOK
<1>9. QED
  BY <1>1, <1>2, <1>3, <1>4, <1>5, <1>6, <1>7, <1>8

(* Rebind swaps in the new connection and snapshots what it will replay. *)
LEMMA RebindSwapStep ==
    ASSUME IInv, RebindSwap
    PROVE  IInv'
<1> USE ManagerAssumption DEF IInv, RebindSwap
<1>b. \A x : x \in Busy <=> \E q \in Callers : x \in call[q].keys
  BY DEF Busy
<1>c. \A x : x \in Busy' <=> \E q \in Callers : x \in call'[q].keys
  BY DEF Busy
<1>d. ASSUME NEW q \in Callers
      PROVE  /\ call'[q] \in Call
             /\ call'[q].op = call[q].op /\ call'[q].at = call[q].at
             /\ call'[q].keys = call[q].keys /\ call'[q].conn = call[q].conn
             /\ call'[q].solo = {}
  <2>1. call[q] \in Call
    BY DEF TypeOK
  <2>2. call'[q] = [call[q] EXCEPT !.solo = {}]
    OBVIOUS
  <2> DEFINE r == call[q]
             t == [r EXCEPT !.solo = {}]
  <2>3. t \in Call /\ t.op = r.op /\ t.at = r.at /\ t.keys = r.keys /\ t.conn = r.conn
        /\ t.solo = {}
    BY <2>1 DEF Call
  <2> HIDE DEF IInv, RebindSwap, t
  <2>4. call'[q] = t
    BY <2>2 DEF t
  <2>5. QED
    BY <2>3, <2>4
<1>e. /\ fc + 1 \in Conns /\ fc' = fc + 1
      /\ Busy \in SUBSET Keys
      /\ wire[fc + 1] = {} /\ wire' = wire
  BY <1>b DEF TypeOK, Call, Conns, FutureInv
<1>1. TypeOK'
  <2>1. call' \in [Callers -> Call]
    BY <1>d
  <2>2. link' \in [Conns -> LinkState]
    BY DEF TypeOK, LinkState
  <2>3. QED
    BY <1>e, <2>1, <2>2 DEF TypeOK
<1>2. CallShape'
  BY DEF CallShape, TypeOK, Call
<1>3. SoloInv'
  BY DEF SoloInv, TypeOK, Call
<1>4. BusyInv'
  BY <1>b, <1>d DEF BusyInv
<1>5. ReplayInv'
  <2> SUFFICES ASSUME NEW k \in replay' \ raced'
               PROVE  k \in state' /\ k \notin Busy' /\ k \notin wire'[fc']
    BY DEF ReplayInv
  <2>1. k \in state' /\ k \notin Busy
    OBVIOUS
  <2>2. k \notin Busy'
    BY <1>b, <1>c, <1>d, <2>1
  <2>3. k \notin wire'[fc']
    BY <1>e
  <2>4. QED
    BY <2>1, <2>2, <2>3
<1>6. FutureInv'
  BY DEF FutureInv, TypeOK, Conns
<1>7. ObservedInv'
  BY DEF ObservedInv
<1>8. LockstepUnlessRaced'
  <2> SUFFICES ASSUME NEW k \in Keys \ (raced' \cup Busy' \cup replay')
               PROVE  k \in state' <=> k \in wire'[fc']
    BY DEF LockstepUnlessRaced
  <2>1. k \notin state /\ state' = state
    OBVIOUS
  <2>2. k \notin wire'[fc']
    BY <1>e
  <2>3. QED
    BY <2>1, <2>2
<1>9. QED
  BY <1>1, <1>2, <1>3, <1>4, <1>5, <1>6, <1>7, <1>8

(* The replay frame puts the snapshot on the new wire. *)
LEMMA RebindSendOKStep ==
    ASSUME IInv, RebindSendOK
    PROVE  IInv'
<1> USE ManagerAssumption DEF IInv, RebindSendOK, Apply
<1>b. \A x : x \in Busy <=> \E q \in Callers : x \in call[q].keys
  BY DEF Busy
<1>c. \A x : x \in Busy' <=> \E q \in Callers : x \in call'[q].keys
  BY DEF Busy
<1>1. TypeOK'
  BY DEF TypeOK
<1>2. CallShape'
  BY DEF CallShape
<1>3. SoloInv'
  BY DEF SoloInv
<1>4. BusyInv'
  BY DEF BusyInv
<1>5. ReplayInv'
  BY DEF ReplayInv
<1>6. FutureInv'
  BY DEF FutureInv
<1>7. ObservedInv'
  BY DEF ObservedInv
<1>8. LockstepUnlessRaced'
  BY <1>b, <1>c DEF LockstepUnlessRaced, ReplayInv, TypeOK
<1>9. QED
  BY <1>1, <1>2, <1>3, <1>4, <1>5, <1>6, <1>7, <1>8

(* A failed replay leaves the registry and the wire as they were. *)
LEMMA RebindSendErrStep ==
    ASSUME IInv, RebindSendErr
    PROVE  IInv'
<1> USE ManagerAssumption DEF IInv, RebindSendErr
<1>1. TypeOK'
  BY DEF TypeOK, LinkState
<1>2. CallShape'
  BY DEF CallShape
<1>3. SoloInv'
  BY DEF SoloInv
<1>4. BusyInv'
  BY DEF BusyInv
<1>5. ReplayInv'
  BY DEF ReplayInv
<1>6. FutureInv'
  BY DEF FutureInv, Conns
<1>7. ObservedInv'
  BY DEF ObservedInv
<1>8. LockstepUnlessRaced'
  BY DEF LockstepUnlessRaced, TypeOK
<1>9. QED
  BY <1>1, <1>2, <1>3, <1>4, <1>5, <1>6, <1>7, <1>8

(* Every step, or stutter, keeps the inductive invariant: one case per action. *)
LEMMA Inductive == IInv /\ [Next]_vars => IInv'
<1> SUFFICES ASSUME IInv, [Next]_vars PROVE IInv'
  OBVIOUS
<1>1. CASE UNCHANGED vars
  BY <1>1 DEF vars, IInv, TypeOK, CallShape, SoloInv, BusyInv, ReplayInv, FutureInv, ObservedInv,
              LockstepUnlessRaced, Busy
<1>2. ASSUME NEW p \in Callers, CallerStep(p) PROVE IInv'
  BY <1>2, BeginAddStep, BeginRemoveStep, LoadControllerStep, SendOKStep, SendErrStep,
     CommitAddStep, CommitRemoveStep DEF CallerStep
<1>3. QED
  BY <1>1, <1>2, ObserveStep, LinkStep, RebindSwapStep, RebindSendOKStep, RebindSendErrStep DEF Next

(* Every reachable state satisfies the inductive invariant. *)
THEOREM Invariance == Spec => []IInv
<1>1. QED
  BY InitIInv, Inductive, PTL DEF Spec

(* The variables keep their types: in particular no reconnect, race or     *)
(* failed send sends on an undialled connection or overruns a counter.     *)
THEOREM TypeCorrect == Spec => []TypeOK
<1>1. IInv => TypeOK
  BY DEF IInv
<1>2. QED
  BY Invariance, <1>1, PTL

(* The manager's guarantee, for any keys, callers and number of            *)
(* reconnects: an unraced, settled key is registered iff it is streamed.   *)
THEOREM LockstepTheorem == Spec => []LockstepUnlessRaced
<1>1. IInv => LockstepUnlessRaced
  BY DEF IInv
<1>2. QED
  BY Invariance, <1>1, PTL

(* No interleaving of Add, BulkAdd, Remove, Observe and Rebind lowers the  *)
(* counter of a key that stays registered.                                 *)
THEOREM CountersTheorem == Spec => CountersSurvive
<1>1. IInv /\ [Next]_vars => [\A k \in state \cap state' : msgCount'[k] >= msgCount[k]]_vars
  <2> SUFFICES ASSUME IInv, Next, NEW k \in state \cap state'
               PROVE  msgCount'[k] >= msgCount[k]
    BY DEF vars
  <2> USE ManagerAssumption
  <2>1. k \in Keys /\ msgCount[k] \in Nat
    BY DEF IInv, TypeOK
  <2>2. ASSUME NEW p \in Callers, CommitAdd(p) PROVE msgCount'[k] >= msgCount[k]
    BY <2>1, <2>2 DEF CommitAdd
  <2>3. ASSUME NEW p \in Callers, CommitRemove(p) PROVE msgCount'[k] >= msgCount[k]
    BY <2>1, <2>3 DEF CommitRemove
  <2>4. CASE ObserveCount
    BY <2>1, <2>4 DEF ObserveCount, IInv, TypeOK
  <2>5. CASE msgCount' = msgCount
    BY <2>1, <2>5
  <2>6. QED
    BY <2>2, <2>3, <2>4, <2>5 DEF Next, CallerStep, BeginAdd, BeginRemove, LoadController,
       SendOK, SendErr, ObserveLookup, Drop, LoopsExit, RebindSwap, RebindSendOK, RebindSendErr
<1>2. QED
  BY Invariance, <1>1, PTL DEF Spec, CountersSurvive

(* Outside races no duplicate add, no unknown remove and no replay of a    *)
(* key already streamed ever reaches the server.                           *)
THEOREM RedundancyTheorem == Spec => NoRedundantFrame
<1> DEFINE Useful ==
      /\ \A p \in Callers :
            (SendOK(p) /\ link[call[p].conn] = "open") =>
                IF call[p].op = "add" THEN FrameUseful(call[p].conn, call[p].keys, {})
                                      ELSE FrameUseful(call[p].conn, {}, call[p].keys)
      /\ RebindSendOK => FrameUseful(fc, replay, {})
<1>1. IInv => Useful
  <2> SUFFICES ASSUME IInv PROVE Useful
    OBVIOUS
  <2>1. ASSUME NEW p \in Callers, SendOK(p), link[call[p].conn] = "open"
        PROVE  IF call[p].op = "add" THEN FrameUseful(call[p].conn, call[p].keys, {})
                                     ELSE FrameUseful(call[p].conn, {}, call[p].keys)
    <3>1. ASSUME NEW k \in call[p].keys, k \notin raced
          PROVE  call[p].conn = fc /\ (k \in wire[fc] <=> call[p].op = "remove")
      BY <2>1, <3>1 DEF IInv, BusyInv, SoloInv, SendOK
    <3>2. QED
      BY <2>1, <3>1 DEF IInv, CallShape, SendOK, FrameUseful
  <2>2. ASSUME RebindSendOK PROVE FrameUseful(fc, replay, {})
    BY <2>2 DEF IInv, ReplayInv, RebindSendOK, FrameUseful
  <2>3. QED
    BY <2>1, <2>2
<1>2. IInv /\ [Next]_vars => [Useful]_vars
  BY <1>1
<1>3. QED
  BY Invariance, <1>2, PTL DEF Spec, NoRedundantFrame

=============================================================================
