--------------------------- MODULE Ingress_proofs ---------------------------
(***************************************************************************)
(* Safety of Ingress for any number of readers and clients and any bound   *)
(* on the attempt counter, whether or not Dial and Wait may hang.          *)
(***************************************************************************)
EXTENDS Ingress, TLAPS

(* The types of the variables the argument is about. *)
ControlType ==
    /\ mu \in {"free", "start", "sup"}
    /\ start \in {"idle", "dialing", "bulk", "failed", "done"}
    /\ sup \in {"none", "loop", "lost", "wait", "backoff", "dialing", "exited"}
    /\ dial \in {"none", "dialing", "rebound", "hung"}
    /\ live \in SUBSET Clients
    /\ status \in [connected : BOOLEAN, attempt : Nat, failed : BOOLEAN]
    /\ attempt \in Nat

(* Who holds dxMu is inside dialAndSubscribe, and the supervisor runs only *)
(* once StartIngress has handed over.                                      *)
LockInv ==
    /\ mu = "free" <=> dial = "none"
    /\ mu = "start" => start = "dialing"
    /\ mu = "sup" => sup = "dialing"
    /\ start # "done" => sup = "none"

(* While an attempt runs no client is published, and the new one is not    *)
(* cancelled; Rebind has pointed the manager at it once it is through.     *)
DialInv ==
    dial # "none" => /\ dxClient = 0
                     /\ client \in Clients /\ client \in live
                     /\ dial = "rebound" => fc = client

(* The supervisor waits and redials only after forgetting the client, and  *)
(* until then (also before, in StartIngress) the client it would cancel is *)
(* the published one.                                                      *)
HandoverInv ==
    /\ sup \in {"wait", "backoff", "dialing"} => dxClient = 0
    /\ sup \in {"loop", "lost"} \/ start = "bulk" => dxCancel = dxClient

(* StatusHonest, also while dxMu is held. *)
HonestInv ==
    status.connected => dxClient # 0 /\ dxClient \in live /\ fc = dxClient

(* ReconnectVisible, carried through the attempt that follows the wait: a  *)
(* failed one has recorded its error before the next round.                *)
VisibleInv ==
    /\ sup = "wait" => status = Disconnected
    /\ sup \in {"backoff", "dialing"} =>
         /\ ~status.connected
         /\ attempt > 0
         /\ status.attempt = attempt
         /\ IF sup = "dialing" /\ dial = "none"
              THEN status.failed
              ELSE status.failed <=> attempt > 1

(* The status shows nothing before the first connection, and a connection  *)
(* from then until the supervisor lets go of it.                           *)
ShownInv ==
    /\ start \in {"idle", "dialing"} => status = Disconnected
    /\ sup \in {"loop", "lost"} \/ start = "bulk" => status.connected

IInv == /\ ControlType /\ LockInv /\ DialInv /\ HandoverInv
        /\ NoClientLeaked /\ HonestInv /\ VisibleInv /\ ShownInv

(* The invariant holds before StartIngress. *)
LEMMA InitIInv == Init => IInv
BY DEF Init, IInv, ControlType, LockInv, DialInv, HandoverInv, NoClientLeaked,
       HonestInv, VisibleInv, ShownInv, Disconnected, Clients

(* Every step preserves it: of StartIngress, of the supervisor, of the API *)
(* handlers, of the network and of the operator.                           *)
LEMMA Inductive == IInv /\ [Next]_vars => IInv'
<1> SUFFICES ASSUME IInv, [Next]_vars PROVE IInv'
    OBVIOUS
<1> USE IngressAssumption
    DEF IInv, ControlType, LockInv, DialInv, HandoverInv, NoClientLeaked,
        HonestInv, VisibleInv, ShownInv, Disconnected, Clients
<1>1. CASE UNCHANGED vars
  BY <1>1 DEF vars, lockVars, clientVars, backVars
<1>2. CASE Rebinds
  BY <1>2 DEF Rebinds, backVars
<1>3. CASE DialHangs
  BY <1>3 DEF DialHangs, clientVars, backVars
<1>4. CASE StartIngress
  BY <1>4 DEF StartIngress, BeginDial, Unused, backVars
<1>5. CASE StartFails
  BY <1>5 DEF StartFails, EndFailedDial, backVars
<1>6. CASE StartConnects
  BY <1>6 DEF StartConnects, EndDial, backVars
<1>7. CASE StartSubscribes
  BY <1>7 DEF StartSubscribes, clientVars, backVars
<1>8. CASE StartBulkFails
  BY <1>8 DEF StartBulkFails, clientVars, backVars
<1>9. CASE LoopCancelled
  BY <1>9 DEF LoopCancelled, clientVars, backVars
<1>10. CASE LoopTearsDown
  BY <1>10 DEF LoopTearsDown, backVars
<1>11. CASE WaitReturns
  BY <1>11 DEF WaitReturns, NextRound, Min2, clientVars
<1>12. CASE BackoffCancelled
  BY <1>12 DEF BackoffCancelled, clientVars, backVars
<1>13. CASE BackoffElapses
  BY <1>13 DEF BackoffElapses, BeginDial, Unused, backVars
<1>14. CASE ReconnectFails
  BY <1>14 DEF ReconnectFails, EndFailedDial, backVars
<1>15. CASE ReconnectAgain
  BY <1>15 DEF ReconnectAgain, NextRound, Min2, clientVars
<1>16. CASE Reconnects
  BY <1>16 DEF Reconnects, EndDial, backVars
<1>17. ASSUME NEW r \in Readers, ReaderArrives(r) \/ ReaderServed(r) PROVE IInv'
  BY <1>17 DEF ReaderArrives, ReaderServed, lockVars, clientVars, backVars
<1>18. ASSUME NEW n \in Clients, ConnectionLost(n) PROVE IInv'
  BY <1>18 DEF ConnectionLost, lockVars, backVars
<1>19. CASE Cancel
  BY <1>19 DEF Cancel, lockVars, clientVars, backVars
<1>20. CASE LoopEnds
  BY <1>20 DEF LoopEnds, clientVars, backVars
<1> QED
  BY <1>1, <1>2, <1>3, <1>4, <1>5, <1>6, <1>7, <1>8, <1>9, <1>10, <1>11, <1>12,
     <1>13, <1>14, <1>15, <1>16, <1>17, <1>18, <1>19, <1>20 DEF Next

(* The invariant holds in every reachable state. *)
THEOREM Invariance == Spec => []IInv
BY InitIInv, Inductive, PTL DEF Spec

(* No attempt leaves a client behind that nobody has cancelled.            *)
THEOREM LeakTheorem == Spec => []NoClientLeaked
BY Invariance, PTL DEF IInv

(* A status that says connected is backed by the client the subscription   *)
(* manager sends on, through every failed or partial reconnect.            *)
THEOREM StatusTheorem == Spec => []StatusHonest
<1>1. IInv => StatusHonest
  BY DEF IInv, HonestInv, StatusHonest
<1> QED BY <1>1, Invariance, PTL

(* While the supervisor backs off, the status shows the attempt it is at   *)
(* and whether one has failed.                                             *)
THEOREM VisibleTheorem == Spec => []ReconnectVisible
<1>1. IInv => ReconnectVisible
  BY DEF IInv, VisibleInv, ReconnectVisible
<1> QED BY <1>1, Invariance, PTL

(* Every step of the detailed specification is a step of FeedStatus or     *)
(* leaves the status and the context alone.                                *)
LEMMA StepSimulates == IInv /\ [Next]_vars => [FS!Next]_FS!vars
<1> SUFFICES ASSUME IInv, [Next]_vars PROVE [FS!Next]_FS!vars
    OBVIOUS
<1> USE IngressAssumption
    DEF IInv, ControlType, LockInv, VisibleInv, ShownInv, Disconnected,
        FS!vars, FS!Nothing, FS!Connected
<1>1. CASE UNCHANGED <<status, ctx>>
  BY <1>1
<1>2. CASE StartConnects \/ Reconnects
  <2>1. FS!Connect
    BY <1>2 DEF StartConnects, Reconnects, EndDial, FS!Connect
  <2> QED BY <2>1 DEF FS!Next
<1>3. CASE LoopCancelled \/ LoopTearsDown
  <2>1. FS!Drop
    BY <1>3 DEF LoopCancelled, LoopTearsDown, FS!Drop
  <2> QED BY <2>1 DEF FS!Next
<1>4. CASE WaitReturns \/ ReconnectAgain
  <2>1. FS!Try
    BY <1>4 DEF WaitReturns, ReconnectAgain, NextRound, Min2, FS!Try
  <2> QED BY <2>1 DEF FS!Next
<1>5. CASE ReconnectFails
  <2>1. FS!Fail
    BY <1>5 DEF ReconnectFails, FS!Fail
  <2> QED BY <2>1 DEF FS!Next
<1>6. CASE Cancel
  <2>1. FS!Shutdown
    BY <1>6 DEF Cancel, FS!Shutdown
  <2> QED BY <2>1 DEF FS!Next
<1>7. CASE Rebinds \/ DialHangs \/ StartIngress \/ StartFails \/ StartSubscribes \/ StartBulkFails
  BY <1>7, <1>1 DEF Rebinds, DialHangs, StartIngress, StartFails, StartSubscribes, StartBulkFails
<1>8. CASE LoopEnds \/ BackoffCancelled \/ BackoffElapses
  BY <1>8, <1>1 DEF LoopEnds, BackoffCancelled, BackoffElapses
<1>9. ASSUME NEW r \in Readers, ReaderArrives(r) \/ ReaderServed(r) PROVE UNCHANGED <<status, ctx>>
  BY <1>9 DEF ReaderArrives, ReaderServed
<1>10. ASSUME NEW n \in Clients, ConnectionLost(n) PROVE UNCHANGED <<status, ctx>>
  BY <1>10 DEF ConnectionLost
<1>11. CASE UNCHANGED vars
  BY <1>11, <1>1 DEF vars
<1> QED
  BY <1>1, <1>2, <1>3, <1>4, <1>5, <1>6, <1>7, <1>8, <1>9, <1>10, <1>11 DEF Next

(* Ingress implements the safety part of FeedStatus: what a reader of the  *)
(* status sees is always the life of one feed.                             *)
THEOREM RefinementTheorem == Spec => StatusSafety
<1>1. Init => FS!Init
  BY DEF Init, FS!Init, Disconnected, FS!Nothing
<1> QED
  BY <1>1, StepSimulates, Invariance, PTL DEF Spec, StatusSafety
-----------------------------------------------------------------------------
(* The delays of backoff.next.                                             *)

(* One second doubled at most six times. *)
LEMMA Doubling ==
    ASSUME NEW n \in 0..6
    PROVE  2 ^ n = CASE n = 0 -> 1 [] n = 1 -> 2 [] n = 2 -> 4 [] n = 3 -> 8
                     [] n = 4 -> 16 [] n = 5 -> 32 [] n = 6 -> 64
<1>1. /\ 2 ^ 0 = 1 /\ 2 ^ 1 = 2 /\ 2 ^ 2 = 4 /\ 2 ^ 3 = 8
      /\ 2 ^ 4 = 16 /\ 2 ^ 5 = 32 /\ 2 ^ 6 = 64
  OBVIOUS
<1>2. n \in {0, 1, 2, 3, 4, 5, 6}
  OBVIOUS
<1>3. QED
  BY <1>1, <1>2

(* The delay before jitter is 1s to 60s and never falls from one attempt   *)
(* to a later one.                                                         *)
LEMMA CeilingBounds ==
    ASSUME NEW a \in Nat, a > 0
    PROVE  /\ Ceiling(a) \in 1..60
           /\ a = 1 => Ceiling(a) = 1
           /\ \A b \in Nat : b >= a => Ceiling(b) >= Ceiling(a)
<1> DEFINE shift(c) == Min2(c - 1, 6)
           delay(n) == CASE n = 0 -> 1 [] n = 1 -> 2 [] n = 2 -> 4 [] n = 3 -> 8
                         [] n = 4 -> 16 [] n = 5 -> 32 [] n = 6 -> 60
<1>1. ASSUME NEW c \in Nat, c > 0
      PROVE  shift(c) \in 0..6 /\ Ceiling(c) = delay(shift(c))
  <2>1. shift(c) \in 0..6
    BY <1>1 DEF Min2
  <2>2. 2 ^ shift(c) = CASE shift(c) = 0 -> 1 [] shift(c) = 1 -> 2 [] shift(c) = 2 -> 4
                         [] shift(c) = 3 -> 8 [] shift(c) = 4 -> 16 [] shift(c) = 5 -> 32
                         [] shift(c) = 6 -> 64
    BY <2>1, Doubling
  <2>3. Ceiling(c) = Min2(2 ^ shift(c), 60)
    BY DEF Ceiling
  <2> HIDE DEF shift
  <2>4. QED
    BY <2>1, <2>2, <2>3 DEF Min2
<1>2. ASSUME NEW b \in Nat, b >= a PROVE shift(b) >= shift(a)
  BY <1>2 DEF Min2
<1>3. a = 1 => shift(a) = 0
  BY DEF Min2
<1>4. \A m, n \in 0..6 : /\ delay(m) \in 1..60
                         /\ m <= n => delay(m) <= delay(n)
  OBVIOUS
<1>5. ASSUME NEW b \in Nat, b >= a PROVE Ceiling(b) >= Ceiling(a)
  <2> HIDE DEF shift, delay
  <2>1. /\ shift(a) \in 0..6 /\ Ceiling(a) = delay(shift(a))
        /\ shift(b) \in 0..6 /\ Ceiling(b) = delay(shift(b))
    BY <1>1, <1>5
  <2>2. shift(a) <= shift(b)
    BY <1>2, <1>5, <2>1
  <2>3. QED
    BY <1>4, <2>1, <2>2
<1>6. QED
  BY <1>1, <1>3, <1>4, <1>5

(* Whatever the jitter, a later attempt waits over half as long. *)
LEMMA LaterDelays ==
    ASSUME NEW a \in Nat, NEW b \in Nat, a > 0, b >= a,
           NEW s \in Delays(a), NEW t \in Delays(b)
    PROVE  2 * t > s
<1>1. Ceiling(a) \in 1..60 /\ Ceiling(b) \in 1..60 /\ Ceiling(b) >= Ceiling(a)
  BY CeilingBounds
<1>2. s = Ceiling(a) \/ s = 2 * Ceiling(a) - 1
  BY DEF Delays
<1>3. t = Ceiling(b) \/ t = 2 * Ceiling(b) - 1
  BY DEF Delays
<1>4. QED
  BY <1>1, <1>2, <1>3

(* The delay the supervisor waits was drawn for the attempt it is at. *)
SleepInv == sup \in {"backoff", "dialing"} => sleep \in Delays(attempt)

(* One more round: the delay is drawn for an attempt that is not smaller. *)
LEMMA NextRoundDraws ==
    ASSUME NEW from \in 0..MaxAttempt, NextRound(from)
    PROVE  /\ attempt' \in 1..MaxAttempt /\ attempt' >= from
           /\ from = 0 => attempt' = 1
           /\ sleep' \in Delays(attempt') /\ sleep' \in 1..119
<1>1. /\ attempt' \in 1..MaxAttempt /\ attempt' >= from
      /\ from = 0 => attempt' = 1
      /\ sleep' \in Delays(attempt')
  BY IngressAssumption DEF NextRound, Min2
<1>2. Ceiling(attempt') \in 1..60
  BY <1>1, CeilingBounds
<1>3. QED
  BY <1>1, <1>2 DEF Delays

(* The types hold before StartIngress, and no delay has been drawn. *)
LEMMA InitTyped == Init => TypeOK /\ SleepInv
BY IngressAssumption DEF Init, TypeOK, SleepInv, Status, Disconnected, Clients

(* Every step keeps the types and the supervisor's delay. *)
LEMMA StepTyped == IInv /\ TypeOK /\ SleepInv /\ [Next]_vars => TypeOK' /\ SleepInv'
<1> SUFFICES ASSUME IInv, TypeOK, SleepInv, [Next]_vars PROVE TypeOK' /\ SleepInv'
  OBVIOUS
<1> USE IngressAssumption
<1>1. CASE WaitReturns
  <2>1. attempt' \in 1..MaxAttempt /\ sleep' \in Delays(attempt') /\ sleep' \in 1..119
    BY <1>1, NextRoundDraws DEF WaitReturns
  <2>2. status' \in Status /\ sup' = "backoff"
    BY <1>1, <2>1 DEF WaitReturns, NextRound, TypeOK, Status
  <2>3. QED
    BY <1>1, <2>1, <2>2 DEF WaitReturns, clientVars, TypeOK, SleepInv
<1>2. CASE ReconnectAgain
  <2>1. attempt' \in 1..MaxAttempt /\ sleep' \in Delays(attempt') /\ sleep' \in 1..119
    BY <1>2, NextRoundDraws DEF ReconnectAgain, TypeOK
  <2>2. status' \in Status /\ sup' = "backoff"
    BY <1>2, <2>1 DEF ReconnectAgain, NextRound, TypeOK, Status
  <2>3. QED
    BY <1>2, <2>1, <2>2 DEF ReconnectAgain, clientVars, TypeOK, SleepInv
<1>3. CASE Rebinds
  BY <1>3 DEF Rebinds, backVars, TypeOK, SleepInv, IInv, DialInv, Clients
<1>4. CASE DialHangs
  BY <1>4 DEF DialHangs, clientVars, backVars, TypeOK, SleepInv
<1>5. CASE StartIngress \/ BackoffElapses
  <2>1. PICK new \in Unused : client' = new /\ live' = (live \ {dxCancel}) \cup {new}
    BY <1>5 DEF StartIngress, BackoffElapses, BeginDial
  <2>2. new \in Clients /\ client' \in 0..MaxClients /\ live' \in SUBSET Clients
    BY <2>1 DEF Unused, Clients, TypeOK
  <2>3. CASE StartIngress
    BY <2>2, <2>3 DEF StartIngress, BeginDial, backVars, TypeOK, SleepInv
  <2>4. CASE BackoffElapses
    BY <2>2, <2>4 DEF BackoffElapses, BeginDial, backVars, TypeOK, SleepInv
  <2>5. QED
    BY <1>5, <2>3, <2>4
<1>6. CASE StartFails
  BY <1>6 DEF StartFails, EndFailedDial, backVars, TypeOK, SleepInv
<1>7. CASE ReconnectFails
  BY <1>7 DEF ReconnectFails, EndFailedDial, backVars, TypeOK, Status, SleepInv, IInv, LockInv
<1>8. CASE StartConnects
  BY <1>8 DEF StartConnects, EndDial, backVars, TypeOK, Status, SleepInv
<1>9. CASE Reconnects
  BY <1>9 DEF Reconnects, EndDial, backVars, TypeOK, Status, SleepInv
<1>10. CASE StartSubscribes \/ StartBulkFails
  BY <1>10 DEF StartSubscribes, StartBulkFails, clientVars, backVars, TypeOK, SleepInv
<1>11. CASE LoopCancelled
  BY <1>11 DEF LoopCancelled, clientVars, backVars, TypeOK, SleepInv, Status, Disconnected
<1>12. CASE LoopEnds
  BY <1>12 DEF LoopEnds, clientVars, backVars, TypeOK, SleepInv
<1>13. CASE LoopTearsDown
  BY <1>13 DEF LoopTearsDown, backVars, TypeOK, SleepInv, Status, Disconnected
<1>14. CASE BackoffCancelled
  BY <1>14 DEF BackoffCancelled, clientVars, backVars, TypeOK, SleepInv
<1>15. ASSUME NEW r \in Readers, ReaderArrives(r) \/ ReaderServed(r) PROVE TypeOK' /\ SleepInv'
  BY <1>15 DEF ReaderArrives, ReaderServed, lockVars, clientVars, backVars, TypeOK, SleepInv
<1>16. ASSUME NEW n \in Clients, ConnectionLost(n) PROVE TypeOK' /\ SleepInv'
  BY <1>16 DEF ConnectionLost, lockVars, backVars, TypeOK, SleepInv
<1>17. CASE Cancel
  BY <1>17 DEF Cancel, lockVars, clientVars, backVars, TypeOK, SleepInv
<1>18. CASE UNCHANGED vars
  BY <1>18 DEF vars, lockVars, clientVars, backVars, TypeOK, SleepInv
<1>19. QED
  BY <1>1, <1>2, <1>3, <1>4, <1>5, <1>6, <1>7, <1>8, <1>9, <1>10, <1>11, <1>12, <1>13,
     <1>14, <1>15, <1>16, <1>17, <1>18 DEF Next

(* The types hold in every reachable state: among them, that the delay is  *)
(* under a minute and that the status counts attempts within the bound.    *)
LEMMA TypedAlways == Spec => [](TypeOK /\ SleepInv)
BY InitTyped, StepTyped, Invariance, PTL DEF Spec

(* Type correctness of the supervisor, of StartIngress, of the status and  *)
(* of the client names, for any number of readers, clients and attempts.   *)
THEOREM TypeCorrect == Spec => []TypeOK
BY TypedAlways, PTL

(* A step into a round of the backoff draws a delay that is under a        *)
(* minute, and over half of the one before it.                             *)
LEMMA StepBacksOff ==
    ASSUME IInv, TypeOK, SleepInv, Next, sup' = "backoff", sup # "backoff"
    PROVE  /\ sleep' < 120
           /\ IF sup = "wait" THEN sleep' < 2 ELSE 2 * sleep' > sleep
<1>1. CASE WaitReturns
  <2>1. attempt' = 1 /\ sleep' \in Delays(attempt')
    BY <1>1, NextRoundDraws, IngressAssumption DEF WaitReturns
  <2>2. Ceiling(1) = 1
    BY CeilingBounds
  <2>3. QED
    BY <1>1, <2>1, <2>2 DEF WaitReturns, Delays
<1>2. CASE ReconnectAgain
  <2>1. /\ attempt' \in Nat /\ attempt' >= attempt
        /\ sleep' \in Delays(attempt') /\ sleep' \in 1..119
    BY <1>2, NextRoundDraws, IngressAssumption DEF ReconnectAgain, TypeOK
  <2>2. /\ sup = "dialing" /\ attempt \in Nat /\ attempt > 0
        /\ sleep \in Delays(attempt) /\ sleep \in 0..120
    BY <1>2 DEF ReconnectAgain, SleepInv, TypeOK, IInv, VisibleInv, ControlType
  <2>3. 2 * sleep' > sleep
    BY <2>1, <2>2, LaterDelays
  <2>4. sleep' < 120 /\ sup # "wait"
    <3>1. sleep' \in 1..119
      BY <2>1
    <3>2. QED
      BY <2>2, <3>1
  <2>5. QED
    BY <2>3, <2>4
<1>3. WaitReturns \/ ReconnectAgain
  BY DEF Next, Rebinds, DialHangs, StartIngress, StartFails, StartConnects, StartSubscribes,
         StartBulkFails, LoopCancelled, LoopEnds, LoopTearsDown, BackoffCancelled,
         BackoffElapses, ReconnectFails, Reconnects, ReaderArrives, ReaderServed,
         ConnectionLost, Cancel, lockVars, IInv, LockInv
<1>4. QED
  BY <1>1, <1>2, <1>3

(* For every bound on the attempt counter: a retry waits under a minute    *)
(* and over half as long as the one before it, jitter included, and the    *)
(* first one after a drop under a second.                                  *)
THEOREM BackoffTheorem == Spec => BackoffBounded
<1>1. IInv /\ TypeOK /\ SleepInv /\ [Next]_vars =>
        [sup' = "backoff" /\ sup # "backoff" =>
           /\ sleep' < 120
           /\ IF sup = "wait" THEN sleep' < 2 ELSE 2 * sleep' > sleep]_vars
  BY StepBacksOff
<1>2. QED
  BY <1>1, TypedAlways, Invariance, PTL DEF Spec, BackoffBounded

=============================================================================
