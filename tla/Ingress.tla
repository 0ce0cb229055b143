------------------------------- MODULE Ingress -------------------------------
(***************************************************************************)
(* The dxLink -> NATS ingress of the service (service/service.go,          *)
(* service/backoff.go): StartIngress, the reconnect supervisor             *)
(* ingressWithReconnect, dialAndSubscribe under the dxMu write lock, and   *)
(* the API handlers that read the status under the same lock.              *)
(*                                                                         *)
(* A client is a name, modelled by what the service can see of it: whether *)
(* its clientCancel is still to be called and whether its connection is    *)
(* up; a name nothing refers to any more is used again.  DxClient shows    *)
(* that Dial and Wait of the real client may block for ever, and so they   *)
(* may here.                                                               *)
(***************************************************************************)
EXTENDS Integers, FiniteSets

CONSTANTS
    Readers,      \* API handlers that take dxMu for reading
    MaxClients,   \* bound: clients the service refers to at a time
    MaxAttempt    \* bound: the attempt counter stops growing here

ASSUME IngressAssumption ==
    /\ MaxClients \in Nat /\ MaxClients >= 3
    /\ MaxAttempt \in Nat /\ MaxAttempt >= 2

VARIABLES
    mu,           \* dxMu's writer: "free", "start" or "sup"
    start,        \* StartIngress: "idle", "dialing", "bulk", "failed", "done"
    sup,          \* ingressWithReconnect: "none", "loop", "lost", "wait",
                  \* "backoff", "dialing", "exited"
    dial,         \* dialAndSubscribe: "none", "dialing", "rebound", "hung"
    client,       \* the client dialAndSubscribe is dialling or client last
    live,         \* clients whose clientCancel has not been called
    up,           \* clients whose connection is up
    dxClient,     \* s.dxClient, 0 for nil
    dxCancel,     \* the client s.dxClientCancel cancels, 0 for nil
    fc,           \* the client the SubscriptionManager sends on, 0 before it exists
    status,       \* s.dxStatus
    attempt,      \* b.attempt
    sleep,        \* the delay reconnectWithBackoff waits, in half seconds
    ctx,          \* "live" or "cancelled": the service's context
    reader        \* per API handler, "idle" or "waiting"

lockVars == <<mu, start, sup, dial>>
clientVars == <<client, live, up, dxClient, dxCancel, fc>>
backVars == <<attempt, sleep>>
vars == <<lockVars, clientVars, status, backVars, ctx, reader>>

Clients == 1..MaxClients
Status == [connected : BOOLEAN, attempt : 0..MaxAttempt, failed : BOOLEAN]
Disconnected == [connected |-> FALSE, attempt |-> 0, failed |-> FALSE]

TypeOK ==
    /\ mu \in {"free", "start", "sup"}
    /\ start \in {"idle", "dialing", "bulk", "failed", "done"}
    /\ sup \in {"none", "loop", "lost", "wait", "backoff", "dialing", "exited"}
    /\ dial \in {"none", "dialing", "rebound", "hung"}
    /\ client \in 0..MaxClients
    /\ live \in SUBSET Clients /\ up \in SUBSET Clients
    /\ dxClient \in 0..MaxClients /\ dxCancel \in 0..MaxClients /\ fc \in 0..MaxClients
    /\ status \in Status
    /\ attempt \in 0..MaxAttempt
    /\ sleep \in 0..120
    /\ ctx \in {"live", "cancelled"}
    /\ reader \in [Readers -> {"idle", "waiting"}]

Init ==
    /\ mu = "free" /\ start = "idle" /\ sup = "none" /\ dial = "none"
    /\ client = 0 /\ live = {} /\ up = {}
    /\ dxClient = 0 /\ dxCancel = 0 /\ fc = 0
    /\ status = Disconnected
    /\ attempt = 0 /\ sleep = 0
    /\ ctx = "live"
    /\ reader = [r \in Readers |-> "idle"]

-----------------------------------------------------------------------------
(* dialAndSubscribe, entered by who with dxMu held: the previous client is *)
(* cancelled and a new one gets its derived context.                       *)
Unused == Clients \ ({dxClient, dxCancel, fc} \cup live \cup up)

BeginDial(who) ==
    /\ mu = "free"
    /\ mu' = who
    /\ dial' = "dialing"
    /\ \E new \in Unused : /\ client' = new
                          /\ live' = (live \ {dxCancel}) \cup {new}
    /\ UNCHANGED <<up, dxClient, dxCancel, fc>>

(* Dial, Authenticate and OpenFeed are through; Rebind swaps the           *)
(* controller (or the first SubscriptionManager is made) before its frame. *)
Rebinds ==
    /\ dial = "dialing"
    /\ dial' = "rebound"
    /\ fc' = client
    /\ up' = up \cup {client}
    /\ UNCHANGED <<mu, start, sup, client, live, dxClient, dxCancel, status, backVars,
                   ctx, reader>>

(* Dial, or the request of the streamer token, never returns. *)
DialHangs ==
    /\ dial = "dialing"
    /\ dial' = "hung"
    /\ UNCHANGED <<mu, start, sup, clientVars, status, backVars, ctx, reader>>

(* Mutant: an error path without its clientCancel. *)
EndFailedDialLeaks ==
    /\ dial = "dialing" \/ (dial = "rebound" /\ mu = "sup")
    /\ dial' = "none"
    /\ mu' = "free"
    /\ up' = up \ {client}
    /\ UNCHANGED <<live, client, dxClient, dxCancel, fc>>

(* Mutant: an error path without its Unlock. *)
EndFailedDialLocked ==
    /\ dial = "dialing" \/ (dial = "rebound" /\ mu = "sup")
    /\ dial' = "none"
    /\ live' = live \ {client}
    /\ up' = up \ {client}
    /\ UNCHANGED <<mu, client, dxClient, dxCancel, fc>>

(* The attempt fails at any of its steps: clientCancel, and the error goes *)
(* to the caller, which releases dxMu.  After the swap only the frame of a *)
(* Rebind can fail, and StartIngress makes no Rebind.                      *)
EndFailedDial ==
    /\ dial = "dialing" \/ (dial = "rebound" /\ mu = "sup")
    /\ dial' = "none"
    /\ mu' = "free"
    /\ live' = live \ {client}
    /\ up' = up \ {client}
    /\ UNCHANGED <<client, dxClient, dxCancel, fc>>

(* Mutant: the status keeps what it said of the attempts. *)
EndDialKeepsAttempt ==
    /\ dial = "rebound"
    /\ dial' = "none"
    /\ mu' = "free"
    /\ dxClient' = client
    /\ dxCancel' = client
    /\ status' = [status EXCEPT !.connected = TRUE]
    /\ UNCHANGED <<client, live, up, fc>>

EndDial ==
    /\ dial = "rebound"
    /\ dial' = "none"
    /\ mu' = "free"
    /\ dxClient' = client
    /\ dxCancel' = client
    /\ status' = [connected |-> TRUE, attempt |-> 0, failed |-> FALSE]
    /\ UNCHANGED <<client, live, up, fc>>

-----------------------------------------------------------------------------
(* StartIngress: dial under the lock, subscribe the initial symbols        *)
(* without it, then hand the feed to the supervisor.                       *)
StartIngress ==
    /\ start = "idle"
    /\ dxClient = 0
    /\ BeginDial("start")
    /\ start' = "dialing"
    /\ UNCHANGED <<sup, status, backVars, ctx, reader>>

StartFails ==
    /\ mu = "start"
    /\ EndFailedDial
    /\ start' = "failed"
    /\ UNCHANGED <<sup, status, backVars, ctx, reader>>

(* With initial symbols BulkAdd comes next, without any the supervisor.    *)
StartConnects ==
    /\ mu = "start"
    /\ EndDial
    /\ \/ start' = "bulk" /\ UNCHANGED sup
       \/ start' = "done" /\ sup' = "loop"
    /\ UNCHANGED <<backVars, ctx, reader>>

(* BulkAdd of the initial symbols; it fails when the connection is lost. *)
StartSubscribes ==
    /\ start = "bulk"
    /\ start' = "done"
    /\ sup' = "loop"
    /\ UNCHANGED <<mu, dial, clientVars, status, backVars, ctx, reader>>

StartBulkFails ==
    /\ start = "bulk"
    /\ dxClient \notin up
    /\ start' = "failed"
    /\ UNCHANGED <<mu, sup, dial, clientVars, status, backVars, ctx, reader>>

-----------------------------------------------------------------------------
(* runIngressLoop returns when the feed closes or the context ends; in the *)
(* second case the supervisor clears the status and returns.               *)
LoopCancelled ==
    /\ sup = "loop"
    /\ ctx = "cancelled"
    /\ mu = "free"
    /\ status' = Disconnected
    /\ sup' = "exited"
    /\ UNCHANGED <<mu, start, dial, clientVars, backVars, ctx, reader>>

(* The feed is closed and the context was live when it was checked. *)
LoopEnds ==
    /\ sup = "loop"
    /\ ctx = "live"
    /\ dxClient \notin up
    /\ sup' = "lost"
    /\ UNCHANGED <<mu, start, dial, clientVars, status, backVars, ctx, reader>>

(* Mutant: the status is not cleared when the client is torn down. *)
LoopTearsDownSilently ==
    /\ sup = "lost"
    /\ mu = "free"
    /\ live' = live \ {dxCancel}
    /\ dxClient' = 0
    /\ sup' = "wait"
    /\ UNCHANGED <<mu, start, dial, client, up, dxCancel, fc, status, backVars, ctx, reader>>

(* The connection dropped: cancel the client, forget it, clear the status. *)
LoopTearsDown ==
    /\ sup = "lost"
    /\ mu = "free"
    /\ live' = live \ {dxCancel}
    /\ dxClient' = 0
    /\ status' = Disconnected
    /\ sup' = "wait"
    /\ UNCHANGED <<mu, start, dial, client, up, dxCancel, fc, backVars, ctx, reader>>

(* backoff.next: 1s doubling up to a minute, with jitter [50%, 100%). *)
Min2(a, b) == IF a < b THEN a ELSE b
(* Mutant: the shift is capped, the delay is not. *)
CeilingUncapped(a) == 2 ^ Min2(a - 1, 6)

Ceiling(a) == Min2(2 ^ Min2(a - 1, 6), 60)
(* Mutant: jitter over [0%, 100%). *)
DelaysFullJitter(a) == {0, 2 * Ceiling(a) - 1}

Delays(a) == {Ceiling(a), 2 * Ceiling(a) - 1}   \* both ends, in half seconds

(* Entering one round of reconnectWithBackoff: the next delay is drawn and *)
(* the attempt is published in the status.                                 *)
NextRound(from) ==
    LET n == Min2(from + 1, MaxAttempt)
    IN  /\ mu = "free"
        /\ sup' = "backoff"
        /\ attempt' = n
        /\ sleep' \in Delays(n)

(* oldClient.Wait() returns and a fresh backoff starts. *)
WaitReturns ==
    /\ sup = "wait"
    /\ NextRound(0)
    /\ status' = [status EXCEPT !.attempt = attempt']
    /\ UNCHANGED <<mu, start, dial, clientVars, ctx, reader>>

BackoffCancelled ==
    /\ sup = "backoff"
    /\ ctx = "cancelled"
    /\ sup' = "exited"
    /\ UNCHANGED <<mu, start, dial, clientVars, status, backVars, ctx, reader>>

BackoffElapses ==
    /\ sup = "backoff"
    /\ BeginDial("sup")
    /\ sup' = "dialing"
    /\ UNCHANGED <<start, status, backVars, ctx, reader>>

(* Mutant: the error of a failed attempt is not recorded. *)
ReconnectFailsSilently ==
    /\ mu = "sup"
    /\ EndFailedDial
    /\ sup' = "dialing"
    /\ UNCHANGED <<start, status, backVars, ctx, reader>>

(* Mutant: the first failed attempt ends the supervisor. *)
ReconnectFailsForGood ==
    /\ mu = "sup"
    /\ EndFailedDial
    /\ sup' = "exited"
    /\ status' = [status EXCEPT !.failed = TRUE]
    /\ UNCHANGED <<start, backVars, ctx, reader>>

(* A failed attempt records its error, unlocks, and goes round again. *)
ReconnectFails ==
    /\ mu = "sup"
    /\ EndFailedDial
    /\ sup' = "dialing"
    /\ status' = [status EXCEPT !.failed = TRUE]
    /\ UNCHANGED <<start, backVars, ctx, reader>>

ReconnectAgain ==
    /\ sup = "dialing"
    /\ dial = "none"
    /\ NextRound(attempt)
    /\ status' = [status EXCEPT !.attempt = attempt']
    /\ UNCHANGED <<mu, start, dial, clientVars, ctx, reader>>

Reconnects ==
    /\ mu = "sup"
    /\ EndDial
    /\ sup' = "loop"
    /\ UNCHANGED <<start, backVars, ctx, reader>>

-----------------------------------------------------------------------------
(* The status endpoint, and the lock step of every subscription call. *)
ReaderArrives(r) ==
    /\ reader[r] = "idle"
    /\ reader' = [reader EXCEPT ![r] = "waiting"]
    /\ UNCHANGED <<lockVars, clientVars, status, backVars, ctx>>

ReaderServed(r) ==
    /\ reader[r] = "waiting"
    /\ mu = "free"
    /\ reader' = [reader EXCEPT ![r] = "idle"]
    /\ UNCHANGED <<lockVars, clientVars, status, backVars, ctx>>

ConnectionLost(n) ==
    /\ n \in up
    /\ up' = up \ {n}
    /\ UNCHANGED <<lockVars, client, live, dxClient, dxCancel, fc, status, backVars, ctx, reader>>

Cancel ==
    /\ ctx = "live"
    /\ ctx' = "cancelled"
    /\ UNCHANGED <<lockVars, clientVars, status, backVars, reader>>

-----------------------------------------------------------------------------
Next ==
    \/ Rebinds \/ DialHangs
    \/ StartIngress \/ StartFails \/ StartConnects \/ StartSubscribes \/ StartBulkFails
    \/ LoopCancelled \/ LoopEnds \/ LoopTearsDown
    \/ WaitReturns \/ BackoffCancelled \/ BackoffElapses
    \/ ReconnectFails \/ ReconnectAgain \/ Reconnects
    \/ \E r \in Readers : ReaderArrives(r) \/ ReaderServed(r)
    \/ \E n \in Clients : ConnectionLost(n)
    \/ Cancel

(* The goroutines are scheduled; an attempt ends unless Dial hangs; dxMu   *)
(* lets a waiting reader in; and dxLink is reachable for one of every      *)
(* infinite number of attempts.  Wait need not return.                     *)
Fairness ==
    /\ WF_vars(Rebinds \/ DialHangs \/ StartFails \/ StartConnects \/ ReconnectFails)
    /\ WF_vars(StartSubscribes \/ StartBulkFails)
    /\ WF_vars(LoopCancelled \/ LoopEnds \/ LoopTearsDown)
    /\ WF_vars(BackoffCancelled \/ BackoffElapses \/ ReconnectAgain)
    /\ SF_vars(Rebinds) /\ SF_vars(Reconnects)
    /\ \A r \in Readers : SF_vars(ReaderServed(r))

Spec == Init /\ [][Next]_vars /\ Fairness

-----------------------------------------------------------------------------
(* No attempt, successful or failed, leaves a client behind that nobody    *)
(* has cancelled: the only such ones are the published client and the one  *)
(* being dialled (dialAndSubscribe cancels the previous client on entry    *)
(* and its own on every error path, service.go:408-446).                   *)
NoClientLeaked == live \subseteq {dxClient} \cup (IF dial = "none" THEN {} ELSE {client})

(* A reader of the status that is told "connected" can rely on it: there   *)
(* is a client, nothing has cancelled it, and it is the one the            *)
(* subscription manager sends on, across every failed or partial reconnect *)
(* (Rebind swaps the controller before the attempt has succeeded).         *)
StatusHonest ==
    (mu = "free" /\ status.connected) =>
        dxClient # 0 /\ dxClient \in live /\ fc = dxClient

(* While the supervisor backs off the status shows the attempt it is at    *)
(* and, from the second attempt on, that the one before failed.            *)
ReconnectVisible ==
    sup = "backoff" => /\ ~status.connected
                       /\ status.attempt = attempt
                       /\ status.failed <=> attempt > 1

FS == INSTANCE FeedStatus WITH shown <- status

(* The supervisor, StartIngress, the lock and the clients together show a  *)
(* reader of GET /dxlink/status nothing but the life of one feed, as       *)
(* FeedStatus writes it: an attempt is counted only after the one before   *)
(* has failed, a connection wipes attempts and error, a loss is never      *)
(* skipped over.                                                           *)
StatusSafety == FS!Init /\ [][FS!Next]_FS!vars

(* The two calls that may never return: Dial and Wait. *)
DialHung == dial = "hung"
Hung == DialHung \/ sup = "wait"

(* And it keeps FeedStatus' promise: a feed seen trying to reconnect gets  *)
(* connected, unless the service is stopped or the client hangs for ever.  *)
StatusRefines == <>[]Hung \/ FS!Fairness

(* A retry waits under a minute and more than half as long as the one      *)
(* before it, jitter included; the first one after a drop under a second.  *)
BackoffBounded ==
    [][sup' = "backoff" /\ sup # "backoff" =>
         /\ sleep' < 120
         /\ IF sup = "wait" THEN sleep' < 2 ELSE 2 * sleep' > sleep]_vars

(* "reconnects with exponential backoff when the connection drops"         *)
(* (service.go:476-478): from teardown the supervisor gets back to its     *)
(* loop unless the service is shut down or the client hangs for ever.      *)
ReconnectsAfterDrop == <>[]Hung \/ ((sup = "wait") ~> (sup = "loop" \/ ctx = "cancelled"))

(* A connection that is lost stops being reported as connected             *)
(* ("DXLinkStatus returns the connection state of the dxLink WebSocket",   *)
(* service.go:81), hung or not, unless the feed was abandoned: when the    *)
(* BulkAdd of the initial symbols fails, StartIngress returns after it has *)
(* published the client (service.go:392-394) and before there is a         *)
(* supervisor, and the status says connected for ever.                     *)
Lost == status.connected /\ dxClient \notin up
Abandoned == start = "failed" /\ dxClient # 0
LossReportedUnlessAbandoned == Lost ~> (~status.connected \/ Abandoned)

(* Every status request and every subscription call gets through dxMu,     *)
(* unless Dial hangs with it.                                              *)
ReadersAnswered ==
    <>[]DialHung \/ \A r \in Readers : (reader[r] = "waiting") ~> (reader[r] = "idle")

=============================================================================
