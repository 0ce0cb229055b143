----------------------------- MODULE FeedStatus -----------------------------
(***************************************************************************)
(* What GET /dxlink/status promises its reader (service.DXLinkStatus): a   *)
(* feed is connected, or not and then it may be at its n-th attempt to     *)
(* come back, with or without an error to show.  Nothing here of clients,  *)
(* locks, goroutines or timers: Ingress is shown to implement it.          *)
(***************************************************************************)
EXTENDS Naturals

CONSTANT MaxAttempt   \* bound: the attempt counter stops growing here

VARIABLES
    shown,    \* the status: connected, reconnect attempt, whether an error is set
    ctx       \* "live" or "cancelled": the service's context

vars == <<shown, ctx>>

Nothing == [connected |-> FALSE, attempt |-> 0, failed |-> FALSE]
Connected == [connected |-> TRUE, attempt |-> 0, failed |-> FALSE]

Init == shown = Nothing /\ ctx = "live"

(* A connection comes up and wipes what was said of the attempts. *)
Connect == ~shown.connected /\ shown' = Connected /\ UNCHANGED ctx

(* It is lost, or the service lets go of it. *)
Drop == shown.connected /\ shown' = Nothing /\ UNCHANGED ctx

(* Attempts are counted one by one; a second one needs a first that failed. *)
Try ==
    /\ ~shown.connected
    /\ shown.attempt > 0 => shown.failed
    /\ shown' = [shown EXCEPT !.attempt =
                     IF shown.attempt < MaxAttempt THEN shown.attempt + 1 ELSE MaxAttempt]
    /\ UNCHANGED ctx

(* Only an attempt has an error to show. *)
Fail ==
    /\ ~shown.connected
    /\ shown.attempt > 0
    /\ shown' = [shown EXCEPT !.failed = TRUE]
    /\ UNCHANGED ctx

Shutdown == ctx = "live" /\ ctx' = "cancelled" /\ UNCHANGED shown

Next == Connect \/ Drop \/ Try \/ Fail \/ Shutdown

(* Who is seen trying succeeds in the end, unless the service is stopped. *)
Fairness == SF_vars(shown.attempt > 0 /\ ctx = "live" /\ Connect)

Spec == Init /\ [][Next]_vars /\ Fairness
=============================================================================
