------------------------ MODULE SubscriptionManager ------------------------
(***************************************************************************)
(* The owner of the dxLink feed subscription set (service/subscriptions.go)*)
(* driven by concurrent API callers, by the ingress loop that counts       *)
(* traffic, and by the reconnect supervisor that swaps the transport.      *)
(*                                                                         *)
(* A key is an (event, symbol) pair.  Every mutating method drops m.mu     *)
(* around its wire call, so a call is four steps: the check under the      *)
(* lock, the unlocked read of m.fc, the frame, and the commit under the    *)
(* lock.  Connections are numbered in dial order; wire[c] is the set of    *)
(* keys the server of connection c has been told to stream.  The frames of *)
(* a connection pass through one writer and one TCP stream, so applying a  *)
(* frame when it is written keeps the order in which the server sees them. *)
(***************************************************************************)
EXTENDS Naturals

CONSTANTS
    Keys,       \* the (event, symbol) pairs in play
    Callers,    \* goroutines that call Add, BulkAdd or Remove
    None,       \* Observe holds no live entry
    MaxConn,    \* bound: connections dialled in one behaviour
    MaxCount    \* bound: msgCount of an entry

ASSUME ManagerAssumption ==
    /\ MaxConn \in Nat \ {0}
    /\ MaxCount \in Nat
    /\ None \notin Keys

VARIABLES
    state,      \* the keys of m.state
    msgCount,   \* the msgCount of each entry, 0 for a key without one
    observed,   \* the key whose live entry Observe holds, before its increment
    fc,         \* m.fc: the connection the manager sends on
    link,       \* per connection, what its client still does
    wire,       \* per connection, the server's subscription set
    replay,     \* Rebind's subs slice, between its unlock and its frame
    call,       \* per caller, the call it is inside
    raced       \* history: keys whose last change overlapped another call or
                \* a Rebind; a call nothing overlapped takes its keys out

vars == <<state, msgCount, observed, fc, link, wire, replay, call, raced>>

Conns == 1..MaxConn

(* none: not dialled.  open: frames reach the server.  dying: the client's *)
(* done channel is closed, its writer may still run.  cancelled: given up  *)
(* by a failed Rebind, writer may still run.  dead: both loops have exited.*)
LinkState == {"none", "open", "dying", "cancelled", "dead"}

(* keys: what the call sends; conn: the controller it read; solo: those of *)
(* its keys that no other call and no Rebind has overlapped so far.        *)
Call == [op : {"none", "add", "remove"}, at : {"idle", "load", "send", "commit"},
         keys : SUBSET Keys, conn : 0..MaxConn, solo : SUBSET Keys]

Idle == [op |-> "none", at |-> "idle", keys |-> {}, conn |-> 0, solo |-> {}]

Busy == UNION {call[p].keys : p \in Callers}

(* Types of the variables. *)
TypeOK ==
    /\ state \in SUBSET Keys
    /\ msgCount \in [Keys -> 0..MaxCount]
    /\ observed \in Keys \cup {None}
    /\ fc \in Conns
    /\ link \in [Conns -> LinkState]
    /\ wire \in [Conns -> SUBSET Keys]
    /\ replay \in SUBSET Keys
    /\ call \in [Callers -> Call]
    /\ raced \in SUBSET Keys

(* NewSubscriptionManager binds the first connection, already open. *)
Init ==
    /\ state = {}
    /\ msgCount = [k \in Keys |-> 0]
    /\ observed = None
    /\ fc = 1
    /\ link = [c \in Conns |-> IF c = 1 THEN "open" ELSE "none"]
    /\ wire = [c \in Conns |-> {}]
    /\ replay = {}
    /\ call = [p \in Callers |-> Idle]
    /\ raced = {}

-----------------------------------------------------------------------------
(* Caller p has passed its check and goes to the wire for ks; the calls    *)
(* already in flight on one of them are no longer alone on it.             *)
Enter(p, op, ks) ==
    /\ call' = [q \in Callers |->
                  IF q = p
                    THEN [op |-> op, at |-> "load", keys |-> ks, conn |-> 0,
                          solo |-> ks \ (Busy \cup replay)]
                    ELSE [call[q] EXCEPT !.solo = @ \ ks]]
    /\ raced' = raced \cup (ks \cap (Busy \cup replay))

(* Mutant: the batch is sent whole, without the check. *)
FreshUnchecked(ks) == ks

(* The pairs of a batch that the check under the lock lets through. *)
Fresh(ks) == ks \ state

(* First half of Add and of BulkAdd.  Registered pairs are skipped; when   *)
(* none is left the method returns.  Add is the batch of one key.          *)
BeginAdd(p, ks) ==
    /\ call[p].at = "idle"
    /\ Fresh(ks) # {}
    /\ Enter(p, "add", Fresh(ks))
    /\ UNCHANGED <<state, msgCount, observed, fc, link, wire, replay>>

(* First half of Remove: an unknown key is a no-op. *)
BeginRemove(p, k) ==
    /\ call[p].at = "idle"
    /\ k \in state
    /\ Enter(p, "remove", {k})
    /\ UNCHANGED <<state, msgCount, observed, fc, link, wire, replay>>

(* m.fc is read without m.mu. *)
LoadController(p) ==
    /\ call[p].at = "load"
    /\ call' = [call EXCEPT ![p].at = "send", ![p].conn = fc]
    /\ UNCHANGED <<state, msgCount, observed, fc, link, wire, replay, raced>>

(* What a FEED_SUBSCRIPTION does to the server's set. *)
Apply(op, ks, subs) == IF op = "add" THEN subs \cup ks ELSE subs \ ks

(* UpdateSubscription returns nil: the writer took the frame.  Unless the  *)
(* connection is open the frame goes nowhere.                              *)
SendOK(p) ==
    LET c == call[p].conn
    IN  /\ call[p].at = "send"
        /\ link[c] \in {"open", "dying", "cancelled"}
        /\ wire' = IF link[c] = "open"
                     THEN [wire EXCEPT ![c] = Apply(call[p].op, call[p].keys, @)]
                     ELSE wire
        /\ call' = [call EXCEPT ![p].at = "commit"]
        /\ UNCHANGED <<state, msgCount, observed, fc, link, replay, raced>>

(* UpdateSubscription returns an error: the client's done channel is       *)
(* closed, or this write failed and the writer closes it.  The method      *)
(* returns and leaves m.state as it is.                                    *)
SendErr(p) ==
    LET c == call[p].conn
    IN  /\ call[p].at = "send"
        /\ link' = [link EXCEPT ![c] = IF @ = "open" THEN "dying" ELSE @]
        /\ call' = [call EXCEPT ![p] = Idle]
        /\ UNCHANGED <<state, msgCount, observed, fc, wire, replay, raced>>

(* Mutant: the commit overwrites an entry that was made meanwhile. *)
CommitAddOverwrites(p) ==
    /\ call[p].at = "commit"
    /\ call[p].op = "add"
    /\ state' = state \cup call[p].keys
    /\ msgCount' = [k \in Keys |-> IF k \in call[p].keys THEN 0 ELSE msgCount[k]]
    /\ call' = [call EXCEPT ![p] = Idle]
    /\ raced' = raced \ call[p].solo
    /\ UNCHANGED <<observed, fc, link, wire, replay>>

(* Second half of Add and BulkAdd: a key that was registered meanwhile     *)
(* keeps its entry, and with it its counters.                              *)
CommitAdd(p) ==
    /\ call[p].at = "commit"
    /\ call[p].op = "add"
    /\ state' = state \cup call[p].keys
    /\ msgCount' = [k \in Keys |-> IF k \in call[p].keys \ state THEN 0 ELSE msgCount[k]]
    /\ call' = [call EXCEPT ![p] = Idle]
    /\ raced' = raced \ call[p].solo
    /\ UNCHANGED <<observed, fc, link, wire, replay>>

(* Second half of Remove: delete(m.state, k).  An Observe that holds the   *)
(* entry increments an object nobody can reach any more.                   *)
CommitRemove(p) ==
    /\ call[p].at = "commit"
    /\ call[p].op = "remove"
    /\ state' = state \ call[p].keys
    /\ msgCount' = [k \in Keys |-> IF k \in call[p].keys THEN 0 ELSE msgCount[k]]
    /\ observed' = IF observed \in call[p].keys THEN None ELSE observed
    /\ call' = [call EXCEPT ![p] = Idle]
    /\ raced' = raced \ call[p].solo
    /\ UNCHANGED <<fc, link, wire, replay>>

-----------------------------------------------------------------------------
(* Observe: the entry is looked up under the read lock, the counter is     *)
(* incremented after it is released.  An event may arrive late, so any     *)
(* registered key can be observed; an unregistered one is ignored.         *)
ObserveLookup(k) ==
    /\ observed = None
    /\ k \in state
    /\ msgCount[k] < MaxCount
    /\ observed' = k
    /\ UNCHANGED <<state, msgCount, fc, link, wire, replay, call, raced>>

(* Mutant: the entry stays in hand and is counted again. *)
ObserveCountAgain ==
    /\ observed # None
    /\ msgCount' = [msgCount EXCEPT ![observed] = @ + 1]
    /\ UNCHANGED <<state, observed, fc, link, wire, replay, call, raced>>

ObserveCount ==
    /\ observed # None
    /\ msgCount' = [msgCount EXCEPT ![observed] = @ + 1]
    /\ observed' = None
    /\ UNCHANGED <<state, fc, link, wire, replay, call, raced>>

-----------------------------------------------------------------------------
(* The connection is lost, then its read and write loops exit and the      *)
(* server forgets the session.                                             *)
Drop(c) ==
    /\ link[c] = "open"
    /\ link' = [link EXCEPT ![c] = "dying"]
    /\ UNCHANGED <<state, msgCount, observed, fc, wire, replay, call, raced>>

LoopsExit(c) ==
    /\ link[c] \in {"dying", "cancelled"}
    /\ link' = [link EXCEPT ![c] = "dead"]
    /\ wire' = [wire EXCEPT ![c] = {}]
    /\ UNCHANGED <<state, msgCount, observed, fc, replay, call, raced>>

(* Mutant: the controller is swapped and nothing is replayed. *)
RebindSwapForgets ==
    /\ replay = {}
    /\ link[fc] \in {"dead", "cancelled"}
    /\ fc < MaxConn
    /\ fc' = fc + 1
    /\ link' = [link EXCEPT ![fc + 1] = "open"]
    /\ raced' = Busy
    /\ call' = [p \in Callers |-> [call[p] EXCEPT !.solo = {}]]
    /\ UNCHANGED <<state, msgCount, observed, wire, replay>>

(* First half of Rebind, under m.mu, on a freshly dialled connection: the  *)
(* supervisor has waited for the previous one, or a failed Rebind gave it  *)
(* up.  With nothing registered there is no frame to send.                 *)
RebindSwap ==
    /\ replay = {}
    /\ link[fc] \in {"dead", "cancelled"}
    /\ fc < MaxConn
    /\ fc' = fc + 1
    /\ link' = [link EXCEPT ![fc + 1] = "open"]
    /\ replay' = state
    /\ raced' = Busy
    /\ call' = [p \in Callers |-> [call[p] EXCEPT !.solo = {}]]
    /\ UNCHANGED <<state, msgCount, observed, wire>>

(* Second half of Rebind, after the unlock: one frame carries the slice. *)
RebindSendOK ==
    /\ replay # {}
    /\ link[fc] \in {"open", "dying"}
    /\ wire' = IF link[fc] = "open"
                 THEN [wire EXCEPT ![fc] = Apply("add", replay, @)]
                 ELSE wire
    /\ replay' = {}
    /\ UNCHANGED <<state, msgCount, observed, fc, link, call, raced>>

(* The frame fails: dialAndSubscribe cancels the client and the next       *)
(* attempt dials another one without waiting for its loops.                *)
RebindSendErr ==
    /\ replay # {}
    /\ link' = [link EXCEPT ![fc] = "cancelled"]
    /\ replay' = {}
    /\ UNCHANGED <<state, msgCount, observed, fc, wire, call, raced>>

-----------------------------------------------------------------------------
CallerStep(p) ==
    \/ \E ks \in SUBSET Keys : BeginAdd(p, ks)
    \/ \E k \in Keys : BeginRemove(p, k)
    \/ LoadController(p)
    \/ SendOK(p)
    \/ SendErr(p)
    \/ CommitAdd(p)
    \/ CommitRemove(p)

Next ==
    \/ \E p \in Callers : CallerStep(p)
    \/ \E k \in Keys : ObserveLookup(k)
    \/ ObserveCount
    \/ \E c \in Conns : Drop(c) \/ LoopsExit(c)
    \/ RebindSwap
    \/ RebindSendOK
    \/ RebindSendErr

Spec == Init /\ [][Next]_vars

-----------------------------------------------------------------------------
(* "the in-memory counter map is kept in lockstep with the wire state"     *)
(* (subscriptions.go:53-55), taken when nothing is in flight: no call is   *)
(* inside the manager, no replay is pending and the connection is open.    *)
Lockstep ==
    (Busy = {} /\ replay = {} /\ link[fc] = "open") => state = wire[fc]

(* What the manager does guarantee: on an open connection a key that no    *)
(* call is working on and no replay still owes is registered exactly when  *)
(* the server streams it, unless its last change overlapped another call   *)
(* on it or a reconnect (Add, BulkAdd, Remove and Rebind all send with     *)
(* m.mu released).  A later call on the key alone, or a reconnect no call  *)
(* overlaps, puts a raced key back in step.                                *)
LockstepUnlessRaced ==
    link[fc] = "open" =>
        \A k \in Keys \ (raced \cup Busy \cup replay) : k \in state <=> k \in wire[fc]

(* Adds, however they interleave with each other, with Observe and with    *)
(* Rebind, never reset the counter of a key that stays registered: the     *)
(* second check under the lock in Add and BulkAdd (subscriptions.go:127,   *)
(* 161) drops the late state write.                                        *)
CountersSurvive ==
    [][\A k \in state \cap state' : msgCount'[k] >= msgCount[k]]_vars

(* Outside races every frame changes something at the server, which        *)
(* "rejects duplicates" and "would reject a remove unknown request"        *)
(* (subscriptions.go:139,169): an add carries keys the server does not     *)
(* stream, a remove a key it does, a replay only keys it does not.         *)
FrameUseful(c, new, gone) ==
    /\ new \cap wire[c] \subseteq raced
    /\ gone \ wire[c] \subseteq raced

NoRedundantFrame ==
    [][/\ \A p \in Callers :
            (SendOK(p) /\ link[call[p].conn] = "open") =>
                IF call[p].op = "add" THEN FrameUseful(call[p].conn, call[p].keys, {})
                                      ELSE FrameUseful(call[p].conn, {}, call[p].keys)
       /\ RebindSendOK => FrameUseful(fc, replay, {})]_vars

=============================================================================
