---------------------------- MODULE TokenProvider ----------------------------
(***************************************************************************)
(* The OAuth access token cache (service/oauth.go) under concurrent        *)
(* callers, a clock, and a token endpoint that answers late or not at all. *)
(*                                                                         *)
(* AccessToken looks at the cache, and on a miss joins the singleflight    *)
(* group: the first to arrive leads and runs the function, whoever comes   *)
(* while it runs follows and shares its outcome.  A token is modelled by   *)
(* the time at which the endpoint stops accepting it.                      *)
(***************************************************************************)
EXTENDS Integers

CONSTANTS
    Callers,    \* goroutines calling AccessToken
    NoOne,      \* no flight is led
    Grants,     \* values of expires_in, 0 standing for a missing one
    Default,    \* the TTL assumed then: a quarter of an hour
    Skew,       \* clockSkew
    MaxTime     \* bound: the clock stops here

ASSUME TokenAssumption ==
    /\ NoOne \notin Callers
    /\ Grants \subseteq Nat
    /\ Default \in Nat \ {0}
    /\ Skew \in Nat
    /\ MaxTime \in Nat

VARIABLES
    now,        \* the clock, the provider's and the endpoint's
    cache,      \* [expireAt, dies, lag]: p.expireAt; when the endpoint stops
                \* accepting p.token; how long its response was on the way
    leader,     \* whose call runs the group's function
    flight,     \* what it does: "none", "check", "request", "answer", "return"
    answer,     \* [at, ttl]: the response on the way, its expires_in
    call        \* per caller, "idle", "miss" (about to join) or "join"

vars == <<now, cache, leader, flight, answer, call>>

Empty == [expireAt |-> 0, dies |-> 0, lag |-> 0]
NoAnswer == [at |-> 0, ttl |-> 0]

TypeOK ==
    /\ now \in Nat /\ now <= MaxTime
    /\ cache \in [expireAt : Int, dies : Nat, lag : Nat]
    /\ leader \in Callers \cup {NoOne}
    /\ flight \in {"none", "check", "request", "answer", "return"}
    /\ answer \in [at : Nat, ttl : Grants \cup {0}]
    /\ call \in [Callers -> {"idle", "miss", "join"}]

Init ==
    /\ now = 0
    /\ cache = Empty
    /\ leader = NoOne
    /\ flight = "none"
    /\ answer = NoAnswer
    /\ call = [p \in Callers |-> "idle"]

-----------------------------------------------------------------------------
(* cachedToken.  The empty cache never passes: its expiry is in the past. *)
Cached == now < cache.expireAt

(* Mutant: the skew comes off the lifetime itself and a missing one gets   *)
(* no default.                                                             *)
TTLNetOfSkew(expiresIn) == expiresIn - Skew

(* ttl <= 0 stands for the default. *)
TTL(expiresIn) == IF expiresIn = 0 THEN Default ELSE expiresIn

(* AccessToken's look at the cache; a hit returns at once. *)
Misses(p) ==
    /\ call[p] = "idle"
    /\ ~Cached
    /\ call' = [call EXCEPT ![p] = "miss"]
    /\ UNCHANGED <<now, cache, leader, flight, answer>>

(* group.Do: lead a flight, or wait for the one under way. *)
Joins(p) ==
    /\ call[p] = "miss"
    /\ call' = [call EXCEPT ![p] = "join"]
    /\ IF leader = NoOne THEN leader' = p /\ flight' = "check"
                         ELSE UNCHANGED <<leader, flight>>
    /\ UNCHANGED <<now, cache, answer>>

(* Mutant: no second look. *)
RechecksNot ==
    /\ flight = "check"
    /\ flight' = "request"
    /\ UNCHANGED <<now, cache, leader, answer, call>>

(* The second look at the cache, in the flight. *)
Rechecks ==
    /\ flight = "check"
    /\ flight' = IF Cached THEN "return" ELSE "request"
    /\ UNCHANGED <<now, cache, leader, answer, call>>

(* The token endpoint grants a token; its response is on the way. *)
EndpointGrants(e) ==
    /\ flight = "request"
    /\ flight' = "answer"
    /\ answer' = [at |-> now, ttl |-> e]
    /\ UNCHANGED <<now, cache, leader, call>>

(* Mutant: the skew is not taken off. *)
StoresWithoutSkew ==
    /\ flight = "answer"
    /\ flight' = "return"
    /\ cache' = [expireAt |-> now + TTL(answer.ttl),
                 dies |-> answer.at + TTL(answer.ttl),
                 lag |-> now - answer.at]
    /\ answer' = NoAnswer
    /\ UNCHANGED <<now, leader, call>>

(* refresh stores the token; its lifetime counts from the receipt. *)
Stores ==
    /\ flight = "answer"
    /\ flight' = "return"
    /\ cache' = [expireAt |-> now + TTL(answer.ttl) - Skew,
                 dies |-> answer.at + TTL(answer.ttl),
                 lag |-> now - answer.at]
    /\ answer' = NoAnswer
    /\ UNCHANGED <<now, leader, call>>

(* refresh fails: the leader's context is cancelled, the endpoint cannot   *)
(* be reached or refuses, or the response does not parse.                  *)
Fails ==
    /\ flight \in {"request", "answer"}
    /\ flight' = "return"
    /\ answer' = NoAnswer
    /\ UNCHANGED <<now, cache, leader, call>>

(* Mutant: only the leader is woken. *)
LandsForLeader ==
    /\ flight = "return"
    /\ flight' = "none"
    /\ leader' = NoOne
    /\ call' = [call EXCEPT ![leader] = "idle"]
    /\ UNCHANGED <<now, cache, answer>>

(* The flight lands: leader and followers return its token or its error. *)
Lands ==
    /\ flight = "return"
    /\ flight' = "none"
    /\ leader' = NoOne
    /\ call' = [p \in Callers |-> IF call[p] = "join" THEN "idle" ELSE call[p]]
    /\ UNCHANGED <<now, cache, answer>>

Tick ==
    /\ now < MaxTime
    /\ now' = now + 1
    /\ UNCHANGED <<cache, leader, flight, answer, call>>

Next ==
    \/ \E p \in Callers : Misses(p) \/ Joins(p)
    \/ Rechecks
    \/ \E e \in Grants : EndpointGrants(e)
    \/ Stores \/ Fails \/ Lands
    \/ Tick

(* The goroutines are scheduled.  Nothing is assumed of the endpoint: the  *)
(* request has no timeout and its context is never cancelled               *)
(* (service.go:241, http.DefaultClient), so it may stay unanswered.        *)
Fairness ==
    /\ \A p \in Callers : WF_vars(Joins(p))
    /\ WF_vars(Rechecks) /\ WF_vars(Lands)

Spec == Init /\ [][Next]_vars /\ Fairness

-----------------------------------------------------------------------------
(* "hands out a currently-valid Tastytrade OAuth access token"             *)
(* (oauth.go:25-26): a token served from the cache is one the endpoint still  *)
(* accepts, provided its response was not longer on the way than the skew  *)
(* that refresh takes off (the lifetime runs from the grant, expireAt is   *)
(* counted from the receipt).                                              *)
CachedTokenAlive == Cached /\ cache.lag <= Skew => now < cache.dies

(* The endpoint is never asked for a token while the cache holds a usable  *)
(* one, also by a caller that missed the cache before the last refresh and *)
(* joins after its flight has landed: the function checks again.           *)
NoNeedlessRefresh == [][\A e \in Grants : EndpointGrants(e) => ~Cached]_vars

(* Every call returns, whether it leads, follows or arrives between two    *)
(* flights, and however the flight ends, unless one request to the         *)
(* endpoint is never answered: that one flight then holds every caller     *)
(* that misses the cache.                                                  *)
Asking == flight \in {"request", "answer"}
CallsReturn ==
    <>[]Asking \/ \A p \in Callers : (call[p] = "miss") ~> (call[p] = "idle")

=============================================================================
