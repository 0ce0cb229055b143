------------------------ MODULE TokenProvider_proofs ------------------------
(***************************************************************************)
(* Safety of TokenProvider for every set of callers, every choice of       *)
(* lifetimes and skew and any bound on the clock.                          *)
(***************************************************************************)
EXTENDS TokenProvider, TLAPS

(* A response on the way was granted in the past. *)
AnswerInv == answer.at <= now

(* The expiry the provider counts with and the endpoint's differ by the    *)
(* skew less the response's delay; only the empty cache is exempt, and its *)
(* expiry is never ahead of the clock.                                     *)
ExpiryInv == cache = Empty \/ cache.dies = cache.expireAt + Skew - cache.lag

(* A flight asks the endpoint only after it found the cache unusable, and  *)
(* nothing but the flight itself makes it usable again.                    *)
RequestInv == flight = "request" => ~Cached

IInv == TypeOK /\ AnswerInv /\ ExpiryInv /\ RequestInv

(* A granted lifetime, or the default for a missing one, is a natural      *)
(* number of ticks (oauth.go:148-151).                                     *)
LEMMA TTLType == \A e \in Grants \cup {0} : TTL(e) \in Nat
BY TokenAssumption DEF TTL

(* The invariant holds of a provider nobody has called yet. *)
LEMMA InitIInv == Init => IInv
BY TokenAssumption
   DEF Init, IInv, TypeOK, AnswerInv, ExpiryInv, RequestInv, Empty, NoAnswer

(* Every step of a caller, of the flight, of the endpoint and of the clock *)
(* preserves the invariant.                                                *)
LEMMA Inductive == IInv /\ [Next]_vars => IInv'
<1> SUFFICES ASSUME IInv, [Next]_vars PROVE IInv'
    OBVIOUS
<1> USE TokenAssumption DEF IInv, TypeOK, AnswerInv, ExpiryInv, RequestInv, Cached
<1>1. CASE UNCHANGED vars
  BY <1>1 DEF vars
<1>2. ASSUME NEW p \in Callers, Misses(p) PROVE IInv'
  BY <1>2 DEF Misses
<1>3. ASSUME NEW p \in Callers, Joins(p) PROVE IInv'
  BY <1>3 DEF Joins
<1>4. CASE Rechecks
  BY <1>4 DEF Rechecks
<1>5. ASSUME NEW e \in Grants, EndpointGrants(e) PROVE IInv'
  BY <1>5 DEF EndpointGrants
<1>6. CASE Stores
  <2>1. TTL(answer.ttl) \in Nat
    BY TTLType
  <2>2. TypeOK'
    BY <1>6, <2>1 DEF Stores, NoAnswer
  <2>3. ExpiryInv'
    BY <1>6, <2>1 DEF Stores
  <2>4. AnswerInv' /\ RequestInv'
    BY <1>6 DEF Stores, NoAnswer
  <2> QED BY <2>2, <2>3, <2>4
<1>7. CASE Fails
  BY <1>7 DEF Fails, NoAnswer
<1>8. CASE Lands
  BY <1>8 DEF Lands
<1>9. CASE Tick
  BY <1>9 DEF Tick
<1> QED
  BY <1>1, <1>2, <1>3, <1>4, <1>5, <1>6, <1>7, <1>8, <1>9 DEF Next

(* The invariant holds in every reachable state. *)
THEOREM Invariance == Spec => []IInv
BY InitIInv, Inductive, PTL DEF Spec

(* The variables keep their types. *)
THEOREM TypeCorrect == Spec => []TypeOK
BY Invariance, PTL DEF IInv

(* A token cachedToken hands out is one the endpoint still accepts, as     *)
(* long as its response travelled no longer than clockSkew.                *)
THEOREM AliveTheorem == Spec => []CachedTokenAlive
<1>1. IInv => CachedTokenAlive
  BY TokenAssumption DEF IInv, TypeOK, ExpiryInv, CachedTokenAlive, Cached, Empty
<1> QED BY <1>1, Invariance, PTL

(* AccessToken asks the token endpoint only when the cached token cannot   *)
(* be used, however the callers interleave.                                *)
THEOREM RefreshTheorem == Spec => NoNeedlessRefresh
<1>1. IInv => \A e \in Grants : EndpointGrants(e) => ~Cached
  BY DEF IInv, RequestInv, EndpointGrants
<1>2. IInv /\ [Next]_vars => [\A e \in Grants : EndpointGrants(e) => ~Cached]_vars
  BY <1>1
<1> QED BY <1>2, Invariance, PTL DEF Spec, NoNeedlessRefresh
=============================================================================
