----------------------------- MODULE Middleware -----------------------------
(***************************************************************************)
(* The adapters around an API handler (http/middleware.go, adapter.go).    *)
(* adaptHandler puts apiMode outside and the authorizers inside.  apiMode  *)
(* wraps the captured variable next anew on every request:                 *)
(*                                                                         *)
(*     next = makeGraceful(s)(next)                                        *)
(*     next = setMaxBytesReader(maxBytes)(next)                            *)
(*     next = setContentType("application/json")(next)                     *)
(*     handlers.CORS(...)(next).ServeHTTP(w, r)                            *)
(*                                                                         *)
(* All requests of a route share that variable, without a lock, so each    *)
(* line is a read and an assignment of its own.  A wrapped handler is the  *)
(* sequence of its wrappers, innermost first; the handler inside the       *)
(* authorizers is the empty sequence.                                      *)
(***************************************************************************)
EXTENDS Naturals, Sequences, FiniteSets

CONSTANT Requests   \* requests of one route, each served once

Adapters == <<"graceful", "maxbytes", "contenttype">>
Wrappers == {"graceful", "maxbytes", "contenttype"}

VARIABLES
    next,       \* the captured handler
    pc, line,   \* per request: what it does next, on which line of apiMode
    saw,        \* per request: the handler it read last
    alone,      \* history: no other request has assigned next since it began
    answer      \* per request: how it was answered

vars == <<next, pc, line, saw, alone, answer>>

Init ==
    /\ next = <<>>
    /\ pc = [r \in Requests |-> "idle"]
    /\ line = [r \in Requests |-> 1]
    /\ saw = [r \in Requests |-> <<>>]
    /\ alone = [r \in Requests |-> TRUE]
    /\ answer = [r \in Requests |-> "none"]

-----------------------------------------------------------------------------
Begin(r) ==
    /\ pc[r] = "idle"
    /\ pc' = [pc EXCEPT ![r] = "read"]
    /\ UNCHANGED <<next, line, saw, alone, answer>>

(* Mutant: the last line is taken for one that wraps. *)
ReadOnPast(r) ==
    /\ pc[r] = "read"
    /\ saw' = [saw EXCEPT ![r] = next]
    /\ pc' = [pc EXCEPT ![r] = IF line[r] > 4 THEN "serve" ELSE "assign"]
    /\ UNCHANGED <<next, line, alone, answer>>

(* A line reads next: the first three to wrap it, the last to serve it. *)
Read(r) ==
    /\ pc[r] = "read"
    /\ saw' = [saw EXCEPT ![r] = next]
    /\ pc' = [pc EXCEPT ![r] = IF line[r] = 4 THEN "serve" ELSE "assign"]
    /\ UNCHANGED <<next, line, alone, answer>>

(* An assignment disturbs the other requests under way. *)
Overlap(r) == [q \in Requests |-> alone[q] /\ (q = r \/ pc[q] \in {"idle", "done"})]

(* Mutant: the body is limited once more on the second line. *)
AssignTwice(r) ==
    /\ pc[r] = "assign"
    /\ next' = IF line[r] = 2 THEN saw[r] \o <<"maxbytes", "maxbytes">>
               ELSE Append(saw[r], Adapters[line[r]])
    /\ line' = [line EXCEPT ![r] = @ + 1]
    /\ pc' = [pc EXCEPT ![r] = "read"]
    /\ alone' = Overlap(r)
    /\ UNCHANGED <<saw, answer>>

(* Mutant: the third line wraps with setMaxBytesReader again. *)
AssignCopied(r) ==
    /\ pc[r] = "assign"
    /\ next' = Append(saw[r], IF line[r] = 3 THEN "maxbytes" ELSE Adapters[line[r]])
    /\ line' = [line EXCEPT ![r] = @ + 1]
    /\ pc' = [pc EXCEPT ![r] = "read"]
    /\ alone' = Overlap(r)
    /\ UNCHANGED <<saw, answer>>

(* Mutant: the adapters are assigned in the opposite order. *)
AssignReversed(r) ==
    /\ pc[r] = "assign"
    /\ next' = Append(saw[r], Adapters[4 - line[r]])
    /\ line' = [line EXCEPT ![r] = @ + 1]
    /\ pc' = [pc EXCEPT ![r] = "read"]
    /\ alone' = Overlap(r)
    /\ UNCHANGED <<saw, answer>>

Assign(r) ==
    /\ pc[r] = "assign"
    /\ next' = Append(saw[r], Adapters[line[r]])
    /\ line' = [line EXCEPT ![r] = @ + 1]
    /\ pc' = [pc EXCEPT ![r] = "read"]
    /\ alone' = Overlap(r)
    /\ UNCHANGED <<saw, answer>>

-----------------------------------------------------------------------------
WrappedIn(chain, w) == \E i \in 1..Len(chain) : chain[i] = w

(* bearerAuthorizerCtxSetToken: a token that parses, is signed with the    *)
(* server's key and has not expired.                                       *)
Authorized(token) == token = "valid"

(* atLeastOneAuth and the handler, seen through the wrappers: a panic is   *)
(* recovered by the innermost makeGraceful, else net/http closes the       *)
(* connection; a body beyond maxBytes fails in the handler's decoder when  *)
(* a MaxBytesReader is on it.                                              *)
Outcome(chain, token, does) ==
    IF ~Authorized(token) THEN "unauthorized"
    ELSE IF does = "panic" THEN IF WrappedIn(chain, "graceful") THEN "internal" ELSE "aborted"
    ELSE IF does = "large body" THEN IF WrappedIn(chain, "maxbytes") THEN "bad request" ELSE "unlimited"
    ELSE IF WrappedIn(chain, "contenttype") THEN "json" ELSE "untyped"

Serve(r, token, does) ==
    /\ pc[r] = "serve"
    /\ answer' = [answer EXCEPT ![r] = Outcome(saw[r], token, does)]
    /\ pc' = [pc EXCEPT ![r] = "done"]
    /\ UNCHANGED <<next, line, saw, alone>>

Next ==
    \E r \in Requests :
        \/ Begin(r) \/ Read(r) \/ Assign(r)
        \/ \E token \in {"none", "invalid", "valid"}, does \in {"answer", "panic", "large body"} :
             Serve(r, token, does)

Spec == Init /\ [][Next]_vars

-----------------------------------------------------------------------------
(* Types of the variables. *)
TypeOK ==
    /\ next \in Seq(Wrappers)
    /\ pc \in [Requests -> {"idle", "read", "assign", "serve", "done"}]
    /\ line \in [Requests -> 1..4]
    /\ saw \in [Requests -> Seq(Wrappers)]
    /\ alone \in [Requests -> BOOLEAN]
    /\ \A r \in Requests : pc[r] = "assign" => line[r] <= 3

(* A panic in a handler is always answered, by makeGraceful, however the   *)
(* requests' assignments of next are interleaved.                          *)
PanicAnswered == \A r \in Requests : answer[r] # "aborted"

(* A request during which no other request assigned next has its body      *)
(* limited and its content type set, as apiMode's comment promises for     *)
(* every request: only an overlap may lose a wrapper.                      *)
CompleteUnlessOverlapped ==
    \A r \in Requests : alone[r] => answer[r] \notin {"unlimited", "untyped"}

(* The wrappers stay: when no two requests ever overlapped, each added     *)
(* three to what the next one runs through, and no interleaving adds more. *)
Begun == {r \in Requests : pc[r] # "idle"}
DepthFollowsRequests ==
    /\ Len(next) <= 3 * Cardinality(Begun)
    /\ (\A r \in Begun : alone[r] /\ line[r] = 4) => Len(next) = 3 * Cardinality(Begun)

=============================================================================
