------------------------- MODULE Middleware_proofs -------------------------
(***************************************************************************)
(* For any set of requests: no interleaving of apiMode's assignments lets  *)
(* a handler run outside makeGraceful, and only an overlap can lose the    *)
(* other wrappers.                                                         *)
(***************************************************************************)
EXTENDS Middleware, FiniteSetTheorems, TLAPS

(* The last wrappers of a handler when a request is at a line: what its    *)
(* own earlier lines put there.                                            *)
EndsFor(chain, l) ==
    /\ l = 3 => Len(chain) >= 1 /\ chain[Len(chain)] = "maxbytes"
    /\ l = 4 => /\ Len(chain) >= 2
                /\ chain[Len(chain) - 1] = "maxbytes"
                /\ chain[Len(chain)] = "contenttype"

(* Every wrapped handler has makeGraceful innermost, and a request past    *)
(* its first line sees a wrapped one.                                      *)
GracefulInnermost ==
    /\ next # <<>> => next[1] = "graceful"
    /\ \A r \in Requests :
         /\ saw[r] # <<>> => saw[r][1] = "graceful"
         /\ line[r] > 1 => next # <<>>
         /\ pc[r] = "assign" /\ line[r] > 1 => saw[r] # <<>>
         /\ pc[r] = "serve" => saw[r] # <<>> /\ line[r] = 4

(* What an undisturbed request finds is what it left. *)
Undisturbed ==
    \A r \in Requests : alone[r] =>
        /\ pc[r] = "idle" => line[r] = 1
        /\ pc[r] = "read" => EndsFor(next, line[r])
        /\ pc[r] = "assign" => saw[r] = next /\ EndsFor(next, line[r])
        /\ pc[r] = "serve" => EndsFor(saw[r], 4)

IInv == TypeOK /\ GracefulInnermost /\ Undisturbed /\ PanicAnswered /\ CompleteUnlessOverlapped

(* What wrapping once more does to a handler. *)
LEMMA AppendWraps ==
    ASSUME NEW s \in Seq(Wrappers), NEW l \in 1..3
    PROVE  /\ Adapters[l] \in Wrappers
           /\ Append(s, Adapters[l]) \in Seq(Wrappers)
           /\ Append(s, Adapters[l]) # <<>>
           /\ s # <<>> => Append(s, Adapters[l])[1] = s[1]
           /\ s = <<>> => Append(s, Adapters[l])[1] = Adapters[l]
           /\ EndsFor(s, l) => EndsFor(Append(s, Adapters[l]), l + 1)
<1>1. Adapters[l] \in Wrappers
  BY DEF Adapters, Wrappers
<1>2. l \in {1, 2, 3} /\ Len(s) \in Nat
  OBVIOUS
<1>3. EndsFor(s, l) => EndsFor(Append(s, Adapters[l]), l + 1)
  BY <1>1, <1>2 DEF EndsFor, Adapters
<1>4. Append(s, Adapters[l]) \in Seq(Wrappers) /\ Append(s, Adapters[l]) # <<>>
  <2>1. Append(s, Adapters[l]) \in Seq(Wrappers) /\ Len(Append(s, Adapters[l])) = Len(s) + 1
    BY <1>1
  <2>2. Len(<<>>) = 0 /\ Len(s) + 1 # 0
    BY <1>2
  <2> QED
    BY <2>1, <2>2
<1>5. s # <<>> => Append(s, Adapters[l])[1] = s[1]
  BY <1>1, <1>2
<1>6. s = <<>> => Append(s, Adapters[l])[1] = Adapters[l]
  BY <1>1, <1>2
<1> QED
  BY <1>1, <1>3, <1>4, <1>5, <1>6

(* The invariant holds when the server starts. *)
LEMMA InitIInv == Init => IInv
<1> SUFFICES ASSUME Init PROVE IInv
  OBVIOUS
<1>1. TypeOK
  BY DEF Init, TypeOK
<1>2. GracefulInnermost /\ Undisturbed /\ PanicAnswered /\ CompleteUnlessOverlapped
  BY DEF Init, GracefulInnermost, Undisturbed, PanicAnswered, CompleteUnlessOverlapped
<1> QED
  BY <1>1, <1>2 DEF IInv

(* Every step of every request keeps the invariant. *)
LEMMA StepIInv == IInv /\ [Next]_vars => IInv'
<1> SUFFICES ASSUME IInv, [Next]_vars PROVE IInv'
  OBVIOUS
<1>1. ASSUME NEW r \in Requests, Begin(r) PROVE IInv'
  <2>1. TypeOK'
    BY <1>1 DEF IInv, TypeOK, Begin
  <2>2. line[r] = line'[r] /\ GracefulInnermost'
    BY <1>1 DEF IInv, TypeOK, GracefulInnermost, Begin
  <2>3. Undisturbed' /\ PanicAnswered' /\ CompleteUnlessOverlapped'
    BY <1>1 DEF IInv, TypeOK, Undisturbed, EndsFor, PanicAnswered, CompleteUnlessOverlapped, Begin
  <2> QED
    BY <2>1, <2>2, <2>3 DEF IInv
<1>2. ASSUME NEW r \in Requests, Read(r) PROVE IInv'
  <2>1. TypeOK'
    <3>1. pc' \in [Requests -> {"idle", "read", "assign", "serve", "done"}]
      BY <1>2 DEF IInv, TypeOK, Read
    <3>2. saw' \in [Requests -> Seq(Wrappers)] /\ UNCHANGED <<next, line, alone>>
      BY <1>2 DEF IInv, TypeOK, Read
    <3>3. ASSUME NEW q \in Requests, pc'[q] = "assign" PROVE line[q] <= 3
      <4>1. line[q] \in 1..4 /\ (q # r => pc'[q] = pc[q])
        BY <1>2 DEF IInv, TypeOK, Read
      <4>2. q = r => line[q] # 4
        BY <1>2, <3>3 DEF IInv, TypeOK, Read
      <4> QED
        BY <3>3, <4>1, <4>2 DEF IInv, TypeOK
    <3> QED
      BY <3>1, <3>2, <3>3 DEF IInv, TypeOK
  <2>2. GracefulInnermost'
    BY <1>2 DEF IInv, TypeOK, GracefulInnermost, Read
  <2>3. Undisturbed'
    BY <1>2 DEF IInv, TypeOK, Undisturbed, Read
  <2>4. PanicAnswered' /\ CompleteUnlessOverlapped'
    BY <1>2 DEF IInv, PanicAnswered, CompleteUnlessOverlapped, Read
  <2> QED
    BY <2>1, <2>2, <2>3, <2>4 DEF IInv
<1>3. ASSUME NEW r \in Requests, Assign(r) PROVE IInv'
  <2> DEFINE wrapped == Append(saw[r], Adapters[line[r]])
  <2>1. line[r] \in 1..3 /\ saw[r] \in Seq(Wrappers) /\ next' = wrapped
    BY <1>3 DEF IInv, TypeOK, Assign
  <2>2. /\ wrapped \in Seq(Wrappers) /\ wrapped # <<>> /\ wrapped[1] = "graceful"
        /\ EndsFor(saw[r], line[r]) => EndsFor(wrapped, line[r] + 1)
    <3>1. saw[r] = <<>> => line[r] = 1
      BY <1>3, <2>1 DEF IInv, GracefulInnermost, Assign
    <3>2. Adapters[1] = "graceful"
      BY DEF Adapters
    <3> QED
      BY <2>1, <3>1, <3>2, AppendWraps DEF IInv, GracefulInnermost
  <2> HIDE DEF wrapped
  <2>3. TypeOK'
    BY <1>3, <2>1, <2>2 DEF IInv, TypeOK, Assign, Overlap
  <2>4. GracefulInnermost'
    BY <1>3, <2>1, <2>2 DEF IInv, TypeOK, GracefulInnermost, Assign
  <2>5. Undisturbed'
    <3> SUFFICES ASSUME NEW q \in Requests, alone'[q]
                 PROVE  /\ pc'[q] = "idle" => line'[q] = 1
                        /\ pc'[q] = "read" => EndsFor(next', line'[q])
                        /\ pc'[q] = "assign" => saw'[q] = next' /\ EndsFor(next', line'[q])
                        /\ pc'[q] = "serve" => EndsFor(saw'[q], 4)
      BY DEF Undisturbed
    <3>1. CASE q = r
      <4>1. alone[r] /\ pc[r] = "assign"
        BY <1>3, <3>1 DEF Assign, Overlap
      <4>2. EndsFor(wrapped, line[r] + 1)
        BY <2>2, <4>1 DEF IInv, Undisturbed
      <4> QED
        BY <1>3, <2>1, <3>1, <4>2 DEF IInv, TypeOK, Assign
    <3>2. CASE q # r
      <4>1. alone[q] /\ pc[q] \in {"idle", "done"}
        BY <1>3, <3>2 DEF Assign, Overlap
      <4>2. pc'[q] = pc[q] /\ line'[q] = line[q]
        BY <1>3, <3>2 DEF IInv, TypeOK, Assign
      <4> QED
        BY <4>1, <4>2 DEF IInv, Undisturbed
    <3> QED
      BY <3>1, <3>2
  <2>6. PanicAnswered' /\ CompleteUnlessOverlapped'
    BY <1>3 DEF IInv, TypeOK, PanicAnswered, CompleteUnlessOverlapped, Assign, Overlap
  <2> QED
    BY <2>3, <2>4, <2>5, <2>6 DEF IInv
<1>4. ASSUME NEW r \in Requests, NEW token, NEW does, Serve(r, token, does) PROVE IInv'
  <2>1. TypeOK'
    BY <1>4 DEF IInv, TypeOK, Serve
  <2>2. GracefulInnermost' /\ Undisturbed'
    BY <1>4 DEF IInv, TypeOK, GracefulInnermost, Undisturbed, Serve
  <2>3. saw[r] \in Seq(Wrappers) /\ Len(saw[r]) \in Nat /\ saw[r] # <<>> /\ saw[r][1] = "graceful"
    BY <1>4 DEF IInv, TypeOK, GracefulInnermost, Serve
  <2>4. WrappedIn(saw[r], "graceful")
    BY <2>3 DEF WrappedIn
  <2>5. alone[r] => WrappedIn(saw[r], "maxbytes") /\ WrappedIn(saw[r], "contenttype")
    <3> SUFFICES ASSUME alone[r]
                 PROVE  WrappedIn(saw[r], "maxbytes") /\ WrappedIn(saw[r], "contenttype")
      OBVIOUS
    <3>1. EndsFor(saw[r], 4)
      BY <1>4 DEF IInv, Undisturbed, Serve
    <3> QED
      BY <2>3, <3>1 DEF EndsFor, WrappedIn
  <2>6. /\ Outcome(saw[r], token, does) # "aborted"
        /\ alone[r] => Outcome(saw[r], token, does) \notin {"unlimited", "untyped"}
    BY <2>4, <2>5 DEF Outcome
  <2>7. \A q \in Requests : answer'[q] = answer[q] \/ (q = r /\ answer'[q] = Outcome(saw[r], token, does))
    BY <1>4 DEF Serve
  <2>8. PanicAnswered' /\ CompleteUnlessOverlapped'
    BY <1>4, <2>6, <2>7 DEF IInv, PanicAnswered, CompleteUnlessOverlapped, Serve
  <2> QED
    BY <2>1, <2>2, <2>8 DEF IInv
<1>5. CASE UNCHANGED vars
  BY <1>5 DEF IInv, TypeOK, GracefulInnermost, Undisturbed, PanicAnswered,
              CompleteUnlessOverlapped, vars
<1> QED
  BY <1>1, <1>2, <1>3, <1>4, <1>5 DEF Next

(* The inductive invariant holds in every reachable state. *)
LEMMA IInvHolds == Spec => []IInv
  BY InitIInv, StepIInv, PTL DEF Spec

(* Type correctness of apiMode's shared variable and of every request, for *)
(* any set of requests.                                                    *)
THEOREM TypeCorrect == Spec => []TypeOK
  BY IInvHolds, PTL DEF IInv

(* For any set of requests, every panic of a handler is answered by        *)
(* makeGraceful, although the requests race on next.                       *)
THEOREM PanicsAnswered == Spec => []PanicAnswered
  BY IInvHolds, PTL DEF IInv

(* For any set of requests, a request that overlaps no other keeps its     *)
(* body limit and its content type.                                        *)
THEOREM CompleteAlone == Spec => []CompleteUnlessOverlapped
  BY IInvHolds, PTL DEF IInv

-----------------------------------------------------------------------------
(* How deep the handler gets.  Every assignment of next is the line of one *)
(* request, so the assignments made so far are a set of pairs.             *)
Assigned == {p \in Begun \X (1..3) : p[2] < line[p[1]]}

(* A request that has not begun is at its first line and undisturbed; no   *)
(* handler is deeper than there were assignments, and the shared one is    *)
(* exactly as deep when no two requests overlapped.                        *)
FreshInv == \A r \in Requests : pc[r] = "idle" => line[r] = 1 /\ alone[r]
DepthInv ==
    /\ IsFiniteSet(Begun) /\ IsFiniteSet(Assigned)
    /\ Len(next) <= Cardinality(Assigned)
    /\ \A r \in Requests : Len(saw[r]) <= Cardinality(Assigned)
    /\ (\A r \in Requests : alone[r]) => Len(next) = Cardinality(Assigned)

(* No request has begun in the initial state. *)
LEMMA InitDepth == Init => FreshInv /\ DepthInv
<1> SUFFICES ASSUME Init PROVE FreshInv /\ DepthInv
  OBVIOUS
<1>1. Begun = {} /\ Assigned = {}
  BY DEF Init, Begun, Assigned
<1>2. IsFiniteSet({}) /\ Cardinality({}) = 0
  BY FS_EmptySet
<1>3. QED
  BY <1>1, <1>2 DEF Init, FreshInv, DepthInv

(* What a step that assigns nothing does to the set of assignments. *)
LEMMA NoAssignment ==
    ASSUME IInv, FreshInv, NEW r \in Requests,
           \/ Begin(r) \/ Read(r)
           \/ \E token, does : Serve(r, token, does)
    PROVE  Begun' = Begun \cup {r} /\ Assigned' = Assigned /\ FreshInv'
<1>1. /\ pc \in [Requests -> {"idle", "read", "assign", "serve", "done"}]
      /\ pc' \in [Requests -> {"idle", "read", "assign", "serve", "done"}]
      /\ pc'[r] # "idle" /\ \A q \in Requests \ {r} : pc'[q] = pc[q]
      /\ line' = line /\ alone' = alone /\ line \in [Requests -> 1..4]
  BY DEF IInv, TypeOK, Begin, Read, Serve
<1>2. Begun' = Begun \cup {r}
  BY <1>1 DEF Begun
<1>3. r \notin Begun => line[r] = 1
  BY DEF Begun, FreshInv
<1>4. Assigned' = Assigned
  <2>1. Assigned' = {p \in (Begun \cup {r}) \X (1..3) : p[2] < line[p[1]]}
    BY <1>1, <1>2 DEF Assigned
  <2>2. ASSUME NEW p \in (Begun \cup {r}) \X (1..3), p[2] < line[p[1]]
        PROVE  p \in Begun \X (1..3)
    <3>1. p = <<p[1], p[2]>> /\ p[1] \in Begun \cup {r} /\ p[2] \in 1..3
      OBVIOUS
    <3>2. p[1] \in Begun
      BY <1>3, <2>2, <3>1
    <3>3. QED
      BY <3>1, <3>2
  <2>3. QED
    BY <2>1, <2>2 DEF Assigned
<1>5. FreshInv'
  BY <1>1 DEF FreshInv
<1>6. QED
  BY <1>2, <1>4, <1>5

(* Every step keeps the depth within the assignments. *)
LEMMA StepDepth == IInv /\ FreshInv /\ DepthInv /\ [Next]_vars => FreshInv' /\ DepthInv'
<1> SUFFICES ASSUME IInv, FreshInv, DepthInv, [Next]_vars PROVE FreshInv' /\ DepthInv'
  OBVIOUS
<1> DEFINE depth == Cardinality(Assigned)
<1>0. depth \in Nat
  BY FS_CardinalityType DEF DepthInv
<1>1. ASSUME NEW r \in Requests, Begin(r) \/ \E token, does : Serve(r, token, does)
      PROVE  FreshInv' /\ DepthInv'
  <2>1. Begun' = Begun \cup {r} /\ Assigned' = Assigned /\ FreshInv'
    BY <1>1, NoAssignment
  <2>2. IsFiniteSet(Begun')
    BY <2>1, FS_AddElement DEF DepthInv
  <2>3. next' = next /\ saw' = saw /\ alone' = alone
    BY <1>1 DEF Begin, Serve
  <2>4. QED
    BY <2>1, <2>2, <2>3 DEF DepthInv
<1>2. ASSUME NEW r \in Requests, Read(r) PROVE FreshInv' /\ DepthInv'
  <2>1. Begun' = Begun \cup {r} /\ Assigned' = Assigned /\ FreshInv'
    BY <1>2, NoAssignment
  <2>2. IsFiniteSet(Begun')
    BY <2>1, FS_AddElement DEF DepthInv
  <2>3. next' = next /\ saw' = [saw EXCEPT ![r] = next] /\ alone' = alone
    BY <1>2 DEF Read
  <2>4. \A q \in Requests : Len(saw'[q]) <= depth
    BY <2>3 DEF DepthInv, IInv, TypeOK
  <2>5. QED
    BY <2>1, <2>2, <2>3, <2>4 DEF DepthInv
<1>3. ASSUME NEW r \in Requests, Assign(r) PROVE FreshInv' /\ DepthInv'
  <2>1. /\ pc[r] = "assign" /\ line[r] \in 1..3 /\ saw[r] \in Seq(Wrappers)
        /\ line' = [line EXCEPT ![r] = line[r] + 1] /\ saw' = saw
        /\ next' = Append(saw[r], Adapters[line[r]])
        /\ line \in [Requests -> 1..4]
    BY <1>3 DEF IInv, TypeOK, Assign
  <2>2. Begun' = Begun /\ r \in Begun
    BY <1>3 DEF Begun, Assign, IInv, TypeOK
  <2>3. Assigned' = Assigned \cup {<<r, line[r]>>} /\ <<r, line[r]>> \notin Assigned
    <3>1. Assigned' = {p \in Begun \X (1..3) : p[2] < line'[p[1]]}
      BY <2>2 DEF Assigned
    <3>2. \A p \in Begun \X (1..3) : p[1] \in Requests /\ p[2] \in Int /\ line[p[1]] \in Int
      BY <2>1 DEF Begun
    <3>3. \A p \in Begun \X (1..3) :
            p[2] < line'[p[1]] <=> (p[2] < line[p[1]] \/ p = <<r, line[r]>>)
      <4> SUFFICES ASSUME NEW q \in Begun, NEW l \in 1..3
                   PROVE  l < line'[q] <=> (l < line[q] \/ (q = r /\ l = line[r]))
        OBVIOUS
      <4>1. q \in Requests
        BY DEF Begun
      <4>2. CASE q = r
        BY <2>1, <4>2
      <4>3. CASE q # r
        BY <2>1, <4>1, <4>3
      <4>4. QED
        BY <4>2, <4>3
    <3>4. <<r, line[r]>> \in Begun \X (1..3) /\ ~(line[r] < line[r])
      BY <2>1, <2>2
    <3>5. QED
      BY <3>1, <3>3, <3>4 DEF Assigned
  <2>4. IsFiniteSet(Assigned') /\ Cardinality(Assigned') = depth + 1
    BY <2>3, FS_AddElement DEF DepthInv
  <2>5. Len(next') = Len(saw[r]) + 1 /\ Len(saw[r]) \in Nat
    BY <2>1, AppendWraps
  <2>6. FreshInv'
    BY <1>3 DEF FreshInv, Assign, Overlap, IInv, TypeOK
  <2>7. Len(next') <= depth + 1
    BY <1>0, <2>5 DEF DepthInv
  <2>8. \A q \in Requests : Len(saw'[q]) <= depth + 1
    <3> SUFFICES ASSUME NEW q \in Requests PROVE Len(saw[q]) <= depth + 1
      BY <2>1
    <3>1. Len(saw[q]) \in Nat /\ Len(saw[q]) <= depth
      BY DEF DepthInv, IInv, TypeOK
    <3>2. QED
      BY <1>0, <3>1
  <2>9. ASSUME \A q \in Requests : alone'[q] PROVE Len(next') = depth + 1
    <3>1. \A q \in Requests : alone[q]
      BY <1>3, <2>9 DEF Assign, Overlap
    <3>2. saw[r] = next
      BY <2>1, <3>1 DEF IInv, Undisturbed
    <3>3. QED
      BY <2>5, <3>1, <3>2 DEF DepthInv
  <2>10. QED
    BY <2>2, <2>4, <2>6, <2>7, <2>8, <2>9 DEF DepthInv
<1>4. CASE UNCHANGED vars
  BY <1>4 DEF vars, FreshInv, DepthInv, Begun, Assigned
<1>5. QED
  BY <1>1, <1>2, <1>3, <1>4 DEF Next

(* The assignments are at most three for each request that has begun, and  *)
(* exactly three when each is past its last line.                          *)
LEMMA ThreeEach ==
    ASSUME IInv, DepthInv
    PROVE  /\ Cardinality(Assigned) <= 3 * Cardinality(Begun)
           /\ (\A r \in Begun : line[r] = 4) => Cardinality(Assigned) = 3 * Cardinality(Begun)
<1>1. IsFiniteSet(1..3) /\ Cardinality(1..3) = 3
  <2>1. 1 \in Int /\ 3 \in Int
    OBVIOUS
  <2>2. /\ IsFiniteSet(1..3)
        /\ Cardinality(1..3) = IF 1 > 3 THEN 0 ELSE 3 - 1 + 1
    BY <2>1, FS_Interval, Zenon
  <2>3. QED
    BY <2>2
<1>2. /\ IsFiniteSet(Begun \X (1..3))
      /\ Cardinality(Begun \X (1..3)) = Cardinality(Begun) * 3
  BY <1>1, FS_Product DEF DepthInv
<1>3. Cardinality(Begun) \in Nat
  BY FS_CardinalityType DEF DepthInv
<1>4. Assigned \in SUBSET (Begun \X (1..3))
  BY DEF Assigned
<1>5. Cardinality(Assigned) <= Cardinality(Begun \X (1..3))
  BY <1>2, <1>4, FS_Subset
<1>6. (\A r \in Begun : line[r] = 4) => Assigned = Begun \X (1..3)
  BY DEF Assigned
<1>7. QED
  BY <1>2, <1>3, <1>5, <1>6

(* For any set of requests: the handler a route runs through is never      *)
(* deeper than three wrappers for each request it has begun to serve, and  *)
(* exactly that deep when none overlapped another.                         *)
THEOREM DepthGrows == Spec => []DepthFollowsRequests
<1>1. Spec => [](FreshInv /\ DepthInv)
  BY InitDepth, StepDepth, IInvHolds, PTL DEF Spec
<1>2. IInv /\ FreshInv /\ DepthInv => DepthFollowsRequests
  <2> SUFFICES ASSUME IInv, FreshInv, DepthInv PROVE DepthFollowsRequests
    OBVIOUS
  <2>1. /\ Cardinality(Assigned) <= 3 * Cardinality(Begun)
        /\ (\A r \in Begun : line[r] = 4) => Cardinality(Assigned) = 3 * Cardinality(Begun)
    BY ThreeEach
  <2>2. Cardinality(Assigned) \in Nat /\ Cardinality(Begun) \in Nat /\ Len(next) \in Nat
    BY FS_CardinalityType DEF DepthInv, IInv, TypeOK
  <2>3. (\A r \in Begun : alone[r]) => \A r \in Requests : alone[r]
    BY DEF FreshInv, Begun
  <2>4. Len(next) <= Cardinality(Assigned)
    BY DEF DepthInv
  <2>5. (\A r \in Begun : alone[r] /\ line[r] = 4) => Len(next) = 3 * Cardinality(Begun)
    BY <2>1, <2>3 DEF DepthInv
  <2>6. Len(next) <= 3 * Cardinality(Begun)
    BY <2>1, <2>2, <2>4
  <2>7. QED
    BY <2>5, <2>6 DEF DepthFollowsRequests
<1>3. QED
  BY <1>1, <1>2, IInvHolds, PTL

=============================================================================
