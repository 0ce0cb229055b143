--------------------------- MODULE Server_proofs ---------------------------
(***************************************************************************)
(* Proofs about the server process and the requests it serves, modules     *)
(* Server, NLSubscribe and Symbology, for any number of callouts, tokens,  *)
(* sinks, ticks and restarts, and any clients, FilterSpecs and option      *)
(* chains: whom the auth callout grants and refuses, that the server only  *)
(* serves after a whole start, which symbols it starts with, that          *)
(* /nl-subscribe resolves a FilterSpec to the pairs it asks for, each of   *)
(* them once, and that a 200 means they are registered.                    *)
(***************************************************************************)
EXTENDS Server, NLSubscribe, FiniteSetTheorems, TLAPS

Token == [id : Int, exp : Int]
Places == {"none", "queued", "http", "sign", "granted", "denied", "error", "lost"}
Reasons == {"", "no server", "exchange", "401", "payload", "sign"}

(* The server's tokens are numbered from one, so none of them is the empty *)
(* or the forged one.                                                      *)
TokenInv ==
    /\ time \in Nat /\ IsFiniteSet(issued)
    /\ issued \subseteq Token /\ \A t \in issued : t.id >= 1

(* A request's token was issued before it was presented, or never will be. *)
AuthRequest ==
    [at : Places, token : Token, up : BOOLEAN, checked : Int, why : Reasons, answers : Nat]
AuthTypes == auth \in [Callouts -> AuthRequest]
Presented == \A q \in Callouts : auth[q].token \in issued \cup {Forged, Empty}

(* Between the check and the signature the verdict already stands. *)
Good(r) == r.token \in issued /\ r.checked < r.token.exp
Verdict(r) ==
    /\ r.at \in {"sign", "granted"} => Good(r)
    /\ r.at = "denied" /\ Good(r) => r.why # "401"
    /\ r.at = "denied" /\ r.up => r.why # "no server"
    /\ r.answers = IF r.at \in {"granted", "denied", "error"} THEN 1 ELSE 0

(* A server that listens does so until its process ends, and then nobody   *)
(* is left to check what came while it did.                                *)
Late == {"listening"} \cup Ended
Waits(r) == r.at \in {"queued", "http"} /\ r.up
Ready == \A q \in Callouts : Waits(auth[q]) => boot \in Late

CalloutInv ==
    TokenInv /\ AuthTypes /\ Presented /\ Ready /\ \A q \in Callouts : Verdict(auth[q])

(* What each step of the start leaves done for the ones after it. *)
BootInv ==
    /\ (~cfg.minimal /\ boot \in {"ingress", "llm", "http", "listening"}) => Built = NSinks
    /\ (~cfg.minimal /\ boot \in {"llm", "http", "listening"}) => ingress # "not tried"
    /\ (boot \in {"http", "listening"} /\ llm.providers # {}) => llm.default \in llm.providers

-----------------------------------------------------------------------------
(* The two pseudo tokens are not among the numbered ones. *)
LEMMA Pseudo == Forged \in Token /\ Empty \in Token /\ Forged.id < 1 /\ Empty.id < 1
BY DEF Forged, Empty, Token

(* The ways in which a request's record is changed. *)
Moved(r, p, n) == [r EXCEPT !.at = p, !.answers = n]
Asked(r, t, u) == [r EXCEPT !.at = "queued", !.token = t, !.up = u]
Checked(r, c) == [r EXCEPT !.checked = c]

(* An answer changes the place and the count alone. *)
LEMMA MovedFields ==
    ASSUME NEW r \in AuthRequest, NEW p \in Places, NEW n \in Nat
    PROVE  LET x == Moved(r, p, n)
           IN  /\ x \in AuthRequest /\ x.at = p /\ x.token = r.token /\ x.checked = r.checked
               /\ x.up = r.up /\ x.why = r.why /\ x.answers = n
BY DEF AuthRequest, Moved

(* A refusal also says why. *)
LEMMA DeniedFields ==
    ASSUME NEW r \in AuthRequest, NEW why \in Reasons, r.answers = 0
    PROVE  LET x == Denied(r, why)
           IN  /\ x \in AuthRequest /\ x.at = "denied" /\ x.token = r.token
               /\ x.checked = r.checked /\ x.up = r.up /\ x.why = why /\ x.answers = 1
<1>1. Denied(r, why) = [r EXCEPT !.at = "denied", !.why = why, !.answers = 1]
  BY DEF Denied
<1>2. "denied" \in Places /\ 1 \in Nat
  BY DEF Places
<1>3. QED
  BY <1>1, <1>2 DEF AuthRequest

(* A request begins with its token. *)
LEMMA AskedFields ==
    ASSUME NEW r \in AuthRequest, NEW t \in Token, NEW u \in BOOLEAN
    PROVE  LET x == Asked(r, t, u)
           IN  /\ x \in AuthRequest /\ x.at = "queued" /\ x.token = t /\ x.up = u
               /\ x.answers = r.answers
BY DEF AuthRequest, Places, Asked

(* A check leaves its time. *)
LEMMA CheckedFields ==
    ASSUME NEW r \in AuthRequest, NEW c \in Int
    PROVE  LET x == Checked(r, c)
           IN  /\ x \in AuthRequest /\ x.at = r.at /\ x.token = r.token /\ x.checked = c
               /\ x.up = r.up /\ x.answers = r.answers
BY DEF AuthRequest, Checked

(* A step of the start issues no token. *)
LEMMA CalloutFrame ==
    ASSUME CalloutInv, UNCHANGED <<time, issued, auth>>, boot \in Late => boot' \in Late
    PROVE  CalloutInv'
BY DEF CalloutInv, TokenInv, AuthTypes, Presented, Ready, Waits, Verdict, Good

(* A step of the callout replaces one request's record. *)
LEMMA OneRequest ==
    ASSUME CalloutInv, NEW q \in Callouts, NEW r, AuthStep(q, r),
           r \in AuthRequest,
           r.token \in issued \cup {Forged, Empty}, Verdict(r),
           boot \in Late => boot' \in Late, Waits(r) => boot' \in Late
    PROVE  CalloutInv'
<1>1. /\ auth' = [auth EXCEPT ![q] = r] /\ UNCHANGED <<time, issued>>
      /\ auth \in [Callouts -> AuthRequest]
  BY DEF AuthStep, CalloutInv, AuthTypes
<1>2. AuthTypes'
  BY <1>1 DEF AuthTypes
<1>3. \A p \in Callouts : auth'[p] = IF p = q THEN r ELSE auth[p]
  BY <1>1
<1>4. TokenInv'
  BY <1>1 DEF CalloutInv, TokenInv
<1>5. Presented'
  BY <1>1, <1>3 DEF CalloutInv, Presented
<1>6. \A p \in Callouts : Verdict(auth[p])'
  BY <1>1, <1>3 DEF CalloutInv, Verdict, Good
<1>7. Ready'
  BY <1>3 DEF CalloutInv, Ready, Waits, Late
<1>8. QED
  BY <1>2, <1>4, <1>5, <1>6, <1>7 DEF CalloutInv

(* The start, the command and the callout keep the verdicts honest. *)
LEMMA CalloutInductive == CalloutInv /\ [Next]_vars => CalloutInv'
<1> SUFFICES ASSUME CalloutInv, [Next]_vars PROVE CalloutInv'
  OBVIOUS
<1>0. time \in Int
  BY DEF CalloutInv, TokenInv
<1> USE DEF Others, Process
<1>1. CASE LocalBoot
  <2>1. UNCHANGED <<time, issued, auth>>
    BY <1>1 DEF LocalBoot, RequireFlags, SetupNats, EnsureStream, BuildSink, StartSink,
       RunHTTPServer, BuildLLMRegistry, PlainSymbols, Exit
  <2>2. boot' = boot \/ boot \notin Late
    BY <1>1 DEF LocalBoot, RequireFlags, SetupNats, EnsureStream, BuildSink, StartSink,
       RunHTTPServer, BuildLLMRegistry, PlainSymbols, Exit, BootAt, Late, Ended
  <2>3. QED
    BY <2>1, <2>2, CalloutFrame
<1>2. CASE RemoteBoot
  <2>1. UNCHANGED <<time, issued, auth>>
    BY <1>2 DEF RemoteBoot, RelatedSymbols, StartIngress, Exit
  <2>2. boot \notin Late
    BY <1>2 DEF RemoteBoot, StartIngress, BootAt, Late, Ended
  <2>3. QED
    BY <2>1, <2>2, CalloutFrame
<1>3. CASE Restart
  <2> DEFINE Lost(q) == IF auth[q].at \in {"queued", "http", "sign"}
                          THEN [auth[q] EXCEPT !.at = "lost"] ELSE auth[q]
  <2>1. /\ auth' = [q \in Callouts |-> Lost(q)] /\ UNCHANGED <<time, issued>>
        /\ auth \in [Callouts -> AuthRequest]
    BY <1>3 DEF Restart, CalloutInv, AuthTypes
  <2>2. ASSUME NEW q \in Callouts
        PROVE  /\ Lost(q) \in AuthRequest
               /\ Lost(q).token = auth[q].token
               /\ Verdict(Lost(q)) /\ ~Waits(Lost(q))
    BY <2>1 DEF CalloutInv, Verdict, Good, Waits, Places, AuthRequest
  <2>3. AuthTypes' /\ TokenInv' /\ Presented'
    BY <2>1, <2>2 DEF AuthTypes, CalloutInv, TokenInv, Presented
  <2>4. \A q \in Callouts : Verdict(auth[q])'
    BY <2>1, <2>2 DEF Verdict, Good
  <2>5. Ready'
    BY <2>1, <2>2 DEF Ready, Waits
  <2>6. QED
    BY <2>3, <2>4, <2>5 DEF CalloutInv
<1>4. CASE Tick
  <2>1. UNCHANGED <<boot, issued, auth>> /\ time' \in Nat
    BY <1>4 DEF Tick, CalloutInv, TokenInv
  <2>2. QED
    BY <2>1 DEF CalloutInv, TokenInv, AuthTypes, Presented, Ready, Waits, Late, Verdict, Good
<1>5. ASSUME NEW email, NEW pwd, NewBearerToken(email, pwd) PROVE CalloutInv'
  <2>1. CASE UNCHANGED issued
    BY <1>5, <2>1, CalloutFrame DEF NewBearerToken
  <2>2. CASE issued' = issued \cup {NewToken}
    <3>1. UNCHANGED <<boot, time, auth>>
      BY <1>5 DEF NewBearerToken
    <3>2. Cardinality(issued) \in Nat
      BY FS_CardinalityType DEF CalloutInv, TokenInv
    <3>3. NewToken \in Token /\ NewToken.id >= 1
      BY <3>2, ServerAssumption DEF NewToken, Token, CalloutInv, TokenInv
    <3>4. TokenInv'
      <4>1. IsFiniteSet(issued')
        BY <2>2, FS_AddElement DEF CalloutInv, TokenInv
      <4>2. QED
        BY <2>2, <3>1, <3>3, <4>1 DEF CalloutInv, TokenInv
    <3>5. ASSUME NEW q \in Callouts PROVE auth[q].token \in issued' <=> auth[q].token \in issued
      <4>1. CASE auth[q].token \in issued
        BY <2>2, <4>1
      <4>2. CASE auth[q].token \in {Forged, Empty}
        <5>1. auth[q].token.id < 1
          BY <4>2, Pseudo
        <5>2. auth[q].token \notin issued /\ auth[q].token # NewToken
          <6>1. \A t \in issued \cup {NewToken} : t \in Token /\ t.id >= 1
            BY <3>3 DEF CalloutInv, TokenInv
          <6>2. \A t \in Token : t.id \in Int
            BY DEF Token
          <6>3. \A t \in issued \cup {NewToken} : ~(t.id < 1)
            BY <6>1, <6>2
          <6>4. QED
            BY <5>1, <6>3
        <5>3. QED
          BY <2>2, <5>2
      <4>3. QED
        BY <4>1, <4>2 DEF CalloutInv, Presented
    <3>6. AuthTypes' /\ Presented' /\ Ready'
      BY <2>2, <3>1 DEF CalloutInv, AuthTypes, Presented, Ready, Waits, Late
    <3>7. \A q \in Callouts : Verdict(auth[q])'
      BY <3>1, <3>5 DEF CalloutInv, Verdict, Good
    <3>8. QED
      BY <3>4, <3>6, <3>7 DEF CalloutInv
  <2>3. QED
    BY <1>5, <2>1, <2>2 DEF NewBearerToken
<1>6. ASSUME NEW q \in Callouts, NEW t \in issued \cup {Forged, Empty}, Callout(q, t)
      PROVE  CalloutInv'
  <2> DEFINE u == boot = "listening"
             r == [NoCallout EXCEPT !.at = "queued", !.token = t, !.up = u]
  <2>1. r \in AuthRequest /\ r.token = t /\ r.at = "queued" /\ r.up = u /\ r.answers = 0
    <3>1. t \in Token
      BY Pseudo DEF CalloutInv, TokenInv
    <3>2. NoCallout \in AuthRequest /\ NoCallout.answers = 0
      BY Pseudo DEF NoCallout, Places, Reasons, AuthRequest
    <3>3. r = Asked(NoCallout, t, u) /\ u \in BOOLEAN
      BY DEF Asked
    <3> HIDE DEF r, u
    <3>4. QED
      BY <3>1, <3>2, <3>3, AskedFields
  <2>2. AuthStep(q, r) /\ boot' = boot
    BY <1>6 DEF Callout
  <2> HIDE DEF r
  <2>3. Verdict(r) /\ (Waits(r) => boot' \in Late)
    BY <2>1, <2>2 DEF Verdict, Waits, Late
  <2>4. QED
    BY <2>1, <2>2, <2>3, OneRequest
<1>7. ASSUME NEW q \in Callouts, CalloutStep(q) PROVE CalloutInv'
  <2>0. /\ auth[q] \in AuthRequest
        /\ auth[q].token \in issued \cup {Forged, Empty} /\ Verdict(auth[q]) /\ time \in Nat
        /\ Waits(auth[q]) => boot \in Late
    BY DEF CalloutInv, AuthTypes, Presented, TokenInv, Ready
  <2>1. ASSUME NEW decodes \in BOOLEAN, Handle(q, decodes) PROVE CalloutInv'
    <3> DEFINE r == [auth[q] EXCEPT !.at = IF decodes THEN "http" ELSE "error",
                                    !.answers = IF decodes THEN @ ELSE @ + 1]
    <3>1. auth[q].at = "queued" /\ auth[q].answers = 0
      BY <2>0, <2>1 DEF Handle, Verdict
    <3>2. /\ r \in AuthRequest
          /\ r.token = auth[q].token /\ r.at = (IF decodes THEN "http" ELSE "error")
          /\ r.answers = (IF decodes THEN 0 ELSE 1) /\ r.up = auth[q].up
      <4>1. r = Moved(auth[q], IF decodes THEN "http" ELSE "error", IF decodes THEN 0 ELSE 1)
        BY <3>1 DEF Moved
      <4>2. (IF decodes THEN "http" ELSE "error") \in Places /\ (IF decodes THEN 0 ELSE 1) \in Nat
        BY DEF Places
      <4> HIDE DEF r
      <4>3. QED
        BY <2>0, <4>1, <4>2, MovedFields
    <3>3. AuthStep(q, r) /\ (boot' = boot \/ boot' = "crashed")
      BY <2>1 DEF Handle
    <3> HIDE DEF r
    <3>4. Verdict(r)
      BY <3>2 DEF Verdict
    <3>5. (boot \in Late => boot' \in Late) /\ (Waits(r) => boot' \in Late)
      BY <2>0, <3>1, <3>2, <3>3 DEF Waits, Late, Ended
    <3>6. QED
      BY <2>0, <3>2, <3>3, <3>4, <3>5, OneRequest
  <2>2. ASSUME NEW fault \in {"", "exchange", "payload"}, CheckToken(q, fault) PROVE CalloutInv'
    <3> DEFINE s == [auth[q] EXCEPT !.checked = time]
    <3>1. /\ s \in AuthRequest /\ s.token = auth[q].token /\ s.checked = time
          /\ s.up = auth[q].up /\ s.at = "http" /\ s.answers = 0
      <4>1. auth[q].at = "http" /\ auth[q].answers = 0
        BY <2>0, <2>2 DEF CheckToken, Verdict
      <4>2. s = Checked(auth[q], time)
        BY DEF Checked
      <4> HIDE DEF s
      <4>3. QED
        BY <1>0, <2>0, <4>1, <4>2, CheckedFields
    <3>2. boot' = boot /\ boot \notin Ended
      BY <2>2 DEF CheckToken
    <3>3. \/ AuthStep(q, Denied(s, "no server")) /\ boot # "listening"
          \/ AuthStep(q, Denied(s, "exchange"))
          \/ AuthStep(q, Denied(s, "401")) /\ ~Authorized(s.token)
          \/ AuthStep(q, Denied(s, "payload"))
          \/ AuthStep(q, [s EXCEPT !.at = "sign"]) /\ Authorized(s.token)
      BY <2>2 DEF CheckToken
    <3> HIDE DEF s
    <3>4. ASSUME NEW why \in Reasons, AuthStep(q, Denied(s, why)),
                 why = "no server" => ~s.up, why = "401" => ~Authorized(s.token)
          PROVE  CalloutInv'
      <4> DEFINE r == Denied(s, why)
      <4>1. /\ r \in AuthRequest /\ r.at = "denied" /\ r.token = s.token
            /\ r.checked = time /\ r.up = s.up /\ r.why = why /\ r.answers = 1
        BY <3>1, DeniedFields
      <4> HIDE DEF r
      <4>2. Verdict(r) /\ ~Waits(r)
        BY <3>4, <4>1 DEF Verdict, Good, Authorized, Waits
      <4>3. AuthStep(q, r)
        BY <3>4 DEF r
      <4>4. QED
        BY <2>0, <3>1, <3>2, <4>1, <4>2, <4>3, OneRequest
    <3>5. CASE AuthStep(q, Denied(s, "no server")) /\ boot # "listening"
      <4>1. ~s.up
        BY <2>0, <3>1, <3>2, <3>5, <2>2 DEF CheckToken, Waits, Late
      <4>2. QED
        BY <3>4, <3>5, <4>1 DEF Reasons
    <3>6. CASE AuthStep(q, [s EXCEPT !.at = "sign"]) /\ Authorized(s.token)
      <4> DEFINE r == [s EXCEPT !.at = "sign"]
      <4>1. /\ r \in AuthRequest /\ r.at = "sign" /\ r.token = s.token
            /\ r.checked = time /\ r.answers = 0
        BY <3>1 DEF AuthRequest, Places
      <4>2. AuthStep(q, r)
        BY <3>6
      <4> HIDE DEF r
      <4>3. Verdict(r) /\ ~Waits(r)
        BY <3>1, <3>6, <4>1 DEF Verdict, Good, Authorized, Waits
      <4>4. QED
        BY <2>0, <3>1, <3>2, <4>1, <4>2, <4>3, OneRequest
    <3>7. QED
      BY <3>3, <3>4, <3>5, <3>6 DEF Reasons
  <2>3. ASSUME NEW ok \in BOOLEAN, SignAndRespond(q, ok) PROVE CalloutInv'
    <3> DEFINE a == auth[q]
               g == [a EXCEPT !.at = "granted", !.answers = @ + 1]
    <3>1. a.at = "sign" /\ a.answers = 0 /\ Good(a) /\ boot' = boot
      BY <2>0, <2>3 DEF SignAndRespond, Verdict
    <3>2. AuthStep(q, g) \/ AuthStep(q, Denied(a, "sign"))
      BY <2>3 DEF SignAndRespond
    <3>3. CASE AuthStep(q, g)
      <4>1. g = Moved(a, "granted", 1) /\ "granted" \in Places /\ 1 \in Nat
        BY <3>1 DEF Places, Moved
      <4> HIDE DEF a, g
      <4>2. /\ g \in AuthRequest /\ g.at = "granted" /\ g.answers = 1
            /\ g.token = a.token /\ g.checked = a.checked
        BY <2>0, <4>1, MovedFields DEF a
      <4>3. Verdict(g) /\ ~Waits(g)
        BY <3>1, <4>2 DEF Verdict, Good, Waits
      <4>4. QED
        BY <2>0, <3>1, <3>3, <4>2, <4>3, OneRequest DEF a
    <3>4. CASE AuthStep(q, Denied(a, "sign"))
      <4> DEFINE r == Denied(a, "sign")
      <4>1. /\ r \in AuthRequest /\ r.at = "denied" /\ r.token = a.token
            /\ r.why = "sign" /\ r.answers = 1
        BY <2>0, <3>1, DeniedFields DEF Reasons
      <4>2. AuthStep(q, r)
        BY <3>4
      <4> HIDE DEF r
      <4>3. Verdict(r) /\ ~Waits(r)
        BY <4>1 DEF Verdict, Waits
      <4>4. QED
        BY <2>0, <3>1, <4>1, <4>2, <4>3, OneRequest
    <3>5. QED
      BY <3>2, <3>3, <3>4
  <2>4. QED
    BY <1>7, <2>1, <2>2, <2>3 DEF CalloutStep
<1>8. CASE UNCHANGED vars
  BY <1>8, CalloutFrame DEF vars
<1>9. QED
  BY <1>1, <1>2, <1>3, <1>4, <1>5, <1>6, <1>7, <1>8 DEF Next

(* Before the first request nothing was asked or answered. *)
LEMMA CalloutInit == Init => CalloutInv
<1> SUFFICES ASSUME Init PROVE CalloutInv
  OBVIOUS
<1>1. TokenInv
  BY FS_EmptySet DEF Init, TokenInv
<1>2. NoCallout \in AuthRequest
  BY Pseudo DEF NoCallout, Places, Reasons, AuthRequest
<1>3. AuthTypes /\ Presented /\ Ready
  BY <1>2 DEF Init, AuthTypes, Presented, Ready, Waits, NoCallout
<1>4. \A q \in Callouts : Verdict(auth[q])
  BY DEF Init, Verdict, NoCallout
<1>5. QED
  BY <1>1, <1>3, <1>4 DEF CalloutInv

(* A NATS user is granted only for a token of this server that had not     *)
(* expired; a good one is refused, if it is, for want of a server or for a *)
(* failed exchange, payload or signature, and for want of a server only    *)
(* when the request came before it listened; a request is answered at most *)
(* once (nats_auth_service.go:34-80, 123-182), over any number of restarts.*)
THEOREM HonestCallouts == Spec => []CalloutHonest
<1>1. CalloutInv => CalloutHonest
  BY DEF CalloutInv, Verdict, Good, CalloutHonest
<1>2. QED
  BY <1>1, CalloutInit, CalloutInductive, PTL DEF Spec

-----------------------------------------------------------------------------
(* The types of the start, of the tokens and of the env file. *)
Progress == BootSteps \cup Ended \cup {"listening"}
Counts == [starting : Nat, running : Nat, failed : Nat]
StartTypes ==
    /\ boot \in Progress
    /\ sinks \in Counts /\ Built <= NSinks
    /\ ingress \in {"not tried", "started", "failed"}
TokenTypes ==
    /\ time \in 0..MaxTime /\ Cardinality(issued) <= MaxTokens /\ env \in issued \cup {Empty}

(* At first there is none. *)
LEMMA NoneBuilt ==
    /\ NoSinks \in Counts
    /\ NoSinks.starting = 0 /\ NoSinks.running = 0 /\ NoSinks.failed = 0
BY DEF NoSinks, Counts

(* Building a sink counts it once. *)
LEMMA SinkBuilt ==
    ASSUME sinks \in Counts, Built <= NSinks, Built # NSinks,
           sinks' = [sinks EXCEPT !.starting = @ + 1]
    PROVE  sinks' \in Counts /\ Built' <= NSinks
BY ServerAssumption DEF Built, Counts

(* Its own start does not change how many are built. *)
LEMMA SinkStarted ==
    ASSUME sinks \in Counts, NEW ok \in BOOLEAN, StartSink(ok)
    PROVE  sinks' \in Counts /\ Built' = Built
<1>1. /\ sinks.starting \in Nat /\ sinks.running \in Nat /\ sinks.failed \in Nat
      /\ sinks.starting > 0
  BY DEF Counts, StartSink
<1>2. sinks' = [starting |-> sinks.starting - 1,
                running |-> sinks.running + IF ok THEN 1 ELSE 0,
                failed |-> sinks.failed + IF ok THEN 0 ELSE 1]
  BY DEF StartSink
<1>3. QED
  BY <1>1, <1>2 DEF Built, Counts

(* The start goes from one known step to another and builds no sink too    *)
(* many.                                                                   *)
LEMMA StartTyped == StartTypes /\ [Next]_vars => StartTypes'
<1> SUFFICES ASSUME StartTypes, [Next]_vars PROVE StartTypes'
  OBVIOUS
<1> USE DEF Process
<1>1. CASE UNCHANGED <<boot, sinks, ingress>>
  BY <1>1 DEF StartTypes, Built
<1>2. CASE boot' \in Progress /\ UNCHANGED <<sinks, ingress>>
  BY <1>2 DEF StartTypes, Built
<1>3. /\ \A next \in BootSteps \cup {"exited", "crashed", "listening"} : next \in Progress
      /\ \A b \in BOOLEAN : (IF b THEN "symbols" ELSE "nats") \in Progress
      /\ AfterSymbols \in Progress
  BY DEF Progress, BootSteps, Ended, AfterSymbols
<1>4. CASE LocalBoot
  <2>1. ASSUME NEW ok \in BOOLEAN, BuildSink(ok) PROVE StartTypes'
    <3>1. CASE boot' \in {"exited", "ingress"} /\ UNCHANGED <<sinks, ingress>>
      BY <1>2, <1>3, <3>1 DEF BootSteps
    <3>2. CASE /\ UNCHANGED <<boot, ingress>> /\ Built # NSinks
               /\ sinks' = [sinks EXCEPT !.starting = @ + 1]
      BY <3>2, SinkBuilt DEF StartTypes
    <3>3. QED
      BY <2>1, <3>1, <3>2 DEF BuildSink, Exit, BootAt
  <2>2. ASSUME NEW ok \in BOOLEAN, StartSink(ok) PROVE StartTypes'
    <3>1. UNCHANGED <<boot, ingress>>
      BY <2>2 DEF StartSink
    <3>2. QED
      BY <2>2, <3>1, SinkStarted DEF StartTypes
  <2>3. QED
    BY <1>2, <1>3, <1>4, <2>1, <2>2 DEF LocalBoot, RequireFlags, SetupNats, EnsureStream,
       RunHTTPServer, BuildLLMRegistry, PlainSymbols, Exit, BootAt, BootSteps
<1>5. CASE RemoteBoot
  <2>1. ASSUME NEW ok \in BOOLEAN, StartIngress(ok) PROVE StartTypes'
    BY <2>1 DEF StartIngress, BootAt, StartTypes, Progress, BootSteps, Built
  <2>2. ASSUME NEW max, NEW one, NEW a1, NEW eq, NEW a2, NEW chain,
               RelatedSymbols(max, one, a1, eq, a2, chain)
        PROVE  StartTypes'
    BY <1>2, <1>3, <2>2 DEF RelatedSymbols, Exit, BootAt
  <2>3. QED
    BY <1>5, <2>1, <2>2 DEF RemoteBoot
<1>6. CASE Restart
  <2>1. boot' = "flags" /\ sinks' = NoSinks /\ ingress' = "not tried"
    BY <1>6 DEF Restart
  <2>2. sinks' \in Counts /\ Built' <= NSinks
    <3>1. NSinks \in Nat /\ sinks' = NoSinks
      BY <2>1, ServerAssumption
    <3>2. QED
      BY <3>1, NoneBuilt DEF Built
  <2>3. boot' \in Progress
    BY <2>1 DEF Progress, BootSteps
  <2>4. QED
    BY <2>1, <2>2, <2>3 DEF StartTypes
<1>7. CASE Tick
  BY <1>1, <1>7 DEF Tick
<1>8. ASSUME NEW email, NEW pwd, NewBearerToken(email, pwd) PROVE StartTypes'
  BY <1>1, <1>8 DEF NewBearerToken
<1>9. ASSUME NEW q \in Callouts, NEW t, Callout(q, t) PROVE StartTypes'
  BY <1>1, <1>9 DEF Callout
<1>10. ASSUME NEW q \in Callouts, CalloutStep(q) PROVE StartTypes'
  <2>1. boot' = boot \/ boot' = "crashed"
    BY <1>10 DEF CalloutStep, Handle, CheckToken, SignAndRespond
  <2>2. UNCHANGED <<sinks, ingress>>
    BY <1>10 DEF CalloutStep, Handle, CheckToken, SignAndRespond
  <2>3. QED
    BY <1>1, <1>2, <1>3, <2>1, <2>2
<1>11. CASE UNCHANGED vars
  BY <1>1, <1>11 DEF vars
<1>12. QED
  BY <1>4, <1>5, <1>6, <1>7, <1>8, <1>9, <1>10, <1>11 DEF Next

(* The env file only gets tokens that the server issued, or none. *)
LEMMA TokenTyped == TokenInv /\ TokenTypes /\ [Next]_vars => TokenTypes'
<1> SUFFICES ASSUME TokenInv, TokenTypes, [Next]_vars PROVE TokenTypes'
  OBVIOUS
<1> USE DEF Others
<1>1. CASE UNCHANGED <<time, issued, env>>
  BY <1>1 DEF TokenTypes
<1>2. CASE LocalBoot
  BY <1>1, <1>2 DEF LocalBoot, RequireFlags, SetupNats, EnsureStream, BuildSink, StartSink,
     RunHTTPServer, BuildLLMRegistry, PlainSymbols, Exit
<1>3. CASE RemoteBoot
  BY <1>1, <1>3 DEF RemoteBoot, RelatedSymbols, StartIngress, Exit
<1>4. CASE Restart
  BY <1>1, <1>4 DEF Restart
<1>5. CASE Tick
  BY <1>5, ServerAssumption DEF Tick, TokenTypes
<1>6. ASSUME NEW email, NEW pwd, NewBearerToken(email, pwd) PROVE TokenTypes'
  <2>1. UNCHANGED time /\ Cardinality(issued) \in Nat
    BY <1>6, FS_CardinalityType DEF NewBearerToken, TokenInv
  <2>2. CASE BasicAuthorized(email, pwd)
    <3>1. issued' = issued \cup {NewToken} /\ env' = NewToken /\ Cardinality(issued) < MaxTokens
      BY <1>6, <2>2 DEF NewBearerToken
    <3>2. Cardinality(issued') <= Cardinality(issued) + 1
      BY <2>1, <3>1, FS_AddElement DEF TokenInv
    <3>3. Cardinality(issued') \in Nat
      BY <3>1, FS_AddElement, FS_CardinalityType DEF TokenInv
    <3>4. Cardinality(issued') <= MaxTokens
      BY <2>1, <3>1, <3>2, <3>3, ServerAssumption
    <3>5. QED
      BY <2>1, <3>1, <3>4 DEF TokenTypes
  <2>3. CASE ~BasicAuthorized(email, pwd)
    BY <1>6, <2>1, <2>3 DEF NewBearerToken, TokenTypes
  <2>4. QED
    BY <2>2, <2>3
<1>7. ASSUME NEW q \in Callouts, NEW t, Callout(q, t) PROVE TokenTypes'
  BY <1>1, <1>7 DEF Callout, AuthStep
<1>8. ASSUME NEW q \in Callouts, CalloutStep(q) PROVE TokenTypes'
  BY <1>1, <1>8 DEF CalloutStep, Handle, CheckToken, SignAndRespond, AuthStep
<1>9. CASE UNCHANGED vars
  BY <1>1, <1>9 DEF vars
<1>10. QED
  BY <1>2, <1>3, <1>4, <1>5, <1>6, <1>7, <1>8, <1>9 DEF Next

(* Nothing is built before the flags are read. *)
LEMMA StartInit == Init => StartTypes
<1> SUFFICES ASSUME Init PROVE StartTypes
  OBVIOUS
<1>1. "flags" \in Progress
  BY DEF Progress, BootSteps
<1>2. sinks \in Counts /\ Built <= NSinks
  <2>1. NSinks \in Nat /\ sinks = NoSinks
    BY ServerAssumption DEF Init
  <2>2. QED
    BY <2>1, NoneBuilt DEF Built
<1>3. QED
  BY <1>1, <1>2 DEF Init, StartTypes

(* The server's variables keep their types: every token in the env file    *)
(* and in a callout is one the server issued, the empty or a forged one.   *)
THEOREM TypeCorrect == Spec => []TypeOK
<1>1. Init => TokenTypes
  <2>1. 0 \in 0..MaxTime /\ Cardinality({}) <= MaxTokens
    BY FS_EmptySet, ServerAssumption
  <2>2. QED
    BY <2>1 DEF Init, TokenTypes
<1>2. CalloutInv => TokenInv
  BY DEF CalloutInv
<1>3. CalloutInv /\ StartTypes /\ TokenTypes => TypeOK
  BY DEF CalloutInv, AuthTypes, AuthRequest, Places, Presented, StartTypes, TokenTypes, Progress,
     Counts, TypeOK
<1>4. QED
  BY <1>1, <1>2, <1>3, CalloutInit, CalloutInductive, StartInit, StartTyped, TokenTyped, PTL DEF Spec

-----------------------------------------------------------------------------
(* Each step of the start finds done what it needs. *)
LEMMA BootInductive == StartTypes /\ BootInv /\ [Next]_vars => BootInv'
<1> SUFFICES ASSUME StartTypes, BootInv, [Next]_vars PROVE BootInv'
  OBVIOUS
<1> USE DEF BootInv, Others, Process, BootAt
<1>0. UNCHANGED sinks => UNCHANGED Built
  BY DEF Built
<1>1. CASE LocalBoot
  <2>1. ASSUME NEW ok \in BOOLEAN,
               RequireFlags(ok) \/ SetupNats(ok) \/ EnsureStream(ok) \/ RunHTTPServer(ok)
        PROVE  BootInv'
    BY <1>0, <2>1 DEF RequireFlags, SetupNats, EnsureStream, RunHTTPServer, Exit
  <2>2. ASSUME NEW ok \in BOOLEAN, BuildSink(ok) PROVE BootInv'
    BY <1>0, <2>2 DEF BuildSink, Exit
  <2>3. ASSUME NEW keys \in {{}, {"openai"}, {"openai", "gemini"}}, NEW want \in {"", "gemini"},
               BuildLLMRegistry(keys, want)
        PROVE  BootInv'
    <3>1. keys # {} => DefaultProvider(keys, want) \in keys
      BY DEF DefaultProvider
    <3>2. QED
      BY <1>0, <2>3, <3>1 DEF BuildLLMRegistry
  <2>4. ASSUME NEW max \in {-1, 0}, NEW given, PlainSymbols(max, given) PROVE BootInv'
    BY <1>0, <2>4 DEF PlainSymbols, AfterSymbols, Exit
  <2>5. ASSUME NEW ok \in BOOLEAN, StartSink(ok) PROVE BootInv'
    <3>1. Built' = Built
      BY <2>5, SinkStarted DEF StartTypes
    <3>2. QED
      BY <2>5, <3>1 DEF StartSink
  <2>6. QED
    BY <1>1, <2>1, <2>2, <2>3, <2>4, <2>5 DEF LocalBoot
<1>2. CASE RemoteBoot
  <2>1. ASSUME NEW ok \in BOOLEAN, StartIngress(ok) PROVE BootInv'
    BY <1>0, <2>1 DEF StartIngress
  <2>2. ASSUME NEW max, NEW one, NEW a1, NEW eq, NEW a2, NEW chain,
               RelatedSymbols(max, one, a1, eq, a2, chain)
        PROVE  BootInv'
    <3>1. \/ boot' = "exited"
          \/ /\ boot = "symbols" /\ boot' = (IF cfg.minimal THEN "llm" ELSE "stream")
             /\ UNCHANGED <<cfg, sinks, ingress, llm>>
      BY <2>2 DEF RelatedSymbols, AfterSymbols, Exit
    <3>2. cfg' = cfg
      BY <2>2 DEF RelatedSymbols, Exit
    <3>3. QED
      BY <1>0, <3>1, <3>2
  <2>3. QED
    BY <1>2, <2>1, <2>2 DEF RemoteBoot
<1>3. CASE Restart
  BY <1>3 DEF Restart
<1>4. CASE Tick
  BY <1>0, <1>4 DEF Tick
<1>5. ASSUME NEW email, NEW pwd, NewBearerToken(email, pwd) PROVE BootInv'
  BY <1>0, <1>5 DEF NewBearerToken
<1>6. ASSUME NEW q \in Callouts, NEW t, Callout(q, t) PROVE BootInv'
  BY <1>0, <1>6 DEF Callout
<1>7. ASSUME NEW q \in Callouts, CalloutStep(q) PROVE BootInv'
  BY <1>0, <1>7 DEF CalloutStep, Handle, CheckToken, SignAndRespond
<1>8. CASE UNCHANGED vars
  BY <1>0, <1>8 DEF vars
<1>9. QED
  BY <1>1, <1>2, <1>3, <1>4, <1>5, <1>6, <1>7, <1>8 DEF Next

(* The server listens only with every configured sink built (services.go:  *)
(* 152-163), the ingress tried and a usable default provider (186-222),    *)
(* whatever failed before, after any number of restarts.  Whether a sink   *)
(* still runs is its own goroutine's affair.                               *)
THEOREM WholeWhenServing == Spec => []ServesWhole
<1>1. Init => StartTypes /\ BootInv
  BY StartInit DEF Init, BootInv
<1>2. BootInv => ServesWhole
  BY DEF BootInv, ServesWhole
<1>3. QED
  BY <1>1, <1>2, StartTyped, BootInductive, PTL DEF Spec

-----------------------------------------------------------------------------
(* Tables of pairs, as Subs makes them: an entry for each symbol and event.*)
Table(A, B, f, g) == [s \in A \X B |-> <<g[s[2]], f[s[1]]>>]

(* Such a table repeats no pair if neither axis repeats an entry. *)
LEMMA TableInjective ==
    ASSUME NEW A, NEW B, NEW f, NEW g, \A i, j \in A : f[i] = f[j] => i = j,
           \A i, j \in B : g[i] = g[j] => i = j
    PROVE  IsInjective(Table(A, B, f, g))
<1> DEFINE out == Table(A, B, f, g)
<1>0. out = [s \in A \X B |-> <<g[s[2]], f[s[1]]>>]
  BY DEF Table
<1> HIDE DEF out
<1> SUFFICES ASSUME NEW s \in A \X B, NEW t \in A \X B, out[s] = out[t]
             PROVE  s = t
  BY <1>0 DEF IsInjective, out
<1>1. PICK j \in A, d \in B : s = <<j, d>>
  OBVIOUS
<1>2. PICK k \in A, e \in B : t = <<k, e>>
  OBVIOUS
<1>3. out[s] = <<g[d], f[j]>> /\ out[t] = <<g[e], f[k]>>
  BY <1>0, <1>1, <1>2
<1>4. g[d] = g[e] /\ f[j] = f[k]
  <2>1. <<g[d], f[j]>> = <<g[e], f[k]>>
    BY <1>3
  <2>2. QED
    BY <2>1
<1>5. QED
  BY <1>1, <1>2, <1>4

(* It holds every event with every symbol, and nothing else. *)
LEMMA TableRange ==
    ASSUME NEW A, NEW B, NEW f, NEW g
    PROVE  Range(Table(A, B, f, g)) = {g[e] : e \in B} \X {f[k] : k \in A}
<1> DEFINE out == Table(A, B, f, g)
<1>1. DOMAIN out = A \X B /\ \A s \in A \X B : out[s] = <<g[s[2]], f[s[1]]>>
  BY DEF Table
<1> HIDE DEF out
<1>2. ASSUME NEW s \in A \X B PROVE out[s] \in {g[e] : e \in B} \X {f[k] : k \in A}
  BY <1>1
<1>3. ASSUME NEW p \in {g[e] : e \in B} \X {f[k] : k \in A} PROVE \E s \in A \X B : out[s] = p
  <2>1. PICK e \in B : g[e] = p[1]
    OBVIOUS
  <2>2. PICK k \in A : f[k] = p[2]
    OBVIOUS
  <2>3. <<k, e>> \in A \X B /\ out[<<k, e>>] = p
    BY <1>1, <2>1, <2>2
  <2>4. QED
    BY <2>3
<1>4. QED
  <2>1. Range(out) = {g[e] : e \in B} \X {f[k] : k \in A}
    BY <1>1, <1>2, <1>3 DEF Range
  <2>2. QED
    BY <2>1 DEF out

-----------------------------------------------------------------------------
(* sort.Slice and filterOptions.                                           *)

(* A sort returns each place once, in order when there is one. *)
LEMMA Sorted ==
    ASSUME NEW K, IsFiniteSet(K), NEW less, NEW q \in SortSlice(less, K)
    PROVE  /\ Cardinality(K) \in Nat /\ q \in [1..Cardinality(K) -> K]
           /\ \A i, j \in 1..Cardinality(K) : i # j => q[i] # q[j]
           /\ \A k \in K : \E i \in 1..Cardinality(K) : q[i] = k
           /\ WeakOrder(less, K) =>
                \A i, j \in 1..Cardinality(K) : i < j => <<q[j], q[i]>> \notin less
<1> DEFINE n == Cardinality(K)
<1>1. n \in Nat
  BY FS_CardinalityType
<1>2. /\ q \in [1..n -> K]
      /\ \A i, j \in 1..n : i # j => q[i] # q[j]
  BY DEF SortSlice, SetToSeqs
<1>3. WeakOrder(less, K) => \A i, j \in 1..n : i < j => <<q[j], q[i]>> \notin less
  BY <1>2 DEF SortSlice
<1>4. \A k \in K : \E i \in 1..n : q[i] = k
  <2>1. q \in Injection(1..n, K)
    BY <1>2 DEF Injection, IsInjective
  <2>2. IsFiniteSet(1..n) /\ Cardinality(1..n) = n
    BY <1>1, FS_Interval
  <2>3. q \in Surjection(1..n, K)
    BY <2>1, <2>2, FS_Injection
  <2>4. QED
    BY <2>3 DEF Surjection
<1>5. QED
  BY <1>1, <1>2, <1>3, <1>4

(* The places of a chain are finitely many. *)
LEMMA ChainPlaces ==
    ASSUME NEW chain \in Seq(Option)
    PROVE  /\ DOMAIN chain = 1..Len(chain) /\ Len(chain) \in Nat
           /\ Cardinality(DOMAIN chain) = Len(chain)
           /\ \A K \in SUBSET DOMAIN chain : IsFiniteSet(K)
           /\ \A i \in DOMAIN chain : chain[i] \in Option
<1>1. DOMAIN chain = 1..Len(chain) /\ Len(chain) \in Nat /\ \A i \in DOMAIN chain : chain[i] \in Option
  OBVIOUS
<1>2. IsFiniteSet(1..Len(chain)) /\ Cardinality(1..Len(chain)) = Len(chain)
  <2>1. \A n \in Nat : IsFiniteSet(1..n) /\ Cardinality(1..n) = n
    BY FS_Interval
  <2>2. QED
    BY <1>1, <2>1
<1>3. QED
  BY <1>1, <1>2, FS_Subset

(* What Resolve found: options of the chain, each kept one once. *)
LEMMA FoundPlaces ==
    ASSUME NEW f, NEW chain \in Seq(Option), NEW q \in Found(chain, f)
    PROVE  LET K == IF PureEquity(f) THEN {} ELSE Kept(chain, f)
           IN  /\ \A i \in DOMAIN q : i \in Nat /\ i # 0 /\ q[i] \in K
               /\ \A i, j \in DOMAIN q : i # j => q[i] # q[j]
               /\ \A k \in K : \E i \in DOMAIN q : q[i] = k
<1>1. CASE PureEquity(f)
  <2>1. q = <<>>
    BY <1>1 DEF Found
  <2>2. DOMAIN q = {}
    BY <2>1
  <2>3. QED
    BY <1>1, <2>2
<1>2. CASE ~PureEquity(f)
  <2> DEFINE K == Kept(chain, f)
             less == {p \in K \X K : OptionLess(chain[p[1]], chain[p[2]])}
  <2>1. q \in SortSlice(less, K)
    BY <1>2 DEF Found, FilterOptions
  <2>2. IsFiniteSet(K)
    BY ChainPlaces DEF Kept
  <2> HIDE DEF K, less
  <2>3. /\ Cardinality(K) \in Nat /\ q \in [1..Cardinality(K) -> K]
        /\ \A i, j \in 1..Cardinality(K) : i # j => q[i] # q[j]
        /\ \A k \in K : \E i \in 1..Cardinality(K) : q[i] = k
    BY <2>1, <2>2, Sorted
  <2>4. DOMAIN q = 1..Cardinality(K)
    BY <2>3
  <2>5. /\ \A i \in DOMAIN q : i \in Nat /\ i # 0 /\ q[i] \in K
        /\ \A i, j \in DOMAIN q : i # j => q[i] # q[j]
        /\ \A k \in K : \E i \in DOMAIN q : q[i] = k
    BY <2>3, <2>4
  <2>6. QED
    BY <1>2, <2>5 DEF K
<1>3. QED
  BY <1>1, <1>2

(* The symbols of a result, the equity at 0 and the options found. *)
Syms(f, equity, chain, q) ==
    [k \in (IF WantEquity(f) THEN {0} ELSE {}) \cup DOMAIN q |->
        IF k = 0 THEN equity ELSE chain[q[k]].sym]

(* The events of a filter. *)
LEMMA Events ==
    ASSUME NEW f \in FilterSpec
    PROVE  /\ {EventTypes(f)[e] : e \in DOMAIN EventTypes(f)} =
                IF f.events = <<>> THEN {"Quote"} ELSE Range(f.events)
           /\ IsInjective(f.events) => IsInjective(EventTypes(f))
<1>1. f.events \in Seq(STRING)
  BY DEF FilterSpec
<1>2. CASE f.events = <<>>
  <2>1. EventTypes(f) = <<"Quote">>
    BY <1>2 DEF EventTypes
  <2>2. DOMAIN EventTypes(f) = {1}
    BY <2>1
  <2>3. EventTypes(f)[1] = "Quote"
    BY <2>1
  <2>4. QED
    BY <1>2, <2>2, <2>3 DEF IsInjective
<1>3. CASE f.events # <<>>
  BY <1>1, <1>3 DEF EventTypes, Range
<1>4. QED
  BY <1>2, <1>3

(* Resolve's filter on an option is the one its FilterSpec asks for. *)
LEMMA KeptWanted ==
    ASSUME NEW f \in FilterSpec, SpecValid(f), NEW o \in Option
    PROVE  (/\ MatchKind(o, f.kind) /\ Within(o.exp, f.expiry) /\ Within(o.strike, f.strike))
           <=> (/\ f.kind = "call" => o.kind = "C"
                /\ f.kind = "put" => o.kind = "P"
                /\ f.expiry # NoWindow => o.exp \in (f.expiry.min..f.expiry.max) \ {Bad}
                /\ f.strike # NoWindow => o.strike \in (f.strike.min..f.strike.max) \ {Bad})
<1>1. MatchKind(o, f.kind) <=> (f.kind = "call" => o.kind = "C") /\ (f.kind = "put" => o.kind = "P")
  BY DEF MatchKind, SpecValid, Option
<1>2. ASSUME NEW x \in Nat, NEW w \in Window
      PROVE  Within(x, w) <=> (w # NoWindow => x \in (w.min..w.max) \ {Bad})
  BY DEF Within, Window
<1>3. o.exp \in Nat /\ o.strike \in Nat /\ f.expiry \in Window /\ f.strike \in Window
  BY DEF Option, FilterSpec
<1>4. QED
  BY <1>1, <1>2, <1>3

(* What Resolve takes of a chain: as Wanted, except that a window alone    *)
(* asks for options too.                                                   *)
Matching(f, chain) ==
    {o \in Range(chain) :
        /\ f.kind = "call" => o.kind = "C"
        /\ f.kind = "put" => o.kind = "P"
        /\ f.expiry # NoWindow => o.exp \in (f.expiry.min..f.expiry.max) \ {Bad}
        /\ f.strike # NoWindow => o.strike \in (f.strike.min..f.strike.max) \ {Bad}}
TakenSyms(f, equity, chain) ==
    (IF PureEquity(f) \/ f.includeEquity THEN {equity} ELSE {})
    \cup (IF PureEquity(f) THEN {} ELSE {o.sym : o \in Matching(f, chain)} \ {""})
Taken(f, equity, chain) ==
    (IF f.events = <<>> THEN {"Quote"} ELSE Range(f.events)) \X TakenSyms(f, equity, chain)

(* Without that exception the two agree. *)
LEMMA TakenWanted ==
    ASSUME NEW f, NEW equity, NEW chain, ~WindowOnly(f)
    PROVE  Taken(f, equity, chain) = Wanted(f, equity, chain)
<1> DEFINE asked == {o \in Range(chain) :
                      /\ f.kind # ""
                      /\ f.kind = "call" => o.kind = "C"
                      /\ f.kind = "put" => o.kind = "P"
                      /\ f.expiry # NoWindow => o.exp \in (f.expiry.min..f.expiry.max) \ {Bad}
                      /\ f.strike # NoWindow => o.strike \in (f.strike.min..f.strike.max) \ {Bad}}
           syms == (IF f.kind = "" \/ f.includeEquity THEN {equity} ELSE {})
                   \cup ({o.sym : o \in asked} \ {""})
<1>1. Wanted(f, equity, chain) = (IF f.events = <<>> THEN {"Quote"} ELSE Range(f.events)) \X syms
  BY DEF Wanted
<1>2. TakenSyms(f, equity, chain) = syms
  <2>1. CASE f.kind = ""
    <3>1. PureEquity(f)
      BY <2>1 DEF WindowOnly
    <3>2. asked = {}
      BY <2>1
    <3> HIDE DEF asked
    <3>3. {o.sym : o \in asked} = {}
      BY <3>2
    <3>4. QED
      BY <2>1, <3>1, <3>3 DEF TakenSyms
  <2>2. CASE f.kind # ""
    <3>1. ~PureEquity(f)
      BY <2>2 DEF PureEquity
    <3>2. asked = Matching(f, chain)
      BY <2>2 DEF Matching
    <3> HIDE DEF asked
    <3>3. QED
      BY <2>2, <3>1, <3>2 DEF TakenSyms
  <2>3. QED
    BY <2>1, <2>2
<1> HIDE DEF syms
<1>3. QED
  BY <1>1, <1>2 DEF Taken

(* Whatever order the sort leaves, the result is what the filter takes. *)
LEMMA ResolveExact ==
    ASSUME NEW f \in FilterSpec, SpecValid(f), NEW equity, NEW chain \in Seq(Option),
           NEW out \in Resolved(f, equity, chain)
    PROVE  Range(out) = Taken(f, equity, chain)
<1>1. PICK q \in Found(chain, f) : out = Subs(f, Syms(f, equity, chain, q))
  BY DEF Resolved, Syms
<1> DEFINE syms == Syms(f, equity, chain, q)
           S == {syms[k] : k \in DOMAIN syms}
           E == {EventTypes(f)[e] : e \in DOMAIN EventTypes(f)}
           options == Matching(f, chain)
           W == (IF PureEquity(f) \/ f.includeEquity THEN {equity} ELSE {})
                \cup (IF PureEquity(f) THEN {} ELSE {o.sym : o \in options} \ {""})
<1>2. Taken(f, equity, chain) = E \X W
  BY Events DEF Taken, TakenSyms
<1>3. Range(out) = E \X S
  <2> HIDE DEF syms
  <2>1. out = Table(DOMAIN syms, DOMAIN EventTypes(f), syms, EventTypes(f))
    BY <1>1 DEF syms, Subs, Table
  <2>2. QED
    BY <2>1, TableRange
<1>4. S = W
  <2> DEFINE K == IF PureEquity(f) THEN {} ELSE Kept(chain, f)
  <2>1. /\ \A i \in DOMAIN q : i \in Nat /\ i # 0 /\ q[i] \in K
        /\ \A k \in K : \E i \in DOMAIN q : q[i] = k
    BY FoundPlaces
  <2>2. S = (IF WantEquity(f) THEN {equity} ELSE {}) \cup {chain[q[i]].sym : i \in DOMAIN q}
    <3>1. /\ DOMAIN syms = (IF WantEquity(f) THEN {0} ELSE {}) \cup DOMAIN q
          /\ \A k \in DOMAIN syms : syms[k] = IF k = 0 THEN equity ELSE chain[q[k]].sym
      BY DEF Syms
    <3> HIDE DEF syms
    <3>2. QED
      BY <2>1, <3>1
  <2>3. {chain[q[i]].sym : i \in DOMAIN q} = {chain[k].sym : k \in K}
    <3> HIDE DEF K
    <3>1. QED
      BY <2>1
  <2>4. {chain[k].sym : k \in K} = IF PureEquity(f) THEN {} ELSE {o.sym : o \in options} \ {""}
    <3>1. CASE PureEquity(f)
      BY <3>1
    <3>2. CASE ~PureEquity(f)
      <4>1. \A k \in DOMAIN chain : k \in K <=> chain[k] \in options /\ chain[k].sym # ""
        <5> SUFFICES ASSUME NEW k \in DOMAIN chain
                     PROVE  k \in K <=> chain[k] \in options /\ chain[k].sym # ""
          OBVIOUS
        <5>1. chain[k] \in Option /\ chain[k] \in Range(chain)
          BY ChainPlaces DEF Range
        <5>2. QED
          BY <3>2, <5>1, KeptWanted DEF Kept, Matching
      <4>2. K \subseteq DOMAIN chain
        BY <3>2 DEF Kept
      <4>3. \A o \in options : \E k \in DOMAIN chain : chain[k] = o
        BY DEF Range, Matching
      <4> HIDE DEF K, options
      <4>4. {chain[k].sym : k \in K} = {o.sym : o \in options} \ {""}
        <5>1. ASSUME NEW k \in K PROVE chain[k].sym \in {o.sym : o \in options} \ {""}
          BY <4>1, <4>2
        <5>2. ASSUME NEW o \in options, o.sym # "" PROVE \E k \in K : o.sym = chain[k].sym
          <6>1. PICK k \in DOMAIN chain : chain[k] = o
            BY <4>3
          <6>2. k \in K
            BY <4>1, <5>2, <6>1
          <6>3. QED
            BY <6>1, <6>2
        <5>3. \A x \in {chain[k].sym : k \in K} : x \in {o.sym : o \in options} \ {""}
          BY <5>1
        <5>4. \A x \in {o.sym : o \in options} \ {""} : x \in {chain[k].sym : k \in K}
          <6> SUFFICES ASSUME NEW o \in options, o.sym # "" PROVE o.sym \in {chain[k].sym : k \in K}
            OBVIOUS
          <6>1. PICK k \in K : o.sym = chain[k].sym
            BY <5>2
          <6>2. QED
            BY <6>1
        <5>5. QED
          BY <5>3, <5>4
      <4>5. QED
        BY <3>2, <4>4
    <3>3. QED
      BY <3>1, <3>2
  <2>5. QED
    BY <2>2, <2>3, <2>4 DEF WantEquity
<1>5. QED
  BY <1>2, <1>3, <1>4

(* The chain's streamer symbols differ from each other and the equity's. *)
Distinct(chain, equity) ==
    /\ \A i, j \in DOMAIN chain :
         chain[i].sym # "" /\ chain[j].sym # "" /\ i # j => chain[i].sym # chain[j].sym
    /\ \A i \in DOMAIN chain : chain[i].sym # "" => chain[i].sym # equity

(* No pair is in a result twice if nothing in its inputs is. *)
LEMMA ResolveDistinct ==
    ASSUME NEW f \in FilterSpec, NEW equity, NEW chain \in Seq(Option),
           NEW out \in Resolved(f, equity, chain), IsInjective(f.events), Distinct(chain, equity)
    PROVE  IsInjective(out)
<1>1. PICK q \in Found(chain, f) : out = Subs(f, Syms(f, equity, chain, q))
  BY DEF Resolved, Syms
<1> DEFINE syms == Syms(f, equity, chain, q)
           ev == EventTypes(f)
<1>2. /\ \A i \in DOMAIN q : i \in Nat /\ i # 0 /\ q[i] \in DOMAIN chain /\ chain[q[i]].sym # ""
      /\ \A i, j \in DOMAIN q : i # j => q[i] # q[j]
  <2> DEFINE K == IF PureEquity(f) THEN {} ELSE Kept(chain, f)
  <2>1. /\ \A i \in DOMAIN q : i \in Nat /\ i # 0 /\ q[i] \in K
        /\ \A i, j \in DOMAIN q : i # j => q[i] # q[j]
    BY FoundPlaces
  <2>2. \A k \in K : k \in DOMAIN chain /\ chain[k].sym # ""
    BY DEF Kept
  <2> HIDE DEF K
  <2>3. QED
    BY <2>1, <2>2
<1>3. \A j, k \in DOMAIN syms : syms[j] = syms[k] => j = k
  <2>1. /\ DOMAIN syms = (IF WantEquity(f) THEN {0} ELSE {}) \cup DOMAIN q
        /\ \A k \in DOMAIN syms : syms[k] = IF k = 0 THEN equity ELSE chain[q[k]].sym
    BY DEF Syms
  <2> HIDE DEF syms
  <2>2. \A j \in DOMAIN q : syms[j] = chain[q[j]].sym /\ syms[j] # equity
    BY <1>2, <2>1 DEF Distinct
  <2>3. ASSUME NEW j \in DOMAIN q, NEW k \in DOMAIN q, j # k PROVE syms[j] # syms[k]
    <3>1. /\ q[j] \in DOMAIN chain /\ chain[q[j]].sym # "" /\ q[k] \in DOMAIN chain
          /\ chain[q[k]].sym # "" /\ q[j] # q[k]
      BY <1>2, <2>3
    <3>2. chain[q[j]].sym # chain[q[k]].sym
      BY <3>1 DEF Distinct
    <3>3. QED
      BY <2>2, <3>2
  <2>4. \A j \in DOMAIN syms : j \in DOMAIN q \/ (j = 0 /\ syms[j] = equity)
    BY <2>1
  <2>5. QED
    BY <2>2, <2>3, <2>4
<1>4. \A d, e \in DOMAIN ev : ev[d] = ev[e] => d = e
  BY Events DEF IsInjective
<1> HIDE DEF syms, ev
<1>5. out = Table(DOMAIN syms, DOMAIN ev, syms, ev)
  BY <1>1 DEF Subs, syms, ev, Table
<1>6. QED
  BY <1>3, <1>4, <1>5, TableInjective

-----------------------------------------------------------------------------
(* The requests.                                                           *)

Fields == {"at", "op", "provider", "spec", "equity", "chain", "pairs", "frame", "gone", "status"}

(* What a handler's progress says of its request, given the registered     *)
(* pairs: a valid FilterSpec before a lookup, a result of Resolve at the   *)
(* check, and pairs that are registered, in the frame or since removed     *)
(* while it waits to send.                                                 *)
Lawful(r) == r.op = "nl" /\ r.spec \in FilterSpec /\ SpecValid(r.spec)
Sound(r, known) ==
    /\ DOMAIN r = Fields
    /\ r.at \in {"extract", "equity"} => r.op = "nl" /\ r.chain = <<>>
    /\ r.at \in {"equity", "chain"} => Lawful(r)
    /\ r.at = "check" =>
         \/ /\ Lawful(r) /\ r.chain \in Seq(Option)
            /\ r.pairs \in Resolved(r.spec, r.equity, r.chain)
         \/ r.op # "nl" /\ DOMAIN r.pairs = {<<0, 1>>}
    /\ r.at = "send" /\ r.op # "remove" =>
         Range(r.pairs) \subseteq known \cup Range(r.frame) \cup r.gone

NLInv ==
    /\ req = [c \in Clients |-> req[c]]
    /\ \A c \in Clients : Sound(req[c], reg)

(* A request that was answered holds nothing. *)
LEMMA AnswerSound ==
    ASSUME NEW status, NEW known
    PROVE  Sound([NoRequest EXCEPT !.status = status], known)
BY DEF Sound, Fields, NoRequest

(* An action that changes one request, and no registered pair. *)
LEMMA GoesSound ==
    ASSUME NLInv, NEW c \in Clients, NEW r, Goes(c, r), UNCHANGED reg, Sound(r, reg)
    PROVE  NLInv'
BY DEF NLInv, Goes

(* A handler answers. *)
LEMMA AnswersSound ==
    ASSUME NLInv, NEW c \in Clients, NEW status, Answers(c, status), UNCHANGED reg
    PROVE  NLInv'
BY AnswerSound, GoesSound DEF Answers

(* At first no request is under way. *)
LEMMA NLInitInv == NLInit => NLInv
<1>1. Sound(NoRequest, {})
  BY DEF Sound, Fields, NoRequest
<1>2. QED
  BY <1>1 DEF NLInit, NLInv

(* A request arrives. *)
LEMMA RequestStep ==
    ASSUME NLInv, NEW c \in Clients, Request(c)
    PROVE  NLInv'
<1>1. ASSUME NEW op \in {"add", "remove"}, NEW e, NEW x, Mutate(c, op, e, x)
      PROVE  NLInv'
  <2>1. UNCHANGED reg
    BY <1>1 DEF Mutate, NewCall
  <2>2. CASE x = ""
    BY <1>1, <2>1, <2>2, AnswersSound DEF Mutate
  <2>3. CASE x # ""
    <3> DEFINE r == [NoRequest EXCEPT !.at = "check", !.op = op,
                         !.pairs = One(<<IF e = "" THEN "Quote" ELSE e, x>>)]
    <3>1. Goes(c, r)
      BY <1>1, <2>3 DEF Mutate
    <3>2. r.at = "check" /\ r.op = op /\ DOMAIN r.pairs = {<<0, 1>>} /\ DOMAIN r = Fields
      BY DEF NoRequest, One, Fields
    <3> HIDE DEF r
    <3>3. Sound(r, reg)
      BY <3>2 DEF Sound
    <3>4. QED
      BY <2>1, <3>1, <3>3, GoesSound
  <2>4. QED
    BY <2>2, <2>3
<1>2. ASSUME NEW b, NEW p, NLSubscribe(c, b, p)
      PROVE  NLInv'
  <2> DEFINE name == IF p = "" THEN Default ELSE p
             r == [NoRequest EXCEPT !.at = "extract", !.op = "nl", !.provider = name]
  <2>1. UNCHANGED reg
    BY <1>2 DEF NLSubscribe, NewCall
  <2>2. Sound(r, reg)
    BY DEF NoRequest, Fields, Sound
  <2> HIDE DEF name
  <2>3. Answers(c, 503) \/ Answers(c, 400) \/ Goes(c, r)
    BY <1>2 DEF NLSubscribe, name
  <2> HIDE DEF r
  <2>4. QED
    BY <2>1, <2>2, <2>3, AnswersSound, GoesSound
<1>3. ASSUME NEW t, SymbolData(c, t)
      PROVE  NLInv'
  <2> DEFINE r == [NoRequest EXCEPT !.at = "symbol", !.op = t]
  <2>1. UNCHANGED reg
    BY <1>3 DEF SymbolData, NewCall
  <2>2. Sound(r, reg)
    BY DEF NoRequest, Fields, Sound
  <2>3. Goes(c, r)
    BY <1>3 DEF SymbolData
  <2> HIDE DEF r
  <2>4. QED
    BY <2>1, <2>2, <2>3, GoesSound
<1>4. QED
  BY <1>1, <1>2, <1>3 DEF Request

(* A lookup is answered: Resolve goes on with it, or is done. *)
LEMMA TastytradeStep ==
    ASSUME NLInv, NEW c \in Clients, Tastytrade(c)
    PROVE  NLInv'
<1> DEFINE r == req[c]
<1>1. Sound(r, reg)
  BY DEF NLInv
<1>2. ASSUME NEW a, SymbolAnswer(c, a)
      PROVE  NLInv'
  BY <1>2, AnswersSound DEF SymbolAnswer
<1>3. ASSUME NEW a, NEW eq, EquityLookup(c, a, eq)
      PROVE  NLInv'
  <2> DEFINE e == IF eq.streamer = "" THEN eq.symbol ELSE eq.streamer
             s == [r EXCEPT !.equity = e]
  <2>1. UNCHANGED reg /\ r.at = "equity"
    BY <1>3 DEF EquityLookup, Running
  <2>2. DOMAIN s = Fields /\ s.chain = <<>> /\ Lawful(s)
    <3> HIDE DEF r, e
    <3>1. QED
      BY <1>1, <2>1 DEF Sound, Fields, Lawful
  <2>3. CASE Answers(c, 400)
    BY <2>1, <2>3, AnswersSound
  <2>4. CASE Goes(c, [s EXCEPT !.at = "chain"])
    <3> HIDE DEF s
    <3>1. Sound([s EXCEPT !.at = "chain"], reg)
      BY <2>2 DEF Sound, Fields, Lawful
    <3>2. QED
      BY <2>1, <2>4, <3>1, GoesSound
  <2>5. ASSUME NEW out \in Resolved(s.spec, s.equity, <<>>), Goes(c, [s EXCEPT !.at = "check", !.pairs = out])
        PROVE  NLInv'
    <3> DEFINE t == [s EXCEPT !.at = "check", !.pairs = out]
    <3> HIDE DEF s
    <3>1. DOMAIN t = Fields /\ t.at = "check" /\ t.pairs = out /\ Lawful(t)
          /\ t.chain = <<>> /\ t.spec = s.spec /\ t.equity = s.equity
      BY <2>2 DEF Fields, Lawful
    <3> HIDE DEF t
    <3>2. Sound(t, reg)
      <4>1. t.chain \in Seq(Option) /\ t.pairs \in Resolved(t.spec, t.equity, t.chain)
        BY <2>5, <3>1
      <4>2. QED
        BY <3>1, <4>1 DEF Sound
    <3>3. QED
      BY <2>1, <2>5, <3>2, GoesSound DEF t
  <2> HIDE DEF s
  <2>6. \/ Answers(c, 400) \/ Goes(c, [s EXCEPT !.at = "chain"])
        \/ \E out \in Resolved(s.spec, s.equity, <<>>) : Goes(c, [s EXCEPT !.at = "check", !.pairs = out])
    BY <1>3 DEF EquityLookup, s
  <2>7. QED
    BY <2>3, <2>4, <2>5, <2>6
<1>4. ASSUME NEW a, NEW chain \in Seq(Option), ChainLookup(c, a, chain)
      PROVE  NLInv'
  <2>1. UNCHANGED reg /\ r.at = "chain"
    BY <1>4 DEF ChainLookup, Running
  <2>2. CASE Answers(c, 400)
    BY <2>1, <2>2, AnswersSound
  <2>3. ASSUME NEW out \in Resolved(r.spec, r.equity, chain),
               Goes(c, [r EXCEPT !.at = "check", !.chain = chain, !.pairs = out])
        PROVE  NLInv'
    <3> DEFINE t == [r EXCEPT !.at = "check", !.chain = chain, !.pairs = out]
    <3>1. Goes(c, t)
      BY <2>3
    <3> HIDE DEF r
    <3>2. DOMAIN t = Fields /\ t.at = "check" /\ t.pairs = out /\ Lawful(t)
          /\ t.chain = chain /\ t.spec = r.spec /\ t.equity = r.equity
      BY <1>1, <2>1 DEF Fields, Lawful, Sound
    <3> HIDE DEF t
    <3>3. Sound(t, reg)
      <4>1. t.chain \in Seq(Option) /\ t.pairs \in Resolved(t.spec, t.equity, t.chain)
        BY <2>3, <3>2
      <4>2. QED
        BY <3>2, <4>1 DEF Sound
    <3>4. QED
      BY <2>1, <3>1, <3>3, GoesSound
  <2>4. QED
    BY <1>4, <2>2, <2>3 DEF ChainLookup
<1>5. <<>> \in Seq(Option) /\ Chains \subseteq Seq(Option)
  BY SymbologyAssumption
<1>6. QED
  BY <1>2, <1>3, <1>4, <1>5 DEF Tastytrade

(* The model answers, the manager checks, or its frame is sent; a commit   *)
(* moves what it removes into the history of the requests under way.       *)
LEMMA HandlerStep ==
    ASSUME NLInv, NEW c \in Clients, Handler(c)
    PROVE  NLInv'
<1> DEFINE r == req[c]
<1>1. Sound(r, reg)
  BY DEF NLInv
<1>2. ASSUME NEW a, NEW f \in FilterSpec \cup {NoSpec}, Extract(c, a, f)
      PROVE  NLInv'
  <2> DEFINE s == [r EXCEPT !.at = IF WantEquity(f) THEN "equity" ELSE "chain", !.provider = "", !.spec = f]
  <2>1. UNCHANGED reg /\ r.at = "extract"
    BY <1>2 DEF Extract, Running
  <2>2. Answers(c, 502) \/ Answers(c, 400) \/ (SpecValid(f) /\ Goes(c, s))
    BY <1>2 DEF Extract
  <2>3. ASSUME SpecValid(f), Goes(c, s)
        PROVE  NLInv'
    <3>1. f \in FilterSpec
      <4>1. NoSpec.root = ""
        BY DEF NoSpec
      <4>2. QED
        BY <2>3, <4>1 DEF SpecValid
    <3> HIDE DEF r
    <3>2. DOMAIN s = Fields /\ s.at \in {"equity", "chain"} /\ s.op = "nl" /\ s.spec = f /\ s.chain = <<>>
      BY <1>1, <2>1 DEF Fields, Sound
    <3> HIDE DEF s
    <3>3. Sound(s, reg)
      BY <2>3, <3>1, <3>2 DEF Sound, Lawful
    <3>4. QED
      BY <2>1, <2>3, <3>3, GoesSound
  <2> HIDE DEF s
  <2>4. QED
    BY <2>1, <2>2, <2>3, AnswersSound
<1>3. ASSUME Check(c)
      PROVE  NLInv'
  <2> DEFINE frame == ToSend(c)
             s == [r EXCEPT !.at = "send", !.frame = frame, !.spec = NoSpec,
                            !.equity = "", !.chain = <<>>, !.gone = {}]
  <2>1. UNCHANGED reg /\ r.at = "check"
    BY <1>3 DEF Check, Running
  <2>2. Answers(c, 500) \/ Answers(c, 200) \/ Goes(c, s)
    BY <1>3 DEF Check
  <2>3. r.op # "remove" => Range(r.pairs) \subseteq reg \cup Range(ToSend(c))
    BY DEF ToSend, Range, Restrict
  <2>4. Sound(s, reg)
    <3> HIDE DEF r, frame
    <3>1. DOMAIN s = Fields /\ s.at = "send" /\ s.op = r.op /\ s.pairs = r.pairs /\ s.frame = frame
      BY <1>1 DEF Fields, Sound
    <3> HIDE DEF s
    <3>2. QED
      BY <2>3, <3>1 DEF Sound, frame
  <2> HIDE DEF s
  <2>5. QED
    BY <2>1, <2>2, <2>4, AnswersSound, GoesSound
<1>4. CASE SendFails(c)
  BY <1>4, AnswersSound DEF SendFails
<1>5. CASE Commit(c)
  <2> DEFINE ks == Range(r.frame)
  <2>1. req' = [d \in Clients |->
                 IF d = c THEN [NoRequest EXCEPT !.status = 200]
                 ELSE IF r.op = "remove" /\ req[d].at = "send" THEN [req[d] EXCEPT !.gone = @ \cup ks]
                 ELSE req[d]]
    BY <1>5 DEF Commit
  <2>2. reg' = IF r.op = "remove" THEN reg \ ks ELSE reg \cup ks
    BY <1>5 DEF Commit
  <2> HIDE DEF r, ks
  <2>3. ASSUME NEW d \in Clients
        PROVE  Sound(req'[d], reg')
    <3>1. CASE d = c
      BY <2>1, <3>1, AnswerSound
    <3>2. CASE d # c
      <4> DEFINE s == req[d]
      <4>1. Sound(s, reg)
        BY DEF NLInv
      <4>2. CASE r.op = "remove" /\ s.at = "send"
        <5> DEFINE t == [s EXCEPT !.gone = @ \cup ks]
        <5>1. req'[d] = t
          BY <2>1, <3>2, <4>2
        <5> HIDE DEF s
        <5>2. /\ DOMAIN t = Fields /\ t.at = "send" /\ t.op = s.op /\ t.pairs = s.pairs
              /\ t.frame = s.frame /\ t.gone = s.gone \cup ks
          BY <4>1, <4>2 DEF Sound, Fields
        <5> HIDE DEF t
        <5>3. Sound(t, reg \ ks)
          BY <4>1, <4>2, <5>2 DEF Sound
        <5>4. QED
          BY <2>2, <4>2, <5>1, <5>3
      <4>3. CASE s.at # "send"
        BY <2>1, <3>2, <4>1, <4>3 DEF Sound
      <4>4. CASE r.op # "remove"
        BY <2>1, <2>2, <3>2, <4>1, <4>4 DEF Sound
      <4>5. QED
        BY <4>2, <4>3, <4>4
    <3>3. QED
      BY <3>1, <3>2
  <2>4. req' = [d \in Clients |-> req'[d]]
    BY <2>1
  <2>5. QED
    BY <2>3, <2>4 DEF NLInv
<1>6. Specs \subseteq FilterSpec
  BY NLAssumption
<1>7. QED
  BY <1>2, <1>3, <1>4, <1>5, <1>6 DEF Handler

(* Every step keeps the invariant. *)
LEMMA NLStep == NLInv /\ [NLNext]_nlVars => NLInv'
<1> SUFFICES ASSUME NLInv, [NLNext]_nlVars PROVE NLInv'
  OBVIOUS
<1>1. CASE UNCHANGED nlVars
  BY <1>1 DEF nlVars, NLInv
<1>2. ASSUME NEW c \in Clients, Request(c) \/ Tastytrade(c) \/ Handler(c) PROVE NLInv'
  BY <1>2, RequestStep, TastytradeStep, HandlerStep
<1>3. QED
  BY <1>1, <1>2 DEF NLNext

(* The invariant of the requests. *)
LEMMA NLInvariance == NLSpec => []NLInv
<1>1. NLInit => NLInv
  BY NLInitInv
<1>2. NLInv /\ [NLNext]_nlVars => NLInv'
  BY NLStep
<1>3. QED
  BY <1>1, <1>2, PTL DEF NLSpec

(* What /nl-subscribe hands to BulkAdd is what its FilterSpec is           *)
(* documented to ask for, for every FilterSpec but those with a window and *)
(* no kind, every chain, and whatever order sort.Slice leaves equal        *)
(* options in (resolver.go:52-105).                                        *)
THEOREM ResolvedAsWanted == NLSpec => []ResolvesWanted
<1>1. ASSUME NLInv PROVE ResolvesWanted
  <2> SUFFICES ASSUME NEW c \in Clients, ~WindowOnly(req[c].spec),
                      req[c].at = "check", req[c].op = "nl"
               PROVE  Range(req[c].pairs) = Wanted(req[c].spec, req[c].equity, req[c].chain)
    BY DEF ResolvesWanted, Resolves
  <2>1. Sound(req[c], reg)
    BY <1>1 DEF NLInv
  <2>2. /\ req[c].spec \in FilterSpec /\ SpecValid(req[c].spec) /\ req[c].chain \in Seq(Option)
        /\ req[c].pairs \in Resolved(req[c].spec, req[c].equity, req[c].chain)
    BY <2>1 DEF Sound, Lawful
  <2>3. QED
    BY <2>2, ResolveExact, TakenWanted
<1>2. QED
  BY <1>1, NLInvariance, PTL

(* BulkAdd's frame repeats no pair, however many options the chain has, if *)
(* neither the FilterSpec repeats an event nor the chain a symbol.         *)
THEOREM FrameHasNoDuplicates == NLSpec => []FrameDistinct
<1>1. ASSUME NLInv PROVE FrameDistinct
  <2> SUFFICES ASSUME NEW c \in Clients, NEW r, r = req[c],
                      NEW named, named = {i \in DOMAIN r.chain : r.chain[i].sym # ""},
                      r.at = "check", IsInjective(r.spec.events),
                      \A i, j \in named : i # j => r.chain[i].sym # r.chain[j].sym,
                      \A i \in named : r.chain[i].sym # r.equity
               PROVE  IsInjective(ToSend(c))
    BY DEF FrameDistinct
  <2>1. Sound(r, reg)
    BY <1>1 DEF NLInv
  <2>2. CASE r.op # "nl"
    BY <2>1, <2>2 DEF Sound, Lawful, ToSend, Restrict, IsInjective
  <2>3. CASE r.op = "nl"
    <3>1. /\ r.spec \in FilterSpec /\ r.chain \in Seq(Option)
          /\ r.pairs \in Resolved(r.spec, r.equity, r.chain)
      BY <2>1, <2>3 DEF Sound, Lawful
    <3>2. IsInjective(r.pairs)
      <4>1. Distinct(r.chain, r.equity)
        <5>1. \A i \in DOMAIN r.chain : r.chain[i].sym # "" => i \in named
          OBVIOUS
        <5>2. QED
          BY <5>1 DEF Distinct
      <4>2. QED
        BY <3>1, <4>1, ResolveDistinct
    <3>3. QED
      BY <3>2 DEF ToSend, Restrict, IsInjective
  <2>4. QED
    BY <2>2, <2>3
<1>2. QED
  BY <1>1, NLInvariance, PTL

(* Every step but a commit changes one request alone. *)
LEMMA OneGoes ==
    ASSUME NEW c, Request(c) \/ Tastytrade(c) \/ Handler(c)
    PROVE  Commit(c) \/ \E r : Goes(c, r)
<1>1. ASSUME NEW status, Answers(c, status) PROVE \E r : Goes(c, r)
  BY <1>1 DEF Answers
<1>2. ASSUME NEW op, NEW e, NEW x, Mutate(c, op, e, x) PROVE \E r : Goes(c, r)
  BY <1>1, <1>2 DEF Mutate
<1>3. ASSUME NEW b, NEW p, NLSubscribe(c, b, p) PROVE \E r : Goes(c, r)
  BY <1>1, <1>3 DEF NLSubscribe
<1>4. ASSUME NEW t, SymbolData(c, t) PROVE \E r : Goes(c, r)
  BY <1>4 DEF SymbolData
<1>5. ASSUME NEW a, SymbolAnswer(c, a) PROVE \E r : Goes(c, r)
  BY <1>1, <1>5 DEF SymbolAnswer
<1>6. ASSUME NEW a, NEW eq, EquityLookup(c, a, eq) PROVE \E r : Goes(c, r)
  BY <1>1, <1>6 DEF EquityLookup
<1>7. ASSUME NEW a, NEW chain, ChainLookup(c, a, chain) PROVE \E r : Goes(c, r)
  BY <1>1, <1>7 DEF ChainLookup
<1>8. ASSUME NEW a, NEW f, Extract(c, a, f) PROVE \E r : Goes(c, r)
  BY <1>1, <1>8 DEF Extract
<1>9. ASSUME Check(c) \/ SendFails(c) PROVE \E r : Goes(c, r)
  BY <1>1, <1>9 DEF Check, SendFails
<1>10. CASE Request(c)
  BY <1>2, <1>3, <1>4, <1>10 DEF Request
<1>11. CASE Tastytrade(c)
  BY <1>5, <1>6, <1>7, <1>11 DEF Tastytrade
<1>12. CASE Handler(c)
  BY <1>8, <1>9, <1>12 DEF Handler
<1>13. QED
  BY <1>10, <1>11, <1>12

(* A client has one request at a time. *)
LEMMA RequestIsNew ==
    ASSUME NEW c, Request(c)
    PROVE  NewCall(c)
<1>1. ASSUME NEW op, NEW e, NEW x, Mutate(c, op, e, x) PROVE NewCall(c)
  BY <1>1 DEF Mutate
<1>2. ASSUME NEW b, NEW p, NLSubscribe(c, b, p) PROVE NewCall(c)
  BY <1>2 DEF NLSubscribe
<1>3. ASSUME NEW t, SymbolData(c, t) PROVE NewCall(c)
  BY <1>3 DEF SymbolData
<1>4. QED
  BY <1>1, <1>2, <1>3 DEF Request

(* A lookup is one of a handler that waits for it. *)
LEMMA LookupIsRunning ==
    ASSUME NEW c, Tastytrade(c)
    PROVE  req[c].at \in {"symbol", "equity", "chain"}
<1>1. ASSUME NEW a, SymbolAnswer(c, a) PROVE req[c].at = "symbol"
  BY <1>1 DEF SymbolAnswer, Running
<1>2. ASSUME NEW a, NEW eq, EquityLookup(c, a, eq) PROVE req[c].at = "equity"
  BY <1>2 DEF EquityLookup, Running
<1>3. ASSUME NEW a, NEW chain, ChainLookup(c, a, chain) PROVE req[c].at = "chain"
  BY <1>3 DEF ChainLookup, Running
<1>4. QED
  BY <1>1, <1>2, <1>3 DEF Tastytrade

(* Every pair of an add that was answered 200 is registered, unless        *)
(* another request removed it between the check and the commit.            *)
THEOREM AppliedMeansRegistered == NLSpec => AppliedIsRegistered
<1> DEFINE Applied(c) ==
             (req[c].at \in {"check", "send"} /\ req'[c].at = "idle" /\ req'[c].status = 200
                /\ req[c].op # "remove") => Range(req[c].pairs) \ req[c].gone \subseteq reg'
<1>1. ASSUME NLInv, [NLNext]_nlVars, NEW c \in Clients
      PROVE  Applied(c)
  <2> SUFFICES ASSUME req[c].at \in {"check", "send"}, req'[c].at = "idle", req'[c].status = 200,
                      req[c].op # "remove"
               PROVE  Range(req[c].pairs) \ req[c].gone \subseteq reg'
    OBVIOUS
  <2>1. Sound(req[c], reg) /\ req = [d \in Clients |-> req[d]]
    BY <1>1 DEF NLInv
  <2>2. PICK d \in Clients : Request(d) \/ Tastytrade(d) \/ Handler(d)
    BY <1>1 DEF NLNext, nlVars
  <2>3. d = c
    <3> SUFFICES ASSUME d # c PROVE FALSE
      OBVIOUS
    <3>1. CASE \E r : Goes(d, r)
      BY <2>1, <3>1 DEF Goes
    <3>2. CASE Commit(d)
      <4>1. req'[c] = IF req[d].op = "remove" /\ req[c].at = "send"
                        THEN [req[c] EXCEPT !.gone = @ \cup Range(req[d].frame)] ELSE req[c]
        BY <3>2 DEF Commit
      <4>2. req'[c].at = req[c].at
        BY <2>1, <4>1 DEF Sound, Fields
      <4>3. QED
        BY <4>2
    <3>3. QED
      BY <2>2, <3>1, <3>2, OneGoes
  <2>4. Check(c) \/ SendFails(c) \/ Commit(c)
    <3>1. ~Request(c)
      BY RequestIsNew DEF NewCall
    <3>2. ~Tastytrade(c)
      BY LookupIsRunning
    <3>3. QED
      BY <2>2, <2>3, <3>1, <3>2 DEF Handler
  <2>5. ~Answers(c, 500)
    <3> DEFINE failed == [NoRequest EXCEPT !.status = 500]
    <3>1. failed.status = 500
      BY DEF NoRequest
    <3> HIDE DEF failed
    <3>2. ~Goes(c, failed)
      BY <2>1, <3>1 DEF Goes
    <3>3. QED
      BY <3>2 DEF Answers, failed
  <2>6. CASE Check(c)
    <3> DEFINE s == [req[c] EXCEPT !.at = "send", !.frame = ToSend(c), !.spec = NoSpec,
                                   !.equity = "", !.chain = <<>>, !.gone = {}]
    <3>1. UNCHANGED reg
      BY <2>6 DEF Check
    <3>2. s.at = "send"
      BY <2>1 DEF Sound, Fields
    <3> HIDE DEF s
    <3>3. ~Goes(c, s) /\ ~Answers(c, 500)
      BY <2>1, <2>5, <3>2 DEF Goes
    <3>4. DOMAIN ToSend(c) = {}
      BY <2>6, <3>3 DEF Check, s
    <3>5. QED
      BY <3>1, <3>4 DEF ToSend, Restrict, Range
  <2>7. CASE SendFails(c)
    BY <2>7, <2>5 DEF SendFails
  <2>8. CASE Commit(c)
    <3>1. reg' = reg \cup Range(req[c].frame) /\ req[c].at = "send"
      BY <2>8 DEF Commit, Running
    <3>2. QED
      BY <2>1, <3>1 DEF Sound
  <2>9. QED
    BY <2>4, <2>6, <2>7, <2>8
<1>2. ASSUME NLInv, [NLNext]_nlVars
      PROVE  [\A c \in Clients : Applied(c)]_nlVars
  BY <1>1, <1>2
<1>3. QED
  BY <1>2, NLInvariance, PTL DEF NLSpec, AppliedIsRegistered

(* No part of a pair is empty. *)
Full(ps) == \A p \in ps : p[1] # "" /\ p[2] # ""

Stages == {"idle", "extract", "equity", "chain", "symbol", "check", "send"}
Statuses == {0, 200, 400, 500, 502, 503}
Typed(r) ==
    /\ r.at \in Stages /\ r.status \in Statuses
    /\ Full(Range(r.pairs)) /\ Full(Range(r.frame))
    /\ r.at \in {"chain", "check"} /\ r.op = "nl" /\ WantEquity(r.spec) => r.equity # ""
NLTypes ==
    /\ calls \in 0..MaxCalls /\ Full(reg) /\ \A c \in Clients : Typed(req[c])

(* The statuses the handlers answer with. *)
LEMMA StatusCodes ==
    /\ 200 \in Statuses /\ 400 \in Statuses /\ 500 \in Statuses
    /\ 502 \in Statuses /\ 503 \in Statuses
BY DEF Statuses

(* The empty batch and the empty chain. *)
LEMMA NothingNamed == Full(Range(<<>>)) /\ <<>> \in Seq(Option)
<1>1. Range(<<>>) = {}
  BY DEF Range
<1>2. \A p \in {} : p[1] # "" /\ p[2] # ""
  OBVIOUS
<1>3. <<>> \in Seq(Option)
  OBVIOUS
<1>4. QED
  BY <1>1, <1>2, <1>3 DEF Full

(* An answer has one of the handlers' statuses and names no pair. *)
LEMMA AnswerTyped ==
    ASSUME NEW status \in Statuses
    PROVE  Typed([NoRequest EXCEPT !.status = status])
<1> DEFINE r == [NoRequest EXCEPT !.status = status]
<1>1. r.at = "idle" /\ r.status = status /\ r.pairs = <<>> /\ r.frame = <<>>
  BY DEF NoRequest
<1> HIDE DEF r
<1>2. Full(Range(<<>>))
  BY NothingNamed
<1>3. Typed(r)
  BY <1>1, <1>2 DEF Typed, Stages
<1>4. QED
  BY <1>3 DEF r

(* One request changes. *)
LEMMA GoesTyped ==
    ASSUME NLInv, NLTypes, NEW c \in Clients, NEW r, Goes(c, r), UNCHANGED reg,
           calls' \in 0..MaxCalls, Typed(r)
    PROVE  NLTypes'
BY DEF NLInv, NLTypes, Goes

(* A handler answers. *)
LEMMA AnswersTyped ==
    ASSUME NLInv, NLTypes, NEW c \in Clients, NEW status \in Statuses, Answers(c, status),
           UNCHANGED reg, calls' \in 0..MaxCalls
    PROVE  NLTypes'
BY AnswerTyped, GoesTyped DEF Answers

(* Resolve names no pair with an empty part. *)
LEMMA ResolveFull ==
    ASSUME NEW f \in FilterSpec, SpecValid(f), NEW equity, WantEquity(f) => equity # "",
           NEW chain \in Seq(Option), NEW out \in Resolved(f, equity, chain)
    PROVE  Full(Range(out))
<1>1. Range(out) = Taken(f, equity, chain)
  BY ResolveExact
<1>2. \A e \in (IF f.events = <<>> THEN {"Quote"} ELSE Range(f.events)) : e # ""
  <2>1. CASE f.events = <<>>
    BY <2>1
  <2>2. CASE f.events # <<>>
    BY <2>2 DEF SpecValid, EventTypes, AllowedEvents
  <2>3. QED
    BY <2>1, <2>2
<1> DEFINE ev == IF f.events = <<>> THEN {"Quote"} ELSE Range(f.events)
           options == Matching(f, chain)
           syms == TakenSyms(f, equity, chain)
<1>3. Taken(f, equity, chain) = ev \X syms
  BY DEF Taken
<1>4. \A x \in syms : x # ""
  <2>1. PureEquity(f) \/ f.includeEquity => equity # ""
    BY DEF WantEquity
  <2>2. \A x \in {o.sym : o \in options} \ {""} : x # ""
    OBVIOUS
  <2>3. QED
    BY <2>1, <2>2 DEF TakenSyms
<1> HIDE DEF ev, syms
<1>5. \A p \in ev \X syms : p[1] \in ev /\ p[2] \in syms
  OBVIOUS
<1>6. QED
  BY <1>1, <1>2, <1>3, <1>4, <1>5 DEF Full, ev

(* parseMutation refuses a missing symbol and fills in a missing event. *)
LEMMA RequestTyped ==
    ASSUME NLInv, NLTypes, NEW c \in Clients, Request(c)
    PROVE  NLTypes'
<1>1. ASSUME NewCall(c) PROVE UNCHANGED reg /\ calls' \in 0..MaxCalls
  BY <1>1, NLAssumption DEF NewCall, NLTypes
<1>2. Full(Range(<<>>))
  BY NothingNamed
<1>3. ASSUME NEW op \in {"add", "remove"}, NEW e, NEW x, Mutate(c, op, e, x)
      PROVE  NLTypes'
  <2>1. UNCHANGED reg /\ calls' \in 0..MaxCalls
    BY <1>1, <1>3 DEF Mutate
  <2>2. CASE Answers(c, 400)
    BY <2>1, <2>2, AnswersTyped DEF Statuses
  <2>3. CASE x # ""
    <3> DEFINE pair == <<IF e = "" THEN "Quote" ELSE e, x>>
               r == [NoRequest EXCEPT !.at = "check", !.op = op, !.pairs = One(pair)]
    <3>1. Goes(c, r)
      BY <1>3, <2>3 DEF Mutate
    <3>2. pair[1] # "" /\ pair[2] # ""
      BY <2>3
    <3> HIDE DEF pair
    <3>3. /\ r.at = "check" /\ r.op = op /\ r.pairs = One(pair) /\ r.frame = <<>> /\ r.status = 0
      BY DEF NoRequest
    <3> HIDE DEF r
    <3>4. Full(Range(One(pair)))
      BY <3>2 DEF Full, Range, One
    <3>5. Typed(r)
      BY <1>2, <3>3, <3>4 DEF Typed, Stages, Statuses
    <3>6. QED
      BY <2>1, <3>1, <3>5, GoesTyped
  <2>4. QED
    BY <1>3, <2>2, <2>3 DEF Mutate
<1>4. ASSUME NEW b, NEW p, NLSubscribe(c, b, p)
      PROVE  NLTypes'
  <2> DEFINE name == IF p = "" THEN Default ELSE p
             r == [NoRequest EXCEPT !.at = "extract", !.op = "nl", !.provider = name]
  <2>1. UNCHANGED reg /\ calls' \in 0..MaxCalls
    BY <1>1, <1>4 DEF NLSubscribe
  <2> HIDE DEF name
  <2>2. Answers(c, 503) \/ Answers(c, 400) \/ Goes(c, r)
    BY <1>4 DEF NLSubscribe, name
  <2>3. r.at = "extract" /\ r.pairs = <<>> /\ r.frame = <<>> /\ r.status = 0
    BY DEF NoRequest
  <2> HIDE DEF r
  <2>4. Typed(r)
    BY <1>2, <2>3 DEF Typed, Stages, Statuses
  <2>5. 503 \in Statuses /\ 400 \in Statuses
    BY StatusCodes
  <2>6. QED
    BY <2>1, <2>2, <2>4, <2>5, AnswersTyped, GoesTyped
<1>5. ASSUME NEW t, SymbolData(c, t)
      PROVE  NLTypes'
  <2> DEFINE r == [NoRequest EXCEPT !.at = "symbol", !.op = t]
  <2>1. UNCHANGED reg /\ calls' \in 0..MaxCalls /\ Goes(c, r)
    BY <1>1, <1>5 DEF SymbolData
  <2>2. r.at = "symbol" /\ r.pairs = <<>> /\ r.frame = <<>> /\ r.status = 0
    BY DEF NoRequest
  <2> HIDE DEF r
  <2>3. Typed(r)
    BY <1>2, <2>2 DEF Typed, Stages, Statuses
  <2>4. QED
    BY <2>1, <2>3, GoesTyped
<1>6. QED
  BY <1>3, <1>4, <1>5 DEF Request

(* writeServiceResponse has three answers. *)
LEMMA ServiceStatuses == \A x : ServiceStatus(x) \in Statuses
<1> SUFFICES ASSUME NEW x PROVE ServiceStatus(x) \in Statuses
  OBVIOUS
<1>1. CASE x \in {"data", "other data"}
  <2>1. ServiceStatus(x) = 200
    BY <1>1 DEF ServiceStatus
  <2>2. QED
    BY <2>1 DEF Statuses
<1>2. CASE x = "bad request"
  <2>1. ServiceStatus(x) = 400
    BY <1>2 DEF ServiceStatus
  <2>2. QED
    BY <2>1 DEF Statuses
<1>3. CASE x \notin {"data", "other data"} /\ x # "bad request"
  <2>1. ServiceStatus(x) = 500
    BY <1>3 DEF ServiceStatus
  <2>2. QED
    BY <2>1 DEF Statuses
<1>4. QED
  BY <1>1, <1>2, <1>3

(* The equity found has a name, so Resolve's pairs have. *)
LEMMA TastytradeTyped ==
    ASSUME NLInv, NLTypes, NEW c \in Clients, Tastytrade(c), \A e \in Equities : e.symbol # ""
    PROVE  NLTypes'
<1> DEFINE r == req[c]
<1>1. Sound(r, reg) /\ Typed(r) /\ calls \in 0..MaxCalls
  BY DEF NLInv, NLTypes
<1>2. 200 \in Statuses /\ 400 \in Statuses /\ 500 \in Statuses
  BY StatusCodes
<1>3. ASSUME NEW a, SymbolAnswer(c, a)
      PROVE  NLTypes'
  <2>1. PICK x : Answers(c, ServiceStatus(x))
    BY <1>3 DEF SymbolAnswer
  <2> DEFINE status == ServiceStatus(x)
  <2>2. status \in Statuses
    BY ServiceStatuses
  <2>3. UNCHANGED reg /\ calls' = calls
    BY <1>3 DEF SymbolAnswer, Running
  <2>4. Answers(c, status)
    BY <2>1
  <2> HIDE DEF status
  <2>5. QED
    BY <1>1, <2>2, <2>3, <2>4, AnswersTyped
<1>4. ASSUME NEW a, NEW eq, a = "data" => eq.symbol # "", EquityLookup(c, a, eq)
      PROVE  NLTypes'
  <2> DEFINE e == IF eq.streamer = "" THEN eq.symbol ELSE eq.streamer
             s == [r EXCEPT !.equity = e]
  <2>1. UNCHANGED reg /\ calls' = calls /\ r.at = "equity"
    BY <1>4 DEF EquityLookup, Running
  <2>2. a = "data" => e # ""
    BY <1>4
  <2> HIDE DEF e, r
  <2>3. /\ DOMAIN s = Fields /\ s.chain = <<>> /\ s.spec \in FilterSpec /\ SpecValid(s.spec)
        /\ s.equity = e /\ s.status = r.status /\ s.pairs = r.pairs /\ s.frame = r.frame
    BY <1>1, <2>1 DEF Sound, Fields, Lawful
  <2> HIDE DEF s
  <2>4. CASE Answers(c, 400)
    <3>1. UNCHANGED reg /\ calls' \in 0..MaxCalls
      BY <1>1, <2>1
    <3>2. QED
      BY <1>2, <2>4, <3>1, AnswersTyped
  <2>5. ASSUME a = "data", Goes(c, [s EXCEPT !.at = "chain"])
        PROVE  NLTypes'
    <3> DEFINE t == [s EXCEPT !.at = "chain"]
    <3>1. t.at = "chain" /\ t.equity = e /\ t.status = r.status /\ t.pairs = r.pairs /\ t.frame = r.frame
      BY <2>3 DEF Fields
    <3> HIDE DEF t
    <3>2. Typed(t)
      BY <1>1, <2>2, <2>5, <3>1 DEF Typed, Stages
    <3>3. QED
      BY <1>1, <2>1, <2>5, <3>2, GoesTyped DEF t
  <2>6. ASSUME a = "data", NEW out \in Resolved(s.spec, s.equity, <<>>),
               Goes(c, [s EXCEPT !.at = "check", !.pairs = out])
        PROVE  NLTypes'
    <3> DEFINE t == [s EXCEPT !.at = "check", !.pairs = out]
    <3>1. t.at = "check" /\ t.equity = e /\ t.status = r.status /\ t.pairs = out /\ t.frame = r.frame
      BY <2>3 DEF Fields
    <3>2. Full(Range(out))
      <4>1. <<>> \in Seq(Option)
        BY NothingNamed
      <4>2. QED
        BY <2>2, <2>3, <2>6, <4>1, ResolveFull
    <3> HIDE DEF t
    <3>3. Typed(t)
      BY <1>1, <2>2, <2>6, <3>1, <3>2 DEF Typed, Stages
    <3>4. QED
      BY <1>1, <2>1, <2>6, <3>3, GoesTyped DEF t
  <2>7. a # "data" => Answers(c, 400)
    BY <1>4 DEF EquityLookup, GetSymbolData
  <2>8. \/ Answers(c, 400) \/ Goes(c, [s EXCEPT !.at = "chain"])
        \/ \E out \in Resolved(s.spec, s.equity, <<>>) : Goes(c, [s EXCEPT !.at = "check", !.pairs = out])
    BY <1>4 DEF EquityLookup, s, e, r
  <2>9. QED
    BY <2>4, <2>5, <2>6, <2>7, <2>8
<1>5. ASSUME NEW a, NEW chain \in Seq(Option), ChainLookup(c, a, chain)
      PROVE  NLTypes'
  <2>1. UNCHANGED reg /\ calls' = calls /\ r.at = "chain"
    BY <1>5 DEF ChainLookup, Running
  <2>2. CASE Answers(c, 400)
    <3>1. UNCHANGED reg /\ calls' \in 0..MaxCalls
      BY <1>1, <2>1
    <3>2. QED
      BY <1>2, <2>2, <3>1, AnswersTyped
  <2>3. ASSUME NEW out \in Resolved(r.spec, r.equity, chain),
               Goes(c, [r EXCEPT !.at = "check", !.chain = chain, !.pairs = out])
        PROVE  NLTypes'
    <3> DEFINE t == [r EXCEPT !.at = "check", !.chain = chain, !.pairs = out]
    <3>1. Goes(c, t)
      BY <2>3
    <3> HIDE DEF r
    <3>2. /\ r.op = "nl" /\ r.spec \in FilterSpec /\ SpecValid(r.spec)
          /\ WantEquity(r.spec) => r.equity # ""
      BY <1>1, <2>1 DEF Sound, Typed, Lawful
    <3>3. /\ t.at = "check" /\ t.pairs = out /\ t.frame = r.frame /\ t.status = r.status
          /\ t.equity = r.equity /\ t.spec = r.spec
      BY <1>1 DEF Fields, Sound
    <3> HIDE DEF t
    <3>4. Full(Range(out))
      BY <2>3, <3>2, ResolveFull
    <3>5. Typed(t)
      BY <1>1, <3>2, <3>3, <3>4 DEF Typed, Stages
    <3>6. QED
      BY <1>1, <2>1, <3>1, <3>5, GoesTyped
  <2>4. QED
    BY <1>5, <2>2, <2>3 DEF ChainLookup
<1>6. <<>> \in Seq(Option) /\ Chains \subseteq Seq(Option)
  BY NothingNamed, SymbologyAssumption
<1>7. QED
  BY <1>3, <1>4, <1>5, <1>6 DEF Tastytrade

(* The check and the commit name no new pair. *)
LEMMA HandlerTyped ==
    ASSUME NLInv, NLTypes, NEW c \in Clients, Handler(c)
    PROVE  NLTypes'
<1> DEFINE r == req[c]
<1>1. Sound(r, reg) /\ Typed(r) /\ calls \in 0..MaxCalls
  BY DEF NLInv, NLTypes
<1>2. 200 \in Statuses /\ 400 \in Statuses /\ 500 \in Statuses /\ 502 \in Statuses
  BY StatusCodes
<1>3. ASSUME NEW a, NEW f, Extract(c, a, f)
      PROVE  NLTypes'
  <2> DEFINE at == IF WantEquity(f) THEN "equity" ELSE "chain"
             s == [r EXCEPT !.at = at, !.provider = "", !.spec = f]
  <2>1. UNCHANGED reg /\ calls' = calls /\ r.at = "extract"
    BY <1>3 DEF Extract, Running
  <2>2. Answers(c, 502) \/ Answers(c, 400) \/ Goes(c, s)
    BY <1>3 DEF Extract
  <2>3. at \in {"equity", "chain"} /\ (at = "chain" => ~WantEquity(f))
    OBVIOUS
  <2>4. Typed(s)
    <3> HIDE DEF r, at
    <3>1. s.at = at /\ s.status = r.status /\ s.pairs = r.pairs /\ s.frame = r.frame /\ s.spec = f
      BY <1>1 DEF Fields, Sound
    <3> HIDE DEF s
    <3>2. QED
      BY <1>1, <2>3, <3>1 DEF Typed, Stages
  <2> HIDE DEF s
  <2>5. QED
    BY <1>1, <1>2, <2>1, <2>2, <2>4, AnswersTyped, GoesTyped
<1>4. CASE Check(c)
  <2> DEFINE frame == ToSend(c)
             s == [r EXCEPT !.at = "send", !.frame = frame, !.spec = NoSpec,
                            !.equity = "", !.chain = <<>>, !.gone = {}]
  <2>1. UNCHANGED reg /\ calls' = calls
    BY <1>4 DEF Check, Running
  <2>2. Answers(c, 500) \/ Answers(c, 200) \/ Goes(c, s)
    BY <1>4 DEF Check
  <2>3. Full(Range(frame))
    BY <1>1 DEF ToSend, Range, Restrict, Full, Typed
  <2>4. Typed(s)
    <3> HIDE DEF r, frame
    <3>1. s.at = "send" /\ s.status = r.status /\ s.pairs = r.pairs /\ s.frame = frame
      BY <1>1 DEF Fields, Sound
    <3> HIDE DEF s
    <3>2. QED
      BY <1>1, <2>3, <3>1 DEF Typed, Stages
  <2> HIDE DEF s
  <2>5. QED
    BY <1>1, <1>2, <2>1, <2>2, <2>4, AnswersTyped, GoesTyped
<1>5. CASE SendFails(c)
  <2>1. Answers(c, 500) /\ UNCHANGED reg /\ calls' = calls
    BY <1>5 DEF SendFails, Running
  <2>2. QED
    BY <1>1, <1>2, <2>1, AnswersTyped
<1>6. CASE Commit(c)
  <2> DEFINE ks == Range(r.frame)
  <2>1. /\ calls' = calls
        /\ req' = [d \in Clients |->
                 IF d = c THEN [NoRequest EXCEPT !.status = 200]
                 ELSE IF r.op = "remove" /\ req[d].at = "send" THEN [req[d] EXCEPT !.gone = @ \cup ks]
                 ELSE req[d]]
    BY <1>6 DEF Commit, Running
  <2>2. reg' = (IF r.op = "remove" THEN reg \ ks ELSE reg \cup ks)
    BY <1>6 DEF Commit
  <2>3. Full(ks)
    BY <1>1 DEF Typed
  <2> HIDE DEF r, ks
  <2>4. Full(reg')
    BY <2>2, <2>3 DEF NLTypes, Full
  <2>5. ASSUME NEW d \in Clients
        PROVE  Typed(req'[d])
    <3>1. CASE d = c
      BY <1>2, <2>1, <3>1, AnswerTyped
    <3>2. CASE d # c
      <4> DEFINE s == req[d]
                 t == [s EXCEPT !.gone = @ \cup ks]
      <4>1. Sound(s, reg) /\ Typed(s)
        BY DEF NLInv, NLTypes
      <4>2. req'[d] = s \/ (s.at = "send" /\ req'[d] = t)
        BY <2>1, <3>2
      <4> HIDE DEF s
      <4>3. t.at = s.at /\ t.status = s.status /\ t.pairs = s.pairs /\ t.frame = s.frame
        BY <4>1 DEF Sound, Fields
      <4> HIDE DEF t
      <4>4. s.at = "send" => Typed(t)
        BY <4>1, <4>3 DEF Typed
      <4>5. QED
        BY <4>1, <4>2, <4>4
    <3>3. QED
      BY <3>1, <3>2
  <2>6. QED
    BY <1>1, <2>1, <2>4, <2>5 DEF NLTypes
<1>7. QED
  BY <1>3, <1>4, <1>5, <1>6 DEF Handler

(* The first state. *)
LEMMA InitTyped == NLInit => NLTypes
<1> SUFFICES ASSUME NLInit PROVE NLTypes
  OBVIOUS
<1>1. 0 \in 0..MaxCalls
  <2>1. MaxCalls \in Nat
    BY NLAssumption
  <2>2. QED
    BY <2>1
<1>2. Full({})
  BY DEF Full
<1>3. Typed(NoRequest)
  <2>1. /\ NoRequest.at = "idle" /\ NoRequest.status = 0
        /\ NoRequest.pairs = <<>> /\ NoRequest.frame = <<>>
    BY DEF NoRequest
  <2>2. QED
    BY <2>1, NothingNamed DEF Typed, Stages, Statuses
<1>4. QED
  BY <1>1, <1>2, <1>3 DEF NLInit, NLTypes

(* No pair with an empty event or symbol is ever handed to the manager or  *)
(* registered, whatever the model answers and however much of a chain is   *)
(* missing, if tastytrade names the equities it returns.                   *)
THEOREM NLTypeCorrect ==
    ASSUME \A e \in Equities : e.symbol # ""
    PROVE  NLSpec => []NLTypeOK
<1>1. NLInit => NLTypes
  BY InitTyped
<1>2. NLInv /\ NLTypes /\ [NLNext]_nlVars => NLTypes'
  <2> SUFFICES ASSUME NLInv, NLTypes, [NLNext]_nlVars PROVE NLTypes'
    OBVIOUS
  <2>1. CASE UNCHANGED nlVars
    BY <2>1 DEF nlVars, NLTypes
  <2>2. ASSUME NEW c \in Clients, Request(c) \/ Tastytrade(c) \/ Handler(c) PROVE NLTypes'
    BY <2>2, RequestTyped, TastytradeTyped, HandlerTyped
  <2>3. QED
    BY <2>1, <2>2 DEF NLNext
<1>3. NLTypes => NLTypeOK
  <2> SUFFICES ASSUME NLTypes PROVE NLTypeOK
    OBVIOUS
  <2>1. \A p \in reg \cup UNION {Range(req[c].pairs) : c \in Clients} : p[1] # "" /\ p[2] # ""
    BY DEF NLTypes, Typed, Full
  <2>2. QED
    <3>1. \A c \in Clients : req[c].at \in Stages /\ req[c].status \in Statuses
      BY DEF NLTypes, Typed
    <3>2. calls \in 0..MaxCalls
      BY DEF NLTypes
    <3>3. QED
      BY <2>1, <3>1, <3>2 DEF NLTypeOK, Stages, Statuses
<1>4. QED
  BY <1>1, <1>2, <1>3, NLInvariance, PTL DEF NLSpec

-----------------------------------------------------------------------------
(* The symbols the server starts with.                                     *)

(* The first and the others of a slice that begins with e. *)
LEMMA HeadAndTail ==
    ASSUME NEW S, NEW e \in S, NEW s \in Seq(S)
    PROVE  Head(<<e>> \o s) = e /\ Tail(<<e>> \o s) = s
OBVIOUS

(* Of a chain whose strikes all parse, the first m of its sorted places    *)
(* are the nearest m options.                                              *)
LEMMA FirstAreNearest ==
    ASSUME NEW chain \in Seq(Option), \A i \in DOMAIN chain : chain[i].strike # Bad,
           NEW q \in RelatedOptions(chain), NEW m \in Nat, m <= Len(chain)
    PROVE  \E place \in [1..m -> DOMAIN chain] :
             /\ IsInjective(place)
             /\ \A i \in 1..m :
                  /\ chain[place[i]].sym = chain[q[i]].sym
                  /\ \A j \in DOMAIN chain \ Range(place) :
                       ~RelatedLess(chain[j], chain[place[i]])
<1> DEFINE K == DOMAIN chain
           less == {p \in K \X K : RelatedLess(chain[p[1]], chain[p[2]])}
           place == [i \in 1..m |-> q[i]]
<1>1. /\ K = 1..Len(chain) /\ Len(chain) \in Nat /\ IsFiniteSet(K)
      /\ \A i \in K : chain[i] \in Option
  BY ChainPlaces
<1>2. Cardinality(K) = Len(chain)
  BY ChainPlaces
<1>3. WeakOrder(less, K)
  <2>1. \A a, b \in K : <<a, b>> \in less <=> RelatedLess(chain[a], chain[b])
    OBVIOUS
  <2>2. \A k \in K : chain[k].days \in Nat /\ chain[k].strike \in Nat /\ chain[k].strike # Bad
    BY <1>1 DEF Option
  <2> HIDE DEF less, K
  <2>3. ASSUME NEW a \in K, NEW b \in K, RelatedLess(chain[a], chain[b])
        PROVE  ~RelatedLess(chain[b], chain[a])
    BY <2>2, <2>3 DEF RelatedLess
  <2>4. ASSUME NEW a \in K, NEW b \in K, NEW c \in K, RelatedLess(chain[a], chain[b])
        PROVE  RelatedLess(chain[a], chain[c]) \/ RelatedLess(chain[c], chain[b])
    <3>1. /\ chain[a].days \in Nat /\ chain[a].strike \in Nat /\ chain[a].strike # Bad
          /\ chain[b].days \in Nat /\ chain[b].strike \in Nat /\ chain[b].strike # Bad
          /\ chain[c].days \in Nat /\ chain[c].strike \in Nat /\ chain[c].strike # Bad
      BY <2>2
    <3>2. QED
      BY <2>4, <3>1, SMTT(20) DEF RelatedLess
  <2>5. QED
    BY <2>1, <2>3, <2>4 DEF WeakOrder
<1>4. q \in SortSlice(less, K)
  BY DEF RelatedOptions
<1>5. \A i, j \in K : <<i, j>> \in less <=> RelatedLess(chain[i], chain[j])
  OBVIOUS
<1> HIDE DEF less, K
<1>6. /\ q \in [1..Len(chain) -> K]
      /\ \A i, j \in 1..Len(chain) : i # j => q[i] # q[j]
      /\ \A k \in K : \E i \in 1..Len(chain) : q[i] = k
      /\ \A i, j \in 1..Len(chain) : i < j => <<q[j], q[i]>> \notin less
  BY <1>1, <1>2, <1>3, <1>4, Sorted
<1>7. \A i \in 1..m : i \in 1..Len(chain) /\ place[i] = q[i]
  BY <1>1
<1>8. place \in [1..m -> K] /\ IsInjective(place)
  BY <1>6, <1>7 DEF IsInjective
<1>9. ASSUME NEW i \in 1..m, NEW j \in K \ Range(place)
      PROVE  ~RelatedLess(chain[j], chain[place[i]])
  <2>1. PICK k \in 1..Len(chain) : q[k] = j
    BY <1>6
  <2>2. k \notin 1..m
    BY <1>7, <2>1 DEF Range
  <2>3. i < k
    BY <1>1, <2>2
  <2>4. <<q[k], q[i]>> \notin less /\ q[i] \in K
    BY <1>6, <1>7, <2>3
  <2>5. QED
    BY <1>5, <1>7, <2>1, <2>4
<1> HIDE DEF place
<1>10. QED
  BY <1>7, <1>8, <1>9 DEF K

(* What is resolved came from GetStreamSymbols on some chain, or was given.*)
ResolvedInv ==
    \/ resolved.n = -1
    \/ /\ resolved.n \in Nat /\ resolved.chain \in Seq(Option)
       /\ resolved.syms \in StreamSymbols(resolved.equity, resolved.chain, resolved.n)

(* Only resolveStreamSymbols, StartIngress and a restart change it. *)
LEMMA ResolvedInductive == ResolvedInv /\ [Next]_vars => ResolvedInv'
<1> SUFFICES ASSUME ResolvedInv, [Next]_vars PROVE ResolvedInv'
  OBVIOUS
<1>1. CASE UNCHANGED resolved
  BY <1>1 DEF ResolvedInv
<1>2. NoSymbols.n = -1
  BY DEF NoSymbols
<1>3. CASE resolved' = NoSymbols
  BY <1>2, <1>3 DEF ResolvedInv
<1>4. ASSUME NEW max, NEW given, PlainSymbols(max, given)
      PROVE  ResolvedInv'
  <2>1. [NoSymbols EXCEPT !.syms = given].n = -1
    BY DEF NoSymbols
  <2>2. QED
    BY <1>1, <1>4, <2>1 DEF PlainSymbols, Exit, ResolvedInv
<1>5. ASSUME NEW max \in Int, NEW one, NEW a1, NEW eq, NEW a2, NEW chain \in Seq(Option),
             RelatedSymbols(max, one, a1, eq, a2, chain)
      PROVE  ResolvedInv'
  <2>1. CASE UNCHANGED resolved
    BY <1>1, <2>1
  <2>2. ASSUME max \in Nat, NEW syms \in StreamSymbols(eq.streamer, chain, max),
               resolved' = [syms |-> syms, equity |-> eq.streamer, chain |-> chain, n |-> max]
        PROVE  ResolvedInv'
    <3>1. /\ resolved'.n = max /\ resolved'.chain = chain
          /\ resolved'.syms = syms /\ resolved'.equity = eq.streamer
      BY <2>2
    <3>2. QED
      BY <2>2, <3>1 DEF ResolvedInv
  <2>3. QED
    BY <1>5, <2>1, <2>2 DEF RelatedSymbols, Exit
<1>6. CASE LocalBoot
  BY <1>1, <1>4, <1>6 DEF LocalBoot, RequireFlags, SetupNats, EnsureStream, BuildSink, StartSink,
     RunHTTPServer, BuildLLMRegistry, Exit
<1>7. CASE RemoteBoot
  <2>1. Chains \subseteq Seq(Option) /\ <<>> \in Seq(Option)
    BY SymbologyAssumption
  <2>2. -1..MaxSymbols \subseteq Int /\ 0..1 \subseteq Int
    BY ServerAssumption
  <2>3. CASE \E ok \in BOOLEAN : StartIngress(ok)
    BY <1>3, <2>3 DEF StartIngress
  <2>4. QED
    BY <1>5, <1>7, <2>1, <2>2, <2>3 DEF RemoteBoot
<1>8. CASE Restart
  BY <1>3, <1>8 DEF Restart
<1>9. CASE Tick
  BY <1>1, <1>9 DEF Tick, Process
<1>10. CASE \E email \in {"", "user"}, pwd \in {"secret", "wrong"} : NewBearerToken(email, pwd)
  BY <1>1, <1>10 DEF NewBearerToken, Process
<1>11. CASE \E q \in Callouts : CalloutStep(q) \/ \E t \in issued \cup {Forged, Empty} : Callout(q, t)
  BY <1>1, <1>11 DEF CalloutStep, Callout, Handle, CheckToken, SignAndRespond, Process
<1>12. CASE UNCHANGED vars
  BY <1>1, <1>12 DEF vars
<1>13. QED
  BY <1>6, <1>7, <1>8, <1>9, <1>10, <1>11, <1>12 DEF Next

(* The symbols the server subscribes to at start are the equity and the n  *)
(* nearest options, whatever the chain and n, whenever its strikes parse.  *)
THEOREM NearestAtStart == Spec => []NearestOptions
<1>1. Init => ResolvedInv
  <2>1. NoSymbols.n = -1
    BY DEF NoSymbols
  <2>2. QED
    BY <2>1 DEF Init, ResolvedInv
<1>2. ResolvedInv /\ [Next]_vars => ResolvedInv'
  BY ResolvedInductive
<1>3. ASSUME ResolvedInv PROVE NearestOptions
  <2> DEFINE r == resolved
             chain == resolved.chain
             m == IF r.n < Len(chain) THEN r.n ELSE Len(chain)
             S == {r.equity} \cup STRING
  <2> SUFFICES ASSUME r.n >= 0, \A i \in DOMAIN chain : chain[i].strike # Bad
               PROVE  LET taken == Tail(r.syms)
                      IN  /\ Head(r.syms) = r.equity /\ Len(taken) = m
                          /\ \E place \in [DOMAIN taken -> DOMAIN chain] :
                               /\ IsInjective(place)
                               /\ \A i \in DOMAIN taken :
                                    /\ taken[i] = chain[place[i]].sym
                                    /\ \A j \in DOMAIN chain \ Range(place) :
                                         ~RelatedLess(chain[j], chain[place[i]])
    BY DEF NearestOptions
  <2>1. r.n \in Nat /\ chain \in Seq(Option) /\ r.syms \in StreamSymbols(r.equity, chain, r.n)
    BY <1>3 DEF ResolvedInv
  <2>2. m \in Nat /\ m <= Len(chain)
    BY <2>1
  <2>3. PICK q \in RelatedOptions(chain) :
          r.syms = <<r.equity>> \o [i \in 1..m |-> chain[q[i]].sym]
    BY <2>1 DEF StreamSymbols
  <2> DEFINE s == [i \in 1..m |-> chain[q[i]].sym]
  <2>4. s \in Seq(S)
    <3>1. \A i \in 1..Len(chain) : q[i] \in DOMAIN chain
      <4> DEFINE K == DOMAIN chain
                 less == {p \in K \X K : RelatedLess(chain[p[1]], chain[p[2]])}
      <4>1. q \in SortSlice(less, K)
        BY DEF RelatedOptions
      <4>2. IsFiniteSet(K) /\ K = 1..Len(chain) /\ Len(chain) \in Nat
        BY <2>1, ChainPlaces
      <4>3. Cardinality(K) = Len(chain)
        BY <2>1, ChainPlaces
      <4> HIDE DEF K, less
      <4>4. q \in [1..Len(chain) -> K]
        BY <4>1, <4>2, <4>3, Sorted
      <4>5. QED
        BY <4>4 DEF K
    <3>2. \A i \in 1..m : i \in 1..Len(chain)
      BY <2>1, <2>2
    <3>3. \A k \in DOMAIN chain : chain[k].sym \in STRING
      BY <2>1, ChainPlaces DEF Option
    <3> HIDE DEF m, chain
    <3>4. \A i \in 1..m : chain[q[i]].sym \in S
      BY <3>1, <3>2, <3>3
    <3>5. QED
      BY <2>2, <3>4
  <2> HIDE DEF s
  <2>5. Head(r.syms) = r.equity /\ Tail(r.syms) = s
    BY <2>3, <2>4, HeadAndTail DEF s
  <2>6. DOMAIN s = 1..m /\ Len(s) = m /\ \A i \in 1..m : s[i] = chain[q[i]].sym
    BY <2>2, <2>4 DEF s
  <2> HIDE DEF m, chain
  <2>7. PICK place \in [1..m -> DOMAIN chain] :
          /\ IsInjective(place)
          /\ \A i \in 1..m :
               /\ chain[place[i]].sym = chain[q[i]].sym
               /\ \A j \in DOMAIN chain \ Range(place) : ~RelatedLess(chain[j], chain[place[i]])
    BY <2>1, <2>2, FirstAreNearest
  <2>8. QED
    BY <2>5, <2>6, <2>7
<1>4. QED
  BY <1>1, <1>2, <1>3, PTL DEF Spec

=============================================================================
