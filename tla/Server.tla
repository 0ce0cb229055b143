------------------------------- MODULE Server -------------------------------
(***************************************************************************)
(* The godxfeed process: serve_http's start, step by step                  *)
(* (cmd/godxfeed/services.go), the NATS auth callout it answers meanwhile  *)
(* (service/nats_auth_service.go), the bearer tokens of its HTTP server    *)
(* (http/handlers_tokens.go, middleware.go) and the command that writes    *)
(* one into an env file (cmd/godxfeed/admin.go).                           *)
(*                                                                         *)
(* The callout is registered long before the HTTP server it asks listens,  *)
(* and its handler runs on the NATS connection's goroutine, one request    *)
(* at a time; a panic there ends the process.                              *)
(***************************************************************************)
EXTENDS Symbology, FiniteSets

CONSTANTS
    Callouts,     \* auth requests of the NATS server
    MaxSymbols,   \* bound: --max-symbol-count
    NSinks,       \* how many --analytic-sink are given
    TTL,          \* lifetime of a bearer token (two weeks)
    MaxTime,      \* bound: clock ticks
    MaxTokens,    \* bound: bearer tokens issued
    MaxRestarts   \* bound: restarts by the process supervisor

ASSUME ServerAssumption ==
    /\ MaxSymbols \in Nat /\ NSinks \in Nat /\ TTL \in Nat \ {0}
    /\ MaxTime \in Nat /\ MaxTokens \in Nat /\ MaxRestarts \in Nat

VARIABLES
    boot,       \* how far serve_http is, or how the process ended
    cfg,        \* --minimal-setup and --dxfeed-url (mock mode)
    resolved,   \* what resolveStreamSymbols computed, with its inputs
    sinks,      \* the sinks built: how many are starting, running and failed
    ingress,    \* what came of StartIngress
    llm,        \* the registry of LLM providers
    time,       \* the wall clock
    issued,     \* bearer tokens signed with SERVER_SECRET_KEY
    env,        \* AUTH_TOKEN in the env file
    auth,       \* per callout: where Handle is, and what it answered
    restarts

vars == <<boot, cfg, resolved, sinks, ingress, llm, time, issued, env, auth, restarts>>

BootSteps == {"flags", "nats", "symbols", "stream", "sinks", "ingress", "llm", "http"}
Ended == {"exited", "crashed"}
CalloutUp == ~cfg.minimal /\ boot \notin {"flags", "nats"} \cup Ended

NoSymbols == [syms |-> <<>>, equity |-> "", chain |-> <<>>, n |-> -1]
NoRegistry == [providers |-> {}, default |-> ""]
Empty == [id |-> 0, exp |-> 0]      \* AUTH_TOKEN= without a value
Forged == [id |-> -1, exp |-> 0]    \* a token of another issuer
NoSinks == [starting |-> 0, running |-> 0, failed |-> 0]
Built == sinks.starting + sinks.running + sinks.failed

(* at: where the request is; up: history, whether the HTTP server listened *)
(* when it came; checked: when its token was; why: what it was denied for; *)
(* answers: how often it was answered.                                     *)
NoCallout == [at |-> "none", token |-> Empty, up |-> FALSE, checked |-> 0, why |-> "", answers |-> 0]

Init ==
    /\ boot = "flags"
    /\ cfg \in [minimal : BOOLEAN, mock : BOOLEAN]
    /\ resolved = NoSymbols /\ sinks = NoSinks /\ ingress = "not tried" /\ llm = NoRegistry
    /\ time = 0 /\ issued = {} /\ env = Empty /\ restarts = 0
    /\ auth = [q \in Callouts |-> NoCallout]

-----------------------------------------------------------------------------
Others == <<cfg, time, issued, env, auth, restarts>>
BootAt(step, next) == boot = step /\ boot' = next

(* Any step of the start that fails makes serve_http return its error. *)
Exit(step) ==
    /\ BootAt(step, "exited")
    /\ UNCHANGED <<resolved, sinks, ingress, llm>> /\ UNCHANGED Others

(* requireFlags, and the OAuth configuration, which has what it checks.    *)
(* A minimal setup goes without NATS.                                      *)
RequireFlags(ok) ==
    IF ~ok THEN Exit("flags")
    ELSE /\ BootAt("flags", IF cfg.minimal THEN "symbols" ELSE "nats")
         /\ UNCHANGED <<resolved, sinks, ingress, llm>> /\ UNCHANGED Others

(* SetupNatsWithAuthCallout: two connections, the nkey and, last, the      *)
(* callout service.                                                        *)
SetupNats(ok) ==
    IF ~ok THEN Exit("nats")
    ELSE /\ BootAt("nats", "symbols")
         /\ UNCHANGED <<resolved, sinks, ingress, llm>> /\ UNCHANGED Others

AfterSymbols == IF cfg.minimal THEN "llm" ELSE "stream"

(* resolveStreamSymbols with the default method: the symbols as given. *)
PlainSymbols(max, given) ==
    IF max < 0 THEN Exit("symbols")
    ELSE /\ BootAt("symbols", AfterSymbols)
         /\ resolved' = [NoSymbols EXCEPT !.syms = given]
         /\ UNCHANGED <<sinks, ingress, llm>> /\ UNCHANGED Others

(* With n-related: GetStreamSymbols, for exactly one symbol.  The options  *)
(* are looked up only when some are asked for; mock mode has no token for  *)
(* either lookup.                                                          *)
RelatedSymbols(max, one, a1, eq, a2, chain) ==
    IF \/ max < 0 \/ ~one
       \/ GetSymbolData("equities", ~cfg.mock, a1) # "data"
       \/ max > 0 /\ GetSymbolData("options", ~cfg.mock, a2) # "data"
    THEN Exit("symbols")
    ELSE /\ BootAt("symbols", AfterSymbols)
         /\ \E syms \in StreamSymbols(eq.streamer, chain, max) :
              resolved' = [syms |-> syms, equity |-> eq.streamer, chain |-> chain, n |-> max]
         /\ UNCHANGED <<sinks, ingress, llm>> /\ UNCHANGED Others

(* EnsureQuotesStream: a failure is logged. *)
EnsureStream(ok) ==
    /\ BootAt("stream", "sinks")
    /\ UNCHANGED <<resolved, sinks, ingress, llm>> /\ UNCHANGED Others

(* analytics.Build for the next DSN: a known scheme, a pool, a database    *)
(* that answers the ping.  The sink is then left to its own goroutine.     *)
BuildSink(ok) ==
    IF Built < NSinks /\ ~ok THEN Exit("sinks")
    ELSE /\ boot = "sinks"
         /\ IF Built = NSinks THEN boot' = "ingress" /\ sinks' = sinks
            ELSE UNCHANGED boot /\ sinks' = [sinks EXCEPT !.starting = @ + 1]
         /\ UNCHANGED <<resolved, ingress, llm>> /\ UNCHANGED Others

(* There Start subscribes and runs, or fails, which is logged; the start   *)
(* of the process does not wait for it.                                    *)
StartSink(ok) ==
    /\ sinks.starting > 0 /\ boot \notin Ended
    /\ sinks' = [starting |-> sinks.starting - 1,
                 running |-> sinks.running + IF ok THEN 1 ELSE 0,
                 failed |-> sinks.failed + IF ok THEN 0 ELSE 1]
    /\ UNCHANGED <<boot, resolved, ingress, llm>> /\ UNCHANGED Others

(* StartIngress takes the symbols over; its failure is logged, and nobody  *)
(* calls it again.                                                         *)
StartIngress(ok) ==
    /\ BootAt("ingress", "llm")
    /\ ingress' = IF ok THEN "started" ELSE "failed"
    /\ resolved' = NoSymbols
    /\ UNCHANGED <<sinks, llm>> /\ UNCHANGED Others

(* Mutant: the wanted default is taken whether it is registered or not. *)
DefaultUnregistered(keys, want) ==
    IF keys # {} /\ want # "" THEN want
    ELSE IF "anthropic" \in keys THEN "anthropic"
    ELSE IF "openai" \in keys THEN "openai"
    ELSE IF "gemini" \in keys THEN "gemini" ELSE ""

(* The default of buildLLMRegistry. *)
DefaultProvider(keys, want) ==
    IF want \in keys THEN want
    ELSE IF "anthropic" \in keys THEN "anthropic"
    ELSE IF "openai" \in keys THEN "openai"
    ELSE IF "gemini" \in keys THEN "gemini" ELSE ""

BuildLLMRegistry(keys, want) ==
    /\ BootAt("llm", "http")
    /\ llm' = [providers |-> keys, default |-> DefaultProvider(keys, want)]
    /\ UNCHANGED <<resolved, sinks, ingress>> /\ UNCHANGED Others

(* RunHTTPServer: templates, routes, ListenAndServe. *)
RunHTTPServer(ok) ==
    IF ~ok THEN Exit("http")
    ELSE /\ BootAt("http", "listening")
         /\ UNCHANGED <<resolved, sinks, ingress, llm>> /\ UNCHANGED Others

(* The supervisor of the process starts it again; requests under way are   *)
(* lost and time out in the NATS server, tokens stay good.                 *)
Restart ==
    /\ boot \in Ended /\ restarts < MaxRestarts
    /\ boot' = "flags" /\ restarts' = restarts + 1
    /\ resolved' = NoSymbols /\ sinks' = NoSinks /\ ingress' = "not tried" /\ llm' = NoRegistry
    /\ auth' = [q \in Callouts |-> IF auth[q].at \in {"queued", "http", "sign"}
                                     THEN [auth[q] EXCEPT !.at = "lost"] ELSE auth[q]]
    /\ UNCHANGED <<cfg, time, issued, env>>

-----------------------------------------------------------------------------
Process == <<boot, cfg, resolved, sinks, ingress, llm, restarts>>

Tick == time < MaxTime /\ time' = time + 1 /\ UNCHANGED <<issued, env, auth>> /\ UNCHANGED Process

(* Mutant: the expiry of a token is not looked at. *)
AuthorizedForever(token) == token \in issued

(* bearerAuthorizerCtxSetToken *)
Authorized(token) == token \in issued /\ time < token.exp

(* basicAuthorizerCtxSetEmail: an e-mail and the secret key. *)
BasicAuthorized(email, pwd) == email # "" /\ pwd = "secret"

(* createBearerToken *)
NewToken == [id |-> Cardinality(issued) + 1, exp |-> time + TTL]

(* new_bearer_token with an env file: POST /token, whose status is not     *)
(* looked at: a refusal is JSON without a token, and AUTH_TOKEN becomes    *)
(* empty.  Without a server the command fails before it writes.            *)
NewBearerToken(email, pwd) ==
    /\ boot = "listening"
    /\ BasicAuthorized(email, pwd) => Cardinality(issued) < MaxTokens
    /\ IF BasicAuthorized(email, pwd)
         THEN issued' = issued \cup {NewToken} /\ env' = NewToken
         ELSE env' = Empty /\ UNCHANGED issued
    /\ UNCHANGED <<time, auth>> /\ UNCHANGED Process

-----------------------------------------------------------------------------
AuthStep(q, r) == auth' = [auth EXCEPT ![q] = r] /\ UNCHANGED <<time, issued, env>>

(* The NATS server sends a connection's token to $SYS.REQ.USER.AUTH. *)
Callout(q, token) ==
    /\ CalloutUp /\ auth[q].at = "none"
    /\ AuthStep(q, [NoCallout EXCEPT !.at = "queued", !.token = token, !.up = (boot = "listening")])
    /\ UNCHANGED Process

Idle == \A q \in Callouts : auth[q].at \notin {"http", "sign"}

(* Handle decodes the request.  After an error it answers and goes on with *)
(* the nil claims, which ends the process.                                 *)
Handle(q, decodes) ==
    /\ auth[q].at = "queued" /\ Idle /\ boot \notin Ended
    /\ AuthStep(q, [auth[q] EXCEPT !.at = IF decodes THEN "http" ELSE "error",
                                   !.answers = IF decodes THEN @ ELSE @ + 1])
    /\ boot' = IF decodes THEN boot ELSE "crashed"
    /\ UNCHANGED <<cfg, resolved, sinks, ingress, llm, restarts>>

Denied(r, why) == [r EXCEPT !.at = "denied", !.why = why, !.answers = @ + 1]

(* The request to /nats-auth-callout on localhost is refused until the     *)
(* HTTP server listens.  Then the exchange may still fail; the answer is   *)
(* 200 or 401; and after a 200 the e-mail may not be readable in the       *)
(* token's payload.                                                        *)
CheckToken(q, fault) ==
    /\ auth[q].at = "http" /\ boot \notin Ended
    /\ LET r == [auth[q] EXCEPT !.checked = time]
       IN  AuthStep(q, IF boot # "listening" THEN Denied(r, "no server")
                       ELSE IF fault = "exchange" THEN Denied(r, fault)
                       ELSE IF ~Authorized(r.token) THEN Denied(r, "401")
                       ELSE IF fault = "payload" THEN Denied(r, fault)
                       ELSE [r EXCEPT !.at = "sign"])
    /\ UNCHANGED Process

(* ValidateAndSign and Respond: the claims for the e-mail are signed and   *)
(* sent, or they do not validate or cannot be encoded, and the error is.   *)
SignAndRespond(q, ok) ==
    /\ auth[q].at = "sign" /\ boot \notin Ended
    /\ AuthStep(q, IF ok THEN [auth[q] EXCEPT !.at = "granted", !.answers = @ + 1]
                   ELSE Denied(auth[q], "sign"))
    /\ UNCHANGED Process

-----------------------------------------------------------------------------
(* The steps of the start, without and with tastytrade or dxLink. *)
LocalBoot ==
    \/ \E ok \in BOOLEAN : RequireFlags(ok) \/ SetupNats(ok) \/ EnsureStream(ok)
                            \/ BuildSink(ok) \/ StartSink(ok) \/ RunHTTPServer(ok)
    \/ \E keys \in {{}, {"openai"}, {"openai", "gemini"}}, want \in {"", "gemini"} :
         BuildLLMRegistry(keys, want)
    \/ \E max \in {-1, 0}, given \in {<<>>, <<"SPY">>} : PlainSymbols(max, given)
RemoteBoot ==
    \/ /\ boot = "symbols"
       /\ \/ \E max \in -1..MaxSymbols, one \in BOOLEAN, eq \in Equities, chain \in Chains :
               RelatedSymbols(max, one, "data", eq, "data", chain)
          \/ \E a \in RESTAnswers \ {"data"}, max \in 0..1 :
               \/ RelatedSymbols(max, TRUE, a, NoEquity, "data", <<>>)
               \/ RelatedSymbols(max, TRUE, "data", NoEquity, a, <<>>)
    \/ \E ok \in BOOLEAN : StartIngress(ok)
CalloutStep(q) == \/ \E ok \in BOOLEAN : Handle(q, ok) \/ SignAndRespond(q, ok)
                  \/ \E fault \in {"", "exchange", "payload"} : CheckToken(q, fault)

Next ==
    \/ LocalBoot \/ RemoteBoot \/ Restart \/ Tick
    \/ \E email \in {"", "user"}, pwd \in {"secret", "wrong"} : NewBearerToken(email, pwd)
    \/ \E q \in Callouts : CalloutStep(q) \/ \E t \in issued \cup {Forged, Empty} : Callout(q, t)

Spec == Init /\ [][Next]_vars

-----------------------------------------------------------------------------
(* Types of the variables. *)
TypeOK ==
    /\ boot \in BootSteps \cup Ended \cup {"listening"}
    /\ sinks \in [starting : Nat, running : Nat, failed : Nat] /\ Built <= NSinks
    /\ ingress \in {"not tried", "started", "failed"}
    /\ time \in 0..MaxTime /\ Cardinality(issued) <= MaxTokens /\ env \in issued \cup {Empty}
    /\ \A q \in Callouts : /\ auth[q].at \in {"none", "queued", "http", "sign", "granted", "denied", "error", "lost"}
                           /\ auth[q].token \in issued \cup {Forged, Empty}

(* A NATS user is granted only for a token that this server's key signed,  *)
(* in this run of the process or an earlier one, and that had not expired  *)
(* when it was checked.  A good token is never answered 401, and the       *)
(* window in which the callout answers and the HTTP server does not listen *)
(* closes for good: a request that comes once it listens is not refused    *)
(* for want of it, whatever is queued before it.  What is left to refuse a *)
(* good token is a failed exchange, payload or signature.  A request is    *)
(* answered at most once, the undecodable one included.                    *)
CalloutHonest ==
    \A q \in Callouts :
        LET r == auth[q]
            good == r.token \in issued /\ r.checked < r.token.exp
        IN  /\ r.at = "granted" => good
            /\ r.at = "denied" /\ good => r.why # "401"
            /\ r.at = "denied" /\ r.up => r.why # "no server"
            /\ r.answers = IF r.at \in {"granted", "denied", "error"} THEN 1 ELSE 0

(* The server serves only after a whole start: with NATS, every configured *)
(* sink was built and is starting, running or has failed on its own, and   *)
(* the ingress has been tried; and /nl-subscribe without a provider finds  *)
(* one ("there's always *some* usable default when at least one key is     *)
(* configured", services.go:192-193).                                      *)
ServesWhole ==
    boot = "listening" =>
        /\ ~cfg.minimal => Built = NSinks /\ ingress # "not tried"
        /\ llm.providers # {} => llm.default \in llm.providers

(* The initial subscriptions of n-related are the equity and the n options *)
(* nearest in expiry, then in strike, whenever every strike parses; fewer  *)
(* when the chain is shorter.  An equity or an option without a streamer   *)
(* symbol is kept as an empty symbol.                                      *)
NearestOptions ==
    LET r == resolved
        taken == Tail(r.syms)
    IN  (r.n >= 0 /\ \A i \in DOMAIN r.chain : r.chain[i].strike # Bad) =>
            /\ Head(r.syms) = r.equity
            /\ Len(taken) = IF r.n < Len(r.chain) THEN r.n ELSE Len(r.chain)
            /\ \E place \in [DOMAIN taken -> DOMAIN r.chain] :
                 /\ IsInjective(place)
                 /\ \A i \in DOMAIN taken :
                      /\ taken[i] = r.chain[place[i]].sym
                      /\ \A j \in DOMAIN r.chain \ Range(place) :
                           ~RelatedLess(r.chain[j], r.chain[place[i]])

=============================================================================
