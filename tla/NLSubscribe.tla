---------------------------- MODULE NLSubscribe ----------------------------
(***************************************************************************)
(* The HTTP requests that change the subscription set or read symbology:   *)
(* POST /nl-subscribe (http/handlers_nl.go), which asks an LLM provider    *)
(* for a FilterSpec, resolves it with up to two REST calls and hands the   *)
(* pairs to BulkAdd; POST and DELETE /dxlink/subscriptions                 *)
(* (http/handlers_dxlink.go); GET /symbol, GET /option-chain               *)
(* (http/handlers_data.go) and GET /streamer-token.                        *)
(*                                                                         *)
(* The manager's calls are cut where SubscriptionManager drops its lock:   *)
(* the check, and the frame with the commit.                               *)
(***************************************************************************)
EXTENDS Symbology, FiniteSets

CONSTANTS
    Clients,    \* HTTP clients, one request each at a time
    NLClients,  \* the clients that use /nl-subscribe and /symbol
    Providers,  \* the providers a registry may hold
    Default,    \* the registry's default
    Specs,      \* FilterSpecs a model may produce
    Pairs,      \* (event, symbol) pairs of the plain add and remove requests
    MaxCalls    \* bound: requests in one behaviour

ASSUME NLAssumption ==
    /\ NLClients \subseteq Clients
    /\ Default \in Providers /\ Providers \subseteq {"anthropic", "openai", "gemini"}
    /\ Specs \subseteq FilterSpec /\ Pairs \subseteq STRING \X STRING
    /\ MaxCalls \in Nat

VARIABLES
    server,     \* how the server came up: registry, manager, token provider
    reg,        \* the keys of m.state
    req,        \* per client, the request it is waiting on
    calls       \* requests so far

nlVars == <<server, reg, req, calls>>

(* at: where the handler is; op: the operation, or the symbol type of a    *)
(* /symbol request; provider, spec, equity, chain: what /nl-subscribe has  *)
(* so far; pairs: what it hands to the manager, by place (see Subs);       *)
(* frame: what the check left to send; gone: history, pairs removed by     *)
(* other requests since the check; status: of the last answer.             *)
NoSpec == [root |-> "", events |-> <<>>, kind |-> "", expiry |-> NoWindow,
           strike |-> NoWindow, includeEquity |-> FALSE]
NoRequest == [at |-> "idle", op |-> "", provider |-> "", spec |-> NoSpec, equity |-> "",
              chain |-> <<>>, pairs |-> <<>>, frame |-> <<>>, gone |-> {}, status |-> 0]

(* A registry holds the providers with a key, and may be empty; StartIngress*)
(* made the manager or failed; in mock mode there is no TokenProvider.     *)
NLInit ==
    /\ server \in [registry : {{}, Providers}, manager : BOOLEAN, tp : BOOLEAN]
    /\ reg = {}
    /\ req = [c \in Clients |-> NoRequest]
    /\ calls = 0

-----------------------------------------------------------------------------
(* The handler goes on, or answers. *)
Goes(c, r) == req' = [req EXCEPT ![c] = r]
Answers(c, status) == Goes(c, [NoRequest EXCEPT !.status = status])

NewCall(c) ==
    /\ req[c].at = "idle" /\ calls < MaxCalls
    /\ calls' = calls + 1 /\ UNCHANGED <<server, reg>>
Running(c, at) == req[c].at = at /\ UNCHANGED <<server, calls>>

(* The checks of handleNLSubscribe before it calls a provider: a registry, *)
(* a body with a text, a known provider.                                   *)
NLSubscribe(c, body, provider) ==
    LET name == IF provider = "" THEN Default ELSE provider
    IN  /\ NewCall(c)
        /\ IF server.registry = {} THEN Answers(c, 503)
           ELSE IF body # "text" \/ name \notin server.registry THEN Answers(c, 400)
           ELSE Goes(c, [NoRequest EXCEPT !.at = "extract", !.op = "nl", !.provider = name])

(* What a provider's answer may be, and the one its Extract takes: a       *)
(* tool_use block with input; a first choice that is no refusal and has    *)
(* content; a first candidate that was not cut short and has text.  The    *)
(* rest, and a filter that is not JSON, are errors.                        *)
AnthropicUsable == "tool_use with input"
OpenAIUsable == "choice with content"
GeminiUsable == "stopped candidate with text"
UsableAnswer(provider) ==
    CASE provider = "anthropic" -> AnthropicUsable
      [] provider = "openai" -> OpenAIUsable
      [] provider = "gemini" -> GeminiUsable
LLMAnswers == {"no connection", "status", "not json", "no tool_use", "refusal", "blocked",
               "cut candidate", AnthropicUsable, OpenAIUsable, GeminiUsable}

(* Extract, then Resolve's checks before its first lookup. *)
Extract(c, answer, f) ==
    /\ Running(c, "extract") /\ UNCHANGED reg
    /\ IF answer # UsableAnswer(req[c].provider) THEN Answers(c, 502)
       ELSE IF ~SpecValid(f) THEN Answers(c, 400)
       ELSE Goes(c, [req[c] EXCEPT !.at = IF WantEquity(f) THEN "equity" ELSE "chain",
                                   !.provider = "", !.spec = f])

(* EquityStreamerSymbol: the streamer symbol, or the symbol without one. *)
EquityLookup(c, answer, eq) ==
    LET r == [req[c] EXCEPT !.equity = IF eq.streamer = "" THEN eq.symbol ELSE eq.streamer]
    IN  /\ Running(c, "equity") /\ UNCHANGED reg
        /\ IF GetSymbolData("equities", server.tp, answer) # "data" THEN Answers(c, 400)
           ELSE IF ~PureEquity(r.spec) THEN Goes(c, [r EXCEPT !.at = "chain"])
           ELSE \E out \in Resolved(r.spec, r.equity, <<>>) :
                  Goes(c, [r EXCEPT !.at = "check", !.pairs = out])

(* OptionSymbols, then filterOptions. *)
ChainLookup(c, answer, chain) ==
    /\ Running(c, "chain") /\ UNCHANGED reg
    /\ IF GetSymbolData("options", server.tp, answer) # "data" \/ ~WindowsValid(req[c].spec)
         THEN Answers(c, 400)
         ELSE \E out \in Resolved(req[c].spec, req[c].equity, chain) :
                Goes(c, [req[c] EXCEPT !.at = "check", !.chain = chain, !.pairs = out])

(* A batch of one pair: Add and Remove. *)
One(pair) == [s \in {<<0, 1>>} |-> pair]

(* parseMutation: a body without a symbol is refused, a missing event is   *)
(* Quote.                                                                  *)
Mutate(c, op, event, symbol) ==
    /\ NewCall(c)
    /\ IF symbol = "" THEN Answers(c, 400)
       ELSE Goes(c, [NoRequest EXCEPT !.at = "check", !.op = op,
                         !.pairs = One(<<IF event = "" THEN "Quote" ELSE event, symbol>>)])

(* GET /symbol, GET /option-chain and GET /streamer-token *)
SymbolData(c, type) == NewCall(c) /\ Goes(c, [NoRequest EXCEPT !.at = "symbol", !.op = type])
SymbolAnswer(c, answer) ==
    /\ Running(c, "symbol") /\ UNCHANGED reg
    /\ Answers(c, ServiceStatus(
                    CASE req[c].op = "compact" -> GetOptionChain(server.tp, answer)
                      [] req[c].op = "streamer-token" -> FetchStreamerToken(server.tp, answer)
                      [] OTHER -> GetSymbolData(req[c].op, server.tp, answer)))

-----------------------------------------------------------------------------
(* What the check leaves to send: of an add the pairs not yet registered,  *)
(* of a remove the registered ones.  A pair named twice is sent twice.     *)
ToSend(c) ==
    LET pairs == req[c].pairs
    IN  Restrict(pairs, {s \in DOMAIN pairs : pairs[s] \in reg <=> req[c].op = "remove"})

(* Mutant: one registered pair speaks for the batch. *)
CheckFirst(c) ==
    /\ Running(c, "check") /\ UNCHANGED reg
    /\ IF ~server.manager THEN Answers(c, 500)
       ELSE IF \/ DOMAIN ToSend(c) = {}
               \/ req[c].op = "nl" /\ \E s \in DOMAIN req[c].pairs : req[c].pairs[s] \in reg
         THEN Answers(c, 200)
       ELSE Goes(c, [req[c] EXCEPT !.at = "send", !.frame = ToSend(c), !.spec = NoSpec,
                                   !.equity = "", !.chain = <<>>, !.gone = {}])

(* The manager's check under the lock.  Without a manager the call fails;  *)
(* with nothing to send it is done.                                        *)
Check(c) ==
    /\ Running(c, "check") /\ UNCHANGED reg
    /\ IF ~server.manager THEN Answers(c, 500)
       ELSE IF DOMAIN ToSend(c) = {} THEN Answers(c, 200)
       ELSE Goes(c, [req[c] EXCEPT !.at = "send", !.frame = ToSend(c), !.spec = NoSpec,
                                   !.equity = "", !.chain = <<>>, !.gone = {}])

SendFails(c) == Running(c, "send") /\ Answers(c, 500) /\ UNCHANGED reg

(* The frame is written and the call commits. *)
Commit(c) ==
    LET ks == Range(req[c].frame)
        removed == req[c].op = "remove"
    IN  /\ Running(c, "send")
        /\ reg' = IF removed THEN reg \ ks ELSE reg \cup ks
        /\ req' = [d \in Clients |->
                     IF d = c THEN [NoRequest EXCEPT !.status = 200]
                     ELSE IF removed /\ req[d].at = "send" THEN [req[d] EXCEPT !.gone = @ \cup ks]
                     ELSE req[d]]

-----------------------------------------------------------------------------
Request(c) ==
    \/ \E op \in {"add", "remove"}, p \in Pairs : Mutate(c, op, p[1], p[2])
    \/ /\ c \in NLClients
       /\ \/ \E b \in {"not json", "no text"} : NLSubscribe(c, b, "")
          \/ \E p \in Providers \cup {"", "unknown"} : NLSubscribe(c, "text", p)
          \/ \E t \in {"equities", "bonds", "compact", "streamer-token"} : SymbolData(c, t)
Tastytrade(c) ==
    \/ \E a \in RESTAnswers \ {"data"} :
         SymbolAnswer(c, a) \/ EquityLookup(c, a, NoEquity) \/ ChainLookup(c, a, <<>>)
    \/ SymbolAnswer(c, "data")
    \/ req[c].at = "equity" /\ \E eq \in Equities : EquityLookup(c, "data", eq)
    \/ req[c].at = "chain" /\ \E chain \in Chains : ChainLookup(c, "data", chain)
Handler(c) ==
    \/ /\ req[c].at = "extract"
       /\ \/ \E a \in LLMAnswers : Extract(c, a, NoSpec)
          \/ \E f \in Specs : Extract(c, UsableAnswer(req[c].provider), f)
    \/ Check(c) \/ SendFails(c) \/ Commit(c)

NLNext == \E c \in Clients : Request(c) \/ Tastytrade(c) \/ Handler(c)

NLSpec == NLInit /\ [][NLNext]_nlVars

-----------------------------------------------------------------------------
(* Types of the variables: no registered or requested pair has an empty    *)
(* part, whatever the model answered and however much of an option chain   *)
(* is missing, as long as tastytrade names every equity it returns.        *)
NLTypeOK ==
    /\ calls \in 0..MaxCalls
    /\ \A p \in reg \cup UNION {Range(req[c].pairs) : c \in Clients} : p[1] # "" /\ p[2] # ""
    /\ \A c \in Clients :
         /\ req[c].at \in {"idle", "extract", "equity", "chain", "symbol", "check", "send"}
         /\ req[c].status \in {0, 200, 400, 500, 502, 503}

(* The reference for Resolve: the pairs a FilterSpec asks for, by what     *)
(* provider.go says of its fields.  An empty kind asks for no options      *)
(* (line 54, and the schema's line 127) and then for the equity (lines     *)
(* 67-69); windows are inclusive (lines 59-65).                            *)
Wanted(f, equity, chain) ==
    LET options == {o \in Range(chain) :
                      /\ f.kind # ""
                      /\ f.kind = "call" => o.kind = "C"
                      /\ f.kind = "put" => o.kind = "P"
                      /\ f.expiry # NoWindow => o.exp \in (f.expiry.min..f.expiry.max) \ {Bad}
                      /\ f.strike # NoWindow => o.strike \in (f.strike.min..f.strike.max) \ {Bad}}
        syms == (IF f.kind = "" \/ f.includeEquity THEN {equity} ELSE {})
                \cup ({o.sym : o \in options} \ {""})
    IN  (IF f.events = <<>> THEN {"Quote"} ELSE Range(f.events)) \X syms

(* What /nl-subscribe hands to BulkAdd, and echoes, is what its FilterSpec *)
(* is documented to ask for.                                               *)
Resolves(c) ==
    (req[c].at = "check" /\ req[c].op = "nl") =>
        Range(req[c].pairs) = Wanted(req[c].spec, req[c].equity, req[c].chain)
ResolvesDocumented == \A c \in Clients : Resolves(c)

(* It is so, whatever the chain holds (malformed dates and strikes,        *)
(* missing streamer symbols) and however the windows fall on it, unless    *)
(* the kind is empty and there is a window: Resolve then takes the options *)
(* in the window, and the equity only if asked (resolver.go:76, 88).       *)
WindowOnly(f) == f.kind = "" /\ ~PureEquity(f)
ResolvesWanted == \A c \in Clients : WindowOnly(req[c].spec) \/ Resolves(c)

(* A FilterSpec that repeats no event, on a chain that repeats no symbol,  *)
(* puts no pair into the frame twice; BulkAdd does not remove repetitions  *)
(* (subscriptions.go:114), and dxLink refuses a duplicate subscription.    *)
FrameDistinct ==
    \A c \in Clients :
        LET r == req[c]
            named == {i \in DOMAIN r.chain : r.chain[i].sym # ""}
        IN  (/\ r.at = "check" /\ IsInjective(r.spec.events)
             /\ \A i, j \in named : i # j => r.chain[i].sym # r.chain[j].sym
             /\ \A i \in named : r.chain[i].sym # r.equity) => IsInjective(ToSend(c))

(* A request answered 200 has what it asked for: every pair of an add is   *)
(* registered, unless another request removed it between this one's check  *)
(* and its commit.                                                         *)
AppliedIsRegistered ==
    [][\A c \in Clients :
         (req[c].at \in {"check", "send"} /\ req'[c].at = "idle" /\ req'[c].status = 200
            /\ req[c].op # "remove") =>
             Range(req[c].pairs) \ req[c].gone \subseteq reg']_nlVars

=============================================================================
