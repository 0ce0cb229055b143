# A TLA+ model of godxfeed

godxfeed keeps one websocket to dxLink open, publishes what comes in on NATS,
stores the quotes, and lets an HTTP API change the set of subscribed (event,
symbol) pairs while the feed runs. This directory models the parts of it whose
correctness depends on the order of steps of several goroutines, on connections
and requests that fail, on malformed input and on time. TLC checks the modules
on small instances; TLAPS proves every safety property the passing runs check
for every value of their constants.

## 1. Inventory

| Part | State | Operations | Talks to | Module |
|---|---|---|---|---|
| dxLink client, `dxclient/client.go` | handler map, egress channel, `done`, wait group, feed channel id | Dial, Authenticate, OpenFeed, UpdateSubscription, Send, C, Wait; loops readForever, writeForever; keepalive ticker | dxLink server; ingress loop, callers of Send | `DxClient` |
| subscription manager, `service/subscriptions.go` | `fc`, map key -> counters | Add, BulkAdd, Remove, Observe, Rebind, Snapshot | client, HTTP handlers, ingress loop, supervisor | `SubscriptionManager`, `Traffic` |
| ingress supervisor, `service/service.go`, `service/backoff.go` | `dxClient`, `dxClientCancel`, `subs`, `dxStatus` under `dxMu` | StartIngress, ingressWithReconnect, reconnectWithBackoff, dialAndSubscribe, status and subscription wrappers | client, manager, token provider | `Ingress`, `FeedStatus` |
| feed parsing and publishing, `service/ingress.go`, runIngressLoop | none | FeedEvents, parseFeedData, SubjectFor | NATS, manager (Observe) | `Feed` |
| analytic sinks, `service/analytics` | NATS subscription, pool | Build, Start, the callback | NATS, TimescaleDB | `Feed`, `Server` |
| token provider, `service/oauth.go` | cached token and its expiry, singleflight group | AccessToken, refresh | OAuth endpoint | `TokenProvider` |
| tastytrade REST, `service/service.go`, `service/streamer_token.go` | none | GetSymbolData, GetOptionChain, GetRelatedOptionSymbols, GetStreamSymbols, FetchStreamerToken | tastytrade | `Symbology` |
| natural-language resolver, `service/llm` | none | Extract of three providers, Resolve, filterOptions | LLM providers, REST | `Symbology`, `NLSubscribe` |
| HTTP server, `http` | the handler captured by apiMode | handlers, middleware | service | `Middleware`, `NLSubscribe`, `Server` |
| NATS auth callout, `service/nats_auth_service.go` | key pair | Handle, ValidateAndSign, Respond | NATS, the HTTP server | `Server` |
| command line, `cmd/godxfeed` | env file | serve_http, new_bearer_token, data commands | everything | `Server` |
| JetStream setup, `service/jetstream.go` | none | EnsureQuotesStream | NATS | `Server` |
| synthetic dxLink `tools/synth`, analytics sidecar `tools/analytics`, browser UI `http/static/js`, mock server, generated database code | - | - | - | none |

What is hard here: every mutating method of the manager drops its lock around
the wire call; the client is a web of goroutines joined by unbuffered channels,
with handlers that block the dispatch loop; a reconnect swaps the transport
under calls in flight; the handshake runs under the lock the API handlers need;
counters are read and written one atomic at a time; requests of a route share a
variable of the middleware; the auth callout answers before the server it asks
listens; tokens expire while responses travel. `PROJECT.json` lists the main hazards
at their lines with the properties that would catch them.

## 2. Modules

| Module | Models | Proofs |
|---|---|---|
| `SubscriptionManager` | the manager, its callers, Observe, Rebind, connections as numbered wires | `SubscriptionManager_proofs` |
| `Traffic` | the atomics of an entry: Observe and Snapshot step by step, against Add and Remove | `Traffic_proofs` |
| `DxClient` | one client, goroutine by goroutine, with the service driving it | `DxClient_proofs` |
| `FeedStatus` | abstract: what GET /dxlink/status may show over time | - |
| `Ingress` | StartIngress, the reconnect supervisor, dxMu, status, backoff; implements FeedStatus | `Ingress_proofs` |
| `Feed` | from a dxLink message to published events and database rows | `Feed_proofs` |
| `TokenProvider` | the token cache, singleflight, a clock, the endpoint | `TokenProvider_proofs` |
| `Symbology` | pure operators: REST answers, the resolver, the related options | `Server_proofs` |
| `NLSubscribe` | the HTTP requests that change the subscription set or read symbology | `Server_proofs` |
| `Middleware` | apiMode's assignments of the captured handler, the authorizers | `Middleware_proofs` |
| `Server` | the start of the process, the auth callout, bearer tokens, the env file | `Server_proofs` |

`MC*` modules extend them for TLC; each `.cfg` is one run. Operators commented
as "Mutant" are not part of any specification: each is a faulty version of the
definition that follows it, kept to show that the properties can fail.

How they fit together: `Server` starts `Ingress`, which drives `DxClient` and
hands its stream to the loop of `Feed`; that loop counts in `Traffic`.
`NLSubscribe` runs inside `Middleware` and calls `SubscriptionManager`, which
sends on the client `Ingress` has bound; `Symbology` is used by `NLSubscribe`
and `Server`. Each module keeps of its neighbours what they can do to it: the
client is up, cancelled or lost in `Ingress`; a connection is open, dying,
cancelled or dead in `SubscriptionManager`; the manager is a check and a commit
in `NLSubscribe`.

**SubscriptionManager.** A call is four steps: the check under `m.mu`
(`BeginAdd`, `BeginRemove`), the unlocked read of `m.fc` (`LoadController`),
the frame (`SendOK`, `SendErr`) and the commit (`CommitAdd`, `CommitRemove`).
`Add` is `BulkAdd` of one key. `Observe` is two steps, Rebind is the swap under
the lock and then its frame. A connection is open, dying (its done channel is
closed, the writer may still take a frame that goes nowhere), cancelled or
dead. `raced` is a history variable: the keys whose last change overlapped
another call or a Rebind.

**Traffic.** `Publish` is the ingress loop accepting an event; Observe then
looks the entry up under the read lock and writes its three atomics in three
steps. An Observe whose entry is removed meanwhile writes where nobody looks.
Snapshot holds the read lock, so registrations wait for it, and Observe does
not.

**DxClient.** Channel operations are rendezvous, one action for both sides.
`main` is dialAndSubscribe: five stages (SETUP, AUTH, CHANNEL_REQUEST,
FEED_SETUP, the replayed FEED_SUBSCRIPTION), each registering a handler,
sending, and waiting. The handlers run one goroutine each per message, and the
dispatch loop waits for them. A select that finds several cases ready takes any
of them. A panic ends the process. The server is external: it answers each
handshake frame, may or may not send the unsolicited UNAUTHORIZED after SETUP,
accepts or rejects the token, and pushes FEED_DATA once subscribed. The failure
of the websocket dial itself is a failed attempt of Ingress.

**Ingress and FeedStatus.** dialAndSubscribe is cut where another goroutine can
see the difference: entry (the old client is cancelled), the swap of the
manager's controller, and the end, successful or not. Clients are names that
are reused when nothing refers to them. Dial and Wait may block for ever, which
DxClient shows they may: `dial` is then "hung", and no fairness makes Wait
return. A hung Dial also stands for the requests of the streamer token inside
dialAndSubscribe, which have no timeout. StartIngress is called with initial
symbols or without. FeedStatus has the status record and the context and nothing
else; the refinement mapping is `shown <- status`, with `StatusSafety` for its
initial states and steps and `StatusRefines` for its fairness. The context the
service is given may be cancelled (`Cancel`): that is the contract of
StartIngress and of the sinks.
In the process as it is shipped it is context.Background() and never is, so no
hazard rests on it; `ShutdownCompletes` checks the contract.

**Feed.** An element of a FEED_DATA array is its event type, symbol and price,
each possibly malformed; the NaN replacement, the header decoding and the
subject are operators on them. The events of a message are the positions of its
elements, and the loop publishes the first one left (`todo`); the sink's
callback takes one message at a time, and teardown is the two deferred calls in
their order. That NATS matches no subscription with a subject that has an empty
token is external.

**TokenProvider.** The clock is a counter; a token is the time at which the
endpoint stops accepting it. The endpoint answers late, never, or with a
failure; expires_in may be missing. The provider's clock and the endpoint's run alike.

**Symbology and NLSubscribe.** An option has an expiry, a number of days, a
strike, a kind and a streamer symbol; a number that does not parse is `Bad`.
`Resolved` is Resolve with the answers it got; `Wanted`, written with sets and
quantifiers from the comments of FilterSpec (provider.go:44-70), is what it is
checked against. An equity lookup that answers `data: null` decodes without an
error to an equity without a name (`NoEquity`). sort.Slice is not stable: `SortSlice`
is the set of its possible outcomes, every arrangement of the places of the
slice in which none stands after one it is less than, and any arrangement at all
when the comparison is no weak order, as that of GetRelatedOptionSymbols is when
a strike does not parse. So FilterOptions, Resolved, RelatedOptions and
StreamSymbols are sets too, and an action takes one of their members. The result
of Resolve is a function on places <<k, e>>, the k-th symbol (the equity is 0)
with the e-th event, so that a repeated pair stays repeated. A request of
NLSubscribe stops where it waits: for the provider, for tastytrade, or between
the manager's check and its commit.

**Middleware.** `next` is the sequence of wrappers around the handler,
innermost first. Each of apiMode's four lines is a read and, for the first
three, an assignment; requests interleave between them, which is the data race
the code has, with the values Go's pointer-sized assignments can produce.

**Server.** `boot` is the step serve_http is at. A sink is built by the start
(`BuildSink`, whose failure ends it) and then starts in its own goroutine
(`StartSink`), where it runs or fails without anybody noticing but the log. The
callout runs on one goroutine beside the start from `SetupNats` on. Its check
fails when nobody listens, in the exchange, with a 401 or on the token's
payload (`CheckToken`), and its claims may not validate or encode
(`SignAndRespond`); a refusal keeps its reason (`why`), and `up` records whether
the server listened when the request came. A token is an id and an expiry; the
process may be restarted, and tokens of the one before stay good because the
key is the same.

## 3. Runs

Passing runs:

| Run | Question | Instance |
|---|---|---|
| `manager` | Is the set in step with the wire outside races, do counters survive, is any frame redundant? | 2 keys, 2 callers, 3 connections |
| `traffic` | Does a counter follow what was published, what can a Snapshot show? | 2 keys, all interleavings of Observe, Snapshot, Add and Remove |
| `client` | Handshake order, meaning of a nil error, order of delivery | 1 caller beside main and keepalive, 3 FEED_DATA |
| `client_live` | Is every death noticed, does every Send return, does the handshake end, do the loops drain? | main and keepalive send, 1 FEED_DATA |
| `ingress` | Leaks, honest status, visible attempts, bounded delays; does it implement FeedStatus; outside of hangs, does it reconnect, report a loss, answer readers? | 8 attempts, one past the cap of the shift, with and without initial symbols |
| `feed` | Which batches are published, in which order, does shutdown end? | 2 messages of up to 2 elements out of 6, quotes, greeks, an option, malformed ones |
| `token` | Is a cached token alive, is a refresh needed, does a call return? | 3 callers, lifetimes 2, 4 (default) and 5 with skew 2, 9 ticks |
| `nl_subscribe` | Is what a filter asks for what is registered, is a pair sent twice, does a 200 mean registered? | 2 clients, 3 requests, 32 filters, 2 chains with malformed entries |
| `middleware` | What does a request lose to the others, how does the chain grow? | 3 requests of one route |
| `server` | Is a callout granted rightly, does the server serve only after a whole start, which options does it start with? | 2 callouts, 2 sinks, 1 restart, 3 chains: one with a strike that does not parse, one with two empty symbols |

Two runs end in a counterexample, each a disagreement between the code and a
comment (quoted under "findings"):

- `lockstep_callers` (`Lockstep`): an Add and a Remove of one key are in flight
  together, with the frames in one order and the commits in the other.
- `empty_kind` (`ResolvesDocumented`; provider.go:54, 127): a filter with an
  empty kind and a window resolves to options, and not to the equity unless it
  is asked for (resolver.go:76, 88).

Where a promise of the documentation does not hold without exception, the
property names the exceptions, and TLC shows that there are no others:

- *The loops of a cancelled client exit* (`Drains`; TODO.md:205 promises clean
  teardown). Two things keep one for ever. `AckOrphaned`: the writer sends its
  acknowledgement to a Send that has left through c.done (client.go:346), so
  Wait never returns and the supervisor never reconnects (service.go:503).
  `ReportOrphaned`: a handler reports on an unbuffered channel to a waiter that
  has left (client.go:599), and the dispatch loop waits for the handler.
- *The handshake ends when the connection dies* (`AttemptEnds`; client.go:103).
  Dial waits for the SETUP reply alone (client.go:150). The supervisor then
  holds dxMu, and every status and subscription request waits for it.
- *A request's body is limited and its content type set* (middleware.go:131,
  `CompleteUnlessOverlapped`): another request of the route that overlaps may
  overwrite the assignment. The wrappers of past requests stay, three per
  request (`DepthFollowsRequests`).
- *Counters* (`CountTracksPublished`): a message published before a pair was
  registered may be counted.
- *The status is the state of the connection* (service.go:81,
  `LossReportedUnlessAbandoned`): when the connection drops before the BulkAdd
  of the initial symbols, StartIngress returns the error (service.go:392) after
  it has published the client and without a supervisor; serve_http logs it, and
  the status says connected from then on.
- *The supervisor reconnects, readers are answered, FeedStatus' fairness*
  (`ReconnectsAfterDrop`, `ReadersAnswered`, `StatusRefines`): unless Dial, or
  for the first and the last Wait, never returns.
- *A FilterSpec resolves to what it is documented to ask for*
  (`ResolvesWanted`): the filters of `empty_kind` are the only exception.
- *A caller of AccessToken gets an answer* (`CallsReturn`): unless the endpoint
  leaves a request unanswered for ever. The request has no timeout (oauth.go:67)
  and its context no deadline (service.go:241), so the provider waits with it.
- *A good token is accepted by the callout* (`CalloutHonest`): not when the
  request came before the HTTP server listened, nor when the exchange with it,
  the payload or the signature fails. It is never answered 401, and a request
  that comes once the server listens is never refused for want of it.
- *A serving process is whole* (`ServesWhole`): every sink was built; one that
  fails afterwards, in its goroutine, is only logged, as services.go:139 says.

The models also reach the following, each a few steps away from a state the
runs visit; the properties name them as exceptions or leave them out:

- a handler of C that dispatch copied and that starts after the stream was
  closed may pick the send on the closed channel and panic (client.go:314);
- an Add sent on the old client that commits after Rebind has copied the set is
  not replayed (the reconnect form of `lockstep_callers`);
- a loop that exits before Dial reaches `wg.Add(2)` panics in `wg.Done`;
- Send returns an error although its frame was written (`SendAborted` after
  `WriterWrites`), against `TODO.md:22`;
- when the unsolicited UNAUTHORIZED is dispatched before Authenticate registers
  its handler, a rejected token leaves it waiting for a second one;
- FEED_DATA dispatched between the replay and `C()` reaches no handler;
- a callout request that does not decode is answered and then ends the process
  (nats_auth_service.go:36);
- an option's events are published on a subject NATS delivers to nobody;
- a sink that cannot be built ends the start, while services.go:139 says of
  sink failures that they do not take down the server;
- the default LLM provider is the first of anthropic, openai, gemini, which
  services.go:192 calls alphabetical;
- a filter for options with any event type is resolved, while provider.go:55
  says that the Resolver refuses some;
- an equity lookup answered with `data: null` resolves to an empty symbol.

Bounds. Two callers and two keys let two calls overlap on one key and on
different ones; three connections let a failed Rebind sit between two good
ones. The counter bound of 1 is enough to see a reset. Two counted messages and
a third under way are needed for an incoherent snapshot. Three FEED_DATA are
needed to lose one between two that are delivered, which is how the runs showed
that the no-gap part of `DeliveredInOrder` ends when c.done is closed. Eight
attempts reach the capped shift twice. The token clock runs past two lifetimes.
Two messages of two elements put a malformed element before and after a good
one, and a batch before and after a dropped one. Three requests let one client
remove what another has checked and a third observe it. In the middleware a
third request starts on what two overlapping ones left; requests are
interchangeable, so symmetry is used there, and for the keys of `manager` and
`traffic` (none of these runs checks a liveness property). Deadlock checking is off: every one of these systems may stop (the
bounds, a shutdown, a crash). `TypeOK` is an invariant of the runs of the manager,
the ingress, the tokens and the middleware; it is proved for every module with
state, in NLSubscribe (`NLTypeOK`) on the condition that tastytrade names the
equities it returns.

Fairness. Goroutines that can run are run; blocked channel sends and lock
waiters are served in order (strong fairness where an action can be disabled
and enabled again: `WriterTake`, `ReaderServed`); and Go's select chooses at
random among its ready cases, so the keepalive goroutine whose context is done
does not take the ticker every time (`KeepaliveStops`). A write or an insert
ends, with success or failure. Ingress also assumes that of infinitely many
attempts one succeeds, without which no reconnect loop comes back. Nothing else
is assumed of callers, the servers, the network or the operator; in
particular not that the token endpoint answers, which is why `CallsReturn`
speaks of behaviours in which no request stays unanswered for ever.
NLSubscribe and Server state no fairness: tastytrade is asked without a timeout
(service.go:252), so a request and the start may wait for ever.

## 4. Proofs

`SubscriptionManager_proofs` shows TypeOK, LockstepUnlessRaced,
CountersSurvive and NoRedundantFrame for all keys, callers and bounds.
LockstepUnlessRaced is not inductive: the proof adds what a call in flight
knows (`SoloInv`: for a key it alone works on, state and wire agree as they did
at the check, and after the frame the wire is one step ahead), that overlapping
calls are marked (`BusyInv`), what a pending replay owes (`ReplayInv`), that
wires of connections not yet dialled are empty (`FutureInv`), the shape of a
call's record (`CallShape`), and that Observe holds a registered key
(`ObservedInv`). Each action has a lemma with one step per conjunct.

`Ingress_proofs` shows NoClientLeaked, StatusHonest and ReconnectVisible, and
that Ingress implements the safety part of FeedStatus (`RefinementTheorem`).
The invariant says who holds dxMu (`LockInv`), that no client is published
while an attempt runs (`DialInv`), that the client the supervisor would cancel
is the published one (`HandoverInv`), carries the visible error through the
attempt (`VisibleInv`), and says when the status must show nothing or a
connection (`ShownInv`), which is what makes each step a step of FeedStatus.
TypeOK and BackoffBounded follow from one more fact, that the delay the
supervisor waits was drawn for the attempt it is at (`SleepInv`), and from
lemmas on the delays: 2^n for the seven shifts in use, and that the ceiling
never falls from an attempt to a later one.

`TokenProvider_proofs` shows TypeOK, CachedTokenAlive and NoNeedlessRefresh. The
expiry the provider keeps and the endpoint's differ by the skew less the
response's delay (`ExpiryInv`), and a flight that asks has found the cache
unusable (`RequestInv`).

`Middleware_proofs` shows TypeOK, PanicAnswered and CompleteUnlessOverlapped
for any number of requests. The strengthening says that once some request has
passed its first line the captured handler is wrapped by makeGraceful, whatever
is overwritten, and what a request that was not disturbed knows of the handler
at each line. DepthFollowsRequests counts: the assignments made so far are a set
of (request, line) pairs, no handler anybody holds is deeper than that set is
large (`DepthInv`), and the set has at most three pairs for each request.

`Traffic_proofs` shows CountTracksPublished, SnapshotCoherent and TypeOK.
Neither property is inductive: between the writes of Observe an entry has a
count without its times. `CountInv` adds the event Observe owes to the count,
`EntryInv` says that a sight is missing only while Observe records it, and
`SnapInv` relates what Snapshot has read of an entry to what it has still to
read, which the read lock keeps in the map.

`DxClient_proofs` shows NilMeansWritten, HandshakeInOrder, DeliveredInOrder and
TypeOK for any callers and any number of data frames. `SendInv` says that a
sender that waits for its acknowledgement is the one whose payload the writer
has; `StageInv` that the server is as far as main's stage or one frame behind
it, with `AnswerInv` (an answer that is anywhere on the way follows the frame it
answers) for the step from one stage to the next. For the delivery, `FlowInv`
names the last data frame the reader took and the last it handed on: the socket
still holds every later one in order, and the ingress loop has all the others
but the one that its handler is delivering, until c.done is closed. `MainInv`,
`HandlerInv` and `PipeInv` say where the goroutines can be.

`Feed_proofs` shows BatchAllOrNothing and PublishedInOrder for any elements,
lengths and pending limit. `LoopInv`: what was offered and what is still to be
offered are together the events of the message. `OrderInv`: everything published
comes before everything still to be. `SinkInv`: the rows, the message in the
callback and the pending ones follow each other and were all published on the
quote subject, which is why a row without an event type cannot come about.
TypeOK needs besides that the limits hold (`Bounds`): no more messages than
MaxFrames, no more than MaxPending of them waiting for the callback.

`Server_proofs` shows CalloutHonest and ServesWhole. The tokens the server
issues are numbered from one, across restarts, so the forged and the empty one
are never among them (`TokenInv`), and a verdict that is not yet signed stands
already (`Verdict`). That a request which came while the server listened is not
refused for want of it needs one more fact (`Ready`): as long as such a request
waits, the server listens or its process has ended, since no step of the start
begins where either holds and a restart loses the request. `BootInv` carries
what each step of the start leaves done, with the number of sinks built, which
`StartSink` leaves alone (`SinkStarted`).
TypeOK is proved in two parts, the start (`StartTypes`) and the tokens
(`TokenTypes`: the time and the number of tokens stay within their bounds, and
the env file holds a token the server issued or none).

The same module proves NearestOptions, and of NLSubscribe ResolvesWanted,
FrameDistinct, AppliedIsRegistered and NLTypeOK, for all chains, filters and
clients. Because a sort is a set of outcomes and not a loop, no induction over a
sequence is needed: `Sorted` says of every outcome that it holds each place once
and, for a weak order, in order, and the rest is reasoning about injective
functions. `FirstAreNearest` derives NearestOptions from it: with strikes that
parse, RelatedLess is a weak order, so no option left out is less than one
taken. `ResolvedInv` says that what the start subscribes to is an outcome of
StreamSymbols. An attempt to prove NearestOptions about the symbols themselves
failed for a good reason: in a chain with missing or repeated streamer symbols a
symbol does not tell which option it came from. It is stated by place now, and
the run has such a chain.

`KeptWanted`, `TakenWanted` and `ResolveExact` say that the filter and the
reference select the same symbols, outside the case of `empty_kind`; `ResolveDistinct`
that no pair is repeated when no event and no symbol is. None of the three properties of NLSubscribe is inductive: they speak
of the check and the answer, and what they say depends on what Extract and the
lookups did before. `NLInv` follows a request: before a lookup its filter has
passed the checks, at the check its pairs are an outcome of Resolved for the
filter, equity and chain it names (or the one pair of a plain request), and
while its frame is out every pair it asked for is registered, in the frame or
removed by another request since. The last part is what concurrent commits can
disturb, and `gone` records just that.

The assumptions are the named ASSUMEs of the modules: the bounds are natural
numbers large enough to be used, sentinels are not members of the sets they
stand outside of, the callers of a client are not its own goroutines, an
element of a message has the three fields somebody decodes, and equities, option
chains, filters and pairs have the types of the Go structs they stand for. One
theorem has a hypothesis: NLTypeCorrect assumes that no equity has an empty
symbol, since EquityStreamerSymbol falls back to it unchecked.

Model-checked only: liveness, that is DeathNoticed, SendReturns, AttemptEnds,
Drains, ReconnectsAfterDrop, LossReportedUnlessAbandoned, ReadersAnswered,
ShutdownCompletes and CallsReturn, and with StatusRefines the fairness part of FeedStatus. They
need ENABLED and fairness, which this prover does not reason about.

## 5. Not modelled

Message contents and JSON, logging, CORS, templates, plots and static files,
prompts and schemas of the LLM providers, the data commands of the command line
(one REST call each), generated database code, the UI, the mock server. The
synthetic dxLink server and the analytics sidecar are separate Python processes
that only meet the service on the wire. JetStream beyond its one step of the
start: retention and replay are NATS's. A websocket write that never ends:
WriteMessage has no deadline, the fairness above assumes it away. OpenFeed
called twice at a time, which the service does not do; the keepalive interval
(a server timeout of 0 or 1 second would make it 0).

## 6. Plan

Every part of the plan that was to be modelled is, and every invariant and
action property of the passing runs is proved. Two hazards have no property
yet, for the reasons given with them: the empty token in an option's subject,
which NATS decides about, and requests to tastytrade without a timeout. Worth
adding when the code changes: a deadline on those requests would let NLSubscribe
and Server state fairness and that every request is answered, and make
`CallsReturn` unconditional; a teardown in StartIngress where the BulkAdd fails
would remove the exception of `LossReportedUnlessAbandoned`; a buffered
acknowledgement in Send and buffered reports of the handlers would remove the
two exceptions of `Drains`; one lock around the check, the frame and the commit
of the manager would turn `lockstep_callers` into a passing run.
