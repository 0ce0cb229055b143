-------------------------------- MODULE Feed --------------------------------
(***************************************************************************)
(* What happens to a dxLink message between the feed channel and the       *)
(* database: runIngressLoop parses it (service/ingress.go) and publishes   *)
(* its events on NATS; the TimescaleDB sink                                *)
(* (service/analytics/timescale.go) inserts the quotes.  The counting that *)
(* follows each publish is module Traffic.                                 *)
(*                                                                         *)
(* An item is one element of a FEED_DATA array, a record of the fields     *)
(* somebody decodes.  A price is a number, the string "NaN", or another    *)
(* string; "0.0" as a symbol is anything that is not a string.  Each item  *)
(* that becomes an event is known by its place <<message number, index>>.  *)
(***************************************************************************)
EXTENDS Integers, Sequences, SequencesExt

CONSTANTS
    Items,      \* the array elements the server may send
    MaxLen,     \* bound: elements of one message
    MaxFrames,  \* bound: messages received
    MaxPending  \* the sink's NATS pending limit; past it messages are dropped

ASSUME FeedAssumption ==
    /\ MaxLen \in Nat /\ MaxFrames \in Nat
    /\ MaxPending \in Nat \ {0}
    /\ \A i \in Items : DOMAIN i = {"event", "symbol", "price"}

(* An item's key in the manager's map. *)
KeyOf(i) == [event |-> i.event, symbol |-> i.symbol]

(* A dxLink message: FEED_DATA with an array, FEED_DATA whose data is not  *)
(* an array, or another type of message.                                   *)
Frames == [kind : {"array"}, data : SeqOf(Items, MaxLen)]
          \cup {[kind |-> "garbage", data |-> <<>>], [kind |-> "other", data |-> <<>>]}

-----------------------------------------------------------------------------
(* strings.ToLower on the event types in play. *)
Lower(event) == CASE event = "Quote" -> "quote" [] event = "Greeks" -> "greeks" [] OTHER -> event

(* The subject as its tokens.  dxFeed's option symbols begin with a dot,   *)
(* which makes an empty token.                                             *)
SubjectFor(key) ==
    <<"godxfeed", Lower(key.event)>> \o (IF key.symbol = ".OPT" THEN <<"", "OPT">> ELSE <<key.symbol>>)

(* NATS has no subscriber for a subject with an empty token. *)
Deliverable(subject) == \A t \in DOMAIN subject : subject[t] # ""

(* bytes.ReplaceAll of "NaN" by 0.0 works on the whole message: a price    *)
(* becomes the number zero, and so does an event type or a symbol.         *)
Sanitize(i) == [f \in DOMAIN i |-> IF i[f] = "NaN" THEN "0.0" ELSE i[f]]

(* json.Unmarshal into the header wants the event type and the symbol to   *)
(* be strings.                                                             *)
HeaderParses(i) == i.event # "0.0" /\ i.symbol # "0.0"

(* The event made of the k-th element of the m-th message. *)
FeedEvent(f, m, k) ==
    LET i == Sanitize(f.data[k]) IN [at |-> <<m, k>>, key |-> KeyOf(i), price |-> i.price]

(* The elements of a message that go to a subject. *)
Routed(f) == {k \in DOMAIN f.data : Sanitize(f.data[k]).symbol # ""}

(* Mutant: an element with a bad header is passed over, the rest is kept. *)
FeedEventsSkipsBad(f) ==
    IF f.kind # "array" THEN {} ELSE {k \in Routed(f) : HeaderParses(Sanitize(f.data[k]))}

(* FeedEvents and parseFeedData: which elements of the message become      *)
(* events, in the order of the array.  One header that does not parse      *)
(* fails the message; an element without a symbol is skipped.  The error   *)
(* is only logged, so it is an empty result here.                          *)
FeedEvents(f) ==
    IF f.kind # "array" \/ \E k \in DOMAIN f.data : ~HeaderParses(Sanitize(f.data[k])) THEN {}
    ELSE Routed(f)

(* parseQuoteInsert on a published payload: a Quote, or no type at all,    *)
(* with a symbol and prices that decode as numbers.                        *)
QuoteParses(e) == e.key.event \in {"Quote", ""} /\ e.price \in {"number", "0.0"}

(* natsSubject, and the subjects of the QUOTES stream: godxfeed.quote.>    *)
QuoteSubject(subject) == subject[2] = "quote"

-----------------------------------------------------------------------------
VARIABLES
    frame,      \* the message the loop received last
    n,          \* its number
    todo,       \* the elements of frame whose events are still to be published
    pc,         \* runIngressLoop: select, publish or stopped
    published,  \* history: what Publish accepted, in order
    tried,      \* history: the elements of frame Publish was called with
    ctx,        \* the serve context: "live" or "done"
    sink,       \* timescaleSink: built, running, unsubscribed, closed
    pending,    \* messages NATS holds for the sink's callback
    handling,   \* the message inside the callback, with its stage
    rows        \* symbol_bid_ask

loopVars == <<frame, n, todo, pc, published, tried>>
sinkVars == <<sink, pending, handling, rows>>
vars == <<loopVars, ctx, sinkVars>>

IdleHandler == [at |-> "idle", msg |-> <<>>]

Init ==
    /\ frame = [kind |-> "other", data |-> <<>>] /\ n = 0
    /\ todo = {} /\ pc = "select"
    /\ published = <<>> /\ tried = {}
    /\ ctx = "live"
    /\ sink = "built" /\ pending = <<>> /\ handling = IdleHandler /\ rows = <<>>

-----------------------------------------------------------------------------
(* runIngressLoop takes a message from the feed channel. *)
Receive(f) ==
    /\ pc = "select"
    /\ n < MaxFrames /\ n' = n + 1 /\ frame' = f /\ tried' = {}
    /\ todo' = FeedEvents(f)
    /\ pc' = IF todo' = {} THEN "select" ELSE "publish"
    /\ UNCHANGED <<published, ctx, sinkVars>>

(* Mutant: the context is looked at when a message has come. *)
LoopStopsOnMessage ==
    /\ pc = "select" /\ ctx = "done" /\ n < MaxFrames
    /\ pc' = "stopped"
    /\ UNCHANGED <<frame, n, todo, published, tried, ctx, sinkVars>>

(* The loop looks at ctx.Done() only between messages.  A feed channel     *)
(* that closes ends the loop as well, between messages too; the supervisor *)
(* then runs it on the next client's, which is the same loop here.         *)
LoopStops ==
    /\ pc = "select" /\ ctx = "done"
    /\ pc' = "stopped"
    /\ UNCHANGED <<frame, n, todo, published, tried, ctx, sinkVars>>

(* One round of the loop over the events, on the first one left. *)
Offer(k) ==
    /\ pc = "publish" /\ \A j \in todo : k <= j
    /\ tried' = tried \cup {k}
    /\ todo' = todo \ {k}
    /\ pc' = IF todo' = {} THEN "select" ELSE "publish"
    /\ UNCHANGED <<frame, n>>

(* Publish accepts the event, and the sink's subscription gets a quote.    *)
Publish(k) ==
    LET e == FeedEvent(frame, n, k)
    IN  /\ Offer(k)
        /\ published' = Append(published, e)
        /\ pending' = IF /\ sink = "running" /\ Len(pending) < MaxPending
                         /\ QuoteSubject(SubjectFor(e.key)) /\ Deliverable(SubjectFor(e.key))
                        THEN Append(pending, e) ELSE pending
        /\ UNCHANGED <<ctx, sink, handling, rows>>

(* Publish fails: the event is logged and not counted. *)
PublishFails(k) == Offer(k) /\ UNCHANGED <<published, ctx, sinkVars>>

-----------------------------------------------------------------------------
(* Start: subscribe, then wait for the context.  When the subscription     *)
(* fails the deferred Close is all that happens.                           *)
SinkSubscribe ==
    /\ sink = "built"
    /\ sink' \in {"running", "closed"}
    /\ UNCHANGED <<loopVars, ctx, pending, handling, rows>>

(* NATS runs the callback, one message at a time. *)
SinkTake ==
    /\ sink = "running" /\ handling.at = "idle" /\ pending # <<>>
    /\ handling' = [at |-> "parse", msg |-> Head(pending)]
    /\ pending' = Tail(pending)
    /\ UNCHANGED <<loopVars, ctx, sink, rows>>

(* A message that does not parse is logged and skipped.  The insert takes  *)
(* a connection of the pool, which it does not get once the context is     *)
(* done.                                                                   *)
SinkParse ==
    /\ handling.at = "parse"
    /\ handling' = IF QuoteParses(handling.msg) /\ ctx = "live"
                     THEN [handling EXCEPT !.at = "insert"] ELSE IdleHandler
    /\ UNCHANGED <<loopVars, ctx, sink, pending, rows>>

(* Mutant: the row is written and the message is handed out again. *)
SinkInsertRetries ==
    /\ handling.at = "insert"
    /\ rows' \in {rows, Append(rows, handling.msg)}
    /\ handling' \in {IdleHandler, handling}
    /\ UNCHANGED <<loopVars, ctx, sink, pending>>

(* InsertSymbolData ends with the row, or with an error that is logged. *)
SinkInsert ==
    /\ handling.at = "insert"
    /\ rows' \in {rows, Append(rows, handling.msg)}
    /\ handling' = IdleHandler
    /\ UNCHANGED <<loopVars, ctx, sink, pending>>

Shutdown ==
    /\ ctx = "live"
    /\ ctx' = "done"
    /\ UNCHANGED <<loopVars, sinkVars>>

(* The deferred Unsubscribe drops what NATS still held; the deferred Close *)
(* waits for an insert that has a connection of the pool.                  *)
SinkUnsubscribe ==
    /\ sink = "running" /\ ctx = "done"
    /\ sink' = "unsubscribed" /\ pending' = <<>>
    /\ UNCHANGED <<loopVars, ctx, handling, rows>>

SinkClose ==
    /\ sink = "unsubscribed" /\ handling.at # "insert"
    /\ sink' = "closed"
    /\ UNCHANGED <<loopVars, ctx, pending, handling, rows>>

-----------------------------------------------------------------------------
Loop == LoopStops \/ \E k \in todo : Publish(k) \/ PublishFails(k)
Start == SinkSubscribe \/ SinkUnsubscribe \/ SinkClose
Callback == SinkTake \/ SinkParse \/ SinkInsert

Next ==
    \/ pc = "select" /\ \E f \in Frames : Receive(f)
    \/ Loop
    \/ Start
    \/ Callback
    \/ Shutdown

(* Goroutines that can run are run, an insert ends. *)
Spec == Init /\ [][Next]_vars /\ WF_vars(Loop) /\ WF_vars(Start) /\ WF_vars(Callback)

-----------------------------------------------------------------------------
(* Types of the variables; the loop is inside a message while events are   *)
(* left of it.                                                             *)
TypeOK ==
    /\ frame \in Frames /\ n \in 0..MaxFrames
    /\ pc \in {"select", "publish", "stopped"}
    /\ pc \in {"select", "stopped"} <=> todo = {}
    /\ ctx \in {"live", "done"}
    /\ sink \in {"built", "running", "unsubscribed", "closed"}
    /\ Len(pending) <= MaxPending
    /\ handling.at \in {"idle", "parse", "insert"}

(* Reference for the parser, element by element: the elements of the       *)
(* message that are events with a symbol.                                  *)
Routable == {k \in DOMAIN frame.data : frame.data[k].symbol # ""}

(* The header of some element cannot be decoded. *)
Poisoned ==
    \E k \in DOMAIN frame.data :
        {"NaN", "0.0"} \cap {frame.data[k].event, frame.data[k].symbol} # {}

(* When the loop is done with a message it has offered NATS every event of *)
(* it that has a symbol, a failed publish in between notwithstanding,      *)
(* unless one header of the message did not parse: then it has offered     *)
(* none (ingress.go:79), however many sound events came with it.           *)
BatchAllOrNothing ==
    pc \in {"select", "stopped"} => tried = IF Poisoned THEN {} ELSE Routable

(* NATS gets the events in the order in which the server sent them, none   *)
(* twice, and the sink's rows keep that order (the callback is called for  *)
(* one message after the other); a row is a Quote.                         *)
Precedes(a, b) == a[1] < b[1] \/ (a[1] = b[1] /\ a[2] < b[2])
InOrder(s) == \A i, j \in DOMAIN s : i < j => Precedes(s[i].at, s[j].at)
PublishedInOrder ==
    /\ InOrder(published)
    /\ InOrder(rows)
    /\ \A i \in DOMAIN rows : rows[i] \in Range(published) /\ rows[i].key.event = "Quote"

(* After shutdown the loop ends, the sink lets go of NATS and of its pool, *)
(* whatever its callback was doing.                                        *)
ShutdownCompletes == ctx = "done" ~> (pc = "stopped" /\ sink = "closed" /\ handling.at = "idle")

=============================================================================
