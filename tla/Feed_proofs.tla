---------------------------- MODULE Feed_proofs ----------------------------
(***************************************************************************)
(* Proofs about Feed, for any elements, any number of messages of any      *)
(* length and any pending limit: a message is offered to NATS whole or not *)
(* at all, and what is published and stored keeps the server's order.      *)
(***************************************************************************)
EXTENDS Feed, SequenceTheorems, TLAPS

Event == [at : Nat \X Nat, key : {KeyOf(Sanitize(i)) : i \in Items},
          price : {Sanitize(i).price : i \in Items}]
Before(S, T) == \A a \in S, b \in T : Precedes(a.at, b.at)

(* The loop is somewhere in the events of its message: those behind it     *)
(* were offered, those ahead are still to come.                            *)
LoopInv ==
    /\ frame \in Frames /\ n \in Nat /\ pc \in {"select", "publish", "stopped"}
    /\ pc # "publish" => todo = {}
    /\ tried \cup todo = FeedEvents(frame)

(* Everything published comes before what is still to be published. *)
OrderInv ==
    /\ published \in Seq(Event) /\ InOrder(published)
    /\ \A e \in Range(published) : e.at[1] <= n /\ \A k \in todo : Precedes(e.at, <<n, k>>)

(* The rows, the message in the callback and the ones NATS holds for it    *)
(* follow each other, and all of them were published.                      *)
Held == IF handling.at = "idle" THEN {} ELSE {handling.msg}
SinkInv ==
    /\ handling \in [at : {"idle", "parse", "insert"}, msg : Event \cup {<<>>}]
    /\ Held \subseteq Event
    /\ pending \in Seq(Event) /\ InOrder(pending)
    /\ rows \in Seq(Event) /\ InOrder(rows)
    /\ Before(Range(rows), Held \cup Range(pending)) /\ Before(Held, Range(pending))
    /\ Range(rows) \cup Held \cup Range(pending) \subseteq Range(published)
    /\ \A e \in Held \cup Range(pending) : QuoteSubject(SubjectFor(e.key))
    /\ handling.at = "insert" => QuoteParses(handling.msg)
    /\ \A e \in Range(rows) : e.key.event = "Quote"

IInv == LoopInv /\ OrderInv /\ SinkInv

-----------------------------------------------------------------------------
(* The elements of a message. *)
LEMMA FrameData ==
    ASSUME NEW f \in Frames
    PROVE  /\ \E m \in Nat : f.data \in [1..m -> Items]
           /\ f.kind # "array" => DOMAIN f.data = {}
<1>1. CASE f \in [kind : {"array"}, data : SeqOf(Items, MaxLen)]
  <2>1. f.kind = "array" /\ f.data \in SeqOf(Items, MaxLen)
    BY <1>1
  <2>2. PICK m \in 0..MaxLen : f.data \in [1..m -> Items]
    BY <2>1 DEF SeqOf
  <2>3. QED
    BY <2>1, <2>2
<1>2. CASE f \in {[kind |-> "garbage", data |-> <<>>], [kind |-> "other", data |-> <<>>]}
  <2>1. f.data = <<>>
    BY <1>2
  <2>2. f.data \in [1..0 -> Items] /\ DOMAIN f.data = {}
    BY <2>1
  <2>3. QED
    BY <2>2
<1>3. QED
  BY <1>1, <1>2 DEF Frames

(* What the byte-level replacement does to an element. *)
LEMMA Sanitized ==
    ASSUME NEW i \in Items
    PROVE  /\ HeaderParses(Sanitize(i)) <=> {"NaN", "0.0"} \cap {i.event, i.symbol} = {}
           /\ Sanitize(i).symbol = "" <=> i.symbol = ""
<1>1. DOMAIN i = {"event", "symbol", "price"}
  BY FeedAssumption
<1>2. /\ Sanitize(i).event = IF i.event = "NaN" THEN "0.0" ELSE i.event
      /\ Sanitize(i).symbol = IF i.symbol = "NaN" THEN "0.0" ELSE i.symbol
  BY <1>1 DEF Sanitize
<1>3. QED
  BY <1>2 DEF HeaderParses

(* The parser against its reference: all routable elements, or none. *)
LEMMA ParsesAll ==
    ASSUME frame \in Frames
    PROVE  FeedEvents(frame) = IF Poisoned THEN {} ELSE Routable
<1>1. PICK m \in Nat : frame.data \in [1..m -> Items]
  BY FrameData
<1>2. \A k \in DOMAIN frame.data : frame.data[k] \in Items
  BY <1>1
<1>3. Routed(frame) = Routable
  BY <1>2, Sanitized DEF Routed, Routable
<1>4. Poisoned <=> \E k \in DOMAIN frame.data : ~HeaderParses(Sanitize(frame.data[k]))
  BY <1>2, Sanitized DEF Poisoned
<1>5. frame.kind # "array" => Routable = {}
  BY FrameData DEF Routable
<1>6. QED
  BY <1>3, <1>4, <1>5 DEF FeedEvents

(* An event of the current message. *)
LEMMA EventOf ==
    ASSUME LoopInv, NEW k \in todo
    PROVE  k \in Nat /\ FeedEvent(frame, n, k) \in Event /\ FeedEvent(frame, n, k).at = <<n, k>>
<1>1. PICK m \in Nat : frame.data \in [1..m -> Items]
  BY FrameData DEF LoopInv
<1>2. k \in 1..m
  BY <1>1 DEF LoopInv, FeedEvents, Routed
<1>3. frame.data[k] \in Items /\ k \in Nat /\ n \in Nat
  BY <1>1, <1>2 DEF LoopInv
<1>4. QED
  BY <1>3 DEF FeedEvent, Event

(* Appending to a sequence of events. *)
LEMMA Appended ==
    ASSUME NEW s \in Seq(Event), NEW e \in Event
    PROVE  /\ Append(s, e) \in Seq(Event) /\ Range(Append(s, e)) = Range(s) \cup {e}
           /\ InOrder(s) /\ Before(Range(s), {e}) => InOrder(Append(s, e))
<1> DEFINE t == Append(s, e)
<1>1. /\ t \in Seq(Event) /\ Len(s) \in Nat /\ DOMAIN s = 1..Len(s) /\ DOMAIN t = 1..(Len(s) + 1)
      /\ \A i \in 1..Len(s) : t[i] = s[i]
      /\ t[Len(s) + 1] = e
  OBVIOUS
<1> HIDE DEF t
<1>2. \A i \in DOMAIN t : i \in DOMAIN s \/ i = Len(s) + 1
  BY <1>1
<1>3. \A i \in DOMAIN s : i \in DOMAIN t /\ t[i] = s[i]
  BY <1>1
<1>4. Len(s) + 1 \in DOMAIN t
  BY <1>1
<1>5. Range(t) = Range(s) \cup {e}
  BY <1>1, <1>2, <1>3, <1>4 DEF Range
<1>6. ASSUME InOrder(s), Before(Range(s), {e}) PROVE InOrder(t)
  <2> SUFFICES ASSUME NEW i \in DOMAIN t, NEW j \in DOMAIN t, i < j
               PROVE  Precedes(t[i].at, t[j].at)
    BY DEF InOrder
  <2>1. i \in DOMAIN s
    BY <1>1, <1>2
  <2>2. CASE j \in DOMAIN s
    BY <1>3, <1>6, <2>1, <2>2 DEF InOrder
  <2>3. CASE j = Len(s) + 1
    BY <1>1, <1>3, <1>6, <2>1, <2>3 DEF Before, Range
  <2>4. QED
    BY <1>2, <2>2, <2>3
<1>7. QED
  BY <1>1, <1>5, <1>6 DEF t

(* Taking the first of a sequence of events. *)
LEMMA Taken ==
    ASSUME NEW s \in Seq(Event), s # <<>>, InOrder(s)
    PROVE  /\ Head(s) \in Event /\ Tail(s) \in Seq(Event) /\ InOrder(Tail(s))
           /\ Range(s) = {Head(s)} \cup Range(Tail(s)) /\ Before({Head(s)}, Range(Tail(s)))
<1> DEFINE t == Tail(s)
<1>1. /\ t \in Seq(Event) /\ Len(s) \in Nat /\ Len(s) >= 1 /\ DOMAIN s = 1..Len(s)
      /\ Head(s) = s[1] /\ Head(s) \in Event /\ Len(t) = Len(s) - 1 /\ DOMAIN t = 1..Len(t)
      /\ \A i \in 1..Len(t) : t[i] = s[i + 1]
  BY HeadTailProperties, EmptySeq
<1> HIDE DEF t
<1>2. \A i \in DOMAIN t : i + 1 \in DOMAIN s /\ t[i] = s[i + 1] /\ i \in Nat /\ 1 < i + 1
  BY <1>1
<1>3. \A i \in DOMAIN s : i = 1 \/ (i - 1 \in DOMAIN t /\ t[i - 1] = s[i])
  BY <1>1
<1>4. InOrder(t)
  <2> SUFFICES ASSUME NEW i \in DOMAIN t, NEW j \in DOMAIN t, i < j
               PROVE  Precedes(t[i].at, t[j].at)
    BY DEF InOrder
  <2>1. i + 1 < j + 1
    BY <1>2
  <2>2. QED
    BY <1>2, <2>1 DEF InOrder
<1>5. 1 \in DOMAIN s
  BY <1>1
<1>6. Range(s) = {Head(s)} \cup Range(t)
  <2>1. ASSUME NEW i \in DOMAIN s PROVE s[i] \in {Head(s)} \cup Range(t)
    <3>1. CASE i = 1
      BY <1>1, <3>1
    <3>2. CASE i - 1 \in DOMAIN t /\ t[i - 1] = s[i]
      BY <3>2 DEF Range
    <3>3. QED
      BY <1>3, <3>1, <3>2
  <2>2. ASSUME NEW i \in DOMAIN t PROVE t[i] \in Range(s)
    BY <1>2 DEF Range
  <2>3. Head(s) \in Range(s)
    BY <1>1, <1>5 DEF Range
  <2>4. QED
    BY <2>1, <2>2, <2>3 DEF Range
<1>7. Before({Head(s)}, Range(t))
  BY <1>1, <1>2, <1>5 DEF Before, Range, InOrder
<1>8. QED
  BY <1>1, <1>4, <1>6, <1>7 DEF t

(* What the server names Quote is what parseQuoteInsert accepts on the     *)
(* quote subject.                                                          *)
LEMMA QuotesOnly ==
    ASSUME NEW e, QuoteSubject(SubjectFor(e.key)), QuoteParses(e)
    PROVE  e.key.event = "Quote"
<1>1. SubjectFor(e.key)[2] = Lower(e.key.event)
  <2> DEFINE l == Lower(e.key.event)
             S == {"godxfeed", l, "", "OPT", e.key.symbol}
             u == <<"godxfeed", l>>
             v == IF e.key.symbol = ".OPT" THEN <<"", "OPT">> ELSE <<e.key.symbol>>
  <2>1. u \in Seq(S) /\ Len(u) = 2 /\ u[2] = l
    OBVIOUS
  <2>2. v \in Seq(S) /\ Len(v) \in Nat
    <3>1. <<"", "OPT">> \in Seq(S)
      OBVIOUS
    <3>2. <<e.key.symbol>> \in Seq(S)
      OBVIOUS
    <3>3. v \in Seq(S)
      BY <3>1, <3>2, Zenon
    <3> HIDE DEF v, S
    <3>4. QED
      BY <3>3
  <2>3. SubjectFor(e.key) = u \o v
    BY DEF SubjectFor
  <2> HIDE DEF u, v, S, l
  <2>4. (u \o v)[2] = u[2]
    <3>1. 2 \in 1..Len(u \o v) /\ 2 <= Len(u)
      BY <2>1, <2>2, ConcatProperties
    <3>2. QED
      BY <2>1, <2>2, <3>1, ConcatProperties
  <2>5. QED
    BY <2>1, <2>3, <2>4 DEF l
<1>2. QED
  BY <1>1 DEF QuoteSubject, QuoteParses, Lower

-----------------------------------------------------------------------------
(* The sink alone leaves the loop's invariant as it is, and the other way. *)
LEMMA LoopFrame ==
    ASSUME IInv, UNCHANGED loopVars
    PROVE  LoopInv' /\ OrderInv'
BY DEF IInv, LoopInv, OrderInv, loopVars, Range, InOrder

(* A step that leaves the sink and its messages alone. *)
LEMMA SinkFrame ==
    ASSUME IInv, UNCHANGED <<published, pending, handling, rows>>
    PROVE  SinkInv'
<1>1. /\ Held' = Held /\ Range(rows)' = Range(rows) /\ Range(published)' = Range(published)
      /\ Range(pending)' = Range(pending)
  BY DEF Held, Range
<1>2. InOrder(rows)' /\ InOrder(pending)'
  BY DEF IInv, SinkInv, InOrder
<1>3. Before(Range(rows), Held \cup Range(pending))' /\ Before(Held, Range(pending))'
  BY <1>1 DEF IInv, SinkInv, Before
<1>4. (handling.at = "insert" => QuoteParses(handling.msg))'
  BY DEF IInv, SinkInv, QuoteParses
<1>5. QED
  BY <1>1, <1>2, <1>3, <1>4 DEF IInv, SinkInv

(* A message arrives: all that was published is of earlier ones. *)
LEMMA ReceiveStep ==
    ASSUME IInv, NEW f \in Frames, Receive(f)
    PROVE  IInv'
<1>1. LoopInv'
  BY DEF IInv, LoopInv, Receive
<1>2. OrderInv'
  <2>1. UNCHANGED published /\ n' = n + 1 /\ n \in Nat
    BY DEF IInv, LoopInv, Receive
  <2>2. \A e \in Range(published) : e \in Event
    BY DEF IInv, OrderInv, Range
  <2>3. ASSUME NEW e \in Range(published) PROVE e.at[1] <= n' /\ \A k \in todo' : Precedes(e.at, <<n', k>>)
    <3>1. e.at[1] \in Nat /\ e.at[1] <= n
      BY <2>2 DEF IInv, OrderInv, Event
    <3>2. e.at[1] < n' /\ e.at[1] <= n'
      BY <2>1, <3>1
    <3>3. QED
      BY <3>2 DEF Precedes
  <2>4. QED
    BY <2>1, <2>3 DEF IInv, OrderInv, Range, InOrder
<1>3. SinkInv'
  BY SinkFrame DEF Receive, sinkVars
<1>4. QED
  BY <1>1, <1>2, <1>3 DEF IInv

(* An event is offered: the message is one element further. *)
LEMMA OfferStep ==
    ASSUME IInv, NEW k \in todo, Offer(k)
    PROVE  /\ LoopInv'
           /\ Before(Range(published), {FeedEvent(frame, n, k)})
           /\ \A j \in todo' : Precedes(<<n, k>>, <<n, j>>)
           /\ todo' \subseteq todo /\ n' = n
<1>1. k \in Nat /\ FeedEvent(frame, n, k).at = <<n, k>>
  BY EventOf DEF IInv
<1>2. LoopInv'
  BY DEF IInv, LoopInv, Offer
<1>3. Before(Range(published), {FeedEvent(frame, n, k)})
  BY <1>1 DEF IInv, OrderInv, Before
<1>4. ASSUME NEW j \in todo' PROVE Precedes(<<n, k>>, <<n, j>>)
  <2>1. j \in todo /\ j # k /\ k <= j
    BY DEF Offer
  <2>2. j \in Nat
    BY <2>1, EventOf DEF IInv
  <2>3. k < j
    BY <1>1, <2>1, <2>2
  <2>4. QED
    BY <2>3 DEF Precedes
<1>5. QED
  BY <1>2, <1>3, <1>4 DEF Offer

(* An event is published and may be queued for the sink. *)
LEMMA PublishStep ==
    ASSUME IInv, NEW k \in todo, Publish(k)
    PROVE  IInv'
<1> DEFINE e == FeedEvent(frame, n, k)
<1>1. e \in Event /\ e.at = <<n, k>> /\ n \in Nat /\ k \in Nat
  BY EventOf DEF IInv, LoopInv
<1>2. /\ Offer(k) /\ published' = Append(published, e) /\ UNCHANGED <<handling, rows>>
      /\ \/ pending' = pending
         \/ pending' = Append(pending, e) /\ QuoteSubject(SubjectFor(e.key))
  BY DEF Publish
<1>3. /\ LoopInv' /\ Before(Range(published), {e})
      /\ \A j \in todo' : Precedes(<<n, k>>, <<n, j>>)
      /\ todo' \subseteq todo /\ n' = n
  BY <1>2, OfferStep
<1> HIDE DEF e
<1>4. published \in Seq(Event) /\ InOrder(published)
  BY DEF IInv, OrderInv
<1>5. /\ published' \in Seq(Event) /\ Range(published') = Range(published) \cup {e}
      /\ InOrder(published')
  BY <1>1, <1>2, <1>3, <1>4, Appended
<1>6. OrderInv'
  <2>1. e.at[1] = n /\ n <= n
    BY <1>1
  <2>2. \A j \in todo' : Precedes(e.at, <<n, j>>)
    BY <1>1, <1>3
  <2>3. \A x \in Range(published) : x.at[1] <= n /\ \A j \in todo' : Precedes(x.at, <<n, j>>)
    BY <1>3 DEF IInv, OrderInv
  <2>4. \A x \in Range(published') : x.at[1] <= n /\ \A j \in todo' : Precedes(x.at, <<n, j>>)
    BY <1>5, <2>1, <2>2, <2>3
  <2>5. Range(published)' = Range(published')
    BY DEF Range
  <2>6. InOrder(published)'
    BY <1>5 DEF InOrder
  <2>7. QED
    BY <1>3, <1>5, <2>4, <2>5, <2>6 DEF OrderInv
<1>7. SinkInv'
  <2>1. Range(rows) \cup Held \cup Range(pending) \subseteq Range(published)
    BY DEF IInv, SinkInv
  <2>2. Before(Range(rows) \cup Held \cup Range(pending), {e})
    BY <1>3, <2>1 DEF Before
  <2>3. /\ pending' \in Seq(Event) /\ InOrder(pending')
        /\ Range(pending') = Range(pending) \/ (Range(pending') = Range(pending) \cup {e}
                                                  /\ QuoteSubject(SubjectFor(e.key)))
    <3>1. pending \in Seq(Event) /\ InOrder(pending)
      BY DEF IInv, SinkInv
    <3>2. Before(Range(pending), {e})
      BY <2>2 DEF Before
    <3>3. QED
      BY <1>1, <1>2, <3>1, <3>2, Appended
  <2>4. /\ Held' = Held /\ Range(rows)' = Range(rows) /\ Range(pending)' = Range(pending')
        /\ Range(published)' = Range(published')
    BY <1>2 DEF Held, Range
  <2>5. InOrder(rows)' /\ InOrder(pending)'
    BY <1>2, <2>3 DEF IInv, SinkInv, InOrder
  <2>6. /\ Before(Range(rows), Held \cup Range(pending'))
        /\ Before(Held, Range(pending'))
    BY <2>2, <2>3 DEF IInv, SinkInv, Before
  <2>7. Before(Range(rows), Held \cup Range(pending))' /\ Before(Held, Range(pending))'
    BY <2>4, <2>6 DEF Before
  <2>8. (Range(rows) \cup Held \cup Range(pending) \subseteq Range(published))'
    BY <1>5, <2>1, <2>3, <2>4
  <2>9. (\A x \in Held \cup Range(pending) : QuoteSubject(SubjectFor(x.key)))'
    BY <2>3, <2>4 DEF IInv, SinkInv
  <2>10. QED
    BY <1>2, <2>3, <2>4, <2>5, <2>7, <2>8, <2>9 DEF IInv, SinkInv
<1>8. QED
  BY <1>3, <1>6, <1>7 DEF IInv

(* An event is lost: the ones after it still follow what was published.    *)
LEMMA PublishFailsStep ==
    ASSUME IInv, NEW k \in todo, PublishFails(k)
    PROVE  IInv'
<1>1. Offer(k) /\ UNCHANGED <<published, pending, handling, rows>>
  BY DEF PublishFails, sinkVars
<1>2. LoopInv' /\ todo' \subseteq todo /\ n' = n
  BY <1>1, OfferStep
<1>3. OrderInv'
  BY <1>1, <1>2 DEF IInv, OrderInv, Range, InOrder
<1>4. QED
  BY <1>1, <1>2, <1>3, SinkFrame DEF IInv

(* The callback takes the first pending message. *)
LEMMA TakeStep ==
    ASSUME IInv, SinkTake
    PROVE  SinkInv'
<1> DEFINE e == Head(pending)
<1>1. /\ handling.at = "idle" /\ pending # <<>> /\ handling' = [at |-> "parse", msg |-> e]
      /\ pending' = Tail(pending) /\ UNCHANGED <<rows, published>>
  BY DEF SinkTake, loopVars
<1>2. pending \in Seq(Event) /\ InOrder(pending) /\ Held = {}
  BY <1>1 DEF IInv, SinkInv, Held
<1>3. /\ e \in Event /\ pending' \in Seq(Event) /\ InOrder(pending')
      /\ Range(pending) = {e} \cup Range(pending') /\ Before({e}, Range(pending'))
  BY <1>1, <1>2, Taken
<1> HIDE DEF e
<1>4. /\ Held' = {e} /\ handling'.at = "parse" /\ Range(rows)' = Range(rows)
      /\ Range(pending)' = Range(pending') /\ Range(published)' = Range(published)
  BY <1>1 DEF Held, Range
<1>5. InOrder(rows)' /\ InOrder(pending)'
  BY <1>1, <1>3 DEF IInv, SinkInv, InOrder
<1>6. Before(Range(rows), {e} \cup Range(pending'))
  BY <1>3 DEF IInv, SinkInv, Before
<1>7. Before(Range(rows), Held \cup Range(pending))' /\ Before(Held, Range(pending))'
  BY <1>3, <1>4, <1>6 DEF Before
<1>8. (Range(rows) \cup Held \cup Range(pending) \subseteq Range(published))'
  BY <1>3, <1>4 DEF IInv, SinkInv
<1>9. (\A x \in Held \cup Range(pending) : QuoteSubject(SubjectFor(x.key)))'
  BY <1>3, <1>4 DEF IInv, SinkInv
<1>10. QED
  BY <1>1, <1>3, <1>4, <1>5, <1>7, <1>8, <1>9 DEF IInv, SinkInv

(* The callback parses its message, and drops it or goes on to the insert. *)
LEMMA ParseStep ==
    ASSUME IInv, SinkParse
    PROVE  SinkInv'
<1>1. /\ UNCHANGED <<rows, pending, published>> /\ handling.at = "parse"
      /\ \/ handling' = [handling EXCEPT !.at = "insert"] /\ QuoteParses(handling.msg)
         \/ handling' = IdleHandler
  BY DEF SinkParse, loopVars
<1>2. \/ handling'.at = "insert" /\ handling'.msg = handling.msg /\ QuoteParses(handling.msg)
      \/ handling'.at = "idle"
  BY <1>1 DEF IInv, SinkInv, IdleHandler
<1>3. /\ Held' \subseteq Held /\ Range(rows)' = Range(rows)
      /\ Range(pending)' = Range(pending) /\ Range(published)' = Range(published)
  BY <1>1, <1>2 DEF Held, Range
<1>4. InOrder(rows)' /\ InOrder(pending)'
  BY <1>1 DEF IInv, SinkInv, InOrder
<1>5. Before(Range(rows), Held \cup Range(pending))' /\ Before(Held, Range(pending))'
  BY <1>3 DEF IInv, SinkInv, Before
<1>6. (handling.at = "insert" => QuoteParses(handling.msg))'
  BY <1>2 DEF QuoteParses
<1>7. handling' \in [at : {"idle", "parse", "insert"}, msg : Event \cup {<<>>}]
  BY <1>1 DEF IInv, SinkInv, IdleHandler
<1>8. QED
  BY <1>1, <1>3, <1>4, <1>5, <1>6, <1>7 DEF IInv, SinkInv

(* The insert ends, with the row or without. *)
LEMMA InsertStep ==
    ASSUME IInv, SinkInsert
    PROVE  SinkInv'
<1> DEFINE e == handling.msg
<1>1. /\ UNCHANGED <<pending, published>> /\ handling.at = "insert" /\ handling'.at = "idle"
      /\ rows' = rows \/ rows' = Append(rows, e)
  BY DEF SinkInsert, IdleHandler, loopVars
<1>2. /\ Held = {e} /\ e \in Event /\ rows \in Seq(Event) /\ InOrder(rows)
      /\ Before(Range(rows), {e}) /\ Before({e}, Range(pending))
      /\ e \in Range(published) /\ QuoteSubject(SubjectFor(e.key)) /\ QuoteParses(e)
  BY <1>1 DEF IInv, SinkInv, Held, Before
<1> HIDE DEF e
<1>3. e.key.event = "Quote"
  BY <1>2, QuotesOnly
<1>4. /\ rows' \in Seq(Event) /\ InOrder(rows')
      /\ Range(rows') = Range(rows) \/ Range(rows') = Range(rows) \cup {e}
  BY <1>1, <1>2, Appended
<1>5. /\ Held' = {} /\ Range(rows)' = Range(rows')
      /\ Range(pending)' = Range(pending) /\ Range(published)' = Range(published)
  BY <1>1 DEF Held, Range
<1>6. InOrder(rows)' /\ InOrder(pending)'
  BY <1>1, <1>4 DEF IInv, SinkInv, InOrder
<1>7. Before(Range(rows'), Range(pending))
  BY <1>2, <1>4 DEF IInv, SinkInv, Before
<1>8. Before(Range(rows), Held \cup Range(pending))' /\ Before(Held, Range(pending))'
  BY <1>5, <1>7 DEF Before
<1>9. /\ Range(rows') \subseteq Range(published)
      /\ \A x \in Range(rows') : x.key.event = "Quote"
  BY <1>2, <1>3, <1>4 DEF IInv, SinkInv
<1>10. handling' \in [at : {"idle", "parse", "insert"}, msg : Event \cup {<<>>}]
  BY DEF SinkInsert, IdleHandler
<1>11. QED
  BY <1>1, <1>4, <1>5, <1>6, <1>8, <1>9, <1>10 DEF IInv, SinkInv

(* Unsubscribing drops what NATS still held. *)
LEMMA UnsubscribeStep ==
    ASSUME IInv, SinkUnsubscribe
    PROVE  SinkInv'
<1>1. pending' = <<>> /\ UNCHANGED <<handling, rows, published>>
  BY DEF SinkUnsubscribe, loopVars
<1>2. /\ Held' = Held /\ Range(rows)' = Range(rows) /\ Range(published)' = Range(published)
      /\ Range(pending)' = {} /\ pending' \in Seq(Event)
  BY <1>1 DEF Held, Range
<1>3. InOrder(rows)' /\ InOrder(pending)'
  BY <1>1 DEF IInv, SinkInv, InOrder
<1>4. Before(Range(rows), Held \cup Range(pending))' /\ Before(Held, Range(pending))'
  BY <1>2 DEF IInv, SinkInv, Before
<1>5. QED
  BY <1>1, <1>2, <1>3, <1>4 DEF IInv, SinkInv

(* Every step keeps the invariant. *)
LEMMA Inductive == IInv /\ [Next]_vars => IInv'
<1> SUFFICES ASSUME IInv, [Next]_vars PROVE IInv'
  OBVIOUS
<1>1. ASSUME NEW f \in Frames, Receive(f) PROVE IInv'
  BY <1>1, ReceiveStep
<1>2. ASSUME NEW k \in todo, Publish(k) \/ PublishFails(k) PROVE IInv'
  BY <1>2, PublishStep, PublishFailsStep
<1>3. CASE LoopStops
  <2>1. LoopInv' /\ OrderInv'
    BY <1>3 DEF LoopStops, IInv, LoopInv, OrderInv, Range, InOrder
  <2>2. QED
    BY <1>3, <2>1, SinkFrame DEF LoopStops, sinkVars, IInv
<1>4. CASE SinkSubscribe \/ SinkClose \/ Shutdown \/ UNCHANGED vars
  <2>1. UNCHANGED loopVars /\ UNCHANGED <<published, pending, handling, rows>>
    BY <1>4 DEF SinkSubscribe, SinkClose, Shutdown, vars, loopVars, sinkVars
  <2>2. QED
    BY <2>1, LoopFrame, SinkFrame DEF IInv
<1>5. CASE SinkTake \/ SinkParse \/ SinkInsert \/ SinkUnsubscribe
  <2>1. UNCHANGED loopVars
    BY <1>5 DEF SinkTake, SinkParse, SinkInsert, SinkUnsubscribe
  <2>2. QED
    BY <1>5, <2>1, LoopFrame, TakeStep, ParseStep, InsertStep, UnsubscribeStep DEF IInv
<1>6. QED
  BY <1>1, <1>2, <1>3, <1>4, <1>5 DEF Next, Loop, Start, Callback

(* The loop before its first message, the sink before it subscribes. *)
LEMMA InitIInv == Init => IInv
<1> SUFFICES ASSUME Init PROVE IInv
  OBVIOUS
<1>1. LoopInv
  BY DEF Init, LoopInv, Frames, FeedEvents
<1>2. OrderInv
  BY DEF Init, OrderInv, InOrder, Range
<1>3. SinkInv
  BY DEF Init, SinkInv, Held, IdleHandler, InOrder, Range, Before
<1>4. QED
  BY <1>1, <1>2, <1>3 DEF IInv

(* The invariant of the loop and of the sink together. *)
THEOREM Invariance == Spec => []IInv
BY InitIInv, Inductive, PTL DEF Spec

(* A message between two rounds of the select has been offered to NATS     *)
(* whole, or not at all when one header did not parse (ingress.go:79).     *)
THEOREM WholeBatches == Spec => []BatchAllOrNothing
<1>1. IInv => BatchAllOrNothing
  BY ParsesAll DEF IInv, LoopInv, BatchAllOrNothing
<1>2. QED
  BY <1>1, Invariance, PTL

(* NATS gets the events in the server's order and none twice, and the rows *)
(* of the sink are published Quotes in that order, whatever was dropped.   *)
THEOREM KeepsOrder == Spec => []PublishedInOrder
<1>1. IInv => PublishedInOrder
  <2> SUFFICES ASSUME IInv PROVE PublishedInOrder
    OBVIOUS
  <2>1. \A i \in DOMAIN rows : rows[i] \in Range(rows)
    BY DEF Range
  <2>2. QED
    BY <2>1 DEF IInv, OrderInv, SinkInv, PublishedInOrder
<1>2. QED
  BY <1>1, Invariance, PTL

-----------------------------------------------------------------------------
(* What TypeOK says beyond the invariant: the bounds, and that the loop is *)
(* inside a message only while events of it are left.                      *)
Bounds ==
    /\ n <= MaxFrames /\ (pc = "publish" => todo # {})
    /\ ctx \in {"live", "done"} /\ sink \in {"built", "running", "unsubscribed", "closed"}
    /\ Len(pending) <= MaxPending

(* NATS drops what is past the limit, and a message is left when its last  *)
(* event is offered.                                                       *)
LEMMA BoundsKept == IInv /\ Bounds /\ [Next]_vars => Bounds'
<1> SUFFICES ASSUME IInv, Bounds, [Next]_vars PROVE Bounds'
  OBVIOUS
<1>1. n \in Nat /\ pending \in Seq(Event) /\ Len(pending) \in Nat /\ MaxFrames \in Nat /\ MaxPending \in Nat
  BY FeedAssumption DEF IInv, LoopInv, SinkInv
<1>2. ASSUME NEW f \in Frames, Receive(f) PROVE Bounds'
  <2>1. n' <= MaxFrames
    BY <1>1, <1>2 DEF Receive
  <2>2. QED
    BY <1>2, <2>1 DEF Receive, sinkVars, Bounds
<1>3. ASSUME NEW k \in todo, Publish(k) PROVE Bounds'
  <2> DEFINE e == FeedEvent(frame, n, k)
  <2>1. e \in Event
    BY EventOf DEF IInv
  <2>2. pending' = pending \/ (Len(pending) < MaxPending /\ pending' = Append(pending, e))
    BY <1>3 DEF Publish
  <2> HIDE DEF e
  <2>3. Len(pending') <= MaxPending
    BY <1>1, <2>1, <2>2 DEF Bounds
  <2>4. QED
    BY <1>3, <2>3 DEF Publish, Offer, Bounds
<1>4. ASSUME NEW k \in todo, PublishFails(k) PROVE Bounds'
  BY <1>4 DEF PublishFails, Offer, sinkVars, Bounds
<1>5. CASE LoopStops
  BY <1>5 DEF LoopStops, sinkVars, Bounds
<1>6. CASE SinkSubscribe \/ SinkClose \/ Shutdown
  BY <1>6 DEF SinkSubscribe, SinkClose, Shutdown, loopVars, sinkVars, Bounds
<1>7. CASE SinkUnsubscribe
  <2>1. pending' = <<>>
    BY <1>7 DEF SinkUnsubscribe
  <2>2. Len(pending') <= MaxPending
    BY <1>1, <2>1
  <2>3. QED
    BY <1>7, <2>2 DEF SinkUnsubscribe, loopVars, Bounds
<1>8. CASE SinkTake
  <2>1. pending # <<>> /\ pending' = Tail(pending)
    BY <1>8 DEF SinkTake
  <2>2. Len(pending') <= MaxPending
    BY <1>1, <2>1 DEF Bounds
  <2>3. QED
    BY <1>8, <2>2 DEF SinkTake, loopVars, Bounds
<1>9. CASE SinkParse \/ SinkInsert
  BY <1>9 DEF SinkParse, SinkInsert, loopVars, Bounds
<1>10. CASE UNCHANGED vars
  BY <1>10 DEF vars, loopVars, sinkVars, Bounds
<1>11. QED
  BY <1>2, <1>3, <1>4, <1>5, <1>6, <1>7, <1>8, <1>9, <1>10 DEF Next, Loop, Start, Callback

(* The types of the loop and the sink; what NATS holds for the sink never  *)
(* exceeds the pending limit.                                              *)
THEOREM TypeCorrect == Spec => []TypeOK
<1>1. Init => Bounds
  BY FeedAssumption DEF Init, Bounds
<1>2. IInv /\ Bounds => TypeOK
  <2> SUFFICES ASSUME IInv, Bounds PROVE TypeOK
    OBVIOUS
  <2>1. n \in 0..MaxFrames
    BY FeedAssumption DEF IInv, LoopInv, Bounds
  <2>2. pc \in {"select", "stopped"} <=> todo = {}
    BY DEF IInv, LoopInv, Bounds
  <2>3. QED
    BY <2>1, <2>2 DEF IInv, LoopInv, SinkInv, Bounds, TypeOK
<1>3. QED
  BY <1>1, <1>2, BoundsKept, Invariance, PTL DEF Spec

=============================================================================
