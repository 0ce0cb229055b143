----------------------------- MODULE Symbology -----------------------------
(***************************************************************************)
(* From a request to streamer symbols: what the tastytrade REST answers    *)
(* become (service/service.go), how a FilterSpec is resolved against an    *)
(* option chain (service/llm/resolver.go), and which related options the   *)
(* server subscribes to at start.                                          *)
(*                                                                         *)
(* An option is a record [exp, days, strike, kind, sym].  Dates and        *)
(* strikes are positive numbers, and Bad is one that does not parse; an    *)
(* empty sym is a missing streamer-symbol.  A window is NoWindow or a      *)
(* record [min, max].                                                      *)
(***************************************************************************)
EXTENDS Integers, Sequences, SequencesExt

CONSTANTS
    Equities,   \* [symbol, streamer] records tastytrade may return
    Chains      \* option chains tastytrade may return

Bad == 0
NoWindow == [min |-> -1, max |-> -1]

Option == [exp : Nat, days : Nat, strike : Nat, kind : {"C", "P"}, sym : STRING]
Window == [min : Int, max : Int]
FilterSpec == [root : STRING, events : Seq(STRING), kind : STRING, expiry : Window,
               strike : Window, includeEquity : BOOLEAN]
Equity == [symbol : STRING, streamer : STRING]

ASSUME SymbologyAssumption == Equities \subseteq Equity /\ Chains \subseteq Seq(Option)

(* getSymbologyURL knows five symbol types. *)
SymbolTypes == {"crypto", "futures", "equities", "options", "futures-options"}

(* GetSymbolData: an unknown type is a bad request; no token provider (as  *)
(* in mock mode), no access token, no connection and a body that is not    *)
(* JSON are internal errors; an error document is passed on as it is.  The *)
(* HTTP status is not looked at.  Other data is for the caller to parse.   *)
RESTAnswers == {"no token", "no connection", "not json", "error document", "other data", "data"}
GetSymbolData(type, tp, answer) ==
    IF type \notin SymbolTypes THEN "bad request"
    ELSE IF ~tp \/ answer \in {"no token", "no connection", "not json"} THEN "internal"
    ELSE IF answer = "error document" THEN "unhandled"
    ELSE answer
GetOptionChain(tp, answer) == GetSymbolData("options", tp, answer)

(* FetchStreamerToken looks at the status and wants a token in the data;   *)
(* it does not look for a missing token provider, as in mock mode.         *)
FetchStreamerToken(tp, answer) ==
    IF ~tp THEN "panic" ELSE IF answer = "data" THEN "data" ELSE "internal"
NoEquity == [symbol |-> "", streamer |-> ""]

(* writeServiceResponse; makeGraceful answers a panic. *)
ServiceStatus(result) ==
    CASE result \in {"data", "other data"} -> 200 [] result = "bad request" -> 400 [] OTHER -> 500

-----------------------------------------------------------------------------
AllowedEvents == {"Quote", "Greeks", "TheoPrice", "Underlying"}

(* The events of a FilterSpec, Quote when it names none. *)
EventTypes(f) == IF f.events = <<>> THEN <<"Quote">> ELSE f.events

(* No option filter at all: a request for the underlying. *)
PureEquity(f) == f.kind = "" /\ f.strike = NoWindow /\ f.expiry = NoWindow
WantEquity(f) == f.includeEquity \/ PureEquity(f)

(* The checks at the top of Resolve, before any symbol is looked up. *)
SpecValid(f) ==
    /\ f.root # ""
    /\ Range(EventTypes(f)) \subseteq AllowedEvents
    /\ f.kind \in {"", "call", "put", "both"}

MatchKind(o, kind) == kind \in {"", "both"} \/ (kind = "call" /\ o.kind = "C") \/ (kind = "put" /\ o.kind = "P")

(* The windows are looked at once the chain is there. *)
WindowsValid(f) ==
    /\ f.expiry # NoWindow => f.expiry.min # Bad /\ f.expiry.max # Bad /\ f.expiry.min <= f.expiry.max
    /\ f.strike # NoWindow => f.strike.min <= f.strike.max

(* Mutant: the upper end of a window is left out. *)
WithinExclusive(x, w) == w = NoWindow \/ (x # Bad /\ w.min <= x /\ x < w.max)

(* A value that does not parse is in no window. *)
Within(x, w) == w = NoWindow \/ (x # Bad /\ w.min <= x /\ x <= w.max)

(* The order of filterOptions; a strike that does not parse counts as zero.*)
OptionLess(a, b) ==
    \/ a.exp < b.exp
    \/ a.exp = b.exp /\ a.strike < b.strike
    \/ a.exp = b.exp /\ a.strike = b.strike /\ a.kind = "C" /\ b.kind = "P"

(* What sort.Slice may make of the places K of a slice: each of them once, *)
(* and none after one it is less than, equal ones in any order (the sort   *)
(* is not stable).  With a comparison that is no weak order the outcome    *)
(* depends on the algorithm, and may be any order.                         *)
WeakOrder(less, K) ==
    \A a, b, c \in K : <<a, b>> \in less =>
        <<b, a>> \notin less /\ (<<a, c>> \in less \/ <<c, b>> \in less)
SortSlice(less, K) ==
    {q \in SetToSeqs(K) :
        WeakOrder(less, K) => \A i, j \in DOMAIN q : i < j => <<q[j], q[i]>> \notin less}

(* The places of the chain filterOptions keeps, and the orders it may      *)
(* leave them in.                                                          *)
Kept(chain, f) ==
    {i \in DOMAIN chain : /\ MatchKind(chain[i], f.kind)
                          /\ Within(chain[i].exp, f.expiry) /\ Within(chain[i].strike, f.strike)
                          /\ chain[i].sym # ""}
FilterOptions(chain, f) ==
    LET kept == Kept(chain, f)
    IN  SortSlice({p \in kept \X kept : OptionLess(chain[p[1]], chain[p[2]])}, kept)

(* The pairs Resolve appends: the k-th symbol with the e-th event is at    *)
(* <<k, e>>, the equity being symbol 0.                                    *)
Subs(f, syms) ==
    [s \in (DOMAIN syms) \X (DOMAIN EventTypes(f)) |-> <<EventTypes(f)[s[2]], syms[s[1]]>>]

(* The orders in which Resolve may have found the options. *)
Found(chain, f) == IF PureEquity(f) THEN {<<>>} ELSE FilterOptions(chain, f)

(* Mutant: the equity's pairs go out with every option. *)
ResolvedEquityRepeated(f, equity, chain) ==
    {Subs(f, [k \in (IF WantEquity(f) THEN (-Len(q))..0 ELSE {}) \cup DOMAIN q |->
                IF k <= 0 THEN equity ELSE chain[q[k]].sym]) : q \in Found(chain, f)}

(* The results Resolve may have, with the answers it got on the way. *)
Resolved(f, equity, chain) ==
    {Subs(f, [k \in (IF WantEquity(f) THEN {0} ELSE {}) \cup DOMAIN q |->
                IF k = 0 THEN equity ELSE chain[q[k]].sym]) : q \in Found(chain, f)}

-----------------------------------------------------------------------------
(* The comparison of GetRelatedOptionSymbols: false when a strike on the   *)
(* same day does not parse, so it is not an order then.                    *)
RelatedLess(a, b) ==
    \/ a.days < b.days
    \/ a.days = b.days /\ a.strike # Bad /\ b.strike # Bad /\ a.strike < b.strike

(* Mutant: the chain is taken in the order it came. *)
RelatedUnsorted(chain) == {[i \in DOMAIN chain |-> i]}

(* The orders in which it may return the chain. *)
RelatedOptions(chain) ==
    LET places == DOMAIN chain
    IN  SortSlice({p \in places \X places : RelatedLess(chain[p[1]], chain[p[2]])}, places)

(* GetStreamSymbols with SymbolMethodNRelatedOptions: the equity's         *)
(* streamer symbol and the first n options; missing ones are kept.         *)
StreamSymbols(streamer, chain, n) ==
    {<<streamer>> \o [i \in 1..(IF n < Len(chain) THEN n ELSE Len(chain)) |-> chain[q[i]].sym] :
        q \in RelatedOptions(chain)}

=============================================================================
