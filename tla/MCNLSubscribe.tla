--------------------------- MODULE MCNLSubscribe ---------------------------
(* TLC instance of NLSubscribe. *)
EXTENDS NLSubscribe

Opt(e, s, k, sym) == [exp |-> e, days |-> e, strike |-> s, kind |-> k, sym |-> sym]
Win(a, b) == [min |-> a, max |-> b]

(* A chain out of order with an odd date, an odd strike and a missing      *)
(* streamer symbol, and one that names a symbol twice.                     *)
SomeChains == {<<Opt(3, 2, "C", "c32"), Opt(1, 2, "P", "p12"), Opt(1, 2, "C", "c12"),
                 Opt(Bad, 1, "C", "cx1"), Opt(1, Bad, "P", "p1x"), Opt(2, 1, "C", "")>>,
               <<Opt(1, 1, "C", "c11"), Opt(1, 1, "C", "c11")>>}

Filter(r, ev, k, ew, sw, eq) ==
    [root |-> r, events |-> ev, kind |-> k, expiry |-> ew, strike |-> sw, includeEquity |-> eq]
Windows == {NoWindow, Win(1, 2)}
SomeSpecs ==
    {Filter("SPY", <<>>, k, ew, sw, eq) :
        k \in {"", "call", "put"}, ew \in Windows, sw \in Windows, eq \in BOOLEAN}
    \cup {Filter("", <<>>, "", NoWindow, NoWindow, TRUE),
          Filter("SPY", <<"Candle">>, "", NoWindow, NoWindow, TRUE),
          Filter("SPY", <<>>, "straddle", NoWindow, NoWindow, TRUE),
          Filter("SPY", <<"Greeks", "Greeks">>, "call", NoWindow, NoWindow, TRUE),
          Filter("SPY", <<"Quote", "Greeks">>, "both", Win(1, 1), NoWindow, TRUE),
          Filter("SPY", <<>>, "both", NoWindow, Win(2, 1), FALSE),
          Filter("SPY", <<>>, "both", Win(2, 1), NoWindow, FALSE),
          Filter("SPY", <<>>, "both", Win(Bad, 2), NoWindow, FALSE)}
(* NoEquity is what data: null is read as. *)
SomeEquities == {[symbol |-> "SPY", streamer |-> ""], [symbol |-> "SPY", streamer |-> "SPY.s"], NoEquity}
SomePairs == {<<"", "SPY">>, <<"Quote", "c12">>, <<"Quote", "">>}

=============================================================================
