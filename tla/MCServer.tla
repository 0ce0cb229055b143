------------------------------ MODULE MCServer ------------------------------
(* TLC instance of Server. *)
EXTENDS Server

Opt(d, s, sym) == [exp |-> d, days |-> d, strike |-> s, kind |-> "C", sym |-> sym]
SomeEquities == {[symbol |-> "SPY", streamer |-> "SPY"], NoEquity}
SomeChains == {<<Opt(2, 1, "21"), Opt(1, 3, "13"), Opt(1, 2, "12")>>,
               <<Opt(1, Bad, "1x"), Opt(1, 1, "11")>>,
               <<Opt(3, 1, ""), Opt(1, 1, ""), Opt(2, 1, "21")>>}

=============================================================================
