------------------------------- MODULE MCFeed -------------------------------
(* TLC instance of Feed. *)
EXTENDS Feed

(* Two quotes of a symbol, one whose price is a string; its greeks; the    *)
(* quote of an option; an element with no symbol; one whose symbol reads   *)
(* "NaN".                                                                  *)
Item(e, s, p) == [event |-> e, symbol |-> s, price |-> p]
SomeItems == {Item("Quote", "SPY", "NaN"), Item("Quote", "SPY", "text"),
              Item("Greeks", "SPY", "number"), Item("Quote", ".OPT", "number"),
              Item("Quote", "", "number"), Item("Quote", "NaN", "number")}

=============================================================================
