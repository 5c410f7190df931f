--------------------------- MODULE MCMarketCapture ---------------------------
(***************************************************************************)
(* A small instance of MarketCapture: the two tokens of one market, or one *)
(* of them, a snapshot of one, a message that brings the other and crosses *)
(* its book, and a best price that disagrees.  One tick of the clock is    *)
(* longer than the staleness budget.                                       *)
(***************************************************************************)
EXTENDS MarketCapture

CONSTANTS up, down

MCTokens == {up, down}
Book(t, bid, ask) ==
    [kind |-> "book", token |-> t, bids |-> <<<<bid, 1>>>>, asks |-> <<<<ask, 1>>>>]
Change(t, side, price, quantity) ==
    [token |-> t, side |-> side, price |-> price, quantity |-> quantity]
Changes(changes) == [kind |-> "price_change", changes |-> changes]

MCMessages == {
    <<Book(up, 1, 3)>>,
    <<Book(down, 1, 3), Changes(<<Change(up, "Bid", 2, 1), Change(down, "Bid", 3, 1)>>)>>,
    <<[kind |-> "best_bid_ask", token |-> up, bid |-> 1, ask |-> 2]>>}
MCMaxClock == [segments \in BOOLEAN |-> IF segments THEN 0 ELSE 1]
MCSubscriptions == {{up}, {up, down}}
=============================================================================
