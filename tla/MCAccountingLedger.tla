------------------------- MODULE MCAccountingLedger -------------------------
(***************************************************************************)
(* A small instance of AccountingLedger: one market with its two outcomes, *)
(* three reservations, one lock and one command for every kind of step,    *)
(* with amounts that do not divide so that costs are rounded.              *)
(***************************************************************************)
EXTENDS AccountingLedger

CONSTANTS r1, r2, r3, l1, up, down

MCReservationIds == {r1, r2, r3}
MCLockIds == {l1}
MCTokens == {up, down}
MCCondition == [t \in MCTokens |-> "m"]
MCCommandIds == 1..13

MCCommands == {
    [op |-> "FundCollateral", id |-> 1, amount |-> 10],
    [op |-> "FundCollateral", id |-> 1, amount |-> 0],
    [op |-> "ReserveCollateral", id |-> 2, r |-> r1, amount |-> 8],
    [op |-> "ReserveCollateral", id |-> 3, r |-> r2, amount |-> 3],
    [op |-> "ConfirmBuy", id |-> 4, r |-> r1, token |-> up,
        quantity |-> 3, consideration |-> 2, fee |-> 1],
    [op |-> "ConfirmBuy", id |-> 5, r |-> r1, token |-> down,
        quantity |-> 2, consideration |-> 1, fee |-> 0],
    [op |-> "ConfirmSplit", id |-> 6, r |-> r1, up |-> up, down |-> down, quantity |-> 3],
    [op |-> "ConfirmSplit", id |-> 6, r |-> r2, up |-> up, down |-> down, quantity |-> 3],
    [op |-> "LockPair", id |-> 7, l |-> l1, up |-> up, down |-> down, quantity |-> 2],
    [op |-> "ConfirmMerge", id |-> 8, l |-> l1],
    [op |-> "ReserveToken", id |-> 9, r |-> r3, token |-> up, amount |-> 2],
    [op |-> "ConfirmSell", id |-> 10, r |-> r3, quantity |-> 1, gross |-> 2, fee |-> 1],
    [op |-> "ConfirmRedemption", id |-> 11, r |-> r3, quantity |-> 1, payout |-> 1],
    [op |-> "ReleaseReservation", id |-> 12, r |-> r1],
    [op |-> "ReleaseReservation", id |-> 13, r |-> r3]}
=============================================================================
