--------------------------- MODULE MCDurableLedger ---------------------------
(***************************************************************************)
(* A small instance of DurableLedger: commands that depend on each other,  *)
(* so that replaying them in another order or skipping one changes the     *)
(* books, and one that reuses an id with other content.                    *)
(***************************************************************************)
EXTENDS DurableLedger

CONSTANTS r1, l1, up, down

MCReservationIds == {r1}
MCLockIds == {l1}
MCTokens == {up, down}
MCCondition == [t \in MCTokens |-> "m"]
MCCommandIds == 1..4

MCCommands == {
    [op |-> "FundCollateral", id |-> 1, amount |-> 5],
    [op |-> "FundCollateral", id |-> 1, amount |-> 6],
    [op |-> "ReserveCollateral", id |-> 2, r |-> r1, amount |-> 4],
    [op |-> "ConfirmBuy", id |-> 3, r |-> r1, token |-> up,
        quantity |-> 3, consideration |-> 2, fee |-> 1],
    [op |-> "ReleaseReservation", id |-> 4, r |-> r1]}
=============================================================================
