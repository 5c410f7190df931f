-------------------------- MODULE MCSessionRuntime --------------------------
(***************************************************************************)
(* A small instance of SessionRuntime: two hours of one asset, and frames  *)
(* captured before and after the second was registered.                    *)
(***************************************************************************)
EXTENDS SessionRuntime

CONSTANTS btc, c1, c2, file

MCAssets == {btc}
MCHours == {1, 2}
MCConditions == {c1, c2}
MCPaths == {file}

Market(hour, condition) ==
    [asset |-> btc, hour |-> hour, condition |-> condition, valid |-> TRUE]

Frame(now, keys) ==
    [now |-> now, provenance |-> TRUE, ready |-> TRUE,
     sources |-> [k \in keys |->
                     [books |-> TRUE,
                      inProgress |-> [hour |-> now, outcome |-> "Up"],
                      finalized |-> IF now > k[2] THEN [hour |-> k[2], outcome |-> "Up"]
                                    ELSE NoCandle]]]

MCCommands == {
    [op |-> "Register", identity |-> Market(1, c1)],
    [op |-> "Register", identity |-> Market(2, c2)],
    [op |-> "Coordinate", frame |-> Frame(1, {<<btc, 1>>})],
    [op |-> "Coordinate", frame |-> Frame(2, {<<btc, 1>>, <<btc, 2>>})]}
=============================================================================
