----------------------------- MODULE MCEngines ------------------------------
(***************************************************************************)
(* Every engine on a small story of its own, under its journal-first       *)
(* owner: the trading path, the paired strategy, and the certification and *)
(* governance engines.                                                     *)
(***************************************************************************)
EXTENDS TradingEngines, TLC

(***************************************************************************)
(* Commands for the engines of the trading path: one order of two units    *)
(* that is approved, reserved, permitted, partly filled and canceled, and  *)
(* requests to the risk authority around its limits.                       *)
(***************************************************************************)
\* paper-trading-runtime.
PtrQuantities == [o \in {"o1"} |-> 2]
PtrTrade(i, q) == [order |-> "o1", index |-> i, quantity |-> q]
PtrOp(op, at) == [op |-> op, id |-> <<op, at>>, at |-> at, order |-> "o1", granted |-> TRUE]
PtrGate(v, at) == [ready |-> TRUE, version |-> v, at |-> at]
PtrDecision(kind, at) == [kind |-> kind, order |-> "o1", granted |-> TRUE, at |-> at]
PtrEvent(op, at, event, q) ==
    [id |-> <<event, at>>, event |-> event, quantity |-> q, until |-> at + 1] @@ PtrOp(op, at)
PtrObserve(at, event, q) == PtrEvent("Observe", at, event, q)
PtrCommands == {
    PtrOp("Deposit", 1),
    PtrOp("Reconcile", 2) @@ [version |-> 1, intents |-> {}],
    PtrOp("InjectFault", 3) @@ [fault |-> "BeforeExecution"],
    PtrOp("Risk", 3) @@ [version |-> 1, gate |-> PtrGate(1, 2)],
    PtrOp("Reserve", 4) @@ [amount |-> 2],
    PtrOp("Authorize", 5) @@ [approval |-> PtrDecision("risk", 3)],
    PtrOp("Submit", 6) @@ [permit |-> PtrDecision("place", 5)],
    PtrObserve(7, "Delayed", 0), PtrObserve(8, "Live", 0),
    PtrObserve(8, "Rejected", 0), PtrObserve(9, "Match", 1),
    PtrOp("AuthorizeCancel", 9), PtrOp("ObserveMode", 5), PtrEvent("Mark", 10, "Terminal", 0),
    PtrOp("RequestCancel", 10) @@ [permit |-> PtrDecision("cancel", 9)],
    PtrObserve(11, "Match", 1), PtrObserve(12, "CancelAccepted", 0),
    PtrOp("RegisterHandoff", 13) @@ [index |-> 1],
    PtrOp("ObserveTrade", 14) @@ [trade |-> PtrTrade(1, 1), status |-> "Matched"],
    PtrOp("Confirm", 14) @@ [trade |-> PtrTrade(1, 1)],
    PtrOp("Release", 15)}
PtrStrays == {PtrOp("Deposit", 1)}

\* portfolio-risk: two markets of one group; an open sale and a candidate around the
\* limits.  Then a candidate alone in one market, with limits other than the capital floor
\* out of reach: a purchase whose every enumerated fill just reaches the floor while the
\* small fills are rounded one micro below it, and a sale that is below it until it is
\* filled.  MICROS_PER_UNIT is 4.
PrUnit == 4
PrBasis == 4
PrHardMax == [orders |-> 3, candidates |-> 2, markets |-> 2, shocks |-> 2, scenarios |-> 72]
PrMarkets == {[condition |-> "m1", up |-> "u1", down |-> "d1", group |-> "g"],
              [condition |-> "m2", up |-> "u2", down |-> "d2", group |-> "g"]}
PrOrder(id, side, token, price, fee) ==
    [id |-> id, side |-> side, token |-> token, quantity |-> 4, partial |-> 2,
     price |-> price, fee |-> fee]
PrLimits == [floor |-> 0, operational |-> 0, settlement |-> 0, gross |-> 12, condition |-> 6,
             group |-> 8, reservedCash |-> 4, available |-> 4, reserved |-> 3, locked |-> 4,
             age |-> 2, orders |-> 1, scenarios |-> 72]
PrLedger == [digest |-> "v", halted |-> FALSE, cash |-> 4, cashReserved |-> 0,
             available |-> ("d1" :> 2), reserved |-> ("u1" :> 4), locked |-> <<>>]
PrGate(at) == [ready |-> TRUE, at |-> at, digest |-> at, ledger |-> "v"]
PrRequest(at, candidate, limits) ==
    [gate |-> PrGate(at), ledger |-> PrLedger, markets |-> PrMarkets,
     open |-> {PrOrder("o1", "Sell", "u1", 2, 1)}, candidates |-> {candidate},
     shocks |-> {("g" :> 4), ("g" :> 2)}, limits |-> limits]
PrAlone(at, candidate, available, floor) ==
    [PrRequest(at, candidate, [PrLimits EXCEPT !.floor = floor, !.reserved = 4, !.gross = 30,
                                               !.condition = 30, !.group = 30])
     EXCEPT !.markets = {m \in PrMarkets : m.condition = "m1"}, !.open = {}, !.shocks = {("g" :> 4)},
            !.ledger.cash = 7, !.ledger.available = available, !.ledger.reserved = <<>>]
PrLarge(order) == [order EXCEPT !.quantity = 8, !.partial = 4]
PrCommand(id, at, request) == [op |-> "Evaluate", id |-> id, at |-> at, recorded |-> at, request |-> request]
PrCommands == {
    PrCommand(1, 1, PrRequest(1, PrOrder("o2", "Buy", "u1", 3, 1), [PrLimits EXCEPT !.condition = 5])),
    PrCommand(2, 1, [PrRequest(1, PrOrder("o2", "Buy", "u2", 4, 8), [PrLimits EXCEPT !.gross = 60])
                     EXCEPT !.ledger.locked = ("u1" :> 20) @@ ("d1" :> 20)]),
    PrCommand(3, 2, PrRequest(2, PrOrder("o2", "Buy", "u2", 3, 1), PrLimits)),
    PrCommand(4, 3, PrAlone(2, PrLarge(PrOrder("o2", "Buy", "u1", 3, 1)), ("d1" :> 7), 7)),
    PrCommand(8, 4, PrAlone(2, PrLarge(PrOrder("o2", "Sell", "u1", 4, 0)), ("u1" :> 8), 8)),
    PrCommand(5, 3, PrRequest(0, PrOrder("o2", "Buy", "u2", 3, 1), PrLimits)),
    PrCommand(7, 5, PrRequest(2, PrOrder("o2", "Buy", "u2", 3, 1), PrLimits))}
PrStrays == {PrCommand(5, 3, PrRequest(0, PrOrder("o2", "Buy", "u2", 3, 1), PrLimits))}

-----------------------------------------------------------------------------
(***************************************************************************)
(* Commands for the engines of the paired strategy.                        *)
(***************************************************************************)
\* Contexts: a market whose pair is bought below one unit (4) at the ask.
Lvl(p, q) == {[price |-> p, quantity |-> q]}
PairBooks(up, down) ==
    [up |-> [authoritative |-> TRUE, bid |-> Lvl(up - 1, 8), ask |-> Lvl(up, 8)],
     down |-> [authoritative |-> TRUE, bid |-> Lvl(down - 1, 8), ask |-> Lvl(down, 8)]]
PairContext(at, until, books) ==
    [captured |-> at, until |-> until, authentic |-> TRUE, current |-> TRUE, ready |-> TRUE, books |-> books]

\* strategy-proposal.
SpMaxOf == [validity |-> 3, quantity |-> 8, fee |-> 2]
SpSession == [key |-> "h1", end |-> 9, phase |-> "ActiveReady"]
SpFrame(at) == [now |-> at, supervised |-> TRUE, books |-> ("h1" :> PairBooks(1, 2))]
SpView(at, until) ==
    [at |-> at, until |-> until, frame |-> SpFrame(at), session |-> SpSession,
     coordinator |-> [evaluated |-> at, applied |-> SpFrame(at), sessions |-> {SpSession},
                      current |-> "h1", halted |-> FALSE]]
SpCommand(id, at, view, proposal, token, expires) ==
    [op |-> "Evaluate", id |-> id, at |-> at, view |-> view,
     intent |-> [proposal |-> proposal, token |-> token, side |-> "Buy", quantity |-> 4, partial |-> 1,
                 price |-> 1, fee |-> 1, evaluated |-> at, expires |-> expires]]
SpCommands == {
    SpCommand(1, 1, SpView(1, 3), "p1", "up", 4), SpCommand(2, 2, SpView(1, 3), "p1", "up", 4),
    SpCommand(3, 3, SpView(2, 3), "p2", "down", 2), SpCommand(4, 4, SpView(2, 3), "p3", "down", 4),
    SpCommand(5, 5, SpView(5, 7), "p2", "down", 9), SpCommand(6, 6, SpView(5, 7), "p4", "side", 9)}
SpStrays == {SpCommand(2, 2, SpView(1, 3), "p1", "up", 4), SpCommand(9, 5, SpView(1, 3), "p9", "up", 9)}

\* complete-set-arbitrage.
CsaCeiling == [quantity |-> 8, cost |-> 8, fee |-> 2, roi |-> 8]
CsaRequest(e, direction, context, at, fee) ==
    [evaluation |-> e, direction |-> direction, context |-> context, evaluated |-> at, expires |-> at + 2,
     constraints |-> [min |-> 2, max |-> 7, partial |-> 1, upFee |-> fee, downFee |-> 0,
                      conversion |-> 0, profit |-> 1, roi |-> 1]]
CsaCommand(id, r) == [op |-> "Evaluate", id |-> id, at |-> r.evaluated, request |-> r]
CsaCommands == {
    CsaCommand(1, CsaRequest("e1", "BuyPair", PairContext(1, 4, PairBooks(1, 2)), 1, 0)),
    CsaCommand(2, CsaRequest("e1", "BuyPair", PairContext(1, 4, PairBooks(1, 2)), 2, 0)),
    CsaCommand(3, CsaRequest("e2", "BuyPair", PairContext(2, 4, PairBooks(1, 2)), 2, 1)),
    CsaCommand(4, CsaRequest("e3", "BuyPair", PairContext(2, 4, PairBooks(2, 2)), 3, 0)),
    CsaCommand(5, CsaRequest("e4", "SellPair", PairContext(4, 6, PairBooks(4, 3)), 5, 0)),
    CsaCommand(6, CsaRequest("e5", "BuyPair", PairContext(4, 6, PairBooks(1, 2)), 7, 0))}
CsaStrays == {CsaCommand(2, CsaRequest("e1", "BuyPair", PairContext(1, 4, PairBooks(1, 2)), 2, 0))}

\* paired-opportunity-runtime: the risk frame's one market has the tokens up and down.
PorFrame(at, cash) ==
    [gate |-> PrGate(at),
     ledger |-> [digest |-> "v", halted |-> FALSE, cash |-> cash, cashReserved |-> 0,
                 available |-> <<>>, reserved |-> <<>>, locked |-> <<>>],
     markets |-> {[condition |-> "m", up |-> "up", down |-> "down", group |-> "g"]},
     open |-> {}, candidates |-> {}, shocks |-> {("g" :> 4)}, limits |-> [PrLimits EXCEPT !.gross = 16]]
PorCommand(id, detector, r, frame) ==
    [op |-> "Evaluate", id |-> id, at |-> r.evaluated, detector |-> detector, request |-> r, frame |-> frame]
PorCommands == {
    PorCommand(1, "a1", CsaRequest("e1", "BuyPair", PairContext(1, 4, PairBooks(1, 2)), 1, 0), PorFrame(1, 8)),
    PorCommand(2, "a2", CsaRequest("e2", "BuyPair", PairContext(1, 4, PairBooks(1, 2)), 2, 0), PorFrame(1, 4)),
    PorCommand(3, "a2", CsaRequest("e3", "BuyPair", PairContext(2, 4, PairBooks(2, 2)), 3, 0), PorFrame(2, 8)),
    PorCommand(4, "a4", CsaRequest("e4", "BuyPair", PairContext(4, 6, PairBooks(1, 2)), 4, 0), PorFrame(4, 7))}
PorStrays == {PorCommand(5, "a1", CsaRequest("e1", "BuyPair", PairContext(1, 4, PairBooks(1, 2)), 2, 0), PorFrame(1, 8))}

\* paired-capital-staging: a leg of four tokens at one half costs two, and its fee.
PairLeg(id, token, fee) ==
    [id |-> id, token |-> token, side |-> "Buy", price |-> 2, quantity |-> 4, fee |-> fee, expires |-> 90]
PairLegs(decision, fee) == <<PairLeg(<<decision, 1>>, "up", fee), PairLeg(<<decision, 2>>, "down", 0)>>
PcsStage(at, decision, version, fee, answer) ==
    [op |-> "Stage", id |-> at, at |-> at, decision |-> decision, version |-> version, answer |-> answer,
     legs |-> PairLegs(decision, fee)]
PcsFund(at, amount) == [op |-> "Fund", id |-> at, at |-> at, amount |-> amount]
PcsCommands == {
    PcsFund(1, 9), PcsStage(2, "d1", 1, 1, "RiskEligible"), PcsStage(3, "d2", 3, 1, "NoTrade"),
    PcsStage(4, "d3", 3, 0, "RiskEligible"), PcsStage(5, "d4", 5, 3, "RiskEligible"),
    [op |-> "Abort", id |-> 6, at |-> 6, stage |-> "d1"], PcsFund(7, 1),
    [op |-> "Abort", id |-> 8, at |-> 8, stage |-> "d3"],
    [op |-> "InjectFault", id |-> 9, at |-> 9],
    PcsStage(10, "d5", 7, 1, "RiskEligible")}
PcsStrays == {[op |-> "Abort", id |-> 8, at |-> 8, stage |-> "d3"], PcsStage(11, "d6", 7, 1, "RiskEligible")}

-----------------------------------------------------------------------------
(***************************************************************************)
(* paired-placement-policy: a pair staged at 3 of which both legs, or one, *)
(* or none are matched                                                     *)
(***************************************************************************)
PppLife == 6
PairFund(amount) == [op |-> "Fund", id |-> 0, at |-> 0, amount |-> amount]
PairMode(at, sequence, normal) ==
    [op |-> "ObserveMode", id |-> 50 + at, at |-> at,
     mode |-> [sequence |-> sequence, observed |-> at, until |-> at + 4, normal |-> normal]]
PairFirst(at, leg, until) ==
    [op |-> "AuthorizeFirst", id |-> 60 + at, at |-> at, stage |-> "d1", leg |-> leg, modeAge |-> 3, until |-> until]
PairHedge(at, until) ==
    [op |-> "AuthorizeHedge", id |-> 70 + at, at |-> at, stage |-> "d1", modeAge |-> 3, until |-> until]
PairPermit(leg, role, from, until, mode) ==
    [stage |-> "d1", leg |-> leg, role |-> role, from |-> from, until |-> until, mode |-> mode]
PppObserve(id, at, leg, permit, s, sequence) ==
    [op |-> "ObserveLeg", id |-> id, at |-> at, stage |-> "d1", leg |-> leg, permit |-> permit, state |-> s,
     sequence |-> sequence, observed |-> at]
PppFirst == PairPermit(1, "First", 4, 8, 1)
PppHedge == PairPermit(2, "Hedge", 7, 9, 1)
PppCommands ==
    {PairFund(9), PcsStage(3, "d1", 1, 1, "RiskEligible"), PairMode(4, 1, TRUE),
     PairFirst(4, 1, 8), 
     PppObserve(21, 5, 1, PppFirst, "Submitted", 1), PppObserve(22, 5, 1, PppFirst, "Unknown", 1),
     PppObserve(23, 6, 1, PppFirst, "FullyMatched", 2), PppObserve(24, 6, 1, PppFirst, "PartiallyMatched", 2),
     PppObserve(25, 7, 1, PppFirst, "Unknown", 3), PppObserve(26, 8, 1, PppFirst, "NoFillTerminal", 4),
     PppObserve(27, 8, 1, PppFirst, "PartiallyMatchedTerminal", 4),
     PairHedge(7, 9), PppObserve(28, 8, 2, PppHedge, "Submitted", 1),
     [op |-> "Expire", id |-> 9, at |-> 9, stage |-> "d1"],
     [op |-> "AbortSafe", id |-> 10, at |-> 10, stage |-> "d1"]}
PppStrays == {PppObserve(23, 6, 1, PppFirst, "FullyMatched", 2), PairHedge(7, 9)}

-----------------------------------------------------------------------------
(***************************************************************************)
(* paired-paper-execution: the first leg's order is matched, or matched in *)
(* part and lost sight of                                                  *)
(***************************************************************************)
PairSubmit(id, at, permit) == [op |-> "Submit", id |-> id, at |-> at, permit |-> permit]
PairCancel(id, at, leg) == [op |-> "RequestCancel", id |-> id, at |-> at, stage |-> "d1", leg |-> leg]
PairReport(id, at, leg, event, sequence) ==
    [op |-> "Observe", id |-> id, at |-> at, stage |-> "d1", leg |-> leg, event |-> event, sequence |-> sequence,
     time |-> at, received |-> at, exchange |-> {"x"}, release |-> 0, hold |-> 0, fully |-> FALSE, fill |-> {}]
PairFill(id, at, leg, sequence, quantity, cost, before, costs) ==
    [PairReport(id, at, leg, "Match", sequence) EXCEPT
        !.fully = (before + quantity = 4),
        !.fill = [id |-> id, ledger |-> id, quantity |-> quantity, consideration |-> cost, fee |-> 0,
                  quantities |-> before + quantity, considerations |-> costs + cost, fees |-> 0]]
PpeCommands ==
    {PairFund(9), PcsStage(3, "d1", 1, 1, "RiskEligible"), PairMode(4, 1, TRUE), PairFirst(4, 1, 8),
     PairSubmit(21, 5, PppFirst),
     [PairReport(22, 5, 1, "Delayed", 1) EXCEPT !.release = 6, !.hold = 7],
     PairReport(23, 6, 1, "Live", 2),
     PairFill(25, 6, 1, 3, 2, 1, 0, 0), PairFill(27, 6, 1, 5, 4, 2, 0, 0),
     PairReport(28, 6, 1, "Unknown", 6), PairReport(29, 7, 1, "Live", 7),
     PairCancel(30, 7, 1), PairReport(31, 8, 1, "CancelAccepted", 8), PairReport(32, 8, 1, "CancelRejected", 8),
     PairHedge(7, 9), PairSubmit(34, 8, PppHedge), PairFill(35, 8, 2, 1, 4, 2, 0, 0),
     [op |-> "AbortSafe", id |-> 10, at |-> 10, stage |-> "d1"]}
PpeStrays == {PairReport(31, 8, 1, "CancelAccepted", 8)}

-----------------------------------------------------------------------------
(***************************************************************************)
(* paired-settlement-runtime: both legs are matched, a trade fails or both *)
(* are posted and locked; or the hedge is rejected                         *)
(***************************************************************************)
PsrGrace == 20
PairReconcile(id, at, agrees) == [op |-> "Reconcile", id |-> id, at |-> at, agrees |-> agrees, evaluated |-> at]
PairTrade(id, at, fill, status) ==
    [op |-> "ObserveTrade", id |-> id, at |-> at, fill |-> fill, status |-> status, updated |-> at]
PairRegister(id, at, leg, fill) ==
    [op |-> "RegisterHandoff", id |-> id, at |-> at, stage |-> "d1", leg |-> leg, fill |-> fill]
PairPost(id, at, fill) == [op |-> "PostConfirmed", id |-> id, at |-> at, fill |-> fill]
PairFinalize(id, at) == [op |-> "FinalizeStage", id |-> id, at |-> at, stage |-> "d1"]
PairMatched ==
    {PairFund(9), PairReconcile(20, 2, TRUE), PcsStage(3, "d1", 1, 1, "RiskEligible"), PairMode(4, 1, TRUE),
     PairFirst(4, 1, 8), PairSubmit(21, 5, PppFirst), PairFill(27, 6, 1, 1, 4, 2, 0, 0),
     PairHedge(7, 9), PairSubmit(34, 8, PppHedge)}
PsrCommands == PairMatched \cup
    {PairFill(35, 8, 2, 1, 4, 2, 0, 0), PairReport(36, 9, 2, "Rejected", 2),
     PairRegister(40, 10, 1, 27), PairTrade(41, 11, 27, "Matched"), PairTrade(42, 12, 27, "Mined"),
     PairTrade(43, 13, 27, "Confirmed"), PairPost(44, 14, 27),
     PairTrade(45, 13, 27, "Retrying"), PairTrade(46, 14, 27, "Failed"),
     PairRegister(50, 10, 2, 35), PairTrade(51, 11, 35, "Matched"), PairTrade(52, 12, 35, "Mined"),
     PairTrade(53, 13, 35, "Confirmed"), PairPost(54, 14, 35),
     PairReconcile(60, 15, TRUE),
     [op |-> "LockCompletePair", id |-> 61, at |-> 16, stage |-> "d1", lock |-> "l1", quantity |-> 3],
     PairReconcile(62, 17, TRUE), PairFinalize(63, 18)}
PsrStrays == {PairPost(44, 14, 27), PairFinalize(63, 18)}

-----------------------------------------------------------------------------
(***************************************************************************)
(* ctf-transaction-runtime: a split, two merges of one lock and a          *)
(* redemption                                                              *)
(***************************************************************************)
CtfRequest(at, conversion, request) ==
    [op |-> "RequestConversion", id |-> 80 + at, at |-> at, conversion |-> conversion, request |-> request]
CtfReport(id, at, conversion, event, sequence) ==
    [op |-> "ObserveConversion", id |-> id, at |-> at, conversion |-> conversion, event |-> event,
     sequence |-> sequence, time |-> at, received |-> at, external |-> {conversion}, note |-> "n"]
CtfMerge == [kind |-> "Merge", lock |-> "l1", up |-> "up", down |-> "down", quantity |-> 2]
CtfCommands ==
    {PairFund(5), PairReconcile(20, 1, TRUE),
     CtfRequest(2, "s", [kind |-> "Split", up |-> "up", down |-> "down", quantity |-> 4]),
     CtfReport(21, 3, "s", "Pending", 1), CtfReport(22, 3, "s", "Retrying", 2), CtfReport(23, 4, "s", "Failed", 3),
     CtfReport(24, 4, "s", "Confirmed", 3), CtfReport(25, 5, "s", "Confirmed", 4), PairReconcile(26, 5, TRUE),
     CtfRequest(6, "m1", CtfMerge), CtfReport(27, 7, "m1", "Pending", 1), PairReconcile(28, 7, TRUE),
     CtfReport(29, 8, "m1", "Failed", 2), CtfReport(30, 8, "m1", "Confirmed", 2),
     CtfRequest(9, "m2", CtfMerge), CtfReport(31, 10, "m2", "Pending", 1), CtfReport(32, 11, "m2", "Confirmed", 2),
     PairReconcile(33, 11, TRUE),
     CtfRequest(12, "r", [kind |-> "Redemption", token |-> "up", quantity |-> 2, payout |-> 1]),
     CtfReport(34, 13, "r", "Pending", 1), CtfReport(35, 14, "r", "Confirmed", 2)}
CtfStrays == {CtfReport(24, 4, "s", "Confirmed", 3), CtfReport(30, 8, "m1", "Confirmed", 2)}

-----------------------------------------------------------------------------
(***************************************************************************)
(* unified-paired-trading-runtime: a pair from its money to its merge      *)
(***************************************************************************)
UptStage == [PcsStage(3, "d1", 0, 1, "RiskEligible") EXCEPT !.op = "EvaluateAndStage"]
UptOrder(c) == [c EXCEPT !.op = "ObserveOrder"]
UptPost(id, at, leg, fill) ==
    [op |-> "PostConfirmed", id |-> id, at |-> at, stage |-> "d1", leg |-> leg, fill |-> fill]
UptCommands ==
    {PairFund(9), PairReconcile(20, 2, TRUE), UptStage, PairMode(4, 1, TRUE),
     [PairFirst(4, 1, 8) EXCEPT !.op = "AuthorizeAndSubmitFirst"],
     UptOrder(PairFill(27, 6, 1, 1, 4, 2, 0, 0)),
     [op |-> "InjectFault", id |-> 28, at |-> 6],
     [PairHedge(7, 9) EXCEPT !.op = "AuthorizeAndSubmitHedge"],
     UptOrder(PairFill(35, 8, 2, 1, 4, 2, 0, 0)), UptOrder(PairReport(36, 9, 2, "Rejected", 2)),
     PairRegister(40, 10, 1, 27), PairTrade(41, 11, 27, "Matched"), PairTrade(42, 12, 27, "Mined"),
     PairTrade(43, 13, 27, "Confirmed"), UptPost(44, 14, 1, 27),
     PairRegister(50, 10, 2, 35), PairTrade(51, 11, 35, "Matched"), PairTrade(52, 12, 35, "Mined"),
     PairTrade(53, 13, 35, "Confirmed"), UptPost(54, 14, 2, 35),
     PairReconcile(60, 15, TRUE),
     [op |-> "LockCompletePair", id |-> 61, at |-> 16, stage |-> "d1", lock |-> "l1", quantity |-> 2],
     PairReconcile(62, 17, TRUE), PairFinalize(63, 18), PairReconcile(64, 18, TRUE),
     CtfRequest(19, "m1", CtfMerge), CtfReport(65, 20, "m1", "Pending", 1), CtfReport(66, 21, "m1", "Confirmed", 2)}
UptStrays == {UptPost(44, 14, 1, 27), CtfReport(66, 21, "m1", "Confirmed", 2)}

-----------------------------------------------------------------------------
(***************************************************************************)
(* Commands for the two authorities over single orders.                    *)
(***************************************************************************)
\* order-intent-policy: two orders, one approval offered for both, a permit that
\* expires, a delay with a release before the end of its uncancellable interval, and
\* modes that change and come late.  MICROS_PER_UNIT is 10.
OipOrders == {"o1", "o2"}
OrderUnit == 10
OipMode(at, seq, m) ==
    [op |-> "ObserveMode", id |-> <<"mode", at, seq>>, at |-> at,
     observation |-> [sequence |-> seq, mode |-> m, observed |-> seq, validUntil |-> 9]]
OipOrder(o) == [id |-> o, token |-> "t", quantity |-> 3, price |-> 5, fee |-> 1]
OipPlace(at, o, approval, expires) ==
    [op |-> "AuthorizePlacement", id |-> <<"place", o, approval>>, at |-> at,
     request |-> [approval |-> [digest |-> approval, authentic |-> TRUE, approved |-> TRUE,
                                order |-> OipOrder(o), evaluated |-> 1],
                  order |-> OipOrder(o), venue |-> "v", postOnly |-> TRUE, marketable |-> FALSE,
                  tif |-> [kind |-> "Gtc", expires |-> 0],
                  signer |-> [venue |-> "v", tokens |-> {"t"}, maxQuantity |-> 3, maxPrice |-> 5,
                              maxNotional |-> 3, maker |-> TRUE, taker |-> FALSE, from |-> 0,
                              until |-> 9],
                  maxApprovalAge |-> 3, maxModeAge |-> 5, expires |-> expires]]
OipOp(op, at) == [op |-> op, id |-> <<op, at>>, at |-> at, order |-> "o1"]
OipCancel(at) ==
    [op |-> "AuthorizeCancel", id |-> <<"cancel", at>>, at |-> at, order |-> "o1", maxModeAge |-> 5]
OipDelay(id, release, until) ==
    [op |-> "MarkDelayed", id |-> <<"delay", id>>, at |-> 3, order |-> "o1", release |-> release,
     uncancellableUntil |-> until]
OipStrays == {OipPlace(2, "o1", "a1", 4), OipMode(4, 1, "Normal")}
OipCommands == {
    OipMode(1, 1, "Normal"), OipMode(4, 3, "Restarting"),
    OipPlace(2, "o1", "a1", 4), OipPlace(3, "o1", "a2", 9), OipPlace(3, "o2", "a1", 9),
    OipDelay(1, 5, 7),
    OipOp("MarkLive", 4), OipOp("MarkLive", 5), OipOp("MarkTerminal", 6),
    OipCancel(3), OipCancel(6), OipCancel(7)} \cup OipStrays

\* paper-execution: one order that is delayed, filled in three parts or at once, lost,
\* canceled or rejected in any order the clock allows, a replayed permit and a
\* submission without a valid name.
PexPlacement(o) == [order |-> o, side |-> "Buy", quantity |-> 3, price |-> 5, maxFee |-> 1,
                    evaluated |-> 1, expires |-> 4]
PexSubmit(at, d, permitted, o, named) ==
    [op |-> "Submit", id |-> <<"submit", at, d>>, at |-> at, placement |-> PexPlacement(o),
     named |-> named,
     permit |-> [digest |-> d, authentic |-> TRUE, grants |-> "Place", order |-> permitted,
                 subject |-> PexPlacement(permitted)]]
PexCancel(at, d) ==
    LET r == [order |-> "o1", evaluated |-> at]
    IN  [op |-> "RequestCancel", id |-> <<"cancel", at>>, at |-> at, request |-> r,
         permit |-> [digest |-> d, authentic |-> TRUE, grants |-> "Cancel", order |-> "o1",
                     subject |-> r]]
PexObserve(at, seq, x, event) ==
    [op |-> "Observe", id |-> <<"observe", at, seq, event.kind>>, at |-> at, order |-> "o1",
     sequence |-> seq, exchange |-> x, event |-> event, eventTime |-> at, receivedTime |-> at,
     named |-> TRUE]
PexKind(k) == [kind |-> k]
PexFill(f, q, cost, total, totalCost, l) ==
    [kind |-> "Match", fully |-> total = 3,
     fill |-> [id |-> f, quantity |-> q, consideration |-> cost, fee |-> 0,
               totalQuantity |-> total, totalConsideration |-> totalCost, totalFee |-> 0,
               ledger |-> l]]
PexStrays == {PexSubmit(2, "p2", "o2", "o2", FALSE)}
PexCommands == {
    PexSubmit(1, "p1", "o1", "o1", TRUE), PexSubmit(3, "p1", "o1", "o1", TRUE),
    PexCancel(2, "p2"), PexCancel(5, "p3"),
    PexObserve(2, 1, {}, [kind |-> "Delayed", release |-> 5, uncancellableUntil |-> 6]),
    PexObserve(3, 2, {"x1"}, PexKind("Acknowledged")),
    PexObserve(5, 4, {"x1"}, PexKind("Live")),
    PexObserve(2, 2, {"x1"}, PexFill("f1", 1, 1, 1, 1, "l1")),
    PexObserve(5, 5, {"x1"}, PexFill("f2", 1, 1, 2, 2, "l2")),
    PexObserve(7, 8, {}, PexFill("f3", 1, 1, 3, 3, "l3")),
    PexObserve(7, 9, {"x1"}, PexFill("f4", 2, 1, 3, 2, "l1")),
    PexObserve(6, 6, {}, PexKind("Unknown")),
    PexObserve(6, 7, {}, PexKind("CancelRejected")), PexObserve(8, 10, {}, PexKind("CancelAccepted")),
    PexObserve(8, 11, {}, PexKind("Rejected"))} \cup PexStrays

-----------------------------------------------------------------------------
(***************************************************************************)
(* Commands for settlement-reconciliation: one trade with every lifecycle  *)
(* step (retries, a second transaction, a failure), a second intended      *)
(* trade, and frames before, inside and after the grace.                   *)
(***************************************************************************)
SrTrades == {"t1", "t2"}
SrGrace == 2
SrMaxIntents == 2
SrMaxLog == 6
SrRegister(i, t, k) ==
    [op |-> "RegisterIntent", id |-> <<"intent", i, k, 0>>, at |-> 0,
     intent |-> [id |-> i, trade |-> t, command |-> k, facts |-> "e1"]]
SrObserve(t, e, status, hash, updated) ==
    [op |-> "ObserveTrade", id |-> <<t, status, hash, updated>>, at |-> 0,
     observation |-> [trade |-> t, facts |-> e, status |-> status, hash |-> hash,
                      matched |-> 1, updated |-> updated]]
SrFrame(at, accepted, digest, present, block, hash, holdings) ==
    [op |-> "Reconcile", id |-> <<"frame", digest, hash, at>>, at |-> 0,
     frame |-> [ledger |-> [accepted |-> accepted, digest |-> digest, halted |-> FALSE,
                            holdings |-> "full", present |-> present],
                chain |-> [ours |-> TRUE, block |-> block, hash |-> hash, finalized |-> at,
                           observed |-> at, holdings |-> holdings],
                evaluated |-> at]]

SrStrays == {
    SrObserve("t1", "e2", "Mined", "h1", 2), SrObserve("t1", "e1", "Matched", "none", 1),
    SrFrame(9, 1, "d1", {}, 3, "h2", "empty")}
SrCommands == {
    SrRegister("i1", "t1", "k1"), SrRegister("i2", "t2", "k2"),
    SrObserve("t1", "e1", "Matched", "none", 1),
    SrObserve("t1", "e1", "Mined", "h1", 2),
    SrObserve("t1", "e1", "Retrying", "none", 2),
    SrObserve("t1", "e1", "Mined", "h2", 3),
    SrObserve("t1", "e1", "Confirmed", "h1", 3),
    SrObserve("t1", "e1", "Confirmed", "h2", 4),
    SrObserve("t1", "e1", "Failed", "none", 3),
    SrFrame(2, 1, "d1", {}, 1, "h1", "full"),
    SrFrame(5, 2, "d2", {"k1"}, 2, "h2", "full"),
    SrFrame(5, 1, "d1", {}, 2, "h2", "full")} \cup SrStrays

(***************************************************************************)
(* The stories of the certification and governance engines: the commands   *)
(* of a complete run of each, with the alternatives that branch from it.   *)
(***************************************************************************)
\* A command with the fields every one has.
At(at, op, fields) == [id |-> at, at |-> at, op |-> op] @@ fields

-----------------------------------------------------------------------------
(* shadow-auth-session *)
SasPolicy == [gatewayAge |-> 40, planLife |-> 40, attestationLife |-> 30, leaseLife |-> 6,
              heartbeatAge |-> 2, rotations |-> 1]
SasGateway == [certified |-> TRUE, rejected |-> 0, inert |-> TRUE, finalized |-> 0]
SasAttestation(epoch, id, predecessor, from, to) ==
    [epoch |-> epoch, id |-> id, predecessor |-> predecessor, gateway |-> SasGateway,
     inert |-> TRUE, observed |-> from, until |-> to]
SasOpen(at, l) == At(at, "OpenLease", [when |-> at, lease |-> l, expires |-> at + 3])
SasRecover(at, reason, trigger, r) ==
    At(at, "Recover", [when |-> at, inert |-> TRUE, recovery |-> r, reason |-> reason,
                       trigger |-> trigger])
SasCommands ==
    {At(1, "Register", [plan |->
        [created |-> 1, expires |-> 31, gateway |-> SasGateway,
         scenarios |-> {"CleanClose", "AttestationRotation", "DeadManExpiry",
                        "RestartRevocation", "AmbiguityRecovery"},
         attestation |-> SasAttestation(0, "a0", "", 1, 31)]]),
     SasOpen(2, "l1"), SasOpen(6, "l2"), SasOpen(12, "l3"), SasOpen(15, "l4"),
     At(3, "Heartbeat", [when |-> 3, lease |-> "l1", beats |-> 0, beat |-> "b1", sequence |-> 1,
                         healthy |-> TRUE, inert |-> TRUE]),
     At(7, "Heartbeat", [when |-> 7, lease |-> "l2", beats |-> 0, beat |-> "b2", sequence |-> 1,
                         healthy |-> FALSE, inert |-> TRUE]),
     At(4, "CloseLease", [when |-> 4, lease |-> "l1", beats |-> 1]),
     At(5, "RotateAttestation", [attestation |-> SasAttestation(1, "a1", "a0", 5, 31)]),
     At(10, "EvaluateDeadMan", [when |-> 10]),
     SasRecover(11, "DeadMan", 10, "r1"), SasRecover(14, "Restart", "s1", "r2"),
     SasRecover(17, "Ambiguity", "m1", "r3"), SasRecover(8, "Unhealthy", "b2", "r4"),
     At(13, "Restart", [when |-> 13, restart |-> "s1"]),
     At(16, "ObserveAmbiguity", [when |-> 16, lease |-> "l4", beats |-> 0, ambiguity |-> "m1"]),
     At(18, "Finalize", [when |-> 18])}
SasStrays == {SasOpen(2, "l1")}

-----------------------------------------------------------------------------
(* submission-gateway-certification *)
SgwPolicy == [transportAge |-> 40, brokerAge |-> 40, campaignAge |-> 40, envelopeLife |-> 30,
              backoff |-> 2, envelopes |-> 2]
SgwTransport == [bindings |-> <<"t1", "t2">>, endpoint |-> "e"]
SgwCertificate == [certified |-> TRUE, inert |-> TRUE, transport |-> SgwTransport, at |-> 0]
SgwReceipt(k) == [id |-> k, request |-> k, inert |-> TRUE, consumed |-> 0]
SgwEnvelope(k) ==
    [sequence |-> k, id |-> k, inert |-> TRUE, receipt |-> SgwReceipt(k),
     binding |-> SgwTransport.bindings[k], endpoint |-> "e", channel |-> "ch", token |-> "to",
     key |-> k, created |-> 1, expires |-> 31]
SgwPlan ==
    [created |-> 1, expires |-> 40, certificate |-> SgwCertificate, transport |-> SgwTransport,
     contract |-> [headers |-> {"h"}, inert |-> TRUE, channel |-> "ch", token |-> "to"],
     broker |-> [completed |-> TRUE, inert |-> TRUE, certificate |-> SgwCertificate, created |-> 0,
                 finalized |-> 0, requests |-> <<1, 2>>, receipts |-> <<SgwReceipt(1), SgwReceipt(2)>>],
     envelopes |-> <<SgwEnvelope(1), SgwEnvelope(2)>>]
SgwFixture(k, case, disposition, fields) ==
    At(k + 1, "RecordFixture", [fixture |-> fields @@
        [case |-> case, disposition |-> disposition, observed |-> k + 1, inert |-> TRUE,
         envelope |-> 1, endpoint |-> "e", channel |-> "ch", token |-> "to", key |-> 1,
         expires |-> 31, backoff |-> 0, ambiguity |-> {}, reconciliation |-> {}]])
SgwNone == [backoff |-> 0]
SgwObserve(at, k, result) ==
    At(at, "Observe", [submission |-> k, inert |-> TRUE, evidence |-> at, when |-> at,
                       outcome |-> result])
SgwCommands ==
    {At(1, "Register", [plan |-> SgwPlan]),
     SgwFixture(1, "ValidEnvelope", "ShadowAccepted", SgwNone),
     SgwFixture(2, "WrongEndpoint", "Deny", [endpoint |-> "f"]),
     SgwFixture(3, "WrongChannelBinding", "Deny", [channel |-> "f"]),
     SgwFixture(4, "WrongTokenBinding", "Deny", [token |-> "f"]),
     SgwFixture(5, "ReceiptReplay", "Deny", SgwNone),
     SgwFixture(6, "IdempotencyConflict", "FailClosed", [envelope |-> 2]),
     SgwFixture(7, "ExpiredEnvelope", "Deny", [expires |-> 7]),
     SgwFixture(8, "RateLimited", "ManualBackoff", [backoff |-> 1]),
     SgwFixture(9, "UnknownResponse", "RequireReconciliation", [ambiguity |-> {"a"}]),
     SgwFixture(10, "NoMutationReconciliation", "ReconciledNoMutation",
                [ambiguity |-> {"a"}, reconciliation |-> {"r"}]),
     At(12, "StageNext", [submission |-> 1, when |-> 12]),
     At(15, "StageNext", [submission |-> 2, when |-> 15]),
     At(18, "StageNext", [submission |-> 3, when |-> 18]),
     SgwObserve(13, 1, "Accepted"), SgwObserve(13, 1, "Rejected"), SgwObserve(13, 1, "Unknown"),
     SgwObserve(16, 2, "Accepted"), SgwObserve(16, 2, "Unknown"), SgwObserve(17, 1, "Accepted"),
     At(14, "ReconcileUnknown", [submission |-> 1, inert |-> TRUE, evidence |-> 14, when |-> 14,
                                 observation |-> 13]),
     At(17, "ReconcileUnknown", [submission |-> 2, inert |-> TRUE, evidence |-> 17, when |-> 17,
                                 observation |-> 16]),
     At(19, "Finalize", [when |-> 19])}
SgwStrays == {SgwObserve(13, 1, "Accepted")}

-----------------------------------------------------------------------------
(* credential-broker-simulator *)
CbsPolicy == [certificateAge |-> 40, campaignAge |-> 40, approvalAge |-> 40, permitLife |-> 3,
              requests |-> 2]
CbsRequest(k) == [id |-> k, nonce |-> k, units |-> 1, purpose |-> "p", subject |-> "s",
                  notBefore |-> 1, expires |-> 30]
CbsCase(k, case, disposition) ==
    At(k + 1, "RecordFixture", [case |-> case, disposition |-> disposition, inert |-> TRUE,
                                when |-> k + 1])
CbsAuthorize(at, request, role, operator) ==
    At(at, "Authorize", [authorization |-> <<role, request, operator>>, request |-> request,
                         role |-> role, operator |-> operator, approved |-> TRUE, when |-> at,
                         until |-> at + 8])
CbsIssue(at, permit) == At(at, "IssuePermit", [permit |-> permit, when |-> at, expires |-> at + 2])
CbsConsume(at, permit) == At(at, "ConsumePermit", [permit |-> permit, receipt |-> at, when |-> at])
CbsCommands ==
    {At(1, "Register", [plan |->
        [created |-> 1, expires |-> 30, requests |-> <<CbsRequest(1), CbsRequest(2)>>,
         certificate |-> [certified |-> TRUE, inert |-> TRUE, at |-> 0],
         key |-> [inert |-> TRUE, revoked |-> FALSE],
         signing |-> [purposes |-> {"p"}, subjects |-> {"s"}, inert |-> TRUE, unitsEach |-> 1,
                      unitsTotal |-> 2, from |-> 0, until |-> 30]]]),
     CbsCase(1, "ValidDryRun", "SimulatedReceiptOnly"), CbsCase(2, "WrongPurpose", "Deny"),
     CbsCase(3, "WrongSubject", "Deny"), CbsCase(4, "UnitsExceeded", "Deny"),
     CbsCase(5, "ExpiredRequest", "Deny"), CbsCase(6, "NonceReplay", "Deny"),
     CbsCase(7, "RevokedHandle", "Deny"), CbsCase(8, "ProviderUnavailable", "FailClosed"),
     CbsCase(9, "AttestationMismatch", "Deny"),
     CbsAuthorize(11, 1, "Security", "o1"), CbsAuthorize(12, 1, "Operations", "o2"),
     CbsAuthorize(12, 1, "Operations", "o1"),
     CbsIssue(13, "p1"), CbsConsume(14, "p1"), CbsConsume(15, "p1"),
     CbsAuthorize(16, 2, "Security", "o2"), CbsAuthorize(17, 2, "Operations", "o1"),
     CbsIssue(18, "p2"), CbsConsume(19, "p2"),
     At(19, "Revoke", [when |-> 19]), At(20, "Finalize", [when |-> 20])}
CbsStrays == {CbsConsume(14, "p1")}

-----------------------------------------------------------------------------
(* transport-adapter-certification *)
TacPolicy == [dossierAge |-> 40, campaignAge |-> 40, backoff |-> 2, endpoints |-> 2, pins |-> 1,
              bindings |-> 2]
TacFixture(k, case, disposition, fields) ==
    At(k + 1, "RecordFixture", [fixture |-> fields @@
        [case |-> case, disposition |-> disposition, observed |-> k + 1, inert |-> TRUE,
         host |-> "h", server |-> "h", pin |-> "k", path |-> "/a", bytes |-> "b", status |-> 0,
         backoff |-> 0, ambiguity |-> {}, reconciliation |-> {}]])
TacNone == [status |-> 0]
TacCommands ==
    {At(1, "Register", [plan |->
        [created |-> 1, expires |-> 30,
         dossier |-> [completed |-> TRUE, inert |-> TRUE, resolved |-> 1, templates |-> <<"t">>,
                      finalized |-> 0],
         endpoint |-> [host |-> "h", server |-> "h", inert |-> TRUE, paths |-> {"/a"},
                       pins |-> {"k"}],
         bindings |-> <<[template |-> "t", path |-> "/a", bytes |-> "b"]>>]]),
     TacFixture(1, "DnsExact", "Allow", TacNone),
     TacFixture(2, "DnsWrongHost", "Deny", [host |-> "x"]),
     TacFixture(3, "TlsPinned", "Allow", TacNone),
     TacFixture(4, "TlsWrongPin", "Deny", [pin |-> "x"]),
     TacFixture(5, "EndpointAllowed", "Allow", TacNone),
     TacFixture(6, "EndpointForbidden", "Deny", [path |-> "/x"]),
     TacFixture(7, "CanonicalRequest", "Allow", TacNone),
     TacFixture(8, "NoncanonicalRequest", "Deny", [bytes |-> "x"]),
     TacFixture(9, "Timeout", "BackoffOnly", [backoff |-> 1]),
     TacFixture(10, "RateLimited", "BackoffOnly", [backoff |-> 1, status |-> 429]),
     TacFixture(11, "UnknownResponse", "ReconciliationRequired", [ambiguity |-> {"a"}]),
     TacFixture(11, "UnknownResponse", "ReconciliationRequired", [ambiguity |-> {"b"}]),
     TacFixture(12, "NoMutationReconciliation", "NoMutationReconciled",
                [ambiguity |-> {"a"}, reconciliation |-> {"r"}]),
     At(14, "Finalize", [when |-> 14]), At(15, "Finalize", [when |-> 0])}
TacStrays == {TacFixture(12, "NoMutationReconciliation", "NoMutationReconciled",
                         [ambiguity |-> {"b"}, reconciliation |-> {"r"}]),
              TacFixture(1, "DnsExact", "Allow", TacNone)}

-----------------------------------------------------------------------------
(* executor-session-simulator *)
EssPolicy == [reportAge |-> 40, sessionLife |-> 40, leaseLife |-> 6, gap |-> 3, requestLife |-> 4,
              requests |-> 2]
EssIntent == [steps |-> <<"s1", "s2">>]
EssLease(at, l) == At(at, "AcquireLease", [lease |-> l, when |-> at, expires |-> at + 6])
EssBeat(at, l, sequence, healthy) ==
    At(at, "Heartbeat", [lease |-> l, when |-> at, sequence |-> sequence, healthy |-> healthy])
EssIssue(at, r) == At(at, "IssueRequest", [request |-> r, when |-> at, expires |-> at + 3])
EssObserve(at, r, when, kind) ==
    At(at, "Observe", [request |-> r, when |-> when, kind |-> kind, inert |-> TRUE])
EssReconcile(at, requests, prior) ==
    At(at, "Reconcile", [requests |-> requests, prior |-> prior, unchanged |-> TRUE, when |-> at])
EssCommands ==
    {At(1, "Register", [plan |->
        [created |-> 1, expires |-> 35, intent |-> EssIntent, isolated |-> TRUE,
         report |-> [completed |-> TRUE, inert |-> TRUE, plan |-> EssIntent, steps |-> 2,
                     finalized |-> 0],
         templates |-> <<[step |-> "s1"], [step |-> "s2"]>>]]),
     EssLease(2, "l1"), EssLease(12, "l2"),
     At(3, "OpenSession", [session |-> "n", when |-> 3]),
     EssBeat(3, "l1", 0, TRUE), EssBeat(5, "l1", 1, FALSE), EssBeat(13, "l2", 0, TRUE),
     EssIssue(4, "r1"), EssIssue(5, "r3"), EssIssue(14, "r2"),
     EssObserve(6, "r1", 5, "Acknowledged"), EssObserve(6, "r1", 5, "Unknown"),
     EssObserve(11, "r1", 6, "Rejected"), EssObserve(15, "r2", 15, "Acknowledged"),
     At(8, "ExpireDeadMan", [when |-> 8]), At(9, "Restart", [prior |-> 6, when |-> 9]),
     EssReconcile(10, {"r1"}, 6), EssReconcile(11, {}, 6), EssReconcile(16, {"r2"}, 0),
     EssObserve(15, "r2", 15, "Unknown"),
     At(17, "Close", [when |-> 17]), At(18, "Finalize", [when |-> 18])}
EssStrays == {EssObserve(6, "r1", 5, "Acknowledged")}

-----------------------------------------------------------------------------
(* deployment-execution-intent *)
DeiPolicy == [readinessAge |-> 40, planAge |-> 30, intentLife |-> 3, steps |-> 2, regions |-> 1,
              resources |-> 1]
DeiSubject == [resources |-> {"x"}]
DeiStep(operation) == [region |-> "eu", operation |-> operation, resource |-> "x"]
DeiCase(k, case) ==
    At(k + 1, "RecordDryRun",
       [case |-> case, when |-> k + 1, inert |-> TRUE,
        disposition |-> IF case = "PermittedBaseline" THEN "ManualHandoffOnly" ELSE "Deny"])
DeiIssue(at, i) == At(at, "IssueIntent", [intent |-> i, when |-> at, expires |-> at + 2])
DeiConsume(at, i) == At(at, "ConsumeIntent", [intent |-> i, when |-> at])
DeiCommands ==
    {At(1, "Register", [plan |->
        [id |-> "p", created |-> 1, expires |-> 30, readyUntil |-> 40, subject |-> DeiSubject,
         readiness |-> [ready |-> TRUE, inert |-> TRUE, subject |-> DeiSubject, finalized |-> 0],
         contract |-> [subject |-> DeiSubject, inert |-> TRUE,
                       ceiling |-> [operations |-> {"VerifyHealth", "ShiftTraffic"}, inert |-> TRUE,
                                    regions |-> {"eu"}, resources |-> {"x"}]],
         steps |-> <<DeiStep("ShiftTraffic"), DeiStep("VerifyHealth")>>]]),
     DeiCase(1, "PermittedBaseline"), DeiCase(2, "WrongSubject"), DeiCase(3, "WrongRegion"),
     DeiCase(4, "ForbiddenOperation"), DeiCase(5, "WildcardResource"),
     DeiCase(6, "CredentialRequest"), DeiCase(7, "SignatureRequest"),
     DeiCase(8, "AuthenticatedTransport"), DeiCase(9, "ExpiredIntent"), DeiCase(10, "ReplayIntent"),
     At(12, "Certify", [plan |-> "p", when |-> 12]),
     DeiIssue(13, "i1"), DeiIssue(14, "i2"), DeiIssue(16, "i2"), DeiConsume(14, "i1"),
     DeiConsume(15, "i1"), DeiConsume(15, "i2"), DeiConsume(17, "i2"),
     At(18, "Finalize", [when |-> 18])}
DeiStrays == {DeiConsume(14, "i1")}

-----------------------------------------------------------------------------
(* canary-rollout-simulator *)
CrsPolicy == [windows |-> 2, stages |-> 2, healthAge |-> 6, planAge |-> 40, target |-> 10]
CrsFrame(at, sequence, fields) ==
    At(at, "ObserveHealth", [frame |-> fields @@
        [sequence |-> sequence, observed |-> at, until |-> at + 6, stack |-> TRUE, floor |-> TRUE,
         unreconciled |-> 0, unknown |-> 0, loss |-> 0, faults |-> 0]])
CrsBad == [stack |-> FALSE]
CrsStage(target) == [target |-> target, observe |-> 2, limit |-> 12]
CrsPlan ==
    [created |-> 1, start |-> 2, end |-> 30, windows |-> <<[from |-> 2, to |-> 13], [from |-> 15, to |-> 30]>>,
     stages |-> <<CrsStage(1), CrsStage(2)>>,
     eligibility |-> [eligible |-> TRUE, inert |-> TRUE, evaluated |-> 0, until |-> 35],
     rollback |-> [duration |-> 28, unreconciled |-> 2, unknown |-> 2, loss |-> 1, faults |-> 3]]
CrsCommands ==
    {At(1, "RegisterPlan", [plan |-> CrsPlan]),
     CrsFrame(2, 1, [faults |-> 0]), At(3, "Start", <<>>), At(5, "Advance", <<>>),
     CrsFrame(6, 2, [loss |-> 1]), CrsFrame(6, 2, CrsBad), CrsFrame(6, 2, [loss |-> 2]),
     CrsFrame(6, 2, [floor |-> FALSE]), At(7, "Restart", <<>>),
     At(7, "OperatorPause", <<>>),
     CrsFrame(8, 3, [faults |-> 2]), At(9, "Recover", [epoch |-> 1]),
     At(10, "OperatorResume", <<>>), At(11, "Advance", <<>>),
     At(14, "Tick", <<>>), At(16, "Advance", <<>>),
     At(17, "Tick", <<>>), At(18, "OperatorResume", <<>>),
     At(18, "OperatorAbort", [operator |-> "o"]),
     At(19, "Finalize", <<>>)}
CrsStrays == {At(7, "OperatorPause", <<>>)}

-----------------------------------------------------------------------------
(* fleet-rollout-governance *)
FrgPolicy == [evidence |-> 5, maxRegions |-> 2, minRegions |-> 1, abortDrills |-> 1,
              rollbackDrills |-> 1, reportAge |-> 8, campaignAge |-> 20]
FrgEvidence(id, region, plan, status, trigger, aborter) ==
    [id |-> id, region |-> region,
     report |-> [plan |-> plan, release |-> "r", finalized |-> 0, inert |-> TRUE, stages |-> 2,
                 status |-> status, trigger |-> trigger, aborter |-> aborter]]
FrgRegister(at, lastPlan) ==
    At(at, "Register", [manifest |->
        [created |-> at, expires |-> at + 5, release |-> "r", regions |-> {"eu", "us"},
         triggers |-> {"PlanTimeout"}, freeze |-> [release |-> "r", strict |-> TRUE, from |-> 0, to |-> 20],
         evidence |-> <<FrgEvidence(1, "eu", "p1", "SimulatedCompleted", {}, {}),
                        FrgEvidence(2, "us", "p2", "SimulatedCompleted", {}, {}),
                        FrgEvidence(3, "eu", "p3", "OperatorAborted", {}, {"o"}),
                        FrgEvidence(4, "us", lastPlan, "RollbackRequired", {"PlanTimeout"}, {})>>]])
FrgFinalize(at, when) == At(at, "Finalize", [when |-> when])
FrgCommands ==
    {FrgRegister(1, "p4"), FrgRegister(1, "p3"), FrgRegister(9, "p4"),
     FrgFinalize(3, 3), FrgFinalize(4, 2), FrgFinalize(12, 7), FrgFinalize(12, 4),
     At(5, "Revoke", [effective |-> 5, release |-> "r"]),
     At(13, "Revoke", [effective |-> 13, release |-> "r"]),
     FrgFinalize(14, 4)}
FrgStrays == {FrgRegister(1, "p4"), FrgFinalize(4, 2)}

-----------------------------------------------------------------------------
(***************************************************************************)
(* deployment-change-control: two steps in two windows                     *)
(***************************************************************************)
DccPolicy == [windows |-> 2, steps |-> 2, certificateAge |-> 5, planAge |-> 30, approvalAge |-> 12,
              permissionLife |-> 4]
DccPlan(at) ==
    [created |-> at, expires |-> at + 20, steps |-> <<"eu", "us">>,
     windows |-> <<[from |-> 2, to |-> 8], [from |-> 10, to |-> 16]>>,
     certificate |-> [certified |-> TRUE, inert |-> TRUE, finalized |-> 0,
                      regions |-> {"eu", "us"}, package |-> "p"],
     emergency |-> [package |-> "p", permissionLife |-> 3,
                    triggers |-> {"CapitalFloorBreach", "ReconciliationFailure", "RegionalHealthFailure",
                                  "ControlPlaneUnknown", "OperatorAbort", "DeadlineExceeded"}]]
DccApproval(at, id, role, operator, approve) ==
    At(at, "RecordApproval", [approval |-> [id |-> id, role |-> role, operator |-> operator,
                                            approve |-> approve, decided |-> at, until |-> at + 11]])
DccIssue(at, p, until) == At(at, "IssuePermission", [permission |-> p, until |-> until])
DccConsume(at, p) == At(at, "ConsumePermission", [permission |-> p])
DccCommands ==
    {At(1, "Register", [plan |-> DccPlan(1)]),
     DccApproval(2, 1, "Release", "a", TRUE), DccApproval(3, 2, "Risk", "b", TRUE),
     DccApproval(3, 3, "Risk", "b", FALSE),
     DccIssue(4, 1, 7), DccConsume(5, 1), At(6, "Pause", <<>>), DccIssue(7, 2, 8),
     At(11, "Resume", <<>>), DccIssue(11, 3, 14), DccConsume(12, 3), DccIssue(13, 4, 16),
     At(12, "Abort", <<>>), At(12, "SignalEmergency", [trigger |-> "ControlPlaneUnknown"]),
     DccIssue(14, 5, 17), DccConsume(15, 5), DccConsume(15, 3), At(16, "Finalize", <<>>)}
DccStrays == {DccIssue(4, 1, 7), DccConsume(12, 3)}

-----------------------------------------------------------------------------
(* chain-observer *)
ChnPolicy == [reportAge |-> 40, planAge |-> 40, observationAge |-> 5, headLag |-> 3, tokens |-> 1,
              transactions |-> 1]
ChnWallet(collateral, allowance, status, block) ==
    [collateral |-> collateral, allowance |-> allowance, tokens |-> [t \in {"up"} |-> 1],
     transactions |-> [t \in {"tx"} |-> [status |-> status, block |-> block]]]
ChnFrame(at, head, finalized, hash, wallet) ==
    [id |-> <<at, hash>>, observed |-> at, finalized |-> finalized, hash |-> hash,
     wallet |-> wallet,
     snapshots |-> [p \in {"Primary", "Secondary", "Archive"} |->
        [bound |-> TRUE, head |-> IF p = "Archive" THEN head ELSE head + 1,
         hash |-> IF p = "Archive" THEN "h" ELSE "k", finalized |-> finalized,
         finalizedHash |-> hash, wallet |-> wallet, observed |-> at]]]
ChnAgree(at, frame) == At(at, "ObserveAgreement", [frame |-> frame])
ChnRecover(at, finalized, hash, frame) ==
    At(at, "Recover", [inert |-> TRUE, frame |-> frame, requirement |->
        [id |-> "r", prior |-> <<3, "b5">>, finalized |-> 5, hash |-> "b5", old |-> "h",
         new |-> "n", block |-> 6]])
ChnFixture(at, s, d) == At(at, "RecordFailure",
                           [fixture |-> [id |-> s, scenario |-> s, disposition |-> d,
                                         isolated |-> TRUE]])
ChnProvider(n) == [endpoint |-> n, region |-> n, inert |-> TRUE]
ChnCommands ==
    {At(1, "Register", [plan |->
        [created |-> 1, expires |-> 30,
         venue |-> [certified |-> TRUE, inert |-> TRUE, finalized |-> 0],
         scenarios |-> {"ProviderAgreement", "HeadAdvance", "FinalityAdvance",
             "ReorgBeforeFinality", "ProviderDisagreement", "StaleHead", "ChainMismatch",
             "BalanceChange", "AllowanceChange", "TransactionLifecycle"},
         providers |-> [Primary |-> ChnProvider(1), Secondary |-> ChnProvider(2),
                        Archive |-> ChnProvider(1)]]]),
     ChnAgree(2, ChnFrame(2, 6, 5, "b5", ChnWallet(1, 1, "Pending", 0))),
     ChnAgree(3, ChnFrame(3, 7, 5, "b5", ChnWallet(2, 1, "Mined", 6))),
     ChnAgree(3, ChnFrame(3, 8, 6, "b6", ChnWallet(2, 2, "Finalized", 6))),
     At(4, "ObserveReorg", [requirement |-> "r", old |-> "h", new |-> "n", block |-> 6]),
     ChnRecover(5, 5, "b5", ChnFrame(5, 7, 5, "b5", ChnWallet(2, 1, "Mined", 7))),
     ChnRecover(5, 5, "b5", ChnFrame(5, 7, 6, "c6", ChnWallet(2, 1, "Failed", 0))),
     ChnRecover(5, 5, "b5", ChnFrame(5, 7, 5, "c5", ChnWallet(2, 1, "Mined", 7))),
     ChnFixture(6, "ProviderDisagreement", "Halt"), ChnFixture(7, "ChainMismatch", "Halt"),
     ChnFixture(8, "StaleHead", "Deny"),
     ChnAgree(9, ChnFrame(9, 9, 6, "c6", ChnWallet(2, 2, "Finalized", 6))),
     ChnAgree(9, ChnFrame(9, 9, 7, "c7", ChnWallet(2, 2, "Finalized", 7))),
     At(10, "Finalize", [when |-> 10])}
ChnStrays == {ChnAgree(3, ChnFrame(3, 7, 5, "b5", ChnWallet(2, 1, "Mined", 6)))}

-----------------------------------------------------------------------------
(* read-only-venue *)
VenPolicy == [reportAge |-> 60, planAge |-> 60, channelAge |-> 30, parameterAge |-> 30,
              modeAge |-> 30, backoff |-> 5]
VenSeen(at, channel, epoch, sequence, health) ==
    [id |-> <<at, channel>>, channel |-> channel, epoch |-> epoch, sequence |-> sequence,
     observed |-> at, health |-> health]
VenChannel(at, channel, epoch, sequence, health) ==
    At(at, "ObserveChannel", [observation |-> VenSeen(at, channel, epoch, sequence, health)])
VenParameters(at, version) == [valid |-> TRUE, version |-> version, observed |-> at]
VenMode(at, sequence, mode) == [id |-> <<at, mode>>, sequence |-> sequence, mode |-> mode,
                                observed |-> at]
VenSetMode(at, sequence, mode) == At(at, "ObserveMode", [mode |-> VenMode(at, sequence, mode)])
VenRecover(at, reason, trigger, epoch, version) ==
    LET r == [reason |-> reason, trigger |-> trigger, epoch |-> epoch]
    IN  At(at, "Recover", [requirement |-> r, evidence |->
            [id |-> at, requirement |-> r, inert |-> TRUE, observed |-> at,
             channels |-> {VenSeen(at, ch, epoch + 1, 1, "Ready") :
                 ch \in {"PublicMarket", "AuthenticatedUser", "RestMetadata", "ReferencePrice"}},
             parameters |-> VenParameters(at, version), mode |-> VenMode(at, 1, "Normal")]])
VenCommands ==
    {At(1, "Register", [plan |->
        [inert |-> TRUE, created |-> 1, expires |-> 40,
         security |-> [certified |-> TRUE, inert |-> TRUE, finalized |-> 0],
         scenarios |-> {"PublicSync", "UserSync", "DynamicParameters", "NormalMode",
             "RestartRecovery", "PostOnly", "CancelOnly", "RateLimitBackoff",
             "IndependentChannelFailure", "ReconnectRecovery"}]]),
     VenChannel(2, "PublicMarket", 1, 1, "Ready"), VenChannel(2, "PublicMarket", 2, 1, "Stale"),
     VenChannel(3, "AuthenticatedUser", 1, 1, "Ready"),
     At(4, "ObserveParameters", [parameters |-> VenParameters(4, 3)]),
     VenSetMode(5, 1, "Normal"), VenSetMode(6, 2, "PostOnly"), VenSetMode(7, 3, "CancelOnly"),
     At(8, "FailChannel", [channel |-> "PublicMarket", failure |-> <<8, "f">>, when |-> 8]),
     VenChannel(9, "PublicMarket", 1, 2, "Ready"),
     VenRecover(10, "ChannelFailure", <<8, "f">>, 1, 2), VenRecover(10, "ChannelFailure", <<8, "f">>, 2, 4),
     VenChannel(11, "PublicMarket", 2, 2, "Ready"), VenSetMode(12, 2, "Restarting"),
     VenRecover(13, "Restart", <<12, "Restarting">>, 2, 2),
     At(14, "ObserveRateLimit", [observation |-> <<14, "limit">>, backoff |-> 2, retried |-> FALSE,
                                 when |-> 14]),
     At(15, "Finalize", [when |-> 15])}
VenStrays == {VenChannel(9, "PublicMarket", 1, 2, "Ready")}

-----------------------------------------------------------------------------
(* deployment-orchestration-simulator *)
OrcPolicy == [waves |-> 2, regions |-> 3, preflightAge |-> 40, planAge |-> 40, healthAge |-> 4,
              waveDuration |-> 8]
OrcFrame(at, sequence, a, b) ==
    At(at, "ObserveHealth", [frame |-> [sequence |-> sequence, observed |-> at, until |-> at + 5,
        regions |-> [r \in {"a", "b", "c"} |-> IF r = "c" THEN "Healthy"
                                               ELSE IF r = "a" THEN a ELSE b]]])
OrcDo(at, op) == At(at, op, <<>>)
OrcBack(at, region) == At(at, "ObserveRollback", [observation |-> at, region |-> region,
                                                  restored |-> TRUE])
OrcCommands ==
    {At(1, "Register", [plan |->
        [created |-> 1, expires |-> 20,
         waves |-> <<[regions |-> <<"a">>, observe |-> 2, limit |-> 8],
                     [regions |-> <<"b", "c">>, observe |-> 2, limit |-> 8]>>,
         preflight |-> [ready |-> TRUE, inert |-> TRUE, evaluated |-> 0, expires |-> 30,
                        regions |-> {"a", "b", "c"}]]]),
     OrcDo(2, "OperatorAbort"), OrcFrame(2, 0, "Healthy", "Healthy"), OrcDo(3, "Start"), OrcDo(4, "OperatorPause"),
     OrcDo(5, "Advance"),
     OrcFrame(6, 1, "Healthy", "Healthy"), OrcFrame(6, 1, "Degraded", "Healthy"),
     OrcFrame(6, 1, "Healthy", "Unreconciled"), OrcFrame(6, 1, "FloorBreached", "Healthy"),
     OrcDo(7, "Restart"), OrcDo(7, "OperatorAbort"),
     OrcFrame(8, 2, "Healthy", "Healthy"),
     At(9, "Recover", [epoch |-> 1]), OrcDo(10, "OperatorResume"), OrcDo(11, "Advance"),
     OrcDo(12, "Tick"), OrcDo(13, "Tick"), OrcDo(14, "Advance"), OrcDo(21, "Tick"),
     OrcBack(22, "c"), OrcBack(23, "b"), OrcBack(24, "a"), OrcDo(23, "Restart"),
     At(24, "Recover", [epoch |-> 2]), OrcDo(25, "Finalize")}
OrcStrays == {OrcDo(11, "Advance")}

-----------------------------------------------------------------------------
(* controlled-production-release *)
CprPolicy == [reportAge |-> 20, lifetime |-> 30, evidenceAge |-> 8, cases |-> 11, regions |-> 2]
CprRegion(at, region, sequence) ==
    At(at, "RecordRegion", [evidence |-> [region |-> region, sequence |-> sequence,
        observed |-> at - 1, sound |-> TRUE, inert |-> TRUE]])
CprCase(k, scenario, disposition, observed) ==
    At(k + 3, "RecordCase", [case |-> [id |-> k, sequence |-> k, scenario |-> scenario,
        disposition |-> disposition, observed |-> observed, stage |-> k % 2, proven |-> TRUE,
        noTrade |-> TRUE, inert |-> TRUE]])
CprApprove(at) == At(at, "Approve", [release |-> "x", risk |-> "y", operations |-> "z"])
CprRevoke(at) == At(at, "Revoke", [reason |-> "drill"])
CprFinalize(at, when) == At(at, "Finalize", [when |-> when])
CprCommands ==
    {At(1, "Register", [plan |->
        [canary |-> [eligible |-> TRUE, complete |-> TRUE, inert |-> TRUE, finalized |-> 0],
         scenarios |-> {"NoTrade", "StagedCeilings", "MultiRegionHealth",
                        "ContinuousReconciliation", "EvidenceExpiry", "IncidentResponse",
                        "DisasterRecovery", "Rollback", "Revocation", "Governance"},
         subjects |-> TRUE, regions |-> <<"r1", "r2">>, created |-> 0, expires |-> 25,
         stages |-> <<[index |-> 0, capital |-> 2, exposure |-> 2, loss |-> 1],
                      [index |-> 1, capital |-> 3, exposure |-> 2, loss |-> 1]>>]]),
     CprApprove(2), CprApprove(3), CprRegion(3, "r1", 1),
     CprCase(1, "NoTrade", "NoTrade", 4), CprCase(2, "StagedCeilings", "CodeEligible", 5),
     CprCase(3, "MultiRegionHealth", "CodeEligible", 6),
     CprCase(4, "ContinuousReconciliation", "CodeEligible", 7),
     CprCase(5, "IncidentResponse", "RollbackRequired", 8),
     CprCase(6, "DisasterRecovery", "RollbackRequired", 9),
     CprCase(7, "Rollback", "RollbackRequired", 10), CprCase(8, "Revocation", "NoTrade", 11),
     CprCase(9, "Governance", "CodeEligible", 12), CprCase(10, "EvidenceExpiry", "NoTrade", 4),
     CprRegion(14, "r2", 1), CprRegion(15, "r1", 2), CprRevoke(2), CprRevoke(16),
     CprFinalize(17, 16), CprFinalize(24, 21), CprFinalize(24, 14)}
CprStrays == {CprRevoke(16), CprRegion(15, "r1", 1), CprFinalize(17, 10), CprFinalize(24, 22),
              CprFinalize(24, 26), CprCase(1, "NoTrade", "NoTrade", 4)}

-----------------------------------------------------------------------------
(* The engines. *)
CONSTANT Engines    \* the engines the run considers

\* The constants of TradingEngines.
MCBounds ==
    "order-intent-policy" :> [strays |-> OipStrays, checkpointAt |-> 4, faultsAt |-> {4}, maxLog |-> 7]
    @@ "paper-execution" :> [strays |-> PexStrays, checkpointAt |-> 3, faultsAt |-> {3}, maxLog |-> 32]
    @@ "settlement-reconciliation" :> [strays |-> SrStrays, checkpointAt |-> 3, faultsAt |-> {3, 4},
                                     maxLog |-> SrMaxLog]
    @@ "paper-trading-runtime" :> [strays |-> PtrStrays, checkpointAt |-> 14, faultsAt |-> {14}, maxLog |-> 32]

PR == INSTANCE PortfolioRisk WITH
    Commands <- PrCommands, Unit <- PrUnit, Basis <- PrBasis, HardMax <- PrHardMax,
    Strays <- PrStrays, CheckpointAt <- 2, FaultsAt <- {2, 3}
SP == INSTANCE StrategyProposal WITH
    Commands <- SpCommands, Unit <- PrUnit, MaxOf <- SpMaxOf,
    Strays <- SpStrays, CheckpointAt <- 3, FaultsAt <- {3, 4}
CSA == INSTANCE CompleteSetArbitrage WITH
    Commands <- CsaCommands, Unit <- PrUnit, Basis <- PrBasis, Ceiling <- CsaCeiling,
    Strays <- CsaStrays, CheckpointAt <- 3, FaultsAt <- {3, 4}
POR == INSTANCE PairedOpportunity WITH
    Commands <- PorCommands, Unit <- PrUnit, Basis <- PrBasis, Ceiling <- CsaCeiling, HardMax <- PrHardMax,
    Strays <- PorStrays, CheckpointAt <- 2, FaultsAt <- {2, 3}
PCS == INSTANCE PairedCapitalStaging WITH
    Commands <- PcsCommands, Unit <- PrUnit,
    Strays <- PcsStrays, CheckpointAt <- 6, FaultsAt <- {6, 7}
PPP == INSTANCE PairedPlacementPolicy WITH
    Commands <- PppCommands, Unit <- PrUnit, PermissionLife <- PppLife,
    Strays <- PppStrays, CheckpointAt <- 6, FaultsAt <- {6}
PPE == INSTANCE PairedPaperExecution WITH
    Commands <- PpeCommands, Unit <- PrUnit, PermissionLife <- PppLife,
    Strays <- PpeStrays, CheckpointAt <- 7, FaultsAt <- {7}
PSR == INSTANCE PairedSettlement WITH
    Commands <- PsrCommands, Unit <- PrUnit, PermissionLife <- PppLife, Grace <- PsrGrace,
    Strays <- PsrStrays, CheckpointAt <- 10, FaultsAt <- {10}
CTF == INSTANCE CtfTransaction WITH
    Commands <- CtfCommands, Unit <- PrUnit, PermissionLife <- PppLife, Grace <- PsrGrace,
    Strays <- CtfStrays, CheckpointAt <- 8, FaultsAt <- {8}
UPT == INSTANCE UnifiedPairedTrading WITH
    Commands <- UptCommands, Unit <- PrUnit, PermissionLife <- PppLife, Grace <- PsrGrace,
    Strays <- UptStrays, CheckpointAt <- 8, FaultsAt <- {8}
SAS == INSTANCE ShadowAuthSession WITH
    Commands <- SasCommands, Policy <- SasPolicy,
    Strays <- SasStrays, CheckpointAt <- 3, FaultsAt <- {3, 4}
SGW == INSTANCE SubmissionGateway WITH
    Commands <- SgwCommands, Policy <- SgwPolicy,
    Strays <- SgwStrays, CheckpointAt <- 12, FaultsAt <- {12, 13}
CBS == INSTANCE CredentialBroker WITH
    Commands <- CbsCommands, Policy <- CbsPolicy,
    Strays <- CbsStrays, CheckpointAt <- 13, FaultsAt <- {13, 14}
TAC == INSTANCE TransportCertification WITH
    Commands <- TacCommands, Policy <- TacPolicy,
    Strays <- TacStrays, CheckpointAt <- 12, FaultsAt <- {12, 13}
ESS == INSTANCE ExecutorSession WITH
    Commands <- EssCommands, Policy <- EssPolicy,
    Strays <- EssStrays, CheckpointAt <- 6, FaultsAt <- {6, 7}
DEI == INSTANCE ExecutionIntent WITH
    Commands <- DeiCommands, Policy <- DeiPolicy,
    Strays <- DeiStrays, CheckpointAt <- 14, FaultsAt <- {14, 15}
CRS == INSTANCE CanaryRollout WITH
    Commands <- CrsCommands, Policy <- CrsPolicy,
    Strays <- CrsStrays, CheckpointAt <- 5, FaultsAt <- {5, 6}
FRG == INSTANCE FleetGovernance WITH
    Commands <- FrgCommands, Policy <- FrgPolicy,
    Strays <- FrgStrays, CheckpointAt <- 2, FaultsAt <- {2, 3}
DCC == INSTANCE ChangeControl WITH
    Commands <- DccCommands, Policy <- DccPolicy,
    Strays <- DccStrays, CheckpointAt <- 8, FaultsAt <- {8, 9}
CHN == INSTANCE ChainObserver WITH
    Commands <- ChnCommands, Policy <- ChnPolicy,
    Strays <- ChnStrays, CheckpointAt <- 4, FaultsAt <- {4, 5}
VEN == INSTANCE ReadOnlyVenue WITH
    Commands <- VenCommands, Policy <- VenPolicy,
    Strays <- VenStrays, CheckpointAt <- 9, FaultsAt <- {9, 10}
ORC == INSTANCE DeploymentOrchestrator WITH
    Commands <- OrcCommands, Policy <- OrcPolicy,
    Strays <- OrcStrays, CheckpointAt <- 5, FaultsAt <- {5, 6}
CPR == INSTANCE ControlledRelease WITH
    Commands <- CprCommands, Policy <- CprPolicy,
    Strays <- CprStrays, CheckpointAt <- 14, FaultsAt <- {14, 15}

\* The stories are made of the commands of their crates.
ASSUME StoriesAssumption ==
    /\ PolicyCommandsTyped /\ ExecutionCommandsTyped /\ SettlementCommandsTyped
    /\ PlacementsApproved /\ PipelineCommandsTyped
    /\ \A c \in SrCommands \cup SrStrays : SR!IsCommand(c)
    /\ \A c \in OipCommands \cup OipStrays : OIP!IsCommand(c)
    /\ \A c \in PexCommands \cup PexStrays : PEX!IsCommand(c)
    /\ \A c \in PtrCommands \cup PtrStrays : PTR!IsCommand(c)
    /\ \A c \in PrCommands \cup PrStrays : PR!IsCommand(c)
    /\ \A c \in SpCommands \cup SpStrays : SP!IsCommand(c)
    /\ \A c \in CsaCommands \cup CsaStrays : CSA!IsCommand(c)
    /\ \A c \in PorCommands \cup PorStrays : POR!IsCommand(c)
    /\ \A c \in PcsCommands \cup PcsStrays : PCS!IsCommand(c)
    /\ \A c \in PppCommands \cup PppStrays : PPP!IsCommand(c)
    /\ \A c \in PpeCommands \cup PpeStrays : PPE!IsCommand(c)
    /\ \A c \in PsrCommands \cup PsrStrays : PSR!IsCommand(c)
    /\ \A c \in CtfCommands \cup CtfStrays : CTF!IsCommand(c)
    /\ \A c \in UptCommands \cup UptStrays : UPT!IsCommand(c)
    /\ SAS!IsPolicy /\ \A c \in SasCommands \cup SasStrays : SAS!IsCommand(c)
    /\ SGW!IsPolicy /\ \A c \in SgwCommands \cup SgwStrays : SGW!IsCommand(c)
    /\ CBS!IsPolicy /\ \A c \in CbsCommands \cup CbsStrays : CBS!IsCommand(c)
    /\ TAC!IsPolicy /\ \A c \in TacCommands \cup TacStrays : TAC!IsCommand(c)
    /\ ESS!IsPolicy /\ \A c \in EssCommands \cup EssStrays : ESS!IsCommand(c)
    /\ DEI!IsPolicy /\ \A c \in DeiCommands \cup DeiStrays : DEI!IsCommand(c)
    /\ CRS!IsPolicy /\ \A c \in CrsCommands \cup CrsStrays : CRS!IsCommand(c)
    /\ FRG!IsPolicy /\ \A c \in FrgCommands \cup FrgStrays : FRG!IsCommand(c)
    /\ DCC!IsPolicy /\ \A c \in DccCommands \cup DccStrays : DCC!IsCommand(c)
    /\ CHN!IsPolicy /\ \A c \in ChnCommands \cup ChnStrays : CHN!IsCommand(c)
    /\ VEN!IsPolicy /\ \A c \in VenCommands \cup VenStrays : VEN!IsCommand(c)
    /\ ORC!IsPolicy /\ \A c \in OrcCommands \cup OrcStrays : ORC!IsCommand(c)
    /\ CPR!IsPolicy /\ \A c \in CprCommands \cup CprStrays : CPR!IsCommand(c)

Init ==
    /\ engine \in Engines
    /\ \/ TradingInit
       \/ engine = "portfolio-risk" /\ PR!Init
       \/ engine = "strategy-proposal" /\ SP!Init
       \/ engine = "complete-set-arbitrage" /\ CSA!Init
       \/ engine = "paired-opportunity-runtime" /\ POR!Init
       \/ engine = "paired-capital-staging" /\ PCS!Init
       \/ engine = "paired-placement-policy" /\ PPP!Init
       \/ engine = "paired-paper-execution" /\ PPE!Init
       \/ engine = "paired-settlement-runtime" /\ PSR!Init
       \/ engine = "ctf-transaction-runtime" /\ CTF!Init
       \/ engine = "unified-paired-trading-runtime" /\ UPT!Init
       \/ engine = "shadow-auth-session" /\ SAS!Init
       \/ engine = "submission-gateway-certification" /\ SGW!Init
       \/ engine = "credential-broker-simulator" /\ CBS!Init
       \/ engine = "transport-adapter-certification" /\ TAC!Init
       \/ engine = "executor-session-simulator" /\ ESS!Init
       \/ engine = "deployment-execution-intent" /\ DEI!Init
       \/ engine = "canary-rollout-simulator" /\ CRS!Init
       \/ engine = "fleet-rollout-governance" /\ FRG!Init
       \/ engine = "deployment-change-control" /\ DCC!Init
       \/ engine = "chain-observer" /\ CHN!Init
       \/ engine = "read-only-venue" /\ VEN!Init
       \/ engine = "deployment-orchestration-simulator" /\ ORC!Init
       \/ engine = "controlled-production-release" /\ CPR!Init

Next ==
    \/ TradingNext
    \/ /\ UNCHANGED engine
       /\ \/ engine = "portfolio-risk" /\ PR!Next
          \/ engine = "strategy-proposal" /\ SP!Next
          \/ engine = "complete-set-arbitrage" /\ CSA!Next
          \/ engine = "paired-opportunity-runtime" /\ POR!Next
          \/ engine = "paired-capital-staging" /\ PCS!Next
          \/ engine = "paired-placement-policy" /\ PPP!Next
          \/ engine = "paired-paper-execution" /\ PPE!Next
          \/ engine = "paired-settlement-runtime" /\ PSR!Next
          \/ engine = "ctf-transaction-runtime" /\ CTF!Next
          \/ engine = "unified-paired-trading-runtime" /\ UPT!Next
          \/ engine = "shadow-auth-session" /\ SAS!Next
          \/ engine = "submission-gateway-certification" /\ SGW!Next
          \/ engine = "credential-broker-simulator" /\ CBS!Next
          \/ engine = "transport-adapter-certification" /\ TAC!Next
          \/ engine = "executor-session-simulator" /\ ESS!Next
          \/ engine = "deployment-execution-intent" /\ DEI!Next
          \/ engine = "canary-rollout-simulator" /\ CRS!Next
          \/ engine = "fleet-rollout-governance" /\ FRG!Next
          \/ engine = "deployment-change-control" /\ DCC!Next
          \/ engine = "chain-observer" /\ CHN!Next
          \/ engine = "read-only-venue" /\ VEN!Next
          \/ engine = "deployment-orchestration-simulator" /\ ORC!Next
          \/ engine = "controlled-production-release" /\ CPR!Next

Spec == Init /\ [][Next]_<<ownerVars, engine>>

-----------------------------------------------------------------------------
\* portfolio-risk: an approval holds for the fills it did not enumerate, but for less than
\* the roundings they meet, and spends nothing twice.
ApprovalsHold ==
    /\ engine = "portfolio-risk" => PR!ApprovalCoversEveryFill
    /\ engine = "portfolio-risk" => PR!ApprovalIsFunded

\* strategy-proposal and complete-set-arbitrage: a candidate is fresh and an opportunity
\* earns what its plan says, after every rounding and fee.
OpportunitiesAreReal ==
    /\ engine = "strategy-proposal" => SP!CandidatesAreFresh
    /\ engine = "complete-set-arbitrage" => CSA!OpportunitiesEarn

\* No engine of the paired strategy ever holds half a pair.
PairsAreWhole ==
    /\ engine = "paired-opportunity-runtime" => POR!EligiblePairsAreWhole
    /\ engine = "paired-capital-staging" => PCS!StagedPairsAreWhole
    /\ engine = "paired-placement-policy" => PPP!PermittedPairsAreWhole
    /\ engine = "paired-paper-execution" => PPE!ExecutedPairsAreWhole
    /\ engine = "paired-settlement-runtime" => PSR!SettledPairsAreWhole
    /\ engine = "ctf-transaction-runtime" => CTF!ConvertedPairsAreWhole
    /\ engine = "unified-paired-trading-runtime" => UPT!UnifiedPairsAreWhole

\* shadow-auth: at most one lease is held, and none while a revocation waits for its
\* recovery.  executor-session: a request is answered once, whatever was late or repeated.
LeasesAreExclusive ==
    /\ engine = "shadow-auth-session" => SAS!LeaseIsExclusive
    /\ engine = "executor-session-simulator" => ESS!RequestsResolveOnce

\* A permit stands on current approvals of different people and is used once.
PermitsAreWarranted ==
    /\ engine = "credential-broker-simulator" => CBS!PermitsAreDual
    /\ engine = "deployment-execution-intent" => DEI!IntentsAreOneUse

\* A rollout does not go on after trouble unless an operator or a recovery says so, and a
\* rollback that began is completed.
RolloutsAreWatched ==
    /\ engine = "canary-rollout-simulator" => CRS!ExposureIsWatched
    /\ engine = "deployment-change-control" => DCC!TroubleEndsTheChange
    /\ engine = "deployment-orchestration-simulator" => ORC!RollbackIsCompleted

\* A report says what the recorded evidence supports.
ReportsAreEarned ==
    /\ engine = "shadow-auth-session" => SAS!ReportIsEarned
    /\ engine = "submission-gateway-certification" => SGW!ReportIsEarned
    /\ engine = "transport-adapter-certification" => TAC!ReportIsEarned
    /\ engine = "fleet-rollout-governance" => FRG!ReadinessIsEarned
    /\ engine = "controlled-production-release" => CPR!ReportIsEarned

\* chain: a finalized height and its hash never fall or change, also over recoveries.
\* venue: an epoch of a channel that failed is not used again (what else a recovery brings
\* may be older).
ObservedHistoryStands ==
    /\ engine = "chain-observer" => CHN!FinalityIsFinal
    /\ engine = "read-only-venue" => VEN!EpochsDoNotReturn
=============================================================================
