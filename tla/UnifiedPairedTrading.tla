------------------------ MODULE UnifiedPairedTrading ------------------------
(***************************************************************************)
(* crates/unified-paired-trading-runtime: the paired strategy as one       *)
(* runtime.  It owns the conversion runtime and, through it, settlement,   *)
(* execution, policy and staging.  A command is handed down to the layer   *)
(* that decides it, with the ids and views of the lower layers filled in   *)
(* here; permission and submission of an order are one command.            *)
(***************************************************************************)
EXTENDS EngineOwner, FiniteSets, FiniteSetsExt

CONSTANTS Commands, Unit, PermissionLife, Grace

Ctf == INSTANCE CtfTransaction

\* The commands and what they carry, by the fields that the engine reads.
\* The commands of the parts, and those that make two of their steps at once.
IsCommand(c) ==
    \/ c.op \notin {"Stage", "Submit", "Observe", "PostConfirmed", "AuthorizeFirst",
                    "AuthorizeHedge", "ObserveLeg", "InjectFault"} /\ Ctf!IsCommand(c)
    \/ Variant(c, {"EvaluateAndStage"}, {"decision", "answer", "version", "legs"})
    \/ Variant(c, {"AuthorizeAndSubmitFirst"}, {"stage", "leg", "modeAge", "until"})
    \/ Variant(c, {"AuthorizeAndSubmitHedge"}, {"stage", "modeAge", "until"})
    \/ Variant(c, {"ObserveOrder"}, {"stage", "leg", "event", "sequence", "exchange", "time",
                                     "received", "release", "hold", "fully", "fill"})
    \/ Variant(c, {"PostConfirmed"}, {"stage", "leg", "fill"})
    \/ Variant(c, {"InjectFault"}, {})

Initial == [ctf |-> Ctf!Initial, fault |-> FALSE]

Outcome(u, status) == [next |-> u, status |-> status]
Provided(possible, value) == IF possible THEN {value} ELSE {}

Execution(u) == u.ctf.settlement.execution
Staging(u) == Ctf!Staging(u.ctf)

\* apply_ctf: down to the layer that decides, whose errors come back.
Delegate(u, c) == {Outcome([u EXCEPT !.ctf = a.next], a.status) : a \in Ctf!Answer(u.ctf, c)}

\* The risk frame is taken from the reconciler and the ledger as they are.
EvaluateAndStage(u, c) == Delegate(u, [c EXCEPT !.op = "Stage", !.version = Staging(u).version])

\* The fresh permit of a leg that waits for its order.
Permits(u, stage) ==
    UNION {UNION {r.permits[i] : i \in {j \in {1, 2} : r.legs[j] = "Authorized"}}
           : r \in {q \in Execution(u).policy.records : q.stage = stage}}

\* Wrong variant, for mutation only: an armed fault leaves the permission without an order.
SubmitOrFault(u, c) ==
    IF u.fault THEN {Outcome(u, "Submitted")}
    ELSE UNION {{b \in Delegate(u, [op |-> "Submit", id |-> c.id, at |-> c.at, permit |-> t]) : b.status = "Submitted"}
                : t \in Permits(u, c.stage)}

\* The second half: an armed fault or a denied submission is an error, and the copy the
\* permission was issued on is dropped.
SubmitPermitted(u, c) ==
    IF u.fault THEN {}
    ELSE UNION {{b \in Delegate(u, [op |-> "Submit", id |-> c.id, at |-> c.at, permit |-> t]) : b.status = "Submitted"}
                : t \in Permits(u, c.stage)}

AuthorizeAndSubmit(u, c, authorization) ==
    UNION {IF a.status = "PermissionIssued" THEN SubmitPermitted(a.next, c)
           ELSE {Outcome(a.next, "AuthorizationDenied")}
           : a \in Delegate(u, [c EXCEPT !.op = authorization])}

\* derive_exchange_observation: the ledger command of a fill is named after the command
\* that reported it.
ObserveOrder(u, c) ==
    Delegate(u, [c EXCEPT !.op = "Observe",
                          !.fill = IF c.event = "Match" THEN [@ EXCEPT !.ledger = c.id] ELSE @])

\* handoff_ledger_id: the ledger command of one of the order's fills.
LedgerIds(u, c) ==
    UNION {{f.ledger : f \in {g \in o.fills : g.id = c.fill}}
           : o \in {p \in Execution(u).orders : p.permit.stage = c.stage /\ p.permit.leg = c.leg}}

PostConfirmed(u, c) == UNION {Delegate(u, [c EXCEPT !.fill = l]) : l \in LedgerIds(u, c)}

InjectFault(u, c) == Provided(~u.fault, Outcome([u EXCEPT !.fault = TRUE], "FaultArmed"))

Answer(u, c) ==
    CASE c.op = "EvaluateAndStage" -> EvaluateAndStage(u, c)
      [] c.op = "AuthorizeAndSubmitFirst" -> AuthorizeAndSubmit(u, c, "AuthorizeFirst")
      [] c.op = "AuthorizeAndSubmitHedge" -> AuthorizeAndSubmit(u, c, "AuthorizeHedge")
      [] c.op = "ObserveOrder" -> ObserveOrder(u, c)
      [] c.op = "PostConfirmed" -> PostConfirmed(u, c)
      [] c.op = "InjectFault" -> InjectFault(u, c)
      [] c.op \in {"Fund", "Reconcile", "ObserveMode", "RequestCancel", "Expire", "AbortSafe", "RegisterHandoff",
                   "ObserveTrade", "LockCompletePair", "FinalizeStage", "RequestConversion",
                   "ObserveConversion"} -> Delegate(u, c)

-----------------------------------------------------------------------------
(***************************************************************************)
(* The engine and its owner in durable.rs                                  *)
(***************************************************************************)
Possible(c) == Answer(state, c) # {}
Handler(c) == \E a \in Answer(state, c) : state' = a.next /\ Decide(c, a.status)
Apply(c) == ApplyClockFirst(c, Possible(c), Handler(c))

Init == OwnerInit(Initial)
Journal(c) == JournalCommand(c, c.at >= 0, Possible(c))
Install == InstallCommand(Apply(Last(log)))
Recovery == RecoverWith(Apply(log[cursor + 1]), Initial)
WriteCheckpoint == SaveCheckpoint

Next ==
    \/ \E c \in Commands : Journal(c)
    \/ Install \/ SyncFails \/ Crash \/ Recovery \/ WriteCheckpoint

-----------------------------------------------------------------------------
Whole == INSTANCE PairedPaperExecution WITH state <- state.ctf.settlement.execution

Settled == state.ctf.settlement
Merged ==
    MapThenSumSet(LAMBDA r : r.request.quantity,
                  {r \in state.ctf.records : r.request.kind = "Merge" /\ r.state = "Confirmed"})
TotalIn(a) == Ctf!Settlement!Free(Settled, a) + Ctf!Settlement!ReservedIn(Settled, a) + Ctf!Settlement!LockedIn(Settled, a)

\* specs/027, with all five layers at work: no leg is permitted without its order, every
\* layer's view of a pair is the exchange's, and each unit of money and each token is
\* where the fills, the postings and the merges have put it.
UnifiedPairsAreWhole ==
    /\ \A r \in Execution(state).policy.records : \A i \in {1, 2} : r.legs[i] # "Authorized"
    /\ Whole!ExecutedPairsAreWhole
    /\ TotalIn("cash") = Ctf!Settlement!Funded - Ctf!Settlement!Spent(Settled) + Merged
    /\ \A g \in Staging(state).stages : \A i \in {1, 2} :
           TotalIn(g.legs[i].token) = Ctf!Settlement!Posted(Settled, g.id, i) - Merged
=============================================================================
