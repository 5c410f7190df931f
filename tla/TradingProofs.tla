---------------------------- MODULE TradingProofs ----------------------------
(***************************************************************************)
(* The trading path for every set of commands: the order-intent policy,    *)
(* the settlement reconciler, the paper execution engine and the runtime   *)
(* that has all of them, each under its journal-first owner with failing   *)
(* writes, process crashes, power losses, restarts and stray commands.     *)
(*                                                                         *)
(* The hypothesis of each theorem is that the commands are of the type     *)
(* the crate decodes; the totals of the fills rest on what portfolio-risk  *)
(* approves, too.  Each part has the same shape: what a step can do to     *)
(* the engine (...Steps), the invariant, one lemma per command that it     *)
(* survives the command, and the theorems it implies.                      *)
(***************************************************************************)
EXTENDS TradingEngines, SequenceTheorems, FiniteSetTheorems, WellFoundedInduction, TLAPS

\* The journal holds commands, and the one that waits for its sync is the last.
JournalHolds(commands) ==
    log \in Seq(commands) /\ cursor \in Nat /\ (phase = "appended" => log # <<>>)

engineFields == <<state, processed, lastRecorded, halted>>

\* A submitted command may join the journal.
LEMMA AppendHolds ==
    ASSUME NEW commands, JournalHolds(commands), NEW c \in commands
    PROVE  Append(log, c) \in Seq(commands) /\ Append(log, c) # <<>>
  BY DEF JournalHolds

\* What a crash leaves of a journal is one.
LEMMA PrefixHolds ==
    ASSUME NEW commands, JournalHolds(commands), NEW n \in 0..Len(log)
    PROVE  SubSeq(log, 1, n) \in Seq(commands)
  BY SubSeqProperties, ElementOfSeq DEF JournalHolds

\* The entry that waits for its sync is one of the commands.
LEMMA LastHeld ==
    ASSUME NEW commands, JournalHolds(commands), phase = "appended"
    PROVE  Last(log) \in commands
  BY EmptySeq, ElementOfSeq DEF JournalHolds, Last

\* A step of the policy owner applies a command, starts afresh or leaves the engine alone.
LEMMA PolicySteps ==
    ASSUME JournalHolds(PolicyCommands), synced \in Nat, [OIP!Next]_(OIP!ownerVars)
    PROVE  /\ JournalHolds(PolicyCommands)' /\ synced' \in Nat
           /\ \/ \E c \in PolicyCommands : OIP!Apply(c)
              \/ /\ state' = OIP!Initial /\ processed' = {} /\ lastRecorded' = -1
                 /\ halted' = FALSE
              \/ UNCHANGED engineFields
  <1>0. log \in Seq(PolicyCommands) /\ cursor \in Nat /\ Len(log) \in Nat
    BY LenProperties DEF JournalHolds
  <1>1. CASE UNCHANGED OIP!ownerVars
    BY <1>1 DEF OIP!ownerVars, OIP!engineVars, OIP!journalVars, engineFields, JournalHolds
  <1>2. ASSUME NEW c \in PolicyCommands, OIP!Journal(c)
        PROVE  JournalHolds(PolicyCommands)' /\ UNCHANGED engineFields /\ synced' = synced
    BY <1>0, <1>2, AppendHolds DEF OIP!Journal, OIP!JournalCommand, OIP!AppendEntry, OIP!FailAppend,
         OIP!engineVars, engineFields, JournalHolds
  <1>3. CASE OIP!Install
    <2>1. Last(log) \in PolicyCommands /\ OIP!Apply(Last(log))
      BY <1>3, LastHeld DEF OIP!Install, OIP!InstallCommand, OIP!SyncEntry, OIP!Last, Last
    <2>2. JournalHolds(PolicyCommands)' /\ synced' \in Nat
      BY <1>0, <1>3 DEF OIP!Install, OIP!InstallCommand, OIP!SyncEntry, JournalHolds
    <2> QED BY <2>1, <2>2
  <1>4. CASE OIP!SyncFails \/ OIP!WriteCheckpoint
    BY <1>0, <1>4 DEF OIP!SyncFails, OIP!FailSync, OIP!WriteCheckpoint, OIP!SaveCheckpoint,
         OIP!CreateNew, OIP!engineVars, engineFields, JournalHolds
  <1>5. CASE OIP!Crash
    <2>1. CASE OIP!ProcessCrash
      BY <1>0, <1>5, <2>1 DEF OIP!Crash, OIP!ProcessCrash, OIP!engineVars, engineFields, JournalHolds
    <2>2. CASE OIP!PowerLoss
      <3>1. PICK n \in synced..Len(log) : log' = SubSeq(log, 1, n) /\ synced' = n
        BY <2>2 DEF OIP!PowerLoss
      <3>2. n \in 0..Len(log) /\ synced' \in Nat
        BY <1>0, <3>1
      <3>3. log' \in Seq(PolicyCommands)
        BY <3>1, <3>2, PrefixHolds
      <3> QED BY <1>0, <1>5, <2>2, <3>2, <3>3
           DEF OIP!Crash, OIP!PowerLoss, OIP!engineVars, engineFields, JournalHolds
    <2> QED BY <1>5, <2>1, <2>2 DEF OIP!Crash
  <1>6. CASE OIP!Recovery
    <2>1. CASE OIP!StartFrom(OIP!Initial)
      BY <1>0, <2>1 DEF OIP!StartFrom, OIP!BeginReplay, JournalHolds
    <2>2. CASE OIP!ReplayCommand(OIP!Apply(log[cursor + 1]))
      <3>1. log[cursor + 1] \in PolicyCommands
        BY <1>0, <2>2, ElementOfSeq DEF OIP!ReplayCommand
      <3> QED BY <1>0, <2>2, <3>1 DEF OIP!ReplayCommand, JournalHolds
    <2>3. CASE OIP!PostHaltEvent \/ OIP!EndOfJournal
      BY <1>0, <2>3 DEF OIP!PostHaltEvent, OIP!RefuseEntry, OIP!EndOfJournal, OIP!engineVars,
           engineFields, JournalHolds
    <2> QED BY <1>6, <2>1, <2>2, <2>3 DEF OIP!Recovery, OIP!RecoverWith
  <1> QED BY <1>1, <1>2, <1>3, <1>4, <1>5, <1>6 DEF OIP!Next

-----------------------------------------------------------------------------
(***************************************************************************)
(* order-intent-policy                                                     *)
(***************************************************************************)
Placed == OIP!PermittedOps("AuthorizePlacement")
Delayed == OIP!PermittedOps("MarkDelayed")
Live == OIP!PermittedOps("MarkLive")
Ended == OIP!PermittedOps("MarkTerminal")
Canceled == OIP!PermittedOps("AuthorizeCancel")

Stages == {"None", "Authorized", "Delayed", "Live", "CancelAuthorized", "Terminal"}
Observations == {c.observation : c \in {d \in PolicyCommands : d.op = "ObserveMode"}}
Digests == {c.request.approval.digest : c \in {d \in PolicyCommands : d.op = "AuthorizePlacement"}}
Tracked == [approvals : SUBSET Digests, expires : Int, stage : Stages, release : Int,
            uncancellableUntil : Int]

PolicyState ==
    [mode : SUBSET Observations, orders : [OrderIds -> Tracked], usedApprovals : SUBSET Digests]

PolicyTypeOK ==
    /\ JournalHolds(PolicyCommands) /\ synced \in Nat
    /\ state \in PolicyState
    /\ processed \subseteq [command : PolicyCommands, status : {"Permit", "Deny"}]
    /\ lastRecorded \in Int
    /\ \A p \in processed : p.command.at <= lastRecorded

Stage(o) == state.orders[o].stage

\* An order's stage and fields say which of its commands were permitted.
OrderHistory(o) ==
    /\ Stage(o) = "None" => state.orders[o].approvals = {}
    /\ Stage(o) # "None" => \E p \in Placed : p.request.order.id = o
    /\ Stage(o) = "Delayed" => \E d \in Delayed : d.order = o
    /\ Stage(o) = "Live" => \E l \in Live : l.order = o

PlacedHistory(c) ==
    LET o == c.request.order.id
    IN  /\ Stage(o) # "None" /\ state.orders[o].expires = c.request.expires
        /\ state.orders[o].approvals = {c.request.approval.digest}

DelayedHistory(d) ==
    /\ Stage(d.order) \in {"Delayed", "Live", "CancelAuthorized", "Terminal"}
    /\ Stage(d.order) = "Delayed" => /\ state.orders[d.order].release = d.release
                                     /\ state.orders[d.order].uncancellableUntil = d.uncancellableUntil

PolicyHistory ==
    /\ \A o \in OrderIds : OrderHistory(o)
    /\ \A c \in Placed : PlacedHistory(c)
    /\ \A d \in Delayed : DelayedHistory(d)
    /\ \A l \in Live : Stage(l.order) \in {"Live", "CancelAuthorized", "Terminal"}
    /\ \A c \in Canceled : Stage(c.order) \in {"CancelAuthorized", "Terminal"}
    /\ \A t \in Ended : Stage(t.order) = "Terminal"

\* The properties, over these histories.
SpentOnce ==
    /\ \A c, d \in Placed :
           \/ c.request.approval.digest = d.request.approval.digest
           \/ c.request.order.id = d.request.order.id
           => c = d
    /\ state.usedApprovals = UNION {state.orders[o].approvals : o \in OrderIds}

ReleaseRespected ==
    /\ \A l \in Live, d \in Delayed : l.order = d.order => l.at >= d.release
    /\ \A c \in Placed, d \in Delayed : d.order = c.request.order.id => d.at < c.request.expires
    /\ \A c \in Placed, l \in Live :
           l.order = c.request.order.id =>
               l.at < c.request.expires \/ \E d \in Delayed : d.order = l.order

CancelsInOrder ==
    /\ \A c, d \in Canceled : c.order = d.order => c = d
    /\ \A c \in Canceled : \E p \in Placed : p.request.order.id = c.order /\ p.at <= c.at
    /\ \A c \in Canceled, t \in Ended : t.order = c.order => c.at <= t.at
    /\ \A c \in Canceled, d \in Delayed :
           c.order = d.order =>
               c.at >= d.uncancellableUntil \/ \E l \in Live : l.order = c.order /\ l.at <= c.at

PolicyInv ==
    PolicyTypeOK /\ PolicyHistory /\ SpentOnce /\ ReleaseRespected /\ CancelsInOrder

\* The invariant implies both properties of the policy.
LEMMA PolicyInvSuffices ==
    ASSUME PolicyInv
    PROVE  OIP!ApprovalsSpentOnce /\ OIP!ReleaseAndExpiryRespected /\ OIP!CancelsFollowLifecycle
  <1>1. OIP!ApprovalsSpentOnce
    BY DEF PolicyInv, SpentOnce, OIP!ApprovalsSpentOnce, Placed
  <1>2. OIP!ReleaseAndExpiryRespected
    BY DEF PolicyInv, ReleaseRespected, OIP!ReleaseAndExpiryRespected, Placed, Delayed, Live
  <1>3. OIP!CancelsFollowLifecycle
    BY DEF PolicyInv, CancelsInOrder, OIP!CancelsFollowLifecycle, Placed, Delayed, Live, Ended, Canceled
  <1> QED BY <1>1, <1>2, <1>3

\* A permitted command is one that was submitted.
LEMMA PermittedTyped ==
    ASSUME PolicyTypeOK, NEW op, NEW c \in OIP!PermittedOps(op)
    PROVE  c \in PolicyCommands /\ c.op = op /\ c.at <= lastRecorded
  BY DEF PolicyTypeOK, OIP!PermittedOps, OIP!Decided

\* A permit puts its command, and nothing else, into the history.
LEMMA PermitAdds ==
    ASSUME NEW c, NEW op, processed' = processed \cup {[command |-> c, status |-> "Permit"]}
    PROVE  OIP!PermittedOps(op)' = OIP!PermittedOps(op) \cup (IF c.op = op THEN {c} ELSE {})
  <1> DEFINE r == [command |-> c, status |-> "Permit"]
  <1>1. r.command = c /\ r.status = "Permit" /\ processed' = processed \cup {r}
    OBVIOUS
  <1> HIDE DEF r
  <1>2. CASE c.op = op
    BY <1>1, <1>2 DEF OIP!PermittedOps, OIP!Decided
  <1>3. CASE c.op # op
    BY <1>1, <1>3 DEF OIP!PermittedOps, OIP!Decided
  <1> QED BY <1>2, <1>3

\* A denial or a failed integrity check permits nothing.
LEMMA DenyAdds ==
    ASSUME NEW c, NEW op, processed' = processed \cup {[command |-> c, status |-> "Deny"]}
    PROVE  OIP!PermittedOps(op)' = OIP!PermittedOps(op)
  BY DEF OIP!PermittedOps, OIP!Decided

\* What apply makes of a command.
Permits(c) ==
    /\ c.at >= lastRecorded /\ lastRecorded' = c.at
    /\ processed' = processed \cup {[command |-> c, status |-> "Permit"]}
    /\ OIP!Possible(c) /\ OIP!Permitted(c) /\ OIP!Permit(c)

Denies(c) ==
    /\ c.at >= lastRecorded /\ lastRecorded' = c.at
    /\ processed' = processed \cup {[command |-> c, status |-> "Deny"]}
    /\ UNCHANGED state

\* What apply does to the engine: replay, denial, integrity failure or one effect.
LEMMA PolicyApplies ==
    ASSUME NEW c, OIP!Apply(c)
    PROVE  Permits(c) \/ Denies(c) \/ UNCHANGED <<state, processed, lastRecorded>>
  BY DEF OIP!Apply, OIP!ApplyIdFirst, OIP!Eligible, OIP!Handler, OIP!Decide, OIP!Timely,
         OIP!RepeatDecision, OIP!HaltOn, OIP!AnswerHalted, Permits, Denies

\* The history of a kind of command grows by the one that is permitted.
Grows(history, c, op) ==
    /\ c.op = op => history' = history \cup {c}
    /\ c.op # op => history' = history

\* The permitted commands of each kind only become more.
LEMMA HistoriesGrow ==
    ASSUME NEW c, Permits(c)
    PROVE  /\ Grows(Placed, c, "AuthorizePlacement") /\ Grows(Delayed, c, "MarkDelayed")
           /\ Grows(Live, c, "MarkLive") /\ Grows(Ended, c, "MarkTerminal")
           /\ Grows(Canceled, c, "AuthorizeCancel")
  <1>1. ASSUME NEW op PROVE Grows(OIP!PermittedOps(op), c, op)
    BY PermitAdds DEF Permits, Grows
  <1> QED BY <1>1 DEF Placed, Delayed, Live, Ended, Canceled, Grows

\* Every permitted command is in the past and is one of the commands.
LEMMA HistoriesTyped ==
    ASSUME PolicyTypeOK
    PROVE  /\ \A c \in Placed : c \in PolicyCommands /\ c.op = "AuthorizePlacement" /\ c.at <= lastRecorded
           /\ \A c \in Delayed : c \in PolicyCommands /\ c.op = "MarkDelayed" /\ c.at <= lastRecorded
           /\ \A c \in Live : c \in PolicyCommands /\ c.op = "MarkLive" /\ c.at <= lastRecorded
           /\ \A c \in Ended : c \in PolicyCommands /\ c.op = "MarkTerminal" /\ c.at <= lastRecorded
           /\ \A c \in Canceled : c \in PolicyCommands /\ c.op = "AuthorizeCancel" /\ c.at <= lastRecorded
  BY PermittedTyped DEF Placed, Delayed, Live, Ended, Canceled

\* What a permitted command leaves typed whatever it does to the orders.
LEMMA PermitTyped ==
    ASSUME PolicyCommandsTyped, PolicyTypeOK, NEW c \in PolicyCommands,
           c.at >= lastRecorded, lastRecorded' = c.at,
           NEW s \in {"Permit", "Deny"}, processed' = processed \cup {[command |-> c, status |-> s]}
    PROVE  /\ processed' \subseteq [command : PolicyCommands, status : {"Permit", "Deny"}]
           /\ lastRecorded' \in Int
           /\ \A p \in processed' : p.command.at <= lastRecorded'
  BY DEF PolicyTypeOK, PolicyCommandsTyped


\* What a step to another stage leaves of the orders.
StageStep(o, stage) ==
    /\ state'.usedApprovals = state.usedApprovals
    /\ \A x \in OrderIds :
           /\ state'.orders[x].approvals = state.orders[x].approvals
           /\ state'.orders[x].expires = state.orders[x].expires
           /\ x # o => state'.orders[x] = state.orders[x]
    /\ Stage(o)' = stage

\* One order moves to a stage and all other orders stay.
LEMMA SetStageSteps ==
    ASSUME state \in PolicyState, NEW o \in OrderIds, NEW stage \in Stages, OIP!SetStage(o, stage)
    PROVE  state' \in PolicyState /\ StageStep(o, stage)
  <1> DEFINE orders == [state.orders EXCEPT ![o].stage = stage]
  <1>1. state' = [state EXCEPT !.orders = orders]
    BY DEF OIP!SetStage
  <1>2. /\ state.orders \in [OrderIds -> Tracked] /\ state.mode \in SUBSET Observations
        /\ state.usedApprovals \in SUBSET Digests
    BY DEF PolicyState
  <1>3. state'.orders = orders /\ state'.usedApprovals = state.usedApprovals /\ state'.mode = state.mode
    BY <1>1 DEF PolicyState
  <1>4. /\ orders[o].stage = stage
        /\ \A x \in OrderIds : /\ orders[x].approvals = state.orders[x].approvals
                              /\ orders[x].expires = state.orders[x].expires
                              /\ x # o => orders[x] = state.orders[x]
    BY <1>2 DEF Tracked
  <1>5. [state.orders[o] EXCEPT !.stage = stage] \in Tracked
    BY <1>2 DEF Tracked
  <1>6. orders \in [OrderIds -> Tracked]
    BY <1>2, <1>5
  <1>7. state' \in PolicyState
    BY <1>1, <1>2, <1>6 DEF PolicyState
  <1> QED BY <1>3, <1>4, <1>7 DEF StageStep, Stage

\* Observing the server clock preserves the invariant.
LEMMA InvForObserve ==
    ASSUME PolicyCommandsTyped, PolicyInv, NEW c \in PolicyCommands, Permits(c), c.op = "ObserveMode",
           (JournalHolds(PolicyCommands) /\ synced \in Nat)'
    PROVE  PolicyInv'
  <1>1. state' = [state EXCEPT !.mode = {c.observation}]
    BY DEF Permits, OIP!Permit, OIP!ObserveMode
  <1>2. state'.orders = state.orders /\ state'.usedApprovals = state.usedApprovals
    BY <1>1 DEF PolicyInv, PolicyTypeOK, PolicyState
  <1>3. state' \in PolicyState
    BY <1>1 DEF PolicyInv, PolicyTypeOK, PolicyState, Observations
  <1>4. PolicyTypeOK'
    BY <1>3, PermitTyped DEF PolicyInv, PolicyTypeOK, Permits
  <1>5. UNCHANGED <<Placed, Delayed, Live, Ended, Canceled>>
    BY HistoriesGrow DEF Grows
  <1> QED BY <1>2, <1>4, <1>5
       DEF PolicyInv, PolicyHistory, OrderHistory, PlacedHistory, DelayedHistory, Stage,
           SpentOnce, ReleaseRespected, CancelsInOrder

\* The orders that permitted commands name are tracked.
LEMMA HistoriesNameOrders ==
    ASSUME PolicyCommandsTyped, PolicyInv
    PROVE  /\ \A c \in Placed : c.request.order.id \in OrderIds /\ c.at \in Int /\ c.request.expires \in Int
           /\ \A c \in Delayed : /\ c.order \in OrderIds /\ c.at \in Int /\ c.release \in Int
                                /\ c.uncancellableUntil \in Int
           /\ \A c \in Live \cup Ended \cup Canceled : c.order \in OrderIds /\ c.at \in Int
  BY HistoriesTyped DEF PolicyInv, PolicyCommandsTyped, Timed

\* A step that places nothing spends no approval.
LEMMA UsedApprovalsKept ==
    ASSUME PolicyInv, NEW o, NEW stage, StageStep(o, stage), Placed' = Placed
    PROVE  SpentOnce'
  <1>1. (UNION {state.orders[x].approvals : x \in OrderIds})' = UNION {state.orders[x].approvals : x \in OrderIds}
    BY DEF StageStep
  <1> QED BY <1>1 DEF PolicyInv, SpentOnce, StageStep

\* Marking an order live preserves the invariant.
LEMMA InvForLive ==
    ASSUME PolicyCommandsTyped, PolicyInv, NEW c \in PolicyCommands, Permits(c), c.op = "MarkLive",
           (JournalHolds(PolicyCommands) /\ synced \in Nat)'
    PROVE  PolicyInv'
  <1>0. c.order \in OrderIds /\ c.at \in Int
    BY DEF PolicyCommandsTyped, Timed
  <1>1. state' \in PolicyState /\ StageStep(c.order, "Live")
    <2>1. OIP!SetStage(c.order, "Live") /\ state \in PolicyState /\ "Live" \in Stages
      BY DEF Permits, OIP!Permit, OIP!MarkLive, PolicyInv, PolicyTypeOK, Stages
    <2> QED BY <1>0, <2>1, SetStageSteps
  <1>2. PolicyTypeOK'
    BY <1>1, PermitTyped DEF PolicyInv, PolicyTypeOK, Permits
  <1>3. /\ Live' = Live \cup {c}
        /\ Placed' = Placed /\ Delayed' = Delayed /\ Ended' = Ended /\ Canceled' = Canceled
    BY HistoriesGrow DEF Grows
  <1>4. /\ Stage(c.order) \in {"Authorized", "Delayed"}
        /\ Stage(c.order) = "Authorized" => c.at < state.orders[c.order].expires
        /\ Stage(c.order) = "Delayed" => c.at >= state.orders[c.order].release
    BY DEF Permits, OIP!Possible, OIP!CanMarkLive, Stage
  <1>5. PolicyHistory'
    <2>1. ASSUME NEW x \in OrderIds PROVE OrderHistory(x)'
      BY <1>0, <1>1, <1>3, <1>4 DEF PolicyInv, PolicyHistory, OrderHistory, Stage, StageStep
    <2>2. ASSUME NEW p \in Placed PROVE PlacedHistory(p)'
      BY <1>0, <1>1, <2>2, HistoriesNameOrders
         DEF PolicyInv, PolicyHistory, PlacedHistory, Stage, StageStep
    <2>3. ASSUME NEW d \in Delayed PROVE DelayedHistory(d)'
      BY <1>0, <1>1, <2>3, HistoriesNameOrders
         DEF PolicyInv, PolicyHistory, DelayedHistory, Stage, StageStep
    <2>4. \A x \in OrderIds : x # c.order => Stage(x)' = Stage(x)
      BY <1>1 DEF Stage, StageStep
    <2>5. ASSUME NEW l \in Live \cup {c} PROVE Stage(l.order)' \in {"Live", "CancelAuthorized", "Terminal"}
      BY <1>0, <1>1, <2>4, <2>5, HistoriesNameOrders DEF PolicyInv, PolicyHistory, StageStep
    <2>6. /\ \A k \in Canceled : Stage(k.order)' \in {"CancelAuthorized", "Terminal"}
          /\ \A t \in Ended : Stage(t.order)' = "Terminal"
      BY <1>4, <2>4, HistoriesNameOrders DEF PolicyInv, PolicyHistory
    <2> QED BY <1>3, <2>1, <2>2, <2>3, <2>5, <2>6 DEF PolicyHistory
  <1>6. SpentOnce'
    BY <1>1, <1>3, UsedApprovalsKept
  <1>7. ReleaseRespected'
    <2>1. ASSUME NEW d \in Delayed, d.order = c.order PROVE c.at >= d.release
      BY <1>4, <2>1 DEF PolicyInv, PolicyHistory, DelayedHistory
    <2>2. ASSUME NEW p \in Placed, c.order = p.request.order.id
          PROVE  c.at < p.request.expires \/ \E d \in Delayed : d.order = c.order
      BY <1>0, <1>4, <2>2 DEF PolicyInv, PolicyHistory, PlacedHistory, OrderHistory
    <2> QED BY <1>3, <2>1, <2>2 DEF PolicyInv, ReleaseRespected
  <1>8. CancelsInOrder'
    BY <1>3 DEF PolicyInv, CancelsInOrder
  <1> QED BY <1>2, <1>5, <1>6, <1>7, <1>8 DEF PolicyInv

\* Marking an order terminal preserves the invariant.
LEMMA InvForTerminal ==
    ASSUME PolicyCommandsTyped, PolicyInv, NEW c \in PolicyCommands, Permits(c), c.op = "MarkTerminal",
           (JournalHolds(PolicyCommands) /\ synced \in Nat)'
    PROVE  PolicyInv'
  <1>0. c.order \in OrderIds /\ c.at \in Int /\ lastRecorded \in Int /\ c.at >= lastRecorded
    BY DEF PolicyCommandsTyped, Timed, Permits, PolicyInv, PolicyTypeOK
  <1>1. state' \in PolicyState /\ StageStep(c.order, "Terminal")
    <2>1. OIP!SetStage(c.order, "Terminal") /\ state \in PolicyState /\ "Terminal" \in Stages
      BY DEF Permits, OIP!Permit, OIP!MarkTerminal, PolicyInv, PolicyTypeOK, Stages
    <2> QED BY <1>0, <2>1, SetStageSteps
  <1>2. PolicyTypeOK'
    BY <1>1, PermitTyped DEF PolicyInv, PolicyTypeOK, Permits
  <1>3. /\ Ended' = Ended \cup {c}
        /\ Placed' = Placed /\ Delayed' = Delayed /\ Live' = Live /\ Canceled' = Canceled
    BY HistoriesGrow DEF Grows
  <1>4. Stage(c.order) \notin {"None", "Terminal"}
    BY DEF Permits, OIP!Possible, OIP!CanMarkTerminal, Stage
  <1>5. PolicyHistory'
    <2>1. ASSUME NEW x \in OrderIds PROVE OrderHistory(x)'
      BY <1>0, <1>1, <1>3, <1>4 DEF PolicyInv, PolicyHistory, OrderHistory, Stage, StageStep
    <2>2. ASSUME NEW p \in Placed PROVE PlacedHistory(p)'
      BY <1>0, <1>1, <2>2, HistoriesNameOrders
         DEF PolicyInv, PolicyHistory, PlacedHistory, Stage, StageStep
    <2>3. ASSUME NEW d \in Delayed PROVE DelayedHistory(d)'
      BY <1>0, <1>1, <2>3, HistoriesNameOrders
         DEF PolicyInv, PolicyHistory, DelayedHistory, Stage, StageStep
    <2>4. \A x \in OrderIds : x # c.order => Stage(x)' = Stage(x)
      BY <1>1 DEF Stage, StageStep
    <2>5. \A x \in OrderIds : Stage(x)' = Stage(x) \/ Stage(x)' = "Terminal"
      BY <1>1, <2>4 DEF StageStep
    <2>6. /\ \A l \in Live : Stage(l.order)' \in {"Live", "CancelAuthorized", "Terminal"}
          /\ \A k \in Canceled : Stage(k.order)' \in {"CancelAuthorized", "Terminal"}
          /\ \A t \in Ended : Stage(t.order)' = "Terminal"
      BY <2>5, HistoriesNameOrders DEF PolicyInv, PolicyHistory
    <2>7. Stage(c.order)' = "Terminal"
      BY <1>1 DEF StageStep
    <2> QED BY <1>3, <2>1, <2>2, <2>3, <2>6, <2>7 DEF PolicyHistory
  <1>6. SpentOnce'
    BY <1>1, <1>3, UsedApprovalsKept
  <1>7. ReleaseRespected'
    BY <1>3 DEF PolicyInv, ReleaseRespected
  <1>8. CancelsInOrder'
    <2>1. \A k \in Canceled : k.at <= c.at
      BY <1>0, HistoriesTyped, HistoriesNameOrders DEF PolicyInv
    <2> QED BY <1>3, <2>1 DEF PolicyInv, CancelsInOrder
  <1> QED BY <1>2, <1>5, <1>6, <1>7, <1>8 DEF PolicyInv

\* Authorizing a cancel preserves the invariant.
LEMMA InvForCancel ==
    ASSUME PolicyCommandsTyped, PolicyInv, NEW c \in PolicyCommands, Permits(c), c.op = "AuthorizeCancel",
           (JournalHolds(PolicyCommands) /\ synced \in Nat)'
    PROVE  PolicyInv'
  <1>0. c.order \in OrderIds /\ c.at \in Int /\ lastRecorded \in Int /\ c.at >= lastRecorded
    BY DEF PolicyCommandsTyped, Timed, Permits, PolicyInv, PolicyTypeOK
  <1>1. state' \in PolicyState /\ StageStep(c.order, "CancelAuthorized")
    <2>1. OIP!SetStage(c.order, "CancelAuthorized") /\ state \in PolicyState /\ "CancelAuthorized" \in Stages
      BY DEF Permits, OIP!Permit, OIP!Cancel, PolicyInv, PolicyTypeOK, Stages
    <2> QED BY <1>0, <2>1, SetStageSteps
  <1>2. PolicyTypeOK'
    BY <1>1, PermitTyped DEF PolicyInv, PolicyTypeOK, Permits
  <1>3. /\ Canceled' = Canceled \cup {c}
        /\ Placed' = Placed /\ Delayed' = Delayed /\ Live' = Live /\ Ended' = Ended
    BY HistoriesGrow DEF Grows
  <1>4. /\ Stage(c.order) \in {"Authorized", "Delayed", "Live"}
        /\ Stage(c.order) = "Delayed" => c.at >= state.orders[c.order].uncancellableUntil
    BY DEF Permits, OIP!Permitted, OIP!CancelPermitted, Stage
  <1>5. PolicyHistory'
    <2>1. ASSUME NEW x \in OrderIds PROVE OrderHistory(x)'
      BY <1>0, <1>1, <1>3, <1>4 DEF PolicyInv, PolicyHistory, OrderHistory, Stage, StageStep
    <2>2. ASSUME NEW p \in Placed PROVE PlacedHistory(p)'
      BY <1>0, <1>1, <2>2, HistoriesNameOrders
         DEF PolicyInv, PolicyHistory, PlacedHistory, Stage, StageStep
    <2>3. ASSUME NEW d \in Delayed PROVE DelayedHistory(d)'
      BY <1>0, <1>1, <2>3, HistoriesNameOrders
         DEF PolicyInv, PolicyHistory, DelayedHistory, Stage, StageStep
    <2>4. \A x \in OrderIds : x # c.order => Stage(x)' = Stage(x)
      BY <1>1 DEF Stage, StageStep
    <2>5. Stage(c.order)' = "CancelAuthorized"
      BY <1>1 DEF StageStep
    <2>6. /\ \A l \in Live : Stage(l.order)' \in {"Live", "CancelAuthorized", "Terminal"}
          /\ \A k \in Canceled : Stage(k.order)' \in {"CancelAuthorized", "Terminal"}
          /\ \A t \in Ended : Stage(t.order)' = "Terminal"
      BY <1>4, <2>4, <2>5, HistoriesNameOrders DEF PolicyInv, PolicyHistory
    <2> QED BY <1>3, <2>1, <2>2, <2>3, <2>5, <2>6 DEF PolicyHistory
  <1>6. SpentOnce'
    BY <1>1, <1>3, UsedApprovalsKept
  <1>7. ReleaseRespected'
    BY <1>3 DEF PolicyInv, ReleaseRespected
  <1>8. CancelsInOrder'
    <2>1. \A k \in Canceled : k.order # c.order
      BY <1>4 DEF PolicyInv, PolicyHistory
    <2>2. \A t \in Ended : t.order # c.order
      BY <1>4 DEF PolicyInv, PolicyHistory
    <2>3. \E p \in Placed : p.request.order.id = c.order /\ p.at <= c.at
      BY <1>0, <1>4, HistoriesTyped, HistoriesNameOrders DEF PolicyInv, PolicyHistory, OrderHistory
    <2>4. ASSUME NEW d \in Delayed, c.order = d.order
          PROVE  c.at >= d.uncancellableUntil \/ \E l \in Live : l.order = c.order /\ l.at <= c.at
      <3>1. CASE Stage(c.order) = "Delayed"
        BY <1>4, <2>4, <3>1 DEF PolicyInv, PolicyHistory, DelayedHistory
      <3>2. CASE Stage(c.order) = "Live"
        BY <1>0, <3>2, HistoriesTyped, HistoriesNameOrders DEF PolicyInv, PolicyHistory, OrderHistory
      <3> QED BY <1>4, <2>4, <3>1, <3>2 DEF PolicyInv, PolicyHistory, DelayedHistory
    <2> QED BY <1>3, <2>1, <2>2, <2>3, <2>4 DEF PolicyInv, CancelsInOrder
  <1> QED BY <1>2, <1>5, <1>6, <1>7, <1>8 DEF PolicyInv

\* A delayed order keeps its permit and gets its release time.
LEMMA MarkDelayedSteps ==
    ASSUME state \in PolicyState, NEW c, c.order \in OrderIds, c.release \in Int,
           c.uncancellableUntil \in Int, OIP!MarkDelayed(c)
    PROVE  /\ state' \in PolicyState /\ StageStep(c.order, "Delayed")
           /\ state'.orders[c.order].release = c.release
           /\ state'.orders[c.order].uncancellableUntil = c.uncancellableUntil
  <1> DEFINE order == [state.orders[c.order] EXCEPT !.stage = "Delayed", !.release = c.release,
                                                   !.uncancellableUntil = c.uncancellableUntil]
             orders == [state.orders EXCEPT ![c.order] = order]
  <1>2. /\ state.orders \in [OrderIds -> Tracked] /\ state.mode \in SUBSET Observations
        /\ state.usedApprovals \in SUBSET Digests
    BY DEF PolicyState
  <1>1. state' = [state EXCEPT !.orders = orders]
    BY <1>2 DEF OIP!MarkDelayed, Tracked, PolicyState
  <1>3. state'.orders = orders /\ state'.usedApprovals = state.usedApprovals /\ state'.mode = state.mode
    BY <1>1 DEF PolicyState
  <1>4. /\ orders[c.order].stage = "Delayed" /\ orders[c.order].release = c.release
        /\ orders[c.order].uncancellableUntil = c.uncancellableUntil
        /\ \A x \in OrderIds : /\ orders[x].approvals = state.orders[x].approvals
                              /\ orders[x].expires = state.orders[x].expires
                              /\ x # c.order => orders[x] = state.orders[x]
    BY <1>2 DEF Tracked
  <1>5. order \in Tracked
    BY <1>2 DEF Tracked, Stages
  <1>6. orders \in [OrderIds -> Tracked]
    BY <1>2, <1>5
  <1>7. state' \in PolicyState
    BY <1>1, <1>2, <1>6 DEF PolicyState
  <1> QED BY <1>3, <1>4, <1>7 DEF StageStep, Stage

\* Marking an order delayed preserves the invariant.
LEMMA InvForDelayed ==
    ASSUME PolicyCommandsTyped, PolicyInv, NEW c \in PolicyCommands, Permits(c), c.op = "MarkDelayed",
           (JournalHolds(PolicyCommands) /\ synced \in Nat)'
    PROVE  PolicyInv'
  <1>0. c.order \in OrderIds /\ c.at \in Int /\ c.release \in Int /\ c.uncancellableUntil \in Int
    BY DEF PolicyCommandsTyped, Timed
  <1>1. /\ state' \in PolicyState /\ StageStep(c.order, "Delayed")
        /\ state'.orders[c.order].release = c.release
        /\ state'.orders[c.order].uncancellableUntil = c.uncancellableUntil
    BY <1>0, MarkDelayedSteps DEF Permits, OIP!Permit, PolicyInv, PolicyTypeOK
  <1>2. PolicyTypeOK'
    BY <1>1, PermitTyped DEF PolicyInv, PolicyTypeOK, Permits
  <1>3. /\ Delayed' = Delayed \cup {c}
        /\ Placed' = Placed /\ Ended' = Ended /\ Live' = Live /\ Canceled' = Canceled
    BY HistoriesGrow DEF Grows
  <1>4. Stage(c.order) = "Authorized" /\ c.at < state.orders[c.order].expires
    BY DEF Permits, OIP!Possible, OIP!CanMarkDelayed, Stage
  <1>5. \A x \in Delayed \cup Live \cup Canceled \cup Ended : x.order # c.order
    BY <1>4 DEF PolicyInv, PolicyHistory, DelayedHistory
  <1>6. PolicyHistory'
    <2>1. ASSUME NEW x \in OrderIds PROVE OrderHistory(x)'
      BY <1>0, <1>1, <1>3, <1>4 DEF PolicyInv, PolicyHistory, OrderHistory, Stage, StageStep
    <2>2. ASSUME NEW p \in Placed PROVE PlacedHistory(p)'
      BY <1>0, <1>1, <2>2, HistoriesNameOrders
         DEF PolicyInv, PolicyHistory, PlacedHistory, Stage, StageStep
    <2>3. ASSUME NEW d \in Delayed \cup {c} PROVE DelayedHistory(d)'
      BY <1>0, <1>1, <1>5, <2>3, HistoriesNameOrders
         DEF PolicyInv, PolicyHistory, DelayedHistory, Stage, StageStep
    <2>4. \A x \in OrderIds : x # c.order => Stage(x)' = Stage(x)
      BY <1>1 DEF Stage, StageStep
    <2>5. /\ \A l \in Live : Stage(l.order)' \in {"Live", "CancelAuthorized", "Terminal"}
          /\ \A k \in Canceled : Stage(k.order)' \in {"CancelAuthorized", "Terminal"}
          /\ \A t \in Ended : Stage(t.order)' = "Terminal"
      BY <1>5, <2>4, HistoriesNameOrders DEF PolicyInv, PolicyHistory
    <2> QED BY <1>3, <2>1, <2>2, <2>3, <2>5 DEF PolicyHistory
  <1>7. SpentOnce'
    BY <1>1, <1>3, UsedApprovalsKept
  <1>8. ReleaseRespected'
    <2>1. ASSUME NEW p \in Placed, c.order = p.request.order.id PROVE c.at < p.request.expires
      BY <1>4, <2>1 DEF PolicyInv, PolicyHistory, PlacedHistory
    <2> QED BY <1>3, <1>5, <2>1 DEF PolicyInv, ReleaseRespected
  <1>9. CancelsInOrder'
    BY <1>3, <1>5 DEF PolicyInv, CancelsInOrder
  <1> QED BY <1>2, <1>6, <1>7, <1>8, <1>9 DEF PolicyInv

\* A placement tracks one more order and spends one more approval.
LEMMA PlaceSteps ==
    ASSUME state \in PolicyState, NEW c, c.request.order.id \in OrderIds, c.request.expires \in Int,
           c.request.approval.digest \in Digests, OIP!Place(c)
    PROVE  LET o == c.request.order.id
           IN  /\ state' \in PolicyState
               /\ state'.usedApprovals = state.usedApprovals \cup {c.request.approval.digest}
               /\ \A x \in OrderIds : x # o => state'.orders[x] = state.orders[x]
               /\ Stage(o)' = "Authorized"
               /\ state'.orders[o].expires = c.request.expires
               /\ state'.orders[o].approvals = {c.request.approval.digest}
  <1> DEFINE o == c.request.order.id
             order == [OIP!Untracked EXCEPT !.approvals = {c.request.approval.digest},
                                            !.expires = c.request.expires, !.stage = "Authorized"]
             orders == [state.orders EXCEPT ![o] = order]
             used == state.usedApprovals \cup {c.request.approval.digest}
  <1>1. /\ state.orders \in [OrderIds -> Tracked] /\ state.mode \in SUBSET Observations
        /\ state.usedApprovals \in SUBSET Digests
    BY DEF PolicyState
  <1>2. state' = [state EXCEPT !.usedApprovals = used, !.orders = orders]
    BY <1>1 DEF OIP!Place, PolicyState
  <1>3. state'.orders = orders /\ state'.usedApprovals = used /\ state'.mode = state.mode
    BY <1>2 DEF PolicyState
  <1>4. /\ order.stage = "Authorized" /\ order.expires = c.request.expires
        /\ order.approvals = {c.request.approval.digest}
        /\ order \in Tracked
    <2>1. OIP!Untracked \in Tracked
      BY DEF OIP!Untracked, Tracked, Stages
    <2>2. {c.request.approval.digest} \in SUBSET Digests /\ "Authorized" \in Stages
      BY DEF Stages
    <2> QED BY <2>1, <2>2 DEF Tracked
  <1>5. orders[o] = order /\ \A x \in OrderIds : x # o => orders[x] = state.orders[x]
    BY <1>1
  <1>6. orders \in [OrderIds -> Tracked] /\ used \in SUBSET Digests
    BY <1>1, <1>4
  <1>7. state' \in PolicyState
    <2>1. state' = [mode |-> state.mode, orders |-> orders, usedApprovals |-> used]
      BY <1>2 DEF PolicyState
    <2> HIDE DEF orders, used
    <2> QED BY <1>1, <1>6, <2>1 DEF PolicyState
  <1> QED BY <1>3, <1>4, <1>5, <1>7 DEF Stage

\* Authorizing a placement preserves the invariant.
LEMMA InvForPlacement ==
    ASSUME PolicyCommandsTyped, PolicyInv, NEW c \in PolicyCommands, Permits(c),
           c.op = "AuthorizePlacement", (JournalHolds(PolicyCommands) /\ synced \in Nat)'
    PROVE  PolicyInv'
  <1> DEFINE o == c.request.order.id
             digest == c.request.approval.digest
  <1>0. o \in OrderIds /\ c.at \in Int /\ c.request.expires \in Int /\ digest \in Digests
    BY DEF PolicyCommandsTyped, Digests
  <1>1. /\ state' \in PolicyState
        /\ state'.usedApprovals = state.usedApprovals \cup {digest}
        /\ \A x \in OrderIds : x # o => state'.orders[x] = state.orders[x]
        /\ Stage(o)' = "Authorized"
        /\ state'.orders[o].expires = c.request.expires
        /\ state'.orders[o].approvals = {digest}
    BY <1>0, PlaceSteps DEF Permits, OIP!Permit, PolicyInv, PolicyTypeOK
  <1>2. PolicyTypeOK'
    BY <1>1, PermitTyped DEF PolicyInv, PolicyTypeOK, Permits
  <1>3. /\ Placed' = Placed \cup {c}
        /\ Delayed' = Delayed /\ Ended' = Ended /\ Live' = Live /\ Canceled' = Canceled
    BY HistoriesGrow DEF Grows
  <1>4. Stage(o) = "None" /\ digest \notin state.usedApprovals
    BY DEF Permits, OIP!Permitted, OIP!PlacementPermitted, OIP!ApprovalUsable, Stage
  <1>5. /\ \A x \in Delayed \cup Live \cup Canceled \cup Ended : x.order # o
        /\ \A p \in Placed : p.request.order.id # o
        /\ state.orders[o].approvals = {}
    BY <1>0, <1>4 DEF PolicyInv, PolicyHistory, DelayedHistory, PlacedHistory, OrderHistory
  <1> HIDE DEF o, digest
  <1>6. PolicyHistory'
    <2>1. ASSUME NEW x \in OrderIds PROVE OrderHistory(x)'
      BY <1>0, <1>1, <1>3 DEF PolicyInv, PolicyHistory, OrderHistory, Stage, o
    <2>2. \A x \in OrderIds : x # o => Stage(x)' = Stage(x)
      BY <1>1 DEF Stage
    <2>3. ASSUME NEW p \in Placed PROVE PlacedHistory(p)'
      BY <1>1, <1>5, <2>2, <2>3, HistoriesNameOrders DEF PolicyInv, PolicyHistory, PlacedHistory
    <2>4. PlacedHistory(c)'
      BY <1>1 DEF PlacedHistory, o, digest
    <2>5. ASSUME NEW d \in Delayed PROVE DelayedHistory(d)'
      BY <1>1, <1>5, <2>2, <2>5, HistoriesNameOrders DEF PolicyInv, PolicyHistory, DelayedHistory
    <2>6. /\ \A l \in Live : Stage(l.order)' \in {"Live", "CancelAuthorized", "Terminal"}
          /\ \A k \in Canceled : Stage(k.order)' \in {"CancelAuthorized", "Terminal"}
          /\ \A t \in Ended : Stage(t.order)' = "Terminal"
      BY <1>5, <2>2, HistoriesNameOrders DEF PolicyInv, PolicyHistory
    <2> QED BY <1>3, <2>1, <2>3, <2>4, <2>5, <2>6 DEF PolicyHistory
  <1>7. SpentOnce'
    <2>1. ASSUME NEW p \in Placed PROVE p.request.approval.digest # digest
      <3>1. p.request.approval.digest \in UNION {state.orders[x].approvals : x \in OrderIds}
        BY HistoriesNameOrders DEF PolicyInv, PolicyHistory, PlacedHistory
      <3> QED BY <1>4, <3>1 DEF PolicyInv, SpentOnce
    <2>2. \A p, q \in Placed' :
              p.request.approval.digest = q.request.approval.digest \/ p.request.order.id = q.request.order.id
              => p = q
      BY <1>3, <1>5, <2>1 DEF PolicyInv, SpentOnce, o, digest
    <2>3. (UNION {state.orders[x].approvals : x \in OrderIds})'
          = (UNION {state.orders[x].approvals : x \in OrderIds}) \cup {digest}
      <3>1. ASSUME NEW a PROVE a \in (UNION {state.orders[x].approvals : x \in OrderIds})' <=>
                               a \in (UNION {state.orders[x].approvals : x \in OrderIds}) \cup {digest}
        BY <1>0, <1>1, <1>5
      <3> QED BY <3>1
    <2> QED BY <1>1, <2>2, <2>3 DEF PolicyInv, SpentOnce
  <1>8. ReleaseRespected'
    BY <1>3, <1>5 DEF PolicyInv, ReleaseRespected, o
  <1>9. CancelsInOrder'
    BY <1>3 DEF PolicyInv, CancelsInOrder
  <1> QED BY <1>2, <1>6, <1>7, <1>8, <1>9 DEF PolicyInv

\* A denial or an integrity failure preserves the invariant.
LEMMA InvForDenial ==
    ASSUME PolicyInv, UNCHANGED <<state, Placed, Delayed, Live, Ended, Canceled>>, PolicyTypeOK'
    PROVE  PolicyInv'
  BY DEF PolicyInv, PolicyHistory, OrderHistory, PlacedHistory, DelayedHistory, Stage,
         SpentOnce, ReleaseRespected, CancelsInOrder

\* Without a new decision the histories are what they were.
LEMMA HistoriesKept ==
    ASSUME \A op : OIP!PermittedOps(op)' = OIP!PermittedOps(op)
    PROVE  UNCHANGED <<Placed, Delayed, Live, Ended, Canceled>>
  BY DEF Placed, Delayed, Live, Ended, Canceled

\* The engine as it is created, by new and by every recovery.
Fresh ==
    /\ JournalHolds(PolicyCommands) /\ synced \in Nat
    /\ state = OIP!Initial /\ processed = {} /\ lastRecorded = -1

\* A new policy engine satisfies the invariant, at the start and at a restart.
LEMMA InvAtStart ==
    Fresh => PolicyInv
  <1> SUFFICES ASSUME Fresh PROVE PolicyInv
    OBVIOUS
  <1> USE DEF Fresh
  <1>1. /\ Placed = {} /\ Delayed = {} /\ Live = {} /\ Ended = {} /\ Canceled = {}
    BY DEF Placed, Delayed, Live, Ended, Canceled, OIP!PermittedOps, OIP!Decided
  <1>2. /\ OIP!Untracked \in Tracked /\ OIP!Untracked.stage = "None" /\ OIP!Untracked.approvals = {}
    BY DEF OIP!Untracked, Tracked, Stages
  <1>3. state \in PolicyState
    BY <1>2 DEF OIP!Initial, PolicyState
  <1>4. PolicyTypeOK
    BY <1>3 DEF PolicyTypeOK
  <1>5. \A o \in OrderIds : state.orders[o] = OIP!Untracked
    BY DEF OIP!Initial
  <1>6. state.usedApprovals = {}
    BY DEF OIP!Initial
  <1>7. PolicyHistory
    BY <1>1, <1>2, <1>5 DEF PolicyHistory, OrderHistory, Stage
  <1>8. UNION {state.orders[o].approvals : o \in OrderIds} = {}
    BY <1>2, <1>5
  <1> QED BY <1>1, <1>4, <1>6, <1>7, <1>8 DEF PolicyInv, SpentOnce, ReleaseRespected, CancelsInOrder

\* The initial states satisfy the invariant.
LEMMA PolicyInvInitially ==
    ASSUME OIP!Init
    PROVE  PolicyInv
  <1>1. JournalHolds(PolicyCommands) /\ synced \in Nat
    BY EmptySeq DEF OIP!Init, OIP!OwnerInit, OIP!JournalInit, JournalHolds
  <1> QED BY <1>1, InvAtStart DEF Fresh, OIP!Init, OIP!OwnerInit, OIP!EngineInit

\* Every step of the owner preserves the invariant.
LEMMA PolicyInvNext ==
    ASSUME PolicyCommandsTyped, PolicyInv, [OIP!Next]_(OIP!ownerVars)
    PROVE  PolicyInv'
  <1>1. /\ (JournalHolds(PolicyCommands) /\ synced \in Nat)'
        /\ \/ \E c \in PolicyCommands : OIP!Apply(c)
           \/ state' = OIP!Initial /\ processed' = {} /\ lastRecorded' = -1
           \/ UNCHANGED <<state, processed, lastRecorded>>
    BY PolicySteps DEF PolicyInv, PolicyTypeOK, engineFields
  <1>2. ASSUME UNCHANGED <<state, processed, lastRecorded>> PROVE PolicyInv'
    <2>1. PolicyTypeOK'
      BY <1>1, <1>2 DEF PolicyInv, PolicyTypeOK
    <2>2. \A op : OIP!PermittedOps(op)' = OIP!PermittedOps(op)
      BY <1>2 DEF OIP!PermittedOps, OIP!Decided
    <2> QED BY <1>2, <2>1, <2>2, HistoriesKept, InvForDenial
  <1>3. CASE state' = OIP!Initial /\ processed' = {} /\ lastRecorded' = -1
    <2>1. Fresh' => PolicyInv'
      BY InvAtStart, PTL
    <2> QED BY <1>1, <1>3, <2>1 DEF Fresh
  <1>4. ASSUME NEW c \in PolicyCommands, Permits(c) PROVE PolicyInv'
    <2>1. \/ c.op \in {"ObserveMode", "AuthorizePlacement", "MarkDelayed"}
          \/ c.op \in {"MarkLive", "MarkTerminal", "AuthorizeCancel"}
      BY <1>4 DEF Permits, OIP!Permit
    <2> QED BY <1>1, <1>4, <2>1, InvForObserve, InvForPlacement, InvForDelayed, InvForLive,
               InvForTerminal, InvForCancel
  <1>5. ASSUME NEW c \in PolicyCommands, Denies(c) PROVE PolicyInv'
    <2>1. PolicyTypeOK'
      BY <1>1, <1>5, PermitTyped DEF PolicyInv, PolicyTypeOK, Denies
    <2>2. \A op : OIP!PermittedOps(op)' = OIP!PermittedOps(op)
      BY <1>5, DenyAdds DEF Denies
    <2> QED BY <1>5, <2>1, <2>2, HistoriesKept, InvForDenial DEF Denies
  <1> QED BY <1>1, <1>2, <1>3, <1>4, <1>5, PolicyApplies

PolicyEngineInv == engine = "order-intent-policy" => PolicyInv

\* The engine of a behaviour does not change, so the invariant holds in all of them.
LEMMA PolicyEngineInvHolds ==
    ASSUME PolicyCommandsTyped
    PROVE  TradingSpec => []PolicyEngineInv
  <1>1. TradingInit => PolicyEngineInv
    BY PolicyInvInitially DEF TradingInit, PolicyEngineInv
  <1>2. PolicyEngineInv /\ [TradingNext]_<<ownerVars, engine>> => PolicyEngineInv'
    <2> SUFFICES ASSUME PolicyEngineInv, [TradingNext]_<<ownerVars, engine>>,
                        engine' = "order-intent-policy"
                 PROVE  PolicyInv'
      BY DEF PolicyEngineInv
    <2>1. engine = "order-intent-policy" /\ PolicyInv
      BY DEF TradingNext, PolicyEngineInv
    <2>2. [OIP!Next]_(OIP!ownerVars)
      BY <2>1 DEF TradingNext, ownerVars, engineVars, journalVars, OIP!ownerVars, OIP!engineVars,
           OIP!journalVars
    <2> QED BY <2>1, <2>2, PolicyInvNext
  <1> QED BY <1>1, <1>2, PTL DEF TradingSpec

\* Over every journal, crash and replay of order-intent-policy: no approval and no order
\* is authorized twice.
THEOREM ApprovalsAreSpentOnce ==
    ASSUME PolicyCommandsTyped
    PROVE  TradingSpec => []ApprovalsSpentOnce
  <1>1. PolicyEngineInv => ApprovalsSpentOnce
    BY PolicyInvSuffices DEF PolicyEngineInv, ApprovalsSpentOnce
  <1> QED BY <1>1, PolicyEngineInvHolds, PTL

\* No order of order-intent-policy goes live before its release or leaves Authorized after
\* its permit expired, and none is canceled twice, after its end or in its interval.
THEOREM PermitsAreFollowed ==
    ASSUME PolicyCommandsTyped
    PROVE  TradingSpec => []OrdersFollowTheirPermits
  <1>1. PolicyEngineInv => OrdersFollowTheirPermits
    BY PolicyInvSuffices DEF PolicyEngineInv, OrdersFollowTheirPermits, OIP!OrdersFollowTheirPermits
  <1> QED BY <1>1, PolicyEngineInvHolds, PTL

-----------------------------------------------------------------------------
(***************************************************************************)
(* settlement-reconciliation                                               *)
(***************************************************************************)
\* A step of the settlement owner applies a command, starts afresh or leaves the engine alone.
LEMMA SettlementSteps ==
    ASSUME JournalHolds(SettlementCommands), synced \in Nat, [SR!Next]_(SR!ownerVars)
    PROVE  /\ JournalHolds(SettlementCommands)' /\ synced' \in Nat
           /\ \/ \E c \in SettlementCommands : SR!Apply(c)
              \/ /\ state' = SR!Initial /\ processed' = {} /\ lastRecorded' = -1
                 /\ halted' = FALSE
              \/ UNCHANGED engineFields
  <1>0. log \in Seq(SettlementCommands) /\ cursor \in Nat /\ Len(log) \in Nat
    BY LenProperties DEF JournalHolds
  <1>1. CASE UNCHANGED SR!ownerVars
    BY <1>1 DEF SR!ownerVars, SR!engineVars, SR!journalVars, engineFields, JournalHolds
  <1>2. ASSUME NEW c \in SettlementCommands, SR!Journal(c)
        PROVE  JournalHolds(SettlementCommands)' /\ UNCHANGED engineFields /\ synced' = synced
    BY <1>0, <1>2, AppendHolds DEF SR!Journal, SR!JournalCommand, SR!AppendEntry, SR!FailAppend,
         SR!engineVars, engineFields, JournalHolds
  <1>3. CASE SR!Install
    <2>1. Last(log) \in SettlementCommands /\ SR!Apply(Last(log))
      BY <1>3, LastHeld DEF SR!Install, SR!InstallCommand, SR!SyncEntry, SR!Last, Last
    <2>2. JournalHolds(SettlementCommands)' /\ synced' \in Nat
      BY <1>0, <1>3 DEF SR!Install, SR!InstallCommand, SR!SyncEntry, JournalHolds
    <2> QED BY <2>1, <2>2
  <1>4. CASE SR!SyncFails \/ SR!WriteCheckpoint
    BY <1>0, <1>4 DEF SR!SyncFails, SR!FailSync, SR!WriteCheckpoint, SR!SaveCheckpoint,
         SR!CreateNew, SR!engineVars, engineFields, JournalHolds
  <1>5. CASE SR!Crash
    <2>1. CASE SR!ProcessCrash
      BY <1>0, <1>5, <2>1 DEF SR!Crash, SR!ProcessCrash, SR!engineVars, engineFields, JournalHolds
    <2>2. CASE SR!PowerLoss
      <3>1. PICK n \in synced..Len(log) : log' = SubSeq(log, 1, n) /\ synced' = n
        BY <2>2 DEF SR!PowerLoss
      <3>2. n \in 0..Len(log) /\ synced' \in Nat
        BY <1>0, <3>1
      <3>3. log' \in Seq(SettlementCommands)
        BY <3>1, <3>2, PrefixHolds
      <3> QED BY <1>0, <1>5, <2>2, <3>2, <3>3
           DEF SR!Crash, SR!PowerLoss, SR!engineVars, engineFields, JournalHolds
    <2> QED BY <1>5, <2>1, <2>2 DEF SR!Crash
  <1>6. CASE SR!Recovery
    <2>1. CASE SR!StartFrom(SR!Initial)
      BY <1>0, <2>1 DEF SR!StartFrom, SR!BeginReplay, JournalHolds
    <2>2. CASE SR!ReplayCommand(SR!Apply(log[cursor + 1]))
      <3>1. log[cursor + 1] \in SettlementCommands
        BY <1>0, <2>2, ElementOfSeq DEF SR!ReplayCommand
      <3> QED BY <1>0, <2>2, <3>1 DEF SR!ReplayCommand, JournalHolds
    <2>3. CASE SR!PostHaltEvent \/ SR!EndOfJournal
      BY <1>0, <2>3 DEF SR!PostHaltEvent, SR!RefuseEntry, SR!EndOfJournal, SR!engineVars,
           engineFields, JournalHolds
    <2> QED BY <1>6, <2>1, <2>2, <2>3 DEF SR!Recovery, SR!RecoverWith
  <1> QED BY <1>1, <1>2, <1>3, <1>4, <1>5, <1>6 DEF SR!Next

Intents == {c.intent : c \in {d \in SettlementCommands : d.op = "RegisterIntent"}}
TradeObservations == {c.observation : c \in {d \in SettlementCommands : d.op = "ObserveTrade"}}
Frames == {c.frame : c \in {d \in SettlementCommands : d.op = "Reconcile"}}

SettlementState ==
    [intents : SUBSET Intents, trades : [Trades -> SUBSET TradeObservations], lastFrame : SUBSET Frames,
     mode : {"AwaitingSources", "Pending", "Reconciled", "Halted"}]

Observed == SR!Decided("ObserveTrade", "Applied")

\* The last frame posted only what was intended, and what is known of a trade was accepted.
SettlementHistory ==
    /\ \A f \in state.lastFrame : f.ledger.present \subseteq {i.command : i \in state.intents}
    /\ \A t \in Trades : \A o \in state.trades[t] : \E c \in Observed : c.observation = o /\ o.trade = t

\* Final observations, one command at a time.
FinalOnce ==
    \A c \in Observed :
        LET o == c.observation
        IN  /\ o.trade \in Trades
            /\ o.status \in SR!Terminal => state.trades[o.trade] = {o}
            /\ o.status = "Confirmed" =>
                   \E d \in Observed : /\ d.observation.trade = o.trade /\ d.observation.status = "Mined"
                                       /\ d.observation.hash = o.hash
            /\ o.status = "Failed" =>
                   \E d \in Observed : d.observation.trade = o.trade /\ d.observation.status = "Retrying"

SettlementInv ==
    /\ JournalHolds(SettlementCommands) /\ synced \in Nat
    /\ state \in SettlementState
    /\ SettlementHistory /\ FinalOnce
    /\ SR!PostedWasConfirmed /\ SR!ReadyMeansAgreement

\* The invariant implies both properties of the reconciler.
LEMMA SettlementInvSuffices ==
    ASSUME SettlementInv
    PROVE  SR!ReadinessIsAgreed /\ SR!TradesAreFinalOnce
  <1>1. SR!ReadinessIsAgreed
    BY DEF SettlementInv, SR!ReadinessIsAgreed
  <1>2. SR!TradesAreFinalOnce
    BY DEF SettlementInv, FinalOnce, Observed, SR!TradesAreFinalOnce, SR!Accepted
  <1> QED BY <1>1, <1>2

\* What apply makes of a command.
Settles(c) ==
    /\ ~halted /\ halted' = FALSE
    /\ processed' = processed \cup {[command |-> c, status |-> "Applied"]}
    /\ SR!Accepts(c) /\ SR!Handler(c)

Stops ==
    /\ state' = [state EXCEPT !.mode = "Halted"]
    /\ halted' = TRUE
    /\ Observed' = Observed

\* An applied command joins the history and no other does.
LEMMA AppliedAdds ==
    ASSUME NEW c, processed' = processed \cup {[command |-> c, status |-> "Applied"]}
    PROVE  Grows(Observed, c, "ObserveTrade")
  <1> DEFINE r == [command |-> c, status |-> "Applied"]
  <1>1. r.command = c /\ r.status = "Applied" /\ processed' = processed \cup {r}
    OBVIOUS
  <1> HIDE DEF r
  <1>2. CASE c.op = "ObserveTrade"
    BY <1>1, <1>2 DEF Observed, Grows, SR!Decided
  <1>3. CASE c.op # "ObserveTrade"
    BY <1>1, <1>3 DEF Observed, Grows, SR!Decided
  <1> QED BY <1>2, <1>3

\* A failed integrity check applies nothing.
LEMMA FailureAddsNone ==
    ASSUME NEW c, processed' = processed \cup {[command |-> c, status |-> "IntegrityFailure"]}
    PROVE  Observed' = Observed
  BY DEF Observed, SR!Decided

\* What apply does to the reconciler.
LEMMA SettlementApplies ==
    ASSUME NEW c, SR!Apply(c)
    PROVE  Settles(c) \/ Stops \/ UNCHANGED <<state, processed, halted>>
  <1>1. CASE SR!ApplyFresh(c)
    BY <1>1 DEF SR!ApplyFresh, SR!Decide, Settles
  <1>2. CASE SR!IntegrityHalt(c)
    BY <1>2, FailureAddsNone DEF SR!IntegrityHalt, Stops
  <1>3. CASE SR!Conflict(c)
    BY <1>3 DEF SR!Conflict, Stops, Observed, SR!Decided
  <1>4. CASE (SR!RepeatDecision(c) \/ SR!AnswerHalted) /\ UNCHANGED state
    BY <1>4 DEF SR!RepeatDecision, SR!AnswerHalted
  <1> QED BY <1>1, <1>2, <1>3, <1>4 DEF SR!Apply

JournalOf(commands) == JournalHolds(commands) /\ synced \in Nat

\* The fields of a state of the reconciler.
LEMMA SettlementFields ==
    ASSUME SettlementInv
    PROVE  /\ state.intents \in SUBSET Intents /\ state.trades \in [Trades -> SUBSET TradeObservations]
           /\ state.lastFrame \in SUBSET Frames
           /\ state.mode \in {"AwaitingSources", "Pending", "Reconciled", "Halted"}
  BY DEF SettlementInv, SettlementState

\* Registering an intent preserves the invariant.
LEMMA InvForRegister ==
    ASSUME SettlementCommandsTyped, SettlementInv, NEW c \in SettlementCommands, Settles(c),
           c.op = "RegisterIntent", JournalOf(SettlementCommands)'
    PROVE  SettlementInv'
  <1> DEFINE i == c.intent
  <1>1. i \in Intents
    BY DEF Intents
  <1>2. state' = [state EXCEPT !.intents = @ \cup {i}, !.mode = "Pending"]
    BY DEF Settles, SR!Handler, SR!Register
  <1>3. \A j \in state.intents : j.command # i.command
    BY DEF Settles, SR!Accepts, SR!CanRegister
  <1>4. /\ state'.intents = state.intents \cup {i} /\ state'.trades = state.trades
        /\ state'.lastFrame = state.lastFrame /\ state'.mode = "Pending"
    BY <1>2 DEF SettlementInv, SettlementState
  <1>5. state' \in SettlementState
    BY <1>1, <1>2, SettlementFields DEF SettlementInv, SettlementState
  <1>6. Observed' = Observed
    BY AppliedAdds DEF Settles, Grows
  <1> HIDE DEF i
  <1>7. SettlementHistory' /\ FinalOnce'
    BY <1>4, <1>6 DEF SettlementInv, SettlementHistory, FinalOnce
  <1>8. SR!PostedWasConfirmed'
    <2>1. \A f \in state.lastFrame : ~SR!Posted(i, f)
      BY <1>3 DEF SettlementInv, SettlementHistory, SR!Posted
    <2> QED BY <1>4, <2>1 DEF SettlementInv, SR!PostedWasConfirmed, SR!Posted, SR!Status
  <1>9. SR!ReadyMeansAgreement'
    BY <1>4 DEF SR!ReadyMeansAgreement
  <1> QED BY <1>5, <1>7, <1>8, <1>9 DEF SettlementInv, JournalOf

\* Accepting a reconciliation frame preserves the invariant.
LEMMA InvForReconcile ==
    ASSUME SettlementCommandsTyped, SettlementInv, NEW c \in SettlementCommands, Settles(c),
           c.op = "Reconcile", JournalOf(SettlementCommands)'
    PROVE  SettlementInv'
  <1> DEFINE f == c.frame
             m == IF \A i \in state.intents : SR!Settled(i, f) THEN "Reconciled" ELSE "Pending"
  <1>1. f \in Frames
    BY DEF Frames
  <1>2. state' = [state EXCEPT !.lastFrame = {f}, !.mode = m]
    BY DEF Settles, SR!Handler, SR!Reconcile
  <1>3. /\ f.ledger.present \subseteq {i.command : i \in state.intents}
        /\ f.ledger.holdings = f.chain.holdings
        /\ \A i \in state.intents : SR!PostingInOrder(i, f)
    BY DEF Settles, SR!Accepts, SR!CanReconcile
  <1>4. /\ state'.intents = state.intents /\ state'.trades = state.trades
        /\ state'.lastFrame = {f} /\ state'.mode = m
    BY <1>2 DEF SettlementInv, SettlementState
  <1>5. state' \in SettlementState
    BY <1>1, <1>2, SettlementFields DEF SettlementInv, SettlementState
  <1>6. Observed' = Observed
    BY AppliedAdds DEF Settles, Grows
  <1>7. SettlementHistory' /\ FinalOnce'
    BY <1>3, <1>4, <1>6 DEF SettlementInv, SettlementHistory, FinalOnce
  <1>8. SR!PostedWasConfirmed'
    BY <1>3, <1>4 DEF SR!PostedWasConfirmed, SR!PostingInOrder, SR!Posted, SR!Status
  <1>9. SR!ReadyMeansAgreement'
    <2>1. CASE \A i \in state.intents : SR!Settled(i, f)
      <3>1. ASSUME NEW i \in state.intents
            PROVE  /\ SR!Status(i) \in {{s} : s \in SR!Terminal}
                   /\ SR!Posted(i, f) <=> SR!Status(i) = {"Confirmed"}
        BY <1>3, <2>1 DEF SR!Settled, SR!PostingInOrder, SR!Terminal
      <3>2. \A i : SR!Status(i)' = SR!Status(i)
        BY <1>4 DEF SR!Status
      <3> QED BY <1>3, <1>4, <3>1, <3>2 DEF SR!ReadyMeansAgreement, Settles, SR!Posted
    <2>2. CASE ~\A i \in state.intents : SR!Settled(i, f)
      BY <1>4, <2>2 DEF SR!ReadyMeansAgreement
    <2> QED BY <2>1, <2>2
  <1> QED BY <1>5, <1>7, <1>8, <1>9 DEF SettlementInv, JournalOf

\* Observing a trade preserves the invariant.
LEMMA InvForObservation ==
    ASSUME SettlementCommandsTyped, SettlementInv, NEW c \in SettlementCommands, Settles(c),
           c.op = "ObserveTrade", JournalOf(SettlementCommands)'
    PROVE  SettlementInv'
  <1> DEFINE o == c.observation
             t == c.observation.trade
             trades == [state.trades EXCEPT ![t] = {o}]
  <1>1. o \in TradeObservations /\ t \in Trades
    BY DEF TradeObservations, SettlementCommandsTyped
  <1>2. state' = [state EXCEPT !.trades = trades, !.mode = "Pending"]
    BY DEF Settles, SR!Handler, SR!ObserveTrade
  <1>3. /\ state.trades[t] = {} => o.status = "Matched"
        /\ \A p \in state.trades[t] : SR!ValidTransition(p, o)
    BY DEF Settles, SR!Accepts, SR!CanObserve
  <1>4. /\ state'.intents = state.intents /\ state'.trades = trades
        /\ state'.lastFrame = state.lastFrame /\ state'.mode = "Pending"
    BY <1>2 DEF SettlementInv, SettlementState
  <1>5. /\ trades \in [Trades -> SUBSET TradeObservations]
        /\ trades[t] = {o} /\ \A u \in Trades : u # t => trades[u] = state.trades[u]
    BY <1>1, SettlementFields
  <1>6. state' \in SettlementState
    <2> HIDE DEF trades
    <2> QED BY <1>2, <1>5, SettlementFields DEF SettlementInv, SettlementState
  <1>7. Observed' = Observed \cup {c}
    BY AppliedAdds DEF Settles, Grows
  <1>8. ASSUME NEW p \in state.trades[t], p.status \in SR!Terminal PROVE p = o
    BY <1>3, <1>8 DEF SR!ValidTransition
  <1> HIDE DEF o, t, trades
  <1>9. SettlementHistory'
    BY <1>1, <1>4, <1>5, <1>7 DEF SettlementInv, SettlementHistory, o, t
  <1>10. FinalOnce'
    <2>1. ASSUME NEW d \in Observed, d.observation.status \in SR!Terminal
          PROVE  trades[d.observation.trade] = {d.observation}
      BY <1>5, <1>8, <2>1 DEF SettlementInv, FinalOnce
    <2>2. ASSUME o.status = "Confirmed"
          PROVE  \E d \in Observed : /\ d.observation.trade = t /\ d.observation.status = "Mined"
                                      /\ d.observation.hash = o.hash
      <3>1. PICK p \in state.trades[t] : SR!ValidTransition(p, o)
        BY <1>3, <2>2
      <3>2. PICK d \in Observed : d.observation = p /\ p.trade = t
        BY <1>1, <3>1 DEF SettlementInv, SettlementHistory
      <3>3. CASE p.status \in SR!Terminal
        BY <1>8, <2>2, <3>2, <3>3 DEF SettlementInv, FinalOnce
      <3>4. CASE p.status \notin SR!Terminal
        BY <2>2, <3>1, <3>2, <3>4 DEF SR!ValidTransition, SR!NextStatuses, SR!Terminal
      <3> QED BY <3>3, <3>4
    <2>3. ASSUME o.status = "Failed"
          PROVE  \E d \in Observed : d.observation.trade = t /\ d.observation.status = "Retrying"
      <3>1. PICK p \in state.trades[t] : SR!ValidTransition(p, o)
        BY <1>3, <2>3
      <3>2. PICK d \in Observed : d.observation = p /\ p.trade = t
        BY <1>1, <3>1 DEF SettlementInv, SettlementHistory
      <3>3. CASE p.status \in SR!Terminal
        BY <1>8, <2>3, <3>2, <3>3 DEF SettlementInv, FinalOnce
      <3>4. CASE p.status \notin SR!Terminal
        BY <2>3, <3>1, <3>2, <3>4 DEF SR!ValidTransition, SR!NextStatuses, SR!Terminal
      <3> QED BY <3>3, <3>4
    <2> QED BY <1>1, <1>4, <1>5, <1>7, <2>1, <2>2, <2>3 DEF SettlementInv, FinalOnce, o, t
  <1>11. SR!PostedWasConfirmed'
    <2>1. ASSUME NEW f \in state.lastFrame, NEW i \in state.intents, SR!Posted(i, f)
          PROVE  SR!Status(i)' = {"Confirmed"}
      <3>1. SR!Status(i) = {"Confirmed"}
        BY <2>1 DEF SettlementInv, SR!PostedWasConfirmed
      <3>2. PICK p \in state.trades[i.trade] : p.status = "Confirmed"
        BY <3>1 DEF SR!Status
      <3>3. i.trade \in Trades
        BY SettlementFields DEF SettlementCommandsTyped, Intents
      <3>4. trades[i.trade] = {o} => o.status = "Confirmed"
        BY <1>5, <1>8, <3>1, <3>2, <3>3 DEF SR!Terminal, SR!Status
      <3> QED BY <1>4, <1>5, <3>1, <3>2, <3>3, <3>4, <1>8 DEF SR!Status, SR!Terminal
    <2> QED BY <1>4, <2>1 DEF SR!PostedWasConfirmed, SR!Posted
  <1>12. SR!ReadyMeansAgreement'
    BY <1>4 DEF SR!ReadyMeansAgreement
  <1> QED BY <1>6, <1>9, <1>10, <1>11, <1>12 DEF SettlementInv, JournalOf

\* An integrity halt preserves the invariant.
LEMMA InvForStop ==
    ASSUME SettlementInv, Stops, JournalOf(SettlementCommands)'
    PROVE  SettlementInv'
  <1>1. /\ state'.intents = state.intents /\ state'.trades = state.trades
        /\ state'.lastFrame = state.lastFrame /\ state'.mode = "Halted"
    BY DEF SettlementInv, SettlementState, Stops
  <1>2. state' \in SettlementState
    BY SettlementFields DEF SettlementInv, SettlementState, Stops
  <1>3. SettlementHistory' /\ FinalOnce'
    BY <1>1 DEF SettlementInv, SettlementHistory, FinalOnce, Stops
  <1>4. SR!PostedWasConfirmed' /\ SR!ReadyMeansAgreement'
    BY <1>1 DEF SettlementInv, SR!PostedWasConfirmed, SR!ReadyMeansAgreement, SR!Posted, SR!Status
  <1> QED BY <1>2, <1>3, <1>4 DEF SettlementInv, JournalOf

\* The reconciler as it is created, by new and by every recovery.
FreshReconciler ==
    JournalOf(SettlementCommands) /\ state = SR!Initial /\ processed = {}

\* A new reconciler satisfies the invariant, at the start and at a restart.
LEMMA ReconcilerAtStart ==
    FreshReconciler => SettlementInv
  <1> SUFFICES ASSUME FreshReconciler PROVE SettlementInv
    OBVIOUS
  <1>1. Observed = {}
    BY DEF FreshReconciler, Observed, SR!Decided
  <1>2. state \in SettlementState
    BY DEF FreshReconciler, SR!Initial, SettlementState
  <1>3. /\ state.lastFrame = {} /\ state.mode = "AwaitingSources"
        /\ \A t \in Trades : state.trades[t] = {}
    BY DEF FreshReconciler, SR!Initial
  <1> QED BY <1>1, <1>2, <1>3 DEF FreshReconciler, JournalOf, SettlementInv, SettlementHistory, FinalOnce,
               SR!PostedWasConfirmed, SR!ReadyMeansAgreement

\* The initial states satisfy the invariant.
LEMMA SettlementInvInitially ==
    ASSUME SR!Init
    PROVE  SettlementInv
  <1>1. JournalOf(SettlementCommands)
    BY EmptySeq DEF SR!Init, SR!OwnerInit, SR!JournalInit, JournalHolds, JournalOf
  <1> QED BY <1>1, ReconcilerAtStart DEF FreshReconciler, SR!Init, SR!OwnerInit, SR!EngineInit

\* Every step of the owner preserves the invariant.
LEMMA SettlementInvNext ==
    ASSUME SettlementCommandsTyped, SettlementInv, [SR!Next]_(SR!ownerVars)
    PROVE  SettlementInv'
  <1>1. /\ JournalOf(SettlementCommands)'
        /\ \/ \E c \in SettlementCommands : SR!Apply(c)
           \/ state' = SR!Initial /\ processed' = {}
           \/ UNCHANGED <<state, processed, halted>>
    BY SettlementSteps DEF SettlementInv, engineFields, JournalOf
  <1>2. ASSUME UNCHANGED <<state, processed, halted>> PROVE SettlementInv'
    <2>1. Observed' = Observed
      BY <1>2 DEF Observed, SR!Decided
    <2> QED BY ZenonT(60), <1>1, <1>2, <2>1 DEF SettlementInv, JournalOf, SettlementHistory, FinalOnce,
              SR!PostedWasConfirmed, SR!ReadyMeansAgreement, SR!Posted, SR!Status
  <1>3. CASE state' = SR!Initial /\ processed' = {}
    <2>1. FreshReconciler' => SettlementInv'
      BY ReconcilerAtStart, PTL
    <2> QED BY <1>1, <1>3, <2>1 DEF FreshReconciler
  <1>4. ASSUME NEW c \in SettlementCommands, Settles(c) PROVE SettlementInv'
    <2>1. c.op \in {"RegisterIntent", "ObserveTrade", "Reconcile"}
      BY <1>4 DEF Settles, SR!Handler
    <2> QED BY <1>1, <1>4, <2>1, InvForRegister, InvForObservation, InvForReconcile
  <1>5. CASE Stops
    BY <1>1, <1>5, InvForStop
  <1> QED BY <1>1, <1>2, <1>3, <1>4, <1>5, SettlementApplies

SettlementEngineInv == engine = "settlement-reconciliation" => SettlementInv

\* The engine of a behaviour does not change, so the invariant holds in all of them.
LEMMA SettlementEngineInvHolds ==
    ASSUME SettlementCommandsTyped
    PROVE  TradingSpec => []SettlementEngineInv
  <1>1. TradingInit => SettlementEngineInv
    BY SettlementInvInitially DEF TradingInit, SettlementEngineInv
  <1>2. SettlementEngineInv /\ [TradingNext]_<<ownerVars, engine>> => SettlementEngineInv'
    <2> SUFFICES ASSUME SettlementEngineInv, [TradingNext]_<<ownerVars, engine>>,
                        engine' = "settlement-reconciliation"
                 PROVE  SettlementInv'
      BY DEF SettlementEngineInv
    <2>1. engine = "settlement-reconciliation" /\ SettlementInv
      BY DEF TradingNext, SettlementEngineInv
    <2>2. [SR!Next]_(SR!ownerVars)
      BY <2>1 DEF TradingNext, ownerVars, engineVars, journalVars, SR!ownerVars, SR!engineVars,
           SR!journalVars
    <2> QED BY <2>1, <2>2, SettlementInvNext
  <1> QED BY <1>1, <1>2, PTL DEF TradingSpec

\* Over every journal, crash and replay of settlement-reconciliation: a posting in the
\* last accepted frame is of a trade that is confirmed, and readiness rests on agreement.
THEOREM ReadinessRestsOnAgreement ==
    ASSUME SettlementCommandsTyped
    PROVE  TradingSpec => []ReadinessIsAgreed
  <1>1. SettlementEngineInv => ReadinessIsAgreed
    BY SettlementInvSuffices DEF SettlementEngineInv, ReadinessIsAgreed
  <1> QED BY <1>1, SettlementEngineInvHolds, PTL

\* A trade of settlement-reconciliation that is final became so the legal way and stays
\* what it is.
THEOREM FinalTradesStand ==
    ASSUME SettlementCommandsTyped
    PROVE  TradingSpec => []TradesAreFinalOnce
  <1>1. SettlementEngineInv => TradesAreFinalOnce
    BY SettlementInvSuffices DEF SettlementEngineInv, TradesAreFinalOnce
  <1> QED BY <1>1, SettlementEngineInvHolds, PTL

-----------------------------------------------------------------------------
(***************************************************************************)
(* Totals of amounts.  Total takes a recursive function on the positions;  *)
(* there is one of every length, and what it adds up is shown by counting  *)
(* the positions.                                                          *)
(***************************************************************************)
IsSequence(hs) == \E S : hs \in Seq(S)

\* An element more at the end of a sequence.
LEMMA AppendElements ==
    ASSUME NEW S, NEW s \in Seq(S), NEW x
    PROVE  /\ IsSequence(Append(s, x))
           /\ Len(s) \in Nat /\ Len(Append(s, x)) = Len(s) + 1
           /\ Append(s, x)[Len(s) + 1] = x
           /\ \A i \in 1..Len(s) : Append(s, x)[i] = s[i]
           /\ ToSet(Append(s, x)) = ToSet(s) \cup {x}
           /\ \A i \in 1..Len(s) : s[i] \in ToSet(s)
  <1>1. s \in Seq(S \cup {x})
    OBVIOUS
  <1>2. /\ Append(s, x) \in Seq(S \cup {x}) /\ Len(Append(s, x)) = Len(s) + 1 /\ Len(s) \in Nat
        /\ Append(s, x)[Len(s) + 1] = x
        /\ \A i \in 1..Len(s) : Append(s, x)[i] = s[i]
    BY <1>1, AppendProperties, LenProperties
  <1>3. DOMAIN s = 1..Len(s) /\ DOMAIN Append(s, x) = 1..(Len(s) + 1)
    BY <1>1, <1>2, LenProperties
  <1>4. ToSet(Append(s, x)) = ToSet(s) \cup {x}
    BY <1>2, <1>3 DEF ToSet
  <1> QED BY <1>2, <1>3, <1>4 DEF IsSequence, ToSet

\* A set of natural numbers has a smallest one.
LEMMA SmallestNumber ==
    ASSUME NEW T, T \subseteq Nat, T # {}
    PROVE  \E x \in T : \A y \in T : x <= y
  <1> DEFINE R == OpToRel(<, Nat)
  <1>1. IsWellFoundedOn(R, Nat)
    BY NatLessThanWellFounded
  <1>2. \A y \in Nat, x \in Nat : y < x => <<y, x>> \in R
    BY DEF OpToRel
  <1> HIDE DEF R
  <1>3. PICK x \in T : \A y \in T : ~ (<<y, x>> \in R)
    BY <1>1, WFMin
  <1>4. \A y \in T : ~ (y < x)
    BY <1>2, <1>3
  <1>5. \A y \in T : x <= y
    BY <1>4
  <1> QED BY <1>5

\* Counting reaches every number.
LEMMA Counting ==
    ASSUME NEW T, 0 \in T, \A n \in Nat : n \in T => n + 1 \in T
    PROVE  \A n \in Nat : n \in T
  <1> DEFINE missed == Nat \ T
  <1> SUFFICES ASSUME missed # {} PROVE FALSE
    OBVIOUS
  <1>1. missed \subseteq Nat
    OBVIOUS
  <1> HIDE DEF missed
  <1>2. PICK m \in missed : \A y \in missed : m <= y
    BY <1>1, SmallestNumber
  <1> USE DEF missed
  <1>3. m \in Nat /\ m # 0
    BY <1>2
  <1>4. m - 1 \in Nat /\ m - 1 \notin missed
    BY <1>2, <1>3
  <1> QED BY <1>2, <1>3, <1>4

\* The sums of the first amounts.
Sums(g, f, n) == g = [i \in 0..n |-> IF i = 0 THEN 0 ELSE g[i - 1] + f[i]]
SumTo(f, n) == (CHOOSE g : Sums(g, f, n))[n]

\* There are sums of every length.
LEMMA SumsExist ==
    ASSUME NEW f, NEW n \in Nat
    PROVE  \E g : Sums(g, f, n)
  <1> DEFINE T == {m \in Nat : \E g : Sums(g, f, m)}
  <1>1. 0 \in T
    <2> DEFINE g == [i \in 0..0 |-> 0]
    <2>1. Sums(g, f, 0)
      BY DEF Sums
    <2> QED BY <2>1
  <1>2. ASSUME NEW m \in Nat, m \in T PROVE m + 1 \in T
    <2>1. PICK g : Sums(g, f, m)
      BY <1>2
    <2> DEFINE h == [i \in 0..(m + 1) |-> IF i <= m THEN g[i] ELSE g[i - 1] + f[i]]
    <2>2. ASSUME NEW i \in 0..(m + 1)
          PROVE  h[i] = IF i = 0 THEN 0 ELSE h[i - 1] + f[i]
      <3>1. CASE i = 0
        BY <2>1, <3>1 DEF Sums
      <3>2. CASE i # 0
        <4>1. i - 1 \in 0..(m + 1) /\ i - 1 <= m /\ h[i - 1] = g[i - 1]
          BY <3>2
        <4>2. CASE i <= m
          <5>1. i \in 0..m /\ h[i] = g[i]
            BY <4>2
          <5> QED BY <2>1, <3>2, <4>1, <5>1 DEF Sums
        <4>3. CASE ~ (i <= m)
          BY <3>2, <4>1, <4>3
        <4> QED BY <4>2, <4>3
      <3> QED BY <3>1, <3>2
    <2>3. Sums(h, f, m + 1)
      BY <2>2 DEF Sums
    <2> QED BY <2>3
  <1> HIDE DEF T
  <1>3. n \in T
    BY <1>1, <1>2, Counting
  <1> QED BY <1>3 DEF T

\* Sums of amounts that begin alike agree as far as that.
LEMMA SumsAgree ==
    ASSUME NEW f, NEW e, NEW g, NEW h, NEW n \in Nat, NEW m \in Nat, NEW k \in Nat, k <= n, k <= m,
           Sums(g, f, n), Sums(h, e, m), \A i \in 1..k : f[i] = e[i]
    PROVE  g[k] = h[k]
  <1> DEFINE T == {i \in Nat : i <= k => g[i] = h[i]}
  <1>1. 0 \in T
    <2>1. 0 \in 0..n /\ 0 \in 0..m
      OBVIOUS
    <2> QED BY <2>1 DEF Sums
  <1>2. ASSUME NEW i \in Nat, i \in T PROVE i + 1 \in T
    <2> SUFFICES ASSUME i + 1 <= k PROVE g[i + 1] = h[i + 1]
      OBVIOUS
    <2>1. i + 1 \in 0..n /\ i + 1 \in 0..m /\ i + 1 \in 1..k /\ i + 1 # 0 /\ (i + 1) - 1 = i
      OBVIOUS
    <2>2. g[i + 1] = g[i] + f[i + 1] /\ h[i + 1] = h[i] + e[i + 1]
      BY <2>1 DEF Sums
    <2>3. g[i] = h[i] /\ f[i + 1] = e[i + 1]
      BY <1>2, <2>1
    <2> QED BY <2>2, <2>3
  <1> HIDE DEF T
  <1>3. k \in T
    BY <1>1, <1>2, Counting
  <1> QED BY <1>3 DEF T

\* The sum of none, and of one more.
LEMMA SumRecursion ==
    ASSUME NEW f, NEW n \in Nat
    PROVE  SumTo(f, 0) = 0 /\ SumTo(f, n + 1) = SumTo(f, n) + f[n + 1]
  <1>1. \A k \in Nat : Sums(CHOOSE g : Sums(g, f, k), f, k)
    BY SumsExist
  <1>2. SumTo(f, 0) = 0
    <2> DEFINE e == CHOOSE e : Sums(e, f, 0)
    <2>1. Sums(e, f, 0) /\ SumTo(f, 0) = e[0]
      BY <1>1 DEF SumTo
    <2> HIDE DEF e
    <2>2. e[0] = 0
      BY <2>1 DEF Sums
    <2> QED BY <2>1, <2>2
  <1> DEFINE g == CHOOSE g : Sums(g, f, n)
             h == CHOOSE h : Sums(h, f, n + 1)
  <1>3. Sums(g, f, n) /\ Sums(h, f, n + 1) /\ SumTo(f, n) = g[n] /\ SumTo(f, n + 1) = h[n + 1]
    BY <1>1 DEF SumTo
  <1> HIDE DEF g, h
  <1>4. n + 1 \in Nat /\ n <= n + 1 /\ n <= n /\ n + 1 \in 0..(n + 1) /\ n + 1 # 0 /\ (n + 1) - 1 = n
    OBVIOUS
  <1>5. h[n + 1] = h[n] + f[n + 1]
    BY <1>3, <1>4 DEF Sums
  <1>6. h[n] = g[n]
    BY <1>3, <1>4, SumsAgree
  <1> QED BY <1>2, <1>3, <1>5, <1>6

\* Equal amounts have equal sums.
LEMMA SumsOfEquals ==
    ASSUME NEW n \in Nat, NEW f, NEW g, \A i \in 1..n : f[i] = g[i]
    PROVE  SumTo(f, n) = SumTo(g, n)
  <1>1. Sums(CHOOSE h : Sums(h, f, n), f, n) /\ Sums(CHOOSE h : Sums(h, g, n), g, n)
    BY SumsExist
  <1> QED BY <1>1, SumsAgree DEF SumTo

\* Sums of integers are integers.
LEMMA SumIsInteger ==
    ASSUME NEW n \in Nat, NEW f, \A i \in 1..n : f[i] \in Int
    PROVE  SumTo(f, n) \in Int
  <1> DEFINE T == {m \in Nat : m <= n => SumTo(f, m) \in Int}
  <1>1. 0 \in T
    BY SumRecursion
  <1>2. ASSUME NEW m \in Nat, m \in T PROVE m + 1 \in T
    <2> SUFFICES ASSUME m + 1 <= n PROVE SumTo(f, m + 1) \in Int
      OBVIOUS
    <2>1. SumTo(f, m) \in Int /\ f[m + 1] \in Int
      BY <1>2
    <2>2. SumTo(f, m + 1) = SumTo(f, m) + f[m + 1]
      BY SumRecursion
    <2> QED BY <2>1, <2>2
  <1> HIDE DEF T
  <1>3. n \in T
    BY <1>1, <1>2, Counting
  <1> QED BY <1>3 DEF T

\* Smaller amounts have smaller sums.
LEMMA SumsOfSmaller ==
    ASSUME NEW n \in Nat, NEW f, NEW g, \A i \in 1..n : f[i] \in Int /\ g[i] \in Int /\ f[i] <= g[i]
    PROVE  SumTo(f, n) <= SumTo(g, n)
  <1> DEFINE T == {m \in Nat : m <= n => SumTo(f, m) <= SumTo(g, m)}
  <1>1. 0 \in T
    BY SumRecursion
  <1>2. ASSUME NEW m \in Nat, m \in T PROVE m + 1 \in T
    <2> SUFFICES ASSUME m + 1 <= n PROVE SumTo(f, m + 1) <= SumTo(g, m + 1)
      OBVIOUS
    <2>1. /\ SumTo(f, m) <= SumTo(g, m) /\ f[m + 1] <= g[m + 1]
          /\ f[m + 1] \in Int /\ g[m + 1] \in Int
      BY <1>2
    <2>2. SumTo(f, m) \in Int /\ SumTo(g, m) \in Int
      BY SumIsInteger
    <2>3. /\ SumTo(f, m + 1) = SumTo(f, m) + f[m + 1]
          /\ SumTo(g, m + 1) = SumTo(g, m) + g[m + 1]
      BY SumRecursion
    <2> QED BY <2>1, <2>2, <2>3
  <1> HIDE DEF T
  <1>3. n \in T
    BY <1>1, <1>2, Counting
  <1> QED BY <1>3 DEF T

\* One amount that grows makes the sum grow by as much.
LEMMA SumOfChanged ==
    ASSUME NEW n \in Nat, NEW f, NEW g, \A i \in 1..n : f[i] \in Int,
           NEW k \in 1..n, NEW d \in Int, g[k] = f[k] + d,
           \A i \in 1..n : i # k => g[i] = f[i]
    PROVE  SumTo(g, n) = SumTo(f, n) + d
  <1> DEFINE T == {m \in Nat : m <= n => SumTo(g, m) = SumTo(f, m) + (IF k <= m THEN d ELSE 0)}
  <1>1. 0 \in T
    BY SumRecursion
  <1>2. ASSUME NEW m \in Nat, m \in T PROVE m + 1 \in T
    <2> SUFFICES ASSUME m + 1 <= n
                 PROVE  SumTo(g, m + 1) = SumTo(f, m + 1) + (IF k <= m + 1 THEN d ELSE 0)
      OBVIOUS
    <2>1. SumTo(g, m) = SumTo(f, m) + (IF k <= m THEN d ELSE 0) /\ f[m + 1] \in Int
      BY <1>2
    <2>2. SumTo(f, m) \in Int
      BY SumIsInteger
    <2>3. /\ SumTo(g, m + 1) = SumTo(g, m) + g[m + 1]
          /\ SumTo(f, m + 1) = SumTo(f, m) + f[m + 1]
      BY SumRecursion
    <2>4. g[m + 1] = f[m + 1] + (IF m + 1 = k THEN d ELSE 0)
      BY <2>1
    <2> QED BY <2>1, <2>2, <2>3, <2>4
  <1> HIDE DEF T
  <1>3. n \in T
    BY <1>1, <1>2, Counting
  <1> QED BY <1>3 DEF T

\* Total adds up all of a sequence.
LEMMA TotalIsSum ==
    ASSUME NEW a
    PROVE  PEX!Total(a) = SumTo(a, Len(a)) /\ PTR!Total(a) = SumTo(a, Len(a))
  BY DEF PEX!Total, PTR!Total, SumTo, Sums

\* A sequence given position by position.
LEMMA PositionsMakeSequence ==
    ASSUME NEW n \in Nat, NEW f, f = [i \in 1..n |-> f[i]]
    PROVE  IsSequence(f) /\ Len(f) = n
  <1> DEFINE S == {f[i] : i \in 1..n}
  <1>1. f \in [1..n -> S]
    OBVIOUS
  <1>2. f \in Seq(S)
    BY <1>1, SeqDef
  <1>3. Len(f) \in Nat /\ 1..Len(f) = 1..n
    BY <1>1, <1>2, LenProperties
  <1>4. Len(f) = n
    BY <1>3
  <1> QED BY <1>2, <1>4 DEF IsSequence

\* What SumOf gives is the sum of the field of the handoffs.
LEMMA SumOfIsSum ==
    ASSUME NEW S, NEW s \in Seq(S), NEW field
    PROVE  PEX!SumOf(s, field) = SumTo([n \in 1..Len(s) |-> s[n][field]], Len(s))
  <1> DEFINE f == [n \in 1..Len(s) |-> s[n][field]]
  <1>1. Len(s) \in Nat
    BY LenProperties
  <1>2. f = [i \in 1..Len(s) |-> f[i]]
    OBVIOUS
  <1>3. PEX!SumOf(s, field) = SumTo(f, Len(f))
    BY TotalIsSum DEF PEX!SumOf
  <1> HIDE DEF f
  <1>4. Len(f) = Len(s)
    BY <1>1, <1>2, PositionsMakeSequence
  <1> QED BY <1>3, <1>4 DEF f

\* No handoff adds up to nothing.
LEMMA SumOfNone ==
    ASSUME NEW field
    PROVE  PEX!SumOf(<<>>, field) = 0
  <1>1. <<>> \in Seq(Nat) /\ Len(<<>>) = 0
    BY EmptySeq
  <1> QED BY <1>1, SumOfIsSum, SumRecursion

\* One handoff more adds what it holds.
LEMMA SumOfOneMore ==
    ASSUME NEW S, NEW s \in Seq(S), NEW x, NEW field
    PROVE  PEX!SumOf(Append(s, x), field) = PEX!SumOf(s, field) + x[field]
  <1> DEFINE n == Len(s)
             t == Append(s, x)
             f == [i \in 1..n |-> s[i][field]]
             g == [i \in 1..(n + 1) |-> t[i][field]]
  <1>1. /\ n \in Nat /\ Len(t) = n + 1 /\ t[n + 1] = x
        /\ \A i \in 1..n : t[i] = s[i]
        /\ IsSequence(t)
    BY AppendElements
  <1> HIDE DEF t
  <1>2. PEX!SumOf(t, field) = SumTo(g, n + 1)
    BY <1>1, SumOfIsSum DEF IsSequence
  <1>3. PEX!SumOf(s, field) = SumTo(f, n)
    BY SumOfIsSum
  <1>4. \A i \in 1..n : f[i] = g[i]
    BY <1>1
  <1>5. g[n + 1] = x[field]
    BY <1>1
  <1> HIDE DEF f, g
  <1>6. SumTo(f, n) = SumTo(g, n)
    BY <1>1, <1>4, SumsOfEquals
  <1>7. SumTo(g, n + 1) = SumTo(g, n) + g[n + 1]
    BY <1>1, SumRecursion
  <1> QED BY <1>2, <1>3, <1>5, <1>6, <1>7 DEF t

\* Division rounds down.
LEMMA QuotientBounds ==
    ASSUME NEW a \in Int
    PROVE  a \div Unit \in Int /\ Unit * (a \div Unit) <= a /\ a < Unit * (a \div Unit) + Unit
  BY UnitAssumption

\* Two parts rounded up on their own exceed the whole rounded up by at most one.
LEMMA PartsRoundedUp ==
    ASSUME NEW a \in Int, NEW b \in Int
    PROVE  /\ PEX!DivCeil(a, Unit) \in Int
           /\ PEX!DivCeil(a, Unit) + PEX!DivCeil(b, Unit) <= PEX!DivCeil(a + b, Unit) + 1
  <1> DEFINE x == (a + Unit - 1) \div Unit
             y == (b + Unit - 1) \div Unit
             z == (a + b + Unit - 1) \div Unit
  <1>1. Unit \in Nat /\ Unit # 0
    BY UnitAssumption
  <1>2. x \in Int /\ Unit * x <= a + Unit - 1
    BY <1>1, QuotientBounds
  <1>3. y \in Int /\ Unit * y <= b + Unit - 1
    BY <1>1, QuotientBounds
  <1>4. z \in Int /\ a + b + Unit - 1 < Unit * z + Unit
    BY <1>1, QuotientBounds
  <1>5. x = PEX!DivCeil(a, Unit) /\ y = PEX!DivCeil(b, Unit) /\ z = PEX!DivCeil(a + b, Unit)
    BY DEF PEX!DivCeil
  <1> HIDE DEF x, y, z
  <1>6. Unit * (x + y) < Unit * (z + 2)
    BY <1>1, <1>2, <1>3, <1>4
  <1>7. x + y < z + 2
    BY <1>1, <1>2, <1>3, <1>4, <1>6
  <1> QED BY <1>2, <1>3, <1>4, <1>5, <1>7

-----------------------------------------------------------------------------
(***************************************************************************)
(* paper-execution                                                         *)
(***************************************************************************)
\* A step of the execution owner applies a command, starts afresh or leaves the engine alone.
LEMMA ExecutionSteps ==
    ASSUME JournalHolds(ExecutionCommands), synced \in Nat, [PEX!Next]_(PEX!ownerVars)
    PROVE  /\ JournalHolds(ExecutionCommands)' /\ synced' \in Nat
           /\ \/ \E c \in ExecutionCommands : PEX!Apply(c)
              \/ /\ state' = PEX!Initial /\ processed' = {} /\ lastRecorded' = -1
                 /\ halted' = FALSE
              \/ UNCHANGED engineFields
  <1>0. log \in Seq(ExecutionCommands) /\ cursor \in Nat /\ Len(log) \in Nat
    BY LenProperties DEF JournalHolds
  <1>1. CASE UNCHANGED PEX!ownerVars
    BY <1>1 DEF PEX!ownerVars, PEX!engineVars, PEX!journalVars, engineFields, JournalHolds
  <1>2. ASSUME NEW c \in ExecutionCommands, PEX!Journal(c)
        PROVE  JournalHolds(ExecutionCommands)' /\ UNCHANGED engineFields /\ synced' = synced
    BY <1>0, <1>2, AppendHolds DEF PEX!Journal, PEX!JournalCommand, PEX!AppendEntry, PEX!FailAppend,
         PEX!engineVars, engineFields, JournalHolds
  <1>3. CASE PEX!Install
    <2>1. Last(log) \in ExecutionCommands /\ PEX!Apply(Last(log))
      BY <1>3, LastHeld DEF PEX!Install, PEX!InstallCommand, PEX!SyncEntry, PEX!Last, Last
    <2>2. JournalHolds(ExecutionCommands)' /\ synced' \in Nat
      BY <1>0, <1>3 DEF PEX!Install, PEX!InstallCommand, PEX!SyncEntry, JournalHolds
    <2> QED BY <2>1, <2>2
  <1>4. CASE PEX!SyncFails \/ PEX!WriteCheckpoint
    BY <1>0, <1>4 DEF PEX!SyncFails, PEX!FailSync, PEX!WriteCheckpoint, PEX!SaveCheckpoint,
         PEX!CreateNew, PEX!engineVars, engineFields, JournalHolds
  <1>5. CASE PEX!Crash
    <2>1. CASE PEX!ProcessCrash
      BY <1>0, <1>5, <2>1 DEF PEX!Crash, PEX!ProcessCrash, PEX!engineVars, engineFields, JournalHolds
    <2>2. CASE PEX!PowerLoss
      <3>1. PICK n \in synced..Len(log) : log' = SubSeq(log, 1, n) /\ synced' = n
        BY <2>2 DEF PEX!PowerLoss
      <3>2. n \in 0..Len(log) /\ synced' \in Nat
        BY <1>0, <3>1
      <3>3. log' \in Seq(ExecutionCommands)
        BY <3>1, <3>2, PrefixHolds
      <3> QED BY <1>0, <1>5, <2>2, <3>2, <3>3
           DEF PEX!Crash, PEX!PowerLoss, PEX!engineVars, engineFields, JournalHolds
    <2> QED BY <1>5, <2>1, <2>2 DEF PEX!Crash
  <1>6. CASE PEX!Recovery
    <2>1. CASE PEX!StartFrom(PEX!Initial)
      BY <1>0, <2>1 DEF PEX!StartFrom, PEX!BeginReplay, JournalHolds
    <2>2. CASE PEX!ReplayCommand(PEX!Apply(log[cursor + 1]))
      <3>1. log[cursor + 1] \in ExecutionCommands
        BY <1>0, <2>2, ElementOfSeq DEF PEX!ReplayCommand
      <3> QED BY <1>0, <2>2, <3>1 DEF PEX!ReplayCommand, JournalHolds
    <2>3. CASE PEX!PostHaltEvent \/ PEX!EndOfJournal
      BY <1>0, <2>3 DEF PEX!PostHaltEvent, PEX!RefuseEntry, PEX!EndOfJournal, PEX!engineVars,
           engineFields, JournalHolds
    <2> QED BY <1>6, <2>1, <2>2, <2>3 DEF PEX!Recovery, PEX!RecoverWith
  <1> QED BY <1>1, <1>2, <1>3, <1>4, <1>5, <1>6 DEF PEX!Next

\* Orders are records with the fields of PaperOrder, whatever the fields hold.
OrderFields == {"placements", "exchange", "status", "active", "release", "sequence", "eventTime",
                "receivedTime", "quantity", "consideration", "fee", "handoffs"}
IsOrder(o) == o = [f \in OrderFields |-> o[f]]

ExecutionShape ==
    /\ state = [orders |-> state.orders, usedPlacements |-> state.usedPlacements,
                usedCancels |-> state.usedCancels]
    /\ state.orders = [o \in OrderIds |-> state.orders[o]]
    /\ \A o \in OrderIds : IsOrder(state.orders[o]) /\ IsSequence(state.orders[o].handoffs)

ExecutionClock ==
    /\ lastRecorded \in Int
    /\ \A p \in processed : p.command \in ExecutionCommands /\ p.command.at <= lastRecorded

Reports == PEX!Decided("Observe", "Applied")
CancelRequests == PEX!Decided("RequestCancel", "Applied")

\* A cancel that is under way was asked for, an order that ended was reported so.
EndReported(o) ==
    LET status == state.orders[o].status
    IN  /\ status = "CancelPending" => \E r \in CancelRequests : r.request.order = o
        /\ status = "Rejected" => \E c \in Reports : c.order = o /\ c.event.kind = "Rejected"
        /\ status = "FullyMatched" =>
               \E c \in Reports : c.order = o /\ c.event.kind = "Match" /\ c.event.fully
        /\ status = "Canceled" =>
               \E c \in Reports, r \in CancelRequests :
                   c.order = o /\ c.event.kind = "CancelAccepted" /\ r.request.order = o /\ r.at <= c.at

\* The handoffs of an order, the last report included.
HandedOff(o) ==
    LET hs == state.orders[o].handoffs
    IN  /\ \A h \in ToSet(hs) : \E c \in Reports : /\ c.order = o /\ c.event.kind = "Match"
                                                 /\ c.sequence = h.sequence
        /\ \A c \in Reports : c.order = o /\ c.event.kind = "Match" =>
               \E h \in ToSet(hs) : h.sequence = c.sequence
        /\ \A h \in ToSet(hs) : /\ {h.order} = state.orders[o].exchange
                                /\ h.sequence \in Int /\ h.sequence <= state.orders[o].sequence
        /\ \A i, j \in 1..Len(hs) : i < j =>
               /\ hs[i].sequence < hs[j].sequence
               /\ hs[i].trade # hs[j].trade /\ hs[i].ledger # hs[j].ledger

\* What an order that was placed as p holds: its fills add up and never to more than was
\* asked for, and it is fully matched exactly when nothing of it is left.  Each fill of a
\* buy is rounded up on its own, so every one but the first may cost one more.
AddUp(o, p) ==
    /\ p.quantity \in Int /\ p.price \in Int /\ p.maxFee \in Int
    /\ o.quantity \in Int /\ o.consideration \in Int /\ o.fee \in Int
    /\ o.quantity = PEX!SumOf(o.handoffs, "quantity")
    /\ o.consideration = PEX!SumOf(o.handoffs, "consideration")
    /\ o.fee = PEX!SumOf(o.handoffs, "fee")
    /\ o.quantity <= p.quantity /\ o.fee <= p.maxFee
    /\ o.status = "FullyMatched" <=> o.quantity = p.quantity
    /\ p.side = "Buy" /\ o.handoffs # <<>> =>
           o.consideration <= PEX!DivCeil(p.price * o.quantity, Unit) + Len(o.handoffs) - 1

FillsAddUp(o) == \A p \in o.placements : AddUp(o, p)

ExecutionInv ==
    /\ JournalOf(ExecutionCommands) /\ ExecutionShape /\ ExecutionClock
    /\ \A c \in Reports : state.orders[c.order].status # "None"
    /\ \A o \in OrderIds : EndReported(o)
    /\ \A o \in OrderIds : HandedOff(o) /\ state.orders[o].sequence \in Int
    /\ PlacementsApproved => \A o \in OrderIds : FillsAddUp(state.orders[o])

\* The invariant implies the properties of paper execution.
LEMMA ExecutionInvSuffices ==
    ASSUME ExecutionInv
    PROVE  /\ PEX!EndsAreReported /\ PEX!FillsHandedOff
           /\ PlacementsApproved => PEX!FillsExact
  <1>1. PEX!EndsAreReported
    BY DEF ExecutionInv, EndReported, PEX!EndsAreReported, PEX!AppliedEvents, Reports, CancelRequests
  <1>2. PEX!FillsHandedOff
    <2>1. ASSUME NEW o \in OrderIds
          PROVE  {h.sequence : h \in ToSet(state.orders[o].handoffs)}
                 = {c.sequence : c \in PEX!AppliedEvents(o, "Match")}
      BY DEF ExecutionInv, HandedOff, PEX!AppliedEvents, Reports
    <2> QED BY <2>1 DEF ExecutionInv, HandedOff, PEX!FillsHandedOff, PEX!ToSet, ToSet
  <1>3. PlacementsApproved => PEX!FillsExact
    BY DEF ExecutionInv, FillsAddUp, AddUp, PEX!FillsExact
  <1> QED BY <1>1, <1>2, <1>3

\* What apply makes of a command.
Performs(c) ==
    /\ c.at >= lastRecorded /\ lastRecorded' = c.at
    /\ processed' = processed \cup {[command |-> c, status |-> "Applied"]}
    /\ PEX!Possible(c) /\ PEX!Granted(c) /\ PEX!Perform(c)

DeniesAction(c) ==
    /\ c.at >= lastRecorded /\ lastRecorded' = c.at
    /\ processed' = processed \cup {[command |-> c, status |-> "Denied"]}
    /\ UNCHANGED state

\* What apply does to the execution engine.
LEMMA ExecutionApplies ==
    ASSUME NEW c, PEX!Apply(c)
    PROVE  Performs(c) \/ DeniesAction(c) \/ UNCHANGED <<state, processed, lastRecorded>>
  BY DEF PEX!Apply, PEX!ApplyIdFirst, PEX!Eligible, PEX!Handler, PEX!Decide, PEX!Timely,
         PEX!RepeatDecision, PEX!HaltOn, PEX!AnswerHalted, Performs, DeniesAction

\* A performed command joins the history and no other does.
LEMMA PerformedAdds ==
    ASSUME NEW c, processed' = processed \cup {[command |-> c, status |-> "Applied"]}
    PROVE  Grows(Reports, c, "Observe") /\ Grows(CancelRequests, c, "RequestCancel")
  <1> DEFINE r == [command |-> c, status |-> "Applied"]
  <1>1. r.command = c /\ r.status = "Applied" /\ processed' = processed \cup {r}
    OBVIOUS
  <1> HIDE DEF r
  <1>2. ASSUME NEW op PROVE Grows(PEX!Decided(op, "Applied"), c, op)
    <2>1. CASE c.op = op
      BY <1>1, <2>1 DEF Grows, PEX!Decided
    <2>2. CASE c.op # op
      BY <1>1, <2>2 DEF Grows, PEX!Decided
    <2> QED BY <2>1, <2>2
  <1> QED BY <1>2 DEF Reports, CancelRequests, Grows

\* A denial or an integrity failure performs nothing.
LEMMA DeniedAddsNone ==
    ASSUME NEW c, processed' = processed \cup {[command |-> c, status |-> "Denied"]}
    PROVE  Reports' = Reports /\ CancelRequests' = CancelRequests
  BY DEF Reports, CancelRequests, PEX!Decided

\* The recorded times stay integers.
LEMMA ClockKept ==
    ASSUME ExecutionCommandsTyped, ExecutionClock, NEW c \in ExecutionCommands, c.at >= lastRecorded,
           lastRecorded' = c.at, NEW s, processed' = processed \cup {[command |-> c, status |-> s]}
    PROVE  ExecutionClock'
  BY DEF ExecutionCommandsTyped, ExecutionClock

\* Applied reports are submitted commands about a tracked order.
LEMMA ReportsTyped ==
    ASSUME ExecutionCommandsTyped, ExecutionInv
    PROVE  /\ \A c \in Reports : c \in ExecutionCommands /\ c.order \in OrderIds /\ c.sequence \in Int
                                 /\ c.at \in Int /\ c.at <= lastRecorded
           /\ \A r \in CancelRequests : r.at \in Int /\ r.at <= lastRecorded
  BY DEF ExecutionCommandsTyped, ExecutionInv, ExecutionClock, Reports, CancelRequests, PEX!Decided

\* A step that replaces one order by a record of the same shape.
LEMMA OrderReplaced ==
    ASSUME ExecutionShape, NEW o \in OrderIds, NEW p, IsOrder(p), IsSequence(p.handoffs), NEW u, NEW v,
           state' = [orders |-> [state.orders EXCEPT ![o] = p], usedPlacements |-> u, usedCancels |-> v]
    PROVE  /\ ExecutionShape' /\ state'.orders[o] = p
           /\ \A x \in OrderIds : x # o => state'.orders[x] = state.orders[x]
  BY DEF ExecutionShape

\* The order is the one that was placed and its totals are what they were.
SameTotals(p, o) ==
    /\ p.placements = o.placements /\ p.quantity = o.quantity
    /\ p.consideration = o.consideration /\ p.fee = o.fee

\* A new status leaves the shape of an order alone.
LEMMA StatusReplaced ==
    ASSUME NEW o, IsOrder(o), NEW status
    PROVE  LET p == [o EXCEPT !.status = status]
           IN  /\ IsOrder(p) /\ p.status = status /\ p.handoffs = o.handoffs
               /\ p.sequence = o.sequence /\ p.exchange = o.exchange /\ SameTotals(p, o)
  BY DEF IsOrder, OrderFields, SameTotals

\* The handoff of a match.
HandoffOf(o, c) ==
    LET f == c.event.fill
        x == CHOOSE x \in PEX!Bound(c) : TRUE
        p == CHOOSE p \in o.placements : TRUE
    IN  [trade |-> f.id, order |-> x, side |-> p.side, quantity |-> f.quantity,
         consideration |-> f.consideration, fee |-> f.fee, ledger |-> f.ledger, sequence |-> c.sequence]

\* The order is the one that was placed and its totals are what the fill says.
StatedTotals(p, o, f) ==
    /\ p.placements = o.placements /\ p.quantity = f.totalQuantity
    /\ p.consideration = f.totalConsideration /\ p.fee = f.totalFee

\* A match leaves the shape of an order alone.
LEMMA MatchReplaced ==
    ASSUME NEW o, IsOrder(o), NEW c
    PROVE  /\ IsOrder(PEX!Matched(o, c))
           /\ PEX!Matched(o, c).handoffs = Append(o.handoffs, HandoffOf(o, c))
           /\ c.event.fully => PEX!Matched(o, c).status = "FullyMatched"
           /\ ~c.event.fully => PEX!Matched(o, c).status = o.status
           /\ StatedTotals(PEX!Matched(o, c), o, c.event.fill)
  <1> DEFINE h == Append(o.handoffs, HandoffOf(o, c))
             status == IF c.event.fully THEN "FullyMatched" ELSE o.status
             active == IF c.event.fully THEN o.active ELSE "PartiallyMatched"
             f == c.event.fill
  <1>1. PEX!Matched(o, c) = [o EXCEPT !.quantity = f.totalQuantity, !.consideration = f.totalConsideration,
                               !.fee = f.totalFee, !.handoffs = h, !.status = status, !.active = active]
    BY DEF PEX!Matched, HandoffOf, IsOrder, OrderFields
  <1> HIDE DEF h, status, active
  <1>2. LET p == [o EXCEPT !.quantity = f.totalQuantity, !.consideration = f.totalConsideration,
                           !.fee = f.totalFee, !.handoffs = h, !.status = status, !.active = active]
        IN  IsOrder(p) /\ p.handoffs = h /\ p.status = status /\ StatedTotals(p, o, f)
    BY DEF IsOrder, OrderFields, StatedTotals
  <1> QED BY <1>1, <1>2 DEF h, status

\* A step that matches nothing keeps the handoffs of every order.
LEMMA HandoffsKept ==
    ASSUME NEW o, HandedOff(o), Reports' = Reports,
           state'.orders[o].handoffs = state.orders[o].handoffs,
           state'.orders[o].sequence = state.orders[o].sequence,
           state'.orders[o].exchange = state.orders[o].exchange
    PROVE  HandedOff(o)'
  BY DEF HandedOff

\* Fills that added up still do under a status that ends or opens nothing by itself.
LEMMA AddUpKept ==
    ASSUME NEW o, FillsAddUp(o), NEW q, SameTotals(q, o), q.handoffs = o.handoffs,
           q.status = "FullyMatched" <=> o.status = "FullyMatched"
    PROVE  FillsAddUp(q)
  BY DEF FillsAddUp, AddUp, SameTotals

\* A fill that is valid keeps the sums, and what it leaves of the order decides the status.
LEMMA AddUpMatch ==
    ASSUME NEW o, FillsAddUp(o), NEW S, o.handoffs \in Seq(S), PEX!Open(o),
           NEW q, NEW f, NEW fully, NEW h,
           f.quantity \in Int, f.consideration \in Int, f.fee \in Int,
           h.quantity = f.quantity, h.consideration = f.consideration, h.fee = f.fee,
           \A p \in o.placements : PEX!ValidFill(o, p, f, fully),
           StatedTotals(q, o, f), q.handoffs = Append(o.handoffs, h),
           q.status = IF fully THEN "FullyMatched" ELSE o.status
    PROVE  FillsAddUp(q)
  <1> SUFFICES ASSUME NEW p \in o.placements PROVE AddUp(q, p)
    BY DEF FillsAddUp, StatedTotals
  <1>0. f.quantity \in Int /\ f.consideration \in Int /\ f.fee \in Int
    OBVIOUS
  <1>1. AddUp(o, p) /\ PEX!ValidFill(o, p, f, fully)
    BY DEF FillsAddUp
  <1>2. /\ p.quantity \in Int /\ p.price \in Int /\ p.maxFee \in Int
        /\ o.quantity \in Int /\ o.consideration \in Int /\ o.fee \in Int
    BY <1>1 DEF AddUp
  <1>3. /\ q.quantity = o.quantity + f.quantity
        /\ q.consideration = o.consideration + f.consideration
        /\ q.fee = o.fee + f.fee
        /\ q.quantity <= p.quantity /\ q.fee <= p.maxFee
        /\ fully <=> q.quantity = p.quantity
    BY <1>1 DEF PEX!ValidFill, PEX!TotalsAgree, StatedTotals
  <1>4. /\ q.quantity = PEX!SumOf(q.handoffs, "quantity")
        /\ q.consideration = PEX!SumOf(q.handoffs, "consideration")
        /\ q.fee = PEX!SumOf(q.handoffs, "fee")
    <2>1. /\ PEX!SumOf(q.handoffs, "quantity") = PEX!SumOf(o.handoffs, "quantity") + h["quantity"]
          /\ PEX!SumOf(q.handoffs, "consideration")
             = PEX!SumOf(o.handoffs, "consideration") + h["consideration"]
          /\ PEX!SumOf(q.handoffs, "fee") = PEX!SumOf(o.handoffs, "fee") + h["fee"]
      BY SumOfOneMore
    <2> QED BY <1>1, <1>3, <2>1 DEF AddUp
  <1>5. q.status = "FullyMatched" <=> q.quantity = p.quantity
    BY <1>3 DEF PEX!Open
  <1>6. ASSUME p.side = "Buy"
        PROVE  q.consideration <= PEX!DivCeil(p.price * q.quantity, Unit) + Len(q.handoffs) - 1
    <2>1. f.consideration <= PEX!DivCeil(p.price * f.quantity, Unit)
      BY <1>1, <1>6 DEF PEX!ValidFill
    <2>2. Len(o.handoffs) \in Nat /\ Len(q.handoffs) = Len(o.handoffs) + 1
      BY AppendElements
    <2>3. CASE o.handoffs = <<>>
      <3>1. o.quantity = 0 /\ o.consideration = 0
        BY <1>1, <2>3, SumOfNone DEF AddUp
      <3>2. q.quantity = f.quantity /\ q.consideration = f.consideration
        BY <1>3, <3>1
      <3>3. Len(q.handoffs) = 1
        BY <2>2, <2>3, EmptySeq
      <3>4. p.price * f.quantity \in Int
        BY <1>2
      <3>5. PEX!DivCeil(p.price * f.quantity, Unit) \in Int
        BY <3>4, PartsRoundedUp
      <3> QED BY <2>1, <3>2, <3>3, <3>5
    <2>4. CASE o.handoffs # <<>>
      <3> DEFINE a == p.price * o.quantity
                 b == p.price * f.quantity
      <3>1. a \in Int /\ b \in Int /\ p.price * q.quantity = a + b
        BY ONLY <1>0, <1>2, <1>3
      <3>2. o.consideration <= PEX!DivCeil(a, Unit) + Len(o.handoffs) - 1
        BY <1>1, <1>6, <2>4 DEF AddUp
      <3> HIDE DEF a, b
      <3>3. /\ PEX!DivCeil(a, Unit) \in Int /\ PEX!DivCeil(b, Unit) \in Int
            /\ PEX!DivCeil(a + b, Unit) \in Int
            /\ PEX!DivCeil(a, Unit) + PEX!DivCeil(b, Unit) <= PEX!DivCeil(a + b, Unit) + 1
        BY <3>1, PartsRoundedUp
      <3>4. f.consideration <= PEX!DivCeil(b, Unit)
        BY <2>1 DEF b
      <3>5. q.consideration <= PEX!DivCeil(a + b, Unit) + Len(o.handoffs)
        BY <1>2, <1>3, <2>2, <3>2, <3>3, <3>4
      <3> QED BY <2>2, <3>1, <3>3, <3>5
    <2> QED BY <2>3, <2>4
  <1>7. q.quantity \in Int /\ q.consideration \in Int /\ q.fee \in Int
    BY ONLY <1>0, <1>2, <1>3
  <1> HIDE DEF AddUp
  <1>8. q.quantity <= p.quantity /\ q.fee <= p.maxFee
    BY <1>3
  <1> QED BY ONLY <1>2, <1>4, <1>5, <1>6, <1>7, <1>8 DEF AddUp

\* Submitting an order preserves the invariant.
LEMMA InvForSubmit ==
    ASSUME ExecutionCommandsTyped, ExecutionInv, NEW c \in ExecutionCommands,
           Performs(c), c.op = "Submit", JournalOf(ExecutionCommands)'
    PROVE  ExecutionInv'
  <1> DEFINE o == c.placement.order
             p == [PEX!Unsubmitted EXCEPT !.placements = {c.placement}, !.status = "Active"]
  <1>0. o \in OrderIds /\ ExecutionShape
    BY DEF ExecutionCommandsTyped, ExecutionInv
  <1>1. /\ IsOrder(p) /\ p.status = "Active" /\ p.handoffs = <<>> /\ p.sequence = -1
        /\ p.placements = {c.placement} /\ p.quantity = 0 /\ p.consideration = 0 /\ p.fee = 0
    BY DEF IsOrder, OrderFields, PEX!Unsubmitted
  <1>2. IsSequence(p.handoffs)
    BY <1>1, EmptySeq DEF IsSequence
  <1>3. state.orders[o].status = "None"
    BY DEF Performs, PEX!Granted, PEX!SubmitGranted
  <1>4. state' = [orders |-> [state.orders EXCEPT ![o] = p],
                  usedPlacements |-> state.usedPlacements \cup {c.permit.digest},
                  usedCancels |-> state.usedCancels]
    BY <1>0 DEF Performs, PEX!Perform, PEX!Submit, ExecutionShape
  <1> HIDE DEF o, p
  <1>5. /\ ExecutionShape' /\ state'.orders[o] = p
        /\ \A x \in OrderIds : x # o => state'.orders[x] = state.orders[x]
    BY <1>0, <1>1, <1>2, <1>4, OrderReplaced
  <1>12. ASSUME PlacementsApproved PROVE FillsAddUp(p)
    <2>1. /\ c.placement.quantity \in Int /\ c.placement.quantity > 0
          /\ c.placement.price \in Int /\ c.placement.maxFee \in Int /\ c.placement.maxFee >= 0
      BY <1>12 DEF ExecutionCommandsTyped, PlacementsApproved, Performs, PEX!Granted, PEX!SubmitGranted,
             PEX!PermitFor
    <2> QED BY <1>1, <2>1, SumOfNone DEF FillsAddUp, AddUp
  <1>13. PlacementsApproved => \A x \in OrderIds : FillsAddUp(state'.orders[x])
    BY <1>5, <1>12 DEF ExecutionInv
  <1>6. Reports' = Reports /\ CancelRequests' = CancelRequests
    BY PerformedAdds DEF Performs, Grows
  <1>7. \A r \in Reports : r.order # o
    BY <1>3 DEF ExecutionInv
  <1>8. ExecutionClock'
    BY ClockKept DEF Performs, ExecutionInv
  <1>9. \A r \in Reports' : state'.orders[r.order].status # "None"
    BY <1>5, <1>6, <1>7, ReportsTyped DEF ExecutionInv
  <1>10. ASSUME NEW x \in OrderIds PROVE EndReported(x)'
    BY <1>1, <1>5, <1>6 DEF ExecutionInv, EndReported
  <1>11. ASSUME NEW x \in OrderIds PROVE HandedOff(x)' /\ state'.orders[x].sequence \in Int
    <2>1. CASE x = o
      <3>1. ToSet(<<>>) = {} /\ Len(<<>>) = 0
        BY DEF ToSet
      <3> QED BY <1>1, <1>5, <1>6, <1>7, <2>1, <3>1 DEF HandedOff
    <2>2. CASE x # o
      <3>1. state'.orders[x] = state.orders[x] /\ HandedOff(x) /\ state.orders[x].sequence \in Int
        BY <1>5, <2>2 DEF ExecutionInv
      <3> QED BY <1>6, <3>1, HandoffsKept
    <2> QED BY <2>1, <2>2
  <1> QED BY <1>5, <1>8, <1>9, <1>10, <1>11, <1>13 DEF ExecutionInv

\* Requesting a cancel preserves the invariant.
LEMMA InvForCancelRequest ==
    ASSUME ExecutionCommandsTyped, ExecutionInv, NEW c \in ExecutionCommands, Performs(c),
           c.op = "RequestCancel", JournalOf(ExecutionCommands)'
    PROVE  ExecutionInv'
  <1> DEFINE o == c.request.order
             p == [state.orders[o] EXCEPT !.status = "CancelPending"]
  <1>0. /\ o \in OrderIds /\ ExecutionShape
        /\ IsOrder(state.orders[o]) /\ IsSequence(state.orders[o].handoffs)
    BY DEF ExecutionCommandsTyped, ExecutionInv, ExecutionShape
  <1>1. /\ IsOrder(p) /\ p.status = "CancelPending" /\ p.handoffs = state.orders[o].handoffs
        /\ p.sequence = state.orders[o].sequence /\ p.exchange = state.orders[o].exchange
        /\ SameTotals(p, state.orders[o])
    BY <1>0, StatusReplaced
  <1>3. ASSUME PlacementsApproved PROVE FillsAddUp(p)
    <2>1. state.orders[o].status = "Active" /\ FillsAddUp(state.orders[o])
      BY <1>0, <1>3 DEF ExecutionInv, Performs, PEX!Granted, PEX!CancelGranted
    <2> HIDE DEF p
    <2> QED BY <1>1, <2>1, AddUpKept
  <1>2. state' = [orders |-> [state.orders EXCEPT ![o] = p], usedPlacements |-> state.usedPlacements,
                  usedCancels |-> state.usedCancels \cup {c.permit.digest}]
    BY <1>0 DEF Performs, PEX!Perform, PEX!RequestCancel, ExecutionShape
  <1>4. c.request.order = o
    OBVIOUS
  <1> HIDE DEF o, p
  <1>5. /\ ExecutionShape' /\ state'.orders[o] = p
        /\ \A x \in OrderIds : x # o => state'.orders[x] = state.orders[x]
    BY <1>0, <1>1, <1>2, OrderReplaced
  <1>6. Reports' = Reports /\ CancelRequests' = CancelRequests \cup {c}
    BY PerformedAdds DEF Performs, Grows
  <1>8. ExecutionClock'
    BY ClockKept DEF Performs, ExecutionInv
  <1>9. \A r \in Reports' : state'.orders[r.order].status # "None"
    BY <1>1, <1>5, <1>6, ReportsTyped DEF ExecutionInv
  <1>10. ASSUME NEW x \in OrderIds PROVE EndReported(x)'
    <2>1. CASE x = o
      BY <1>1, <1>4, <1>5, <1>6, <2>1 DEF EndReported
    <2>2. CASE x # o
      <3>1. state'.orders[x] = state.orders[x] /\ EndReported(x)
        BY <1>5, <2>2 DEF ExecutionInv
      <3> QED BY <1>6, <3>1 DEF EndReported
    <2> QED BY <2>1, <2>2
  <1>11. ASSUME NEW x \in OrderIds PROVE HandedOff(x)' /\ state'.orders[x].sequence \in Int
    <2>1. /\ state'.orders[x].handoffs = state.orders[x].handoffs
          /\ state'.orders[x].sequence = state.orders[x].sequence
          /\ state'.orders[x].exchange = state.orders[x].exchange
          /\ HandedOff(x) /\ state.orders[x].sequence \in Int
      BY <1>1, <1>5 DEF ExecutionInv
    <2> QED BY <1>6, <2>1, HandoffsKept
  <1>12. PlacementsApproved => \A x \in OrderIds : FillsAddUp(state'.orders[x])
    BY <1>3, <1>5 DEF ExecutionInv
  <1> QED BY <1>5, <1>8, <1>9, <1>10, <1>11, <1>12 DEF ExecutionInv

\* What report c makes of the status, the handoffs and the totals of order o.
Outcome(p, o, c) ==
    /\ IsOrder(p)
    /\ c.event.kind = "Match" => /\ p.handoffs = Append(o.handoffs, HandoffOf(o, c))
                                 /\ p.status = IF c.event.fully THEN "FullyMatched" ELSE o.status
                                 /\ StatedTotals(p, o, c.event.fill)
    /\ c.event.kind # "Match" => p.handoffs = o.handoffs /\ SameTotals(p, o)
    /\ c.event.kind = "CancelAccepted" => p.status = "Canceled"
    /\ c.event.kind = "CancelRejected" => p.status = "Active"
    /\ c.event.kind = "Rejected" => p.status = "Rejected"
    /\ c.event.kind \in {"Delayed", "Acknowledged", "Live", "Unknown"} => p.status = o.status

\* What one report makes of its order, kind by kind.
LEMMA EventReplaced ==
    ASSUME NEW o, IsOrder(o), NEW c, c.event.kind \in EventKinds
    PROVE  Outcome(PEX!AfterEvent(o, c), o, c)
  <1>1. CASE c.event.kind = "Delayed"
    <2>1. PEX!AfterEvent(o, c) = [o EXCEPT !.active = "Delayed", !.release = c.event.release]
      BY <1>1 DEF PEX!AfterEvent
    <2>2. LET p == PEX!AfterEvent(o, c)
        IN  IsOrder(p) /\ p.status = o.status /\ p.handoffs = o.handoffs /\ SameTotals(p, o)
      BY <2>1 DEF IsOrder, OrderFields, SameTotals
    <2> QED BY <1>1, <2>2 DEF Outcome
  <1>2. CASE c.event.kind \in {"Acknowledged", "Live", "Unknown"}
    <2>1. PEX!AfterEvent(o, c) = [o EXCEPT !.active = c.event.kind]
      BY <1>2 DEF PEX!AfterEvent
    <2>2. LET p == PEX!AfterEvent(o, c)
        IN  IsOrder(p) /\ p.status = o.status /\ p.handoffs = o.handoffs /\ SameTotals(p, o)
      BY <2>1 DEF IsOrder, OrderFields, SameTotals
    <2> QED BY <1>2, <2>2 DEF Outcome
  <1>3. CASE c.event.kind = "Match"
    <2>1. PEX!AfterEvent(o, c) = PEX!Matched(o, c)
      BY <1>3 DEF PEX!AfterEvent
    <2>2. /\ IsOrder(PEX!Matched(o, c))
          /\ PEX!Matched(o, c).handoffs = Append(o.handoffs, HandoffOf(o, c))
          /\ c.event.fully => PEX!Matched(o, c).status = "FullyMatched"
          /\ ~c.event.fully => PEX!Matched(o, c).status = o.status
          /\ StatedTotals(PEX!Matched(o, c), o, c.event.fill)
      BY MatchReplaced
    <2> QED BY <1>3, <2>1, <2>2 DEF Outcome
  <1>4. CASE c.event.kind = "CancelAccepted"
    <2>1. PEX!AfterEvent(o, c) = [o EXCEPT !.status = "Canceled"]
      BY <1>4 DEF PEX!AfterEvent
    <2> QED BY <1>4, <2>1, StatusReplaced DEF Outcome
  <1>5. CASE c.event.kind = "CancelRejected"
    <2>1. PEX!AfterEvent(o, c) = [o EXCEPT !.status = "Active"]
      BY <1>5 DEF PEX!AfterEvent
    <2> QED BY <1>5, <2>1, StatusReplaced DEF Outcome
  <1>6. CASE c.event.kind = "Rejected"
    <2>1. PEX!AfterEvent(o, c) = [o EXCEPT !.status = "Rejected"]
      BY <1>6 DEF PEX!AfterEvent
    <2> QED BY <1>6, <2>1, StatusReplaced DEF Outcome
  <1> QED BY <1>1, <1>2, <1>3, <1>4, <1>5, <1>6 DEF EventKinds

\* The order p that report c makes of the order it is about.
ReportedAs(p, c) ==
    Outcome(p, state.orders[c.order], c) /\ p.sequence = c.sequence /\ p.exchange = PEX!Bound(c)

\* A report changes its order and no other.
LEMMA ReportSteps ==
    ASSUME ExecutionCommandsTyped, ExecutionInv, NEW c \in ExecutionCommands, Performs(c), c.op = "Observe"
    PROVE  /\ ExecutionShape' /\ ReportedAs(state'.orders[c.order], c)
           /\ \A x \in OrderIds : x # c.order => state'.orders[x] = state.orders[x]
  <1> DEFINE o == c.order
             a == PEX!AfterEvent(state.orders[o], c)
             p == [a EXCEPT !.exchange = PEX!Bound(c), !.sequence = c.sequence,
                            !.eventTime = c.eventTime, !.receivedTime = c.receivedTime]
  <1>1. /\ o \in OrderIds /\ ExecutionShape /\ c.event.kind \in EventKinds
        /\ IsOrder(state.orders[o]) /\ IsSequence(state.orders[o].handoffs)
    BY DEF ExecutionCommandsTyped, ExecutionInv, ExecutionShape
  <1>2. state' = [orders |-> [state.orders EXCEPT ![o] = p], usedPlacements |-> state.usedPlacements,
                  usedCancels |-> state.usedCancels]
    BY <1>1 DEF Performs, PEX!Perform, PEX!Observe, ExecutionShape
  <1>3. ReportedAs(p, c)
    <2>1. Outcome(a, state.orders[o], c) /\ IsOrder(a)
      BY ZenonT(60), <1>1, EventReplaced DEF Outcome
    <2> HIDE DEF a
    <2>2. /\ IsOrder(p) /\ p.status = a.status /\ p.handoffs = a.handoffs
          /\ p.sequence = c.sequence /\ p.exchange = PEX!Bound(c) /\ SameTotals(p, a)
      BY <2>1 DEF IsOrder, OrderFields, SameTotals, p
    <2> HIDE DEF p
    <2> QED BY <2>1, <2>2 DEF ReportedAs, Outcome, SameTotals, StatedTotals
  <1> HIDE DEF p
  <1>4. IsSequence(p.handoffs)
    <2>1. PICK S : state.orders[o].handoffs \in Seq(S)
      BY <1>1 DEF IsSequence
    <2>2. CASE c.event.kind = "Match"
      <3>1. p.handoffs = Append(state.orders[o].handoffs, HandoffOf(state.orders[o], c))
        BY <1>3, <2>2 DEF ReportedAs, Outcome
      <3> QED BY <2>1, <3>1, AppendElements
    <2>3. CASE c.event.kind # "Match"
      BY <1>1, <1>3, <2>3 DEF ReportedAs, Outcome
    <2> QED BY <2>2, <2>3
  <1>5. IsOrder(p)
    BY <1>3 DEF ReportedAs, Outcome
  <1>6. /\ ExecutionShape' /\ state'.orders[o] = p
        /\ \A x \in OrderIds : x # o => state'.orders[x] = state.orders[x]
    BY <1>1, <1>2, <1>4, <1>5, OrderReplaced
  <1> QED BY <1>3, <1>6

\* Applying a report preserves the invariant.
LEMMA InvForReport ==
    ASSUME ExecutionCommandsTyped, ExecutionInv, NEW c \in ExecutionCommands, Performs(c), c.op = "Observe",
           JournalOf(ExecutionCommands)'
    PROVE  ExecutionInv'
  <1> DEFINE o == c.order
             was == state.orders[o]
             kind == c.event.kind
  <1>1. /\ o \in OrderIds /\ c.sequence \in Int /\ kind \in EventKinds /\ c.at \in Int
        /\ lastRecorded \in Int /\ c.at >= lastRecorded /\ was.sequence \in Int
    BY DEF ExecutionCommandsTyped, ExecutionInv, ExecutionClock, Performs
  <1>2. /\ ExecutionShape' /\ ReportedAs(state'.orders[o], c)
        /\ \A x \in OrderIds : x # o => state'.orders[x] = state.orders[x]
    BY ReportSteps
  <1>3. Reports' = Reports \cup {c} /\ CancelRequests' = CancelRequests
    BY PerformedAdds DEF Performs, Grows
  <1>4. ExecutionClock'
    BY ClockKept DEF Performs, ExecutionInv
  <1>5. /\ was.status # "None" /\ c.sequence > was.sequence
        /\ \A x, y \in PEX!Bound(c) : x = y
        /\ was.exchange \subseteq PEX!Bound(c)
        /\ kind = "CancelAccepted" => was.status = "CancelPending"
        /\ kind = "Match" => PEX!Bound(c) # {} /\ PEX!NewFill(was, c.event.fill)
    BY DEF Performs, PEX!Possible, PEX!CanObserve, PEX!FollowsHistory, PEX!SameIdentity,
           PEX!CanApplyEvent, PEX!CanMatch, PEX!Bound
  <1>6. \A r \in Reports' : state'.orders[r.order].status # "None"
    <2>1. state'.orders[o].status # "None"
      BY <1>1, <1>2, <1>5 DEF ReportedAs, Outcome, EventKinds
    <2> QED BY <1>2, <1>3, <2>1, ReportsTyped DEF ExecutionInv
  <1>7. ASSUME NEW x \in OrderIds PROVE EndReported(x)'
    <2>1. EndReported(x)
      BY DEF ExecutionInv
    <2>2. CASE x # o
      BY <1>2, <1>3, <2>1, <2>2 DEF EndReported
    <2>3. CASE x = o /\ kind = "CancelAccepted"
      <3>1. PICK r \in CancelRequests : r.request.order = o
        BY <1>5, <2>1, <2>3 DEF EndReported
      <3>2. r.at <= c.at
        BY SMTT(30), <1>1, ReportsTyped
      <3> QED BY <1>2, <1>3, <2>3, <3>1, <3>2 DEF EndReported, ReportedAs, Outcome
    <2>4. CASE x = o /\ kind = "Match"
      BY <1>2, <1>3, <2>1, <2>4 DEF EndReported, ReportedAs, Outcome
    <2>5. CASE x = o /\ kind \in {"CancelRejected", "Rejected"}
      BY <1>2, <1>3, <2>5 DEF EndReported, ReportedAs, Outcome
    <2>6. CASE x = o /\ kind \in {"Delayed", "Acknowledged", "Live", "Unknown"}
      BY <1>2, <1>3, <2>1, <2>6 DEF EndReported, ReportedAs, Outcome
    <2> QED BY <1>1, <2>2, <2>3, <2>4, <2>5, <2>6 DEF EventKinds
  <1>8. \A h \in ToSet(was.handoffs) : /\ {h.order} = PEX!Bound(c)
                                       /\ h.sequence \in Int /\ h.sequence < c.sequence
    <2>1. \A h \in ToSet(was.handoffs) : {h.order} = was.exchange /\ h.sequence \in Int /\ h.sequence <= was.sequence
      BY <1>1 DEF ExecutionInv, HandedOff
    <2> HIDE DEF was
    <2> QED BY <1>1, <1>5, <2>1
  <1>9. HandedOff(o)'
    <2>0. HandedOff(o)
      BY <1>1 DEF ExecutionInv
    <2>1. CASE kind # "Match"
      <3>1. /\ state'.orders[o].handoffs = was.handoffs /\ state'.orders[o].exchange = PEX!Bound(c)
            /\ state'.orders[o].sequence = c.sequence
        BY <1>2, <2>1 DEF ReportedAs, Outcome
      <3>2. \A r \in Reports' : r.event.kind = "Match" => r \in Reports
        BY <1>3, <2>1
      <3>3. \A h \in ToSet(was.handoffs) : h.sequence <= c.sequence
        BY <1>1, <1>8
      <3> QED BY <1>3, <1>8, <2>0, <3>1, <3>2, <3>3 DEF HandedOff
    <2>2. CASE kind = "Match"
      <3> DEFINE hs == was.handoffs
                 h == HandoffOf(was, c)
      <3>1. h.sequence = c.sequence /\ h.trade = c.event.fill.id /\ h.ledger = c.event.fill.ledger
        BY DEF HandoffOf
      <3>2. {h.order} = PEX!Bound(c)
        BY SMTT(30), <1>5, <2>2 DEF HandoffOf
      <3>3. /\ state'.orders[o].handoffs = Append(hs, h) /\ state'.orders[o].exchange = PEX!Bound(c)
            /\ state'.orders[o].sequence = c.sequence
        BY ZenonT(60), <1>2, <2>2 DEF ReportedAs, Outcome
      <3>4. PICK S : hs \in Seq(S)
        BY <1>1 DEF ExecutionInv, ExecutionShape, IsSequence
      <3>10. \A i, j \in 1..Len(hs) : i < j =>
                /\ hs[i].sequence < hs[j].sequence
                /\ hs[i].trade # hs[j].trade /\ hs[i].ledger # hs[j].ledger
        BY <2>0 DEF HandedOff
      <3> HIDE DEF h, hs
      <3>5. /\ Len(hs) \in Nat /\ Len(Append(hs, h)) = Len(hs) + 1
            /\ Append(hs, h)[Len(hs) + 1] = h
            /\ \A i \in 1..Len(hs) : Append(hs, h)[i] = hs[i]
            /\ ToSet(Append(hs, h)) = ToSet(hs) \cup {h}
            /\ \A i \in 1..Len(hs) : hs[i] \in ToSet(hs)
        BY <3>4, AppendElements
      <3>6. \A g \in ToSet(hs) : g.trade # h.trade /\ g.ledger # h.ledger
        BY <1>5, <2>2, <3>1 DEF PEX!NewFill, PEX!ToSet, ToSet, hs
      <3>7. ASSUME NEW i \in 1..Len(Append(hs, h)), NEW j \in 1..Len(Append(hs, h)), i < j
            PROVE  /\ Append(hs, h)[i].sequence < Append(hs, h)[j].sequence
                   /\ Append(hs, h)[i].trade # Append(hs, h)[j].trade
                   /\ Append(hs, h)[i].ledger # Append(hs, h)[j].ledger
        <4>1. i \in 1..Len(hs) /\ Append(hs, h)[i] = hs[i]
          BY <3>5, <3>7
        <4>2. CASE j = Len(hs) + 1
          BY <1>8, <3>1, <3>5, <3>6, <4>1, <4>2 DEF hs
        <4>3. CASE j # Len(hs) + 1
          <5>1. j \in 1..Len(hs) /\ Append(hs, h)[j] = hs[j]
            BY <3>5, <4>3
          <5> QED BY <3>7, <3>10, <4>1, <5>1
        <4> QED BY <4>2, <4>3
      <3>8. \A g \in ToSet(Append(hs, h)) : {g.order} = PEX!Bound(c) /\ g.sequence \in Int /\ g.sequence <= c.sequence
        BY <1>1, <1>8, <3>1, <3>2, <3>5 DEF hs
      <3>9. /\ \A g \in ToSet(Append(hs, h)) : \E r \in Reports' : /\ r.order = o /\ r.event.kind = "Match"
                                                                  /\ r.sequence = g.sequence
            /\ \A r \in Reports' : r.order = o /\ r.event.kind = "Match" =>
                   \E g \in ToSet(Append(hs, h)) : g.sequence = r.sequence
        BY <1>3, <2>0, <2>2, <3>1, <3>5 DEF HandedOff, hs
      <3> QED BY <3>3, <3>7, <3>8, <3>9 DEF HandedOff
    <2> QED BY <2>1, <2>2
  <1>10. ASSUME NEW x \in OrderIds, x # o PROVE HandedOff(x)'
    <2>1. HandedOff(x) /\ state'.orders[x] = state.orders[x] /\ \A r \in Reports' : r.order = x => r \in Reports
      BY <1>2, <1>3, <1>10 DEF ExecutionInv
    <2> QED BY <1>3, <2>1 DEF HandedOff
  <1>11. \A x \in OrderIds : HandedOff(x)' /\ state'.orders[x].sequence \in Int
    BY <1>1, <1>2, <1>9, <1>10 DEF ExecutionInv, ReportedAs
  <1>12. ASSUME PlacementsApproved PROVE FillsAddUp(state'.orders[o])
    <2>1. /\ FillsAddUp(was) /\ PEX!CanApplyEvent(was, c)
          /\ Outcome(state'.orders[o], was, c)
      BY <1>1, <1>2, <1>12 DEF ExecutionInv, Performs, PEX!Possible, PEX!CanObserve, ReportedAs
    <2>2. CASE kind = "Match"
      <3> DEFINE f == c.event.fill
      <3>1. /\ f.quantity \in Int /\ f.consideration \in Int /\ f.fee \in Int
        BY <2>2 DEF ExecutionCommandsTyped
      <3>2. PICK S : was.handoffs \in Seq(S)
        BY <1>1 DEF ExecutionInv, ExecutionShape, IsSequence
      <3>3. PEX!Open(was) /\ \A p \in was.placements : PEX!ValidFill(was, p, f, c.event.fully)
        BY <2>1, <2>2 DEF PEX!CanApplyEvent, PEX!CanMatch
      <3>4. LET h == HandoffOf(was, c)
            IN  h.quantity = f.quantity /\ h.consideration = f.consideration /\ h.fee = f.fee
        BY SMTT(30) DEF HandoffOf
      <3>5. /\ StatedTotals(state'.orders[o], was, f)
            /\ state'.orders[o].handoffs = Append(was.handoffs, HandoffOf(was, c))
            /\ state'.orders[o].status = IF c.event.fully THEN "FullyMatched" ELSE was.status
        BY ZenonT(60), <2>1, <2>2 DEF Outcome
      <3> HIDE DEF f, was
      <3> QED BY <2>1, <3>1, <3>2, <3>3, <3>4, <3>5, AddUpMatch
    <2>3. CASE kind # "Match"
      <3>1. SameTotals(state'.orders[o], was) /\ state'.orders[o].handoffs = was.handoffs
        BY <2>1, <2>3 DEF Outcome
      <3>2. state'.orders[o].status = "FullyMatched" <=> was.status = "FullyMatched"
        BY <1>1, <2>1, <2>3 DEF Outcome, EventKinds, PEX!CanApplyEvent, PEX!Open
      <3> HIDE DEF was
      <3> QED BY <2>1, <3>1, <3>2, AddUpKept
    <2> QED BY <2>2, <2>3
  <1>13. PlacementsApproved => \A x \in OrderIds : FillsAddUp(state'.orders[x])
    BY <1>2, <1>12 DEF ExecutionInv
  <1> QED BY <1>2, <1>4, <1>6, <1>7, <1>11, <1>13 DEF ExecutionInv

\* A denial or an integrity failure preserves the invariant.
LEMMA InvForRefusal ==
    ASSUME ExecutionInv, UNCHANGED <<state, Reports, CancelRequests>>, ExecutionClock',
           JournalOf(ExecutionCommands)'
    PROVE  ExecutionInv'
  BY DEF ExecutionInv, ExecutionShape, EndReported, HandedOff

\* The engine as it is created, by new and by every recovery.
FreshExecution ==
    JournalOf(ExecutionCommands) /\ state = PEX!Initial /\ processed = {} /\ lastRecorded = -1

\* A new execution engine satisfies the invariant, at the start and at a restart.
LEMMA ExecutionAtStart ==
    FreshExecution => ExecutionInv
  <1> SUFFICES ASSUME FreshExecution PROVE ExecutionInv
    OBVIOUS
  <1>1. Reports = {} /\ CancelRequests = {}
    BY DEF FreshExecution, Reports, CancelRequests, PEX!Decided
  <1>2. /\ IsOrder(PEX!Unsubmitted) /\ PEX!Unsubmitted.status = "None"
        /\ PEX!Unsubmitted.handoffs = <<>> /\ PEX!Unsubmitted.sequence = -1
        /\ PEX!Unsubmitted.placements = {}
    BY DEF IsOrder, OrderFields, PEX!Unsubmitted
  <1>3. IsSequence(PEX!Unsubmitted.handoffs)
    BY <1>2, EmptySeq DEF IsSequence
  <1>4. ExecutionShape /\ \A o \in OrderIds : state.orders[o] = PEX!Unsubmitted
    BY <1>2, <1>3 DEF FreshExecution, PEX!Initial, ExecutionShape
  <1>5. ExecutionClock
    BY DEF FreshExecution, ExecutionClock
  <1>6. \A o \in OrderIds : EndReported(o)
    BY <1>2, <1>4 DEF EndReported
  <1>7. ToSet(<<>>) = {} /\ Len(<<>>) = 0
    BY DEF ToSet
  <1>8. \A o \in OrderIds : HandedOff(o)
    BY <1>1, <1>2, <1>4, <1>7 DEF HandedOff
  <1>9. \A o \in OrderIds : FillsAddUp(state.orders[o])
    BY <1>2, <1>4 DEF FillsAddUp
  <1> QED BY <1>1, <1>2, <1>4, <1>5, <1>6, <1>8, <1>9 DEF ExecutionInv, FreshExecution

\* The initial states satisfy the invariant.
LEMMA ExecutionInvInitially ==
    ASSUME PEX!Init
    PROVE  ExecutionInv
  <1>1. JournalOf(ExecutionCommands)
    BY EmptySeq DEF PEX!Init, PEX!OwnerInit, PEX!JournalInit, JournalHolds, JournalOf
  <1> QED BY <1>1, ExecutionAtStart DEF FreshExecution, PEX!Init, PEX!OwnerInit, PEX!EngineInit

\* Every step of the owner preserves the invariant.
LEMMA ExecutionInvNext ==
    ASSUME ExecutionCommandsTyped, ExecutionInv, [PEX!Next]_(PEX!ownerVars)
    PROVE  ExecutionInv'
  <1>1. /\ JournalOf(ExecutionCommands)'
        /\ \/ \E c \in ExecutionCommands : PEX!Apply(c)
           \/ state' = PEX!Initial /\ processed' = {} /\ lastRecorded' = -1
           \/ UNCHANGED <<state, processed, lastRecorded>>
    BY ExecutionSteps DEF ExecutionInv, engineFields, JournalOf
  <1>2. ASSUME UNCHANGED <<state, processed, lastRecorded>> PROVE ExecutionInv'
    <2>1. UNCHANGED <<state, Reports, CancelRequests>>
      BY <1>2 DEF Reports, CancelRequests, PEX!Decided
    <2>2. ExecutionClock'
      BY <1>2 DEF ExecutionInv, ExecutionClock
    <2> QED BY <1>1, <2>1, <2>2, InvForRefusal
  <1>3. CASE state' = PEX!Initial /\ processed' = {} /\ lastRecorded' = -1
    <2>1. FreshExecution' => ExecutionInv'
      BY ExecutionAtStart, PTL
    <2> QED BY <1>1, <1>3, <2>1 DEF FreshExecution
  <1>4. ASSUME NEW c \in ExecutionCommands, Performs(c) PROVE ExecutionInv'
    <2>1. c.op \in {"Submit", "RequestCancel", "Observe"}
      BY <1>4 DEF Performs, PEX!Perform
    <2> QED BY <1>1, <1>4, <2>1, InvForSubmit, InvForCancelRequest, InvForReport
  <1>5. ASSUME NEW c \in ExecutionCommands, DeniesAction(c) PROVE ExecutionInv'
    <2>1. UNCHANGED <<state, Reports, CancelRequests>>
      BY <1>5, DeniedAddsNone DEF DeniesAction
    <2>2. ExecutionClock'
      BY <1>5, ClockKept DEF DeniesAction, ExecutionInv
    <2> QED BY <1>1, <2>1, <2>2, InvForRefusal
  <1> QED BY <1>1, <1>2, <1>3, <1>4, <1>5, ExecutionApplies

ExecutionEngineInv == engine = "paper-execution" => ExecutionInv

\* The engine of a behaviour does not change, so the invariant holds in all of them.
LEMMA ExecutionEngineInvHolds ==
    ASSUME ExecutionCommandsTyped
    PROVE  TradingSpec => []ExecutionEngineInv
  <1>1. TradingInit => ExecutionEngineInv
    BY ExecutionInvInitially DEF TradingInit, ExecutionEngineInv
  <1>2. ExecutionEngineInv /\ [TradingNext]_<<ownerVars, engine>> => ExecutionEngineInv'
    <2> SUFFICES ASSUME ExecutionEngineInv, [TradingNext]_<<ownerVars, engine>>,
                        engine' = "paper-execution"
                 PROVE  ExecutionInv'
      BY DEF ExecutionEngineInv
    <2>1. engine = "paper-execution" /\ ExecutionInv
      BY DEF TradingNext, ExecutionEngineInv
    <2>2. [PEX!Next]_(PEX!ownerVars)
      BY <2>1 DEF TradingNext, ownerVars, engineVars, journalVars, PEX!ownerVars, PEX!engineVars,
           PEX!journalVars
    <2> QED BY <2>1, <2>2, ExecutionInvNext
  <1> QED BY <1>1, <1>2, PTL DEF TradingSpec

\* Over every journal, crash and replay of paper-execution: an order ends only by a report
\* that says so, is canceled only after its cancel was asked for, and its handoffs are the
\* fills accepted for it, each once, in the order of the source and under one exchange id.
THEOREM ReportsAreFollowed ==
    ASSUME ExecutionCommandsTyped
    PROVE  TradingSpec => []OrdersAreAsReported
  <1>1. ExecutionEngineInv => OrdersAreAsReported
    BY ExecutionInvSuffices DEF ExecutionEngineInv, OrdersAreAsReported
  <1> QED BY <1>1, ExecutionEngineInvHolds, PTL

\* The same for the fills: what an order holds is what its handoffs add up to, never more
\* than was asked for at no more than its highest fee; it is fully matched exactly when
\* nothing is left of it, and a buy exceeds its limit by less than one unit a fill.
THEOREM FillsAreExact ==
    ASSUME ExecutionCommandsTyped, PlacementsApproved
    PROVE  TradingSpec => []FillsExact
  <1>1. ExecutionEngineInv => FillsExact
    BY ExecutionInvSuffices DEF ExecutionEngineInv, FillsExact
  <1> QED BY <1>1, ExecutionEngineInvHolds, PTL

(***************************************************************************)
(* paper-trading-runtime                                                   *)
(***************************************************************************)
\* A step of the runtime applies a command, starts afresh or leaves the engine alone.
LEMMA PipelineSteps ==
    ASSUME JournalHolds(PipelineCommands), synced \in Nat, [PTR!Next]_(PTR!ownerVars)
    PROVE  /\ JournalHolds(PipelineCommands)' /\ synced' \in Nat
           /\ \/ \E c \in PipelineCommands : PTR!Apply(c)
              \/ /\ state' = PTR!Initial /\ processed' = {} /\ lastRecorded' = -1
                 /\ halted' = FALSE
              \/ UNCHANGED engineFields
  <1>0. log \in Seq(PipelineCommands) /\ cursor \in Nat /\ Len(log) \in Nat
    BY LenProperties DEF JournalHolds
  <1>1. CASE UNCHANGED PTR!ownerVars
    BY <1>1 DEF PTR!ownerVars, PTR!engineVars, PTR!journalVars, engineFields, JournalHolds
  <1>2. ASSUME NEW c \in PipelineCommands, PTR!Journal(c)
        PROVE  JournalHolds(PipelineCommands)' /\ UNCHANGED engineFields /\ synced' = synced
    BY <1>0, <1>2, AppendHolds DEF PTR!Journal, PTR!JournalCommand, PTR!AppendEntry, PTR!FailAppend,
         PTR!engineVars, engineFields, JournalHolds
  <1>3. CASE PTR!Install
    <2>1. Last(log) \in PipelineCommands /\ PTR!Apply(Last(log))
      BY <1>3, LastHeld DEF PTR!Install, PTR!InstallCommand, PTR!SyncEntry, PTR!Last, Last
    <2>2. JournalHolds(PipelineCommands)' /\ synced' \in Nat
      BY <1>0, <1>3 DEF PTR!Install, PTR!InstallCommand, PTR!SyncEntry, JournalHolds
    <2> QED BY <2>1, <2>2
  <1>4. CASE PTR!SyncFails \/ PTR!WriteCheckpoint
    BY <1>0, <1>4 DEF PTR!SyncFails, PTR!FailSync, PTR!WriteCheckpoint, PTR!SaveCheckpoint,
         PTR!CreateNew, PTR!engineVars, engineFields, JournalHolds
  <1>5. CASE PTR!Crash
    <2>1. CASE PTR!ProcessCrash
      BY <1>0, <1>5, <2>1 DEF PTR!Crash, PTR!ProcessCrash, PTR!engineVars, engineFields, JournalHolds
    <2>2. CASE PTR!PowerLoss
      <3>1. PICK n \in synced..Len(log) : log' = SubSeq(log, 1, n) /\ synced' = n
        BY <2>2 DEF PTR!PowerLoss
      <3>2. n \in 0..Len(log) /\ synced' \in Nat
        BY <1>0, <3>1
      <3>3. log' \in Seq(PipelineCommands)
        BY <3>1, <3>2, PrefixHolds
      <3> QED BY <1>0, <1>5, <2>2, <3>2, <3>3
           DEF PTR!Crash, PTR!PowerLoss, PTR!engineVars, engineFields, JournalHolds
    <2> QED BY <1>5, <2>1, <2>2 DEF PTR!Crash
  <1>6. CASE PTR!Recovery
    <2>1. CASE PTR!StartFrom(PTR!Initial)
      BY <1>0, <2>1 DEF PTR!StartFrom, PTR!BeginReplay, JournalHolds
    <2>2. CASE PTR!ReplayCommand(PTR!Apply(log[cursor + 1]))
      <3>1. log[cursor + 1] \in PipelineCommands
        BY <1>0, <2>2, ElementOfSeq DEF PTR!ReplayCommand
      <3> QED BY <1>0, <2>2, <3>1 DEF PTR!ReplayCommand, JournalHolds
    <2>3. CASE PTR!PostHaltEvent \/ PTR!EndOfJournal
      BY <1>0, <2>3 DEF PTR!PostHaltEvent, PTR!RefuseEntry, PTR!EndOfJournal, PTR!engineVars,
           engineFields, JournalHolds
    <2> QED BY <1>6, <2>1, <2>2, <2>3 DEF PTR!Recovery, PTR!RecoverWith
  <1> QED BY <1>1, <1>2, <1>3, <1>4, <1>5, <1>6 DEF PTR!Next

PipelineFields ==
    {"version", "reservations", "posted", "intents", "trades", "gate", "risk", "approved", "policy",
     "stages", "orders", "reserved", "registered", "pending", "fault"}

IsPaperOrder(x) ==
    /\ x = [status |-> x.status, active |-> x.active, release |-> x.release, fills |-> x.fills]
    /\ x.fills \in Seq(Nat \ {0})
IsStage(s) == s = [stage |-> s.stage, release |-> s.release, uncancellable |-> s.uncancellable]

PipelineShape ==
    /\ state = [f \in PipelineFields |-> state[f]]
    /\ state.fault \in FaultPoints \cup {"none"}
    /\ state.reservations = [o \in PTR!Orders |-> state.reservations[o]]
    /\ state.orders = [o \in PTR!Orders |-> state.orders[o]]
    /\ state.stages = [o \in PTR!Orders |-> state.stages[o]]
    /\ \A o \in PTR!Orders : IsPaperOrder(state.orders[o]) /\ IsStage(state.stages[o])

\* The fills of an order: what was filled, and what the ledger confirmed of it.
FillOf(o, i, fills) == [order |-> o, index |-> i, quantity |-> fills[i]]
FilledIn(fills) == SumTo(fills, Len(fills))
ConfirmedIn(o, fills, posted) ==
    SumTo([i \in 1..Len(fills) |-> IF FillOf(o, i, fills) \in posted THEN fills[i] ELSE 0], Len(fills))

\* What is held for an order x that has the reservation r: as long as the reservation is
\* active all that is not confirmed, and it is active as long as the order may be filled.
Held(o, r, x, posted, reserved) ==
    /\ o \in reserved <=> r.status = "Active"
    /\ r.status = "Active" => r.left = Quantities[o] - ConfirmedIn(o, x.fills, posted)
    /\ r.status = "None" => ConfirmedIn(o, x.fills, posted) = 0
    /\ x.status \in {"Active", "CancelPending"} =>
           r.status = "Active" /\ FilledIn(x.fills) < Quantities[o]
    /\ FilledIn(x.fills) <= Quantities[o]
    /\ x.status = "None" => x.fills = <<>>

AllHeld ==
    \A o \in PTR!Orders :
        Held(o, state.reservations[o], state.orders[o], state.posted, state.reserved)

\* A registered handoff is a fill, and waits for its confirmation or has it.
Registry ==
    /\ state.posted \subseteq state.registered
    /\ state.pending \subseteq state.registered \ state.posted
    /\ \A h \in state.registered :
           /\ h.order \in PTR!Orders
           /\ h.index \in 1..Len(state.orders[h.order].fills)
           /\ h = FillOf(h.order, h.index, state.orders[h.order].fills)

\* The confirmed handoffs of an order are those of its confirmations, one of each.
Booked(o) ==
    /\ IsFiniteSet(PTR!PostedFor(o)) /\ IsFiniteSet(PTR!Confirms(o))
    /\ PTR!PostedFor(o) = {p.command.trade : p \in PTR!Confirms(o)}
    /\ Cardinality(PTR!PostedFor(o)) = Cardinality(PTR!Confirms(o))

\* The policy knows of what is at the exchange and of what ended there, and has placed
\* the order that its last permit is for.
InStep(stage, status) ==
    /\ status \in PTR!Finished => stage = "Terminal"
    /\ status # "None" => stage # "None"

PolicyInStep ==
    /\ \A o \in PTR!Orders : InStep(state.stages[o].stage, state.orders[o].status)
    /\ state.policy.kind = "place" /\ state.policy.granted =>
           state.stages[state.policy.order].stage # "None"

PipelineInv ==
    /\ JournalOf(PipelineCommands) /\ PipelineShape
    /\ AllHeld /\ Registry /\ PolicyInStep
    /\ \A o \in PTR!Orders : Booked(o)

\* What was filled and confirmed is an amount, and no more is confirmed than filled.
LEMMA ConfirmedWasFilled ==
    ASSUME NEW fills \in Seq(Nat \ {0}), NEW o, NEW posted
    PROVE  /\ FilledIn(fills) \in Int /\ ConfirmedIn(o, fills, posted) \in Int
           /\ ConfirmedIn(o, fills, posted) <= FilledIn(fills)
  <1> DEFINE n == Len(fills)
             g == [i \in 1..n |-> IF FillOf(o, i, fills) \in posted THEN fills[i] ELSE 0]
  <1>1. n \in Nat /\ \A i \in 1..n : fills[i] \in Nat
    OBVIOUS
  <1>2. \A i \in 1..n : fills[i] \in Int /\ g[i] \in Int /\ g[i] <= fills[i]
    BY <1>1
  <1>3. ConfirmedIn(o, fills, posted) = SumTo(g, n) /\ FilledIn(fills) = SumTo(fills, n)
    BY DEF ConfirmedIn, FilledIn
  <1> HIDE DEF g, n
  <1> QED BY <1>1, <1>2, <1>3, SumIsInteger, SumsOfSmaller

\* A confirmation more of a fill that had none.
LEMMA ConfirmedOneMore ==
    ASSUME NEW fills \in Seq(Nat \ {0}), NEW o, NEW posted, NEW k \in 1..Len(fills),
           FillOf(o, k, fills) \notin posted
    PROVE  ConfirmedIn(o, fills, posted \cup {FillOf(o, k, fills)})
           = ConfirmedIn(o, fills, posted) + fills[k]
  <1> DEFINE n == Len(fills)
             more == posted \cup {FillOf(o, k, fills)}
             f == [i \in 1..n |-> IF FillOf(o, i, fills) \in posted THEN fills[i] ELSE 0]
             g == [i \in 1..n |-> IF FillOf(o, i, fills) \in more THEN fills[i] ELSE 0]
  <1>1. n \in Nat /\ k \in 1..n /\ fills[k] \in Int /\ \A i \in 1..n : f[i] \in Int
    OBVIOUS
  <1>2. \A i \in 1..n : i # k => FillOf(o, i, fills) # FillOf(o, k, fills)
    BY DEF FillOf
  <1>3. f[k] = 0 /\ g[k] = fills[k] /\ \A i \in 1..n : i # k => g[i] = f[i]
    BY <1>2
  <1>4. g[k] = f[k] + fills[k]
    BY <1>1, <1>3
  <1>5. /\ ConfirmedIn(o, fills, posted) = SumTo(f, n)
        /\ ConfirmedIn(o, fills, posted \cup {FillOf(o, k, fills)}) = SumTo(g, n)
    BY DEF ConfirmedIn
  <1> DEFINE d == fills[k]
  <1>6. d \in Int /\ g[k] = f[k] + d
    BY <1>1, <1>4
  <1> HIDE DEF f, g, n, d
  <1>7. \A i \in 1..n : f[i] \in Int
    BY <1>1
  <1>8. \A i \in 1..n : i # k => g[i] = f[i]
    BY <1>3
  <1>9. SumTo(g, n) = SumTo(f, n) + d
    BY <1>1, <1>6, <1>7, <1>8, SumOfChanged
  <1> QED BY <1>5, <1>9 DEF d

\* A confirmation of a fill of another order.
LEMMA ConfirmedOfOther ==
    ASSUME NEW fills \in Seq(Nat \ {0}), NEW o, NEW posted, NEW h, h.order # o
    PROVE  ConfirmedIn(o, fills, posted \cup {h}) = ConfirmedIn(o, fills, posted)
  <1>1. \A i \in 1..Len(fills) : FillOf(o, i, fills) # h
    BY DEF FillOf
  <1>2. \A i \in 1..Len(fills) : FillOf(o, i, fills) \in posted \cup {h} <=> FillOf(o, i, fills) \in posted
    BY <1>1
  <1>3. [i \in 1..Len(fills) |-> IF FillOf(o, i, fills) \in posted \cup {h} THEN fills[i] ELSE 0]
        = [i \in 1..Len(fills) |-> IF FillOf(o, i, fills) \in posted THEN fills[i] ELSE 0]
    BY <1>2
  <1> QED BY <1>3 DEF ConfirmedIn

\* A fill more, which nothing confirmed yet.
LEMMA FilledOneMore ==
    ASSUME NEW fills \in Seq(Nat \ {0}), NEW o, NEW posted, NEW q \in Nat \ {0},
           \A h \in posted : h.order = o => h.index \in 1..Len(fills)
    PROVE  /\ Append(fills, q) \in Seq(Nat \ {0})
           /\ FilledIn(Append(fills, q)) = FilledIn(fills) + q
           /\ ConfirmedIn(o, Append(fills, q), posted) = ConfirmedIn(o, fills, posted)
  <1> DEFINE more == Append(fills, q)
             n == Len(fills)
             f == [i \in 1..n |-> IF FillOf(o, i, fills) \in posted THEN fills[i] ELSE 0]
             g == [i \in 1..(n + 1) |-> IF FillOf(o, i, more) \in posted THEN more[i] ELSE 0]
  <1>1. /\ n \in Nat /\ more \in Seq(Nat \ {0}) /\ Len(more) = n + 1
        /\ more[n + 1] = q /\ \A i \in 1..n : more[i] = fills[i]
    OBVIOUS
  <1>2. /\ FilledIn(fills) = SumTo(fills, n) /\ FilledIn(more) = SumTo(more, n + 1)
        /\ ConfirmedIn(o, fills, posted) = SumTo(f, n)
        /\ ConfirmedIn(o, more, posted) = SumTo(g, n + 1)
    BY <1>1 DEF FilledIn, ConfirmedIn
  <1>3. SumTo(more, n + 1) = SumTo(more, n) + q /\ SumTo(g, n + 1) = SumTo(g, n) + g[n + 1]
    BY <1>1, SumRecursion
  <1>4. SumTo(more, n) = SumTo(fills, n)
    BY <1>1, SumsOfEquals
  <1>5. \A i \in 1..n : FillOf(o, i, more) = FillOf(o, i, fills)
    BY <1>1 DEF FillOf
  <1>6. \A i \in 1..n : g[i] = f[i]
    BY <1>1, <1>5
  <1>7. FillOf(o, n + 1, more) \notin posted
    BY <1>1 DEF FillOf
  <1>8. g[n + 1] = 0
    BY <1>1, <1>7
  <1>9. SumTo(g, n) = SumTo(f, n) /\ SumTo(f, n) \in Int
    <2>1. \A i \in 1..n : f[i] \in Int
      OBVIOUS
    <2> HIDE DEF f, g
    <2> QED BY <1>1, <1>6, <2>1, SumsOfEquals, SumIsInteger
  <1> HIDE DEF f, g, more
  <1>10. SumTo(g, n + 1) = SumTo(f, n)
    BY ONLY <1>3, <1>8, <1>9
  <1> QED BY <1>1, <1>2, <1>3, <1>4, <1>10 DEF more

\* Nothing is filled of an order without fills.
LEMMA FilledOfNone ==
    ASSUME NEW o, NEW posted
    PROVE  FilledIn(<<>>) = 0 /\ ConfirmedIn(o, <<>>, posted) = 0 /\ <<>> \in Seq(Nat \ {0})
  <1>1. Len(<<>>) = 0 /\ <<>> \in Seq(Nat \ {0})
    OBVIOUS
  <1> QED BY <1>1, SumRecursion DEF FilledIn, ConfirmedIn

\* Every order has its record, its fills and its stage.
LEMMA OrdersShaped ==
    ASSUME PipelineShape, NEW o \in PTR!Orders
    PROVE  /\ IsPaperOrder(state.orders[o]) /\ IsStage(state.stages[o])
           /\ state.orders[o].fills \in Seq(Nat \ {0})
  <1>1. IsPaperOrder(state.orders[o]) /\ IsStage(state.stages[o])
    BY DEF PipelineShape
  <1> DEFINE x == state.orders[o]
  <1>2. IsPaperOrder(x)
    BY <1>1
  <1> HIDE DEF x
  <1>3. x.fills \in Seq(Nat \ {0})
    BY <1>2 DEF IsPaperOrder
  <1> QED BY <1>1, <1>3 DEF x

\* The amounts that the properties speak of.
LEMMA AmountsAgree ==
    ASSUME PipelineShape, NEW o \in PTR!Orders
    PROVE  /\ PTR!Filled(o) = FilledIn(state.orders[o].fills)
           /\ PTR!Confirmed(o) = ConfirmedIn(o, state.orders[o].fills, state.posted)
  <1> DEFINE fills == state.orders[o].fills
             g == [i \in 1..Len(fills) |-> IF PTR!Handoff(o, i) \in state.posted THEN fills[i] ELSE 0]
  <1>1. fills \in Seq(Nat \ {0}) /\ Len(fills) \in Nat
    BY OrdersShaped
  <1>2. PTR!Filled(o) = FilledIn(fills)
    BY TotalIsSum DEF PTR!Filled, FilledIn
  <1>3. PTR!Confirmed(o) = SumTo(g, Len(g))
    BY TotalIsSum DEF PTR!Confirmed
  <1>4. Len(g) = Len(fills)
    <2>1. g = [i \in 1..Len(fills) |-> g[i]]
      OBVIOUS
    <2> HIDE DEF g, fills
    <2> QED BY <1>1, <2>1, PositionsMakeSequence
  <1>5. ConfirmedIn(o, fills, state.posted) = SumTo(g, Len(fills))
    BY DEF ConfirmedIn, FillOf, PTR!Handoff
  <1> QED BY <1>2, <1>3, <1>4, <1>5

\* The invariant implies the properties of the runtime.
LEMMA PipelineInvSuffices ==
    ASSUME PipelineInv
    PROVE  PTR!OpenOrdersAreBacked /\ PTR!ConfirmationsAreFills /\ PTR!PolicyFollowsExecution
  <1>1. PTR!OpenOrdersAreBacked
    <2> SUFFICES ASSUME NEW o \in PTR!Orders, PTR!Open(o)
                 PROVE  /\ state.reservations[o].status = "Active" /\ o \in state.reserved
                        /\ state.reservations[o].left = Quantities[o] - PTR!Confirmed(o)
      BY DEF PTR!OpenOrdersAreBacked
    <2>1. Held(o, state.reservations[o], state.orders[o], state.posted, state.reserved)
      BY DEF PipelineInv, AllHeld
    <2> QED BY <2>1, AmountsAgree DEF Held, PTR!Open, PipelineInv
  <1>2. PTR!ConfirmationsAreFills
    <2>1. ASSUME NEW o \in PTR!Orders PROVE PTR!Confirmed(o) <= Quantities[o]
      <3>1. FilledIn(state.orders[o].fills) <= Quantities[o] /\ Quantities[o] \in Nat
        BY QuantitiesAssumption DEF PipelineInv, AllHeld, Held, PTR!Orders
      <3>2. state.orders[o].fills \in Seq(Nat \ {0})
        BY OrdersShaped DEF PipelineInv
      <3>3. PTR!Confirmed(o) = ConfirmedIn(o, state.orders[o].fills, state.posted)
        BY AmountsAgree DEF PipelineInv
      <3> QED BY <3>1, <3>2, <3>3, ConfirmedWasFilled
    <2>2. ASSUME NEW o \in PTR!Orders PROVE PTR!PostedFor(o) \subseteq PTR!Handoffs(o)
      <3> SUFFICES ASSUME NEW h \in state.posted, h.order = o PROVE h \in PTR!Handoffs(o)
        BY DEF PTR!PostedFor
      <3>1. /\ h.index \in 1..Len(state.orders[o].fills)
            /\ h = FillOf(o, h.index, state.orders[o].fills)
        BY DEF PipelineInv, Registry
      <3>2. DOMAIN state.orders[o].fills = 1..Len(state.orders[o].fills)
        BY OrdersShaped DEF PipelineInv
      <3> QED BY <3>1, <3>2 DEF PTR!Handoffs, PTR!Handoff, FillOf
    <2>3. \A o \in PTR!Orders :
              /\ PTR!PostedFor(o) = {p.command.trade : p \in PTR!Confirms(o)}
              /\ Cardinality(PTR!PostedFor(o)) = Cardinality(PTR!Confirms(o))
      BY DEF PipelineInv, Booked
    <2>4. state.pending \subseteq state.registered \ state.posted
      BY DEF PipelineInv, Registry
    <2>5. \A S : PTR!Cardinality(S) = Cardinality(S)
      BY DEF PTR!Cardinality, Cardinality
    <2> QED BY <2>1, <2>2, <2>3, <2>4, <2>5 DEF PTR!ConfirmationsAreFills
  <1>3. PTR!PolicyFollowsExecution
    BY DEF PipelineInv, PolicyInStep, InStep, PTR!PolicyFollowsExecution
  <1> QED BY <1>1, <1>2, <1>3

\* A step changes these fields only.
Changes(fields) ==
    /\ state' = [f \in PipelineFields |-> state'[f]]
    /\ \A f \in PipelineFields \ fields : state'[f] = state[f]

\* The fields that no other part is held against.
SteadyFields == {"version", "trades", "gate", "risk", "approved", "fault"}

ConfirmsSame == \A o \in PTR!Orders : PTR!Confirms(o)' = PTR!Confirms(o)

\* A command that is no confirmation does not join them.
LEMMA ConfirmsKept ==
    ASSUME NEW c, c.op # "Confirm", NEW s, processed' = processed \cup {[command |-> c, status |-> s]}
    PROVE  ConfirmsSame
  <1> DEFINE r == [command |-> c, status |-> s]
  <1>1. r.command.op # "Confirm" /\ processed' = processed \cup {r}
    OBVIOUS
  <1> HIDE DEF r
  <1> QED BY <1>1 DEF ConfirmsSame, PTR!Confirms

\* Without a confirmation the books stay what they are.
LEMMA BookedKept ==
    ASSUME \A o \in PTR!Orders : Booked(o), ConfirmsSame, state'.posted = state.posted
    PROVE  \A o \in PTR!Orders : Booked(o)'
  <1> SUFFICES ASSUME NEW o \in PTR!Orders PROVE Booked(o)'
    OBVIOUS
  <1>1. PTR!PostedFor(o)' = PTR!PostedFor(o) /\ PTR!Confirms(o)' = PTR!Confirms(o)
    BY DEF PTR!PostedFor, ConfirmsSame
  <1> QED BY <1>1 DEF Booked

\* A step that leaves the parts which are held against each other alone.
LEMMA InvForSteady ==
    ASSUME PipelineInv, JournalOf(PipelineCommands)', ConfirmsSame, Changes(SteadyFields),
           state'.fault \in FaultPoints \cup {"none"}
    PROVE  PipelineInv'
  <1>1. /\ state'.reservations = state.reservations /\ state'.orders = state.orders
        /\ state'.stages = state.stages /\ state'.policy = state.policy
        /\ state'.posted = state.posted /\ state'.reserved = state.reserved
        /\ state'.registered = state.registered /\ state'.pending = state.pending
    BY DEF Changes, SteadyFields, PipelineFields
  <1>2. PipelineShape'
    BY <1>1 DEF PipelineInv, PipelineShape, Changes
  <1>3. AllHeld'
    BY <1>1 DEF PipelineInv, AllHeld
  <1>4. Registry'
    BY <1>1 DEF PipelineInv, Registry
  <1>5. PolicyInStep'
    BY <1>1 DEF PipelineInv, PolicyInStep
  <1>6. \A o \in PTR!Orders : Booked(o)'
    BY <1>1, BookedKept DEF PipelineInv
  <1> QED BY <1>2, <1>3, <1>4, <1>5, <1>6 DEF PipelineInv

\* A step that changes one order and its stage.
LEMMA InvForOrder ==
    ASSUME PipelineInv, JournalOf(PipelineCommands)', ConfirmsSame,
           Changes({"policy", "stages", "orders"}),
           NEW o \in PTR!Orders, NEW s, NEW x, IsStage(s), IsPaperOrder(x),
           state'.stages = [state.stages EXCEPT ![o] = s],
           state'.orders = [state.orders EXCEPT ![o] = x],
           InStep(s.stage, x.status),
           Held(o, state.reservations[o], x, state.posted, state.reserved),
           Len(state.orders[o].fills) <= Len(x.fills),
           \A i \in 1..Len(state.orders[o].fills) : x.fills[i] = state.orders[o].fills[i],
           s.stage = "None" => state.stages[o].stage = "None",
           \/ state'.policy = state.policy
           \/ ~(state'.policy.kind = "place" /\ state'.policy.granted)
           \/ state'.policy.order = o /\ s.stage # "None"
    PROVE  PipelineInv'
  <1>1. /\ state'.reservations = state.reservations /\ state'.fault = state.fault
        /\ state'.posted = state.posted /\ state'.reserved = state.reserved
        /\ state'.registered = state.registered /\ state'.pending = state.pending
    BY DEF Changes, PipelineFields
  <1>2. /\ state'.stages[o] = s /\ state'.orders[o] = x
        /\ \A p \in PTR!Orders : p # o => state'.stages[p] = state.stages[p]
                                          /\ state'.orders[p] = state.orders[p]
        /\ state'.orders = [p \in PTR!Orders |-> state'.orders[p]]
        /\ state'.stages = [p \in PTR!Orders |-> state'.stages[p]]
    BY DEF PipelineInv, PipelineShape
  <1>3. PipelineShape'
    <2>1. \A p \in PTR!Orders : IsPaperOrder(state'.orders[p]) /\ IsStage(state'.stages[p])
      BY <1>2 DEF PipelineInv, PipelineShape
    <2> QED BY ZenonT(60), <1>1, <1>2, <2>1 DEF PipelineInv, PipelineShape, Changes
  <1>4. AllHeld'
    BY <1>1, <1>2 DEF PipelineInv, AllHeld
  <1>5. Registry'
    <2>1. ASSUME NEW h \in state.registered
          PROVE  /\ h.index \in 1..Len(state'.orders[h.order].fills)
                 /\ h = FillOf(h.order, h.index, state'.orders[h.order].fills)
      <3>1. /\ h.order \in PTR!Orders /\ h.index \in 1..Len(state.orders[h.order].fills)
            /\ h = FillOf(h.order, h.index, state.orders[h.order].fills)
        BY DEF PipelineInv, Registry
      <3>2. CASE h.order # o
        BY <1>2, <3>1, <3>2
      <3>3. CASE h.order = o
        <4>1. Len(x.fills) \in Nat /\ Len(state.orders[o].fills) \in Nat
          BY OrdersShaped DEF IsPaperOrder, PipelineInv
        <4>2. h.index \in 1..Len(x.fills)
          BY <3>1, <3>3, <4>1
        <4>3. FillOf(o, h.index, x.fills) = FillOf(o, h.index, state.orders[o].fills)
          BY <3>1, <3>3 DEF FillOf
        <4> QED BY <1>2, <3>1, <3>3, <4>2, <4>3
      <3> QED BY <3>2, <3>3
    <2> QED BY <1>1, <2>1 DEF PipelineInv, Registry
  <1>6. PolicyInStep'
    <2>1. \A p \in PTR!Orders : InStep(state'.stages[p].stage, state'.orders[p].status)
      BY <1>2 DEF PipelineInv, PolicyInStep
    <2>2. \A p : state.stages[p].stage # "None" => state'.stages[p].stage # "None"
      BY <1>2 DEF PipelineInv, PipelineShape
    <2>3. state'.policy.kind = "place" /\ state'.policy.granted =>
              state'.stages[state'.policy.order].stage # "None"
      BY <1>2, <2>2 DEF PipelineInv, PolicyInStep
    <2> QED BY <2>1, <2>3 DEF PolicyInStep
  <1>7. \A p \in PTR!Orders : Booked(p)'
    BY <1>1, BookedKept DEF PipelineInv
  <1> QED BY <1>3, <1>4, <1>5, <1>6, <1>7 DEF PipelineInv

\* A step that changes what is reserved for one order.
LEMMA InvForReservation ==
    ASSUME PipelineInv, JournalOf(PipelineCommands)', ConfirmsSame,
           Changes({"version", "reservations", "reserved"}),
           NEW o \in PTR!Orders, NEW r,
           state'.reservations = [state.reservations EXCEPT ![o] = r],
           \A p : p # o => (p \in state'.reserved <=> p \in state.reserved),
           Held(o, r, state.orders[o], state.posted, state'.reserved)
    PROVE  PipelineInv'
  <1>1. /\ state'.orders = state.orders /\ state'.stages = state.stages
        /\ state'.policy = state.policy /\ state'.posted = state.posted /\ state'.fault = state.fault
        /\ state'.registered = state.registered /\ state'.pending = state.pending
    BY DEF Changes, PipelineFields
  <1>2. /\ state'.reservations[o] = r
        /\ \A p \in PTR!Orders : p # o => state'.reservations[p] = state.reservations[p]
        /\ state'.reservations = [p \in PTR!Orders |-> state'.reservations[p]]
    BY DEF PipelineInv, PipelineShape
  <1>3. PipelineShape'
    BY <1>1, <1>2 DEF PipelineInv, PipelineShape, Changes
  <1>4. AllHeld'
    <2>1. ASSUME NEW p \in PTR!Orders, p # o
          PROVE  Held(p, state'.reservations[p], state.orders[p], state.posted, state'.reserved)
      BY <1>2, <2>1 DEF PipelineInv, AllHeld, Held
    <2> QED BY <1>1, <1>2, <2>1 DEF AllHeld
  <1>5. Registry' /\ PolicyInStep'
    BY <1>1 DEF PipelineInv, Registry, PolicyInStep
  <1>6. \A p \in PTR!Orders : Booked(p)'
    BY <1>1, BookedKept DEF PipelineInv
  <1> QED BY <1>3, <1>4, <1>5, <1>6 DEF PipelineInv

\* The commands that only read what is held against each other, and the faults.
LEMMA SteadySteps ==
    ASSUME PipelineCommandsTyped, PipelineShape, NEW c \in PipelineCommands,
           \/ PTR!TripFault(c, PTR!Point(c)) \/ PTR!OtherAccounting(c) \/ PTR!ObserveTrade(c)
           \/ PTR!Reconcile(c) \/ PTR!Assess(c) \/ PTR!InjectFault(c)
    PROVE  /\ Changes(SteadyFields) /\ state'.fault \in FaultPoints \cup {"none"}
           /\ c.op # "Confirm"
  <1>1. CASE PTR!TripFault(c, PTR!Point(c))
    <2>1. state' = [state EXCEPT !.fault = "none"] /\ state.fault = PTR!Point(c)
      BY <1>1 DEF PTR!TripFault, PTR!Tripped
    <2>2. c.op # "Confirm"
      BY <2>1 DEF PTR!Point, PipelineShape, FaultPoints
    <2> QED BY <2>1, <2>2 DEF PipelineShape, Changes, SteadyFields, PipelineFields
  <1>2. CASE PTR!OtherAccounting(c)
    <2>1. c.op = "Deposit" /\ state' = [state EXCEPT !.version = @ + 1]
      BY <1>2 DEF PTR!OtherAccounting
    <2> QED BY <2>1 DEF PipelineShape, Changes, SteadyFields, PipelineFields
  <1>3. CASE PTR!ObserveTrade(c)
    <2>1. PICK g, t : c.op = "ObserveTrade" /\ state' = [state EXCEPT !.gate = g, !.trades = t]
      BY <1>3 DEF PTR!ObserveTrade, PTR!CanObserveTrade
    <2> QED BY <2>1 DEF PipelineShape, Changes, SteadyFields, PipelineFields
  <1>4. CASE PTR!Reconcile(c)
    <2>1. PICK g : c.op = "Reconcile" /\ state' = [state EXCEPT !.gate = g]
      BY <1>4 DEF PTR!Reconcile, PTR!CanReconcile
    <2> QED BY <2>1 DEF PipelineShape, Changes, SteadyFields, PipelineFields
  <1>5. CASE PTR!Assess(c)
    <2>1. PICK r, a : c.op = "Risk" /\ state' = [state EXCEPT !.risk = r, !.approved = a]
      BY <1>5 DEF PTR!Assess
    <2> QED BY <2>1 DEF PipelineShape, Changes, SteadyFields, PipelineFields
  <1>6. CASE PTR!InjectFault(c)
    <2>1. c.op = "InjectFault" /\ state' = [state EXCEPT !.fault = c.fault]
      BY <1>6 DEF PTR!InjectFault
    <2>2. c.fault \in FaultPoints
      BY <2>1 DEF PipelineCommandsTyped
    <2> QED BY <2>1, <2>2 DEF PipelineShape, Changes, SteadyFields, PipelineFields
  <1> QED BY <1>1, <1>2, <1>3, <1>4, <1>5, <1>6

\* What apply makes of an accepted command.
Accepts(c) ==
    /\ ~(\E p \in processed : p.command.id = c.id)
    /\ \E s : processed' = processed \cup {[command |-> c, status |-> s]}
    /\ PTR!Handler(c)

\* What apply does to the runtime.
LEMMA PipelineApplies ==
    ASSUME NEW c, PTR!Apply(c)
    PROVE  Accepts(c) \/ UNCHANGED <<state, processed>>
  <1>1. CASE PTR!Eligible(c) /\ PTR!Handler(c)
    <2>1. \E s : PTR!Decide(c, s)
      BY <1>1 DEF PTR!Handler, PTR!TripFault, PTR!Reserve, PTR!Confirm, PTR!Release,
           PTR!OtherAccounting, PTR!ObserveTrade, PTR!Reconcile, PTR!Assess, PTR!Authorize,
           PTR!AuthorizeCancel, PTR!ObserveMode, PTR!MarkDirectly, PTR!Submit, PTR!RequestCancel,
           PTR!Observe, PTR!RegisterHandoff, PTR!InjectFault
    <2> QED BY SMTT(30), <1>1, <2>1 DEF Accepts, PTR!Eligible, PTR!Known, PTR!Decide
  <1>2. CASE (PTR!RepeatDecision(c) \/ PTR!HaltOn(c, PTR!Possible(c)) \/ PTR!AnswerHalted)
             /\ UNCHANGED state
    BY <1>2 DEF PTR!RepeatDecision, PTR!HaltOn, PTR!AnswerHalted
  <1> QED BY <1>1, <1>2 DEF PTR!Apply, PTR!ApplyIdFirst

\* A command about a known order.
LEMMA OrderKnown ==
    ASSUME PipelineCommandsTyped, NEW c \in PipelineCommands
    PROVE  c.order \in PTR!Orders
  BY DEF PipelineCommandsTyped, PTR!Orders

\* Reserving preserves the invariant.
LEMMA InvForReserve ==
    ASSUME PipelineInv, JournalOf(PipelineCommands)', ConfirmsSame, PipelineCommandsTyped,
           NEW c \in PipelineCommands, PTR!Reserve(c)
    PROVE  PipelineInv'
  <1> DEFINE o == c.order
             r == [status |-> "Active", left |-> Quantities[o]]
  <1>1. /\ o \in PTR!Orders /\ state.reservations[o].status = "None"
        /\ state' = [state EXCEPT !.version = @ + 1, !.reserved = @ \cup {o}, !.reservations[o] = r]
    BY OrderKnown DEF PTR!Reserve, PTR!CanReserve
  <1>2. r.status = "Active" /\ r.left = Quantities[o]
    OBVIOUS
  <1> HIDE DEF o, r
  <1>3. /\ Changes({"version", "reservations", "reserved"})
        /\ state'.reserved = state.reserved \cup {o}
        /\ state'.reservations = [state.reservations EXCEPT ![o] = r]
    BY <1>1 DEF PipelineInv, PipelineShape, Changes, PipelineFields
  <1>4. Held(o, state.reservations[o], state.orders[o], state.posted, state.reserved)
    BY <1>1 DEF PipelineInv, AllHeld
  <1>5. ConfirmedIn(o, state.orders[o].fills, state.posted) = 0 /\ Quantities[o] \in Nat
    BY <1>1, <1>4, QuantitiesAssumption DEF Held, PTR!Orders
  <1>6. state.orders[o].status \notin {"Active", "CancelPending"}
    BY <1>1, <1>4 DEF Held
  <1>7. Held(o, r, state.orders[o], state.posted, state'.reserved)
    BY <1>2, <1>3, <1>4, <1>5, <1>6 DEF Held
  <1> QED BY <1>1, <1>3, <1>7, InvForReservation

\* Releasing preserves the invariant: the order cannot be filled.
LEMMA InvForRelease ==
    ASSUME PipelineInv, JournalOf(PipelineCommands)', ConfirmsSame, PipelineCommandsTyped,
           NEW c \in PipelineCommands, PTR!Release(c)
    PROVE  PipelineInv'
  <1> DEFINE o == c.order
             r == [status |-> "Released", left |-> 0]
  <1>1. /\ o \in PTR!Orders /\ state.orders[o].status \in {"None", "Canceled", "Rejected"}
        /\ state' = [state EXCEPT !.version = @ + 1, !.reserved = @ \ {o}, !.reservations[o] = r]
    BY OrderKnown DEF PTR!Release, PTR!CanRelease
  <1>2. r.status = "Released"
    OBVIOUS
  <1> HIDE DEF o, r
  <1>3. /\ Changes({"version", "reservations", "reserved"})
        /\ state'.reserved = state.reserved \ {o}
        /\ state'.reservations = [state.reservations EXCEPT ![o] = r]
    BY <1>1 DEF PipelineInv, PipelineShape, Changes, PipelineFields
  <1>4. Held(o, state.reservations[o], state.orders[o], state.posted, state.reserved)
    BY <1>1 DEF PipelineInv, AllHeld
  <1>5. Held(o, r, state.orders[o], state.posted, state'.reserved)
    BY <1>1, <1>2, <1>3, <1>4 DEF Held
  <1> QED BY <1>1, <1>3, <1>5, InvForReservation

\* Confirming a handoff preserves the invariant: it is a fill that was not confirmed
\* before, so that what is left stays what is not confirmed, and nothing of the order is
\* left to be filled when nothing is left of its reservation.
LEMMA InvForConfirm ==
    ASSUME PipelineInv, JournalOf(PipelineCommands)', NEW c \in PipelineCommands, Accepts(c),
           PTR!Confirm(c)
    PROVE  PipelineInv'
  <1> DEFINE t == c.trade
             o == t.order
             left == state.reservations[o].left - t.quantity
             r == [status |-> IF left = 0 THEN "Consumed" ELSE "Active", left |-> left]
             held == IF left = 0 THEN state.reserved \ {o} ELSE state.reserved
             fills == state.orders[o].fills
  <1>1. /\ t \in state.pending /\ state.reservations[o].status = "Active" /\ c.op = "Confirm"
        /\ state' = [state EXCEPT !.version = @ + 1, !.posted = @ \cup {t}, !.pending = @ \ {t},
                                  !.reserved = held, !.reservations[o] = r]
    BY DEF PTR!Confirm, PTR!CanConfirm
  <1>2. /\ r.status = (IF left = 0 THEN "Consumed" ELSE "Active") /\ r.left = left
        /\ left = state.reservations[o].left - t.quantity
        /\ held = IF left = 0 THEN state.reserved \ {o} ELSE state.reserved
    OBVIOUS
  <1>3. /\ t \in state.registered /\ t \notin state.posted /\ o \in PTR!Orders
        /\ t.index \in 1..Len(fills) /\ t = FillOf(o, t.index, fills)
    BY <1>1 DEF PipelineInv, Registry
  <1>4. fills \in Seq(Nat \ {0}) /\ Quantities[o] \in Nat /\ t.quantity = fills[t.index]
    BY <1>3, OrdersShaped, QuantitiesAssumption DEF PipelineInv, PTR!Orders, FillOf
  <1> DEFINE p == [command |-> c, status |-> "Applied"]
  <1>5. p.command = c /\ processed' = processed \cup {p} /\ p \notin processed
    BY DEF Accepts, PTR!Confirm, PTR!Decide
  <1> HIDE DEF left, r, held, p
  <1>6. /\ state' = [f \in PipelineFields |-> state'[f]]
        /\ state'.posted = state.posted \cup {t} /\ state'.pending = state.pending \ {t}
        /\ state'.reserved = held /\ state'.reservations = [state.reservations EXCEPT ![o] = r]
        /\ state'.orders = state.orders /\ state'.stages = state.stages
        /\ state'.policy = state.policy /\ state'.registered = state.registered
        /\ state'.fault = state.fault
    BY <1>1 DEF PipelineInv, PipelineShape, PipelineFields
  <1>7. /\ state'.reservations[o] = r
        /\ \A q \in PTR!Orders : q # o => state'.reservations[q] = state.reservations[q]
        /\ state'.reservations = [q \in PTR!Orders |-> state'.reservations[q]]
    BY <1>3, <1>6 DEF PipelineInv, PipelineShape
  <1>8. PipelineShape'
    BY <1>6, <1>7 DEF PipelineInv, PipelineShape
  <1>9. AllHeld'
    <2>1. Held(o, r, state.orders[o], state.posted \cup {t}, held)
      <3> DEFINE confirmed == ConfirmedIn(o, fills, state.posted)
                 confirms == ConfirmedIn(o, fills, state.posted \cup {t})
                 filled == FilledIn(fills)
      <3>1. Held(o, state.reservations[o], state.orders[o], state.posted, state.reserved)
        BY <1>3 DEF PipelineInv, AllHeld
      <3>2. /\ state.reservations[o].left = Quantities[o] - confirmed
            /\ filled <= Quantities[o] /\ o \in state.reserved
            /\ state.orders[o].status \in {"Active", "CancelPending"} => filled < Quantities[o]
            /\ state.orders[o].status = "None" => fills = <<>>
        BY <1>1, <3>1 DEF Held
      <3>3. confirms = confirmed + fills[t.index]
        BY <1>3, <1>4, ConfirmedOneMore
      <3>4. confirmed \in Int /\ confirms \in Int /\ confirms <= filled /\ filled \in Int
        BY <1>4, ConfirmedWasFilled
      <3>5. fills[t.index] \in Int /\ Quantities[o] \in Nat
        BY SMTT(30), <1>3, <1>4
      <3> HIDE DEF confirmed, confirms, filled
      <3>6. left = Quantities[o] - confirms
        <4> DEFINE k == fills[t.index]
                   q == Quantities[o]
        <4>1. left = (q - confirmed) - k
          BY ZenonT(60), <1>2, <1>4, <3>2
        <4>2. confirms = confirmed + k /\ k \in Int /\ q \in Int
          BY <3>3, <3>5
        <4> HIDE DEF k, q
        <4>3. left = q - confirms
          BY <3>4, <4>1, <4>2
        <4> QED BY <4>3 DEF q
      <3>7. left = 0 => ~(filled < Quantities[o])
        BY <3>4, <3>5, <3>6
      <3> USE DEF confirms, filled
      <3>8. o \in held <=> r.status = "Active"
        BY <1>2, <3>2
      <3>9. r.status = "Active" => r.left = Quantities[o] - confirms
        BY <1>2, <3>6
      <3>10. state.orders[o].status \in {"Active", "CancelPending"} =>
                 r.status = "Active" /\ filled < Quantities[o]
        BY <1>2, <3>2, <3>7
      <3>11. r.status # "None"
        BY <1>2
      <3> QED BY <3>2, <3>8, <3>9, <3>10, <3>11 DEF Held
    <2>2. ASSUME NEW q \in PTR!Orders, q # o
          PROVE  Held(q, state.reservations[q], state.orders[q], state.posted \cup {t}, held)
      <3>1. Held(q, state.reservations[q], state.orders[q], state.posted, state.reserved)
        BY DEF PipelineInv, AllHeld
      <3>2. state.orders[q].fills \in Seq(Nat \ {0})
        BY OrdersShaped DEF PipelineInv
      <3>3. ConfirmedIn(q, state.orders[q].fills, state.posted \cup {t})
            = ConfirmedIn(q, state.orders[q].fills, state.posted)
        BY <2>2, <3>2, ConfirmedOfOther
      <3>4. q \in held <=> q \in state.reserved
        BY <1>2, <2>2
      <3> QED BY <3>1, <3>3, <3>4 DEF Held
    <2> QED BY <1>6, <1>7, <2>1, <2>2 DEF AllHeld
  <1>10. Registry'
    BY <1>1, <1>3, <1>6 DEF PipelineInv, Registry
  <1>11. PolicyInStep'
    BY <1>6 DEF PipelineInv, PolicyInStep
  <1>12. ASSUME NEW q \in PTR!Orders PROVE Booked(q)'
    <2>1. Booked(q)
      BY DEF PipelineInv
    <2>2. CASE q = o
      <3>1. PTR!PostedFor(q)' = PTR!PostedFor(q) \cup {t} /\ t \notin PTR!PostedFor(q)
        BY <1>3, <1>6, <2>2 DEF PTR!PostedFor
      <3>2. PTR!Confirms(q)' = PTR!Confirms(q) \cup {p} /\ p \notin PTR!Confirms(q)
        BY <1>1, <1>5, <2>2 DEF PTR!Confirms
      <3>3. {z.command.trade : z \in PTR!Confirms(q)'}
            = {z.command.trade : z \in PTR!Confirms(q)} \cup {t}
        BY <1>5, <3>2
      <3>4. /\ IsFiniteSet(PTR!PostedFor(q)') /\ IsFiniteSet(PTR!Confirms(q)')
            /\ Cardinality(PTR!PostedFor(q)') = Cardinality(PTR!Confirms(q)')
        <4> DEFINE S == PTR!PostedFor(q)
                   T == PTR!Confirms(q)
        <4>1. IsFiniteSet(S) /\ IsFiniteSet(T) /\ Cardinality(S) = Cardinality(T)
          BY <2>1 DEF Booked
        <4>2. t \notin S /\ p \notin T
          BY <3>1, <3>2
        <4> HIDE DEF S, T
        <4>3. IsFiniteSet(S \cup {t}) /\ Cardinality(S \cup {t}) = Cardinality(S) + 1
          BY <4>1, <4>2, FS_AddElement
        <4>4. IsFiniteSet(T \cup {p}) /\ Cardinality(T \cup {p}) = Cardinality(T) + 1
          BY <4>1, <4>2, FS_AddElement
        <4>5. PTR!PostedFor(q)' = S \cup {t} /\ PTR!Confirms(q)' = T \cup {p}
          BY <3>1, <3>2 DEF S, T
        <4> QED BY <4>1, <4>3, <4>4, <4>5
      <3>5. PTR!PostedFor(q)' = {z.command.trade : z \in PTR!Confirms(q)'}
        BY <2>1, <3>1, <3>3 DEF Booked
      <3> QED BY <3>4, <3>5 DEF Booked
    <2>3. CASE q # o
      <3>1. PTR!PostedFor(q)' = PTR!PostedFor(q)
        BY <1>6, <2>3 DEF PTR!PostedFor
      <3>2. PTR!Confirms(q)' = PTR!Confirms(q)
        BY <1>5, <2>3 DEF PTR!Confirms
      <3> QED BY <2>1, <3>1, <3>2 DEF Booked
    <2> QED BY <2>2, <2>3
  <1> QED BY <1>8, <1>9, <1>10, <1>11, <1>12 DEF PipelineInv

\* Registering a fill preserves the invariant.
LEMMA InvForRegistration ==
    ASSUME PipelineInv, JournalOf(PipelineCommands)', ConfirmsSame, PipelineCommandsTyped,
           NEW c \in PipelineCommands, PTR!RegisterHandoff(c)
    PROVE  PipelineInv'
  <1> DEFINE o == c.order
             h == FillOf(o, c.index, state.orders[o].fills)
  <1>1. PICK g : /\ c.index \in DOMAIN state.orders[o].fills /\ h \notin state.registered
                 /\ state' = [state EXCEPT !.registered = @ \cup {h}, !.intents = @ \cup {h},
                                           !.pending = @ \cup {h}, !.gate = g]
    BY ZenonT(60) DEF PTR!RegisterHandoff, PTR!CanRegister, PTR!Handoff, FillOf
  <1>2. o \in PTR!Orders /\ c.index \in 1..Len(state.orders[o].fills)
    BY <1>1, OrderKnown, OrdersShaped DEF PipelineInv
  <1>3. h.order = o /\ h.index = c.index
    BY DEF FillOf
  <1> HIDE DEF h
  <1>4. /\ state' = [f \in PipelineFields |-> state'[f]]
        /\ state'.registered = state.registered \cup {h}
        /\ state'.pending = state.pending \cup {h}
        /\ state'.reservations = state.reservations /\ state'.orders = state.orders
        /\ state'.stages = state.stages /\ state'.policy = state.policy
        /\ state'.posted = state.posted /\ state'.reserved = state.reserved
        /\ state'.fault = state.fault
    BY <1>1 DEF PipelineInv, PipelineShape, PipelineFields
  <1>5. PipelineShape' /\ AllHeld' /\ PolicyInStep'
    BY <1>4 DEF PipelineInv, PipelineShape, AllHeld, PolicyInStep
  <1>6. Registry'
    <2>1. h = FillOf(h.order, h.index, state.orders[h.order].fills)
      BY <1>3 DEF h
    <2> QED BY ZenonT(60), <1>1, <1>2, <1>3, <1>4, <2>1 DEF PipelineInv, Registry
  <1>7. \A p \in PTR!Orders : Booked(p)'
    BY <1>4, BookedKept DEF PipelineInv
  <1> QED BY SMTT(30), <1>5, <1>6, <1>7 DEF PipelineInv

\* What is known of one order.
LEMMA OrderInvariant ==
    ASSUME PipelineInv, NEW o \in PTR!Orders
    PROVE  /\ Held(o, state.reservations[o], state.orders[o], state.posted, state.reserved)
           /\ InStep(state.stages[o].stage, state.orders[o].status)
           /\ IsPaperOrder(state.orders[o]) /\ IsStage(state.stages[o])
           /\ Quantities[o] \in Nat \ {0}
  BY OrdersShaped, QuantitiesAssumption DEF PipelineInv, AllHeld, PolicyInStep, PTR!Orders

\* Writing back what a table holds changes nothing.
LEMMA WrittenBack ==
    ASSUME PipelineShape, NEW o \in PTR!Orders
    PROVE  /\ state.orders = [state.orders EXCEPT ![o] = state.orders[o]]
           /\ state.stages = [state.stages EXCEPT ![o] = state.stages[o]]
  <1>1. ASSUME NEW f, f = [p \in PTR!Orders |-> f[p]] PROVE f = [f EXCEPT ![o] = f[o]]
    BY <1>1
  <1> QED BY <1>1 DEF PipelineShape

\* The stage of an order changes and the order does not.
LEMMA InvForStage ==
    ASSUME PipelineInv, JournalOf(PipelineCommands)', ConfirmsSame,
           Changes({"policy", "stages"}),
           NEW o \in PTR!Orders, NEW s, IsStage(s),
           state'.stages = [state.stages EXCEPT ![o] = s],
           InStep(s.stage, state.orders[o].status),
           s.stage = "None" => state.stages[o].stage = "None",
           \/ state'.policy = state.policy
           \/ ~(state'.policy.kind = "place" /\ state'.policy.granted)
           \/ state'.policy.order = o /\ s.stage # "None"
    PROVE  PipelineInv'
  <1> DEFINE x == state.orders[o]
  <1>1. state'.orders = [state.orders EXCEPT ![o] = x]
    BY WrittenBack DEF Changes, PipelineFields, PipelineInv
  <1>2. Changes({"policy", "stages", "orders"})
    BY DEF Changes
  <1>3. IsPaperOrder(x) /\ Held(o, state.reservations[o], x, state.posted, state.reserved)
    BY OrderInvariant
  <1>4. Len(state.orders[o].fills) <= Len(x.fills) /\ InStep(s.stage, x.status)
    BY OrdersShaped DEF PipelineInv
  <1>5. \A i \in 1..Len(state.orders[o].fills) : x.fills[i] = state.orders[o].fills[i]
    OBVIOUS
  <1> HIDE DEF x
  <1> QED BY <1>1, <1>2, <1>3, <1>4, <1>5, InvForOrder

\* A stage with its first field changed.
LEMMA StageChanged ==
    ASSUME NEW s, IsStage(s), NEW v
    PROVE  IsStage([s EXCEPT !.stage = v]) /\ [s EXCEPT !.stage = v].stage = v
  BY DEF IsStage

\* A placement permit preserves the invariant.
LEMMA InvForAuthorize ==
    ASSUME PipelineInv, JournalOf(PipelineCommands)', ConfirmsSame, PipelineCommandsTyped,
           NEW c \in PipelineCommands, PTR!Authorize(c)
    PROVE  PipelineInv'
  <1> DEFINE o == c.order
             old == state.stages[o]
  <1>1. PICK permit \in BOOLEAN :
            /\ permit => old.stage = "None"
            /\ state' = [state EXCEPT
                   !.policy = [kind |-> "place", order |-> o, granted |-> permit, at |-> c.at],
                   !.stages[o].stage = IF permit THEN "Authorized" ELSE @]
    BY DEF PTR!Authorize
  <1> DEFINE v == IF permit THEN "Authorized" ELSE old.stage
             s == [old EXCEPT !.stage = v]
             policy == [kind |-> "place", order |-> o, granted |-> permit, at |-> c.at]
  <1>2. o \in PTR!Orders /\ IsStage(old) /\ InStep(old.stage, state.orders[o].status)
    BY OrderKnown, OrderInvariant
  <1>3. IsStage(s) /\ s.stage = v
    BY <1>2, StageChanged
  <1>4. policy.order = o /\ policy.granted = permit
    OBVIOUS
  <1>5. state' = [state EXCEPT !.policy = policy, !.stages = [state.stages EXCEPT ![o] = s]]
    BY <1>1, <1>2
  <1>6. v = IF permit THEN "Authorized" ELSE old.stage
    OBVIOUS
  <1> HIDE DEF s, policy, v
  <1>7. /\ Changes({"policy", "stages"}) /\ state'.policy = policy
        /\ state'.stages = [state.stages EXCEPT ![o] = s]
    BY <1>5 DEF PipelineInv, PipelineShape, Changes, PipelineFields
  <1>8. InStep(s.stage, state.orders[o].status)
    BY <1>1, <1>2, <1>3, <1>6 DEF InStep, PTR!Finished
  <1>9. /\ s.stage = "None" => old.stage = "None"
        /\ \/ ~(state'.policy.kind = "place" /\ state'.policy.granted)
           \/ state'.policy.order = o /\ s.stage # "None"
    BY <1>3, <1>4, <1>6, <1>7
  <1> QED BY <1>2, <1>3, <1>7, <1>8, <1>9, InvForStage

\* A cancel permit preserves the invariant.
LEMMA InvForAuthorizeCancel ==
    ASSUME PipelineInv, JournalOf(PipelineCommands)', ConfirmsSame, PipelineCommandsTyped,
           NEW c \in PipelineCommands, PTR!AuthorizeCancel(c)
    PROVE  PipelineInv'
  <1> DEFINE o == c.order
             old == state.stages[o]
  <1>1. PICK permit \in BOOLEAN :
            /\ permit => old.stage \in {"Authorized", "Delayed", "Live"}
            /\ state' = [state EXCEPT
                   !.policy = [kind |-> "cancel", order |-> o, granted |-> permit, at |-> c.at],
                   !.stages[o].stage = IF permit THEN "CancelAuthorized" ELSE @]
    BY ZenonT(60) DEF PTR!AuthorizeCancel
  <1> DEFINE v == IF permit THEN "CancelAuthorized" ELSE old.stage
             s == [old EXCEPT !.stage = v]
             policy == [kind |-> "cancel", order |-> o, granted |-> permit, at |-> c.at]
  <1>2. o \in PTR!Orders /\ IsStage(old) /\ InStep(old.stage, state.orders[o].status)
    BY OrderKnown, OrderInvariant
  <1>3. IsStage(s) /\ s.stage = v
    BY <1>2, StageChanged
  <1>4. policy.kind = "cancel"
    OBVIOUS
  <1>5. state' = [state EXCEPT !.policy = policy, !.stages = [state.stages EXCEPT ![o] = s]]
    BY <1>1, <1>2
  <1>6. v = IF permit THEN "CancelAuthorized" ELSE old.stage
    OBVIOUS
  <1> HIDE DEF s, policy, v
  <1>7. /\ Changes({"policy", "stages"}) /\ state'.policy = policy
        /\ state'.stages = [state.stages EXCEPT ![o] = s]
    BY <1>5 DEF PipelineInv, PipelineShape, Changes, PipelineFields
  <1>8. InStep(s.stage, state.orders[o].status)
    BY <1>1, <1>2, <1>3, <1>6 DEF InStep, PTR!Finished
  <1>9. /\ s.stage = "None" => old.stage = "None"
        /\ ~(state'.policy.kind = "place" /\ state'.policy.granted)
    BY <1>3, <1>4, <1>6, <1>7
  <1> QED BY <1>2, <1>3, <1>7, <1>8, <1>9, InvForStage

\* A change of the mode preserves the invariant.
LEMMA InvForMode ==
    ASSUME PipelineInv, JournalOf(PipelineCommands)', ConfirmsSame, PipelineCommandsTyped,
           NEW c \in PipelineCommands, PTR!ObserveMode(c)
    PROVE  PipelineInv'
  <1> DEFINE o == c.order
             s == state.stages[o]
             policy == [kind |-> "mode", order |-> "none", granted |-> TRUE, at |-> c.at]
  <1>1. state' = [state EXCEPT !.policy = policy] /\ policy.kind = "mode"
    BY DEF PTR!ObserveMode
  <1>2. o \in PTR!Orders /\ IsStage(s) /\ InStep(s.stage, state.orders[o].status)
    BY OrderKnown, OrderInvariant
  <1> HIDE DEF policy
  <1>3. Changes({"policy", "stages"}) /\ state'.policy = policy /\ state'.stages = state.stages
    BY <1>1 DEF PipelineInv, PipelineShape, Changes, PipelineFields
  <1>4. state'.stages = [state.stages EXCEPT ![o] = s]
    BY <1>2, <1>3, WrittenBack DEF PipelineInv
  <1>5. ~(state'.policy.kind = "place" /\ state'.policy.granted)
    BY <1>1, <1>3
  <1> HIDE DEF s
  <1>6. s.stage = "None" => state.stages[o].stage = "None"
    BY DEF s
  <1> QED BY <1>2, <1>3, <1>4, <1>5, <1>6, InvForStage

\* A mark leaves a stage that is one, and ends it or brings it on.
LEMMA MarkedSteps ==
    ASSUME NEW c, IsStage(state.stages[c.order]), PTR!CanMark(c)
    PROVE  /\ IsStage(PTR!Marked(c))
           /\ PTR!Ends(c) => PTR!Marked(c).stage = "Terminal"
           /\ PTR!Marked(c).stage = "None" => state.stages[c.order].stage = "None"
           /\ state.stages[c.order].stage = "Terminal" => PTR!Marked(c).stage = "Terminal"
           /\ \/ PTR!LastPolicy(c) = state.policy
              \/ PTR!LastPolicy(c).kind = "mark"
  <1> DEFINE old == state.stages[c.order]
  <1>1. IsStage(old)
    OBVIOUS
  <1>2. \A v : IsStage([old EXCEPT !.stage = v]) /\ [old EXCEPT !.stage = v].stage = v
    BY <1>1, StageChanged
  <1>3. /\ c.event = "Delayed" => old.stage = "Authorized"
        /\ c.event = "Live" => old.stage \in {"Authorized", "Delayed"}
        /\ PTR!Ends(c) => c.event \notin {"Delayed", "Live"}
    BY DEF PTR!CanMark, PTR!Ends
  <1>4. PTR!LastPolicy(c) = state.policy \/ PTR!LastPolicy(c).kind = "mark"
    BY DEF PTR!LastPolicy
  <1>5. CASE c.event = "Delayed"
    <2> DEFINE s == [stage |-> "Delayed", release |-> c.until, uncancellable |-> c.until]
    <2>1. IsStage(s) /\ s.stage = "Delayed"
      BY DEF IsStage
    <2>2. PTR!Marked(c) = s
      BY <1>3, <1>5 DEF PTR!Marked
    <2> HIDE DEF s
    <2> QED BY <1>3, <1>4, <1>5, <2>1, <2>2
  <1>6. CASE c.event = "Live"
    <2> DEFINE s == [old EXCEPT !.stage = "Live"]
    <2>1. IsStage(s) /\ s.stage = "Live"
      BY <1>2
    <2>2. PTR!Marked(c) = s
      BY <1>3, <1>6 DEF PTR!Marked
    <2> HIDE DEF s
    <2> QED BY <1>3, <1>4, <1>6, <2>1, <2>2
  <1>7. CASE PTR!Ends(c)
    <2> DEFINE s == [old EXCEPT !.stage = "Terminal"]
    <2>1. PTR!Marked(c) = s /\ IsStage(s) /\ s.stage = "Terminal"
      BY <1>2, <1>3, <1>7 DEF PTR!Marked
    <2> HIDE DEF s
    <2> QED BY <1>3, <1>4, <1>7, <2>1
  <1>8. CASE c.event \notin {"Delayed", "Live"} /\ ~PTR!Ends(c)
    <2>1. PTR!Marked(c) = old
      BY <1>8 DEF PTR!Marked
    <2> QED BY <1>1, <1>4, <1>8, <2>1
  <1> QED BY <1>5, <1>6, <1>7, <1>8

\* A mark from outside preserves the invariant.
LEMMA InvForMark ==
    ASSUME PipelineInv, JournalOf(PipelineCommands)', ConfirmsSame, PipelineCommandsTyped,
           NEW c \in PipelineCommands, PTR!MarkDirectly(c)
    PROVE  PipelineInv'
  <1> DEFINE o == c.order
             s == PTR!Marked(c)
             policy == PTR!LastPolicy(c)
  <1>1. /\ state' = [state EXCEPT !.stages[o] = s, !.policy = policy]
        /\ PTR!CanMark(c)
    BY DEF PTR!MarkDirectly, PTR!CanMarkDirectly
  <1>2. /\ o \in PTR!Orders /\ IsStage(state.stages[o])
        /\ InStep(state.stages[o].stage, state.orders[o].status)
    BY OrderKnown, OrderInvariant
  <1>3. /\ IsStage(s) /\ (s.stage = "None" => state.stages[o].stage = "None")
        /\ state.stages[o].stage = "Terminal" => s.stage = "Terminal"
        /\ policy = state.policy \/ policy.kind = "mark"
    BY <1>1, <1>2, MarkedSteps
  <1> HIDE DEF s, policy
  <1>4. /\ Changes({"policy", "stages"}) /\ state'.policy = policy
        /\ state'.stages = [state.stages EXCEPT ![o] = s]
    BY <1>1 DEF PipelineInv, PipelineShape, Changes, PipelineFields
  <1>5. InStep(s.stage, state.orders[o].status)
    BY <1>2, <1>3 DEF InStep
  <1>6. state'.policy = state.policy \/ ~(state'.policy.kind = "place" /\ state'.policy.granted)
    BY <1>3, <1>4
  <1> QED BY <1>2, <1>3, <1>4, <1>5, <1>6, InvForStage

\* An order changes and its stage does not.
LEMMA InvForStatus ==
    ASSUME PipelineInv, JournalOf(PipelineCommands)', ConfirmsSame, Changes({"orders"}),
           NEW o \in PTR!Orders, NEW v,
           state'.orders = [state.orders EXCEPT ![o] = [state.orders[o] EXCEPT !.status = v]],
           InStep(state.stages[o].stage, v),
           v = "None" => state.orders[o].status = "None",
           v \in {"Active", "CancelPending"} =>
               /\ state.reservations[o].status = "Active"
               /\ FilledIn(state.orders[o].fills) < Quantities[o]
    PROVE  PipelineInv'
  <1> DEFINE old == state.orders[o]
             x == [old EXCEPT !.status = v]
             s == state.stages[o]
  <1>1. Held(o, state.reservations[o], old, state.posted, state.reserved) /\ IsPaperOrder(old)
        /\ IsStage(s)
    BY OrderInvariant
  <1>2. IsPaperOrder(x) /\ x.status = v /\ x.fills = old.fills
    <2> HIDE DEF old
    <2> QED BY <1>1 DEF IsPaperOrder
  <1>3. /\ state'.stages = [state.stages EXCEPT ![o] = s] /\ Changes({"policy", "stages", "orders"})
        /\ state'.policy = state.policy
    BY WrittenBack DEF Changes, PipelineFields, PipelineInv
  <1>4. state'.orders = [state.orders EXCEPT ![o] = x]
    OBVIOUS
  <1>5. Len(old.fills) \in Nat
    BY OrdersShaped DEF PipelineInv
  <1> HIDE DEF x
  <1>6. Held(o, state.reservations[o], x, state.posted, state.reserved)
    BY <1>1, <1>2 DEF Held
  <1>7. /\ Len(state.orders[o].fills) <= Len(x.fills) /\ InStep(s.stage, x.status)
        /\ \A i \in 1..Len(state.orders[o].fills) : x.fills[i] = state.orders[o].fills[i]
    BY <1>2, <1>5
  <1>8. s.stage = "None" => state.stages[o].stage = "None"
    OBVIOUS
  <1> HIDE DEF s, old
  <1> QED BY <1>1, <1>2, <1>3, <1>4, <1>6, <1>7, <1>8, InvForOrder

\* Submitting preserves the invariant: the order is the one the last permit placed, its
\* reservation is active and nothing of it is filled.
LEMMA InvForSubmission ==
    ASSUME PipelineInv, JournalOf(PipelineCommands)', ConfirmsSame, PipelineCommandsTyped,
           NEW c \in PipelineCommands, PTR!Submit(c)
    PROVE  PipelineInv'
  <1> DEFINE o == c.order
             old == state.orders[o]
  <1>1. PICK accept \in BOOLEAN :
            /\ accept => /\ state.policy.granted /\ state.policy.kind = "place"
                         /\ state.policy.order = o /\ old.status = "None"
            /\ state' = [state EXCEPT !.orders[o] =
                             IF accept THEN [@ EXCEPT !.status = "Active"] ELSE @]
            /\ o \in state.reserved
    BY DEF PTR!Submit, PTR!CanSubmit
  <1>2. /\ o \in PTR!Orders /\ IsPaperOrder(old) /\ InStep(state.stages[o].stage, old.status)
        /\ Held(o, state.reservations[o], old, state.posted, state.reserved)
        /\ Quantities[o] \in Nat \ {0}
    BY OrderKnown, OrderInvariant
  <1> DEFINE v == IF accept THEN "Active" ELSE old.status
             x == [old EXCEPT !.status = v]
  <1>3. x = IF accept THEN [old EXCEPT !.status = "Active"] ELSE old
    <2> HIDE DEF old
    <2> QED BY <1>2 DEF IsPaperOrder
  <1>4. state' = [state EXCEPT !.orders = [state.orders EXCEPT ![o] = x]]
    BY <1>1, <1>3
  <1>5. v = IF accept THEN "Active" ELSE old.status
    OBVIOUS
  <1>6. accept => FilledIn(old.fills) < Quantities[o]
    BY <1>1, <1>2, FilledOfNone DEF Held
  <1>7. o \in state.reserved => state.reservations[o].status = "Active"
    BY <1>2 DEF Held
  <1>8. Changes({"orders"}) /\ state'.orders = [state.orders EXCEPT ![o] = x]
    <2> HIDE DEF x
    <2> QED BY <1>4 DEF PipelineInv, PipelineShape, Changes, PipelineFields
  <1> HIDE DEF v
  <1>9. InStep(state.stages[o].stage, v)
    BY <1>1, <1>2, <1>5 DEF InStep, PTR!Finished, PipelineInv, PolicyInStep
  <1>10. v = "None" => old.status = "None"
    BY <1>5
  <1>11. v \in {"Active", "CancelPending"} =>
             state.reservations[o].status = "Active" /\ FilledIn(old.fills) < Quantities[o]
    BY <1>1, <1>2, <1>5, <1>6, <1>7 DEF Held
  <1> QED BY <1>2, <1>8, <1>9, <1>10, <1>11, InvForStatus

\* Asking for a cancel preserves the invariant.
LEMMA InvForCancelCall ==
    ASSUME PipelineInv, JournalOf(PipelineCommands)', ConfirmsSame, PipelineCommandsTyped,
           NEW c \in PipelineCommands, PTR!RequestCancel(c)
    PROVE  PipelineInv'
  <1> DEFINE o == c.order
             old == state.orders[o]
  <1>1. PICK accept \in BOOLEAN :
            /\ accept => old.status = "Active"
            /\ state' = [state EXCEPT !.orders[o].status = IF accept THEN "CancelPending" ELSE @]
    BY DEF PTR!RequestCancel
  <1>2. /\ o \in PTR!Orders /\ InStep(state.stages[o].stage, old.status)
        /\ Held(o, state.reservations[o], old, state.posted, state.reserved)
    BY OrderKnown, OrderInvariant
  <1> DEFINE v == IF accept THEN "CancelPending" ELSE old.status
             x == [old EXCEPT !.status = v]
  <1>3. state' = [state EXCEPT !.orders = [state.orders EXCEPT ![o] = x]]
    BY <1>1
  <1>4. v = IF accept THEN "CancelPending" ELSE old.status
    OBVIOUS
  <1>5. Changes({"orders"}) /\ state'.orders = [state.orders EXCEPT ![o] = x]
    <2> HIDE DEF x
    <2> QED BY <1>3 DEF PipelineInv, PipelineShape, Changes, PipelineFields
  <1> HIDE DEF v
  <1>6. InStep(state.stages[o].stage, v)
    BY <1>1, <1>2, <1>4 DEF InStep, PTR!Finished
  <1>7. v = "None" => old.status = "None"
    BY <1>4
  <1>8. v \in {"Active", "CancelPending"} =>
            state.reservations[o].status = "Active" /\ FilledIn(old.fills) < Quantities[o]
    BY <1>1, <1>2, <1>4 DEF Held
  <1> QED BY <1>2, <1>5, <1>6, <1>7, <1>8, InvForStatus

PaperRecord(v, a, r, f) == [status |-> v, active |-> a, release |-> r, fills |-> f]

\* What After does to an order.
WithStatus(y, v) == [y EXCEPT !.status = v]
WithActive(y, a, r) == [y EXCEPT !.active = a, !.release = r]
WithFill(y, f, a, v) == [y EXCEPT !.fills = f, !.active = a, !.status = v]

\* An order with some of its fields changed.
LEMMA OrderRewritten ==
    ASSUME NEW y, IsPaperOrder(y), NEW v, NEW a, NEW r, NEW f
    PROVE  /\ WithStatus(y, v) = PaperRecord(v, y.active, y.release, y.fills)
           /\ WithActive(y, a, r) = PaperRecord(y.status, a, r, y.fills)
           /\ WithFill(y, f, a, v) = PaperRecord(v, a, y.release, f)
  <1>1. PICK w, b, q, g : y = [status |-> w, active |-> b, release |-> q, fills |-> g]
    BY DEF IsPaperOrder
  <1>2. WithStatus(y, v) = PaperRecord(v, y.active, y.release, y.fills)
    <2> DEFINE x == [y EXCEPT !.status = v]
    <2>1. x = [i \in {"status", "active", "release", "fills"} |-> x[i]]
      BY <1>1
    <2>2. x.status = v /\ x.active = y.active /\ x.release = y.release /\ x.fills = y.fills
      BY <1>1
    <2> HIDE DEF x
    <2>3. x = PaperRecord(v, y.active, y.release, y.fills)
      BY <2>1, <2>2 DEF PaperRecord
    <2> QED BY <2>3 DEF x, WithStatus
  <1>3. WithActive(y, a, r) = PaperRecord(y.status, a, r, y.fills)
    <2> DEFINE x == [y EXCEPT !.active = a, !.release = r]
    <2>1. x = [i \in {"status", "active", "release", "fills"} |-> x[i]]
      BY <1>1
    <2>2. x.status = y.status /\ x.active = a /\ x.release = r /\ x.fills = y.fills
      BY <1>1
    <2> HIDE DEF x
    <2>3. x = PaperRecord(y.status, a, r, y.fills)
      BY <2>1, <2>2 DEF PaperRecord
    <2> QED BY <2>3 DEF x, WithActive
  <1>4. WithFill(y, f, a, v) = PaperRecord(v, a, y.release, f)
    <2> DEFINE x == [y EXCEPT !.fills = f, !.active = a, !.status = v]
    <2>1. x = [i \in {"status", "active", "release", "fills"} |-> x[i]]
      BY <1>1
    <2>2. x.status = v /\ x.active = a /\ x.release = y.release /\ x.fills = f
      BY <1>1
    <2> HIDE DEF x
    <2>3. x = PaperRecord(v, a, y.release, f)
      BY <2>1, <2>2 DEF PaperRecord
    <2> QED BY <2>3 DEF x, WithFill
  <1> QED BY <1>2, <1>3, <1>4

\* A record of an order with its fills is one.
LEMMA PaperRecordIsOrder ==
    ASSUME NEW v, NEW a, NEW r, NEW f
    PROVE  /\ PaperRecord(v, a, r, f).status = v /\ PaperRecord(v, a, r, f).fills = f
           /\ f \in Seq(Nat \ {0}) => IsPaperOrder(PaperRecord(v, a, r, f))
  <1>1. PaperRecord(v, a, r, f).status = v /\ PaperRecord(v, a, r, f).fills = f
    BY DEF PaperRecord
  <1>2. f \in Seq(Nat \ {0}) => IsPaperOrder(PaperRecord(v, a, r, f))
    <2> DEFINE x == PaperRecord(v, a, r, f)
    <2>1. x = [status |-> x.status, active |-> x.active, release |-> x.release, fills |-> x.fills]
      BY DEF PaperRecord
    <2> HIDE DEF x
    <2>2. x.fills = f => (f \in Seq(Nat \ {0}) => IsPaperOrder(x))
      BY <2>1 DEF IsPaperOrder
    <2> QED BY <1>1, <2>2 DEF x
  <1> QED BY <1>1, <1>2

\* What an event makes of an order: a fill more that still fits, or the same fills; the
\* order ends only by an event that ends it for the policy, and when it is full.
LEMMA AfterSteps ==
    ASSUME PipelineCommandsTyped, PipelineShape, NEW c \in PipelineCommands, c.op = "Observe",
           PTR!CanFollow(c)
    PROVE  /\ state.orders[c.order].status \in {"Active", "CancelPending"}
           /\ IsPaperOrder(PTR!After(c))
           /\ PTR!After(c).status \in {"Active", "CancelPending"} \cup PTR!Finished
           /\ PTR!After(c).status \in PTR!Finished => PTR!Ends(c)
           /\ \/ PTR!After(c).fills = state.orders[c.order].fills
              \/ /\ c.quantity \in Nat \ {0}
                 /\ PTR!After(c).fills = Append(state.orders[c.order].fills, c.quantity)
                 /\ PTR!Filled(c.order) + c.quantity <= Quantities[c.order]
                 /\ PTR!After(c).status \in {"Active", "CancelPending"} =>
                        PTR!Filled(c.order) + c.quantity # Quantities[c.order]
  <1> DEFINE old == state.orders[c.order]
  <1>1. c.order \in PTR!Orders /\ IsPaperOrder(old) /\ old.fills \in Seq(Nat \ {0})
    BY OrderKnown, OrdersShaped
  <1>2. old.status \in {"Active", "CancelPending"}
    BY DEF PTR!CanFollow, PTR!Open
  <1>3. CASE c.event = "Match"
    <2> DEFINE more == Append(old.fills, c.quantity)
               status == IF PTR!Ends(c) THEN "FullyMatched" ELSE old.status
               x == PaperRecord(status, "PartiallyMatched", old.release, more)
    <2>1. /\ c.quantity \in Nat \ {0}
          /\ PTR!Filled(c.order) + c.quantity <= Quantities[c.order]
      <3>1. c.quantity \in Int /\ c.quantity > 0
        BY <1>3 DEF PTR!CanFollow, PipelineCommandsTyped
      <3>2. PTR!Filled(c.order) + c.quantity <= Quantities[c.order]
        BY <1>3 DEF PTR!CanFollow
      <3> QED BY <3>1, <3>2
    <2>2. more \in Seq(Nat \ {0})
      BY <1>1, <2>1
    <2>3. PTR!Ends(c) <=> PTR!Filled(c.order) + c.quantity = Quantities[c.order]
      BY <1>3 DEF PTR!Ends
    <2>4. PTR!After(c) = WithFill(old, more, "PartiallyMatched", status)
      BY <1>3 DEF PTR!After, WithFill
    <2>5. status = IF PTR!Ends(c) THEN "FullyMatched" ELSE old.status
      OBVIOUS
    <2> HIDE DEF more, status, old
    <2>6. PTR!After(c) = x /\ IsPaperOrder(x) /\ x.status = status /\ x.fills = more
      BY <1>1, <2>2, <2>4, OrderRewritten, PaperRecordIsOrder
    <2> HIDE DEF x
    <2>7. x.status \in {"Active", "CancelPending"} => ~PTR!Ends(c)
      BY <2>5, <2>6
    <2>8. x.status \in PTR!Finished => PTR!Ends(c)
      BY <1>2, <2>5, <2>6 DEF PTR!Finished
    <2>9. x.status \in {"Active", "CancelPending"} \cup PTR!Finished
      BY <1>2, <2>5, <2>6 DEF PTR!Finished
    <2> QED BY <1>2, <2>1, <2>3, <2>6, <2>7, <2>8, <2>9 DEF more, old
  <1>4. CASE c.event # "Match"
    <2> DEFINE fills == old.fills
    <2>1. IsPaperOrder(old) /\ fills = old.fills /\ fills \in Seq(Nat \ {0})
      BY <1>1
    <2>2. \/ PTR!After(c) = WithStatus(old, "Canceled") /\ PTR!Ends(c)
          \/ PTR!After(c) = WithStatus(old, "Rejected") /\ PTR!Ends(c)
          \/ PTR!After(c) = WithStatus(old, "Active")
          \/ \E a, r : PTR!After(c) = WithActive(old, a, r)
      <3>1. CASE c.event = "CancelAccepted"
        BY <3>1 DEF PTR!After, PTR!Ends, WithStatus
      <3>2. CASE c.event = "Rejected"
        BY <3>2 DEF PTR!After, PTR!Ends, WithStatus
      <3>3. CASE c.event = "CancelRejected"
        BY <3>3 DEF PTR!After, WithStatus
      <3>4. CASE c.event \notin {"Match", "CancelAccepted", "Rejected", "CancelRejected"}
        <4> DEFINE a == c.event
                   r == IF c.event = "Delayed" THEN c.until ELSE old.release
        <4>1. PTR!After(c) = WithActive(old, a, r)
          BY <3>4 DEF PTR!After, WithActive
        <4> HIDE DEF a, r
        <4> QED BY <4>1
      <3> QED BY <1>4, <3>1, <3>2, <3>3, <3>4
    <2> HIDE DEF old, fills
    <2>3. PICK v, a, r : /\ PTR!After(c) = PaperRecord(v, a, r, fills)
                         /\ \/ v = old.status \/ v = "Active"
                            \/ v \in {"Canceled", "Rejected"} /\ PTR!Ends(c)
      <3>1. \A v : WithStatus(old, v) = PaperRecord(v, old.active, old.release, fills)
        BY <2>1, OrderRewritten
      <3>2. \A a, r : WithActive(old, a, r) = PaperRecord(old.status, a, r, fills)
        BY <2>1, OrderRewritten
      <3>3. CASE \E a, r : PTR!After(c) = WithActive(old, a, r)
        BY <3>2, <3>3
      <3>4. CASE ~ \E a, r : PTR!After(c) = WithActive(old, a, r)
        <4>1. \E v : /\ PTR!After(c) = WithStatus(old, v)
                     /\ v = "Active" \/ (v \in {"Canceled", "Rejected"} /\ PTR!Ends(c))
          BY <2>2, <3>4
        <4> QED BY <3>1, <4>1
      <3> QED BY <3>3, <3>4
    <2> DEFINE x == PaperRecord(v, a, r, fills)
    <2>4. IsPaperOrder(x) /\ x.status = v /\ x.fills = fills /\ PTR!After(c) = x
      BY <2>1, <2>3, PaperRecordIsOrder
    <2> HIDE DEF x
    <2>5. old.status \in {"Active", "CancelPending"}
      BY <1>2 DEF old
    <2>6. /\ x.status \in {"Active", "CancelPending"} \cup PTR!Finished
          /\ x.status \in PTR!Finished => PTR!Ends(c)
      BY SMTT(30), <2>3, <2>4, <2>5 DEF PTR!Finished
    <2> QED BY <2>1, <2>4, <2>5, <2>6 DEF old
  <1> QED BY <1>3, <1>4

\* An event preserves the invariant: a fill fits what is left of the order, and the policy
\* hears of the end of an order with the event that ends it.
LEMMA InvForEvent ==
    ASSUME PipelineInv, JournalOf(PipelineCommands)', ConfirmsSame, PipelineCommandsTyped,
           NEW c \in PipelineCommands, PTR!Observe(c)
    PROVE  PipelineInv'
  <1> DEFINE o == c.order
             old == state.orders[o]
             x == PTR!After(c)
             s == PTR!Marked(c)
             policy == PTR!LastPolicy(c)
  <1>1. /\ state' = [state EXCEPT !.orders[o] = x, !.stages[o] = s, !.policy = policy]
        /\ PTR!CanMark(c) /\ PTR!CanFollow(c) /\ c.op = "Observe"
    BY DEF PTR!Observe, PTR!CanObserve
  <1>2. /\ o \in PTR!Orders /\ IsStage(state.stages[o]) /\ InStep(state.stages[o].stage, old.status)
        /\ Held(o, state.reservations[o], old, state.posted, state.reserved)
        /\ Quantities[o] \in Nat /\ old.fills \in Seq(Nat \ {0}) /\ PTR!Filled(o) = FilledIn(old.fills)
    BY OrderKnown, OrderInvariant, OrdersShaped, AmountsAgree DEF PipelineInv
  <1>3. /\ IsStage(s) /\ (s.stage = "None" => state.stages[o].stage = "None")
        /\ state.stages[o].stage = "Terminal" => s.stage = "Terminal"
        /\ PTR!Ends(c) => s.stage = "Terminal"
        /\ policy = state.policy \/ policy.kind = "mark"
    BY <1>1, <1>2, MarkedSteps
  <1>4. /\ old.status \in {"Active", "CancelPending"} /\ IsPaperOrder(x)
        /\ x.status \in {"Active", "CancelPending"} \cup PTR!Finished
        /\ x.status \in PTR!Finished => PTR!Ends(c)
        /\ \/ x.fills = old.fills
           \/ /\ c.quantity \in Nat \ {0} /\ x.fills = Append(old.fills, c.quantity)
              /\ PTR!Filled(o) + c.quantity <= Quantities[o]
              /\ x.status \in {"Active", "CancelPending"} =>
                     PTR!Filled(o) + c.quantity # Quantities[o]
    BY <1>1, AfterSteps DEF PipelineInv
  <1> HIDE DEF s, policy, x
  <1>5. /\ Changes({"policy", "stages", "orders"}) /\ state'.policy = policy
        /\ state'.stages = [state.stages EXCEPT ![o] = s]
        /\ state'.orders = [state.orders EXCEPT ![o] = x]
    BY <1>1 DEF PipelineInv, PipelineShape, Changes, PipelineFields
  <1>6. InStep(s.stage, x.status)
    BY <1>2, <1>3, <1>4 DEF InStep, PTR!Finished
  <1>7. state'.policy = state.policy \/ ~(state'.policy.kind = "place" /\ state'.policy.granted)
    BY <1>3, <1>5
  <1>8. x.status # "None"
    BY SMTT(30), <1>4 DEF PTR!Finished
  <1>9. /\ Held(o, state.reservations[o], x, state.posted, state.reserved)
        /\ Len(old.fills) <= Len(x.fills)
        /\ \A i \in 1..Len(old.fills) : x.fills[i] = old.fills[i]
    <2>1. CASE x.fills = old.fills
      <3>1. Len(old.fills) \in Nat
        BY <1>2
      <3> QED BY <1>2, <1>4, <1>8, <2>1, <3>1 DEF Held
    <2>2. CASE /\ c.quantity \in Nat \ {0} /\ x.fills = Append(old.fills, c.quantity)
               /\ PTR!Filled(o) + c.quantity <= Quantities[o]
               /\ x.status \in {"Active", "CancelPending"} =>
                      PTR!Filled(o) + c.quantity # Quantities[o]
      <3> DEFINE q == c.quantity
      <3>1. \A h \in state.posted : h.order = o => h.index \in 1..Len(old.fills)
        BY DEF PipelineInv, Registry
      <3>2. /\ FilledIn(x.fills) = FilledIn(old.fills) + q
            /\ ConfirmedIn(o, x.fills, state.posted) = ConfirmedIn(o, old.fills, state.posted)
        BY SMTT(30), <1>2, <2>2, <3>1, FilledOneMore
      <3>3. FilledIn(old.fills) \in Int
        BY <1>2, ConfirmedWasFilled
      <3>4. /\ FilledIn(x.fills) <= Quantities[o]
            /\ x.status \in {"Active", "CancelPending"} => FilledIn(x.fills) < Quantities[o]
        <4> DEFINE filled == FilledIn(old.fills)
        <4>1. filled \in Int /\ q \in Int /\ Quantities[o] \in Int
              /\ FilledIn(x.fills) = filled + q /\ filled + q <= Quantities[o]
          BY <1>2, <2>2, <3>2, <3>3
        <4>2. x.status \in {"Active", "CancelPending"} => filled + q # Quantities[o]
          BY <1>2, <2>2
        <4> HIDE DEF filled, q
        <4> QED BY <4>1, <4>2
      <3>5. Held(o, state.reservations[o], x, state.posted, state.reserved)
        BY <1>2, <1>4, <1>8, <3>2, <3>4 DEF Held
      <3>6. Len(old.fills) <= Len(x.fills) /\ \A i \in 1..Len(old.fills) : x.fills[i] = old.fills[i]
        <4> DEFINE fills == old.fills
        <4>1. fills \in Seq(Nat \ {0}) /\ x.fills = Append(fills, q)
          BY <1>2, <2>2
        <4> HIDE DEF fills, q
        <4>2. /\ Len(fills) \in Nat /\ Len(x.fills) = Len(fills) + 1
              /\ \A i \in 1..Len(fills) : x.fills[i] = fills[i]
          BY <4>1, AppendElements
        <4>3. Len(fills) <= Len(x.fills) /\ \A i \in 1..Len(fills) : x.fills[i] = fills[i]
          BY <4>2
        <4> QED BY <4>3 DEF fills
      <3> QED BY <3>5, <3>6
    <2> QED BY <1>4, <2>1, <2>2
  <1> QED BY ZenonT(60), <1>2, <1>3, <1>4, <1>5, <1>6, <1>7, <1>9, InvForOrder

\* An accepted command preserves the invariant.
LEMMA InvForAccepted ==
    ASSUME PipelineInv, JournalOf(PipelineCommands)', PipelineCommandsTyped,
           NEW c \in PipelineCommands, Accepts(c)
    PROVE  PipelineInv'
  <1> DEFINE steady == \/ PTR!TripFault(c, PTR!Point(c)) \/ PTR!OtherAccounting(c)
                       \/ PTR!ObserveTrade(c) \/ PTR!Reconcile(c) \/ PTR!Assess(c)
                       \/ PTR!InjectFault(c)
             others == \/ PTR!Reserve(c) \/ PTR!Release(c) \/ PTR!Authorize(c)
                       \/ PTR!AuthorizeCancel(c) \/ PTR!ObserveMode(c) \/ PTR!MarkDirectly(c)
                       \/ PTR!Submit(c) \/ PTR!RequestCancel(c) \/ PTR!Observe(c)
                       \/ PTR!RegisterHandoff(c)
  <1>1. steady \/ others \/ PTR!Confirm(c)
    BY DEF Accepts, PTR!Handler
  <1>2. c.op # "Confirm" => ConfirmsSame
    BY ConfirmsKept DEF Accepts
  <1>3. CASE steady
    <2>1. /\ Changes(SteadyFields) /\ state'.fault \in FaultPoints \cup {"none"}
          /\ c.op # "Confirm"
      BY <1>3, SteadySteps DEF PipelineInv
    <2> QED BY <1>2, <2>1, InvForSteady
  <1>4. CASE others
    <2>1. c.op # "Confirm"
      BY <1>4 DEF PTR!Reserve, PTR!CanReserve, PTR!Release, PTR!CanRelease, PTR!Authorize,
           PTR!CanAuthorize, PTR!AuthorizeCancel, PTR!ObserveMode, PTR!MarkDirectly,
           PTR!CanMarkDirectly, PTR!Submit, PTR!RequestCancel, PTR!Observe, PTR!RegisterHandoff
    <2> QED BY <1>2, <1>4, <2>1, InvForReserve, InvForRelease, InvForAuthorize,
               InvForAuthorizeCancel, InvForMode, InvForMark, InvForSubmission, InvForCancelCall,
               InvForEvent, InvForRegistration
  <1>5. CASE PTR!Confirm(c)
    BY <1>5, InvForConfirm
  <1> QED BY <1>1, <1>3, <1>4, <1>5

\* A refusal preserves the invariant.
LEMMA InvForNothing ==
    ASSUME PipelineInv, JournalOf(PipelineCommands)', UNCHANGED <<state, processed>>
    PROVE  PipelineInv'
  <1>1. PipelineShape' /\ AllHeld' /\ Registry' /\ PolicyInStep'
    BY DEF PipelineInv, PipelineShape, AllHeld, Registry, PolicyInStep
  <1>2. ConfirmsSame
    BY DEF ConfirmsSame, PTR!Confirms
  <1>3. \A o \in PTR!Orders : Booked(o)'
    BY <1>2, BookedKept DEF PipelineInv
  <1> QED BY <1>1, <1>3 DEF PipelineInv

\* The runtime as it is created, by new and by every recovery.
FreshPipeline ==
    JournalOf(PipelineCommands) /\ state = PTR!Initial /\ processed = {}

\* A new runtime satisfies the invariant, at the start and at a restart.
LEMMA PipelineAtStart ==
    FreshPipeline => PipelineInv
  <1> SUFFICES ASSUME FreshPipeline PROVE PipelineInv
    OBVIOUS
  <1>1. /\ state = [f \in PipelineFields |-> state[f]]
        /\ state.reservations = [o \in PTR!Orders |-> [status |-> "None", left |-> 0]]
        /\ state.orders = [o \in PTR!Orders |-> PTR!Unplaced]
        /\ state.stages = [o \in PTR!Orders |-> [stage |-> "None", release |-> 0, uncancellable |-> 0]]
        /\ state.posted = {} /\ state.reserved = {} /\ state.registered = {} /\ state.pending = {}
        /\ state.fault = "none" /\ state.policy = PTR!Nothing
    BY DEF FreshPipeline, PTR!Initial, PipelineFields
  <1>2. /\ IsPaperOrder(PTR!Unplaced) /\ PTR!Unplaced.status = "None" /\ PTR!Unplaced.fills = <<>>
    BY DEF IsPaperOrder, PTR!Unplaced
  <1>3. IsStage([stage |-> "None", release |-> 0, uncancellable |-> 0])
    BY DEF IsStage
  <1>4. PipelineShape
    BY <1>1, <1>2, <1>3 DEF PipelineShape
  <1>5. AllHeld
    <2>1. ASSUME NEW o \in PTR!Orders
          PROVE  /\ FilledIn(<<>>) <= Quantities[o]
                 /\ ConfirmedIn(o, <<>>, state.posted) = 0
      <3>1. FilledIn(<<>>) = 0 /\ ConfirmedIn(o, <<>>, state.posted) = 0
        BY FilledOfNone
      <3>2. Quantities[o] \in Nat
        BY QuantitiesAssumption DEF PTR!Orders
      <3> QED BY <3>1, <3>2
    <2>2. ASSUME NEW o \in PTR!Orders
          PROVE  /\ state.reservations[o].status = "None" /\ state.orders[o] = PTR!Unplaced
                 /\ o \notin state.reserved
      BY <1>1
    <2> QED BY <1>2, <2>1, <2>2 DEF AllHeld, Held
  <1>6. Registry
    BY <1>1 DEF Registry
  <1>7. PolicyInStep
    <2>1. state.policy.kind = "none"
      BY <1>1 DEF PTR!Nothing
    <2>2. \A o \in PTR!Orders : state.orders[o].status = "None"
      BY <1>1, <1>2
    <2> QED BY <2>1, <2>2 DEF PolicyInStep, InStep, PTR!Finished
  <1>8. ASSUME NEW o \in PTR!Orders PROVE Booked(o)
    <2>1. PTR!PostedFor(o) = {} /\ PTR!Confirms(o) = {}
      BY <1>1 DEF FreshPipeline, PTR!PostedFor, PTR!Confirms
    <2> QED BY <2>1, FS_EmptySet DEF Booked
  <1> QED BY <1>4, <1>5, <1>6, <1>7, <1>8 DEF PipelineInv, FreshPipeline

\* The initial states satisfy the invariant.
LEMMA PipelineInvInitially ==
    ASSUME PTR!Init
    PROVE  PipelineInv
  <1>1. JournalOf(PipelineCommands)
    BY EmptySeq DEF PTR!Init, PTR!OwnerInit, PTR!JournalInit, JournalHolds, JournalOf
  <1> QED BY <1>1, PipelineAtStart DEF FreshPipeline, PTR!Init, PTR!OwnerInit, PTR!EngineInit

\* Every step of the owner preserves the invariant.
LEMMA PipelineInvNext ==
    ASSUME PipelineCommandsTyped, PipelineInv, [PTR!Next]_(PTR!ownerVars)
    PROVE  PipelineInv'
  <1>1. /\ JournalOf(PipelineCommands)'
        /\ \/ \E c \in PipelineCommands : PTR!Apply(c)
           \/ state' = PTR!Initial /\ processed' = {}
           \/ UNCHANGED <<state, processed>>
    BY PipelineSteps DEF PipelineInv, engineFields, JournalOf
  <1>2. CASE state' = PTR!Initial /\ processed' = {}
    <2>1. FreshPipeline' => PipelineInv'
      BY PipelineAtStart, PTL
    <2> QED BY <1>1, <1>2, <2>1 DEF FreshPipeline
  <1> QED BY <1>1, <1>2, PipelineApplies, InvForAccepted, InvForNothing

PipelineEngineInv == engine = "paper-trading-runtime" => PipelineInv

\* The engine of a behaviour does not change, so the invariant holds in all of them.
LEMMA PipelineEngineInvHolds ==
    ASSUME PipelineCommandsTyped
    PROVE  TradingSpec => []PipelineEngineInv
  <1>1. TradingInit => PipelineEngineInv
    BY PipelineInvInitially DEF TradingInit, PipelineEngineInv
  <1>2. PipelineEngineInv /\ [TradingNext]_<<ownerVars, engine>> => PipelineEngineInv'
    <2> SUFFICES ASSUME PipelineEngineInv, [TradingNext]_<<ownerVars, engine>>,
                        engine' = "paper-trading-runtime"
                 PROVE  PipelineInv'
      BY DEF PipelineEngineInv
    <2>1. engine = "paper-trading-runtime" /\ PipelineInv
      BY DEF TradingNext, PipelineEngineInv
    <2>2. [PTR!Next]_(PTR!ownerVars)
      BY <2>1 DEF TradingNext, ownerVars, engineVars, journalVars, PTR!ownerVars, PTR!engineVars,
           PTR!journalVars
    <2> QED BY <2>1, <2>2, PipelineInvNext
  <1> QED BY <1>1, <1>2, PTL DEF TradingSpec

\* Over every journal, crash and replay of paper-trading-runtime: an order that may still be
\* filled has an active reservation of exactly what the ledger has not confirmed of it, so
\* that no release, confirmation or cancel takes from an open order what it may cost.
THEOREM OpenOrdersStayBacked ==
    ASSUME PipelineCommandsTyped
    PROVE  TradingSpec => []OpenOrdersAreBacked
  <1>1. PipelineEngineInv => OpenOrdersAreBacked
    BY PipelineInvSuffices DEF PipelineEngineInv, OpenOrdersAreBacked
  <1> QED BY <1>1, PipelineEngineInvHolds, PTL

\* The same for the ledger's side: what is confirmed are fills of the execution, each one
\* once and all of them within the quantity of their order, and the handoffs that wait are
\* registered ones that were not confirmed.
THEOREM OnlyFillsAreConfirmed ==
    ASSUME PipelineCommandsTyped
    PROVE  TradingSpec => []ConfirmationsAreFills
  <1>1. PipelineEngineInv => ConfirmationsAreFills
    BY PipelineInvSuffices DEF PipelineEngineInv, ConfirmationsAreFills
  <1> QED BY <1>1, PipelineEngineInvHolds, PTL

\* The same for the policy's side: an order that ended at the exchange is terminal for the
\* policy, and the policy has placed every order that is at the exchange.
THEOREM PolicyKeepsUp ==
    ASSUME PipelineCommandsTyped
    PROVE  TradingSpec => []PolicyFollowsExecution
  <1>1. PipelineEngineInv => PolicyFollowsExecution
    BY PipelineInvSuffices DEF PipelineEngineInv, PolicyFollowsExecution
  <1> QED BY <1>1, PipelineEngineInvHolds, PTL
=============================================================================
