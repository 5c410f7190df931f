--------------------------- MODULE ExecutorSession ---------------------------
(***************************************************************************)
(* crates/executor-session-simulator: an exclusive lease kept by           *)
(* heartbeats, one request envelope at a time, and the ways in which its   *)
(* outcome becomes uncertain (an unknown answer, an unhealthy heartbeat,   *)
(* the dead-man expiry, a restart), after which a reconciliation that      *)
(* nothing was changed outside resolves it.                                *)
(*                                                                         *)
(* A lease taken while there is no session leaves the status as it is, so  *)
(* a lease lost before OpenSession leaves a Paused session that can never  *)
(* be opened.                                                              *)
(***************************************************************************)
EXTENDS EngineOwner, FiniteSets

CONSTANTS Commands, Policy

\* The policy, the commands and what they carry, by the fields that the engine reads.
IsPolicy ==
    DOMAIN Policy = {"reportAge", "sessionLife", "leaseLife", "gap", "requestLife",
                     "requests"}

IsTemplate(v) == DOMAIN v = {"step"}

IsPlan(v) ==
    /\ DOMAIN v = {"expires", "created", "templates", "intent", "isolated", "report"}
    /\ \A i \in DOMAIN v.templates : IsTemplate(v.templates[i])

IsCommand(c) ==
    \/ Variant(c, {"Register"}, {"plan"}) /\ IsPlan(c.plan)
    \/ Variant(c, {"AcquireLease"}, {"when", "lease", "expires"})
    \/ Variant(c, {"OpenSession"}, {"when", "session"})
    \/ Variant(c, {"Heartbeat"}, {"when", "lease", "sequence", "healthy"})
    \/ Variant(c, {"IssueRequest"}, {"when", "expires", "request"})
    \/ Variant(c, {"Observe"}, {"inert", "when", "request", "kind"})
    \/ Variant(c, {"ExpireDeadMan", "Close", "Finalize"}, {"when"})
    \/ Variant(c, {"Restart"}, {"when", "prior"})
    \/ Variant(c, {"Reconcile"}, {"when", "requests", "prior", "unchanged"})

ValidPolicy ==
    /\ \A f \in DOMAIN Policy : Policy[f] > 0
    /\ Policy.requestLife <= Policy.leaseLife

None == {}

Initial == [plan |-> None, status |-> "None", lease |-> None, usedLeases |-> {}, session |-> None,
            beat |-> None, request |-> None, usedRequests |-> {}, resolved |-> 0,
            prior |-> None, report |-> None]

\* The report, the plan of the execution intent and its steps belong together; one
\* template per step.
ValidPlan(plan, at) ==
    /\ plan.report.completed /\ plan.report.inert /\ plan.report.plan = plan.intent
    /\ plan.report.steps = Len(plan.intent.steps)
    /\ plan.isolated
    /\ Len(plan.templates) \in 1..Policy.requests
    /\ [k \in DOMAIN plan.templates |-> plan.templates[k].step] = plan.intent.steps
    /\ plan.created >= plan.report.finalized /\ plan.created <= at
    /\ plan.expires > plan.created /\ at <= plan.expires
    /\ plan.expires - plan.created <= Policy.sessionLife
    /\ at - plan.report.finalized <= Policy.reportAge

CanRegister(c) == c.op = "Register" /\ state.plan = None /\ ValidPlan(c.plan, c.at)

Register(c) ==
    /\ CanRegister(c)
    /\ state' = [state EXCEPT !.plan = {c.plan}, !.status = "Registered"]
    /\ Decide(c, "Registered")

CanAcquireLease(c) ==
    /\ c.op = "AcquireLease" /\ state.lease = None /\ state.status \in {"Registered", "Paused"}
    /\ c.lease \notin state.usedLeases /\ c.when <= c.at
    /\ c.expires > c.when /\ c.expires - c.when <= Policy.leaseLife
    /\ \E plan \in state.plan : c.expires <= plan.expires

AcquireLease(c) ==
    /\ CanAcquireLease(c)
    /\ state' = [state EXCEPT !.lease = {[id |-> c.lease, from |-> c.when, to |-> c.expires]},
                              !.usedLeases = @ \cup {c.lease}, !.beat = None,
                              !.status = IF state.session # None THEN "Open" ELSE @]
    /\ Decide(c, "LeaseAcquired")

LiveLease(at) == \E l \in state.lease : at >= l.from /\ at < l.to

CanOpenSession(c) ==
    /\ c.op = "OpenSession" /\ state.status = "Registered" /\ state.session = None
    /\ c.when <= c.at /\ LiveLease(c.when)

OpenSession(c) ==
    /\ CanOpenSession(c)
    /\ state' = [state EXCEPT !.session = {c.session}, !.status = "Open"]
    /\ Decide(c, "SessionOpened")

-----------------------------------------------------------------------------
\* The lease is gone; what it means for the session depends on the request.
Dropped(s) ==
    [s EXCEPT !.lease = None,
              !.status = IF s.request # None THEN "ReconciliationRequired" ELSE "Paused"]

\* In time after the last heartbeat; a late one is an error and not a pause.
CanHeartbeat(c) ==
    /\ c.op = "Heartbeat" /\ c.when <= c.at /\ LiveLease(c.when)
    /\ \A l \in state.lease : l.id = c.lease
    /\ IF state.beat = None THEN c.sequence = 0
       ELSE \E b \in state.beat : c.sequence = b.sequence + 1 /\ c.when - b.at <= Policy.gap

Heartbeat(c) ==
    /\ CanHeartbeat(c)
    /\ LET beaten == [state EXCEPT !.beat = {[sequence |-> c.sequence, at |-> c.when]}]
       IN  IF c.healthy THEN state' = beaten /\ Decide(c, "HeartbeatAccepted")
           ELSE state' = Dropped(beaten) /\ Decide(c, "ReconciliationRequired")

CanIssueRequest(c) ==
    /\ c.op = "IssueRequest" /\ state.status = "Open" /\ state.request = None
    /\ c.request \notin state.usedRequests /\ c.when <= c.at /\ LiveLease(c.when)
    /\ \E b \in state.beat : c.when - b.at <= Policy.gap
    /\ c.expires > c.when /\ c.expires - c.when <= Policy.requestLife
    /\ \A l \in state.lease : c.expires <= l.to
    /\ \E plan \in state.plan : state.resolved < Len(plan.templates) /\ c.expires <= plan.expires

Envelope(c, plan) ==
    [id |-> c.request, session |-> state.session, lease |-> state.lease,
     template |-> plan.templates[state.resolved + 1], issued |-> c.when, expires |-> c.expires]

IssueRequest(c) ==
    /\ CanIssueRequest(c)
    /\ state' = [state EXCEPT !.request = {Envelope(c, plan) : plan \in state.plan},
                              !.usedRequests = @ \cup {c.request}]
    /\ Decide(c, "RequestIssued")

\* valid_observation.  The status is not looked at: an answer may come after the lease
\* was lost, the dead man expired or the process restarted.
CanObserve(c) ==
    /\ c.op = "Observe" /\ c.inert /\ c.when <= c.at
    /\ \E r \in state.request : r.id = c.request /\ c.when \in r.issued..r.expires

Observe(c) ==
    /\ CanObserve(c)
    /\ IF c.kind = "Unknown"
       THEN /\ state' = [state EXCEPT !.lease = None, !.status = "ReconciliationRequired"]
            /\ Decide(c, "ReconciliationRequired")
       ELSE /\ state' = [state EXCEPT !.request = None, !.resolved = @ + 1]
            /\ Decide(c, "RequestResolved")

CanExpireDeadMan(c) ==
    c.op = "ExpireDeadMan" /\ c.when <= c.at /\ \E l \in state.lease : c.when >= l.to

ExpireDeadMan(c) ==
    /\ CanExpireDeadMan(c)
    /\ state' = Dropped(state)
    /\ Decide(c, "DeadManExpired")

\* The digest of the state is named by the number of accepted commands that led to it.
CanRestart(c) ==
    /\ c.op = "Restart" /\ c.prior = Cardinality(processed) /\ c.when <= c.at
    /\ state.status \in {"Open", "Paused", "ReconciliationRequired"}

Restart(c) ==
    /\ CanRestart(c)
    /\ state' = [state EXCEPT !.prior = {c.prior}, !.lease = None,
                              !.status = "RestartRecoveryRequired"]
    /\ Decide(c, "Restarted")

CanReconcile(c) ==
    /\ c.op = "Reconcile" /\ c.unchanged /\ c.when <= c.at
    /\ \/ state.status = "RestartRecoveryRequired" /\ state.prior = {c.prior}
       \/ state.status = "ReconciliationRequired"
    /\ c.requests = {r.id : r \in state.request}

Reconcile(c) ==
    /\ CanReconcile(c)
    /\ state' = [state EXCEPT !.request = None, !.resolved = @ + Cardinality(state.request),
                              !.prior = None, !.status = "Paused"]
    /\ Decide(c, "Reconciled")

AllResolved == \E plan \in state.plan : state.resolved = Len(plan.templates)

CanClose(c) ==
    /\ c.op = "Close" /\ state.request = None /\ AllResolved /\ c.when <= c.at
    /\ state.status \in {"Open", "Paused"}

Close(c) ==
    /\ CanClose(c)
    /\ state' = [state EXCEPT !.lease = None, !.status = "Closed"]
    /\ Decide(c, "Closed")

CanFinalize(c) ==
    /\ c.op = "Finalize" /\ state.status = "Closed" /\ state.lease = None /\ state.request = None
    /\ AllResolved /\ c.when <= c.at

Finalize(c) ==
    /\ CanFinalize(c)
    /\ state' = [state EXCEPT !.report = {[resolved |-> state.resolved, finalized |-> c.when]}]
    /\ Decide(c, "Finalized")

Possible(c) ==
    /\ state.report = None
    /\ \/ CanRegister(c) \/ CanAcquireLease(c) \/ CanOpenSession(c) \/ CanHeartbeat(c)
       \/ CanIssueRequest(c) \/ CanObserve(c) \/ CanExpireDeadMan(c) \/ CanRestart(c)
       \/ CanReconcile(c) \/ CanClose(c) \/ CanFinalize(c)

Handler(c) ==
    /\ state.report = None
    /\ \/ Register(c) \/ AcquireLease(c) \/ OpenSession(c) \/ Heartbeat(c) \/ IssueRequest(c)
       \/ Observe(c) \/ ExpireDeadMan(c) \/ Restart(c) \/ Reconcile(c) \/ Close(c) \/ Finalize(c)

Apply(c) == ApplyClockFirst(c, Possible(c), Handler(c))

-----------------------------------------------------------------------------
(***************************************************************************)
(* durable.rs and dossier.rs                                               *)
(***************************************************************************)
Init == ValidPolicy /\ OwnerInit(Initial)

Journal(c) == JournalCommand(c, TRUE, Possible(c))
Install == InstallCommand(Apply(Last(log)))
Recovery == RecoverWith(Apply(log[cursor + 1]), Initial)
WriteCheckpoint == SaveCheckpoint
WriteReport == SaveReport(state.report)

Next ==
    \/ \E c \in Commands : Journal(c)
    \/ Install \/ SyncFails \/ Crash \/ Recovery \/ WriteCheckpoint \/ WriteReport

-----------------------------------------------------------------------------
\* Every request is answered once: by an acknowledgement or a rejection, or by the one
\* reconciliation that names it, and never by both, whatever came in between.
RequestsResolveOnce ==
    LET issued == Decided("IssueRequest", "RequestIssued")
        answered(r) == {c \in Decided("Observe", "RequestResolved") : c.request = r}
        reconciled(r) == {c \in Decided("Reconcile", "Reconciled") : r \in c.requests}
        endings(r) == Cardinality(answered(r)) + Cardinality(reconciled(r))
    IN  /\ \A c \in issued : endings(c.request) = IF \E r \in state.request : r.id = c.request
                                                  THEN 0 ELSE 1
        /\ state.resolved = Cardinality(issued) - Cardinality(state.request)

\* specs/041: an unknown outcome, the dead-man expiry and a restart prevent new
\* requests until an exact reconciliation is recorded.
NoWorkBeforeReconciliation ==
    LET disturbed == Decided("ExpireDeadMan", "DeadManExpired") \cup Decided("Restart", "Restarted")
                         \cup Decided("Observe", "ReconciliationRequired")
    IN  \A d \in disturbed, r \in Decided("IssueRequest", "RequestIssued") :
            r.at > d.at => \E e \in Decided("Reconcile", "Reconciled") : d.at <= e.at /\ e.at <= r.at
=============================================================================
