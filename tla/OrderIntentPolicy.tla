-------------------------- MODULE OrderIntentPolicy --------------------------
(***************************************************************************)
(* The offline policy authority of crates/order-intent-policy: it permits  *)
(* or denies the placement and the cancellation of orders, follows the     *)
(* stage of every permitted order, and halts for good on a history or      *)
(* lifecycle that cannot be.                                               *)
(*                                                                         *)
(* `state' is the struct IntentPolicyEngine.  A decision is its status;    *)
(* the reason of a denial is left out, the model permits exactly when no   *)
(* check of the code finds one.  The risk approval of a request carries    *)
(* what its digest binds: the order it is for and when it was given.       *)
(***************************************************************************)
EXTENDS EngineOwner, FiniteSets

CONSTANTS
    Commands,   \* the commands the callers may submit
    OrderIds,
    Unit        \* MICROS_PER_UNIT

\* The commands and what they carry, by the fields that the engine reads.
IsModeObservation(v) == DOMAIN v = {"mode", "sequence", "observed", "validUntil"}

IsTimeInForce(v) == DOMAIN v = {"kind", "expires"}

IsSigner(v) ==
    DOMAIN v = {"venue", "tokens", "maxQuantity", "maxPrice", "maxNotional", "maker", "taker",
                "from", "until"}

\* The order is the exposure that risk approved, the approval its decision.
IsPlacement(v) ==
    /\ DOMAIN v = {"order", "approval", "venue", "tif", "postOnly", "marketable", "signer",
                   "expires", "maxApprovalAge", "maxModeAge"}
    /\ IsTimeInForce(v.tif) /\ IsSigner(v.signer)

IsCommand(c) ==
    \/ Variant(c, {"ObserveMode"}, {"observation"}) /\ IsModeObservation(c.observation)
    \/ Variant(c, {"AuthorizePlacement"}, {"request"}) /\ IsPlacement(c.request)
    \/ Variant(c, {"AuthorizeCancel"}, {"order", "maxModeAge"})
    \/ Variant(c, {"MarkDelayed"}, {"order", "release", "uncancellableUntil"})
    \/ Variant(c, {"MarkLive", "MarkTerminal"}, {"order"})

\* TrackedOrder, at stage "None" until it is authorized; `approvals' has the approval
\* it was authorized by.
Untracked ==
    [approvals |-> {}, expires |-> 0, stage |-> "None", release |-> 0,
     uncancellableUntil |-> 0]

\* `mode' has the latest observation, if there is one.
Initial == [mode |-> {}, orders |-> [o \in OrderIds |-> Untracked], usedApprovals |-> {}]

-----------------------------------------------------------------------------
(***************************************************************************)
(* ObserveMode                                                             *)
(***************************************************************************)
CanObserve(c) ==
    /\ 0 <= c.observation.observed
    /\ c.observation.observed < c.observation.validUntil
    /\ \A p \in state.mode :
           /\ c.observation.sequence >= p.sequence
           /\ c.observation.observed >= p.observed
           /\ c.observation.sequence = p.sequence => c.observation = p

ObserveMode(c) == state' = [state EXCEPT !.mode = {c.observation}]

(***************************************************************************)
(* AuthorizePlacement                                                      *)
(***************************************************************************)
ModeFresh(at, maxAge) ==
    /\ state.mode # {} /\ maxAge >= 0
    /\ \A m \in state.mode : m.observed <= at /\ at < m.validUntil /\ at - m.observed <= maxAge

ModeAllowsPlacement(r) ==
    \A m \in state.mode :
        \/ m.mode = "Normal"
        \/ m.mode = "PostOnly" /\ r.postOnly /\ ~r.marketable

\* Wrong variant, for mutation only: the approvals already used are not looked at.
ApprovalFreshUnused(r, at) ==
    /\ r.approval.authentic /\ r.approval.approved
    /\ r.approval.order = r.order
    /\ 0 <= r.maxApprovalAge
    /\ r.approval.evaluated <= at /\ at - r.approval.evaluated <= r.maxApprovalAge
ApprovalUsable(r, at) ==
    /\ r.approval.authentic /\ r.approval.approved
    /\ r.approval.order = r.order
    /\ 0 <= r.maxApprovalAge
    /\ r.approval.evaluated <= at /\ at - r.approval.evaluated <= r.maxApprovalAge
    /\ r.approval.digest \notin state.usedApprovals

DivCeil(a, b) == (a + b - 1) \div b
Notional(o) == DivCeil(o.price * o.quantity, Unit) + o.fee

SignerPermits(r, at) ==
    LET p == r.signer
    IN  /\ p.tokens # {} /\ p.maxQuantity > 0 /\ p.maxNotional > 0
        /\ p.maxPrice \in 0..Unit
        /\ 0 <= p.from /\ p.from < p.until
        /\ p.from <= at /\ at < p.until
        /\ r.venue = p.venue
        /\ r.order.token \in p.tokens
        /\ r.order.quantity <= p.maxQuantity
        /\ r.order.price <= p.maxPrice
        /\ Notional(r.order) <= p.maxNotional
        /\ IF r.marketable THEN p.taker ELSE p.maker

TimeInForceValid(r, at) ==
    /\ ~(r.postOnly /\ r.marketable)
    /\ r.tif.kind = "Gtd" => at < r.tif.expires
    /\ r.tif.kind \in {"Fok", "Fak"} => ~r.postOnly

PlacementPermitted(r, at) ==
    /\ ApprovalUsable(r, at)
    /\ state.orders[r.order.id].stage = "None"
    /\ at < r.expires
    /\ ModeFresh(at, r.maxModeAge) /\ ModeAllowsPlacement(r)
    /\ SignerPermits(r, at)
    /\ TimeInForceValid(r, at)

Place(c) ==
    LET r == c.request
    IN  state' = [state EXCEPT
            !.usedApprovals = @ \cup {r.approval.digest},
            !.orders[r.order.id] = [Untracked EXCEPT !.approvals = {r.approval.digest},
                                        !.expires = r.expires, !.stage = "Authorized"]]

(***************************************************************************)
(* MarkDelayed, MarkLive, MarkTerminal: an impossible step is an integrity *)
(* failure.                                                                *)
(***************************************************************************)
SetStage(o, stage) == state' = [state EXCEPT !.orders[o].stage = stage]

CanMarkDelayed(c) ==
    /\ c.at < c.release /\ c.release <= c.uncancellableUntil
    /\ state.orders[c.order].stage = "Authorized"
    /\ c.at < state.orders[c.order].expires

MarkDelayed(c) ==
    state' = [state EXCEPT !.orders[c.order].stage = "Delayed", !.orders[c.order].release = c.release,
                           !.orders[c.order].uncancellableUntil = c.uncancellableUntil]

\* Wrong variant, for mutation only: the release is taken a tick too early.
CanMarkLiveEarly(c) ==
    \/ state.orders[c.order].stage = "Authorized" /\ c.at < state.orders[c.order].expires
    \/ state.orders[c.order].stage = "Delayed" /\ c.at + 1 >= state.orders[c.order].release
CanMarkLive(c) ==
    \/ state.orders[c.order].stage = "Authorized" /\ c.at < state.orders[c.order].expires
    \/ state.orders[c.order].stage = "Delayed" /\ c.at >= state.orders[c.order].release

MarkLive(c) == SetStage(c.order, "Live")

CanMarkTerminal(c) == state.orders[c.order].stage \notin {"None", "Terminal"}

MarkTerminal(c) == SetStage(c.order, "Terminal")

(***************************************************************************)
(* AuthorizeCancel                                                         *)
(***************************************************************************)
ModeAllowsCancel == \A m \in state.mode : m.mode \notin {"Unknown", "Restarting"}

CancelPermitted(c) ==
    /\ state.orders[c.order].stage \in {"Authorized", "Delayed", "Live"}
    /\ state.orders[c.order].stage = "Delayed" => c.at >= state.orders[c.order].uncancellableUntil
    /\ ModeFresh(c.at, c.maxModeAge) /\ ModeAllowsCancel

Cancel(c) == SetStage(c.order, "CancelAuthorized")

-----------------------------------------------------------------------------
(***************************************************************************)
(* The engine and its owner in durable.rs                                  *)
(***************************************************************************)
\* validate_command
WellFormed(c) == c.op = "ObserveMode" => c.observation.observed <= c.at

\* The commands an integrity check can refuse.
Possible(c) ==
    CASE c.op = "ObserveMode" -> CanObserve(c)
      [] c.op = "MarkDelayed" -> CanMarkDelayed(c)
      [] c.op = "MarkLive" -> CanMarkLive(c)
      [] c.op = "MarkTerminal" -> CanMarkTerminal(c)
      [] OTHER -> TRUE

Permitted(c) ==
    CASE c.op = "AuthorizePlacement" -> PlacementPermitted(c.request, c.at)
      [] c.op = "AuthorizeCancel" -> CancelPermitted(c)
      [] OTHER -> TRUE

\* apply_fresh of a command that is permitted.
Permit(c) ==
    \/ c.op = "ObserveMode" /\ ObserveMode(c)
    \/ c.op = "AuthorizePlacement" /\ Place(c)
    \/ c.op = "MarkDelayed" /\ MarkDelayed(c)
    \/ c.op = "MarkLive" /\ MarkLive(c)
    \/ c.op = "MarkTerminal" /\ MarkTerminal(c)
    \/ c.op = "AuthorizeCancel" /\ Cancel(c)

\* A denial is a decision like another: recorded, without effect on the orders.
Handler(c) ==
    /\ Possible(c)
    /\ \/ Permitted(c) /\ Permit(c) /\ Decide(c, "Permit")
       \/ ~Permitted(c) /\ UNCHANGED state /\ Decide(c, "Deny")

Apply(c) == ApplyIdFirst(c, Possible(c), Handler(c))

Init == OwnerInit(Initial)
Journal(c) == JournalCommand(c, WellFormed(c), Possible(c))
Install == InstallCommand(Apply(Last(log)))
Recovery == RecoverWith(Apply(log[cursor + 1]), Initial)
WriteCheckpoint == SaveCheckpoint

Next ==
    \/ \E c \in Commands : Journal(c)
    \/ Install \/ SyncFails \/ Crash \/ Recovery \/ WriteCheckpoint

-----------------------------------------------------------------------------
PermittedOps(op) == Decided(op, "Permit")

\* "Reused risk approvals [...] cannot authorize twice": over the whole history no
\* two permitted placements share an approval or an order, and an approval is spent
\* exactly when an order tracks it.
ApprovalsSpentOnce ==
    /\ \A c, d \in PermittedOps("AuthorizePlacement") :
           \/ c.request.approval.digest = d.request.approval.digest
           \/ c.request.order.id = d.request.order.id
           => c = d
    /\ state.usedApprovals = UNION {state.orders[o].approvals : o \in OrderIds}

\* An order goes live no earlier than the release of its delay, however long ago it
\* was delayed, and leaves the state Authorized only before its permit expires.
ReleaseAndExpiryRespected ==
    /\ \A l \in PermittedOps("MarkLive"), d \in PermittedOps("MarkDelayed") :
           l.order = d.order => l.at >= d.release
    /\ \A c \in PermittedOps("AuthorizePlacement") :
           /\ \A d \in PermittedOps("MarkDelayed") :
                  d.order = c.request.order.id => d.at < c.request.expires
           /\ \A l \in PermittedOps("MarkLive") :
                  l.order = c.request.order.id =>
                      \/ l.at < c.request.expires
                      \/ \E d \in PermittedOps("MarkDelayed") : d.order = l.order

\* At most one cancel of an order is ever permitted, none before the order was
\* authorized or after it became terminal, and none in its uncancellable interval
\* unless the order went live before: mark_live forgets what is left of the interval.
CancelsFollowLifecycle ==
    \A c \in PermittedOps("AuthorizeCancel") :
        /\ \A d \in PermittedOps("AuthorizeCancel") : c.order = d.order => c = d
        /\ \E p \in PermittedOps("AuthorizePlacement") :
               p.request.order.id = c.order /\ p.at <= c.at
        /\ \A t \in PermittedOps("MarkTerminal") : t.order = c.order => c.at <= t.at
        /\ \A d \in PermittedOps("MarkDelayed") :
               c.order = d.order => \/ c.at >= d.uncancellableUntil
                                   \/ \E l \in PermittedOps("MarkLive") :
                                         l.order = c.order /\ l.at <= c.at

\* The two together: what becomes of an order is what its permits allow.
OrdersFollowTheirPermits == ReleaseAndExpiryRespected /\ CancelsFollowLifecycle
=============================================================================
