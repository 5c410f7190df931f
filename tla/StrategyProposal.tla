--------------------------- MODULE StrategyProposal ---------------------------
(***************************************************************************)
(* crates/strategy-proposal: a strategy's intent becomes a candidate order *)
(* only against a context captured from the coordinator, fresh and used in *)
(* the order of capture, and a proposal id is used once whatever the       *)
(* answer.                                                                 *)
(*                                                                         *)
(* A context has the fields of StrategyContext that are looked at; its     *)
(* digest is the context itself and `authentic' that it verifies.  The     *)
(* operators take the engine's fields s, so that the paired runtime can    *)
(* evaluate them on the engine it owns.                                    *)
(***************************************************************************)
EXTENDS EngineOwner

CONSTANTS Commands, Unit,
    MaxOf       \* MAX_CONTEXT_VALIDITY_NS, MAX_QUANTITY_MICROS and MAX_FEE_MICROS

\* The commands and what they carry, by the fields that the engine reads.
IsLevel(v) == DOMAIN v = {"price", "quantity"}

\* The best bid and ask are sets of at most one level.
IsBook(v) ==
    /\ DOMAIN v = {"bid", "ask", "authoritative"}
    /\ \A l \in v.bid \cup v.ask : IsLevel(l)

IsIntent(v) ==
    DOMAIN v = {"proposal", "token", "side", "price", "quantity", "fee", "partial",
                "evaluated", "expires"}

\* `view' is what capture read: the session, its coordinator and the frame.
IsCommand(c) ==
    /\ Variant(c, {"Evaluate"}, {"view", "intent"}) /\ IsIntent(c.intent)
    /\ \A b \in DOMAIN c.view.frame.books : IsBook(c.view.frame.books[b].up)
                                            /\ IsBook(c.view.frame.books[b].down)

Initial == [used |-> {}, contexts |-> {}, candidates |-> 0, rejects |-> 0]

-----------------------------------------------------------------------------
(***************************************************************************)
(* capture_context: what the context says of the frame the coordinator     *)
(* applied last, and of the session the identity names                     *)
(***************************************************************************)
CanCapture(v) ==
    /\ v.at >= 0 /\ v.at = v.frame.now /\ v.at <= v.until /\ v.until <= v.session.end
    /\ v.until - v.at <= MaxOf.validity
    /\ v.coordinator.evaluated = v.frame.now /\ v.coordinator.applied = v.frame
    /\ v.session \in v.coordinator.sessions /\ v.session.key \in DOMAIN v.frame.books

Captured(v) ==
    [captured |-> v.at, until |-> v.until, authentic |-> TRUE,
     current |-> v.coordinator.current = v.session.key,
     ready |-> ~v.coordinator.halted /\ v.session.phase = "ActiveReady" /\ v.frame.supervised,
     books |-> v.frame.books[v.session.key]]

-----------------------------------------------------------------------------
BooksReady(context) ==
    /\ DOMAIN context.books = {"up", "down"}
    /\ \A t \in DOMAIN context.books :
           LET b == context.books[t] IN b.authoritative /\ b.bid # {} /\ b.ask # {}

ValidEconomics(i) ==
    /\ i.quantity \in 1..MaxOf.quantity /\ i.partial \in 1..i.quantity
    /\ i.price \in 0..Unit /\ i.fee \in 0..MaxOf.fee
    /\ i.evaluated >= 0 /\ i.expires >= 0

\* An earlier context, or another one of the same time, is not taken.
ContextFollows(s, context) ==
    /\ context.authentic
    /\ \A p \in s.contexts : /\ context.captured >= p.captured
                             /\ context.captured = p.captured => context = p

\* evaluate: the first check that fails is the reason.
Reason(s, context, i) ==
    IF i.proposal \in s.used THEN "ProposalAlreadyUsed"
    ELSE IF ~context.current \/ ~context.ready \/ ~BooksReady(context) THEN "SourceNotReady"
    ELSE IF i.evaluated > context.until THEN "ContextExpired"
    ELSE IF i.evaluated > i.expires THEN "IntentExpired"
    ELSE IF i.token \notin {"up", "down"} THEN "UnknownToken"
    ELSE IF ~ValidEconomics(i) THEN "InvalidEconomics"
    ELSE "ContextAccepted"

After(s, context, i) ==
    LET accepted == Reason(s, context, i) = "ContextAccepted"
    IN  [used |-> s.used \cup {i.proposal}, contexts |-> {context},
         candidates |-> s.candidates + IF accepted THEN 1 ELSE 0,
         rejects |-> s.rejects + IF accepted THEN 0 ELSE 1]

\* derived_order_id binds the proposal, the context and the intent.
Candidate(context, i) ==
    [id |-> <<i.proposal, context, i>>, token |-> i.token, side |-> i.side, quantity |-> i.quantity,
     partial |-> i.partial, price |-> i.price, fee |-> i.fee]

-----------------------------------------------------------------------------
\* The caller has captured the context of its command from what it saw.
Context(c) == Captured(c.view)

\* validate_command.
WellFormed(c) ==
    CanCapture(c.view) /\ c.at >= 0 /\ c.intent.evaluated = c.at /\ c.view.at <= c.at

Possible(c) == ContextFollows(state, Context(c))

Handler(c) ==
    /\ Possible(c)
    /\ state' = After(state, Context(c), c.intent)
    /\ Decide(c, Reason(state, Context(c), c.intent))

Apply(c) == ApplyIdFirst(c, Possible(c), Handler(c))

Init == OwnerInit(Initial)
Journal(c) == JournalCommand(c, WellFormed(c), Possible(c))
Install == InstallCommand(Apply(Last(log)))
Recovery == RecoverWith(Apply(log[cursor + 1]), Initial)
WriteCheckpoint == SaveCheckpoint

Next ==
    \/ \E c \in Commands : Journal(c)
    \/ Install \/ SyncFails \/ Crash \/ Recovery \/ WriteCheckpoint

-----------------------------------------------------------------------------
Accepted == {p.command : p \in {q \in processed : q.status = "ContextAccepted"}}

\* A candidate order is made at most once of a proposal, in the order the contexts were
\* captured, from the frame the coordinator had applied, and neither the context nor the
\* intent had expired when it was made.
CandidatesAreFresh ==
    /\ \A c, d \in Accepted :
           /\ c.intent.proposal = d.intent.proposal => c = d
           /\ c.at < d.at => c.view.at <= d.view.at
    /\ \A c \in Accepted : c.at <= c.view.until /\ c.at <= c.intent.expires
                           /\ ~c.view.coordinator.halted /\ c.view.coordinator.applied = c.view.frame
=============================================================================
