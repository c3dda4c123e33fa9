------------------------------- MODULE Billing -------------------------------
(****************************************************************************)
(* The subscription of one workspace (webapp/src/lib/billing.ts and         *)
(* workspacePurge.ts, app/billing, api/v1/billing).                         *)
(*                                                                          *)
(* Owners start checkouts, Stripe turns paid sessions into subscriptions    *)
(* and reports what happens to them in webhooks that arrive late, twice and *)
(* in any order, and the owner may delete the workspace. The row of the     *)
(* workspace follows the webhooks; a claim on the row keeps a second        *)
(* checkout away while one is under way.                                    *)
(****************************************************************************)
EXTENDS Integers, FiniteSets

CONSTANTS
    Buyers,        \* requests for a checkout that may run at once
    MaxSessions,   \* bound: checkout sessions, each with its subscription
    CheckoutPending, \* CHECKOUT_PENDING_MS
    SessionLife,   \* how long Stripe keeps a session open
    Grace,         \* PAYMENT_GRACE_MS
    MaxTime,       \* bound: the clock, in seconds
    MaxFaults,     \* bound: calls to Stripe that fail
    MaxChanges     \* bound: renewals that fail or succeed, cancellations, disputes

ASSUME BillingAssumption ==
    /\ {MaxSessions, CheckoutPending} \subseteq Nat \ {0}
    /\ {SessionLife, Grace, MaxTime, MaxFaults, MaxChanges} \subseteq Nat

Checkouts == 1 .. MaxSessions

VARIABLES
    ws,       \* the workspace: live, being deleted, gone
    row,      \* WorkspaceSubscription
    attempt,  \* each owner's createCheckoutSession
    session,  \* Stripe's sessions
    sub,      \* Stripe's subscriptions: status and when it last changed
    events,   \* webhooks that Stripe has to deliver
    seen,     \* those with a BillingEvent row: delivered, and to come again
    now,
    faults,
    changes,
    loose     \* history: the claim did not stand for the session that was open (see README)

billingVars == <<ws, row, attempt, session, sub, events, seen, now, faults, changes, loose>>

LiveStatuses == {"active", "trialing", "past_due", "unpaid", "paused"}
TerminalStatuses == {"canceled", "incomplete_expired", "inactive"}
Statuses == {"active", "past_due", "incomplete"} \cup TerminalStatuses

NoRow == [sub |-> 0, status |-> "inactive", last |-> -1, grace |-> 0, claim |-> -1, no |-> 0, session |-> 0]
NoRequest == [pc |-> "idle", sid |-> 0, no |-> 0]

BillingTypeOK ==
    /\ ws \in {"live", "deleting", "gone"}
    /\ row \in [sub : Checkouts \cup {0}, status : Statuses, last : -1 .. MaxTime, grace : 0 .. MaxTime + Grace,
                claim : -1 .. MaxTime, no : Nat, session : Checkouts \cup {0}]
    /\ attempt \in [Buyers -> [pc : {"idle", "look", "expire", "release", "again", "post", "store"}, sid : Checkouts \cup {0}, no : Nat]]
    /\ \A s \in Checkouts : session[s].st \in {"none", "open", "expired", "complete"}
    /\ (row.status \in LiveStatuses) => row.sub # 0

-----------------------------------------------------------------------------
(* Stripe. An event is [of, type, status, at]: status is the one it reports *)

Live(s) == sub[s].status \in LiveStatuses
Event(s, type, status) == [of |-> s, type |-> type, status |-> status, at |-> now]

Change(s, status, reports) ==
    /\ sub' = [sub EXCEPT ![s] = [status |-> status, at |-> now]]
    /\ events' = events \cup reports

Fault == faults < MaxFaults /\ faults' = faults + 1
Changed == changes < MaxChanges /\ changes' = changes + 1

\* The customer pays, or the payment is still pending; a second after whatever happened to
\* an earlier subscription
Pay(s, status) ==
    /\ session[s].st = "open"
    /\ session' = [session EXCEPT ![s].st = "complete"]
    /\ \A t \in Checkouts : sub[t].status # "inactive" => sub[t].at < now
    /\ Change(s, status, {Event(s, "subscription", status)})
    /\ UNCHANGED <<ws, row, attempt, seen, now, faults, changes, loose>>

\* What Stripe reports of one subscription in one second has one outcome, deletion aside
Settle(s, status) ==
    /\ sub[s].status = "incomplete" /\ sub[s].at < now
    /\ Change(s, status, {Event(s, "subscription", status)})
    /\ UNCHANGED <<ws, row, attempt, session, seen, now, faults, changes, loose>>

PaymentFails(s) ==
    /\ sub[s].status = "active" /\ sub[s].at < now /\ Changed
    /\ Change(s, "past_due", {Event(s, "payment_failed", "none"), Event(s, "subscription", "past_due")})
    /\ UNCHANGED <<ws, row, attempt, session, seen, now, faults, loose>>

\* Stripe tries again: another failed invoice, or the subscription is active again
PaymentRetried(s, ok) ==
    /\ sub[s].status = "past_due" /\ sub[s].at < now /\ Changed
    /\ IF ok THEN Change(s, "active", {Event(s, "subscription", "active")})
             ELSE Change(s, "past_due", {Event(s, "payment_failed", "none")})
    /\ UNCHANGED <<ws, row, attempt, session, seen, now, faults, loose>>

CancelInPortal(s) ==
    /\ Live(s) /\ Changed
    /\ Change(s, "canceled", {Event(s, "deleted", "canceled")})
    /\ UNCHANGED <<ws, row, attempt, session, seen, now, faults, loose>>

DisputeOpened(s) ==
    /\ Live(s) /\ Changed
    /\ events' = events \cup {Event(s, "dispute", "none")}
    /\ UNCHANGED <<ws, row, attempt, session, sub, seen, now, faults, loose>>

SessionTimesOut(s) ==
    /\ session[s].st = "open" /\ now - session[s].at >= SessionLife
    /\ session' = [session EXCEPT ![s].st = "expired"]
    /\ events' = events \cup {Event(s, "expired", "none")}
    /\ UNCHANGED <<ws, row, attempt, sub, seen, now, faults, changes, loose>>

Tick ==
    /\ now < MaxTime /\ now' = now + 1
    /\ UNCHANGED <<ws, row, attempt, session, sub, events, seen, faults, changes, loose>>

-----------------------------------------------------------------------------
(* createCheckoutSession *)

HasLiveSubscription == row.sub # 0 /\ row.status \in LiveStatuses

FreshClaim == row.claim >= 0 /\ now - row.claim <= CheckoutPending

\* Mutant: a claim does not keep others away
ClaimableAlways == ~HasLiveSubscription

Claimable == ~HasLiveSubscription /\ ~FreshClaim

\* Something may still be paid, or has been and the row may not know
Payable ==
    \/ \E s \in Checkouts : session[s].st = "open" \/ Live(s) \/ sub[s].status = "incomplete"
    \/ \E o \in Buyers : attempt[o].pc \in {"post", "store"}
Underway == Payable \/ events # {}

\* A stale claim is taken over; its session may still be open
Claimed == [row EXCEPT !.claim = now, !.no = @ + 1]

ClaimCheckoutSlot(o) ==
    /\ attempt[o].pc = "idle" /\ ws # "gone"
    /\ IF Claimable
       THEN /\ row' = Claimed
            /\ attempt' = [attempt EXCEPT ![o] = [pc |-> "post", sid |-> 0, no |-> row.no + 1]]
            /\ loose' = (loose \/ (row.claim >= 0 /\ ~FreshClaim /\ Underway) \/ ws = "deleting")
       ELSE /\ ~HasLiveSubscription /\ row.session # 0
            /\ attempt' = [attempt EXCEPT ![o] = [pc |-> "look", sid |-> row.session, no |-> row.no]]
            /\ UNCHANGED <<row, loose>>
    /\ UNCHANGED <<ws, session, sub, events, seen, now, faults, changes>>

NextStep(st) == CASE st = "open" -> "expire" [] st = "complete" -> "idle" [] OTHER -> "release"

LookAtSession(o) ==
    /\ attempt[o].pc = "look"
    /\ \/ attempt' = [attempt EXCEPT ![o].pc = NextStep(session[attempt[o].sid].st)] /\ UNCHANGED faults
       \/ Fault /\ attempt' = [attempt EXCEPT ![o] = NoRequest]
    /\ UNCHANGED <<ws, row, session, sub, events, seen, now, changes, loose>>

ExpireSession(o) ==
    LET s == attempt[o].sid
    IN  /\ attempt[o].pc = "expire"
        /\ IF session[s].st = "open"
           THEN /\ session' = [session EXCEPT ![s].st = "expired"]
                /\ events' = events \cup {Event(s, "expired", "none")}
                /\ attempt' = [attempt EXCEPT ![o].pc = "release"]
           ELSE attempt' = [attempt EXCEPT ![o] = NoRequest] /\ UNCHANGED <<session, events>>
        /\ UNCHANGED <<ws, row, sub, seen, now, faults, changes, loose>>

Unclaimed == [row EXCEPT !.claim = -1, !.session = 0]

\* Whatever claim there is by now
ReleaseClaim(o) ==
    /\ attempt[o].pc = "release"
    /\ row' = Unclaimed
    /\ attempt' = [attempt EXCEPT ![o].pc = "again"]
    /\ loose' = (loose \/ (row.claim >= 0 /\ session[attempt[o].sid].no # row.no))
    /\ UNCHANGED <<ws, session, sub, events, seen, now, faults, changes>>

ClaimAgain(o) ==
    /\ attempt[o].pc = "again"
    /\ IF Claimable /\ ws # "gone"
       THEN /\ row' = Claimed
            /\ attempt' = [attempt EXCEPT ![o] = [pc |-> "post", sid |-> 0, no |-> row.no + 1]]
            /\ loose' = (loose \/ (row.claim >= 0 /\ ~FreshClaim /\ Underway) \/ ws = "deleting")
       ELSE attempt' = [attempt EXCEPT ![o] = NoRequest] /\ UNCHANGED <<row, loose>>
    /\ UNCHANGED <<ws, session, sub, events, seen, now, faults, changes>>

\* The key of the request is the claim as it is by now: the same claim gets the same
\* session again
SameKey == {s \in Checkouts : session[s].st # "none" /\ row.claim >= 0 /\ session[s].no = row.no}
Unused == {s \in Checkouts : session[s].st = "none"}

Post(o) ==
    /\ attempt[o].pc = "post"
    /\ \E s \in IF SameKey # {} THEN SameKey ELSE {t \in Unused : \A u \in Unused : t <= u} :
          /\ session' = IF s \in SameKey THEN session
                        ELSE [session EXCEPT ![s] = [st |-> "open", at |-> now, no |-> IF row.claim >= 0 THEN row.no ELSE 0]]
          /\ attempt' = [attempt EXCEPT ![o] = [pc |-> "store", sid |-> s, no |-> @.no]]
    /\ UNCHANGED <<ws, row, sub, events, seen, now, faults, changes, loose>>

\* Refused, or no answer to both attempts; either way the claim goes. A session that
\* Stripe did create stays open
PostFails(o, created) ==
    /\ attempt[o].pc = "post" /\ Fault
    /\ row' = IF ws = "gone" THEN row ELSE Unclaimed
    /\ attempt' = [attempt EXCEPT ![o] = NoRequest]
    /\ IF created
       THEN /\ SameKey = {}
            /\ \E s \in {t \in Unused : \A u \in Unused : t <= u} :
                  session' = [session EXCEPT ![s] = [st |-> "open", at |-> now, no |-> row.no]]
       ELSE UNCHANGED session
    /\ loose' = (loose \/ created \/ row.no # attempt[o].no)
    /\ UNCHANGED <<ws, sub, events, seen, now, changes>>

StoreSession(o) ==
    /\ attempt[o].pc = "store"
    /\ row' = IF ws = "gone" THEN row ELSE [row EXCEPT !.session = attempt[o].sid]
    /\ attempt' = [attempt EXCEPT ![o] = NoRequest]
    /\ loose' = (loose \/ row.no # attempt[o].no)
    /\ UNCHANGED <<ws, session, sub, events, seen, now, faults, changes>>

-----------------------------------------------------------------------------
(* applyStripeEvent *)

Stale(e) == e.at < row.last

\* Grace starts at the first failure and is not extended by retries
GraceEnd(e) == IF row.status = "past_due" /\ row.grace > 0 THEN row.grace ELSE now + Grace

OlderSubscription(e) == row.sub # 0 /\ row.sub # e.of /\ row.status \notin TerminalStatuses

\* Mutant: events of one second are taken in the order of their arrival
NeverBack(e) == FALSE

\* An event that is not later than a cancellation does not undo it
NotAfterCancellation(e) ==
    e.status \in LiveStatuses /\ e.at = row.last /\ row.status \in TerminalStatuses /\ row.sub = e.of

Applied(e) ==
    CASE e.type = "expired" -> IF row.session = e.of THEN Unclaimed ELSE row
      [] e.type = "payment_failed" ->
           IF ~Stale(e) /\ row.sub = e.of /\ row.status \in {"active", "trialing", "past_due"}
           THEN [row EXCEPT !.status = "past_due", !.grace = GraceEnd(e), !.last = e.at] ELSE row
      [] OTHER ->
           IF Stale(e) \/ OlderSubscription(e) \/ e.status = "incomplete" \/ NotAfterCancellation(e) THEN row
           ELSE [Unclaimed EXCEPT !.sub = e.of, !.status = e.status, !.last = e.at,
                                  !.grace = IF e.status = "past_due" THEN GraceEnd(e) ELSE 0]

\* Stripe sends it again when the answer was lost; the second time it is known
Deliver(e, again) ==
    /\ e.type # "dispute" /\ IF again THEN Fault ELSE UNCHANGED faults
    /\ row' = IF ws = "gone" \/ e \in seen THEN row ELSE Applied(e)
    /\ seen' = IF again THEN seen \cup {e} ELSE seen \ {e}
    /\ events' = IF again THEN events ELSE events \ {e}
    /\ UNCHANGED <<ws, attempt, session, sub, now, changes, loose>>

\* endSubscriptionForDispute: when Stripe cannot be reached the event comes again
DeliverDispute(e) ==
    /\ e.type = "dispute"
    /\ IF row.sub # 0 /\ row.status \notin TerminalStatuses /\ Live(row.sub) /\ ws # "gone"
       THEN /\ sub' = [sub EXCEPT ![row.sub] = [status |-> "canceled", at |-> now]]
            /\ events' = (events \ {e}) \cup {Event(row.sub, "deleted", "canceled")}
       ELSE events' = events \ {e} /\ UNCHANGED sub
    /\ UNCHANGED <<ws, row, attempt, session, seen, now, faults, changes, loose>>

-----------------------------------------------------------------------------
(* purgeWorkspace *)

Deletable == ~FreshClaim

\* A subscription that Stripe has ended already counts as cancelled
CancelWorkspaceSubscription ==
    /\ ws = "live" /\ Deletable
    /\ IF row.sub # 0 /\ row.status \notin TerminalStatuses /\ Live(row.sub)
       THEN Change(row.sub, "canceled", {Event(row.sub, "deleted", "canceled")})
       ELSE UNCHANGED <<sub, events>>
    /\ ws' = "deleting"
    /\ loose' = (loose \/ (row.claim >= 0 /\ ~FreshClaim /\ Underway))
    /\ UNCHANGED <<row, attempt, session, seen, now, faults, changes>>

PurgeWorkspace ==
    /\ ws = "deleting"
    /\ \/ ws' = "gone" /\ row' = NoRow /\ UNCHANGED faults
       \/ Fault /\ ws' = "live" /\ UNCHANGED row
    /\ UNCHANGED <<attempt, session, sub, events, seen, now, changes, loose>>

-----------------------------------------------------------------------------
BillingInit ==
    /\ ws = "live" /\ row = NoRow
    /\ attempt = [o \in Buyers |-> NoRequest]
    /\ session = [s \in Checkouts |-> [st |-> "none", at |-> 0, no |-> 0]]
    /\ sub = [s \in Checkouts |-> [status |-> "inactive", at |-> 0]]
    /\ events = {} /\ seen = {} /\ now = 0 /\ faults = 0 /\ changes = 0 /\ loose = FALSE

BillingNext ==
    \/ Tick \/ CancelWorkspaceSubscription \/ PurgeWorkspace
    \/ \E s \in Checkouts : \/ PaymentFails(s) \/ CancelInPortal(s) \/ DisputeOpened(s) \/ SessionTimesOut(s)
                            \/ \E ok \in BOOLEAN : PaymentRetried(s, ok)
                            \/ \E status \in {"active", "incomplete"} : Pay(s, status)
                            \/ \E status \in {"active", "incomplete_expired"} : Settle(s, status)
    \/ \E o \in Buyers : \/ ClaimCheckoutSlot(o) \/ LookAtSession(o) \/ ExpireSession(o) \/ ReleaseClaim(o)
                         \/ ClaimAgain(o) \/ Post(o) \/ StoreSession(o)
                         \/ \E created \in BOOLEAN : PostFails(o, created)
    \/ \E e \in events : DeliverDispute(e) \/ \E again \in BOOLEAN : Deliver(e, again)

BillingSpec == BillingInit /\ [][BillingNext]_billingVars

-----------------------------------------------------------------------------
(* Properties *)

Billed == {s \in Checkouts : Live(s)}

\* A workspace never pays for two subscriptions, however many owners start a checkout,
\* redo one or pay while it is being redone. Left out: a claim that ran out or was taken
\* from under its owner while its session was open. And a workspace that was deleted is not
\* billed any more (cancelWorkspaceSubscription).
NoDoubleBilling ==
    BillingTypeOK /\ (~loose => Cardinality(Billed) <= IF ws = "gone" THEN 0 ELSE 1)

\* Once every webhook has arrived, in whatever order and however often, the row says what
\* Stripe says.
RowFollowsStripe ==
    (events = {} /\ ws = "live" /\ ~loose) =>
        /\ HasLiveSubscription <=> Billed # {}
        /\ \A s \in Billed : row.sub = s /\ row.status = sub[s].status

=============================================================================
