-------------------------------- MODULE Billing --------------------------------
(***************************************************************************)
(* The subscription of one workspace: trial, Stripe payments and the       *)
(* operator's scripts/set_plan.py (app/plans.py, app/payments.py,          *)
(* app/routers/billing.py, app/routers/webhook.py and the billing tables   *)
(* of the stores).                                                         *)
(*                                                                         *)
(* Stripe reports a paid Checkout Session by webhook, at least once and in *)
(* any order, and the success page asks for it as well: several handlers   *)
(* fulfil one session at a time.  Time is relative: a row carries what is  *)
(* left until current_period_end.                                          *)
(***************************************************************************)
EXTENDS Integers, FiniteSets, FiniteSetsExt

CONSTANTS
    Sessions,         \* Checkout Sessions
    Handlers,         \* concurrent executions of the web process
    Offers,           \* [plan, cycle] records that can be bought
    Price, Days,      \* PLANS[plan]["prices"][cycle] and PERIOD_DAYS[cycle]
    UnitPrice,        \* a unit of time costs at most this much with every offer
    TrialOffer,       \* what a trial grants, and
    TrialDays,        \* for how long (SUBSCRIPTION_TRIAL_DAYS)
    HouseOffer,       \* plan of the default workspace
    Repriced,         \* sessions Stripe may report with another amount than the price
    Hop,              \* time that passes in a Tick
    MaxTicks,         \* bound on Tick
    MaxMishaps,       \* bound on failing handlers
    MaxOperatorRuns,  \* bound on runs of set_plan.py
    None              \* NULL, and "no row"

ASSUME OfferAssumption == /\ TrialOffer \in Offers /\ HouseOffer \in Offers
                          /\ Days \in [Offers -> Nat \ {0}]
                          /\ Price \in [Offers -> Nat \ {0}]
                          /\ UnitPrice \in Nat /\ \A o \in Offers : Price[o] <= UnitPrice * Days[o]
ASSUME TimeAssumption == TrialDays \in Nat /\ Hop \in Nat \ {0}
ASSUME BoundAssumption == MaxTicks \in Nat /\ MaxMishaps \in Nat /\ MaxOperatorRuns \in Nat

VARIABLES
    house,     \* is this the default workspace?
    sub,       \* its subscriptions row
    payment,   \* billing_payments: status per session id
    request,   \* is an upgrade request pending?
    stripe,    \* what Stripe knows of each session
    unacked,   \* paid sessions whose event got no 2xx answer yet
    pc, job,   \* what each handler does, and for what
    op,        \* the running set_plan.py
    runs,      \* how often set_plan.py was started
    mishaps,   \* failures so far
    used,      \* worth of the time that has passed while a plan ran (not in the code), and
    revalued,  \* what rests of plans gained or lost by a renewal (not in the code)
    ticks      \* Ticks so far

stripeVars == <<stripe, unacked>>
webVars == <<pc, job>>
opVars == <<op, runs>>
clockVars == <<used, revalued, ticks>>
vars == <<house, sub, payment, request, stripeVars, webVars, opVars, mishaps, clockVars>>

-------------------------------------------------------------------------------
(* app/plans.py *)

Row == [offer: Offers, status: {"trial", "active", "expired"}, left: Nat \cup {None}]

ASSUME NoneAssumption == None \notin Nat /\ None \notin Sessions /\ None \notin Row

\* effective_status, for a row that has an end
Running(row) ==
    row # None /\ row.status \in {"trial", "active"} /\ row.left # None /\ row.left > 0

\* The row get_or_create_subscription makes for a workspace that has none.
FreshRow ==
    IF house
    THEN [offer |-> HouseOffer, status |-> "active", left |-> None]
    ELSE [offer |-> TrialOffer, status |-> "trial", left |-> TrialDays]

\* ensure_subscription: INSERT OR IGNORE. mutant: an upsert.
EnsuredByUpsert(row) == FreshRow
Ensured(row) == IF row = None THEN FreshRow ELSE row

HasNoEndDate(row) == row # None /\ row.status = "active" /\ row.left = None

\* Unused time of one plan in time of another, at their daily prices.
Converted(left, old, new) ==
    (left * Price[old] * Days[new]) \div (Days[old] * Price[new])

\* mutant of Carried: a running plan of the other kind is simply replaced
CarriedWithinPlan(row, o) == IF Running(row) /\ row.offer.plan = o.plan THEN row.left ELSE 0

\* What paid_period_end keeps of the current row when o is bought.
Carried(row, o) ==
    CASE ~Running(row) -> 0
      [] Running(row) /\ row.offer.plan = o.plan -> row.left
      [] Running(row) /\ row.offer.plan # o.plan ->
            IF row.status = "active" THEN Converted(row.left, row.offer, o) ELSE 0

\* paid_period_end
PaidPeriod(row, o) == Carried(row, o) + Days[o]

ActiveRow(row, o) == [offer |-> o, status |-> "active", left |-> PaidPeriod(row, o)]

\* mutant of Passed: the rest is not bounded below by 0
PassedUnclipped(row) ==
    IF row = None \/ row.left = None THEN row ELSE [row EXCEPT !.left = @ - Hop]

\* The row after Hop has passed (what is left is never reported below 0).
Passed(row) ==
    IF row = None \/ row.left = None THEN row
    ELSE [row EXCEPT !.left = IF @ > Hop THEN @ - Hop ELSE 0]

\* What the rest of a running period is worth at its daily price.
Worth(row) == IF Running(row) THEN (row.left * Price[row.offer]) \div Days[row.offer] ELSE 0

\* What the rest gains or loses when renewing its plan for the other cycle puts it under
\* that cycle's price per day.
Revaluation(row, o) ==
    IF Running(row) /\ row.offer.plan = o.plan THEN Worth([row EXCEPT !.offer = o]) - Worth(row) ELSE 0

-------------------------------------------------------------------------------
NoJob == [session |-> None, from |-> "web"]
NoSession == [state |-> "none", offer |-> TrialOffer, exact |-> TRUE]

Init ==
    /\ house \in BOOLEAN
    /\ sub = None
    /\ payment = [s \in Sessions |-> "none"]
    /\ request = FALSE
    /\ stripe = [s \in Sessions |-> NoSession]
    /\ unacked = {}
    /\ pc = [h \in Handlers |-> "idle"]
    /\ job = [h \in Handlers |-> NoJob]
    /\ op = [at |-> "idle", row |-> None]
    /\ runs = 0 /\ mishaps = 0 /\ used = 0 /\ revalued = 0 /\ ticks = 0

\* POST /api/billing/create-checkout-session. Stripe creates the session after the checks;
\* the amount it reports later may differ from the price in force by then.
Checkout(s) ==
    /\ stripe[s].state = "none"
    /\ ~HasNoEndDate(Ensured(sub))
    /\ sub' = Ensured(sub)
    /\ \E o \in Offers, exact \in {TRUE} \cup {s \notin Repriced} :
          stripe' = [stripe EXCEPT ![s] = [state |-> "open", offer |-> o, exact |-> exact]]
    /\ UNCHANGED <<house, payment, request, unacked, webVars, opVars, mishaps, clockVars>>

\* The customer's money arrives, at once or with an asynchronous method, and Stripe sends
\* the event that says so.
Pays(s) ==
    /\ stripe[s].state = "open"
    /\ stripe' = [stripe EXCEPT ![s].state = "paid"]
    /\ unacked' = unacked \cup {s}
    /\ UNCHANGED <<house, sub, payment, request, webVars, opVars, mishaps, clockVars>>

\* POST /api/billing/upgrade-request
RequestUpgrade ==
    /\ ~request
    /\ request' = TRUE
    /\ UNCHANGED <<house, sub, payment, stripeVars, webVars, opVars, mishaps, clockVars>>

-------------------------------------------------------------------------------
(* The web process *)

Leave(h) ==
    /\ pc' = [pc EXCEPT ![h] = "idle"]
    /\ job' = [job EXCEPT ![h] = NoJob]

\* The answer 200, after which Stripe stops repeating the event.
Acknowledge(h) ==
    unacked' = IF job[h].from = "stripe" THEN unacked \ {job[h].session} ELSE unacked

\* mutant of ReportedPaid: a completed session is taken for a paid one
ReportedComplete(s) == stripe[s].state # "none"

\* fulfill_checkout_session returns at once for a session that is not "paid".
ReportedPaid(s) == stripe[s].state = "paid"

\* fulfill_checkout_session up to the first read of the subscription, for an event (Stripe
\* may repeat one that was answered) or for the success page.
Fulfil(h, s, from) ==
    /\ pc[h] = "idle"
    /\ ReportedPaid(s)
    /\ pc' = [pc EXCEPT ![h] = IF sub = None THEN "create" ELSE "apply"]
    /\ job' = [job EXCEPT ![h] = [session |-> s, from |-> from]]
    /\ UNCHANGED <<house, sub, payment, request, stripeVars, opVars, mishaps, clockVars>>

WebhookEvent(h, s) == Fulfil(h, s, "stripe")
SuccessPage(h, s) == Fulfil(h, s, "web")

\* Registration, and every request that needs the plan: get_or_create_subscription finds
\* no row.
FirstVisit(h) ==
    /\ pc[h] = "idle"
    /\ sub = None
    /\ pc' = [pc EXCEPT ![h] = "create"]
    /\ UNCHANGED <<house, sub, payment, request, stripeVars, job, opVars, mishaps, clockVars>>

\* ... and calls ensure_subscription, by now perhaps for a workspace that has one.
Create(h) ==
    /\ pc[h] = "create"
    /\ sub' = Ensured(sub)
    /\ pc' = [pc EXCEPT ![h] = IF job[h].session = None THEN "idle" ELSE "apply"]
    /\ UNCHANGED <<house, payment, request, stripeVars, job, opVars, mishaps, clockVars>>

\* mutant of Activates: the payment id is not looked at
ActivatesAgain(s) == stripe[s].exact /\ ~HasNoEndDate(sub)

\* The payment id is new, the amount is right and it is not the house account.
Activates(s) == payment[s] = "none" /\ stripe[s].exact /\ ~HasNoEndDate(sub)

\* mutant of Apply: no payment row is kept for a payment that needs a review
ApplyOrDrop(h) ==
    LET s == job[h].session
    IN  /\ pc[h] = "apply"
        /\ IF Activates(s)
           THEN /\ payment' = [payment EXCEPT ![s] = "paid"]
                /\ sub' = ActiveRow(sub, stripe[s].offer)
                /\ revalued' = revalued + Revaluation(sub, stripe[s].offer)
                /\ pc' = [pc EXCEPT ![h] = "close"]
                /\ UNCHANGED <<job, unacked>>
           ELSE Leave(h) /\ Acknowledge(h) /\ UNCHANGED <<payment, sub, revalued>>
        /\ UNCHANGED <<house, request, stripe, opVars, mishaps, used, ticks>>

\* apply_payment: one transaction around the payment row and the subscription row.
Apply(h) ==
    LET s == job[h].session
    IN  /\ pc[h] = "apply"
        /\ IF Activates(s)
           THEN /\ payment' = [payment EXCEPT ![s] = "paid"]
                /\ sub' = ActiveRow(sub, stripe[s].offer)
                /\ revalued' = revalued + Revaluation(sub, stripe[s].offer)
                /\ pc' = [pc EXCEPT ![h] = "close"]
                /\ UNCHANGED <<job, unacked>>
           ELSE /\ payment' = [payment EXCEPT ![s] = IF @ = "none" THEN "review" ELSE @]
                /\ Leave(h)
                /\ Acknowledge(h)
                /\ UNCHANGED <<sub, revalued>>
        /\ UNCHANGED <<house, request, stripe, opVars, mishaps, used, ticks>>

\* set_upgrade_requests_status("fulfilled"), a transaction of its own, and the answer.
Close(h) ==
    /\ pc[h] = "close"
    /\ request' = FALSE
    /\ Leave(h)
    /\ Acknowledge(h)
    /\ UNCHANGED <<house, sub, payment, stripe, opVars, mishaps, clockVars>>

\* The database raises or the process dies: no answer, the open transaction is rolled back.
Fails(h) ==
    /\ mishaps < MaxMishaps
    /\ pc[h] # "idle"
    /\ Leave(h)
    /\ mishaps' = mishaps + 1
    /\ UNCHANGED <<house, sub, payment, request, stripeVars, opVars, clockVars>>

-------------------------------------------------------------------------------
(* scripts/set_plan.py: read, compute, write *)

OperatorReads ==
    /\ op.at = "idle" /\ runs < MaxOperatorRuns
    /\ runs' = runs + 1
    /\ sub' = Ensured(sub)
    /\ \/ \E o \in Offers : op' = [at |-> "activate", row |-> ActiveRow(sub', o)]
       \/ op' = [at |-> "expire", row |-> [sub' EXCEPT !.status = "expired", !.left = 0]]
    /\ UNCHANGED <<house, payment, request, stripeVars, webVars, mishaps, clockVars>>

\* save_subscription
OperatorSaves ==
    /\ op.at \in {"activate", "expire"}
    /\ sub' = op.row
    /\ op' = [at |-> IF op.at = "activate" THEN "close" ELSE "idle", row |-> None]
    /\ UNCHANGED <<house, payment, request, stripeVars, webVars, runs, mishaps, clockVars>>

\* set_upgrade_requests_status("fulfilled")
OperatorCloses ==
    /\ op.at = "close"
    /\ request' = FALSE
    /\ op' = [op EXCEPT !.at = "idle"]
    /\ UNCHANGED <<house, sub, payment, stripeVars, webVars, runs, mishaps, clockVars>>

Tick ==
    /\ ticks < MaxTicks
    /\ ticks' = ticks + 1
    /\ sub' = Passed(sub)
    /\ op' = [op EXCEPT !.row = Passed(@)]
    /\ used' = used + Worth(sub) - Worth(Passed(sub))
    /\ UNCHANGED <<house, payment, request, stripeVars, webVars, runs, mishaps, revalued>>

HandlerStep(h) == Create(h) \/ Apply(h) \/ Close(h)

Next ==
    \/ \E s \in Sessions : Checkout(s) \/ Pays(s)
    \/ RequestUpgrade
    \/ \E h \in Handlers : \/ HandlerStep(h) \/ FirstVisit(h) \/ Fails(h)
                           \/ \E s \in Sessions : WebhookEvent(h, s) \/ SuccessPage(h, s)
    \/ OperatorReads \/ OperatorSaves \/ OperatorCloses
    \/ Tick

Spec == Init /\ [][Next]_vars

\* Stripe keeps repeating an unanswered event, and a started handler runs on or fails.
Repeats(s) == s \in unacked /\ \E h \in Handlers : WebhookEvent(h, s)
Fairness ==
    /\ \A h \in Handlers : WF_vars(HandlerStep(h))
    /\ \A s \in Sessions : SF_vars(Repeats(s))

FairSpec == Spec /\ Fairness
-------------------------------------------------------------------------------
(* Properties *)

\* The billing tables, Stripe's view and the handlers have their shapes.
TypeOK ==
    /\ house \in BOOLEAN
    /\ sub \in Row \cup {None}
    /\ payment \in [Sessions -> {"none", "paid", "review"}]
    /\ request \in BOOLEAN
    /\ stripe \in [Sessions -> [state: {"none", "open", "paid"}, offer: Offers, exact: BOOLEAN]]
    /\ unacked \subseteq Sessions
    /\ pc \in [Handlers -> {"idle", "create", "apply", "close"}]
    /\ job \in [Handlers -> [session: Sessions \cup {None}, from: {"stripe", "web"}]]
    /\ op \in [at: {"idle", "activate", "expire", "close"}, row: Row \cup {None}]
    /\ runs \in Nat /\ mishaps \in Nat /\ used \in Int /\ revalued \in Int
    /\ ticks \in Nat

\* What the applied payments have cost.
Cost(checkouts, S) == MapThenSumSet(LAMBDA s : Price[checkouts[s].offer], S)
PaidSessions == {s \in Sessions : payment[s] = "paid"}
Paid == Cost(stripe, PaidSessions)

\* What was paid is there as the rest of the running plan or was used, less a unit of time
\* for each payment, which converting rounds away, ...
LittleLost == Paid + revalued <= Worth(sub) + used + UnitPrice * Cardinality(PaidSessions)
\* ... and nothing else is, except the trial.
NothingGivenAway ==
    Worth(sub) + used <= Paid + revalued + (TrialDays * Price[TrialOffer]) \div Days[TrialOffer]

\* As long as only Stripe changes the plan, renewing, upgrading and downgrading lose nothing
\* that was paid for and give nothing away beyond the trial, however webhook repeats, the
\* success page, failures and time interleave (paid_period_end, apply_payment): what is left
\* has the price of what was bought, with the one exception that renewing a plan for the
\* other cycle keeps the days and prices them anew.
FairDeal == runs = 0 => LittleLost /\ NothingGivenAway

\* A plan with an end was paid for or set by the operator, and only a session Stripe
\* reports as paid leaves a payment row.
OnlyPaidPlans ==
    /\ \A s \in Sessions : payment[s] # "none" => stripe[s].state = "paid"
    /\ sub # None /\ sub.status = "active" /\ sub.left # None =>
          runs > 0 \/ \E s \in Sessions : payment[s] = "paid"

\* A session extends the plan at most once: payment rows are final, and a handler changes
\* the running plan only in the transaction that marks one more session as paid.
AppliedOnce ==
    [][/\ \A s \in Sessions : payment[s] # "none" => payment'[s] = payment[s]
       /\ sub # None /\ webVars' # webVars /\ sub' # sub =>
             \E s \in Sessions : payment[s] = "none" /\ payment'[s] = "paid"]_vars

\* A workspace gets one trial: a first visit that races a payment does not turn the paid
\* plan back into a trial, and a trial does not start again.
OneTrial ==
    [][sub # None => /\ sub' # None
                     /\ sub'.status = "trial" =>
                           sub.status = "trial" /\ sub'.left <= sub.left]_vars

\* Renewing early never loses days: set_plan.py, like a payment, adds a period to what is
\* left of the running plan.
RenewingAddsAPeriod ==
    [][op.at = "activate" /\ op'.at = "close" /\ Running(sub)
          /\ sub.offer.plan = op.row.offer.plan =>
              sub'.left = sub.left + Days[op.row.offer]]_vars

\* Whatever fails, a session that was paid for is applied or kept for review in the end.
PaidIsSettled == \A s \in Sessions : stripe[s].state = "paid" ~> payment[s] # "none"

===============================================================================
