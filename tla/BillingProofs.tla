----------------------------- MODULE BillingProofs -----------------------------
(***************************************************************************)
(* What Billing guarantees for any number of sessions, handlers, failures  *)
(* and runs of the operator's script, and for any price list; and what a   *)
(* workspace gets for its payments while only Stripe changes its plan.     *)
(***************************************************************************)
EXTENDS Billing, FiniteSetTheorems, Induction, TLAPS

-------------------------------------------------------------------------------
(* The arithmetic of paid_period_end *)

\* The quotient of two naturals is a natural.
LEMMA DivNat == ASSUME NEW a \in Nat, NEW b \in Nat \ {0} PROVE a \div b \in Nat
  BY SMT

\* The product of two naturals is a natural, and positive if they are.
LEMMA TimesNat ==
  ASSUME NEW a \in Nat, NEW b \in Nat
  PROVE  a * b \in Nat /\ (a # 0 /\ b # 0 => a * b # 0)
  BY SMT

\* What a quotient is.
LEMMA DivBounds ==
  ASSUME NEW a \in Int, NEW b \in Nat \ {0}
  PROVE  a \div b \in Int /\ b * (a \div b) <= a /\ a < b * (a \div b) + b
  BY SMT

\* A quotient is the greatest such number,
LEMMA DivGreatest ==
  ASSUME NEW a \in Int, NEW b \in Nat \ {0}, NEW q \in Int, b * q <= a
  PROVE  q <= a \div b
<1> DEFINE d == a \div b
<1>1. d \in Int /\ a < b * d + b
  BY DivBounds
<1> HIDE DEF d
<1>2. CASE q > d
  <2>1. q >= d + 1
    BY <1>1, <1>2
  <2>2. b * q >= b * (d + 1)
    BY <1>1, <2>1
  <2>3. b * (d + 1) = b * d + b
    BY <1>1
  <2>4. b * q \in Int /\ b * d \in Int
    BY <1>1
  <2> QED BY <1>1, <2>2, <2>3, <2>4
<1>3. q <= d
  BY <1>1, <1>2
<1> QED BY <1>3 DEF d

\* grows with the dividend,
LEMMA DivMonotone ==
  ASSUME NEW a \in Int, NEW c \in Int, a <= c, NEW b \in Nat \ {0}
  PROVE  a \div b <= c \div b
<1> DEFINE d == a \div b
<1>1. d \in Int /\ b * d <= a
  BY DivBounds
<1> HIDE DEF d
<1>2. b * d \in Int
  BY <1>1
<1>3. b * d <= c
  BY <1>1, <1>2
<1>4. d <= c \div b
  BY <1>1, <1>3, DivGreatest
<1> QED BY <1>4 DEF d

\* and splits off multiples of the divisor.
LEMMA DivPlus ==
  ASSUME NEW a \in Int, NEW b \in Nat \ {0}, NEW k \in Int
  PROVE  (a + b * k) \div b = a \div b + k
<1> DEFINE d == a \div b  e == (a + b * k) \div b
<1>0. b * k \in Int /\ a + b * k \in Int
  OBVIOUS
<1>1. d \in Int /\ b * d <= a /\ a < b * d + b
  BY DivBounds
<1>2. e \in Int /\ b * e <= a + b * k /\ a + b * k < b * e + b
  BY <1>0, DivBounds
<1> HIDE DEF d
<1>3. d + k <= e
  <2>1. b * (d + k) = b * d + b * k /\ b * d \in Int
    BY <1>1
  <2>2. b * (d + k) <= a + b * k /\ d + k \in Int
    BY <1>0, <1>1, <2>1
  <2> QED BY <1>0, <2>2, DivGreatest
<1> HIDE DEF e
<1>4. e - k <= d
  <2>1. b * (e - k) = b * e - b * k /\ b * e \in Int
    BY <1>2
  <2>2. b * (e - k) <= a /\ e - k \in Int
    BY <1>0, <1>2, <2>1
  <2>3. e - k <= a \div b
    BY <2>2, DivGreatest
  <2> QED BY <2>3 DEF d
<1>5. e = d + k
  BY <1>1, <1>2, <1>3, <1>4
<1> QED BY <1>5 DEF d, e

\* A positive factor on both sides cancels.
LEMMA Cancel ==
  ASSUME NEW b \in Nat \ {0}, NEW x \in Int, NEW y \in Int
  PROVE  /\ b * x <= b * y => x <= y
         /\ b * x < b * y => x < y
         /\ x <= y => b * x <= b * y
         /\ x < y => b * x < b * y
<1>1. x <= y => b * x <= b * y
  BY SMT
<1>2. x < y => b * x < b * y
  BY SMT
<1>3. b * x \in Int /\ b * y \in Int
  OBVIOUS
<1> QED BY <1>1, <1>2, <1>3

\* Converted time is worth what it was converted from, up to rounding: never more, and less
\* by no more than a unit of time of the new plan is worth.
LEMMA ConvertedWorth ==
  ASSUME NEW a \in Nat, NEW d1 \in Nat \ {0}, NEW p \in Nat \ {0}, NEW d2 \in Nat \ {0}
  PROVE  LET left == (a * d2) \div (d1 * p)
             worth == (left * p) \div d2
         IN  /\ worth <= a \div d1
             /\ \A L \in Nat : p <= L * d2 => a \div d1 <= worth + L
<1> DEFINE left == (a * d2) \div (d1 * p)
           worth == (left * p) \div d2
           was == a \div d1
<1>1. a * d2 \in Int /\ d1 * p \in Nat \ {0}
  OBVIOUS
<1>2. /\ left \in Int
      /\ (d1 * p) * left <= a * d2
      /\ a * d2 < (d1 * p) * left + d1 * p
  BY <1>1, DivBounds
<1>3. was \in Int /\ d1 * was <= a
  BY DivBounds
<1> HIDE DEF left, was
<1> DEFINE x == left * p
<1>4. x \in Int /\ (d1 * p) * left = d1 * x
  BY <1>2
<1> HIDE DEF x
<1>5. worth \in Int /\ d2 * worth <= x /\ x < d2 * worth + d2
  <2>1. worth = x \div d2
    BY DEF x
  <2> QED BY <1>4, <2>1, DivBounds
<1> HIDE DEF worth
<1>6. worth <= was
  <2>1. d1 * worth \in Int /\ d2 * worth \in Int /\ d1 * x \in Int
    BY <1>4, <1>5
  <2>2. d1 * (d2 * worth) <= d1 * x
    BY <1>4, <1>5, <2>1, Cancel
  <2>3. d1 * (d2 * worth) = d2 * (d1 * worth) /\ a * d2 = d2 * a
    BY <1>5
  <2>4. d2 * (d1 * worth) <= d2 * a
    BY <1>1, <1>2, <1>4, <2>1, <2>2, <2>3
  <2>5. d1 * worth <= a
    BY <2>1, <2>4, Cancel
  <2>6. worth <= a \div d1
    BY <1>5, <2>5, DivGreatest
  <2> QED BY <2>6 DEF was
<1>7. ASSUME NEW L \in Nat, p <= L * d2 PROVE was <= worth + L
  <2>1. d2 * was \in Int /\ d1 * was \in Int /\ d2 * worth \in Int /\ L * d2 \in Int
        /\ worth + L \in Int
    BY <1>3, <1>5
  <2>2. d2 * (d1 * was) <= d2 * a
    BY <1>3, <2>1, Cancel
  <2>3. d2 * (d1 * was) = d1 * (d2 * was) /\ a * d2 = d2 * a
    BY <1>3
  <2>4. d1 * x + d1 * p = d1 * (x + p) /\ x + p \in Int
    BY <1>4
  <2>5. d1 * (d2 * was) < d1 * (x + p)
    BY <1>1, <1>2, <1>4, <2>1, <2>2, <2>3, <2>4
  <2>6. d2 * was < x + p
    BY <2>1, <2>4, <2>5, Cancel
  <2>7. d2 * was < d2 * worth + d2 + L * d2
    BY <1>4, <1>5, <1>7, <2>1, <2>6
  <2>8. d2 * worth + d2 + L * d2 = d2 * (worth + L + 1) /\ worth + L + 1 \in Int
    BY <1>5, <2>1
  <2>9. was < worth + L + 1
    BY <1>3, <2>1, <2>7, <2>8, Cancel
  <2> QED BY <1>3, <2>1, <2>9
<1> QED BY <1>6, <1>7 DEF worth, was, left

\* Converting unused time gives a natural number of units of time.
LEMMA ConvertedNat ==
  ASSUME NEW left \in Nat, NEW old \in Offers, NEW new \in Offers
  PROVE  Converted(left, old, new) \in Nat
<1>1. Price[old] \in Nat \ {0} /\ Price[new] \in Nat \ {0}
      /\ Days[old] \in Nat \ {0} /\ Days[new] \in Nat \ {0}
  BY OfferAssumption
<1>2. left * Price[old] \in Nat
  BY <1>1, TimesNat
<1>3. left * Price[old] * Days[new] \in Nat
  BY <1>1, <1>2, TimesNat
<1>4. Days[old] * Price[new] \in Nat \ {0}
  BY <1>1, TimesNat
<1> QED
  BY <1>3, <1>4, DivNat DEF Converted

\* What is kept of the current row is a number of units of time.
LEMMA CarriedNat ==
  ASSUME NEW row \in Row \cup {None}, NEW o \in Offers
  PROVE  Carried(row, o) \in Nat
<1>1. CASE ~Running(row)
  BY <1>1 DEF Carried
<1>2. CASE Running(row)
  <2>1. row.offer \in Offers /\ row.left \in Nat
    BY <1>2 DEF Running, Row
  <2>2. Converted(row.left, row.offer, o) \in Nat
    BY <2>1, ConvertedNat
  <2> QED
    BY <1>2, <2>1, <2>2 DEF Carried
<1> QED
  BY <1>1, <1>2

\* A payment or the operator gives the workspace an active plan with an end.
LEMMA ActiveRowIsRow ==
  ASSUME NEW row \in Row \cup {None}, NEW o \in Offers
  PROVE  /\ ActiveRow(row, o) \in Row
         /\ ActiveRow(row, o).status = "active"
         /\ ActiveRow(row, o).left \in Nat
<1>1. Carried(row, o) \in Nat
  BY CarriedNat
<1>2. PaidPeriod(row, o) \in Nat
  BY <1>1, OfferAssumption DEF PaidPeriod
<1> QED
  BY <1>2 DEF ActiveRow, Row

-------------------------------------------------------------------------------
(* The inductive invariant *)

\* A trial has an end.
TrialEnds(row) == row # None /\ row.status = "trial" => row.left \in Nat

\* A handler that applies a payment has a session.
JobOK == \A h \in Handlers : pc[h] \in {"apply", "close"} => job[h].session \in Sessions

\* The row the operator is about to save is never a trial.
OpOK == IF op.at \in {"activate", "expire"}
        THEN op.row \in Row /\ op.row.status # "trial"
        ELSE op.row = None

TypeInv == TypeOK /\ TrialEnds(sub) /\ JobOK /\ OpOK

\* A workspace that has a row keeps it; a new one starts with a trial or as the house account.
LEMMA EnsuredIsRow ==
  ASSUME NEW row \in Row \cup {None}, TrialEnds(row), house \in BOOLEAN
  PROVE  Ensured(row) \in Row /\ TrialEnds(Ensured(row)) /\ (row # None => Ensured(row) = row)
  BY OfferAssumption, TimeAssumption DEF Ensured, FreshRow, Row, TrialEnds

\* The passing of time keeps a row's plan and status and only shortens it.
LEMMA PassedIsRow ==
  ASSUME NEW row \in Row \cup {None}, TrialEnds(row)
  PROVE  /\ Passed(row) \in Row \cup {None}
         /\ TrialEnds(Passed(row))
         /\ row = None => Passed(row) = None
         /\ row # None => Passed(row) # None /\ Passed(row).status = row.status
         /\ row # None /\ row.status = "trial" => Passed(row).left <= row.left
<1>1. CASE row = None
  BY <1>1 DEF Passed, TrialEnds
<1>2. CASE row # None
  <2>1. row \in Row
    BY <1>2
  <2>2. CASE row.left = None
    BY <1>2, <2>1, <2>2, NoneAssumption DEF Passed, TrialEnds, Row
  <2>3. CASE row.left # None
    <3>1. row.left \in Nat
      BY <2>1, <2>3 DEF Row
    <3>2. Passed(row) = [row EXCEPT !.left = IF @ > Hop THEN @ - Hop ELSE 0]
      BY <1>2, <2>3 DEF Passed
    <3> QED
      <4>1. Passed(row).left \in Nat /\ Passed(row).left <= row.left
        BY <2>1, <3>1, <3>2, TimeAssumption DEF Row
      <4>2. Passed(row) \in Row /\ Passed(row).status = row.status
        BY <2>1, <3>1, <3>2, <4>1 DEF Row
      <4> QED
        BY <1>2, <4>1, <4>2, NoneAssumption DEF TrialEnds
  <2> QED
    BY <2>2, <2>3
<1> QED
  BY <1>1, <1>2

\* The value of a row is a natural number.
LEMMA WorthNat == ASSUME NEW row \in Row \cup {None} PROVE Worth(row) \in Nat
<1>1. CASE ~Running(row)
  BY <1>1 DEF Worth
<1>2. CASE Running(row)
  <2>1. row.offer \in Offers /\ row.left \in Nat
    BY <1>2 DEF Running, Row
  <2>2. Price[row.offer] \in Nat \ {0} /\ Days[row.offer] \in Nat \ {0}
    BY <2>1, OfferAssumption
  <2>3. row.left * Price[row.offer] \in Nat
    BY <2>1, <2>2, TimesNat
  <2>4. (row.left * Price[row.offer]) \div Days[row.offer] \in Nat
    BY <2>2, <2>3, DivNat
  <2> QED
    BY <1>2, <2>4 DEF Worth
<1> QED
  BY <1>1, <1>2

-------------------------------------------------------------------------------
(* Every action keeps the invariant *)

\* Days of one price have a worth under another price.
LEMMA RevaluationInt ==
  ASSUME NEW row \in Row \cup {None}, NEW o \in Offers
  PROVE  Revaluation(row, o) \in Int
<1>1. CASE Running(row)
  <2>1. row \in Row /\ [row EXCEPT !.offer = o] \in Row
    BY <1>1 DEF Running, Row
  <2>2. Worth([row EXCEPT !.offer = o]) \in Nat /\ Worth(row) \in Nat
    BY <2>1, WorthNat
  <2> QED
    BY <2>2 DEF Revaluation
<1> QED
  BY <1>1 DEF Revaluation

LEMMA InitTypeInv == Init => TypeInv
<1> SUFFICES ASSUME Init PROVE TypeInv
  OBVIOUS
<1>1. /\ stripe \in [Sessions -> [state: {"none", "open", "paid"}, offer: Offers, exact: BOOLEAN]]
      /\ job \in [Handlers -> [session: Sessions \cup {None}, from: {"stripe", "web"}]]
  BY OfferAssumption DEF Init, NoSession, NoJob
<1>2. /\ pc \in [Handlers -> {"idle", "create", "apply", "close"}]
      /\ payment \in [Sessions -> {"none", "paid", "review"}]
  BY DEF Init
<1>3. /\ op \in [at: {"idle", "activate", "expire", "close"}, row: Row \cup {None}]
      /\ OpOK
  BY DEF Init, OpOK
<1>4. TrialEnds(sub) /\ JobOK
  BY DEF Init, TrialEnds, JobOK
<1>5. house \in BOOLEAN /\ request \in BOOLEAN
  BY Zenon DEF Init
<1>6. /\ sub \in Row \cup {None} /\ unacked \subseteq Sessions
      /\ runs \in Nat /\ mishaps \in Nat /\ used \in Int /\ revalued \in Int /\ ticks \in Nat
  BY DEF Init
<1> QED
  BY <1>1, <1>2, <1>3, <1>4, <1>5, <1>6 DEF TypeInv, TypeOK

\* Stripe and the customer
LEMMA StripeKeepsTypeInv ==
  ASSUME TypeInv, NEW s \in Sessions, Checkout(s) \/ Pays(s)
  PROVE  TypeInv'
<1> USE DEF TypeInv, JobOK, OpOK
<1>1. CASE Checkout(s)
  <2>1. sub' \in Row /\ TrialEnds(sub')
    BY <1>1, EnsuredIsRow DEF Checkout, TypeOK
  <2>2. stripe' \in [Sessions -> [state: {"none", "open", "paid"}, offer: Offers, exact: BOOLEAN]]
    <3>1. PICK o \in Offers, exact \in BOOLEAN :
             stripe' = [stripe EXCEPT ![s] = [state |-> "open", offer |-> o, exact |-> exact]]
      BY <1>1 DEF Checkout
    <3> QED
      BY <3>1 DEF TypeOK
  <2> QED
    BY <1>1, <2>1, <2>2 DEF Checkout, TypeOK, TrialEnds, webVars, opVars, clockVars
<1>2. CASE Pays(s)
  BY <1>2 DEF Pays, TypeOK, TrialEnds, webVars, opVars, clockVars
<1> QED
  BY <1>1, <1>2

\* The web process
LEMMA WebKeepsTypeInv ==
  ASSUME TypeInv, NEW h \in Handlers,
         \/ HandlerStep(h) \/ FirstVisit(h) \/ Fails(h)
         \/ \E s \in Sessions : WebhookEvent(h, s) \/ SuccessPage(h, s)
  PROVE  TypeInv'
<1> USE DEF TypeInv, JobOK, OpOK
<1>1. CASE \E s \in Sessions : WebhookEvent(h, s) \/ SuccessPage(h, s)
  <2>1. PICK s \in Sessions, from \in {"stripe", "web"} : Fulfil(h, s, from)
    BY <1>1 DEF WebhookEvent, SuccessPage
  <2> QED
    BY <2>1 DEF Fulfil, TypeOK, TrialEnds, stripeVars, opVars, clockVars
<1>2. CASE FirstVisit(h)
  BY <1>2 DEF FirstVisit, TypeOK, TrialEnds, stripeVars, opVars, clockVars
<1>3. CASE Create(h)
  <2>1. sub' \in Row /\ TrialEnds(sub')
    BY <1>3, EnsuredIsRow DEF Create, TypeOK
  <2>2. JobOK' /\ pc' \in [Handlers -> {"idle", "create", "apply", "close"}]
    BY <1>3 DEF Create, TypeOK
  <2> QED
    BY <1>3, <2>1, <2>2 DEF Create, TypeOK, TrialEnds, stripeVars, opVars, clockVars
<1>4. CASE Apply(h)
  <2> DEFINE s == job[h].session
  <2>1. s \in Sessions
    BY <1>4 DEF Apply
  <2>2. CASE Activates(s)
    <3>1. stripe[s].offer \in Offers
      BY <2>1 DEF TypeOK
    <3>2. sub' \in Row /\ TrialEnds(sub')
      <4>1. sub' = ActiveRow(sub, stripe[s].offer)
        BY <1>4, <2>2 DEF Apply
      <4>2. ActiveRow(sub, stripe[s].offer) \in Row /\ ActiveRow(sub, stripe[s].offer).left \in Nat
        BY <3>1, ActiveRowIsRow DEF TypeOK
      <4> QED
        BY <4>1, <4>2 DEF TrialEnds
    <3>3. /\ payment' = [payment EXCEPT ![s] = "paid"]
          /\ pc' = [pc EXCEPT ![h] = "close"]
          /\ revalued' = revalued + Revaluation(sub, stripe[s].offer)
          /\ UNCHANGED <<house, request, stripeVars, job, opVars, mishaps, used, ticks>>
      BY <1>4, <2>2 DEF Apply, stripeVars
    <3>4. JobOK'
      BY <2>1, <3>3 DEF TypeOK
    <3>5. /\ payment' \in [Sessions -> {"none", "paid", "review"}]
          /\ pc' \in [Handlers -> {"idle", "create", "apply", "close"}]
      BY <3>3 DEF TypeOK
    <3>8. revalued' \in Int
      BY <3>1, <3>3, RevaluationInt DEF TypeOK
    <3> HIDE DEF s
    <3>6. TypeOK'
      BY <3>2, <3>3, <3>5, <3>8 DEF TypeOK, stripeVars, opVars
    <3>7. OpOK'
      BY <3>3 DEF opVars
    <3> QED
      BY <3>2, <3>4, <3>6, <3>7
  <2>3. CASE ~Activates(s)
    <3>1. /\ payment' = [payment EXCEPT ![s] = IF @ = "none" THEN "review" ELSE @]
          /\ Leave(h) /\ Acknowledge(h)
          /\ UNCHANGED <<house, sub, request, stripe, opVars, mishaps, clockVars>>
      BY <1>4, <2>3 DEF Apply, clockVars
    <3> HIDE DEF s
    <3> QED
      BY <3>1 DEF Leave, Acknowledge, NoJob, TypeOK, TrialEnds, opVars, clockVars
  <2> QED
    BY <2>2, <2>3
<1>5. CASE Close(h)
  BY <1>5 DEF Close, Leave, Acknowledge, NoJob, TypeOK, TrialEnds, opVars, clockVars
<1>6. CASE Fails(h)
  BY <1>6 DEF Fails, Leave, NoJob, TypeOK, TrialEnds, stripeVars, opVars, clockVars
<1> QED
  BY <1>1, <1>2, <1>3, <1>4, <1>5, <1>6 DEF HandlerStep

\* scripts/set_plan.py
LEMMA OperatorKeepsTypeInv ==
  ASSUME TypeInv, OperatorReads \/ OperatorSaves \/ OperatorCloses
  PROVE  TypeInv'
<1> USE DEF TypeInv, JobOK
<1>1. CASE OperatorReads
  <2>1. sub' \in Row /\ TrialEnds(sub')
    BY <1>1, EnsuredIsRow DEF OperatorReads, TypeOK
  <2>2. op' \in [at: {"idle", "activate", "expire", "close"}, row: Row \cup {None}] /\ OpOK'
    <3>1. CASE \E o \in Offers : op' = [at |-> "activate", row |-> ActiveRow(sub', o)]
      BY <2>1, <3>1, ActiveRowIsRow DEF OpOK
    <3>2. CASE op' = [at |-> "expire", row |-> [sub' EXCEPT !.status = "expired", !.left = 0]]
      BY <2>1, <3>2 DEF OpOK, Row
    <3> QED
      BY <1>1, <3>1, <3>2 DEF OperatorReads
  <2> QED
    BY <1>1, <2>1, <2>2 DEF OperatorReads, TypeOK, stripeVars, webVars, clockVars
<1>2. CASE OperatorSaves
  BY <1>2 DEF OperatorSaves, OpOK, TypeOK, TrialEnds, stripeVars, webVars, clockVars
<1>3. CASE OperatorCloses
  BY <1>3 DEF OperatorCloses, OpOK, TypeOK, TrialEnds, stripeVars, webVars, clockVars
<1> QED
  BY <1>1, <1>2, <1>3

\* Time
LEMMA TickKeepsTypeInv == TypeInv /\ Tick => TypeInv'
<1> SUFFICES ASSUME TypeInv, Tick PROVE TypeInv'
  OBVIOUS
<1> USE DEF TypeInv, JobOK
<1>1. sub' \in Row \cup {None} /\ TrialEnds(sub')
  BY PassedIsRow DEF Tick, TypeOK
<1>2. OpOK' /\ op' \in [at: {"idle", "activate", "expire", "close"}, row: Row \cup {None}]
  <2>1. TrialEnds(op.row)
    BY DEF OpOK, TrialEnds
  <2>2. /\ Passed(op.row) \in Row \cup {None}
        /\ op.row = None => Passed(op.row) = None
        /\ op.row # None => Passed(op.row) # None /\ Passed(op.row).status = op.row.status
    BY <2>1, PassedIsRow DEF TypeOK
  <2>3. op' = [op EXCEPT !.row = Passed(@)]
    BY DEF Tick
  <2> QED
    BY <2>2, <2>3, NoneAssumption DEF OpOK, TypeOK
<1>3. used' \in Int
  BY <1>1, WorthNat DEF Tick, TypeOK
<1> QED
  BY <1>1, <1>2, <1>3 DEF Tick, TypeOK, stripeVars, webVars

LEMMA TypeInvariant == Spec => []TypeInv
<1>1. TypeInv /\ [Next]_vars => TypeInv'
  <2> SUFFICES ASSUME TypeInv, [Next]_vars PROVE TypeInv'
    OBVIOUS
  <2>1. CASE RequestUpgrade
    BY <2>1 DEF RequestUpgrade, TypeInv, TypeOK, TrialEnds, JobOK, OpOK,
                stripeVars, webVars, opVars, clockVars
  <2>2. CASE UNCHANGED vars
    BY <2>2 DEF TypeInv, TypeOK, TrialEnds, JobOK, OpOK,
                vars, stripeVars, webVars, opVars, clockVars
  <2> QED
    BY <2>1, <2>2, StripeKeepsTypeInv, WebKeepsTypeInv, OperatorKeepsTypeInv,
       TickKeepsTypeInv DEF Next
<1> QED
  BY InitTypeInv, <1>1, PTL DEF Spec

\* Every value of the billing tables has its type, with any number of handlers.
THEOREM TypeCorrect == Spec => []TypeOK
<1>1. TypeInv => TypeOK
  BY DEF TypeInv
<1> QED
  BY TypeInvariant, <1>1, PTL

-------------------------------------------------------------------------------
(* Steps that leave the row or the payments alone *)

\* Only these actions write the subscriptions row.
LEMMA WritersOfSub ==
  ASSUME [Next]_vars, sub' # sub
  PROVE  \/ \E s \in Sessions : Checkout(s)
         \/ \E h \in Handlers : Create(h) \/ (Apply(h) /\ Activates(job[h].session))
         \/ OperatorReads \/ OperatorSaves \/ Tick
<1>1. CASE \E s \in Sessions : Checkout(s) \/ Pays(s)
  BY <1>1 DEF Pays
<1>2. CASE RequestUpgrade
  BY <1>2 DEF RequestUpgrade
<1>3. CASE \E h \in Handlers : \/ HandlerStep(h) \/ FirstVisit(h) \/ Fails(h)
                               \/ \E s \in Sessions : WebhookEvent(h, s) \/ SuccessPage(h, s)
  BY <1>3 DEF HandlerStep, Apply, Close, FirstVisit, Fails, WebhookEvent, SuccessPage, Fulfil
<1>4. CASE OperatorReads \/ OperatorSaves \/ OperatorCloses
  BY <1>4 DEF OperatorCloses
<1>5. CASE UNCHANGED vars
  BY <1>5 DEF vars
<1> QED
  BY <1>1, <1>2, <1>3, <1>4, <1>5 DEF Next

\* apply_payment is the only writer of billing_payments.
LEMMA WritersOfPayment ==
  ASSUME [Next]_vars, payment' # payment
  PROVE  \E h \in Handlers : Apply(h)
<1>1. CASE \E s \in Sessions : Checkout(s) \/ Pays(s)
  BY <1>1 DEF Checkout, Pays
<1>2. CASE RequestUpgrade
  BY <1>2 DEF RequestUpgrade
<1>3. CASE \E h \in Handlers : \/ HandlerStep(h) \/ FirstVisit(h) \/ Fails(h)
                               \/ \E s \in Sessions : WebhookEvent(h, s) \/ SuccessPage(h, s)
  BY <1>3 DEF HandlerStep, Create, Close, FirstVisit, Fails, WebhookEvent, SuccessPage, Fulfil
<1>4. CASE OperatorReads \/ OperatorSaves \/ OperatorCloses \/ Tick
  BY <1>4 DEF OperatorReads, OperatorSaves, OperatorCloses, Tick
<1>5. CASE UNCHANGED vars
  BY <1>5 DEF vars
<1> QED
  BY <1>1, <1>2, <1>3, <1>4, <1>5 DEF Next

-------------------------------------------------------------------------------
\* A session extends the plan at most once, however many handlers fulfil it and however
\* often one fails before it has answered.
THEOREM SessionsApplyOnce == Spec => AppliedOnce
<1> DEFINE Final == \A s \in Sessions : payment[s] # "none" => payment'[s] = payment[s]
           Sold == sub # None /\ webVars' # webVars /\ sub' # sub =>
                      \E s \in Sessions : payment[s] = "none" /\ payment'[s] = "paid"
<1>1. TypeInv /\ [Next]_vars => Final /\ Sold
  <2> SUFFICES ASSUME TypeInv, [Next]_vars PROVE Final /\ Sold
    OBVIOUS
  <2>1. ASSUME NEW h \in Handlers, Apply(h)
        PROVE  /\ Final
               /\ sub' # sub => \E s \in Sessions : payment[s] = "none" /\ payment'[s] = "paid"
    <3> DEFINE s == job[h].session
    <3>1. s \in Sessions
      BY <2>1 DEF Apply, TypeInv, JobOK
    <3>2. CASE Activates(s)
      <4>1. payment[s] = "none" /\ payment' = [payment EXCEPT ![s] = "paid"]
        BY <2>1, <3>2 DEF Apply, Activates
      <4> QED
        BY <3>1, <4>1 DEF TypeInv, TypeOK
    <3>3. CASE ~Activates(s)
      <4>1. /\ payment' = [payment EXCEPT ![s] = IF @ = "none" THEN "review" ELSE @]
            /\ sub' = sub
        BY <2>1, <3>3 DEF Apply
      <4> QED
        BY <3>1, <4>1 DEF TypeInv, TypeOK
    <3> QED
      BY <3>2, <3>3
  <2>2. Final
    BY <2>1, WritersOfPayment
  <2>3. Sold
    <3> SUFFICES ASSUME sub # None, webVars' # webVars, sub' # sub
                 PROVE  \E s \in Sessions : payment[s] = "none" /\ payment'[s] = "paid"
      OBVIOUS
    <3>1. ~(\E s \in Sessions : Checkout(s)) /\ ~OperatorReads /\ ~OperatorSaves /\ ~Tick
      BY DEF Checkout, OperatorReads, OperatorSaves, Tick, webVars
    <3>2. ~(\E h \in Handlers : Create(h))
      BY DEF Create, Ensured
    <3> QED
      BY <2>1, <3>1, <3>2, WritersOfSub
  <2> QED
    BY <2>2, <2>3
<1> QED
  BY <1>1, TypeInvariant, PTL DEF Spec, AppliedOnce

\* A workspace gets one trial, which only gets shorter and never comes back.
THEOREM TrialsDoNotRestart == Spec => OneTrial
<1>1. TypeInv /\ [Next]_vars =>
        (sub # None => /\ sub' # None
                       /\ sub'.status = "trial" =>
                             sub.status = "trial" /\ sub'.left <= sub.left)
  <2> SUFFICES ASSUME TypeInv, [Next]_vars, sub # None
               PROVE  /\ sub' # None
                      /\ sub'.status = "trial" =>
                            sub.status = "trial" /\ sub'.left <= sub.left
    OBVIOUS
  <2> USE DEF TypeInv
  <2>1. sub \in Row /\ (sub.status = "trial" => sub.left \in Nat)
    BY DEF TypeOK, TrialEnds
  <2>2. CASE sub' = sub
    BY <2>1, <2>2
  <2>3. CASE (\E s \in Sessions : Checkout(s)) \/ (\E h \in Handlers : Create(h)) \/ OperatorReads
    <3>1. sub' = sub
      BY <2>3 DEF Checkout, Create, OperatorReads, Ensured
    <3> QED
      BY <2>2, <3>1
  <2>4. CASE \E h \in Handlers : Apply(h) /\ Activates(job[h].session)
    <3>1. PICK h \in Handlers : Apply(h) /\ Activates(job[h].session)
      BY <2>4
    <3> DEFINE o == stripe[job[h].session].offer
    <3>2. o \in Offers
      BY <3>1 DEF Apply, JobOK, TypeOK
    <3>3. sub' = ActiveRow(sub, o)
      BY <3>1 DEF Apply
    <3>4. ActiveRow(sub, o) \in Row /\ ActiveRow(sub, o).status = "active"
      BY <2>1, <3>2, ActiveRowIsRow
    <3> QED
      BY <3>3, <3>4, NoneAssumption
  <2>5. CASE OperatorSaves
    BY <2>5, NoneAssumption DEF OperatorSaves, OpOK
  <2>6. CASE Tick
    BY <2>1, <2>6, PassedIsRow DEF Tick, TypeOK
  <2> QED
    BY <2>2, <2>3, <2>4, <2>5, <2>6, WritersOfSub
<1> QED
  BY <1>1, TypeInvariant, PTL DEF Spec, OneTrial
-------------------------------------------------------------------------------
(* Where a plan with an end comes from *)

\* A handler only works for a session that Stripe has reported as paid ...
JobsArePaid == \A h \in Handlers : job[h].session # None => stripe[job[h].session].state = "paid"

\* ... and set_plan.py only writes once it has been started.
OperatorWasRun == op.at # "idle" => runs > 0

PaidInv == OnlyPaidPlans /\ JobsArePaid /\ OperatorWasRun

LEMMA InitPaidInv == Init => PaidInv
  BY DEF Init, NoJob, PaidInv, OnlyPaidPlans, JobsArePaid, OperatorWasRun

\* A workspace's first row has an end only if it is a trial.
LEMMA EnsuredIsFree ==
  ASSUME NEW row, row = None \/ row.status # "active" \/ row.left = None
  PROVE  LET e == Ensured(row) IN e.status # "active" \/ e.left = None
  BY DEF Ensured, FreshRow

\* Stripe and the customer: a paid session stays paid.
LEMMA StripeKeepsPaidInv ==
  ASSUME TypeInv, PaidInv, NEW s \in Sessions, Checkout(s) \/ Pays(s)
  PROVE  PaidInv'
<1> USE DEF TypeInv, PaidInv, OnlyPaidPlans
<1>1. \A z \in Sessions : stripe[z].state = "paid" => stripe'[z].state = "paid"
  BY DEF Checkout, Pays, TypeOK
<1>2. JobsArePaid' /\ OperatorWasRun'
  BY <1>1 DEF Checkout, Pays, webVars, opVars, JobsArePaid, OperatorWasRun, TypeOK
<1>3. sub' = Ensured(sub) \/ sub' = sub
  BY DEF Checkout, Pays
<1>4. UNCHANGED <<payment, runs>>
  BY DEF Checkout, Pays, opVars
<1> QED
  BY <1>1, <1>2, <1>3, <1>4, EnsuredIsFree DEF Ensured

\* The web process
LEMMA WebKeepsPaidInv ==
  ASSUME TypeInv, PaidInv, NEW h \in Handlers,
         \/ HandlerStep(h) \/ FirstVisit(h) \/ Fails(h)
         \/ \E s \in Sessions : WebhookEvent(h, s) \/ SuccessPage(h, s)
  PROVE  PaidInv'
<1> USE DEF PaidInv
<1>1. UNCHANGED <<stripe, opVars>>
  BY DEF HandlerStep, Create, Apply, Close, FirstVisit, Fails, WebhookEvent, SuccessPage, Fulfil,
         stripeVars
<1>2. OperatorWasRun'
  BY <1>1 DEF OperatorWasRun, opVars
<1>3. JobsArePaid'
  <2>1. UNCHANGED job \/ Leave(h) \/ \E s \in Sessions, from \in {"stripe", "web"} : Fulfil(h, s, from)
    BY DEF HandlerStep, Create, Apply, Close, FirstVisit, Fails, WebhookEvent, SuccessPage
  <2>2. CASE UNCHANGED job
    BY <1>1, <2>2 DEF JobsArePaid
  <2>3. CASE Leave(h)
    BY <1>1, <2>3 DEF Leave, NoJob, JobsArePaid, TypeInv, TypeOK
  <2>4. CASE \E s \in Sessions, from \in {"stripe", "web"} : Fulfil(h, s, from)
    BY <1>1, <2>4 DEF Fulfil, ReportedPaid, JobsArePaid, TypeInv, TypeOK
  <2> QED
    BY <2>1, <2>2, <2>3, <2>4
<1>4. OnlyPaidPlans'
  <2>1. CASE Apply(h)
    <3> DEFINE s == job[h].session
    <3>1. s \in Sessions /\ stripe[s].state = "paid"
      BY <2>1, NoneAssumption DEF Apply, TypeInv, JobOK, JobsArePaid
    <3>2. CASE Activates(s)
      <4>1. payment' = [payment EXCEPT ![s] = "paid"]
        BY <2>1, <3>2 DEF Apply
      <4> QED
        BY <1>1, <3>1, <4>1 DEF OnlyPaidPlans, TypeInv, TypeOK
    <3>3. CASE ~Activates(s)
      <4>1. payment' = [payment EXCEPT ![s] = IF @ = "none" THEN "review" ELSE @] /\ sub' = sub
        BY <2>1, <3>3 DEF Apply
      <4>2. \A z \in Sessions : payment[z] = "paid" => payment'[z] = "paid"
        BY <4>1 DEF TypeInv, TypeOK
      <4>3. \A z \in Sessions : payment'[z] # "none" => z = s \/ payment[z] # "none"
        BY <4>1 DEF TypeInv, TypeOK
      <4> QED
        BY <1>1, <3>1, <4>1, <4>2, <4>3 DEF OnlyPaidPlans, opVars
    <3> QED
      BY <3>2, <3>3
  <2>2. CASE ~Apply(h)
    <3>1. payment' = payment /\ (sub' = sub \/ sub' = Ensured(sub))
      BY <2>2 DEF HandlerStep, Create, Close, FirstVisit, Fails, WebhookEvent, SuccessPage, Fulfil
    <3> QED
      BY <1>1, <3>1, EnsuredIsFree DEF OnlyPaidPlans, Ensured, opVars
  <2> QED
    BY <2>1, <2>2
<1> QED
  BY <1>2, <1>3, <1>4

\* scripts/set_plan.py and time
LEMMA OtherStepsKeepPaidInv ==
  ASSUME TypeInv, PaidInv,
         OperatorReads \/ OperatorSaves \/ OperatorCloses \/ Tick \/ RequestUpgrade \/ UNCHANGED vars
  PROVE  PaidInv'
<1> USE DEF PaidInv
<1>1. UNCHANGED <<stripe, payment, job>>
  BY DEF OperatorReads, OperatorSaves, OperatorCloses, Tick, RequestUpgrade, vars, stripeVars, webVars
<1>2. JobsArePaid'
  BY <1>1 DEF JobsArePaid
<1>3. CASE OperatorReads \/ OperatorSaves \/ OperatorCloses
  <2>1. runs' > 0
    BY <1>3 DEF OperatorReads, OperatorSaves, OperatorCloses, OperatorWasRun, TypeInv, TypeOK
  <2> QED
    BY <1>1, <1>2, <2>1 DEF OnlyPaidPlans, OperatorWasRun
<1>4. CASE Tick
  <2>1. runs' = runs /\ op'.at = op.at /\ sub' = Passed(sub)
    BY <1>4 DEF Tick, TypeInv, TypeOK
  <2>2. sub' # None => sub # None /\ sub'.status = sub.status /\ (sub.left = None => sub'.left = None)
    BY <2>1, PassedIsRow DEF Passed, TypeInv, TypeOK
  <2> QED
    BY <1>1, <1>2, <2>1, <2>2 DEF OnlyPaidPlans, OperatorWasRun
<1>5. CASE RequestUpgrade \/ UNCHANGED vars
  BY <1>1, <1>2, <1>5 DEF RequestUpgrade, vars, opVars, OnlyPaidPlans, OperatorWasRun
<1> QED
  BY <1>3, <1>4, <1>5

LEMMA PaidInvariant == Spec => []PaidInv
<1>1. TypeInv /\ PaidInv /\ [Next]_vars => PaidInv'
  BY StripeKeepsPaidInv, WebKeepsPaidInv, OtherStepsKeepPaidInv DEF Next
<1> QED
  BY InitPaidInv, TypeInvariant, <1>1, PTL DEF Spec

\* A plan with an end was paid for or set by the operator, and a payment row stands for a
\* session that Stripe has reported as paid, whatever the handlers run into.
THEOREM PlansArePaidFor == Spec => []OnlyPaidPlans
<1>1. PaidInv => OnlyPaidPlans
  BY DEF PaidInv
<1> QED
  BY PaidInvariant, <1>1, PTL

-------------------------------------------------------------------------------
(* What the payments have cost *)

\* Sums over a set, as MapThenSumSet computes them: some member first.
Some(T) == CHOOSE x \in T : TRUE

\* g gives each subset of S the sum of its members' numbers F.
SumsUp(g, F, S) ==
    \A T \in SUBSET S : g[T] = IF T = {} THEN 0 ELSE F[Some(T)] + g[T \ {Some(T)}]

\* The subsets of S with k members.
SubsetsOf(S, k) == {T \in SUBSET S : Cardinality(T) = k}

\* A set of one member less.
LEMMA WithoutSome ==
  ASSUME NEW S, IsFiniteSet(S), NEW k \in Nat, NEW T \in SubsetsOf(S, k), T # {}
  PROVE  /\ Some(T) \in T
         /\ k \in Nat \ {0}
         /\ \A x \in T : T \ {x} \in SubsetsOf(S, k - 1)
<1>1. T \in SUBSET S /\ Cardinality(T) = k
  BY DEF SubsetsOf
<1>2. IsFiniteSet(T)
  BY <1>1, FS_Subset
<1>3. k # 0
  BY <1>1, <1>2, FS_EmptySet
<1>4. Some(T) \in T
  BY DEF Some
<1>5. ASSUME NEW x \in T PROVE T \ {x} \in SubsetsOf(S, k - 1)
  <2>1. Cardinality(T \ {x}) = Cardinality(T) - 1
    BY <1>2, FS_RemoveElement
  <2> QED BY <1>1, <2>1 DEF SubsetsOf
<1> QED BY <1>3, <1>4, <1>5

\* A set without members is empty.
LEMMA NoMembers ==
  ASSUME NEW S, IsFiniteSet(S), NEW T \in SubsetsOf(S, 0)
  PROVE  T = {}
<1>1. T \in SUBSET S /\ Cardinality(T) = 0
  BY DEF SubsetsOf
<1>2. IsFiniteSet(T)
  BY <1>1, FS_Subset
<1> QED BY <1>1, <1>2, FS_EmptySet

\* What holds of all subsets with k members, for every k, holds of all subsets.
LEMMA BySize ==
  ASSUME NEW S, IsFiniteSet(S), NEW T \in SUBSET S
  PROVE  Cardinality(T) \in 0..Cardinality(S) /\ T \in SubsetsOf(S, Cardinality(T))
<1>1. IsFiniteSet(T) /\ Cardinality(T) \in Nat /\ Cardinality(S) \in Nat /\ Cardinality(T) <= Cardinality(S)
  BY FS_Subset, FS_CardinalityType
<1> QED BY <1>1 DEF SubsetsOf

\* Sums of numbers that agree on a set agree on its subsets.
LEMMA SumsAgree ==
  ASSUME NEW S, IsFiniteSet(S), NEW g, NEW h, NEW F, NEW G,
         SumsUp(g, F, S), SumsUp(h, G, S), \A x \in S : F[x] = G[x]
  PROVE  \A T \in SUBSET S : g[T] = h[T]
<1> DEFINE n == Cardinality(S)
           K == {k \in 0..n : \A T \in SubsetsOf(S, k) : g[T] = h[T]}
<1>0. n \in Nat
  BY FS_CardinalityType
<1>1. 0 \in K
  <2>1. ASSUME NEW T \in SubsetsOf(S, 0) PROVE g[T] = h[T]
    <3>1. T = {} /\ T \in SUBSET S
      BY NoMembers
    <3> QED BY <3>1 DEF SumsUp
  <2> QED BY <1>0, <2>1
<1>2. ASSUME NEW k \in 1..n, k - 1 \in K PROVE k \in K
  <2>1. ASSUME NEW T \in SubsetsOf(S, k) PROVE g[T] = h[T]
    <3>1. T \in SUBSET S /\ Cardinality(T) = k
      BY DEF SubsetsOf
    <3>2. CASE T = {}
      BY <3>1, <3>2 DEF SumsUp
    <3>3. CASE T # {}
      <4>1. Some(T) \in T /\ T \ {Some(T)} \in SubsetsOf(S, k - 1)
        BY <3>3, WithoutSome, <1>0
      <4>2. g[T \ {Some(T)}] = h[T \ {Some(T)}]
        BY <1>2, <4>1
      <4>3. g[T] = F[Some(T)] + g[T \ {Some(T)}] /\ h[T] = G[Some(T)] + h[T \ {Some(T)}]
        BY <3>1, <3>3 DEF SumsUp
      <4>4. F[Some(T)] = G[Some(T)]
        BY <3>1, <4>1
      <4> QED BY <4>2, <4>3, <4>4
    <3> QED BY <3>2, <3>3
  <2> QED BY <2>1
<1> HIDE DEF K
<1>3. \A k \in 0..n : k \in K
  BY <1>0, <1>1, <1>2, SetInduction
<1>4. ASSUME NEW T \in SUBSET S PROVE g[T] = h[T]
  <2>1. Cardinality(T) \in 0..n /\ T \in SubsetsOf(S, Cardinality(T))
    BY BySize
  <2>2. Cardinality(T) \in K
    BY <1>3, <2>1
  <2> QED BY <2>1, <2>2 DEF K
<1> QED BY <1>4

\* A member more adds its number.
Grows(g, F, S) == \A T \in SUBSET S : \A x \in T : g[T] = F[x] + g[T \ {x}]

LEMMA SumsGrow ==
  ASSUME NEW S, IsFiniteSet(S), NEW F \in [S -> Int], NEW g \in [SUBSET S -> Int], SumsUp(g, F, S)
  PROVE  Grows(g, F, S)
<1> DEFINE n == Cardinality(S)
           K == {k \in 0..n : \A T \in SubsetsOf(S, k) : \A x \in T : g[T] = F[x] + g[T \ {x}]}
<1>0. n \in Nat
  BY FS_CardinalityType
<1>1. 0 \in K
  <2>1. ASSUME NEW T \in SubsetsOf(S, 0), NEW x \in T PROVE g[T] = F[x] + g[T \ {x}]
    BY NoMembers
  <2> HIDE DEF n
  <2>2. 0 \in 0..n
    BY <1>0
  <2> QED BY <2>1, <2>2
<1>2. ASSUME NEW k \in 1..n, k - 1 \in K PROVE k \in K
  <2>1. ASSUME NEW T \in SubsetsOf(S, k), NEW x \in T PROVE g[T] = F[x] + g[T \ {x}]
    <3>1. T \in SUBSET S /\ Cardinality(T) = k
      BY DEF SubsetsOf
    <3> DEFINE y == Some(T)
    <3>2. /\ y \in T /\ k - 1 \in Nat
          /\ T \ {y} \in SubsetsOf(S, k - 1) /\ T \ {x} \in SubsetsOf(S, k - 1)
      BY WithoutSome, <1>0
    <3>3. g[T] = F[y] + g[T \ {y}]
      BY <3>1, <3>2 DEF SumsUp
    <3> HIDE DEF y
    <3>4. CASE x = y
      BY <3>3, <3>4
    <3>5. CASE x # y
      <4> DEFINE U == (T \ {x}) \ {y}
      <4>1. x \in T \ {y} /\ y \in T \ {x} /\ U = (T \ {y}) \ {x}
        BY <3>2, <3>5
      <4> HIDE DEF U
      <4>2. g[T \ {y}] = F[x] + g[U] /\ g[T \ {x}] = F[y] + g[U]
        <5>1. g[T \ {y}] = F[x] + g[(T \ {y}) \ {x}]
          BY <1>2, <3>2, <4>1
        <5>2. g[T \ {x}] = F[y] + g[(T \ {x}) \ {y}]
          BY <1>2, <3>2, <4>1
        <5> QED BY <4>1, <5>1, <5>2 DEF U
      <4>3. F[x] \in Int /\ F[y] \in Int /\ g[U] \in Int
        BY <3>1, <3>2 DEF U
      <4> QED BY <3>3, <4>2, <4>3
    <3> QED BY <3>4, <3>5
  <2> QED BY <2>1
<1> HIDE DEF K
<1>3. \A k \in 0..n : k \in K
  BY <1>0, <1>1, <1>2, SetInduction
<1>4. ASSUME NEW T \in SUBSET S PROVE \A x \in T : g[T] = F[x] + g[T \ {x}]
  <2>1. Cardinality(T) \in 0..n /\ T \in SubsetsOf(S, Cardinality(T))
    BY BySize
  <2>2. Cardinality(T) \in K
    BY <1>3, <2>1
  <2> QED BY <2>1, <2>2 DEF K
<1> QED BY <1>4 DEF Grows

\* Every family of numbers over a finite set has a sum.
LEMMA SumsExist ==
  ASSUME NEW S, IsFiniteSet(S), NEW F \in [S -> Int]
  PROVE  \E g \in [SUBSET S -> Int] : SumsUp(g, F, S)
<1> DEFINE n == Cardinality(S)
           V == [SUBSET S -> Int]
           base == [T \in SUBSET S |-> 0]
           More(v) == [T \in SUBSET S |->
                        IF T = {} THEN 0 ELSE F[Some(T)] + v[T \ {Some(T)}]]
           step == [p \in (1..n) \X V |-> More(p[2])]
<1>0. n \in Nat
  BY FS_CardinalityType
<1>1. base \in V
  OBVIOUS
<1>2. ASSUME NEW v \in V PROVE More(v) \in V
  <2>1. ASSUME NEW T \in SUBSET S PROVE (IF T = {} THEN 0 ELSE F[Some(T)] + v[T \ {Some(T)}]) \in Int
    <3>1. CASE T = {}
      BY <3>1
    <3>2. CASE T # {}
      <4>1. Some(T) \in T /\ T \ {Some(T)} \in SUBSET S
        BY <3>2 DEF Some
      <4>2. F[Some(T)] \in Int /\ v[T \ {Some(T)}] \in Int
        BY <4>1
      <4> QED BY <3>2, <4>2
    <3> QED BY <3>1, <3>2
  <2> QED BY <2>1
<1>3. step \in [(1..n) \X V -> V]
  <2> HIDE DEF V, n, More
  <2> QED BY <1>2
<1> HIDE DEF base
<1>4. PICK h : h \in [0..n -> V] /\ h[0] = base /\ \A i \in 1..n : h[i] = step[<<i, h[i - 1]>>]
  <2> HIDE DEF step, V, n
  <2>1. Runs(n, V, base, step) # {}
    BY <1>0, <1>1, <1>3, Iteration
  <2> QED BY <2>1 DEF Runs
<1>5. ASSUME NEW i \in 1..n PROVE h[i] = More(h[i - 1])
  <2> HIDE DEF V, n, More
  <2>1. h[i - 1] \in V
    BY <1>0, <1>4
  <2>2. step[<<i, h[i - 1]>>] = More(h[i - 1])
    BY <2>1
  <2> QED BY <1>4, <2>2
<1> HIDE DEF step
<1>6. ASSUME NEW i \in 1..n, NEW T \in SUBSET S
      PROVE  h[i][T] = IF T = {} THEN 0 ELSE F[Some(T)] + h[i - 1][T \ {Some(T)}]
  BY <1>5
<1> DEFINE K == {k \in 0..n : \A T \in SubsetsOf(S, k) : \A i \in 1..n : k < i => h[i][T] = h[i - 1][T]}
\* A set with k members has its sum after k steps.
<1>7. \A k \in 0..n : k \in K
  <2>1. 0 \in K
    <3>1. ASSUME NEW T \in SubsetsOf(S, 0), NEW i \in 1..n PROVE h[i][T] = h[i - 1][T]
      <4>1. T = {} /\ T \in SUBSET S
        BY NoMembers
      <4>2. h[i][T] = 0
        BY <1>6, <4>1
      <4>3. CASE i = 1
        BY <1>4, <4>1, <4>2, <4>3 DEF base
      <4>4. CASE i # 1
        <5>1. i - 1 \in 1..n
          BY <1>0, <4>4
        <5> QED BY <1>6, <4>1, <4>2, <5>1
      <4> QED BY <4>3, <4>4
    <3> QED BY <1>0, <3>1
  <2>2. ASSUME NEW k \in 1..n, k - 1 \in K PROVE k \in K
    <3>1. ASSUME NEW T \in SubsetsOf(S, k), NEW i \in 1..n, k < i PROVE h[i][T] = h[i - 1][T]
      <4>1. T \in SUBSET S /\ i - 1 \in 1..n /\ k - 1 < i - 1
        BY <1>0, <3>1 DEF SubsetsOf
      <4>2. CASE T = {}
        BY <1>6, <4>1, <4>2
      <4>3. CASE T # {}
        <5> DEFINE U == T \ {Some(T)}
        <5>1. U \in SubsetsOf(S, k - 1)
          BY <1>0, <4>3, WithoutSome
        <5> HIDE DEF U
        <5>2. h[i - 1][U] = h[(i - 1) - 1][U]
          BY <2>2, <4>1, <5>1
        <5>3. h[i][T] = F[Some(T)] + h[i - 1][U] /\ h[i - 1][T] = F[Some(T)] + h[(i - 1) - 1][U]
          BY <1>6, <4>1, <4>3 DEF U
        <5> QED BY <5>2, <5>3
      <4> QED BY <4>2, <4>3
    <3> QED BY <1>0, <3>1
  <2> HIDE DEF K, n
  <2> QED BY <1>0, <2>1, <2>2, SetInduction
<1> DEFINE g == h[n]
<1>8. g \in V
  <2> HIDE DEF V, n
  <2> QED BY <1>0, <1>4
<1>9. SumsUp(g, F, S)
  <2> SUFFICES ASSUME NEW T \in SUBSET S
               PROVE  h[n][T] = IF T = {} THEN 0 ELSE F[Some(T)] + h[n][T \ {Some(T)}]
    BY DEF SumsUp
  <2>1. Cardinality(T) \in 0..n /\ T \in SubsetsOf(S, Cardinality(T))
    BY BySize
  <2>2. CASE T = {}
    <3>1. CASE n = 0
      BY <1>4, <2>2, <3>1 DEF base
    <3>2. CASE n # 0
      <4>1. n \in 1..n
        BY <1>0, <3>2
      <4> QED BY <1>6, <2>2, <4>1
    <3> QED BY <3>1, <3>2
  <2>3. CASE T # {}
    <3> DEFINE U == T \ {Some(T)}  k == Cardinality(T)
    <3>1. U \in SubsetsOf(S, k - 1) /\ k \in 1..n
      BY <1>0, <2>1, <2>3, WithoutSome
    <3> HIDE DEF U, k
    <3>2. n \in 1..n /\ k - 1 \in 0..n /\ k - 1 < n
      BY <1>0, <3>1
    <3>3. h[n][U] = h[n - 1][U]
      BY <1>7, <3>1, <3>2
    <3>4. h[n][T] = F[Some(T)] + h[n - 1][U]
      BY <1>6, <2>3, <3>2 DEF U
    <3> QED BY <2>3, <3>3, <3>4 DEF U
  <2> QED BY <2>2, <2>3
<1> HIDE DEF g
<1> QED BY <1>8, <1>9

\* MapThenSumSet by its definition.
LEMMA CostIsSum ==
  ASSUME NEW checkouts, NEW S, IsFiniteSet(S), NEW F \in [S -> Int],
         \A s \in S : F[s] = Price[checkouts[s].offer],
         NEW g, SumsUp(g, F, S)
  PROVE  Cost(checkouts, S) = g[S]
<1> DEFINE More(v) == [T \in SUBSET S |->
                         IF T = {} THEN 0
                         ELSE Price[checkouts[Some(T)].offer] + v[T \ {Some(T)}]]
           sums == CHOOSE v : v = More(v)
           G == [s \in S |-> Price[checkouts[s].offer]]
<1>1. Cost(checkouts, S) = sums[S]
  BY Zenon DEF Cost, MapThenSumSet, MapThenFoldSet, Some
<1>2. PICK f \in [SUBSET S -> Int] : SumsUp(f, F, S)
  BY SumsExist
<1>3. f = More(f)
  <2>1. ASSUME NEW T \in SUBSET S
        PROVE  f[T] = IF T = {} THEN 0 ELSE Price[checkouts[Some(T)].offer] + f[T \ {Some(T)}]
    <3>1. T # {} => Some(T) \in S
      BY DEF Some
    <3> QED BY <1>2, <3>1 DEF SumsUp
  <2> QED BY <2>1
<1>4. sums = More(sums)
  <2> HIDE DEF More
  <2> QED BY <1>3
<1>5. SumsUp(sums, G, S)
  <2> HIDE DEF sums
  <2>1. ASSUME NEW T \in SUBSET S
        PROVE  sums[T] = IF T = {} THEN 0 ELSE G[Some(T)] + sums[T \ {Some(T)}]
    <3>1. T # {} => Some(T) \in S
      BY DEF Some
    <3>2. sums[T] = IF T = {} THEN 0 ELSE Price[checkouts[Some(T)].offer] + sums[T \ {Some(T)}]
      BY <1>4
    <3> QED BY <3>1, <3>2
  <2> QED BY <2>1 DEF SumsUp
<1> HIDE DEF sums
<1>6. \A x \in S : G[x] = F[x]
  OBVIOUS
<1> HIDE DEF G
<1>7. sums[S] = g[S]
  <2>1. S \in SUBSET S
    OBVIOUS
  <2> QED BY <1>5, <1>6, <2>1, SumsAgree
<1> QED BY <1>1, <1>7

\* The prices of sessions, as integers.
LEMMA PricesAreInt ==
  ASSUME NEW checkouts, NEW S, \A s \in S : checkouts[s].offer \in Offers
  PROVE  [s \in S |-> Price[checkouts[s].offer]] \in [S -> Int]
  BY OfferAssumption

\* What a session more costs.
LEMMA CostGrows ==
  ASSUME NEW checkouts, NEW S, IsFiniteSet(S), \A s \in S : checkouts[s].offer \in Offers, NEW z \in S
  PROVE  Cost(checkouts, S) = Price[checkouts[z].offer] + Cost(checkouts, S \ {z})
<1> DEFINE F == [s \in S |-> Price[checkouts[s].offer]]
           U == S \ {z}
           E == [s \in U |-> Price[checkouts[s].offer]]
<1>1. F \in [S -> Int] /\ E \in [U -> Int]
  BY PricesAreInt
<1>2. \A s \in S : F[s] = Price[checkouts[s].offer]
  OBVIOUS
<1>3. \A s \in U : E[s] = Price[checkouts[s].offer] /\ E[s] = F[s]
  OBVIOUS
<1>0. IsFiniteSet(U) /\ U \in SUBSET S /\ U \in SUBSET U /\ S \in SUBSET S
  BY FS_Subset
<1> HIDE DEF F, E
<1>4. PICK g \in [SUBSET S -> Int] : SumsUp(g, F, S)
  BY <1>1, SumsExist
<1>5. SumsUp(g, E, U)
  <2> SUFFICES ASSUME NEW T \in SUBSET U
               PROVE  g[T] = IF T = {} THEN 0 ELSE E[Some(T)] + g[T \ {Some(T)}]
    BY DEF SumsUp
  <2>1. T \in SUBSET S /\ (T # {} => Some(T) \in U)
    BY DEF Some
  <2> QED BY <1>3, <1>4, <2>1 DEF SumsUp
<1>6. Cost(checkouts, S) = g[S]
  BY <1>1, <1>2, <1>4, CostIsSum
<1>7. Cost(checkouts, U) = g[U]
  <2> HIDE DEF U
  <2> QED BY <1>0, <1>1, <1>3, <1>5, CostIsSum
<1>8. g[S] = F[z] + g[U]
  <2>1. Grows(g, F, S)
    BY <1>1, <1>4, SumsGrow
  <2> QED BY <1>0, <2>1 DEF Grows
<1> QED BY <1>2, <1>6, <1>7, <1>8

\* The cost depends on what was bought and on nothing else.
LEMMA CostSame ==
  ASSUME NEW old, NEW new, NEW S, IsFiniteSet(S),
         \A s \in S : old[s].offer \in Offers /\ new[s].offer = old[s].offer
  PROVE  Cost(old, S) = Cost(new, S)
<1> DEFINE F == [s \in S |-> Price[old[s].offer]]
<1>1. F \in [S -> Int]
  BY PricesAreInt
<1>2. \A s \in S : F[s] = Price[old[s].offer] /\ F[s] = Price[new[s].offer]
  OBVIOUS
<1> HIDE DEF F
<1>3. PICK g \in [SUBSET S -> Int] : SumsUp(g, F, S)
  BY <1>1, SumsExist
<1>4. Cost(old, S) = g[S]
  BY <1>1, <1>2, <1>3, CostIsSum
<1>5. Cost(new, S) = g[S]
  BY <1>1, <1>2, <1>3, CostIsSum
<1> QED BY <1>4, <1>5

\* No sessions cost nothing, and costs are whole numbers.
LEMMA CostInt ==
  ASSUME NEW checkouts, NEW S, IsFiniteSet(S), \A s \in S : checkouts[s].offer \in Offers
  PROVE  Cost(checkouts, S) \in Int /\ (S = {} => Cost(checkouts, S) = 0)
<1> DEFINE F == [s \in S |-> Price[checkouts[s].offer]]
<1>1. F \in [S -> Int]
  BY PricesAreInt
<1>2. \A s \in S : F[s] = Price[checkouts[s].offer]
  OBVIOUS
<1> HIDE DEF F
<1>3. PICK g \in [SUBSET S -> Int] : SumsUp(g, F, S)
  BY <1>1, SumsExist
<1>4. Cost(checkouts, S) = g[S]
  BY <1>1, <1>2, <1>3, CostIsSum
<1> QED BY <1>3, <1>4 DEF SumsUp

-------------------------------------------------------------------------------
(* While only Stripe changes the plan *)

\* The first row of the workspace is made.
FirstRow == sub = None /\ sub' = FreshRow /\ UNCHANGED <<used, revalued>>

\* A session is applied.
Buys(s) ==
    /\ s \in Sessions \ PaidSessions
    /\ PaidSessions' = PaidSessions \cup {s}
    /\ ~HasNoEndDate(sub)
    /\ sub' = ActiveRow(sub, stripe[s].offer)
    /\ revalued' = revalued + Revaluation(sub, stripe[s].offer)
    /\ UNCHANGED <<used, stripe>>

\* Time passes.
Ages ==
    /\ sub' = Passed(sub) /\ used' = used + Worth(sub) - Worth(Passed(sub))
    /\ UNCHANGED revalued

\* While the operator has not run his script, only a payment changes the books.
LEMMA DealSteps ==
  ASSUME TypeInv, PaidInv, [Next]_vars, runs' = 0
  PROVE  /\ runs = 0
         /\ \/ \E s \in Sessions : Buys(s)
            \/ /\ UNCHANGED <<sub, used, revalued>> \/ FirstRow \/ Ages
               /\ PaidSessions' = PaidSessions
               /\ \A s \in PaidSessions : stripe'[s].offer = stripe[s].offer
<1>1. CASE \E s \in Sessions : Checkout(s) \/ Pays(s)
  <2>1. PICK s \in Sessions : Checkout(s) \/ Pays(s)
    BY <1>1
  <2>2. /\ payment' = payment /\ runs' = runs /\ used' = used /\ revalued' = revalued
        /\ sub' = sub \/ sub' = Ensured(sub)
    BY <2>1 DEF Checkout, Pays, opVars, clockVars
  <2>3. \A z \in PaidSessions : stripe'[z].offer = stripe[z].offer
    BY <2>1 DEF Checkout, Pays, PaidSessions, PaidInv, OnlyPaidPlans, TypeInv, TypeOK
  <2> QED
    BY <2>2, <2>3 DEF FirstRow, Ensured, PaidSessions
<1>2. CASE RequestUpgrade \/ UNCHANGED vars
  BY <1>2 DEF RequestUpgrade, vars, stripeVars, opVars, clockVars, PaidSessions
<1>3. CASE \E h \in Handlers : \/ HandlerStep(h) \/ FirstVisit(h) \/ Fails(h)
                               \/ \E s \in Sessions : WebhookEvent(h, s) \/ SuccessPage(h, s)
  <2>1. PICK h \in Handlers : \/ HandlerStep(h) \/ FirstVisit(h) \/ Fails(h)
                              \/ \E s \in Sessions : WebhookEvent(h, s) \/ SuccessPage(h, s)
    BY <1>3
  <2>2. UNCHANGED <<stripe, runs, used>>
    BY <2>1 DEF HandlerStep, Create, Apply, Close, FirstVisit, Fails, WebhookEvent, SuccessPage, Fulfil,
                stripeVars, opVars, clockVars
  <2>3. CASE Apply(h)
    <3> DEFINE s == job[h].session
    <3>1. s \in Sessions
      BY <2>3 DEF Apply, TypeInv, JobOK
    <3>2. CASE Activates(s)
      <4>1. /\ payment' = [payment EXCEPT ![s] = "paid"] /\ sub' = ActiveRow(sub, stripe[s].offer)
            /\ revalued' = revalued + Revaluation(sub, stripe[s].offer)
        BY <2>3, <3>2 DEF Apply
      <4>2. PaidSessions' = PaidSessions \cup {s} /\ s \notin PaidSessions
        BY <3>1, <3>2, <4>1 DEF Activates, PaidSessions, TypeInv, TypeOK
      <4>3. Buys(s)
        BY <2>2, <3>1, <3>2, <4>1, <4>2 DEF Buys, Activates
      <4> QED
        BY <2>2, <3>1, <4>3
    <3>3. CASE ~Activates(s)
      <4>1. /\ payment' = [payment EXCEPT ![s] = IF @ = "none" THEN "review" ELSE @]
            /\ sub' = sub /\ revalued' = revalued
        BY <2>3, <3>3 DEF Apply
      <4>2. PaidSessions' = PaidSessions
        BY <4>1 DEF PaidSessions, TypeInv, TypeOK
      <4> QED
        BY <2>2, <4>1, <4>2
    <3> QED
      BY <3>2, <3>3
  <2>4. CASE ~Apply(h)
    <3>1. payment' = payment /\ revalued' = revalued /\ (sub' = sub \/ sub' = Ensured(sub))
      BY <2>1, <2>4
         DEF HandlerStep, Create, Close, FirstVisit, Fails, WebhookEvent, SuccessPage, Fulfil, clockVars
    <3> QED
      BY <2>2, <3>1 DEF FirstRow, Ensured, PaidSessions
  <2> QED
    BY <2>3, <2>4
<1>4. CASE OperatorReads \/ OperatorSaves \/ OperatorCloses
  <2>1. runs' > 0
    BY <1>4 DEF OperatorReads, OperatorSaves, OperatorCloses, PaidInv, OperatorWasRun, TypeInv, TypeOK
  <2> QED
    BY <2>1
<1>5. CASE Tick
  BY <1>5 DEF Tick, Ages, stripeVars, PaidSessions
<1> QED
  BY <1>1, <1>2, <1>3, <1>4, <1>5 DEF Next

-------------------------------------------------------------------------------
\* Time only takes value away.
LEMMA WorthPasses ==
  ASSUME NEW row \in Row \cup {None}
  PROVE  Worth(Passed(row)) \in Nat /\ Worth(Passed(row)) <= Worth(row)
<1>1. CASE row = None \/ row.left = None
  <2>1. Passed(row) = row
    BY <1>1 DEF Passed
  <2>2. Worth(Passed(row)) = Worth(row)
    BY <2>1, Zenon
  <2>3. Worth(row) \in Nat
    BY WorthNat
  <2> QED
    BY <2>2, <2>3
<1>2. CASE row # None /\ row.left # None
  <2> DEFINE new == Passed(row)
  <2>1. /\ row \in Row /\ row.left \in Nat /\ row.offer \in Offers
        /\ new = [row EXCEPT !.left = IF @ > Hop THEN @ - Hop ELSE 0]
    BY <1>2 DEF Passed, Row
  <2>2. /\ new \in Row /\ new.offer = row.offer /\ new.status = row.status
        /\ new.left \in Nat /\ new.left <= row.left
    BY <2>1, TimeAssumption DEF Row
  <2> HIDE DEF new
  <2>3. Worth(new) \in Nat /\ Worth(row) \in Nat
    BY <2>2, WorthNat
  <2>4. ASSUME ~Running(new) PROVE Worth(new) <= Worth(row)
    BY <2>3, <2>4 DEF Worth
  <2>5. ASSUME Running(new) PROVE Worth(new) <= Worth(row)
    <3>1. Running(row)
      BY <1>2, <2>1, <2>2, <2>5, NoneAssumption DEF Running
    <3> DEFINE p == Price[row.offer]  d == Days[row.offer]
    <3>2. p \in Nat \ {0} /\ d \in Nat \ {0}
      BY <2>1, OfferAssumption
    <3>3. Worth(new) = (new.left * p) \div d /\ Worth(row) = (row.left * p) \div d
      BY <2>2, <2>5, <3>1 DEF Worth
    <3> HIDE DEF p, d
    <3>4. new.left * p <= row.left * p /\ new.left * p \in Int /\ row.left * p \in Int
      <4>1. p * new.left <= p * row.left
        BY <2>1, <2>2, <3>2, Cancel
      <4> QED
        BY <2>1, <2>2, <3>2, <4>1
    <3> QED
      BY <2>3, <3>2, <3>3, <3>4, DivMonotone
  <2>6. Worth(new) \in Nat /\ Worth(new) <= Worth(row)
    BY <2>3, <2>4, <2>5
  <2> QED
    BY <2>6, Zenon DEF new
<1> QED
  BY <1>1, <1>2

\* The bought plan is worth its price and what was kept.
LEMMA WorthOfPurchase ==
  ASSUME NEW row \in Row \cup {None}, NEW o \in Offers
  PROVE  Worth(ActiveRow(row, o)) = (Carried(row, o) * Price[o]) \div Days[o] + Price[o]
<1> DEFINE c == Carried(row, o)  p == Price[o]  d == Days[o]  new == ActiveRow(row, o)
<1>1. c \in Nat
  BY CarriedNat
<1>2. p \in Nat \ {0} /\ d \in Nat \ {0}
  BY OfferAssumption
<1>3. /\ new.offer = o /\ new.status = "active" /\ new.left = c + d
      /\ new \in Row
  BY ActiveRowIsRow DEF ActiveRow, PaidPeriod
<1> HIDE DEF c, new
<1>4. Running(new)
  BY <1>1, <1>2, <1>3, NoneAssumption DEF Running
<1>5. Worth(new) = ((c + d) * p) \div d
  BY <1>3, <1>4 DEF Worth
<1> HIDE DEF p, d
<1> DEFINE x == c * p
<1>6. (c + d) * p = x + d * p /\ x \in Int
  BY <1>1, <1>2
<1> HIDE DEF x
<1>7. (x + d * p) \div d = x \div d + p
  <2>1. x \in Int /\ d \in Nat \ {0} /\ p \in Int
    BY <1>2, <1>6
  <2> QED
    BY <2>1, DivPlus, Zenon
<1> QED
  BY <1>5, <1>6, <1>7, Zenon DEF c, p, d, new, x

\* Buying adds the price, up to the trial that ends, the rounding of converted time and the
\* new price of renewed time.
LEMMA PurchaseIsFair ==
  ASSUME NEW row \in Row \cup {None}, NEW o \in Offers
  PROVE  LET new == Worth(ActiveRow(row, o))
             change == Revaluation(row, o)
         IN  /\ new \in Nat /\ change \in Int
             /\ Price[o] + change <= new /\ new <= Worth(row) + Price[o] + change
             /\ ~Running(row) \/ row.status = "active" =>
                   Worth(row) + Price[o] + change <= new + UnitPrice
<1> DEFINE c == Carried(row, o)  p == Price[o]  d == Days[o]  new == Worth(ActiveRow(row, o))
           was == Worth(row)  kept == (c * p) \div d  change == Revaluation(row, o)
<1>1. c \in Nat
  BY CarriedNat
<1>2. p \in Nat \ {0} /\ d \in Nat \ {0} /\ UnitPrice \in Nat /\ p <= UnitPrice * d
  BY OfferAssumption
<1>3. kept \in Nat /\ new = kept + p /\ was \in Nat
  <2>1. new = kept + p
    BY WorthOfPurchase
  <2> HIDE DEF new, c, p, d
  <2>2. c * p \in Nat
    BY <1>1, <1>2, TimesNat
  <2>3. kept \in Nat
    BY <1>2, <2>2, DivNat
  <2> QED
    BY <2>1, <2>3, WorthNat
<1>4. /\ change \in Int /\ change <= kept /\ kept <= was + change
      /\ ~Running(row) \/ row.status = "active" => was + change <= kept + UnitPrice
  <2>1. CASE ~Running(row)
    <3>1. c = 0 /\ was = 0 /\ change = 0
      BY <2>1 DEF Carried, Worth, Revaluation
    <3>2. kept = 0
      <4> HIDE DEF c, p, d, was, change
      <4> QED
        BY <1>2, <3>1
    <3> HIDE DEF kept, was, change, p, d
    <3> QED
      BY <1>2, <3>1, <3>2
  <2>2. CASE Running(row)
    <3>1. row.offer \in Offers /\ row.left \in Nat
      BY <2>2 DEF Running, Row
    <3> DEFINE p1 == Price[row.offer]  d1 == Days[row.offer]  a == row.left * p1
    <3>2. p1 \in Nat \ {0} /\ d1 \in Nat \ {0}
      BY <3>1, OfferAssumption
    <3>3. a \in Nat
      <4> HIDE DEF p1
      <4> QED
        BY <3>1, <3>2, TimesNat
    <3>4. was = a \div d1
      BY <2>2 DEF Worth
    <3>5. CASE row.offer.plan = o.plan
      <4> DEFINE now == [row EXCEPT !.offer = o]
      <4>1. now.offer = o /\ now.left = row.left /\ now.status = row.status /\ now # None
        BY <2>2, <3>1, NoneAssumption DEF Running, Row
      <4>2. Running(now)
        BY <2>2, <4>1 DEF Running
      <4>3. Worth(now) = (row.left * p) \div d
        BY <4>1, <4>2 DEF Worth
      <4>4. c = row.left
        BY <2>2, <3>5 DEF Carried
      <4>5. kept = Worth(now)
        BY <4>3, <4>4
      <4>6. change = Worth(now) - was
        BY <2>2, <3>5 DEF Revaluation
      <4> HIDE DEF kept, was, change, p, d, now
      <4> QED
        BY <1>2, <1>3, <4>5, <4>6
    <3>6. CASE row.offer.plan # o.plan /\ row.status = "active"
      <4>1. c = (a * d) \div (d1 * p)
        BY <2>2, <3>6 DEF Carried, Converted
      <4>c. change = 0
        BY <3>6 DEF Revaluation
      <4> HIDE DEF a, d, d1, p, c, was, change
      <4>2. LET left == (a * d) \div (d1 * p)
                worth == (left * p) \div d
            IN  /\ worth <= a \div d1
                /\ \A L \in Nat : p <= L * d => a \div d1 <= worth + L
        BY <1>2, <3>2, <3>3, ConvertedWorth
      <4>3. kept <= a \div d1 /\ a \div d1 <= kept + UnitPrice
        BY <1>2, <4>1, <4>2
      <4> HIDE DEF kept
      <4> QED
        BY <1>2, <1>3, <3>4, <4>3, <4>c
    <3>7. CASE row.offer.plan # o.plan /\ row.status # "active"
      <4>1. c = 0 /\ change = 0
        BY <2>2, <3>7 DEF Carried, Revaluation
      <4>2. kept = 0
        <5> HIDE DEF c, p, d, change
        <5> QED
          BY <1>2, <4>1
      <4> HIDE DEF kept, was, change, p, d
      <4> QED
        BY <1>3, <2>2, <3>7, <4>1, <4>2
    <3> QED
      BY <3>5, <3>6, <3>7
  <2> QED
    BY <2>1, <2>2
<1> HIDE DEF kept, was, new, change, p, d
<1>5. /\ new \in Nat /\ change \in Int
      /\ p + change <= new /\ new <= was + p + change
      /\ ~Running(row) \/ row.status = "active" => was + p + change <= new + UnitPrice
  BY <1>2, <1>3, <1>4
<1> QED
  BY <1>5, Zenon DEF new, was, change, p, d

-------------------------------------------------------------------------------
\* What the row is worth before and after the workspace's first visit.
LEMMA FirstWorth ==
  Worth(None) = 0 /\ Worth(FreshRow) \in Nat /\
  Worth(FreshRow) <= (TrialDays * Price[TrialOffer]) \div Days[TrialOffer]
<1> DEFINE trial == (TrialDays * Price[TrialOffer]) \div Days[TrialOffer]
<1>1. trial \in Nat
  <2>1. TrialDays * Price[TrialOffer] \in Nat
    BY OfferAssumption, TimeAssumption, TimesNat
  <2> QED
    BY <2>1, OfferAssumption, DivNat
<1>2. Worth(None) = 0
  BY DEF Worth, Running
<1>3. Worth(FreshRow) = 0 \/ Worth(FreshRow) = trial
  <2>1. CASE house
    BY <2>1 DEF Worth, Running, FreshRow
  <2>2. CASE ~house
    BY <2>2 DEF Worth, Running, FreshRow
  <2> QED
    BY <2>1, <2>2
<1> HIDE DEF trial
<1>4. Worth(FreshRow) \in Nat /\ Worth(FreshRow) <= trial
  BY <1>1, <1>3
<1> QED
  BY <1>2, <1>4 DEF trial

\* Nothing was bought and nothing used before the workspace has a row, and a trial has
\* not been paid for.
Books ==
    /\ IsFiniteSet(PaidSessions)
    /\ sub = None => used = 0 /\ revalued = 0 /\ PaidSessions = {}
    /\ sub # None /\ sub.status # "active" => used >= 0 /\ revalued = 0 /\ PaidSessions = {}

\* A purchase adds its price to what has been paid.
LEMMA PurchasePaid ==
  ASSUME TypeInv, IsFiniteSet(PaidSessions), NEW s \in Sessions, Buys(s)
  PROVE  /\ stripe[s].offer \in Offers
         /\ IsFiniteSet(PaidSessions') /\ PaidSessions' # {}
         /\ Cardinality(PaidSessions') = Cardinality(PaidSessions) + 1
         /\ Cardinality(PaidSessions) \in Nat
         /\ Paid \in Int /\ Paid' = Paid + Price[stripe[s].offer]
<1> DEFINE S == PaidSessions  T == PaidSessions \cup {s}
<1>1. \A z \in Sessions : stripe[z].offer \in Offers
  BY DEF TypeInv, TypeOK
<1>2. S \subseteq Sessions /\ s \in Sessions \ S /\ PaidSessions' = T /\ stripe' = stripe
  BY DEF Buys, PaidSessions
<1>3. Paid = Cost(stripe, S) /\ Paid' = Cost(stripe, T)
  BY <1>2 DEF Paid
<1>4. IsFiniteSet(S)
  OBVIOUS
<1> HIDE DEF S
<1>5. IsFiniteSet(T) /\ Cardinality(T) = Cardinality(S) + 1 /\ Cardinality(S) \in Nat
  BY <1>2, <1>4, FS_AddElement, FS_CardinalityType DEF S
<1>6. T \ {s} = S /\ s \in T /\ T \subseteq Sessions
  BY <1>2 DEF S
<1> HIDE DEF T
<1> DEFINE k == stripe
<1>7. \A z \in S : k[z].offer \in Offers
  BY <1>1, <1>2
<1>8. \A z \in T : k[z].offer \in Offers
  BY <1>1, <1>6
<1>9. Paid = Cost(k, S) /\ Paid' = Cost(k, T)
  BY <1>3
<1> HIDE DEF k
<1>10. Cost(k, T) = Price[k[s].offer] + Cost(k, T \ {s})
  BY <1>5, <1>6, <1>8, CostGrows
<1>11. Cost(k, S) \in Int
  BY <1>4, <1>7, CostInt
<1>12. k[s].offer \in Offers /\ Price[k[s].offer] \in Int
  BY <1>6, <1>8, OfferAssumption
<1>13. Cost(k, T) = Price[k[s].offer] + Cost(k, S)
  BY <1>6, <1>10
<1>15. Paid \in Int /\ Paid' = Paid + Price[k[s].offer]
  BY <1>9, <1>11, <1>12, <1>13
<1>16. stripe[s].offer \in Offers /\ Paid' = Paid + Price[stripe[s].offer]
  BY <1>12, <1>15 DEF k
<1>14. PaidSessions' = T /\ T # {} /\ S = PaidSessions
  BY <1>2, <1>6 DEF S
<1> QED
  BY <1>5, <1>14, <1>15, <1>16

\* Without payments nothing has been paid.
LEMMA PaidNothing ==
  ASSUME TypeInv, IsFiniteSet(PaidSessions)
  PROVE  Paid \in Int /\ (PaidSessions = {} => Paid = 0)
<1> DEFINE k == stripe  S == PaidSessions
<1>1. IsFiniteSet(S) /\ \A z \in S : k[z].offer \in Offers
  BY DEF PaidSessions, TypeInv, TypeOK
<1>2. Paid = Cost(k, S)
  BY DEF Paid
<1> HIDE DEF k, S
<1>3. Cost(k, S) \in Int /\ (S = {} => Cost(k, S) = 0)
  BY <1>1, CostInt
<1> QED
  BY <1>2, <1>3 DEF S

\* Nothing else changes what has been paid.
LEMMA NothingPaid ==
  ASSUME TypeInv, IsFiniteSet(PaidSessions), PaidSessions' = PaidSessions,
         \A s \in PaidSessions : stripe'[s].offer = stripe[s].offer
  PROVE  Paid \in Int /\ Paid' = Paid /\ (PaidSessions = {} => Paid = 0)
<1> DEFINE S == PaidSessions  old == stripe  new == stripe'
<1>1. \A s \in S : old[s].offer \in Offers /\ new[s].offer = old[s].offer
  BY DEF TypeInv, TypeOK, PaidSessions
<1>2. Paid = Cost(old, S) /\ Paid' = Cost(new, S)
  BY DEF Paid
<1>3. IsFiniteSet(S)
  OBVIOUS
<1> HIDE DEF old, new, S
<1>4. Cost(old, S) = Cost(new, S)
  BY <1>1, <1>3, CostSame
<1>5. Cost(old, S) \in Int /\ (S = {} => Cost(old, S) = 0)
  BY <1>1, <1>3, CostInt
<1> QED
  BY <1>2, <1>4, <1>5 DEF S

\* The steps that change nothing but the row and the time used, and what the row is worth.
LEMMA QuietStep ==
  ASSUME TypeInv, Books,
         UNCHANGED <<sub, used, revalued>> \/ FirstRow \/ Ages
  PROVE  /\ Worth(sub) \in Nat /\ Worth(sub') \in Nat /\ used \in Int /\ used' \in Int
         /\ revalued \in Int /\ revalued' = revalued
         /\ sub # None => Worth(sub') + used' = Worth(sub) + used /\ used' >= used
         /\ sub = None => used' = 0 /\ revalued = 0 /\ Worth(sub) = 0
                          /\ Worth(sub') <= (TrialDays * Price[TrialOffer]) \div Days[TrialOffer]
<1>1. used \in Int /\ revalued \in Int /\ Worth(sub) \in Nat
  BY WorthNat DEF TypeInv, TypeOK
<1>r. revalued' = revalued /\ (sub = None => revalued = 0)
  BY DEF FirstRow, Ages, Books
<1>0. (TrialDays * Price[TrialOffer]) \div Days[TrialOffer] \in Nat
  <2>1. TrialDays * Price[TrialOffer] \in Nat
    BY OfferAssumption, TimeAssumption, TimesNat
  <2> QED
    BY <2>1, OfferAssumption, DivNat
<1>2. CASE UNCHANGED <<sub, used, revalued>>
  <2>1. Worth(sub') = Worth(sub) /\ used' = used /\ (sub = None => Worth(sub) = 0)
    BY <1>2, FirstWorth
  <2> QED
    BY <1>0, <1>1, <1>r, <2>1 DEF Books
<1>3. CASE FirstRow
  <2>1. sub = None /\ Worth(sub') = Worth(FreshRow) /\ used' = used /\ Worth(sub) = 0
    BY <1>3, FirstWorth DEF FirstRow
  <2> QED
    BY <1>1, <1>r, <2>1, FirstWorth DEF Books
<1>4. CASE Ages
  <2>1. /\ Worth(sub') = Worth(Passed(sub)) /\ used' = used + Worth(sub) - Worth(Passed(sub))
        /\ Worth(Passed(sub)) \in Nat /\ Worth(Passed(sub)) <= Worth(sub)
    BY <1>4, WorthPasses DEF Ages, TypeInv, TypeOK
  <2>2. sub = None => Worth(sub) = 0 /\ Worth(Passed(sub)) = 0
    BY FirstWorth DEF Passed
  <2> QED
    BY <1>0, <1>1, <1>r, <2>1, <2>2 DEF Books
<1> QED
  BY <1>2, <1>3, <1>4

\* No step but the operator's breaks these rules.
LEMMA BooksStep ==
  ASSUME TypeInv, PaidInv, Books, [Next]_vars, runs' = 0
  PROVE  Books'
<1>1. CASE \E s \in Sessions : Buys(s)
  <2>1. PICK s \in Sessions : Buys(s)
    BY <1>1
  <2>2. IsFiniteSet(PaidSessions') /\ stripe[s].offer \in Offers
    BY <2>1, PurchasePaid DEF Books
  <2>3. sub' \in Row /\ sub'.status = "active"
    BY <2>1, <2>2, ActiveRowIsRow DEF Buys, TypeInv, TypeOK
  <2> QED
    BY <2>2, <2>3, NoneAssumption DEF Books
<1>2. CASE /\ UNCHANGED <<sub, used, revalued>> \/ FirstRow \/ Ages
           /\ PaidSessions' = PaidSessions
  <2>1. /\ sub # None => used' >= used
        /\ sub = None => used' = 0
        /\ used \in Int /\ used' \in Int /\ revalued' = revalued
    BY <1>2, QuietStep
  <2>2. CASE UNCHANGED <<sub, used, revalued>>
    BY <1>2, <2>2 DEF Books
  <2>3. CASE FirstRow
    <3>1. sub' # None /\ used' = 0 /\ revalued' = 0 /\ PaidSessions' = {}
      BY <1>2, <2>3, NoneAssumption, OfferAssumption, TimeAssumption
         DEF FirstRow, FreshRow, Books, Row, TypeInv, TypeOK
    <3> QED
      BY <1>2, <3>1 DEF Books
  <2>4. CASE Ages
    <3>1. /\ sub = None => sub' = None
          /\ sub # None => sub' # None /\ sub'.status = sub.status
      BY <2>4, PassedIsRow DEF Ages, TypeInv, TypeOK
    <3> QED
      BY <1>2, <2>1, <3>1 DEF Books
  <2> QED
    BY <1>2, <2>2, <2>3, <2>4
<1> QED
  BY <1>1, <1>2, DealSteps

\* Nothing is given away beyond the trial.
LEMMA GivenStep ==
  ASSUME TypeInv, PaidInv, Books, NothingGivenAway, [Next]_vars, runs' = 0
  PROVE  NothingGivenAway'
<1> DEFINE trial == (TrialDays * Price[TrialOffer]) \div Days[TrialOffer]
<1>0. trial \in Int
  <2>1. TrialDays * Price[TrialOffer] \in Nat
    BY OfferAssumption, TimeAssumption, TimesNat
  <2> QED
    BY <2>1, OfferAssumption, DivNat
<1>g. Worth(sub) + used <= Paid + revalued + trial
  BY DEF NothingGivenAway
<1> SUFFICES Worth(sub') + used' <= Paid' + revalued' + trial
  BY DEF NothingGivenAway
<1> HIDE DEF trial
<1>1. CASE \E s \in Sessions : Buys(s)
  <2>1. PICK s \in Sessions : Buys(s)
    BY <1>1
  <2> DEFINE p == Price[stripe[s].offer]  change == Revaluation(sub, stripe[s].offer)
  <2>2. stripe[s].offer \in Offers /\ Paid \in Int /\ Paid' = Paid + p
    BY <2>1, PurchasePaid DEF Books
  <2>3. Worth(sub') \in Nat /\ change \in Int /\ Worth(sub') <= Worth(sub) + p + change
    <3>1. sub' = ActiveRow(sub, stripe[s].offer)
      BY <2>1 DEF Buys
    <3>2. sub \in Row \cup {None}
      BY DEF TypeInv, TypeOK
    <3> QED
      BY <2>2, <3>1, <3>2, PurchaseIsFair
  <2>4. /\ p \in Int /\ Worth(sub) \in Nat /\ used \in Int /\ used' = used
        /\ revalued \in Int /\ revalued' = revalued + change
    BY <2>1, <2>2, OfferAssumption, WorthNat DEF Buys, TypeInv, TypeOK
  <2> HIDE DEF p, change
  <2> QED
    BY <1>0, <1>g, <2>2, <2>3, <2>4
<1>2. CASE /\ UNCHANGED <<sub, used, revalued>> \/ FirstRow \/ Ages
           /\ PaidSessions' = PaidSessions
           /\ \A s \in PaidSessions : stripe'[s].offer = stripe[s].offer
  <2>1. Paid \in Int /\ Paid' = Paid /\ (sub = None => Paid = 0)
    BY <1>2, NothingPaid DEF Books
  <2>2. /\ Worth(sub) \in Nat /\ Worth(sub') \in Nat /\ used \in Int /\ used' \in Int
        /\ revalued \in Int /\ revalued' = revalued
        /\ sub # None => Worth(sub') + used' = Worth(sub) + used
        /\ sub = None => used' = 0 /\ revalued = 0 /\ Worth(sub') <= trial
    BY <1>2, QuietStep DEF trial
  <2> QED
    BY <1>0, <1>g, <2>1, <2>2
<1> QED
  BY <1>1, <1>2, DealSteps

\* Only converting loses anything, and a payment converts once.
LEMMA LostStep ==
  ASSUME TypeInv, PaidInv, Books, LittleLost, [Next]_vars, runs' = 0
  PROVE  LittleLost'
<1> DEFINE n == Cardinality(PaidSessions)  L == UnitPrice
<1>l. L \in Nat /\ Paid + revalued <= Worth(sub) + used + L * n
  BY OfferAssumption DEF LittleLost
<1> HIDE DEF L
<1>n. n \in Nat
  BY FS_CardinalityType DEF Books
<1>1. CASE \E s \in Sessions : Buys(s)
  <2>1. PICK s \in Sessions : Buys(s)
    BY <1>1
  <2> DEFINE o == stripe[s].offer  p == Price[o]  change == Revaluation(sub, o)
  <2>2. /\ o \in Offers /\ Paid \in Int /\ Paid' = Paid + p
        /\ Cardinality(PaidSessions') = n + 1
    BY <2>1, PurchasePaid DEF Books
  <2>3. sub \in Row \cup {None} /\ sub' = ActiveRow(sub, o)
    BY <2>1 DEF Buys, TypeInv, TypeOK
  <2>4. /\ p \in Nat /\ Worth(sub') \in Nat /\ change \in Int /\ p + change <= Worth(sub')
        /\ ~Running(sub) \/ sub.status = "active" => Worth(sub) + p + change <= Worth(sub') + L
    <3> HIDE DEF o
    <3> QED
      BY <2>2, <2>3, OfferAssumption, PurchaseIsFair DEF L
  <2>5. /\ Worth(sub) \in Nat /\ used \in Int /\ used' = used
        /\ revalued \in Int /\ revalued' = revalued + change
    BY <2>1, WorthNat DEF Buys, TypeInv, TypeOK
  <2>6. L * (n + 1) = L * n + L /\ L * n \in Nat
    <3> HIDE DEF n
    <3> QED
      BY <1>l, <1>n
  <2>7. Running(sub) /\ sub.status # "active" => used >= 0 /\ revalued = 0 /\ Paid = 0
    <3>1. Running(sub) => sub # None
      BY DEF Running
    <3>2. PaidSessions = {} => Paid = 0
      BY PaidNothing DEF Books
    <3> QED
      BY <3>1, <3>2 DEF Books
  <2>8. Paid' + revalued' <= Worth(sub') + used' + L * (n + 1)
    <3> HIDE DEF p, n, change
    <3>1. CASE ~Running(sub) \/ sub.status = "active"
      BY <1>l, <1>n, <2>2, <2>4, <2>5, <2>6, <3>1
    <3>2. CASE Running(sub) /\ sub.status # "active"
      BY <1>l, <1>n, <2>2, <2>4, <2>5, <2>6, <2>7, <3>2
    <3> QED
      BY <3>1, <3>2
  <2> QED
    BY <2>2, <2>8 DEF LittleLost, L
<1>2. CASE /\ UNCHANGED <<sub, used, revalued>> \/ FirstRow \/ Ages
           /\ PaidSessions' = PaidSessions
           /\ \A s \in PaidSessions : stripe'[s].offer = stripe[s].offer
  <2>1. Paid \in Int /\ Paid' = Paid /\ (sub = None => Paid = 0)
    BY <1>2, NothingPaid DEF Books
  <2>2. /\ Worth(sub) \in Nat /\ Worth(sub') \in Nat /\ used \in Int /\ used' \in Int
        /\ revalued \in Int /\ revalued' = revalued
        /\ sub # None => Worth(sub') + used' = Worth(sub) + used
        /\ sub = None => used' = 0 /\ revalued = 0
    BY <1>2, QuietStep
  <2>3. L * n \in Nat /\ Cardinality(PaidSessions') = n
    <3>1. Cardinality(PaidSessions') = n
      BY <1>2
    <3> HIDE DEF n
    <3> QED
      BY <1>l, <1>n, <3>1
  <2>4. Paid' + revalued' <= Worth(sub') + used' + L * n
    <3> HIDE DEF n
    <3> QED
      BY <1>l, <2>1, <2>2, <2>3
  <2> QED
    BY <2>3, <2>4 DEF LittleLost, L
<1> QED
  BY <1>1, <1>2, DealSteps

\* The books begin empty.
LEMMA InitBooks ==
  ASSUME Init
  PROVE  Books /\ PaidSessions = {} /\ Paid = 0 /\ Worth(sub) = 0 /\ used = 0 /\ revalued = 0
<1>1. PaidSessions = {} /\ sub = None /\ used = 0 /\ revalued = 0
  BY DEF Init, PaidSessions
<1>2. Books
  BY <1>1, FS_EmptySet DEF Books
<1>3. Paid = 0
  BY <1>1, <1>2, InitTypeInv, PaidNothing DEF Books
<1> QED
  BY <1>1, <1>2, <1>3, FirstWorth

-------------------------------------------------------------------------------
\* As long as only Stripe changes the plan, renewing, upgrading and downgrading lose no more
\* of what was paid for than a unit of time for each payment, and give nothing away beyond
\* the trial and the new price of days that are renewed for the other cycle, whatever the
\* offers, prices and periods are (paid_period_end, apply_payment).
THEOREM DealsAreFair == Spec => []FairDeal
<1> DEFINE Inv == TypeInv /\ PaidInv /\ (runs = 0 => Books /\ LittleLost /\ NothingGivenAway)
<1>1. (TrialDays * Price[TrialOffer]) \div Days[TrialOffer] \in Nat
  <2>1. TrialDays * Price[TrialOffer] \in Nat
    BY OfferAssumption, TimeAssumption, TimesNat
  <2> QED
    BY <2>1, OfferAssumption, DivNat
<1>2. Init => Inv
  <2> SUFFICES ASSUME Init PROVE Inv
    OBVIOUS
  <2>1. UnitPrice * Cardinality(PaidSessions) = 0
    <3>1. Cardinality(PaidSessions) = 0 /\ UnitPrice \in Nat
      BY InitBooks, FS_EmptySet, OfferAssumption
    <3> QED
      BY <3>1
  <2>2. LittleLost /\ NothingGivenAway
    BY <1>1, <2>1, InitBooks DEF LittleLost, NothingGivenAway
  <2> QED
    BY <2>2, InitTypeInv, InitPaidInv, InitBooks
<1>3. Inv /\ TypeInv' /\ PaidInv' /\ [Next]_vars => Inv'
  BY DealSteps, BooksStep, LostStep, GivenStep
<1>4. Inv => FairDeal
  BY DEF FairDeal
<1> QED
  BY <1>2, <1>3, <1>4, TypeInvariant, PaidInvariant, PTL DEF Spec
===============================================================================
