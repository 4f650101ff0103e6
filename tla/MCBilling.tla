------------------------------- MODULE MCBilling -------------------------------
(* Small instances of Billing for TLC. *)
EXTENDS Billing

\* PLANS and PERIOD_DAYS, in yuan and days
MCOffers == [plan: {"pro", "agency"}, cycle: {"monthly", "annual"}]
MCDays == [o \in MCOffers |-> IF o.cycle = "monthly" THEN 30 ELSE 365]
MCPrice == [o \in MCOffers |->
               CASE o.plan = "pro" /\ o.cycle = "monthly" -> 66
                 [] o.plan = "pro" /\ o.cycle = "annual" -> 666
                 [] o.plan = "agency" /\ o.cycle = "monthly" -> 166
                 [] o.plan = "agency" /\ o.cycle = "annual" -> 1666]

Trial == [plan |-> "pro", cycle |-> "monthly"]
House == [plan |-> "agency", cycle |-> "annual"]

\* Only the monthly Pro plan, in weeks.
ProOnly == {Trial}
ProDays == [o \in ProOnly |-> 4]
ProPrice == [o \in ProOnly |-> 4]

===============================================================================
