--------------------------- MODULE PublishFleetProofs ---------------------------
(***************************************************************************)
(* A fleet of any number of workers that neither die nor stall publishes   *)
(* each task by one worker at a time, though the store raises, with or     *)
(* without having committed, and answers of Facebook are lost.  While      *)
(* those arrive nothing is posted twice, and the rows tell the truth but   *)
(* for one task each time the store raises.  While every commit is heard   *)
(* of, it keeps the budget of attempts, makes no more posts than attempts  *)
(* and follows PublishLifecycle.                                           *)
(***************************************************************************)
EXTENDS PublishSchedulerProofs, FiniteSetTheorems

\* No worker dies, and its calls end before the row looks stuck.  The store may raise while
\* a task is in hand, answers may be lost, and the web process may die at any moment.
LivingWorkers == Faults \subseteq {"web_crash", "store", "commit_lost", "lost_reply"}
\* A store that raises has written nothing.
CommitsHeard == "commit_lost" \notin Faults
\* What Facebook did is what the client hears of.
AnswersArrive == "lost_reply" \notin Faults
\* The store works as well.
HealthyWorkers == Faults \subseteq {"web_crash"}

LEMMA HealthyFleet == HealthyWorkers => LivingWorkers /\ AnswersArrive /\ CommitsHeard
BY DEF HealthyWorkers, LivingWorkers, AnswersArrive, CommitsHeard

\* `row` says how publishing ended and `made` is the number of posts it made.
Reports(row, made) ==
    /\ row.status \in {"published", "failed"}
    /\ AnswersArrive =>
          /\ made <= 1
          /\ row.status = "published" => made = (IF row.mode = "simulated" THEN 0 ELSE 1)
    /\ HealthyWorkers /\ row.status = "failed" => made = 0

\* The same, and failed means failed: no exception has come between.
ReportsAll(row, made) ==
    Reports(row, made) /\ (AnswersArrive /\ row.status = "failed" => made = 0)

\* Poller p is between handing the stuck task t back and writing it.
Recovers(p, t) == cur[p] = t /\ pc[p] \in {"recovered", "reread"}

\* The save of p's task t was committed, and p is about to write failed over it.
Overrules(p, t) == cur[p] = t /\ pc[p] \in {"unsure", "overruling"}

\* A row the scheduler publishes is publishing exactly while a poller holds it, and has
\* then been stamped recently enough not to be taken for stuck.
ScheduledRowOK(t) ==
    /\ web[t] = "none"
    /\ rows[t].status = "publishing" =>
          (\E p \in Pollers : Holds(p, t)) /\ rows[t].age <= StaleAfter
    /\ AnswersArrive /\ rows[t].status \in {"absent", "scheduled"} => posts[t] = 0
    /\ Settled(t) => Reports(rows[t], posts[t])

\* A row of a publish-now or direct request never becomes due.
WebRowOK(t) ==
    /\ rows[t].due = None /\ rows[t].attempts = 0
    /\ web[t] = "none" => rows[t].status = "absent" /\ posts[t] = 0
    /\ web[t] = "calling" =>
          /\ rows[t].status = "publishing" /\ rows[t].age <= StaleAfter
          /\ posts[t] = 0
          /\ form[t].due = None /\ form[t].attempts = 0
    /\ web[t] = "answered" =>
          /\ rows[t].status \in {"absent", "publishing"}
          /\ rows[t].status = "publishing" => rows[t].age <= StaleAfter
          /\ ReportsAll(form[t], posts[t])
          /\ form[t].due = None /\ form[t].attempts = 0
    /\ web[t] = "done" =>
          IF Settled(t) THEN ReportsAll(rows[t], posts[t]) ELSE AnswersArrive => posts[t] <= 1

\* What a poller knows of the task it works on.
PollerOK(p) ==
    /\ HealthyWorkers => pc[p] \notin {"raised", "rescued"}
    /\ \A e \in todo[p] : e.task \notin WebTasks
    /\ \A t \in stale[p] : t \in WebTasks /\ web[t] = "done"
    /\ \A t \in Tasks : Holds(p, t) =>
          /\ t \notin WebTasks
          /\ rows[t].status = "publishing" \/ (rows[t].status = "failed" /\ ~CommitsHeard)
          /\ AnswersArrive =>
                /\ posts[t] <= 1
                /\ pc[p] \in {"claimed", "loaded"} => posts[t] = 0
          /\ pc[p] = "answered" => ReportsAll(copy[p], posts[t])
    /\ \A t \in Tasks : Overrules(p, t) => t \notin WebTasks /\ ~CommitsHeard
    /\ \A t \in Tasks : Recovers(p, t) =>
          /\ t \in WebTasks
          /\ web[t] = "done"
          /\ rows[t].status = "scheduled"
          /\ pc[p] = "reread" => /\ copy[p].status = "scheduled"
                                 /\ copy[p].due = None
                                 /\ copy[p].attempts = 0

\* No two pollers work on one task.
Exclusive ==
    \A p, q \in Pollers : \A t \in Tasks :
        /\ Holds(p, t) /\ Holds(q, t) => p = q
        /\ Recovers(p, t) /\ Recovers(q, t) => p = q

FleetInv ==
    /\ TypeInv
    /\ \A t \in Tasks \ WebTasks : ScheduledRowOK(t)
    /\ \A t \in WebTasks : WebRowOK(t)
    /\ \A p \in Pollers : PollerOK(p)
    /\ Exclusive

-------------------------------------------------------------------------------
\* A publish call makes one post at most; what it reports is what it did, unless the answer
\* was lost.
LEMMA PublishedReports ==
    ASSUME NEW row \in Row, NEW o \in PossibleOutcomes
    PROVE  /\ ReportsAll(Published(row, o), Accepted(o))
           /\ Published(row, o).due = row.due
           /\ Published(row, o).attempts = row.attempts
           /\ Published(row, o).status \in {"published", "failed"}
           /\ Accepted(o) \in 0..1
<1>1. AnswersArrive => o \in {"live", "simulated", "rejected", "unreachable", "raised"}
  BY DEF PossibleOutcomes, Outcome, AnswersArrive
<1>2. o \in Outcome
  BY DEF PossibleOutcomes
<1>3. /\ Published(row, o).due = row.due
      /\ Published(row, o).attempts = row.attempts
      /\ Published(row, o).status \in {"published", "failed"}
      /\ Accepted(o) \in 0..1
  BY <1>2 DEF Published, Accepted, Row, Outcome
<1>4. AnswersArrive =>
         /\ Published(row, o).status = "published" =>
               Accepted(o) = (IF Published(row, o).mode = "simulated" THEN 0 ELSE 1)
         /\ Published(row, o).status = "failed" => Accepted(o) = 0
  BY <1>1 DEF Published, Accepted, Row
<1>5. ReportsAll(Published(row, o), Accepted(o))
  BY <1>3, <1>4, HealthyFleet DEF Reports, ReportsAll
<1>6. QED BY <1>3, <1>4, <1>5

\* Finalising reschedules only a task that posted nothing, as far as answers tell.
LEMMA FinalizedReports ==
    ASSUME NEW row \in Row, NEW made, ReportsAll(row, made)
    PROVE  \/ Finalized(row).status = "scheduled" /\ (AnswersArrive => made = 0)
           \/ ReportsAll(Finalized(row), made)
<1>1. CASE WillRetry(row)
  BY <1>1 DEF Finalized, WillRetry, Stamped, Reports, ReportsAll, Row
<1>2. CASE ~WillRetry(row)
  BY <1>2 DEF Finalized, Stamped, Reports, ReportsAll, Row
<1>3. QED BY <1>1, <1>2

\* What stamping, claiming, handing back and ageing leave alone.
LEMMA RowFrames ==
    ASSUME NEW row \in Row
    PROVE  /\ Stamped(row).status = row.status /\ Stamped(row).due = row.due
           /\ Stamped(row).attempts = row.attempts /\ Stamped(row).mode = row.mode
           /\ Stamped(row).age = 0
           /\ Failed(row).status = "failed"
           /\ Claimed(row).status = "publishing" /\ Claimed(row).age = 0
           /\ HandedBack(row).status = "scheduled" /\ HandedBack(row).due = row.due
           /\ HandedBack(row).attempts = row.attempts
           /\ Aged(row).status = row.status /\ Aged(row).mode = row.mode
           /\ Aged(row).attempts = row.attempts
           /\ row.due = None => Aged(row).due = None
<1>1. /\ Stamped(row).status = row.status /\ Stamped(row).due = row.due
      /\ Stamped(row).attempts = row.attempts /\ Stamped(row).mode = row.mode
      /\ Stamped(row).age = 0
      /\ Failed(row).status = "failed"
      /\ Claimed(row).status = "publishing" /\ Claimed(row).age = 0
      /\ HandedBack(row).status = "scheduled" /\ HandedBack(row).due = row.due
      /\ HandedBack(row).attempts = row.attempts
  BY DEF Row, Stamped, Failed, Claimed, HandedBack
<1>2. /\ Aged(row).status = row.status /\ Aged(row).mode = row.mode
      /\ Aged(row).attempts = row.attempts
      /\ row.due = None => Aged(row).due = None
  BY DEF Row, Aged, Later
<1>3. QED BY <1>1, <1>2

LEMMA FleetInit == ASSUME Init PROVE FleetInv
<1>1. TypeInv
  BY NewRows DEF Init, TypeInv, TypeOK, WorkerOK, PollerState, WebState
<1>2. QED
  BY <1>1, TaskAssumption DEF Init, FleetInv, ScheduledRowOK, WebRowOK, PollerOK, Exclusive,
     Holds, Recovers, Overrules, NewRow, Settled

-------------------------------------------------------------------------------
\* Steps of the web process.
LEMMA WebKeepsFleet ==
    ASSUME FleetInv, NEW t \in Tasks,
           Schedule(t) \/ PublishNow(t) \/ PublishDirect(t) \/ WebStep(t) \/ WebCrash(t)
    PROVE  FleetInv'
<1>1. TypeInv'
  BY WebKeepsTypes DEF FleetInv
<1> USE DEF workerVars, webVars
<1>2. UNCHANGED workerVars
  BY DEF Schedule, PublishNow, PublishDirect, WebStep, WebCall, WebSave, WebCrash
<1>3. \A u \in Tasks : u # t => /\ rows'[u] = rows[u] /\ posts'[u] = posts[u]
                                /\ web'[u] = web[u] /\ form'[u] = form[u]
  BY DEF Schedule, PublishNow, PublishDirect, WebStep, WebCall, WebSave, WebCrash,
     FleetInv, TypeInv, TypeOK
<1>4. Exclusive'
  BY <1>2 DEF FleetInv, Exclusive, Holds, Recovers, Overrules
<1>5. t \notin WebTasks => Schedule(t)
  BY DEF FleetInv, ScheduledRowOK, PublishNow, PublishDirect, WebStep, WebCall, WebSave, WebCrash
<1>6. \A u \in Tasks \ WebTasks : ScheduledRowOK(u)'
  <2> SUFFICES ASSUME NEW u \in Tasks \ WebTasks PROVE ScheduledRowOK(u)'
    OBVIOUS
  <2>1. CASE u # t
    BY <2>1, <1>2, <1>3 DEF FleetInv, ScheduledRowOK, Settled, Holds
  <2>2. CASE u = t
    BY <2>2, <1>5 DEF FleetInv, TypeInv, TypeOK, ScheduledRowOK, Schedule, NewRow, Settled
  <2>3. QED BY <2>1, <2>2
<1>7. \A u \in WebTasks : u # t => WebRowOK(u)'
  BY <1>3, TaskAssumption DEF FleetInv, WebRowOK, Settled
<1>8. t \in WebTasks => WebRowOK(t)'
  <2> SUFFICES ASSUME t \in WebTasks PROVE WebRowOK(t)'
    OBVIOUS
  <2> WebRowOK(t) /\ rows[t] \in Row /\ posts[t] \in Nat
    BY DEF FleetInv, TypeInv, TypeOK
  <2> USE DEF FleetInv, TypeInv, TypeOK
  <2>1. CASE PublishNow(t)
    BY <2>1, TimeAssumption DEF PublishNow, NewRow, WebRowOK
  <2>2. CASE WebCall(t)
    <3>1. PICK o \in PossibleOutcomes :
             /\ form' = [form EXCEPT ![t] = Published(@, o)]
             /\ posts' = [posts EXCEPT ![t] = @ + Accepted(o)]
      BY <2>2 DEF WebCall
    <3>2. form[t] \in Row
      BY <2>2 DEF WebCall, WorkerOK
    <3>3. /\ ReportsAll(form'[t], Accepted(o))
          /\ form'[t].due = form[t].due /\ form'[t].attempts = form[t].attempts
          /\ Accepted(o) \in 0..1
      BY <3>1, <3>2, PublishedReports
    <3>4. posts'[t] = Accepted(o)
      BY <3>1, <3>3, <2>2 DEF WebCall, WebRowOK
    <3>5. QED BY <2>2, <3>3, <3>4 DEF WebCall, WebRowOK
  <2>3. CASE PublishDirect(t)
    <3>1. PICK o \in PossibleOutcomes \ {"simulated", "instagram_reply_lost"} :
             /\ posts' = [posts EXCEPT ![t] = @ + Accepted(o)]
             /\ IF o = "live"
                THEN /\ form' = [form EXCEPT ![t] = NewRow("published", None)]
                     /\ web' = [web EXCEPT ![t] = "answered"]
                ELSE /\ web' = [web EXCEPT ![t] = "done"]
                     /\ UNCHANGED form
      BY <2>3 DEF PublishDirect
    <3> DEFINE new == NewRow("published", None)
    <3>2. /\ Accepted(o) \in 0..1
          /\ o = "live" => Accepted(o) = 1
      BY DEF Accepted
    <3>3. /\ new.due = None /\ new.attempts = 0 /\ new.status = "published"
          /\ new.mode = "none"
      BY DEF NewRow
    <3>4. posts'[t] = Accepted(o) /\ rows[t].status = "absent" /\ UNCHANGED rows
      BY <3>1, <3>2, <2>3 DEF PublishDirect, WebRowOK
    <3> HIDE DEF new
    <3>5. CASE o = "live"
      BY <3>1, <3>2, <3>3, <3>4, <3>5 DEF WebRowOK, Reports, ReportsAll, new
    <3>6. CASE o # "live"
      BY <3>1, <3>2, <3>4, <3>6 DEF WebRowOK, Settled
    <3>7. QED BY <3>5, <3>6
  <2>4. CASE WebSave(t)
    <3>1. form[t] \in Row
      BY <2>4 DEF WebSave, WorkerOK
    <3>2. rows'[t] = Stamped(form[t])
      BY <2>4 DEF WebSave
    <3>3. QED BY <2>4, <3>1, <3>2, RowFrames DEF WebSave, WebRowOK, Reports, ReportsAll, Settled
  <2>5. CASE WebCrash(t)
    BY <2>5 DEF WebCrash, WebRowOK, Reports, ReportsAll, Settled
  <2>6. QED BY <2>1, <2>2, <2>3, <2>4, <2>5 DEF WebStep, Schedule
<1>9. \A p \in Pollers : PollerOK(p)'
  <2> SUFFICES ASSUME NEW p \in Pollers PROVE PollerOK(p)'
    OBVIOUS
  <2>1. PollerOK(p) /\ (t \notin WebTasks => rows[t].status = "absent" /\ UNCHANGED web)
    BY <1>5 DEF FleetInv, Schedule
  <2>2. t \in WebTasks => web[t] # "done"
    BY DEF Schedule, PublishNow, PublishDirect, WebStep, WebCall, WebSave, WebCrash
  <2>3. \A u \in Tasks : Holds(p, u) \/ Recovers(p, u) => u # t
    BY <2>1, <2>2 DEF PollerOK
  <2>4. \A u \in stale[p] : u # t
    BY <2>1, <2>2 DEF PollerOK
  <2>5. stale[p] \subseteq Tasks
    BY DEF FleetInv, TypeInv, TypeOK
  <2>6. QED
    BY <2>1, <2>3, <2>4, <2>5, <1>2, <1>3 DEF PollerOK, Holds, Recovers, Overrules
<1>10. QED
  BY <1>1, <1>4, <1>6, <1>7, <1>8, <1>9 DEF FleetInv

-------------------------------------------------------------------------------
\* Steps of a poller.  p leaves every other poller alone.
OthersUnchanged(p) ==
    \A q \in Pollers : q # p =>
        /\ pc'[q] = pc[q] /\ cur'[q] = cur[q] /\ copy'[q] = copy[q]
        /\ stale'[q] = stale[q] /\ todo'[q] = todo[q]

Idles(p) == \A t \in Tasks : ~Holds(p, t) /\ ~Recovers(p, t)

\* A step that writes no row and starts and ends with nothing in hand.
LEMMA IdleFrame ==
    ASSUME FleetInv, TypeInv', NEW p \in Pollers, OthersUnchanged(p),
           UNCHANGED <<rows, posts, webVars>>, Idles(p), Idles(p)', PollerOK(p)'
    PROVE  FleetInv'
<1> USE DEF webVars, FleetInv
<1>1. \A q \in Pollers : PollerOK(q)'
  BY DEF PollerOK, OthersUnchanged, Holds, Recovers, Overrules
<1>2. \A t \in WebTasks : WebRowOK(t)'
  BY DEF WebRowOK, Settled
<1>3. \A t \in Tasks \ WebTasks : ScheduledRowOK(t)'
  <2> SUFFICES ASSUME NEW t \in Tasks \ WebTasks PROVE ScheduledRowOK(t)'
    OBVIOUS
  <2>1. \A q \in Pollers : Holds(q, t) => Holds(q, t)'
    BY DEF Idles, OthersUnchanged, Holds
  <2>2. QED BY <2>1 DEF ScheduledRowOK, Settled
<1>4. Exclusive'
  BY DEF Exclusive, Idles, OthersUnchanged, Holds, Recovers, Overrules
<1>5. QED BY <1>1, <1>2, <1>3, <1>4

\* A step of p about its task t, on which nobody else works.
LEMMA TaskFrame ==
    ASSUME FleetInv, TypeInv', NEW p \in Pollers, NEW t \in Tasks, OthersUnchanged(p),
           UNCHANGED webVars,
           \A u \in Tasks : u # t =>
              /\ rows'[u] = rows[u] /\ posts'[u] = posts[u]
              /\ ~Holds(p, u) /\ ~Holds(p, u)' /\ ~Recovers(p, u)',
           \A q \in Pollers : q # p => ~Holds(q, t) /\ ~Recovers(q, t),
           PollerOK(p)',
           IF t \in WebTasks THEN WebRowOK(t)' ELSE ScheduledRowOK(t)'
    PROVE  FleetInv'
<1> USE DEF webVars, FleetInv
<1>1. \A q \in Pollers : PollerOK(q)'
  <2> SUFFICES ASSUME NEW q \in Pollers, q # p PROVE PollerOK(q)'
    OBVIOUS
  <2>1. \A u \in Tasks : /\ Holds(q, u)' => u # t /\ Holds(q, u)
                         /\ Recovers(q, u)' => u # t /\ Recovers(q, u)
                         /\ Overrules(q, u)' => Overrules(q, u)
    BY DEF OthersUnchanged, Holds, Recovers, Overrules
  <2>2. QED BY <2>1 DEF PollerOK, OthersUnchanged
<1>2. \A u \in WebTasks : WebRowOK(u)'
  BY TaskAssumption DEF WebRowOK, Settled
<1>3. \A u \in Tasks \ WebTasks : ScheduledRowOK(u)'
  <2> SUFFICES ASSUME NEW u \in Tasks \ WebTasks, u # t PROVE ScheduledRowOK(u)'
    OBVIOUS
  <2>1. \A q \in Pollers : Holds(q, u) => Holds(q, u)'
    BY DEF OthersUnchanged, Holds
  <2>2. QED BY <2>1 DEF ScheduledRowOK, Settled
<1>4. Exclusive'
  BY DEF Exclusive, OthersUnchanged, Holds, Recovers, Overrules
<1>5. QED BY <1>1, <1>2, <1>3, <1>4

\* While p works on t, nobody else does.
LEMMA AloneOnTask ==
    ASSUME FleetInv, NEW p \in Pollers, NEW t \in Tasks, Holds(p, t) \/ Recovers(p, t)
    PROVE  \A q \in Pollers : q # p => ~Holds(q, t) /\ ~Recovers(q, t)
BY DEF FleetInv, Exclusive, PollerOK

LEMMA ListStaleKeepsFleet ==
    ASSUME FleetInv, NEW p \in Pollers, ListStale(p), TypeInv'
    PROVE  FleetInv'
<1> USE DEF FleetInv, TypeInv, TypeOK
<1>1. OthersUnchanged(p) /\ Idles(p) /\ Idles(p)'
  BY DEF ListStale, OthersUnchanged, Idles, Holds, Recovers, Overrules
<1>2. \A t \in Tasks : IsStale(rows[t]) => t \in WebTasks /\ web[t] = "done"
  <2> SUFFICES ASSUME NEW t \in Tasks, IsStale(rows[t])
               PROVE  t \in WebTasks /\ web[t] = "done"
    OBVIOUS
  <2>1. rows[t].status = "publishing" /\ ~(rows[t].age <= StaleAfter)
    BY TimeAssumption DEF IsStale, Row
  <2>2. t \in WebTasks
    BY <2>1 DEF ScheduledRowOK
  <2>3. QED BY <2>1, <2>2 DEF WebRowOK, WebState
<1>3. PollerOK(p)'
  BY <1>1, <1>2 DEF ListStale, PollerOK, Idles, Overrules, webVars
<1>4. QED BY <1>1, <1>3, IdleFrame DEF ListStale

LEMMA ListDueKeepsFleet ==
    ASSUME FleetInv, NEW p \in Pollers, ListDue(p), TypeInv'
    PROVE  FleetInv'
<1> USE DEF FleetInv, TypeInv, TypeOK
<1>1. OthersUnchanged(p) /\ Idles(p) /\ Idles(p)'
  BY DEF ListDue, OthersUnchanged, Idles, Holds, Recovers, Overrules
<1>2. PICK batch \in SUBSET {t \in Tasks : IsDue(rows[t])} :
         todo' = [todo EXCEPT ![p] = {[task |-> t, at |-> rows[t].due] : t \in batch}]
  BY DEF ListDue
<1>3. \A t \in batch : t \notin WebTasks
  BY DEF WebRowOK, IsDue
<1>4. PollerOK(p)'
  BY <1>1, <1>2, <1>3 DEF ListDue, PollerOK, Idles, Overrules, webVars
<1>5. QED BY <1>1, <1>4, IdleFrame DEF ListDue

LEMMA EndTickKeepsFleet ==
    ASSUME FleetInv, NEW p \in Pollers, EndTick(p), TypeInv'
    PROVE  FleetInv'
<1> USE DEF FleetInv, TypeInv, TypeOK
<1>1. OthersUnchanged(p) /\ Idles(p) /\ Idles(p)'
  BY DEF EndTick, OthersUnchanged, Idles, Holds, Recovers, Overrules
<1>2. PollerOK(p)'
  BY <1>1 DEF EndTick, PollerOK, Idles, Overrules, webVars
<1>3. QED BY <1>1, <1>2, IdleFrame DEF EndTick

LEMMA RecoverClaimKeepsFleet ==
    ASSUME FleetInv, NEW p \in Pollers, RecoverClaim(p), TypeInv'
    PROVE  FleetInv'
<1> USE DEF FleetInv, TypeInv, TypeOK, CasSucceeds
<1>1. PICK t \in stale[p] :
         /\ stale' = [stale EXCEPT ![p] = @ \ {t}]
         /\ IF CasSucceeds(rows[t], "publishing")
            THEN /\ rows' = [rows EXCEPT ![t] = HandedBack(@)]
                 /\ cur' = [cur EXCEPT ![p] = t]
                 /\ pc' = [pc EXCEPT ![p] = "recovered"]
            ELSE UNCHANGED <<rows, cur, pc>>
  BY DEF RecoverClaim
<1>2. t \in Tasks /\ t \in WebTasks /\ web[t] = "done"
  BY TaskAssumption DEF PollerOK
<1>3. OthersUnchanged(p) /\ Idles(p)
  BY <1>1 DEF RecoverClaim, OthersUnchanged, Idles, Holds, Recovers, Overrules
<1>4. CASE rows[t].status # "publishing"
  <2>1. Idles(p)' /\ PollerOK(p)'
    BY <1>1, <1>3, <1>4 DEF RecoverClaim, PollerOK, Idles, Holds, Recovers, Overrules, webVars
  <2>2. QED BY <1>1, <1>3, <1>4, <2>1, IdleFrame DEF RecoverClaim
<1>5. CASE rows[t].status = "publishing"
  <2>1. rows[t] \in Row /\ rows'[t] = HandedBack(rows[t])
    BY <1>1, <1>2, <1>5
  <2>2. /\ rows'[t].status = "scheduled" /\ rows'[t].due = rows[t].due
        /\ rows'[t].attempts = rows[t].attempts
    BY <2>1, RowFrames
  <2>3. cur'[p] = t /\ pc'[p] = "recovered" /\ UNCHANGED <<posts, webVars, todo>>
    BY <1>1, <1>5 DEF RecoverClaim
  <2>4. WebRowOK(t)'
    BY <1>2, <1>5, <2>2, <2>3 DEF WebRowOK, Settled, webVars
  <2>5. PollerOK(p)'
    BY <1>1, <1>2, <1>3, <2>2, <2>3 DEF PollerOK, Holds, Recovers, Overrules, webVars
  <2>6. \A q \in Pollers : q # p => ~Holds(q, t) /\ ~Recovers(q, t)
    BY <1>2, <1>5 DEF PollerOK
  <2>7. \A u \in Tasks : u # t => /\ rows'[u] = rows[u] /\ posts'[u] = posts[u]
                                  /\ ~Holds(p, u) /\ ~Holds(p, u)' /\ ~Recovers(p, u)'
    BY <1>1, <1>3, <1>5, <2>3 DEF Idles, Holds, Recovers, Overrules
  <2>8. QED BY <1>2, <1>3, <2>3, <2>4, <2>5, <2>6, <2>7, TaskFrame
<1>6. QED BY <1>4, <1>5

LEMMA ClaimKeepsFleet ==
    ASSUME FleetInv, NEW p \in Pollers, Claim(p), TypeInv'
    PROVE  FleetInv'
<1> USE DEF FleetInv, TypeInv, TypeOK, CasSucceeds
<1>1. PICK e \in todo[p] :
         /\ todo' = [todo EXCEPT ![p] = @ \ {e}]
         /\ IF CasSucceeds(rows[e.task], "scheduled")
            THEN /\ rows' = [rows EXCEPT ![e.task] = Claimed(@)]
                 /\ cur' = [cur EXCEPT ![p] = e.task]
                 /\ pc' = [pc EXCEPT ![p] = "claimed"]
            ELSE UNCHANGED <<rows, cur, pc>>
  BY DEF Claim
<1> DEFINE t == e.task
<1>2. t \in Tasks /\ t \notin WebTasks
  BY DEF PollerOK
<1>3. OthersUnchanged(p) /\ Idles(p)
  BY <1>1 DEF Claim, OthersUnchanged, Idles, Holds, Recovers, Overrules
<1>4. CASE rows[t].status # "scheduled"
  <2>1. Idles(p)' /\ PollerOK(p)'
    BY <1>1, <1>3, <1>4 DEF Claim, PollerOK, Idles, Holds, Recovers, Overrules, webVars
  <2>2. QED BY <1>1, <1>3, <1>4, <2>1, IdleFrame DEF Claim
<1>5. CASE rows[t].status = "scheduled"
  <2>1. rows[t] \in Row /\ rows'[t] = Claimed(rows[t])
    BY <1>1, <1>2, <1>5
  <2>2. rows'[t].status = "publishing" /\ rows'[t].age <= StaleAfter
    BY <2>1, RowFrames, TimeAssumption
  <2>3. cur'[p] = t /\ pc'[p] = "claimed" /\ UNCHANGED <<posts, webVars, stale>>
    BY <1>1, <1>5 DEF Claim
  <2>4. (AnswersArrive => posts[t] = 0) /\ web[t] = "none"
    BY <1>2, <1>5 DEF ScheduledRowOK
  <2> todo'[p] \subseteq todo[p] /\ \A u \in Tasks : u # t => rows'[u] = rows[u]
    BY <1>1, <1>5
  <2> HIDE DEF t
  <2>5. ScheduledRowOK(t)'
    BY <2>2, <2>3, <2>4 DEF ScheduledRowOK, Settled, Holds, webVars
  <2>6. PollerOK(p)'
    BY <1>2, <1>3, <2>2, <2>3, <2>4 DEF PollerOK, Holds, Recovers, Overrules, webVars
  <2>7. \A q \in Pollers : q # p => ~Holds(q, t) /\ ~Recovers(q, t)
    BY <1>2, <1>5 DEF PollerOK
  <2>8. \A u \in Tasks : u # t => /\ rows'[u] = rows[u] /\ posts'[u] = posts[u]
                                  /\ ~Holds(p, u) /\ ~Holds(p, u)' /\ ~Recovers(p, u)'
    BY <1>3, <2>3 DEF Idles, Holds, Recovers, Overrules
  <2>9. QED BY <1>2, <1>3, <2>3, <2>5, <2>6, <2>7, <2>8, TaskFrame
<1>6. QED BY <1>4, <1>5

\* Reading the task in hand.
LEMMA ReadKeepsFleet ==
    ASSUME FleetInv, NEW p \in Pollers, TypeInv',
           RecoverRead(p) \/ LoadTask(p) \/ ReadTask(p, "raised", "rescued")
    PROVE  FleetInv'
<1> USE DEF FleetInv, TypeInv, TypeOK
<1>0. cur[p] \in Tasks
  BY DEF WorkerOK, RecoverRead, LoadTask, ReadTask
<1>1. PICK t \in Tasks : t = cur[p] /\ rows[t] \in Row
  BY <1>0
<1>2. /\ OthersUnchanged(p)
      /\ UNCHANGED <<rows, posts, stale, todo, cur, webVars>>
      /\ copy'[p] = Stamped(rows[t])
      /\ \/ pc[p] = "recovered" /\ pc'[p] = "reread"
         \/ pc[p] = "claimed" /\ pc'[p] = "loaded"
         \/ pc[p] = "raised" /\ pc'[p] = "rescued"
  BY <1>1 DEF RecoverRead, LoadTask, ReadTask, OthersUnchanged
<1>3. /\ copy'[p].status = rows[t].status /\ copy'[p].due = rows[t].due
      /\ copy'[p].attempts = rows[t].attempts
  BY <1>1, <1>2, RowFrames
<1>4. \A u \in Tasks : /\ Holds(p, u) <=> Holds(p, u)'
                       /\ Recovers(p, u) <=> Recovers(p, u)'
                       /\ Holds(p, u) \/ Recovers(p, u) => u = t
  BY <1>1, <1>2 DEF Holds, Recovers, Overrules
<1>5. Holds(p, t) \/ Recovers(p, t)
  BY <1>1, <1>2 DEF Holds, Recovers, Overrules
<1>6. PollerOK(p)'
  BY <1>1, <1>2, <1>3, <1>4 DEF PollerOK, WebRowOK, webVars, Holds, Recovers, Overrules
<1>7. IF t \in WebTasks THEN WebRowOK(t)' ELSE ScheduledRowOK(t)'
  <2>1. CASE t \in WebTasks
    BY <2>1, <1>2 DEF WebRowOK, Settled, webVars
  <2>2. CASE t \notin WebTasks
    <3>1. \A q \in Pollers : Holds(q, t) => Holds(q, t)'
      BY <1>1, <1>2, <1>4 DEF OthersUnchanged, Holds
    <3>2. QED BY <1>1, <1>2, <2>2, <3>1 DEF ScheduledRowOK, Settled, webVars
  <2>3. QED BY <2>1, <2>2
<1>8. QED BY <1>1, <1>2, <1>4, <1>5, <1>6, <1>7, AloneOnTask, TaskFrame

\* Reading the task whose save was committed, and may be anybody's by now.
LEMMA OverruleReadKeepsFleet ==
    ASSUME FleetInv, NEW p \in Pollers, ReadTask(p, "unsure", "overruling"), TypeInv'
    PROVE  FleetInv'
<1> USE DEF FleetInv, TypeInv, TypeOK
<1>1. /\ OthersUnchanged(p) /\ UNCHANGED <<rows, posts, stale, todo, cur, webVars>>
      /\ pc[p] = "unsure" /\ pc'[p] = "overruling"
  BY DEF ReadTask, OthersUnchanged
<1>2. Idles(p) /\ Idles(p)' /\ \A t \in Tasks : Overrules(p, t)' => Overrules(p, t)
  BY <1>1 DEF Idles, Holds, Recovers, Overrules
<1>3. ~HealthyWorkers
  <2>1. cur[p] \in Tasks
    BY DEF WorkerOK, ReadTask
  <2>2. Overrules(p, cur[p])
    BY <1>1 DEF Overrules
  <2> QED BY <2>1, <2>2, HealthyFleet DEF PollerOK
<1>4. PollerOK(p)'
  BY <1>1, <1>2, <1>3 DEF PollerOK, Idles, webVars
<1> QED BY <1>1, <1>2, <1>4, IdleFrame

\* While answers arrive, no scheduled task has more than one post.
LEMMA OnePostEach ==
    ASSUME FleetInv, AnswersArrive, NEW t \in Tasks \ WebTasks
    PROVE  posts[t] <= 1
<1> USE DEF FleetInv, TypeInv, TypeOK
<1>1. ScheduledRowOK(t) /\ rows[t].status \in Status /\ posts[t] \in Nat
  BY DEF Row
<1>2. CASE rows[t].status = "publishing"
  <2>1. PICK p \in Pollers : Holds(p, t)
    BY <1>1, <1>2 DEF ScheduledRowOK
  <2> QED BY <2>1 DEF PollerOK
<1>3. CASE rows[t].status # "publishing"
  BY <1>1, <1>3 DEF ScheduledRowOK, Settled, Reports, Status
<1> QED BY <1>2, <1>3

\* Writing failed over a task whose save was committed: it may take away a row that another
\* poller publishes, but settles nothing wrongly that was not settled wrongly before.
LEMMA OverruleKeepsFleet ==
    ASSUME FleetInv, NEW p \in Pollers, RescueSave(p), pc[p] = "overruling", TypeInv'
    PROVE  FleetInv'
<1> USE DEF FleetInv, TypeInv, TypeOK
<1>1. PICK t \in Tasks : t = cur[p] /\ copy[p] \in Row /\ Overrules(p, t)
  BY DEF WorkerOK, Overrules
<1>2. t \notin WebTasks /\ ~CommitsHeard /\ ~HealthyWorkers
  BY <1>1, HealthyFleet DEF PollerOK
<1>3. /\ rows'[t] = Failed(copy[p]) /\ \A u \in Tasks : u # t => rows'[u] = rows[u]
      /\ UNCHANGED <<posts, stale, todo, webVars>>
      /\ pc'[p] = "running" /\ OthersUnchanged(p)
  BY <1>1 DEF RescueSave, SaveAndRelease, Release, OthersUnchanged
<1>4. rows'[t].status = "failed"
  BY <1>1, <1>3, RowFrames
<1>5. /\ \A u \in Tasks : ~Holds(p, u) /\ ~Recovers(p, u) /\ ~Overrules(p, u)' 
      /\ \A u \in Tasks : ~Holds(p, u)' /\ ~Recovers(p, u)'
      /\ \A q \in Pollers, u \in Tasks : Holds(q, u)' <=> Holds(q, u)
      /\ \A q \in Pollers, u \in Tasks : Recovers(q, u)' <=> Recovers(q, u)
  BY <1>1, <1>3 DEF OthersUnchanged, Holds, Recovers, Overrules
<1>6. \A q \in Pollers : PollerOK(q)'
  <2> SUFFICES ASSUME NEW q \in Pollers PROVE PollerOK(q)'
    OBVIOUS
  <2>1. CASE q = p
    BY <2>1, <1>3, <1>5 DEF PollerOK, webVars
  <2>2. CASE q # p
    <3>1. PollerOK(q) /\ \A u \in Tasks : Overrules(q, u)' => Overrules(q, u)
      BY <1>3, <2>2 DEF OthersUnchanged, Overrules
    <3>2. \A u \in Tasks : Recovers(q, u) => u # t
      BY <1>2, <3>1 DEF PollerOK
    <3> QED BY <1>2, <1>3, <1>4, <1>5, <2>2, <3>1, <3>2 DEF PollerOK, OthersUnchanged, webVars
  <2> QED BY <2>1, <2>2
<1>7. \A u \in Tasks \ WebTasks : ScheduledRowOK(u)'
  <2> SUFFICES ASSUME NEW u \in Tasks \ WebTasks PROVE ScheduledRowOK(u)'
    OBVIOUS
  <2>1. CASE u = t
    <3>1. AnswersArrive => posts[t] <= 1
      BY <1>2, OnePostEach
    <3> QED BY <1>2, <1>3, <1>4, <2>1, <3>1 DEF ScheduledRowOK, Settled, Reports, webVars
  <2>2. CASE u # t
    BY <1>3, <1>5, <2>2 DEF ScheduledRowOK, Settled, webVars
  <2> QED BY <2>1, <2>2
<1>8. \A u \in WebTasks : WebRowOK(u)'
  BY <1>2, <1>3, TaskAssumption DEF WebRowOK, Settled, webVars
<1>9. Exclusive'
  BY <1>5 DEF Exclusive
<1> QED BY <1>6, <1>7, <1>8, <1>9

\* An exception with the task in hand.
LEMMA StoreRaisesKeepsFleet ==
    ASSUME FleetInv, NEW p \in Pollers, StoreRaises(p), TypeInv'
    PROVE  FleetInv'
<1> USE DEF FleetInv, TypeInv, TypeOK
<1>1. PICK t \in Tasks : t = cur[p] /\ Holds(p, t)
  BY DEF WorkerOK, StoreRaises, Holds
<1>2. /\ OthersUnchanged(p) /\ pc'[p] = "raised"
      /\ UNCHANGED <<rows, posts, stale, todo, cur, webVars>>
  BY DEF StoreRaises, OthersUnchanged
<1>3. \A u \in Tasks : /\ Holds(p, u) <=> Holds(p, u)'
                       /\ Recovers(p, u) <=> Recovers(p, u)'
                       /\ Holds(p, u) \/ Recovers(p, u) => u = t
  BY <1>1, <1>2 DEF StoreRaises, Holds, Recovers, Overrules
<1>4. ~HealthyWorkers
  BY DEF StoreRaises, HealthyWorkers
<1>5. PollerOK(p)'
  BY <1>1, <1>2, <1>3, <1>4 DEF PollerOK, webVars, Recovers, Holds, Overrules
<1>6. t \notin WebTasks /\ \A q \in Pollers : Holds(q, t) => Holds(q, t)'
  BY <1>1, <1>2, <1>3 DEF PollerOK, OthersUnchanged, Holds
<1>7. ScheduledRowOK(t)'
  BY <1>1, <1>2, <1>6 DEF ScheduledRowOK, Settled, webVars
<1>8. QED BY <1>1, <1>2, <1>3, <1>5, <1>6, <1>7, AloneOnTask, TaskFrame

LEMMA CallPublisherKeepsFleet ==
    ASSUME FleetInv, NEW p \in Pollers, CallPublisher(p), TypeInv'
    PROVE  FleetInv'
<1> USE DEF FleetInv, TypeInv, TypeOK
<1>1. PICK t \in Tasks : t = cur[p] /\ Holds(p, t) /\ copy[p] \in Row
  BY DEF WorkerOK, CallPublisher, Holds
<1>2. PICK o \in PossibleOutcomes :
         /\ copy' = [copy EXCEPT ![p] = Published(@, o)]
         /\ posts' = [posts EXCEPT ![cur[p]] = @ + Accepted(o)]
  BY DEF CallPublisher
<1>3. /\ ReportsAll(copy'[p], Accepted(o)) /\ Accepted(o) \in 0..1
      /\ copy'[p].status \in {"published", "failed"}
  BY <1>1, <1>2, PublishedReports
<1>4. /\ t \notin WebTasks
      /\ rows[t].status = "publishing" \/ (rows[t].status = "failed" /\ ~CommitsHeard)
      /\ AnswersArrive => posts[t] = 0
      /\ ~Recovers(p, t)
  BY <1>1 DEF PollerOK, CallPublisher, Recovers
<1>5. /\ AnswersArrive => posts'[t] = Accepted(o)
      /\ UNCHANGED <<rows, stale, todo, cur, webVars>> /\ pc'[p] = "answered"
      /\ OthersUnchanged(p)
  BY <1>1, <1>2, <1>3, <1>4 DEF CallPublisher, OthersUnchanged
<1>6. \A u \in Tasks : u # t => /\ rows'[u] = rows[u] /\ posts'[u] = posts[u]
                                /\ ~Holds(p, u) /\ ~Holds(p, u)' /\ ~Recovers(p, u)'
  BY <1>1, <1>2, <1>5 DEF Holds, Recovers, Overrules
<1>7. PollerOK(p)'
  <2>1. ReportsAll(copy'[p], posts'[t]) /\ (AnswersArrive => posts'[t] <= 1)
    BY <1>3, <1>5, HealthyFleet DEF Reports, ReportsAll
  <2>2. HealthyWorkers => pc'[p] \notin {"raised", "rescued"}
    BY <1>5
  <2>3. QED
    BY <1>1, <1>3, <1>4, <1>5, <1>6, <2>1, <2>2 DEF PollerOK, Holds, Recovers, Overrules, webVars
<1>8. ScheduledRowOK(t)'
  <2>1. Holds(p, t)'
    BY <1>1, <1>5 DEF Holds
  <2>2. rows[t].status = "failed" => Reports(rows'[t], posts'[t])
    BY <1>3, <1>4, <1>5, HealthyFleet DEF Reports
  <2>3. QED BY <2>1, <2>2, <1>1, <1>4, <1>5 DEF ScheduledRowOK, Settled, webVars
<1>9. QED BY <1>1, <1>4, <1>5, <1>6, <1>7, <1>8, AloneOnTask, TaskFrame

\* Saving the task in hand, whichever of the four places does it.
LEMMA SaveKeepsFleet ==
    ASSUME FleetInv, TypeInv', NEW p \in Pollers, NEW t \in Tasks, t = cur[p],
           Holds(p, t) \/ Recovers(p, t),
           NEW row, NEW next \in {"recovering", "running"}, SaveAndRelease(p, row, next),
           IF t \in WebTasks
           THEN row.status = "scheduled" /\ row.due = None /\ row.attempts = 0
           ELSE \/ row.status = "scheduled" /\ (AnswersArrive => posts[t] = 0)
                \/ Reports(row, posts[t])
    PROVE  FleetInv'
<1> USE DEF FleetInv, TypeInv, TypeOK
<1>1. /\ rows'[t] = row
      /\ UNCHANGED <<posts, stale, todo, webVars>>
      /\ cur'[p] = None /\ pc'[p] = next
      /\ OthersUnchanged(p)
  BY DEF SaveAndRelease, Release, OthersUnchanged
<1>2. \A u \in Tasks : /\ u # t => rows'[u] = rows[u] /\ ~Holds(p, u)
                       /\ ~Holds(p, u)' /\ ~Recovers(p, u)'
  BY <1>1 DEF SaveAndRelease, Holds, Recovers, Overrules
<1>3. PollerOK(p)'
  BY <1>1, <1>2 DEF PollerOK, Overrules, webVars
<1>4. CASE t \in WebTasks
  <2>1. web[t] = "done" /\ rows[t].status = "scheduled"
    BY <1>4 DEF PollerOK
  <2>2. WebRowOK(t)'
    BY <1>1, <1>4, <2>1 DEF WebRowOK, Settled, webVars
  <2>3. QED BY <1>1, <1>2, <1>3, <1>4, <2>2, AloneOnTask, TaskFrame
<1>5. CASE t \notin WebTasks
  <2>1. ScheduledRowOK(t)'
    BY <1>1, <1>5 DEF ScheduledRowOK, Settled, Reports, webVars
  <2>2. QED BY <1>1, <1>2, <1>3, <1>5, <2>1, AloneOnTask, TaskFrame
<1>6. QED BY <1>4, <1>5

LEMMA SavesKeepFleet ==
    ASSUME FleetInv, NEW p \in Pollers,
           RecoverSave(p) \/ FailUnpublished(p) \/ Finalize(p)
               \/ (RescueSave(p) /\ pc[p] = "rescued"),
           TypeInv'
    PROVE  FleetInv'
<1> USE DEF FleetInv, TypeInv, TypeOK
<1>1. PICK t \in Tasks : t = cur[p] /\ copy[p] \in Row
  BY DEF WorkerOK, RecoverSave, FailUnpublished, Finalize, RescueSave
<1>2. CASE RecoverSave(p)
  <2>1. Recovers(p, t)
    BY <1>1, <1>2 DEF RecoverSave, Recovers
  <2>2. t \in WebTasks /\ copy[p].status = "scheduled" /\ copy[p].due = None /\ copy[p].attempts = 0
    BY <1>2, <2>1 DEF PollerOK, RecoverSave
  <2>3. Recovered(copy[p]) = Stamped(copy[p])
    BY <2>2, LimitAssumption DEF Recovered
  <2>4. /\ Stamped(copy[p]).status = "scheduled" /\ Stamped(copy[p]).due = None
        /\ Stamped(copy[p]).attempts = 0
    BY <1>1, <2>2, RowFrames
  <2>5. QED
    BY <1>1, <1>2, <2>1, <2>2, <2>3, <2>4, SaveKeepsFleet DEF RecoverSave
<1>3. CASE FailUnpublished(p)
  <2>1. Holds(p, t)
    BY <1>1, <1>3 DEF FailUnpublished, Holds
  <2>2. t \notin WebTasks /\ (AnswersArrive => posts[t] = 0)
    BY <1>3, <2>1 DEF PollerOK, FailUnpublished
  <2>3. Reports(Failed(copy[p]), posts[t])
    BY <1>1, <2>2, RowFrames, HealthyFleet DEF Reports
  <2>4. QED BY <1>1, <1>3, <2>1, <2>2, <2>3, SaveKeepsFleet DEF FailUnpublished
<1>4. CASE Finalize(p)
  <2>1. Holds(p, t)
    BY <1>1, <1>4 DEF Finalize, Holds
  <2>2. t \notin WebTasks /\ ReportsAll(copy[p], posts[t])
    BY <1>4, <2>1 DEF PollerOK, Finalize
  <2>3. \/ Finalized(copy[p]).status = "scheduled" /\ (AnswersArrive => posts[t] = 0)
        \/ Reports(Finalized(copy[p]), posts[t])
    BY <1>1, <2>2, FinalizedReports DEF ReportsAll
  <2>4. QED BY <1>1, <1>4, <2>1, <2>2, <2>3, SaveKeepsFleet DEF Finalize
<1>5. CASE RescueSave(p) /\ pc[p] = "rescued"
  <2>1. Holds(p, t)
    BY <1>1, <1>5 DEF RescueSave, Holds
  <2>2. /\ t \notin WebTasks /\ ~HealthyWorkers
        /\ AnswersArrive => posts[t] <= 1
    BY <1>5, <2>1 DEF PollerOK, RescueSave
  <2>3. Reports(Failed(copy[p]), posts[t])
    BY <1>1, <2>2, RowFrames DEF Reports
  <2>4. QED BY <1>1, <1>5, <2>1, <2>2, <2>3, SaveKeepsFleet DEF RescueSave
<1>6. QED BY <1>2, <1>3, <1>4, <1>5

\* The same saves, committed but not heard of.
LEMMA CommitLostKeepsFleet ==
    ASSUME FleetInv, NEW p \in Pollers, CommitLost(p), TypeInv'
    PROVE  FleetInv'
<1> USE DEF FleetInv, TypeInv, TypeOK
<1>1. PICK t \in Tasks : t = cur[p] /\ copy[p] \in Row /\ Holds(p, t)
  BY DEF WorkerOK, CommitLost, Holds
<1>2. PICK row :
         /\ rows' = [rows EXCEPT ![t] = row]
         /\ \/ pc[p] = "loaded" /\ row = Failed(copy[p])
            \/ pc[p] = "answered" /\ row = Finalized(copy[p])
  BY <1>1 DEF CommitLost
<1>3. /\ OthersUnchanged(p) /\ pc'[p] = "unsure" /\ cur' = cur
      /\ UNCHANGED <<posts, stale, todo, webVars>> /\ ~CommitsHeard
  BY DEF CommitLost, OthersUnchanged, CommitsHeard
<1>4. t \notin WebTasks /\ PollerOK(p)
  BY <1>1 DEF PollerOK
<1>5. \/ row.status = "scheduled" /\ (AnswersArrive => posts[t] = 0)
      \/ Reports(row, posts[t])
  <2>1. CASE pc[p] = "loaded"
    <3>1. AnswersArrive => posts[t] = 0
      BY <1>1, <1>4, <2>1 DEF PollerOK
    <3> QED BY <1>1, <1>2, <2>1, <3>1, RowFrames, HealthyFleet DEF Reports
  <2>2. CASE pc[p] = "answered"
    BY <1>1, <1>2, <1>4, <2>2, FinalizedReports DEF PollerOK, ReportsAll
  <2> QED BY <1>2, <2>1, <2>2
<1>6. rows'[t] = row /\ \A u \in Tasks : u # t => rows'[u] = rows[u] /\ ~Holds(p, u)
  BY <1>1, <1>2 DEF Holds
<1>7. \A u \in Tasks : ~Holds(p, u)' /\ ~Recovers(p, u)' /\ (Overrules(p, u)' => u = t)
  BY <1>1, <1>3 DEF Holds, Recovers, Overrules
<1>8. PollerOK(p)'
  BY <1>3, <1>4, <1>7, HealthyFleet DEF PollerOK, webVars
<1>9. ScheduledRowOK(t)'
  <2>1. row.status # "publishing"
    BY <1>5 DEF Reports
  <2> QED BY <1>3, <1>4, <1>5, <1>6, <2>1 DEF ScheduledRowOK, Settled, Reports, webVars
<1> QED BY <1>1, <1>3, <1>4, <1>6, <1>7, <1>8, <1>9, AloneOnTask, TaskFrame

-------------------------------------------------------------------------------
\* Time passes only while every claim is fresh.
LEMMA TickKeepsFleet ==
    ASSUME LivingWorkers, FleetInv, Tick
    PROVE  FleetInv'
<1>0. TypeInv'
  BY TickKeepsTypes DEF FleetInv
<1> USE DEF FleetInv, TypeInv, TypeOK
<1>1. Punctual /\ UNCHANGED <<posts, pc, stale, todo, cur, webVars, mishaps>>
  BY DEF Tick, LivingWorkers
<1>2. \A t \in Tasks :
         /\ rows'[t].status = rows[t].status /\ rows'[t].mode = rows[t].mode
         /\ rows'[t].attempts = rows[t].attempts
         /\ rows[t].due = None => rows'[t].due = None
  BY RowFrames DEF Tick
<1>3. \A t \in Tasks : rows[t].age < StaleAfter => rows'[t].age <= StaleAfter
  <2> SUFFICES ASSUME NEW t \in Tasks, rows[t].age < StaleAfter
               PROVE  Aged(rows[t]).age <= StaleAfter
    BY DEF Tick
  <2> DEFINE row == rows[t]
  <2>1. row \in Row
    OBVIOUS
  <2>2. Older(row.age) <= StaleAfter
    BY <2>1, TimeAssumption DEF Older, Row
  <2> HIDE DEF row
  <2>3. Aged(row).age \in {row.age, Older(row.age)}
    BY <2>1 DEF Aged, Row
  <2>4. QED BY <2>1, <2>2, <2>3, TimeAssumption DEF Row, row
<1>4. \A p \in Pollers : copy[p] \in Row =>
         /\ copy'[p].status = copy[p].status /\ copy'[p].mode = copy[p].mode
         /\ copy'[p].attempts = copy[p].attempts
         /\ copy[p].due = None => copy'[p].due = None
  <2>1. \A r \in Row : LET s == [r EXCEPT !.due = Later(@)] IN
           /\ s.status = r.status /\ s.mode = r.mode /\ s.attempts = r.attempts
           /\ r.due = None => s.due = None
    BY DEF Row, Later
  <2>2. QED BY <2>1 DEF Tick
<1>5. \A p \in Pollers, t \in Tasks : /\ Holds(p, t) <=> Holds(p, t)'
                                      /\ Recovers(p, t) <=> Recovers(p, t)'
  BY <1>1 DEF Holds, Recovers, Overrules
<1>6. \A t \in Tasks \ WebTasks : ScheduledRowOK(t)'
  BY <1>1, <1>2, <1>3, <1>5 DEF ScheduledRowOK, Settled, Reports, Punctual, webVars
<1>7. \A t \in WebTasks : WebRowOK(t)'
  BY <1>1, <1>2, <1>3, TaskAssumption
  DEF WebRowOK, WebHolds, Settled, Reports, ReportsAll, Punctual, webVars
<1>8. \A p \in Pollers : PollerOK(p)'
  <2> SUFFICES ASSUME NEW p \in Pollers PROVE PollerOK(p)'
    OBVIOUS
  <2>1. pc[p] \in {"reread", "answered"} =>
           /\ copy'[p].status = copy[p].status /\ copy'[p].mode = copy[p].mode
           /\ copy'[p].attempts = copy[p].attempts
           /\ copy[p].due = None => copy'[p].due = None
    BY <1>4 DEF WorkerOK
  <2>2. ASSUME NEW t \in Tasks, Holds(p, t)'
        PROVE  /\ t \notin WebTasks
               /\ rows'[t].status = "publishing" \/ (rows'[t].status = "failed" /\ ~CommitsHeard)
               /\ AnswersArrive =>
                     /\ posts'[t] <= 1
                     /\ pc'[p] \in {"claimed", "loaded"} => posts'[t] = 0
               /\ pc'[p] = "answered" => ReportsAll(copy[p], posts[t])'
    <3>1. pc[p] = "answered" =>
             (ReportsAll(copy'[p], posts[t]) <=> ReportsAll(copy[p], posts[t]))
      BY <2>1 DEF Reports, ReportsAll
    <3>2. QED BY <1>1, <1>2, <1>5, <2>2, <3>1 DEF PollerOK
  <2>3. ASSUME NEW t \in Tasks, Recovers(p, t)'
        PROVE  /\ t \in WebTasks
               /\ web'[t] = "done"
               /\ rows'[t].status = "scheduled"
               /\ pc'[p] = "reread" => /\ copy'[p].status = "scheduled"
                                       /\ copy'[p].due = None
                                       /\ copy'[p].attempts = 0
    BY <1>1, <1>2, <1>5, <2>1, <2>3 DEF PollerOK, webVars
  <2>4. \A t \in Tasks : Overrules(p, t)' => Overrules(p, t)
    BY <1>1 DEF Overrules
  <2>5. QED BY <1>1, <2>2, <2>3, <2>4 DEF PollerOK, webVars
<1>9. Exclusive'
  BY <1>1 DEF Exclusive, Holds, Recovers, Overrules
<1>10. QED BY <1>0, <1>6, <1>7, <1>8, <1>9

LEMMA FleetStep == ASSUME LivingWorkers, FleetInv, [Next]_vars PROVE FleetInv'
<1>1. CASE Tick
  BY <1>1, TickKeepsFleet
<1>2. CASE \E t \in Tasks :
              Schedule(t) \/ PublishNow(t) \/ PublishDirect(t) \/ WebStep(t) \/ WebCrash(t)
  BY <1>2, WebKeepsFleet
<1>3. ASSUME NEW p \in Pollers, PollerStep(p) \/ StoreRaises(p) \/ CommitLost(p) \/ Crash(p)
      PROVE  FleetInv'
  <2>1. TypeInv'
    BY <1>3, PollerKeepsTypes DEF FleetInv
  <2>2. ~Crash(p)
    BY DEF LivingWorkers, Crash
  <2>3. RescueRead(p) \/ RescueSave(p) => FleetInv'
    BY <2>1, ReadKeepsFleet, OverruleReadKeepsFleet, SavesKeepFleet, OverruleKeepsFleet
    DEF RescueRead, RescueSave
  <2>4. QED
    BY <1>3, <2>1, <2>2, <2>3, ListStaleKeepsFleet, RecoverClaimKeepsFleet, ReadKeepsFleet,
       SavesKeepFleet, ListDueKeepsFleet, ClaimKeepsFleet, CallPublisherKeepsFleet,
       EndTickKeepsFleet, StoreRaisesKeepsFleet, CommitLostKeepsFleet DEF PollerStep
<1>4. CASE UNCHANGED vars
  BY <1>4 DEF vars, workerVars, webVars, FleetInv, TypeInv, TypeOK, WorkerOK, ScheduledRowOK,
     WebRowOK, PollerOK, Exclusive, Holds, Recovers, Overrules, Settled
<1>5. QED BY <1>1, <1>2, <1>3, <1>4 DEF Next

LEMMA FleetInvariant == ASSUME LivingWorkers PROVE Spec => []FleetInv
BY FleetInit, FleetStep, PTL DEF Spec

\* No post is made twice, whatever the number of workers and tasks, when the workers
\* neither crash nor stall and hear of what they posted; the store may raise, with or
\* without having committed, and web processes may die at any moment.
THEOREM NeverPostsTwice == ASSUME LivingWorkers, AnswersArrive PROVE Spec => []AtMostOnePost
<1>1. FleetInv => AtMostOnePost
  <2> SUFFICES ASSUME FleetInv, NEW t \in Tasks PROVE posts[t] <= 1
    BY DEF AtMostOnePost
  <2>1. CASE t \in WebTasks
    BY <2>1 DEF FleetInv, TypeInv, TypeOK, WebRowOK, Reports, ReportsAll, WebState
  <2>2. CASE t \notin WebTasks
    BY <2>2, OnePostEach
  <2>3. QED BY <2>1, <2>2
<1>2. QED BY <1>1, FleetInvariant, PTL

\* Two workers never publish one task at the same time, whether the store raises with or
\* without having committed; the row of a task in hand says so as well, unless a commit was
\* not heard of and the exception handler wrote over it. No worker dies or stalls.
THEOREM OnePublisherAtATime ==
  ASSUME LivingWorkers PROVE Spec => [](NeverTogether /\ (CommitsHeard => SinglePublisher))
<1>1. FleetInv => NeverTogether /\ (CommitsHeard => SinglePublisher)
  BY DEF FleetInv, Exclusive, PollerOK, ScheduledRowOK, SinglePublisher, NeverTogether, WebHolds
<1>2. QED BY <1>1, FleetInvariant, PTL

\* A settled row is never written again by anybody, the exception handler of run_task
\* included, while no worker dies or stalls and a store that raises has written nothing.
\* (After a commit that was not heard of, the handler does write over a published row.)
THEOREM SettledIsFinal == ASSUME LivingWorkers, CommitsHeard PROVE Spec => FinalIsFinal
<1>1. ASSUME FleetInv, [Next]_vars
      PROVE  [\A t \in Tasks : Settled(t) => rows'[t] = rows[t]]_vars
  <2> SUFFICES ASSUME Next, NEW t \in Tasks, Settled(t) PROVE rows'[t] = rows[t]
    BY <1>1
  <2> USE <1>1 DEF FleetInv, TypeInv, TypeOK, Settled
  <2>1. CASE Tick
    BY <2>1 DEF Tick, Aged
  <2>2. ASSUME NEW u \in Tasks,
               Schedule(u) \/ PublishNow(u) \/ PublishDirect(u) \/ WebStep(u) \/ WebCrash(u)
        PROVE  rows'[t] = rows[t]
    <3>1. CASE Schedule(u) \/ PublishNow(u) \/ WebSave(u)
      <4>1. rows[u].status \notin {"published", "failed"}
        BY <3>1 DEF Schedule, PublishNow, WebSave, WebRowOK, ScheduledRowOK
      <4>2. t # u
        BY <4>1
      <4>3. QED BY <3>1, <4>2 DEF Schedule, PublishNow, WebSave
    <3>2. QED
      BY <2>2, <3>1 DEF PublishDirect, WebStep, WebCall, WebCrash
  <2>3. ASSUME NEW p \in Pollers, PollerStep(p) \/ StoreRaises(p) \/ CommitLost(p) \/ Crash(p)
        PROVE  rows'[t] = rows[t]
    <3>0. ~CommitLost(p)
      BY DEF CommitLost, CommitsHeard
    <3>1. cur[p] = t => pc[p] \in {"idle", "recovering", "running"}
      BY <2>3 DEF PollerOK, Holds, Recovers, Overrules, PollerState
    <3>2. CASE RecoverClaim(p) \/ Claim(p)
      BY <3>2 DEF RecoverClaim, Claim, CasSucceeds
    <3>3. CASE RecoverSave(p) \/ FailUnpublished(p) \/ Finalize(p) \/ RescueSave(p)
      BY <3>1, <3>3 DEF RecoverSave, FailUnpublished, Finalize, RescueSave, SaveAndRelease
    <3>4. QED
      BY <2>3, <3>0, <3>2, <3>3 DEF PollerStep, ListStale, RecoverRead, ListDue, LoadTask,
         CallPublisher, RescueRead, EndTick, StoreRaises, Crash, ReadTask
  <2>4. QED BY <2>1, <2>2, <2>3 DEF Next
<1>2. QED BY <1>1, FleetInvariant, PTL DEF Spec, FinalIsFinal
-------------------------------------------------------------------------------
(* What settled rows say.  Each time the store raises, with or without      *)
(* having committed, one task comes under suspicion of being failed with a  *)
(* post, and no other step brings a task there.                             *)

\* The exception handler of p has task t in hand.
Handles(p, t) == cur[p] = t /\ pc[p] \in {"raised", "rescued", "unsure", "overruling"}

Suspect(t) ==
    \/ rows[t].status = "failed" /\ (posts[t] > 0 \/ \E p \in Pollers : Holds(p, t))
    \/ \E p \in Pollers : Handles(p, t)

Suspects == {t \in Tasks \ WebTasks : Suspect(t)}

SuspectInv == IsFiniteSet(Suspects) /\ Cardinality(Suspects) <= mishaps

\* A step of p about t leaves the other tasks as they were.
LEMMA SuspectFrame ==
    ASSUME NEW p \in Pollers, NEW t, OthersUnchanged(p),
           \A u \in Tasks : u # t => /\ rows'[u] = rows[u] /\ posts'[u] = posts[u]
                                     /\ ~Holds(p, u)' /\ ~Handles(p, u)'
    PROVE  Suspects' \subseteq Suspects \cup {t}
<1> SUFFICES ASSUME NEW u \in Tasks \ WebTasks, u # t, Suspect(u)' PROVE Suspect(u)
  BY DEF Suspects
<1>1. \A q \in Pollers : /\ Holds(q, u)' => Holds(q, u)
                         /\ Handles(q, u)' => Handles(q, u)
  BY DEF OthersUnchanged, Holds, Handles
<1> QED BY <1>1 DEF Suspect

\* A step that writes no row, posts nothing and hands out no task.
LEMMA SuspectIdle ==
    ASSUME UNCHANGED <<rows, posts>>,
           \A q \in Pollers, u \in Tasks : /\ Holds(q, u)' => Holds(q, u)
                                           /\ Handles(q, u)' => Handles(q, u)
    PROVE  Suspects' \subseteq Suspects
BY DEF Suspects, Suspect

LEMMA WebSuspects ==
    ASSUME FleetInv, NEW t \in Tasks,
           Schedule(t) \/ PublishNow(t) \/ PublishDirect(t) \/ WebStep(t) \/ WebCrash(t)
    PROVE  Suspects' \subseteq Suspects
<1> USE DEF FleetInv, TypeInv, TypeOK
<1>1. UNCHANGED <<pc, cur>>
  BY DEF Schedule, PublishNow, PublishDirect, WebStep, WebCall, WebSave, WebCrash, workerVars
<1>2. \A u \in Tasks : u # t => rows'[u] = rows[u] /\ posts'[u] = posts[u]
  BY DEF Schedule, PublishNow, PublishDirect, WebStep, WebCall, WebSave, WebCrash
<1>3. t \in WebTasks \/ rows'[t].status # "failed"
  <2> SUFFICES ASSUME t \notin WebTasks PROVE rows'[t].status # "failed"
    OBVIOUS
  <2>1. Schedule(t)
    BY DEF ScheduledRowOK, PublishNow, PublishDirect, WebStep, WebCall, WebSave, WebCrash
  <2>2. PICK due, drafted :
            rows' = [rows EXCEPT ![t] = [NewRow("scheduled", due) EXCEPT !.drafted = drafted]]
    BY <2>1 DEF Schedule
  <2> QED BY <2>2, FreshColumns
<1> QED BY <1>1, <1>2, <1>3 DEF Suspects, Suspect, Holds, Handles

LEMMA TickSuspects ==
    ASSUME FleetInv, Tick PROVE Suspects' \subseteq Suspects
<1>1. \A t \in Tasks : rows'[t].status = rows[t].status
  BY RowFrames DEF Tick, FleetInv, TypeInv, TypeOK
<1>2. UNCHANGED <<posts, pc, cur>>
  BY DEF Tick
<1> QED BY <1>1, <1>2 DEF Suspects, Suspect, Holds, Handles

\* No step of a poller brings a task under suspicion as long as the store does not raise.
LEMMA PollerSuspects ==
    ASSUME AnswersArrive, FleetInv, NEW p \in Pollers, PollerStep(p)
    PROVE  Suspects' \subseteq Suspects
<1> USE DEF FleetInv, TypeInv, TypeOK
<1>1. CASE \/ ListStale(p) \/ ListDue(p) \/ EndTick(p)
           \/ RecoverRead(p) \/ LoadTask(p) \/ RescueRead(p)
  <2>1. /\ UNCHANGED <<rows, posts>> /\ OthersUnchanged(p)
        /\ \/ pc'[p] \in {"recovering", "running", "idle", "reread"}
           \/ pc[p] = "claimed" /\ pc'[p] = "loaded" /\ cur'[p] = cur[p]
           \/ pc[p] = "raised" /\ pc'[p] = "rescued" /\ cur'[p] = cur[p]
           \/ pc[p] = "unsure" /\ pc'[p] = "overruling" /\ cur'[p] = cur[p]
    BY <1>1 DEF ListStale, ListDue, EndTick, RecoverRead, LoadTask, RescueRead, ReadTask,
       OthersUnchanged
  <2>2. \A q \in Pollers, u \in Tasks : /\ Holds(q, u)' => Holds(q, u)
                                        /\ Handles(q, u)' => Handles(q, u)
    BY <2>1 DEF OthersUnchanged, Holds, Handles
  <2> QED BY <2>1, <2>2, SuspectIdle
<1>2. CASE RecoverClaim(p)
  <2>1. PICK t \in stale[p] :
            IF CasSucceeds(rows[t], "publishing")
            THEN /\ rows' = [rows EXCEPT ![t] = HandedBack(rows[t])]
                 /\ cur' = [cur EXCEPT ![p] = t]
                 /\ pc' = [pc EXCEPT ![p] = "recovered"]
            ELSE UNCHANGED <<rows, cur, pc>>
    BY <1>2 DEF RecoverClaim
  <2>2. t \in WebTasks /\ t \in Tasks
    BY TaskAssumption DEF PollerOK
  <2>3. /\ OthersUnchanged(p) /\ pc'[p] \in {"recovering", "recovered"} /\ posts' = posts
        /\ \A u \in Tasks : u # t => rows'[u] = rows[u]
    BY <1>2, <2>1, <2>2 DEF RecoverClaim, OthersUnchanged
  <2>4. Suspects' \subseteq Suspects \cup {t}
    BY <2>3, SuspectFrame DEF Holds, Handles
  <2> QED BY <2>2, <2>4 DEF Suspects
<1>3. CASE Claim(p)
  <2>1. PICK e \in todo[p] :
            IF CasSucceeds(rows[e.task], "scheduled")
            THEN /\ rows' = [rows EXCEPT ![e.task] = Claimed(rows[e.task])]
                 /\ cur' = [cur EXCEPT ![p] = e.task]
                 /\ pc' = [pc EXCEPT ![p] = "claimed"]
            ELSE UNCHANGED <<rows, cur, pc>>
    BY <1>3 DEF Claim
  <2>2. PICK t \in Tasks \ WebTasks : t = e.task /\ rows[t] \in Row
    BY DEF PollerOK
  <2>3. OthersUnchanged(p) /\ posts' = posts /\ pc[p] = "running"
    BY <1>3, <2>1 DEF Claim, OthersUnchanged
  <2>4. CASE rows[t].status # "scheduled"
    <3>1. UNCHANGED <<rows, cur, pc>>
      BY <2>1, <2>2, <2>4 DEF CasSucceeds
    <3> QED BY <2>3, <3>1, SuspectIdle DEF Holds, Handles
  <2>5. CASE rows[t].status = "scheduled"
    <3>1. /\ rows'[t].status = "publishing" /\ cur'[p] = t /\ pc'[p] = "claimed"
          /\ \A u \in Tasks : u # t => rows'[u] = rows[u]
      BY <2>1, <2>2, <2>5, RowFrames DEF CasSucceeds
    <3>2. Suspects' \subseteq Suspects \cup {t}
      BY <2>3, <3>1, SuspectFrame DEF Holds, Handles
    <3>3. Suspect(t)' => Suspect(t)
      BY <2>3, <3>1 DEF Suspect, Handles, OthersUnchanged
    <3> QED BY <2>2, <3>2, <3>3 DEF Suspects
  <2> QED BY <2>4, <2>5
<1>4. CASE RecoverSave(p) \/ FailUnpublished(p) \/ Finalize(p) \/ RescueSave(p)
  <2>1. PICK t \in Tasks : t = cur[p] /\ copy[p] \in Row
    BY <1>4 DEF WorkerOK, RecoverSave, FailUnpublished, Finalize, RescueSave
  <2>2. PICK row : /\ SaveAndRelease(p, row, "recovering") \/ SaveAndRelease(p, row, "running")
                   /\ \/ RecoverSave(p)
                      \/ FailUnpublished(p)
                      \/ Finalize(p) /\ row = Finalized(copy[p])
                      \/ RescueSave(p)
    BY <1>4 DEF RecoverSave, FailUnpublished, Finalize, RescueSave
  <2>3. /\ OthersUnchanged(p) /\ pc'[p] \in {"recovering", "running"} /\ posts' = posts
        /\ rows'[t] = row /\ \A u \in Tasks : u # t => rows'[u] = rows[u]
    BY <2>1, <2>2 DEF SaveAndRelease, Release, OthersUnchanged
  <2>4. Suspects' \subseteq Suspects \cup {t}
    BY <2>3, SuspectFrame DEF Holds, Handles
  <2>5. CASE RecoverSave(p)
    <3>1. Recovers(p, t)
      BY <2>1, <2>5 DEF RecoverSave, Recovers
    <3>2. t \in WebTasks
      BY <3>1 DEF PollerOK
    <3> QED BY <2>4, <3>2 DEF Suspects
  <2>6. CASE RescueSave(p)
    <3>1. Handles(p, t)
      BY <2>1, <2>6 DEF RescueSave, Handles
    <3> QED BY <2>4, <3>1 DEF Suspects, Suspect
  <2>7. CASE FailUnpublished(p) \/ (Finalize(p) /\ row = Finalized(copy[p]))
    <3>1. Holds(p, t)
      BY <2>1, <2>7 DEF FailUnpublished, Finalize, Holds
    <3>2. \A q \in Pollers : ~Holds(q, t)'
      BY <2>3, <3>1, AloneOnTask DEF OthersUnchanged, Holds
    <3>3. row.status = "failed" => posts[t] = 0
      <4>1. CASE FailUnpublished(p)
        BY <3>1, <4>1 DEF FailUnpublished, PollerOK
      <4>2. CASE Finalize(p) /\ row = Finalized(copy[p])
        <5>1. ReportsAll(copy[p], posts[t])
          BY <3>1, <4>2 DEF Finalize, PollerOK
        <5> QED BY <2>1, <4>2, <5>1, FinalizedReports DEF ReportsAll
      <4> QED BY <2>7, <4>1, <4>2
    <3>4. Suspect(t)' => Suspect(t)
      BY <2>3, <3>2, <3>3 DEF Suspect, Handles, OthersUnchanged
    <3> QED BY <2>4, <3>4 DEF Suspects
  <2> QED BY <2>2, <2>5, <2>6, <2>7
<1>5. CASE CallPublisher(p)
  <2>1. PICK t \in Tasks : t = cur[p] /\ Holds(p, t)
    BY <1>5 DEF WorkerOK, CallPublisher, Holds
  <2>2. /\ OthersUnchanged(p) /\ rows' = rows /\ cur' = cur /\ pc'[p] = "answered"
        /\ \A u \in Tasks : u # t => posts'[u] = posts[u]
    BY <1>5, <2>1 DEF CallPublisher, OthersUnchanged
  <2>3. Suspects' \subseteq Suspects \cup {t}
    BY <2>1, <2>2, SuspectFrame DEF Holds, Handles
  <2>4. Suspect(t)' => Suspect(t)
    BY <2>1, <2>2 DEF Suspect, Handles, OthersUnchanged
  <2> QED BY <2>3, <2>4 DEF Suspects
<1> QED BY <1>1, <1>2, <1>3, <1>4, <1>5 DEF PollerStep

\* Every step adds a suspect at most, and counts a mishap when it does.
LEMMA SuspectStep ==
    ASSUME LivingWorkers, AnswersArrive, FleetInv, SuspectInv, [Next]_vars
    PROVE  SuspectInv'
<1> mishaps \in Nat
  BY DEF FleetInv, TypeInv, TypeOK
<1>1. \/ Suspects' \subseteq Suspects /\ mishaps' \in {mishaps, mishaps + 1}
      \/ \E t : Suspects' \subseteq Suspects \cup {t} /\ mishaps' = mishaps + 1
  <2>1. CASE Tick
    BY <2>1, TickSuspects DEF Tick
  <2>2. ASSUME NEW t \in Tasks,
               Schedule(t) \/ PublishNow(t) \/ PublishDirect(t) \/ WebStep(t) \/ WebCrash(t)
        PROVE  Suspects' \subseteq Suspects /\ mishaps' \in {mishaps, mishaps + 1}
    BY <2>2, WebSuspects
    DEF Schedule, PublishNow, PublishDirect, WebStep, WebCall, WebSave, WebCrash
  <2>3. ASSUME NEW p \in Pollers, PollerStep(p)
        PROVE  Suspects' \subseteq Suspects /\ mishaps' \in {mishaps, mishaps + 1}
    BY <2>3, PollerSuspects
    DEF PollerStep, ListStale, RecoverClaim, RecoverRead, RecoverSave, ListDue, Claim, LoadTask,
        FailUnpublished, CallPublisher, Finalize, RescueRead, RescueSave, EndTick, ReadTask,
        SaveAndRelease
  <2>4. ASSUME NEW p \in Pollers, StoreRaises(p) \/ CommitLost(p)
        PROVE  \E t : Suspects' \subseteq Suspects \cup {t} /\ mishaps' = mishaps + 1
    <3>1. /\ OthersUnchanged(p) /\ posts' = posts /\ cur' = cur /\ mishaps' = mishaps + 1
          /\ \A u \in Tasks : u # cur[p] => rows'[u] = rows[u]
      BY <2>4 DEF StoreRaises, CommitLost, OthersUnchanged, FleetInv, TypeInv, TypeOK
    <3>2. Suspects' \subseteq Suspects \cup {cur[p]}
      BY <3>1, SuspectFrame DEF Holds, Handles
    <3> QED BY <3>1, <3>2
  <2>5. CASE UNCHANGED vars
    BY <2>5 DEF vars, workerVars, Suspects, Suspect, Holds, Handles
  <2>6. ASSUME NEW p \in Pollers PROVE ~Crash(p)
    BY DEF LivingWorkers, Crash
  <2> QED BY <2>1, <2>2, <2>3, <2>4, <2>5, <2>6 DEF Next
<1>2. CASE Suspects' \subseteq Suspects /\ mishaps' \in {mishaps, mishaps + 1}
  <2>1. /\ IsFiniteSet(Suspects') /\ Cardinality(Suspects') <= Cardinality(Suspects)
        /\ Cardinality(Suspects) \in Nat /\ Cardinality(Suspects') \in Nat
    BY <1>2, FS_Subset, FS_CardinalityType DEF SuspectInv
  <2> QED BY <1>2, <2>1 DEF SuspectInv
<1>3. ASSUME NEW t, Suspects' \subseteq Suspects \cup {t}, mishaps' = mishaps + 1
      PROVE  SuspectInv'
  <2>0. IsFiniteSet(Suspects) /\ Cardinality(Suspects) \in Nat
    BY FS_CardinalityType DEF SuspectInv
  <2>1. /\ IsFiniteSet(Suspects \cup {t})
        /\ Cardinality(Suspects \cup {t}) <= Cardinality(Suspects) + 1
        /\ Cardinality(Suspects) \in Nat
    BY <2>0, FS_AddElement
  <2>2. /\ IsFiniteSet(Suspects')
        /\ Cardinality(Suspects') <= Cardinality(Suspects \cup {t})
        /\ Cardinality(Suspects \cup {t}) \in Nat /\ Cardinality(Suspects') \in Nat
    BY <1>3, <2>1, FS_Subset, FS_CardinalityType
  <2> QED BY <1>3, <2>1, <2>2 DEF SuspectInv
<1> QED BY <1>1, <1>2, <1>3

LEMMA SuspectInit == Init => SuspectInv
<1> SUFFICES ASSUME Init PROVE SuspectInv
  OBVIOUS
<1>1. Suspects = {}
  BY FreshColumns DEF Init, Suspects, Suspect, Holds, Handles
<1> QED BY <1>1, FS_EmptySet DEF Init, SuspectInv

\* What a settled row says is what happened on Facebook, for all but as many failed rows as
\* there were mishaps, also when a save is committed and raises; for every row while the
\* store works. Workers neither die nor stall, and hear of what they posted.
THEOREM SettledRowsAreTrue ==
  ASSUME LivingWorkers, AnswersArrive
  PROVE  Spec => [](/\ Truthful
                    /\ HealthyWorkers =>
                          \A t \in Tasks : rows[t].status = "failed" => posts[t] = 0)
<1>1. FleetInv => \A t \in Tasks : Settled(t) => /\ Reports(rows[t], posts[t])
                                                 /\ t \in WebTasks => ReportsAll(rows[t], posts[t])
  BY DEF FleetInv, TypeInv, TypeOK, WebRowOK, ScheduledRowOK, Settled, ReportsAll, WebState
<1>2. FleetInv /\ SuspectInv =>
         Cardinality({t \in Tasks : rows[t].status = "failed" /\ posts[t] > 0}) <= mishaps
  <2> SUFFICES ASSUME FleetInv, SuspectInv
               PROVE  Cardinality({t \in Tasks : rows[t].status = "failed" /\ posts[t] > 0}) <= mishaps
    OBVIOUS
  <2> DEFINE Lies == {t \in Tasks : rows[t].status = "failed" /\ posts[t] > 0}
  <2>1. Lies \subseteq Suspects
    BY <1>1 DEF Suspects, Suspect, Settled, ReportsAll
  <2> HIDE DEF Lies
  <2>2. /\ Cardinality(Lies) <= Cardinality(Suspects)
        /\ Cardinality(Lies) \in Nat /\ Cardinality(Suspects) \in Nat
    BY <2>1, FS_Subset, FS_CardinalityType DEF SuspectInv
  <2>3. Cardinality(Lies) <= mishaps
    BY <2>2 DEF SuspectInv, FleetInv, TypeInv, TypeOK
  <2> QED BY <2>3 DEF Lies
<1>3. FleetInv /\ SuspectInv =>
         /\ Truthful
         /\ HealthyWorkers => \A t \in Tasks : rows[t].status = "failed" => posts[t] = 0
  BY <1>1, <1>2 DEF Truthful, Settled, Reports
<1>4. FleetInv /\ SuspectInv /\ [Next]_vars => SuspectInv'
  BY SuspectStep
<1> QED BY <1>3, <1>4, SuspectInit, FleetInvariant, PTL DEF Spec

-------------------------------------------------------------------------------
(* Attempts, and the life cycle *)

\* A scheduled task that waits has an attempt left; one that was claimed has counted it,
\* and has counted no more than it may.
CountedOK(t) ==
    /\ rows[t].status = "absent" => rows[t].attempts = 0
    /\ rows[t].status = "scheduled" => rows[t].attempts < MaxAttempts
    /\ rows[t].status \in {"publishing", "published", "failed"} => rows[t].attempts \in 1..MaxAttempts

\* While every commit is heard of, no exception handler writes over a save.
LEMMA NothingInDoubt ==
    ASSUME CommitsHeard, FleetInv, NEW p \in Pollers PROVE pc[p] \notin {"unsure", "overruling"}
<1> SUFFICES ASSUME pc[p] \in {"unsure", "overruling"} PROVE FALSE
  OBVIOUS
<1>1. Overrules(p, cur[p]) /\ cur[p] \in Tasks
  BY DEF FleetInv, TypeInv, WorkerOK, Overrules
<1> QED BY <1>1 DEF FleetInv, PollerOK

\* The copy a poller will write back has the attempts of the row.
CopyOK(p) ==
    \A t \in Tasks : Holds(p, t) /\ pc[p] \in {"loaded", "answered", "rescued"} =>
        copy[p].attempts = rows[t].attempts

CountOK == (\A t \in Tasks \ WebTasks : CountedOK(t)) /\ (\A p \in Pollers : CopyOK(p))

LEMMA CountInit == Init => CountOK
BY FreshColumns, LimitAssumption DEF Init, CountOK, CountedOK, CopyOK, Holds

\* A step of p that writes the row of t at most, which nobody else has in hand.
LEMMA CountFrame ==
    ASSUME CountOK, NEW p \in Pollers, NEW t \in Tasks, OthersUnchanged(p),
           \A u \in Tasks : u # t => rows'[u] = rows[u],
           \A q \in Pollers : q # p => ~Holds(q, t) \/ rows'[t] = rows[t],
           t \notin WebTasks => CountedOK(t)', CopyOK(p)'
    PROVE  CountOK'
<1>1. \A u \in Tasks \ WebTasks : CountedOK(u)'
  BY DEF CountOK, CountedOK
<1>2. \A q \in Pollers : CopyOK(q)'
  BY DEF CountOK, CopyOK, OthersUnchanged, Holds
<1> QED BY <1>1, <1>2 DEF CountOK

\* A step of p that writes no row.
LEMMA CountIdle ==
    ASSUME CountOK, NEW p \in Pollers, OthersUnchanged(p), rows' = rows, CopyOK(p)'
    PROVE  CountOK'
<1>1. \A u \in Tasks \ WebTasks : CountedOK(u)'
  BY DEF CountOK, CountedOK
<1>2. \A q \in Pollers : CopyOK(q)'
  BY DEF CountOK, CopyOK, OthersUnchanged, Holds
<1> QED BY <1>1, <1>2 DEF CountOK

LEMMA WebKeepsCounts ==
    ASSUME FleetInv, CountOK, NEW t \in Tasks,
           Schedule(t) \/ PublishNow(t) \/ PublishDirect(t) \/ WebStep(t) \/ WebCrash(t)
    PROVE  CountOK'
<1> USE DEF FleetInv, TypeInv, TypeOK
<1>1. UNCHANGED <<pc, cur, copy>>
  BY DEF Schedule, PublishNow, PublishDirect, WebStep, WebCall, WebSave, WebCrash, workerVars
<1>2. \A u \in Tasks : u # t => rows'[u] = rows[u]
  BY DEF Schedule, PublishNow, PublishDirect, WebStep, WebCall, WebSave, WebCrash
<1>3. CASE Schedule(t)
  <2>1. PICK due, drafted :
            rows' = [rows EXCEPT ![t] = [NewRow("scheduled", due) EXCEPT !.drafted = drafted]]
    BY <1>3 DEF Schedule
  <2>2. rows'[t].status = "scheduled" /\ rows'[t].attempts = 0
    BY <2>1, FreshColumns
  <2>3. CountedOK(t)'
    BY <2>2, LimitAssumption DEF CountedOK
  <2>4. \A p \in Pollers : ~Holds(p, t)
    BY <1>3 DEF Schedule, PollerOK
  <2>5. \A u \in Tasks \ WebTasks : CountedOK(u)'
    BY <1>2, <2>3 DEF CountOK, CountedOK
  <2>6. \A p \in Pollers : CopyOK(p)'
    BY <1>1, <1>2, <2>4 DEF CountOK, CopyOK, Holds
  <2> QED BY <2>5, <2>6 DEF CountOK
<1>4. CASE ~Schedule(t)
  <2>1. t \in WebTasks
    BY <1>4 DEF ScheduledRowOK, PublishNow, PublishDirect, WebStep, WebCall, WebSave, WebCrash
  <2>2. \A u \in Tasks \ WebTasks : CountedOK(u)'
    BY <1>2, <2>1 DEF CountOK, CountedOK
  <2>3. \A p \in Pollers : ~Holds(p, t)
    BY <2>1 DEF PollerOK
  <2>4. \A p \in Pollers : CopyOK(p)'
    BY <1>1, <1>2, <2>3 DEF CountOK, CopyOK, Holds
  <2> QED BY <2>2, <2>4 DEF CountOK
<1> QED BY <1>3, <1>4

LEMMA TickKeepsCounts == ASSUME FleetInv, CountOK, Tick PROVE CountOK'
<1>1. /\ \A t \in Tasks : rows'[t] = Aged(rows[t]) /\ rows[t] \in Row
      /\ UNCHANGED <<pc, cur>>
  BY DEF Tick, FleetInv, TypeInv, TypeOK
<1>2. \A t \in Tasks : rows'[t].status = rows[t].status /\ rows'[t].attempts = rows[t].attempts
  BY <1>1, TimeColumns
<1>3. \A p \in Pollers : copy[p] \in Row => copy'[p].attempts = copy[p].attempts
  <2> SUFFICES ASSUME NEW p \in Pollers, copy[p] \in Row
               PROVE  copy'[p].attempts = copy[p].attempts
    OBVIOUS
  <2>1. CASE copy[p] = None
    BY <2>1 DEF Tick
  <2>2. CASE copy[p] # None
    <3>1. copy'[p] = [copy[p] EXCEPT !.due = Later(copy[p].due)]
      BY <2>2 DEF Tick
    <3> QED BY <3>1, TimeColumns
  <2> QED BY <2>1, <2>2
<1>4. \A t \in Tasks \ WebTasks : CountedOK(t)'
  BY <1>2 DEF CountOK, CountedOK
<1>5. \A p \in Pollers : CopyOK(p)'
  BY <1>1, <1>2, <1>3 DEF CountOK, CopyOK, Holds, FleetInv, TypeInv, WorkerOK
<1> QED BY <1>4, <1>5 DEF CountOK

\* Saving keeps the attempts of the row, and hands a task back only with one left.
LEMMA SaveKeepsCounts ==
    ASSUME CommitsHeard, FleetInv, CountOK, NEW p \in Pollers, NEW t \in Tasks, t = cur[p],
           Holds(p, t) \/ Recovers(p, t),
           NEW row, NEW next \in {"recovering", "running"}, SaveAndRelease(p, row, next),
           t \notin WebTasks =>
               /\ row.attempts = rows[t].attempts
               /\ row.status \in {"published", "failed"}
                  \/ (row.status = "scheduled" /\ row.attempts < MaxAttempts)
    PROVE  CountOK'
<1>1. OthersUnchanged(p) /\ rows'[t] = row /\ \A u \in Tasks : u # t => rows'[u] = rows[u]
  BY DEF SaveAndRelease, Release, OthersUnchanged, FleetInv, TypeInv, TypeOK
<1>2. pc'[p] \in {"recovering", "running"}
  BY DEF SaveAndRelease, Release, FleetInv, TypeInv, TypeOK
<1>3. CopyOK(p)'
  BY <1>2 DEF CopyOK, Holds
<1>4. t \notin WebTasks => CountedOK(t)'
  <2> SUFFICES ASSUME t \notin WebTasks PROVE CountedOK(t)'
    OBVIOUS
  <2>1. rows[t].status = "publishing"
    BY DEF FleetInv, PollerOK
  <2>2. rows[t].attempts \in 1..MaxAttempts
    BY <2>1 DEF CountOK, CountedOK
  <2> QED BY <1>1, <2>2 DEF CountedOK
<1> QED BY <1>1, <1>3, <1>4, AloneOnTask, CountFrame

LEMMA PollerKeepsCounts ==
    ASSUME LivingWorkers, CommitsHeard, FleetInv, CountOK, NEW p \in Pollers,
           PollerStep(p) \/ StoreRaises(p) \/ CommitLost(p) \/ Crash(p)
    PROVE  CountOK'
<1> USE DEF FleetInv, TypeInv, TypeOK
<1>1. CASE ListStale(p) \/ ListDue(p) \/ EndTick(p) \/ StoreRaises(p)
  <2>1. /\ OthersUnchanged(p) /\ rows' = rows
        /\ pc'[p] \in {"recovering", "running", "idle", "raised"}
    BY <1>1 DEF ListStale, ListDue, EndTick, StoreRaises, OthersUnchanged
  <2> QED BY <2>1, CountIdle DEF CopyOK, Holds
<1>2. CASE RecoverClaim(p)
  <2>1. PICK t \in stale[p] :
            IF CasSucceeds(rows[t], "publishing")
            THEN /\ rows' = [rows EXCEPT ![t] = HandedBack(rows[t])]
                 /\ cur' = [cur EXCEPT ![p] = t]
                 /\ pc' = [pc EXCEPT ![p] = "recovered"]
            ELSE UNCHANGED <<rows, cur, pc>>
    BY <1>2 DEF RecoverClaim
  <2>2. t \in Tasks /\ t \in WebTasks
    BY TaskAssumption DEF PollerOK
  <2>3. OthersUnchanged(p) /\ pc'[p] \in {"recovering", "recovered"}
    BY <1>2, <2>1 DEF RecoverClaim, OthersUnchanged
  <2>4. CopyOK(p)'
    BY <2>3 DEF CopyOK, Holds
  <2>5. \A u \in Tasks : u # t => rows'[u] = rows[u]
    BY <2>1, <2>2
  <2>6. \A q \in Pollers : ~Holds(q, t)
    BY <2>2 DEF PollerOK
  <2> QED BY <2>2, <2>3, <2>4, <2>5, <2>6, CountFrame
<1>3. CASE RecoverRead(p)
  <2>1. OthersUnchanged(p) /\ rows' = rows /\ pc'[p] = "reread"
    BY <1>3 DEF RecoverRead, ReadTask, OthersUnchanged
  <2> QED BY <2>1, CountIdle DEF CopyOK, Holds
<1>4. CASE RecoverSave(p)
  <2>1. PICK t \in Tasks : t = cur[p] /\ Recovers(p, t)
    BY <1>4 DEF WorkerOK, RecoverSave, Recovers
  <2>2. t \in WebTasks
    BY <2>1 DEF PollerOK
  <2> QED BY <1>4, <2>1, <2>2, SaveKeepsCounts DEF RecoverSave
<1>5. CASE Claim(p)
  <2>1. PICK e \in todo[p] :
            IF CasSucceeds(rows[e.task], "scheduled")
            THEN /\ rows' = [rows EXCEPT ![e.task] = Claimed(rows[e.task])]
                 /\ cur' = [cur EXCEPT ![p] = e.task]
                 /\ pc' = [pc EXCEPT ![p] = "claimed"]
            ELSE UNCHANGED <<rows, cur, pc>>
    BY <1>5 DEF Claim
  <2>2. PICK t \in Tasks \ WebTasks : t = e.task /\ rows[t] \in Row
    BY DEF PollerOK
  <2>3. OthersUnchanged(p) /\ pc'[p] \in {"running", "claimed"}
    BY <1>5, <2>1 DEF Claim, OthersUnchanged
  <2>4. CopyOK(p)'
    BY <2>3 DEF CopyOK, Holds
  <2>5. CASE rows[t].status # "scheduled"
    <3>1. rows' = rows
      BY <2>1, <2>2, <2>5 DEF CasSucceeds
    <3> QED BY <2>3, <2>4, <3>1, CountIdle
  <2>6. CASE rows[t].status = "scheduled"
    <3>1. rows'[t] = Claimed(rows[t]) /\ \A u \in Tasks : u # t => rows'[u] = rows[u]
      BY <2>1, <2>2, <2>6 DEF CasSucceeds
    <3>2. rows'[t].status = "publishing" /\ rows'[t].attempts = rows[t].attempts + 1
      BY <2>2, <3>1, RowColumns
    <3>3. rows[t].attempts \in Nat /\ rows[t].attempts < MaxAttempts
      BY <2>2, <2>6 DEF Row, CountOK, CountedOK
    <3>4. rows'[t].attempts \in 1..MaxAttempts
      BY <3>2, <3>3, LimitAssumption
    <3>5. CountedOK(t)'
      BY <3>2, <3>4 DEF CountedOK
    <3>6. \A q \in Pollers : ~Holds(q, t)
      BY <2>6 DEF PollerOK
    <3> QED BY <2>3, <2>4, <3>1, <3>5, <3>6, CountFrame
  <2> QED BY <2>5, <2>6
<1>6. CASE LoadTask(p) \/ RescueRead(p)
  <2>1. PICK t \in Tasks : t = cur[p] /\ rows[t] \in Row
    BY <1>6 DEF WorkerOK, LoadTask, RescueRead, ReadTask
  <2>2. /\ OthersUnchanged(p) /\ rows' = rows /\ copy'[p] = Stamped(rows[t]) /\ cur' = cur
    BY <1>6, <2>1 DEF LoadTask, RescueRead, ReadTask, OthersUnchanged
  <2>3. copy'[p].attempts = rows[t].attempts
    BY <2>1, <2>2, RowColumns
  <2> QED BY <2>1, <2>2, <2>3, CountIdle DEF CopyOK, Holds
<1>7. CASE FailUnpublished(p) \/ Finalize(p) \/ RescueSave(p)
  <2>1. PICK t \in Tasks : t = cur[p] /\ Holds(p, t) /\ copy[p] \in Row
    BY <1>7, NothingInDoubt DEF WorkerOK, FailUnpublished, Finalize, RescueSave, Holds
  <2>2. copy[p].attempts = rows[t].attempts /\ t \notin WebTasks
    BY <1>7, <2>1, NothingInDoubt DEF FailUnpublished, Finalize, RescueSave, CountOK, CopyOK, PollerOK
  <2>3. PICK row : /\ SaveAndRelease(p, row, "running") /\ row.attempts = copy[p].attempts
                   /\ row.status \in {"published", "failed"}
                      \/ (row.status = "scheduled" /\ row.attempts < MaxAttempts)
    <3>1. CASE FailUnpublished(p) \/ RescueSave(p)
      BY <2>1, <3>1, RowColumns DEF FailUnpublished, RescueSave
    <3>2. CASE Finalize(p)
      <4>1. copy[p].status \in {"published", "failed"}
        BY <2>1, <3>2 DEF Finalize, PollerOK, Reports, ReportsAll
      <4>2. /\ SaveAndRelease(p, Finalized(copy[p]), "running")
            /\ Finalized(copy[p]).attempts = copy[p].attempts
            /\ Finalized(copy[p]).status \in {"published", "failed"}
               \/ (Finalized(copy[p]).status = "scheduled" /\ copy[p].attempts < MaxAttempts)
        BY <2>1, <3>2, <4>1, SavedColumns DEF Finalize
      <4> QED BY <4>2
    <3> QED BY <1>7, <3>1, <3>2
  <2> QED BY <2>1, <2>2, <2>3, SaveKeepsCounts
<1>8. CASE CallPublisher(p)
  <2>1. PICK t \in Tasks : t = cur[p] /\ Holds(p, t) /\ copy[p] \in Row
    BY <1>8 DEF WorkerOK, CallPublisher, Holds
  <2>2. PICK o \in PossibleOutcomes : copy' = [copy EXCEPT ![p] = Published(copy[p], o)]
    BY <1>8 DEF CallPublisher
  <2>3. copy'[p].attempts = copy[p].attempts
    BY <2>1, <2>2, PublishedColumns
  <2>4. OthersUnchanged(p) /\ rows' = rows /\ cur' = cur
    BY <1>8, <2>2 DEF CallPublisher, OthersUnchanged
  <2>5. copy[p].attempts = rows[t].attempts
    BY <1>8, <2>1 DEF CountOK, CopyOK, CallPublisher
  <2>6. CopyOK(p)'
    BY <2>1, <2>3, <2>4, <2>5 DEF CopyOK, Holds
  <2> QED BY <2>4, <2>6, CountIdle
<1>9. ~Crash(p) /\ ~CommitLost(p)
  BY DEF LivingWorkers, CommitsHeard, Crash, CommitLost
<1> QED BY <1>1, <1>2, <1>3, <1>4, <1>5, <1>6, <1>7, <1>8, <1>9 DEF PollerStep

LEMMA CountStep ==
    ASSUME LivingWorkers, CommitsHeard PROVE FleetInv /\ CountOK /\ [Next]_vars => CountOK'
<1> SUFFICES ASSUME FleetInv, CountOK, [Next]_vars PROVE CountOK'
  OBVIOUS
<1>1. CASE UNCHANGED vars
  BY <1>1 DEF vars, workerVars, CountOK, CountedOK, CopyOK, Holds
<1> QED BY <1>1, WebKeepsCounts, PollerKeepsCounts, TickKeepsCounts DEF Next

-------------------------------------------------------------------------------
(* Posts and attempts.  A lost answer may cost a second post, but never one *)
(* without a claim of its own.                                              *)

\* A step that neither posts, nor counts, nor hands out a claim.
LEMMA PostsFrame ==
    ASSUME PostsWithinAttempts, \A t \in Tasks \ WebTasks :
              /\ posts'[t] = posts[t] /\ rows'[t].attempts = rows[t].attempts
              /\ posts[t] \in Nat /\ rows[t].attempts \in Nat
              /\ Unused(t)' => Unused(t)
    PROVE  PostsWithinAttempts'
BY UnusedPosts DEF PostsWithinAttempts, Unused

\* The claims a step of p leaves unused were unused before, unless it is p's own.
LEMMA UnusedByOthers ==
    ASSUME NEW p \in Pollers, NEW t, OthersUnchanged(p),
           pc'[p] \notin {"claimed", "loaded"} \/ (pc[p] \in {"claimed", "loaded"} /\ cur'[p] = cur[p])
    PROVE  Unused(t)' => Unused(t)
BY DEF OthersUnchanged, Unused, Holds

LEMMA WebKeepsPosts ==
    ASSUME FleetInv, CountOK, PostsWithinAttempts, NEW t \in Tasks,
           Schedule(t) \/ PublishNow(t) \/ PublishDirect(t) \/ WebStep(t) \/ WebCrash(t)
    PROVE  PostsWithinAttempts'
<1> USE DEF FleetInv, TypeInv, TypeOK
<1>1. UNCHANGED <<pc, cur>>
  BY DEF Schedule, PublishNow, PublishDirect, WebStep, WebCall, WebSave, WebCrash, workerVars
<1>2. \A u \in Tasks : u # t => rows'[u] = rows[u] /\ posts'[u] = posts[u]
  BY DEF Schedule, PublishNow, PublishDirect, WebStep, WebCall, WebSave, WebCrash
<1>3. t \notin WebTasks => /\ posts'[t] = posts[t]
                          /\ rows'[t].attempts = rows[t].attempts
  <2> SUFFICES ASSUME t \notin WebTasks
               PROVE  posts'[t] = posts[t] /\ rows'[t].attempts = rows[t].attempts
    OBVIOUS
  <2>1. Schedule(t)
    BY DEF ScheduledRowOK, PublishNow, PublishDirect, WebStep, WebCall, WebSave, WebCrash
  <2>2. PICK due, drafted :
            rows' = [rows EXCEPT ![t] = [NewRow("scheduled", due) EXCEPT !.drafted = drafted]]
    BY <2>1 DEF Schedule
  <2>3. rows'[t].attempts = 0 /\ posts' = posts
    BY <2>1, <2>2, FreshColumns DEF Schedule
  <2>4. rows[t].attempts = 0
    BY <2>1 DEF Schedule, CountOK, CountedOK
  <2> QED BY <2>3, <2>4
<1>4. \A u \in Tasks : posts[u] \in Nat /\ rows[u].attempts \in Nat
  BY DEF Row
<1>5. \A u \in Tasks : Unused(u)' => Unused(u)
  BY <1>1 DEF Unused, Holds
<1> QED BY <1>2, <1>3, <1>4, <1>5, PostsFrame

LEMMA TickKeepsPosts ==
    ASSUME FleetInv, PostsWithinAttempts, Tick PROVE PostsWithinAttempts'
<1>1. /\ \A t \in Tasks : rows'[t] = Aged(rows[t]) /\ rows[t] \in Row /\ posts[t] \in Nat
      /\ UNCHANGED <<pc, cur, posts>>
  BY DEF Tick, FleetInv, TypeInv, TypeOK
<1>2. \A t \in Tasks : rows'[t].attempts = rows[t].attempts /\ rows[t].attempts \in Nat
  BY <1>1, TimeColumns DEF Row
<1>3. \A t \in Tasks : Unused(t)' => Unused(t)
  BY <1>1 DEF Unused, Holds
<1> QED BY <1>1, <1>2, <1>3, PostsFrame

\* A claim is counted on the row before it buys a post.
LEMMA ClaimKeepsPosts ==
    ASSUME FleetInv, PostsWithinAttempts, NEW p \in Pollers, Claim(p)
    PROVE  PostsWithinAttempts'
<1> USE DEF FleetInv, TypeInv, TypeOK
<1>1. PICK e \in todo[p] :
          IF CasSucceeds(rows[e.task], "scheduled")
          THEN /\ rows' = [rows EXCEPT ![e.task] = Claimed(rows[e.task])]
               /\ cur' = [cur EXCEPT ![p] = e.task]
               /\ pc' = [pc EXCEPT ![p] = "claimed"]
          ELSE UNCHANGED <<rows, cur, pc>>
  BY DEF Claim
<1>2. PICK t \in Tasks \ WebTasks : t = e.task /\ rows[t] \in Row
  BY DEF PollerOK
<1>3. OthersUnchanged(p) /\ posts' = posts
  BY <1>1 DEF Claim, OthersUnchanged
<1>4. \A u \in Tasks : posts[u] \in Nat /\ rows[u].attempts \in Nat
  BY DEF Row
<1>5. CASE rows[t].status # "scheduled"
  <2>1. rows' = rows /\ pc'[p] = "running"
    BY <1>1, <1>2, <1>5 DEF CasSucceeds, Claim
  <2>2. \A u \in Tasks : Unused(u)' => Unused(u)
    BY <1>3, <2>1, UnusedByOthers
  <2> QED BY <1>3, <1>4, <2>1, <2>2, PostsFrame
<1>6. CASE rows[t].status = "scheduled"
  <2>1. /\ rows'[t] = Claimed(rows[t]) /\ \A u \in Tasks : u # t => rows'[u] = rows[u]
        /\ cur'[p] = t
    BY <1>1, <1>2, <1>6 DEF CasSucceeds
  <2>2. rows'[t].attempts = rows[t].attempts + 1
    BY <1>2, <2>1, RowColumns
  <2>3. ~Unused(t)
    BY <1>6 DEF PollerOK, Unused
  <2>4. posts'[t] + 1 <= rows'[t].attempts /\ posts'[t] + 0 <= rows'[t].attempts
    BY <1>2, <1>3, <1>4, <2>2, <2>3, UnusedPosts
  <2>5. \A u \in Tasks \ WebTasks : u # t => (Unused(u)' => Unused(u))
    BY <1>3, <2>1 DEF OthersUnchanged, Unused, Holds
  <2>6. \A u \in Tasks \ WebTasks : u # t =>
           IF Unused(u)' THEN posts'[u] + 1 <= rows'[u].attempts
                         ELSE posts'[u] + 0 <= rows'[u].attempts
    BY <1>3, <1>4, <2>1, <2>5, UnusedPosts
  <2> QED BY <2>4, <2>6 DEF PostsWithinAttempts, Unused
<1> QED BY <1>5, <1>6

\* A call uses up the claim of its poller, the only one on the task.
LEMMA CallKeepsPosts ==
    ASSUME FleetInv, PostsWithinAttempts, NEW p \in Pollers, CallPublisher(p)
    PROVE  PostsWithinAttempts'
<1> USE DEF FleetInv, TypeInv, TypeOK
<1>1. PICK t \in Tasks : t = cur[p] /\ Holds(p, t) /\ copy[p] \in Row
  BY DEF WorkerOK, CallPublisher, Holds
<1>2. PICK o \in PossibleOutcomes :
         /\ copy' = [copy EXCEPT ![p] = Published(copy[p], o)]
         /\ posts' = [posts EXCEPT ![t] = posts[t] + Accepted(o)]
  BY <1>1 DEF CallPublisher
<1>3. Accepted(o) \in 0..1
  BY <1>1, PublishedReports
<1>4. /\ OthersUnchanged(p) /\ rows' = rows /\ pc'[p] = "answered" /\ cur' = cur
      /\ pc[p] = "loaded"
  BY <1>2 DEF CallPublisher, OthersUnchanged
<1>5. t \notin WebTasks /\ Unused(t)
  BY <1>1, <1>4 DEF PollerOK, Unused
<1>6. ~Unused(t)'
  <2>1. \A q \in Pollers : q # p => ~Holds(q, t)'
    BY <1>1, <1>4, AloneOnTask DEF OthersUnchanged, Holds
  <2> QED BY <1>4, <2>1 DEF Unused
<1>7. \A u \in Tasks : posts[u] \in Nat /\ rows[u].attempts \in Nat
  BY DEF Row
<1>8. posts'[t] + 0 <= rows'[t].attempts
  BY <1>2, <1>3, <1>4, <1>5, <1>7, UnusedPosts
<1>9. \A u \in Tasks \ WebTasks : u # t =>
         IF Unused(u)' THEN posts'[u] + 1 <= rows'[u].attempts
                       ELSE posts'[u] + 0 <= rows'[u].attempts
  <2>1. \A u \in Tasks : Unused(u)' => Unused(u)
    BY <1>4, UnusedByOthers
  <2>2. \A u \in Tasks : u # t => posts'[u] = posts[u]
    BY <1>2
  <2> QED BY <1>4, <1>7, <2>1, <2>2, UnusedPosts
<1> QED BY <1>6, <1>8, <1>9 DEF PostsWithinAttempts, Unused

LEMMA PollerKeepsPosts ==
    ASSUME LivingWorkers, CommitsHeard, FleetInv, CountOK, PostsWithinAttempts,
           NEW p \in Pollers, PollerStep(p) \/ StoreRaises(p) \/ CommitLost(p) \/ Crash(p)
    PROVE  PostsWithinAttempts'
<1> USE DEF FleetInv, TypeInv, TypeOK
<1>0. \A u \in Tasks : posts[u] \in Nat /\ rows[u].attempts \in Nat /\ rows[u] \in Row
  BY DEF Row
<1>1. CASE \/ ListStale(p) \/ ListDue(p) \/ EndTick(p) \/ StoreRaises(p)
           \/ RecoverRead(p) \/ RescueRead(p) \/ LoadTask(p)
  <2>1. /\ OthersUnchanged(p) /\ UNCHANGED <<rows, posts>>
        /\ pc'[p] \notin {"claimed", "loaded"}
           \/ (pc[p] \in {"claimed", "loaded"} /\ cur'[p] = cur[p])
    BY <1>1 DEF ListStale, ListDue, EndTick, StoreRaises, RecoverRead, RescueRead, LoadTask,
       ReadTask, OthersUnchanged
  <2>2. \A u \in Tasks : Unused(u)' => Unused(u)
    BY <2>1, UnusedByOthers
  <2> QED BY <1>0, <2>1, <2>2, PostsFrame
<1>2. CASE RecoverClaim(p)
  <2>1. PICK t \in stale[p] :
            IF CasSucceeds(rows[t], "publishing")
            THEN /\ rows' = [rows EXCEPT ![t] = HandedBack(rows[t])]
                 /\ cur' = [cur EXCEPT ![p] = t]
                 /\ pc' = [pc EXCEPT ![p] = "recovered"]
            ELSE UNCHANGED <<rows, cur, pc>>
    BY <1>2 DEF RecoverClaim
  <2>2. t \in Tasks /\ t \in WebTasks
    BY TaskAssumption DEF PollerOK
  <2>3. OthersUnchanged(p) /\ pc'[p] \in {"recovering", "recovered"} /\ posts' = posts
    BY <1>2, <2>1 DEF RecoverClaim, OthersUnchanged
  <2>4. \A u \in Tasks : Unused(u)' => Unused(u)
    BY <2>3, UnusedByOthers
  <2>5. \A u \in Tasks : u # t => rows'[u] = rows[u]
    BY <2>1, <2>2
  <2> QED BY <1>0, <2>2, <2>3, <2>4, <2>5, PostsFrame
<1>3. CASE RecoverSave(p) \/ FailUnpublished(p) \/ Finalize(p) \/ RescueSave(p)
  <2>1. PICK t \in Tasks : t = cur[p] /\ copy[p] \in Row /\ (Holds(p, t) \/ Recovers(p, t))
    BY <1>3, NothingInDoubt DEF WorkerOK, RecoverSave, FailUnpublished, Finalize, RescueSave, Holds, Recovers, Overrules
  <2>2. PICK row :
           /\ SaveAndRelease(p, row, "recovering") \/ SaveAndRelease(p, row, "running")
           /\ t \notin WebTasks => row.attempts = copy[p].attempts
    <3>1. CASE RecoverSave(p)
      <4>1. t \in WebTasks
        BY <2>1, <3>1 DEF RecoverSave, PollerOK, Recovers, Holds
      <4> QED BY <3>1, <4>1 DEF RecoverSave
    <3>2. CASE FailUnpublished(p) \/ RescueSave(p)
      BY <2>1, <3>2, RowColumns DEF FailUnpublished, RescueSave
    <3>3. CASE Finalize(p)
      <4>1. pc[p] = "answered" /\ SaveAndRelease(p, Finalized(copy[p]), "running")
        BY <3>3 DEF Finalize
      <4>2. copy[p].status \in {"published", "failed"}
        BY <2>1, <4>1 DEF PollerOK, Reports, ReportsAll, Recovers
      <4>3. Finalized(copy[p]).attempts = copy[p].attempts
        BY <2>1, <4>2, SavedColumns
      <4> QED BY <4>1, <4>3
    <3> QED BY <1>3, <3>1, <3>2, <3>3
  <2>3. /\ OthersUnchanged(p) /\ pc'[p] \in {"recovering", "running"} /\ posts' = posts
        /\ rows'[t] = row /\ \A u \in Tasks : u # t => rows'[u] = rows[u]
    BY <2>1, <2>2 DEF SaveAndRelease, Release, OthersUnchanged
  <2>4. t \notin WebTasks => rows'[t].attempts = rows[t].attempts
    <3>1. t \notin WebTasks => pc[p] \in {"loaded", "answered", "rescued"} /\ Holds(p, t)
      BY <1>3, <2>1, NothingInDoubt
      DEF RecoverSave, FailUnpublished, Finalize, RescueSave, PollerOK, Recovers, Holds
    <3>2. t \notin WebTasks => copy[p].attempts = rows[t].attempts
      BY <3>1 DEF CountOK, CopyOK
    <3> QED BY <2>2, <2>3, <3>2
  <2>5. \A u \in Tasks : Unused(u)' => Unused(u)
    BY <2>3, UnusedByOthers
  <2> QED BY <1>0, <2>1, <2>3, <2>4, <2>5, PostsFrame
<1>4. ~Crash(p) /\ ~CommitLost(p)
  BY DEF LivingWorkers, CommitsHeard, Crash, CommitLost
<1> QED BY <1>1, <1>2, <1>3, <1>4, ClaimKeepsPosts, CallKeepsPosts DEF PollerStep

LEMMA PostsStep ==
    ASSUME LivingWorkers, CommitsHeard
    PROVE  FleetInv /\ CountOK /\ PostsWithinAttempts /\ [Next]_vars => PostsWithinAttempts'
<1> SUFFICES ASSUME FleetInv, CountOK, PostsWithinAttempts, [Next]_vars PROVE PostsWithinAttempts'
  OBVIOUS
<1>1. CASE UNCHANGED vars
  BY <1>1 DEF vars, workerVars, PostsWithinAttempts, Holds
<1> QED BY <1>1, WebKeepsPosts, PollerKeepsPosts, TickKeepsPosts DEF Next

LEMMA PostsInit == Init => PostsWithinAttempts
BY FreshColumns DEF Init, PostsWithinAttempts, Holds

-------------------------------------------------------------------------------
\* What a fleet knows of its tasks is what the life cycle needs.
LEMMA FleetLives ==
    ASSUME CommitsHeard, FleetInv, CountOK, PostsWithinAttempts PROVE LifeInv
<1> USE DEF FleetInv
<1>1. WebOK
  BY TaskAssumption DEF WebOK, WebRowOK, ScheduledRowOK, PollerOK
<1>2. FreshOK
  BY DEF FreshOK, WebRowOK, CountOK, CountedOK
<1>3. HandOK
  <2> SUFFICES ASSUME NEW p \in Pollers
               PROVE  /\ Publishing(p) => cur[p] \notin WebTasks /\ rows[cur[p]].status = "publishing"
                      /\ Recovering(p) /\ cur[p] \notin WebTasks => rows[cur[p]].status = "scheduled"
                      /\ ~Overruling(p)
                      /\ pc[p] \in {"reread", "loaded", "answered", "rescued"} =>
                            /\ copy[p].attempts = rows[cur[p]].attempts
                            /\ cur[p] \in WebTasks => copy[p].due = None
                      /\ pc[p] = "reread" /\ cur[p] \notin WebTasks => copy[p].status = "scheduled"
                      /\ pc[p] = "answered" => copy[p].status \in {"published", "failed"}
    BY DEF HandOK, Overruling
  <2>0. ~Overruling(p)
    BY NothingInDoubt DEF Overruling
  <2>1. CASE Publishing(p)
    <3>1. PICK t \in Tasks : t = cur[p] /\ Holds(p, t)
      BY <2>1 DEF Publishing, Holds, TypeInv, WorkerOK
    <3> QED BY <2>0, <2>1, <3>1 DEF Publishing, Recovering, PollerOK, CountOK, CopyOK, Reports, ReportsAll
  <2>2. CASE Recovering(p)
    <3>1. PICK t \in Tasks : t = cur[p] /\ Recovers(p, t)
      BY <2>2 DEF Recovering, Recovers, TypeInv, WorkerOK
    <3>2. t \in WebTasks /\ rows[t].attempts = 0
      BY <3>1 DEF PollerOK, WebRowOK
    <3> QED BY <2>0, <2>2, <3>1, <3>2 DEF Publishing, Recovering, PollerOK
  <2>3. CASE ~Publishing(p) /\ ~Recovering(p)
    BY <2>0, <2>3 DEF Publishing, Recovering
  <2> QED BY <2>1, <2>2, <2>3
<1> QED BY <1>1, <1>2, <1>3 DEF LifeInv

\* The counts of a fleet: the rows alone would not do, since a save writes the attempts of
\* the copy its poller read earlier.
THEOREM FleetCounts ==
    ASSUME LivingWorkers, CommitsHeard PROVE Spec => [](FleetInv /\ CountOK /\ PostsWithinAttempts)
<1>1. Init => CountOK /\ PostsWithinAttempts
  BY CountInit, PostsInit
<1>2. FleetInv /\ CountOK /\ PostsWithinAttempts /\ [Next]_vars => CountOK' /\ PostsWithinAttempts'
  BY CountStep, PostsStep
<1> QED BY <1>1, <1>2, FleetInvariant, PTL DEF Spec

\* However many living workers share the tasks, a task makes no more posts than it counts
\* attempts, also when answers are lost and the store raises, having written nothing. (After
\* a commit that was not heard of, the handler may write older attempts over a new claim.)
THEOREM FleetPostsAreCounted ==
  ASSUME LivingWorkers, CommitsHeard PROVE Spec => []PostsWithinAttempts
BY FleetCounts, PTL

\* However many living workers share the tasks, none is attempted more than
\* SCHEDULER_MAX_ATTEMPTS times: the claim counts, and retries look at the count. The
\* allowance that AttemptsWithinBudget makes for mishaps is not needed. A store that raises
\* has written nothing.
THEOREM FleetKeepsBudget ==
  ASSUME LivingWorkers, CommitsHeard
  PROVE  Spec => [](AttemptsWithinBudget /\ \A t \in Tasks : rows[t].attempts <= MaxAttempts)
<1>1. FleetInv /\ CountOK =>
         AttemptsWithinBudget /\ \A t \in Tasks : rows[t].attempts <= MaxAttempts
  <2> SUFFICES ASSUME FleetInv, CountOK, NEW t \in Tasks
               PROVE  /\ rows[t].attempts <= MaxAttempts + mishaps
                      /\ rows[t].attempts <= MaxAttempts
    BY DEF AttemptsWithinBudget
  <2>1. /\ rows[t].attempts \in Nat /\ rows[t].status \in Status /\ mishaps \in Nat
        /\ MaxAttempts \in Nat
    BY LimitAssumption DEF FleetInv, TypeInv, TypeOK, Row
  <2>2. rows[t].attempts <= MaxAttempts
    BY <2>1 DEF FleetInv, WebRowOK, CountOK, CountedOK, Status
  <2> QED BY <2>1, <2>2
<1> QED BY <1>1, FleetCounts, PTL

\* A fleet of living workers follows the life cycle of PublishLifecycle: no interleaving
\* claims a task twice, posts without a claim, or leaves published or failed. A store that
\* raises has written nothing, so that the diagram has no arrow out of published.
THEOREM FleetFollowsLifecycle ==
  ASSUME LivingWorkers, CommitsHeard PROVE Spec => ImplementsLifecycle
<1>1. Init => Lifecycle!Init
  BY LifecycleInit
<1>2. FleetInv /\ CountOK /\ PostsWithinAttempts /\ [Next]_vars => [Lifecycle!Next]_(Lifecycle!vars)
  BY FleetLives, LifecycleStep
<1> QED BY <1>1, <1>2, FleetCounts, PTL DEF Spec, ImplementsLifecycle, Lifecycle!Spec

===============================================================================
