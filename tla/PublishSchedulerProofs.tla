------------------------ MODULE PublishSchedulerProofs ------------------------
(***************************************************************************)
(* Theorems about PublishScheduler, for every set of tasks and pollers and *)
(* every value of the limits: types, what one poller guarantees under all  *)
(* faults, and what its proofs share with those of a fleet                 *)
(* (PublishFleetProofs).                                                   *)
(***************************************************************************)
EXTENDS PublishScheduler, TLAPS

(* What the in-memory copies are worth in each state of a poller or request. *)
WorkerOK ==
    /\ \A p \in Pollers :
          /\ pc[p] \notin {"idle", "recovering", "running"} => cur[p] \in Tasks
          /\ pc[p] \in {"reread", "loaded", "answered", "rescued", "overruling"} => copy[p] \in Row
    /\ \A t \in Tasks : web[t] \in {"calling", "answered"} => form[t] \in Row

TypeInv == TypeOK /\ WorkerOK

-------------------------------------------------------------------------------
\* The functions of a row that the code saves return rows.
LEMMA RowFunctions ==
    ASSUME NEW row \in Row
    PROVE  /\ Stamped(row) \in Row
           /\ Failed(row) \in Row
           /\ Finalized(row) \in Row
           /\ Recovered(row) \in Row
           /\ Aged(row) \in Row
           /\ [row EXCEPT !.due = Later(@)] \in Row
           /\ HandedBack(row) \in Row
           /\ Claimed(row) \in Row
<1>1. /\ Stamped(row) \in Row
      /\ Failed(row) \in Row
  BY DEF Row, Status, Stamped, Failed
<1>2. Recovered(row) \in Row
  BY <1>1 DEF Recovered
<1>3. Finalized(row) \in Row
  <2>1. CASE WillRetry(row)
    <3>1. row.attempts \in 0..MaxAttempts
      BY <2>1, LimitAssumption DEF WillRetry, Row
    <3>2. Backoff(row.attempts) \in Int \cup {None}
      BY <3>1, BackoffAssumption
    <3> DEFINE delay == Backoff(row.attempts)
    <3>3. [Stamped(row) EXCEPT !.status = "scheduled", !.due = delay] \in Row
      <4> HIDE DEF delay
      <4> QED BY <3>2, <1>1 DEF Row, Status, delay
    <3>4. QED BY <2>1, <3>3 DEF Finalized
  <2>2. CASE ~WillRetry(row)
    BY <2>2, <1>1 DEF Finalized
  <2>3. QED BY <2>1, <2>2
<1>4. Later(row.due) \in Int \cup {None} /\ Older(row.age) \in Nat
  BY TimeAssumption DEF Row, Later, Older
<1>5. [row EXCEPT !.due = Later(@)] \in Row
  BY <1>4 DEF Row
<1>6. Aged(row) \in Row
  BY <1>4, <1>5 DEF Aged, Row
<1>7. HandedBack(row) \in Row
  BY DEF Row, Status, HandedBack
<1>8. Claimed(row) \in Row
  <2> DEFINE n == row.attempts + 1
  <2>1. n \in Nat
    BY DEF Row
  <2>2. [row EXCEPT !.status = "publishing", !.attempts = n, !.age = 0] \in Row
    <3> HIDE DEF n
    <3> QED BY <2>1 DEF Row, Status
  <2>3. QED BY <2>2 DEF Claimed
<1>9. QED BY <1>1, <1>2, <1>3, <1>5, <1>6, <1>7, <1>8

\* A publish call turns a row into a row and makes at most one post.
LEMMA PublishedRow ==
    ASSUME NEW row \in Row, NEW o \in Outcome
    PROVE  Published(row, o) \in Row /\ Accepted(o) \in Nat
BY DEF Row, Status, Mode, Outcome, Published, Accepted

\* The rows that requests create are rows.
LEMMA NewRows ==
    /\ NewRow("publishing", None) \in Row
    /\ NewRow("absent", None) \in Row
    /\ NewRow("published", None) \in Row
    /\ \A due \in DueChoices \cup {None}, drafted \in BOOLEAN :
          [NewRow("scheduled", due) EXCEPT !.drafted = drafted] \in Row
BY TimeAssumption DEF NewRow, Row, Status, Mode

-------------------------------------------------------------------------------
\* Saving any row for the task in hand and going on keeps the types.
LEMMA SaveKeepsTypes ==
    ASSUME TypeInv, NEW p \in Pollers, NEW row \in Row,
           NEW next \in {"recovering", "running"}, SaveAndRelease(p, row, next)
    PROVE  TypeInv'
BY DEF TypeInv, TypeOK, WorkerOK, SaveAndRelease, Release, webVars, PollerState

LEMMA ReadKeepsTypes ==
    ASSUME TypeInv, NEW p \in Pollers, NEW from \in PollerState,
           NEW to \in {"reread", "loaded", "rescued", "overruling"},
           ReadTask(p, from, to),
           from \in {"recovered", "claimed", "raised", "unsure"}
    PROVE  TypeInv'
<1>1. cur[p] \in Tasks /\ Stamped(rows[cur[p]]) \in Row
  BY RowFunctions DEF TypeInv, TypeOK, WorkerOK, ReadTask
<1>2. QED
  BY <1>1 DEF TypeInv, TypeOK, WorkerOK, ReadTask, webVars, PollerState

-------------------------------------------------------------------------------
\* The web process keeps the types.
LEMMA WebKeepsTypes ==
    ASSUME TypeInv, NEW t \in Tasks,
           Schedule(t) \/ PublishNow(t) \/ PublishDirect(t) \/ WebStep(t) \/ WebCrash(t)
    PROVE  TypeInv'
<1> USE DEF TypeInv, TypeOK, WorkerOK, workerVars, webVars
<1>1. CASE Schedule(t)
  BY <1>1, NewRows DEF Schedule
<1>2. CASE PublishNow(t)
  BY <1>2, NewRows DEF PublishNow, WebState
<1>3. CASE WebCall(t)
  <2>1. PICK o \in PossibleOutcomes :
           /\ form' = [form EXCEPT ![t] = Published(@, o)]
           /\ posts' = [posts EXCEPT ![t] = @ + Accepted(o)]
    BY <1>3 DEF WebCall
  <2>2. Published(form[t], o) \in Row /\ Accepted(o) \in Nat
    BY <1>3, PublishedRow DEF WebCall, PossibleOutcomes
  <2>3. QED BY <1>3, <2>1, <2>2 DEF WebCall, WebState
<1>4. CASE PublishDirect(t)
  <2>1. PICK o \in PossibleOutcomes :
           /\ posts' = [posts EXCEPT ![t] = @ + Accepted(o)]
           /\ IF o = "live"
              THEN /\ form' = [form EXCEPT ![t] = NewRow("published", None)]
                   /\ web' = [web EXCEPT ![t] = "answered"]
              ELSE /\ web' = [web EXCEPT ![t] = "done"]
                   /\ UNCHANGED form
    BY <1>4 DEF PublishDirect
  <2>2. NewRow("published", None) \in Row /\ Accepted(o) \in Nat
    BY NewRows, PublishedRow DEF PossibleOutcomes
  <2>3. QED BY <1>4, <2>1, <2>2 DEF PublishDirect, WebState
<1>5. CASE WebSave(t)
  BY <1>5, RowFunctions DEF WebSave, WebState
<1>6. CASE WebCrash(t)
  BY <1>6 DEF WebCrash, WebState
<1>7. QED BY <1>1, <1>2, <1>3, <1>4, <1>5, <1>6 DEF WebStep

\* A poller keeps the types.
LEMMA PollerKeepsTypes ==
    ASSUME TypeInv, NEW p \in Pollers, PollerStep(p) \/ StoreRaises(p) \/ CommitLost(p) \/ Crash(p)
    PROVE  TypeInv'
<1>1. CASE ListStale(p)
  BY <1>1 DEF TypeInv, TypeOK, WorkerOK, ListStale, webVars, PollerState
<1>2. CASE RecoverClaim(p)
  <2>1. PICK t \in stale[p] :
           /\ stale' = [stale EXCEPT ![p] = @ \ {t}]
           /\ IF CasSucceeds(rows[t], "publishing")
              THEN /\ rows' = [rows EXCEPT ![t] = HandedBack(@)]
                   /\ cur' = [cur EXCEPT ![p] = t]
                   /\ pc' = [pc EXCEPT ![p] = "recovered"]
              ELSE UNCHANGED <<rows, cur, pc>>
    BY <1>2 DEF RecoverClaim
  <2>2. t \in Tasks /\ HandedBack(rows[t]) \in Row
    BY RowFunctions DEF TypeInv, TypeOK
  <2>3. QED
    BY <1>2, <2>1, <2>2
    DEF RecoverClaim, TypeInv, TypeOK, WorkerOK, webVars, PollerState
<1>3. CASE RecoverRead(p)
  BY <1>3, ReadKeepsTypes DEF RecoverRead, PollerState
<1>4. CASE RecoverSave(p)
  BY <1>4, SaveKeepsTypes, RowFunctions DEF RecoverSave, TypeInv, WorkerOK
<1>5. CASE ListDue(p)
  <2>1. PICK batch \in SUBSET {t \in Tasks : IsDue(rows[t])} :
           todo' = [todo EXCEPT ![p] = {[task |-> t, at |-> rows[t].due] : t \in batch}]
    BY <1>5 DEF ListDue
  <2>2. \A t \in batch : t \in Tasks /\ rows[t].due \in Int
    BY DEF IsDue, TypeInv, TypeOK, Row
  <2>3. {[task |-> t, at |-> rows[t].due] : t \in batch} \in SUBSET [task: Tasks, at: Int]
    BY <2>2
  <2>4. QED
    BY <1>5, <2>1, <2>3 DEF ListDue, TypeInv, TypeOK, WorkerOK, webVars, PollerState
<1>6. CASE Claim(p)
  <2>1. PICK e \in todo[p] :
           /\ todo' = [todo EXCEPT ![p] = @ \ {e}]
           /\ IF CasSucceeds(rows[e.task], "scheduled")
              THEN /\ rows' = [rows EXCEPT ![e.task] = Claimed(@)]
                   /\ cur' = [cur EXCEPT ![p] = e.task]
                   /\ pc' = [pc EXCEPT ![p] = "claimed"]
              ELSE UNCHANGED <<rows, cur, pc>>
    BY <1>6 DEF Claim
  <2>2. e.task \in Tasks
    BY DEF TypeInv, TypeOK
  <2>3. Claimed(rows[e.task]) \in Row
    BY <2>2, RowFunctions DEF TypeInv, TypeOK
  <2>4. QED
    BY <1>6, <2>1, <2>2, <2>3 DEF Claim, TypeInv, TypeOK, WorkerOK, webVars, PollerState
<1>7. CASE LoadTask(p)
  BY <1>7, ReadKeepsTypes DEF LoadTask, PollerState
<1>8. CASE FailUnpublished(p)
  BY <1>8, SaveKeepsTypes, RowFunctions DEF FailUnpublished, TypeInv, WorkerOK
<1>9. CASE CallPublisher(p)
  <2>1. PICK o \in PossibleOutcomes :
           /\ copy' = [copy EXCEPT ![p] = Published(@, o)]
           /\ posts' = [posts EXCEPT ![cur[p]] = @ + Accepted(o)]
    BY <1>9 DEF CallPublisher
  <2>2. Published(copy[p], o) \in Row /\ Accepted(o) \in Nat
    BY <1>9, PublishedRow DEF CallPublisher, PossibleOutcomes, TypeInv, WorkerOK
  <2>3. QED
    BY <1>9, <2>1, <2>2 DEF CallPublisher, TypeInv, TypeOK, WorkerOK, webVars, PollerState
<1>10. CASE Finalize(p)
  BY <1>10, SaveKeepsTypes, RowFunctions DEF Finalize, TypeInv, WorkerOK
<1>11. CASE RescueRead(p)
  BY <1>11, ReadKeepsTypes DEF RescueRead, PollerState
<1>12. CASE RescueSave(p)
  BY <1>12, SaveKeepsTypes, RowFunctions DEF RescueSave, TypeInv, WorkerOK
<1>13. CASE EndTick(p)
  BY <1>13 DEF EndTick, TypeInv, TypeOK, WorkerOK, webVars, PollerState
<1>14. CASE StoreRaises(p)
  BY <1>14 DEF StoreRaises, TypeInv, TypeOK, WorkerOK, webVars, PollerState
<1>15. CASE Crash(p)
  BY <1>15 DEF Crash, Release, TypeInv, TypeOK, WorkerOK, webVars, PollerState
<1>16. CASE CommitLost(p)
  <2>1. PICK row \in Row : rows' = [rows EXCEPT ![cur[p]] = row]
    BY <1>16, RowFunctions DEF CommitLost, TypeInv, WorkerOK
  <2>2. QED BY <1>16, <2>1 DEF CommitLost, TypeInv, TypeOK, WorkerOK, webVars, PollerState
<1>17. QED
  BY <1>1, <1>2, <1>3, <1>4, <1>5, <1>6, <1>7, <1>8, <1>9, <1>10, <1>11, <1>12, <1>13,
     <1>14, <1>15, <1>16 DEF PollerStep

LEMMA TickKeepsTypes == ASSUME TypeInv, Tick PROVE TypeInv'
<1>1. rows' \in [Tasks -> Row]
  BY RowFunctions DEF Tick, TypeInv, TypeOK
<1>2. \A p \in Pollers : copy[p] \in Row => copy'[p] \in Row
  BY RowFunctions DEF Tick, TypeInv, TypeOK
<1>3. copy' \in [Pollers -> Row \cup {None}]
  BY RowFunctions DEF Tick, TypeInv, TypeOK
<1>4. QED
  BY <1>1, <1>2, <1>3 DEF Tick, TypeInv, TypeOK, WorkerOK, webVars

\* The inductive strengthening of type correctness: a poller about to save holds a whole
\* row, so that no failure, crash or interleaving makes it write back what it never read.
LEMMA TypeInvariant == Spec => []TypeInv
<1>1. Init => TypeInv
  BY NewRows DEF Init, TypeInv, TypeOK, WorkerOK, PollerState, WebState
<1>2. TypeInv /\ [Next]_vars => TypeInv'
  <2> SUFFICES ASSUME TypeInv, [Next]_vars PROVE TypeInv'
    OBVIOUS
  <2>1. CASE Next
    BY <2>1, WebKeepsTypes, PollerKeepsTypes, TickKeepsTypes DEF Next
  <2>2. CASE UNCHANGED vars
    BY <2>2 DEF vars, workerVars, webVars, TypeInv, TypeOK, WorkerOK
  <2>3. QED BY <2>1, <2>2
<1>3. QED BY <1>1, <1>2, PTL DEF Spec

\* Type correctness of the task table and of the workers, under every fault.
THEOREM TypeCorrect == Spec => []TypeOK
<1>1. TypeInv => TypeOK
  BY DEF TypeInv
<1>2. QED BY <1>1, TypeInvariant, PTL

-------------------------------------------------------------------------------
\* What the functions of a row do to the columns the invariant reads.
LEMMA RowColumns ==
    ASSUME NEW row \in Row
    PROVE  /\ Stamped(row).status = row.status /\ Stamped(row).due = row.due
           /\ Stamped(row).attempts = row.attempts
           /\ Failed(row).status = "failed" /\ Failed(row).due = row.due
           /\ Failed(row).attempts = row.attempts
           /\ HandedBack(row).status = "scheduled" /\ HandedBack(row).due = row.due
           /\ HandedBack(row).attempts = row.attempts
           /\ Claimed(row).status = "publishing" /\ Claimed(row).attempts = row.attempts + 1
BY DEF Row, Stamped, Failed, HandedBack, Claimed

LEMMA SavedColumns ==
    ASSUME NEW row \in Row
    PROVE  /\ Recovered(row).attempts = row.attempts /\ Recovered(row).due = row.due
           /\ \/ Recovered(row).status = "failed"
              \/ Recovered(row).status = row.status /\ row.attempts < MaxAttempts
           /\ Finalized(row).attempts = row.attempts
           /\ \/ Finalized(row).status = "scheduled" /\ row.attempts < MaxAttempts
              \/ Finalized(row).status = row.status
<1>1. row.attempts \in Nat
  BY DEF Row
<1>2. /\ Recovered(row).attempts = row.attempts /\ Recovered(row).due = row.due
      /\ \/ Recovered(row).status = "failed"
         \/ Recovered(row).status = row.status /\ row.attempts < MaxAttempts
  BY <1>1, RowColumns, LimitAssumption DEF Recovered
<1>3. CASE WillRetry(row)
  <2> DEFINE delay == Backoff(row.attempts)
             new == [Stamped(row) EXCEPT !.status = "scheduled", !.due = delay]
  <2>1. new.attempts = row.attempts /\ new.status = "scheduled"
    <3> HIDE DEF delay
    <3> QED BY DEF Row, Stamped
  <2>2. Finalized(row) = new /\ row.attempts < MaxAttempts
    BY <1>3 DEF Finalized, WillRetry
  <2> QED BY <1>2, <2>1, <2>2
<1>4. CASE ~WillRetry(row)
  BY <1>2, <1>4, RowColumns DEF Finalized
<1> QED BY <1>3, <1>4

LEMMA TimeColumns ==
    ASSUME NEW row \in Row
    PROVE  /\ Aged(row).status = row.status /\ Aged(row).attempts = row.attempts
           /\ row.due = None => Aged(row).due = None
           /\ [row EXCEPT !.due = Later(@)].status = row.status
           /\ [row EXCEPT !.due = Later(@)].attempts = row.attempts
           /\ row.due = None => [row EXCEPT !.due = Later(@)].due = None
BY DEF Row, Aged, Later

LEMMA PublishedColumns ==
    ASSUME NEW row \in Row, NEW o \in PossibleOutcomes
    PROVE  /\ Published(row, o).attempts = row.attempts /\ Published(row, o).due = row.due
           /\ Published(row, o).status \in {"published", "failed"}
           /\ Accepted(o) \in {0, 1}
BY DEF Row, Published, Accepted, PossibleOutcomes, Outcome

LEMMA FreshColumns ==
    /\ \A status, due : /\ NewRow(status, due).status = status /\ NewRow(status, due).due = due
                        /\ NewRow(status, due).attempts = 0
    /\ \A status, due, drafted :
          /\ [NewRow(status, due) EXCEPT !.drafted = drafted].status = status
          /\ [NewRow(status, due) EXCEPT !.drafted = drafted].attempts = 0
BY DEF NewRow

-------------------------------------------------------------------------------
(* The scheduler follows the life cycle, given what its workers know of their tasks *)

Publishing(p) == pc[p] \in {"claimed", "loaded", "answered", "raised", "rescued"}
Recovering(p) == pc[p] \in {"recovered", "reread"}
\* p's save was committed, and p is about to write failed over it all the same.
Overruling(p) == pc[p] \in {"unsure", "overruling"}

(* Rows of requests that publish at once are never due, and never claimed.  *)
WebOK ==
    /\ \A t \in WebTasks :
          /\ rows[t].due = None /\ rows[t].attempts = 0
          /\ web[t] \in {"calling", "answered"} => form[t].due = None /\ form[t].attempts = 0
    /\ \A t \in Tasks \ WebTasks : web[t] = "none"
    /\ \A p \in Pollers : \A e \in todo[p] : e.task \notin WebTasks

(* Nobody writes the row of the poller's task meanwhile, and its copy has   *)
(* the attempts of the row.                                                 *)
HandOK ==
    \A p \in Pollers :
        /\ Publishing(p) => cur[p] \notin WebTasks /\ rows[cur[p]].status = "publishing"
        /\ Recovering(p) /\ cur[p] \notin WebTasks => rows[cur[p]].status = "scheduled"
        /\ Overruling(p) =>
              /\ "commit_lost" \in Faults
              /\ cur[p] \notin WebTasks
              /\ rows[cur[p]].status \in {"scheduled", "published", "failed"}
        /\ pc[p] \in {"reread", "loaded", "answered", "rescued", "overruling"} =>
              /\ copy[p].attempts = rows[cur[p]].attempts
              /\ cur[p] \in WebTasks => copy[p].due = None
        /\ pc[p] = "reread" /\ cur[p] \notin WebTasks => copy[p].status = "scheduled"
        /\ pc[p] = "answered" => copy[p].status \in {"published", "failed"}

(* A task that was not created has no attempts.                             *)
FreshOK == \A t \in Tasks : rows[t].status = "absent" => rows[t].attempts = 0

LifeInv == TypeInv /\ WebOK /\ HandOK /\ FreshOK /\ PostsWithinAttempts

\* The parts of PostsWithinAttempts for one task.
Unused(t) == \E p \in Pollers : Holds(p, t) /\ pc[p] \in {"claimed", "loaded"}

LEMMA UnusedPosts ==
    /\ PostsWithinAttempts <=>
          \A t \in Tasks \ WebTasks :
              IF Unused(t) THEN posts[t] + 1 <= rows[t].attempts ELSE posts[t] + 0 <= rows[t].attempts
    /\ \A t : Unused(t) <=> \E p \in Pollers : pc[p] \in {"claimed", "loaded"} /\ cur[p] = t
BY DEF PostsWithinAttempts, Unused, Holds

Scheduled == Tasks \ WebTasks

\* Writing the row of one task moves that task along an arrow of the diagram.
LEMMA RowMoves ==
    ASSUME NEW t \in Scheduled, NEW from, NEW to,
           \A u \in Scheduled \ {t} :
               rows'[u].status = rows[u].status /\ rows'[u].attempts = rows[u].attempts,
           posts' = posts, rows'[t].attempts = rows[t].attempts,
           rows[t].status = from, rows'[t].status = to,
           \/ from = to
           \/ from = "absent" /\ to = "scheduled"
           \/ from = "publishing" /\ to \in {"scheduled", "published", "failed"}
           \/ from = "scheduled" /\ to = "failed"
           \/ from = "published" /\ to = "failed" /\ "commit_lost" \in Faults
    PROVE  Lifecycle!Next \/ UNCHANGED Lifecycle!vars
<1>1. /\ [u \in Scheduled |-> rows'[u].status] =
             [[u \in Scheduled |-> rows[u].status] EXCEPT ![t] = to]
      /\ [u \in Scheduled |-> rows'[u].attempts] = [u \in Scheduled |-> rows[u].attempts]
      /\ [u \in Scheduled |-> rows[u].status][t] = from
  OBVIOUS
<1>2. CASE from = to
  BY <1>1, <1>2 DEF Lifecycle!vars, Scheduled
<1>3. CASE from = "absent" /\ to = "scheduled"
  <2>1. Lifecycle!Schedule(t)
    BY <1>1, <1>3 DEF Lifecycle!Schedule, Lifecycle!Move, Scheduled
  <2> QED BY <2>1 DEF Lifecycle!Next, Scheduled
<1>4. CASE from = "publishing" /\ to = "scheduled"
  <2>1. Lifecycle!Reschedule(t)
    BY <1>1, <1>4 DEF Lifecycle!Reschedule, Lifecycle!Move, Scheduled
  <2> QED BY <2>1 DEF Lifecycle!Next, Scheduled
<1>5. CASE from = "publishing" /\ to = "published"
  <2>1. Lifecycle!Publish(t)
    BY <1>1, <1>5 DEF Lifecycle!Publish, Lifecycle!Move, Scheduled
  <2> QED BY <2>1 DEF Lifecycle!Next, Scheduled
<1>6. CASE from \in {"publishing", "scheduled"} /\ to = "failed"
  <2>1. Lifecycle!Fail(t)
    BY <1>1, <1>6 DEF Lifecycle!Fail, Lifecycle!Move, Scheduled
  <2> QED BY <2>1 DEF Lifecycle!Next, Scheduled
<1>7. CASE from = "published" /\ to = "failed"
  <2>1. Lifecycle!Disown(t)
    BY <1>1, <1>7 DEF Lifecycle!Disown, Lifecycle!Move, Scheduled
  <2> QED BY <2>1 DEF Lifecycle!Next, Scheduled
<1> QED BY <1>2, <1>3, <1>4, <1>5, <1>6, <1>7

\* Steps that leave status, attempts and posts of scheduled tasks alone are not seen.
LEMMA NotSeen ==
    ASSUME \A u \in Scheduled : /\ rows'[u].status = rows[u].status
                                /\ rows'[u].attempts = rows[u].attempts
                                /\ posts'[u] = posts[u]
    PROVE  UNCHANGED Lifecycle!vars
BY DEF Lifecycle!vars, Scheduled

\* The poller's save of its task, seen from the life cycle.
LEMMA SaveMoves ==
    ASSUME LifeInv, NEW p \in Pollers, NEW row, NEW next, SaveAndRelease(p, row, next),
           cur[p] \in Tasks, cur[p] \notin WebTasks => row.attempts = rows[cur[p]].attempts,
           cur[p] \notin WebTasks =>
               \/ rows[cur[p]].status = row.status
               \/ rows[cur[p]].status = "publishing" /\ row.status \in {"scheduled", "published", "failed"}
               \/ rows[cur[p]].status = "scheduled" /\ row.status = "failed"
               \/ /\ rows[cur[p]].status = "published" /\ row.status = "failed"
                  /\ "commit_lost" \in Faults
    PROVE  Lifecycle!Next \/ UNCHANGED Lifecycle!vars
<1>1. /\ rows'[cur[p]] = row /\ \A u \in Tasks \ {cur[p]} : rows'[u] = rows[u]
      /\ posts' = posts
  BY DEF SaveAndRelease, LifeInv, TypeInv, TypeOK
<1>2. CASE cur[p] \in WebTasks
  BY <1>1, <1>2, NotSeen DEF Scheduled
<1>3. CASE cur[p] \notin WebTasks
  BY <1>1, <1>3, RowMoves DEF Scheduled
<1> QED BY <1>2, <1>3

\* Only the claim counts an attempt.
LEMMA ClaimMoves ==
    ASSUME LifeInv, NEW p \in Pollers, Claim(p)
    PROVE  Lifecycle!Next \/ UNCHANGED Lifecycle!vars
<1>1. PICK e \in todo[p] :
          IF CasSucceeds(rows[e.task], "scheduled")
          THEN rows' = [rows EXCEPT ![e.task] = Claimed(rows[e.task])]
          ELSE rows' = rows
  BY DEF Claim
<1>2. e.task \in Scheduled /\ rows[e.task] \in Row /\ posts' = posts
  BY DEF Claim, Scheduled, LifeInv, TypeInv, TypeOK, WebOK
<1>3. CASE ~CasSucceeds(rows[e.task], "scheduled")
  BY <1>1, <1>2, <1>3, NotSeen
<1>4. CASE CasSucceeds(rows[e.task], "scheduled")
  <2> DEFINE t == e.task
  <2>1. /\ rows'[t] = Claimed(rows[t]) /\ rows[t].status = "scheduled"
        /\ \A u \in Scheduled \ {t} : rows'[u] = rows[u]
    BY <1>1, <1>2, <1>4 DEF CasSucceeds, Scheduled, LifeInv, TypeInv, TypeOK
  <2>2. rows'[t].status = "publishing" /\ rows'[t].attempts = rows[t].attempts + 1
    BY <1>2, <2>1, RowColumns
  <2>3. t \in Scheduled /\ posts' = posts
    BY <1>2
  <2> HIDE DEF t
  <2>4. /\ [u \in Scheduled |-> rows'[u].status] =
               [[u \in Scheduled |-> rows[u].status] EXCEPT ![t] = "publishing"]
        /\ [u \in Scheduled |-> rows'[u].attempts] =
               [[u \in Scheduled |-> rows[u].attempts] EXCEPT ![t] = rows[t].attempts + 1]
        /\ [u \in Scheduled |-> rows[u].status][t] = "scheduled"
        /\ [u \in Scheduled |-> rows[u].attempts][t] = rows[t].attempts
    BY <2>1, <2>2, <2>3
  <2>5. Lifecycle!Claim(t)
    BY <2>3, <2>4 DEF Lifecycle!Claim, Lifecycle!Move, Scheduled
  <2> QED BY <2>3, <2>5 DEF Lifecycle!Next, Scheduled
<1> QED BY <1>3, <1>4

\* A post is made with an attempt that has not bought one yet.
LEMMA CallMoves ==
    ASSUME LifeInv, NEW p \in Pollers, CallPublisher(p)
    PROVE  Lifecycle!Next \/ UNCHANGED Lifecycle!vars
<1>1. PICK o \in PossibleOutcomes : posts' = [posts EXCEPT ![cur[p]] = @ + Accepted(o)]
  BY DEF CallPublisher
<1>2. PICK t \in Scheduled : t = cur[p]
  BY DEF CallPublisher, Publishing, Scheduled, LifeInv, TypeInv, WorkerOK, HandOK
<1>3. rows[t].status = "publishing" /\ rows' = rows /\ pc[p] = "loaded" /\ copy[p] \in Row
  BY <1>2 DEF CallPublisher, Publishing, LifeInv, TypeInv, WorkerOK, HandOK
<1>4. /\ posts'[t] = posts[t] + Accepted(o) /\ posts[t] \in Nat
      /\ \A u \in Scheduled \ {t} : posts'[u] = posts[u]
  BY <1>1, <1>2 DEF Scheduled, LifeInv, TypeInv, TypeOK
<1>5. Accepted(o) \in {0, 1}
  BY <1>3, PublishedColumns
<1>6. CASE Accepted(o) = 0
  BY <1>3, <1>4, <1>6, NotSeen
<1>7. CASE Accepted(o) = 1
  <2>1. Unused(t)
    BY <1>2, <1>3 DEF Unused, Holds
  <2>2. posts[t] + 1 <= rows[t].attempts /\ rows[t].attempts \in Nat
    BY <2>1, UnusedPosts DEF Scheduled, LifeInv, TypeInv, TypeOK, Row
  <2>3. posts[t] < rows[t].attempts /\ posts'[t] = posts[t] + 1
    BY <1>4, <1>7, <2>2
  <2>4. /\ [u \in Scheduled |-> posts'[u]] =
               [[u \in Scheduled |-> posts[u]] EXCEPT ![t] = posts[t] + 1]
        /\ [u \in Scheduled |-> rows'[u].status] = [u \in Scheduled |-> rows[u].status]
        /\ [u \in Scheduled |-> rows'[u].attempts] = [u \in Scheduled |-> rows[u].attempts]
        /\ [u \in Scheduled |-> rows[u].status][t] = "publishing"
        /\ [u \in Scheduled |-> rows[u].attempts][t] = rows[t].attempts
        /\ [u \in Scheduled |-> posts[u]][t] = posts[t]
    BY <1>3, <1>4, <2>3
  <2>5. Lifecycle!Post(t)
    BY <2>3, <2>4 DEF Lifecycle!Post, Scheduled
  <2> QED BY <2>5 DEF Lifecycle!Next, Scheduled
<1> QED BY <1>5, <1>6, <1>7

\* Each step of the poller is an arrow of the diagram or is not seen.
LEMMA PollerMoves ==
    ASSUME LifeInv, NEW p \in Pollers, PollerStep(p) \/ StoreRaises(p) \/ CommitLost(p) \/ Crash(p)
    PROVE  Lifecycle!Next \/ UNCHANGED Lifecycle!vars
<1>1. rows \in [Tasks -> Row]
  BY DEF LifeInv, TypeInv, TypeOK
<1>2. CASE RecoverClaim(p)
  <2>1. PICK t \in stale[p] :
            IF CasSucceeds(rows[t], "publishing")
            THEN rows' = [rows EXCEPT ![t] = HandedBack(rows[t])]
            ELSE rows' = rows
    BY <1>2 DEF RecoverClaim
  <2>2. t \in Tasks /\ rows[t] \in Row /\ posts' = posts
    BY <1>1, <1>2 DEF RecoverClaim, LifeInv, TypeInv, TypeOK
  <2>3. CASE rows' = rows
    BY <2>2, <2>3, NotSeen
  <2>4. CASE rows' # rows
    <3>1. /\ rows'[t] = HandedBack(rows[t]) /\ rows[t].status = "publishing"
          /\ \A u \in Tasks \ {t} : rows'[u] = rows[u]
      BY <1>1, <2>1, <2>2, <2>4 DEF CasSucceeds
    <3>2. rows'[t].status = "scheduled" /\ rows'[t].attempts = rows[t].attempts
      BY <2>2, <3>1, RowColumns
    <3>3. CASE t \in WebTasks
      BY <2>2, <3>1, <3>3, NotSeen DEF Scheduled
    <3>4. CASE t \notin WebTasks
      BY <2>2, <3>1, <3>2, <3>4, RowMoves DEF Scheduled
    <3> QED BY <3>3, <3>4
  <2> QED BY <2>3, <2>4
<1>3. CASE RecoverSave(p)
  <2> DEFINE row == Recovered(copy[p])
  <2>1. /\ cur[p] \in Tasks /\ copy[p] \in Row /\ SaveAndRelease(p, row, "recovering")
        /\ copy[p].attempts = rows[cur[p]].attempts
        /\ cur[p] \notin WebTasks => copy[p].status = "scheduled" /\ rows[cur[p]].status = "scheduled"
    BY <1>3 DEF RecoverSave, Recovering, LifeInv, HandOK, TypeInv, WorkerOK
  <2>2. row.attempts = copy[p].attempts /\ (row.status = "failed" \/ row.status = copy[p].status)
    BY <2>1, SavedColumns
  <2> HIDE DEF row
  <2> QED BY <2>1, <2>2, SaveMoves
<1>4. CASE Finalize(p)
  <2> DEFINE row == Finalized(copy[p])
  <2>1. /\ cur[p] \in Tasks /\ copy[p] \in Row /\ SaveAndRelease(p, row, "running")
        /\ copy[p].attempts = rows[cur[p]].attempts
        /\ rows[cur[p]].status = "publishing" /\ copy[p].status \in {"published", "failed"}
    BY <1>4 DEF Finalize, Publishing, LifeInv, HandOK, TypeInv, WorkerOK
  <2>2. row.attempts = copy[p].attempts /\ (row.status = "scheduled" \/ row.status = copy[p].status)
    BY <2>1, SavedColumns
  <2> HIDE DEF row
  <2> QED BY <2>1, <2>2, SaveMoves
<1>5. CASE FailUnpublished(p) \/ RescueSave(p)
  <2> DEFINE row == Failed(copy[p])
  <2>1. /\ cur[p] \in Tasks /\ copy[p] \in Row /\ SaveAndRelease(p, row, "running")
        /\ copy[p].attempts = rows[cur[p]].attempts
        /\ \/ rows[cur[p]].status \in {"publishing", "scheduled", "failed"}
           \/ rows[cur[p]].status = "published" /\ "commit_lost" \in Faults
    BY <1>5 DEF FailUnpublished, RescueSave, Publishing, Overruling, LifeInv, HandOK, TypeInv, WorkerOK
  <2>2. row.attempts = copy[p].attempts /\ row.status = "failed"
    BY <2>1, RowColumns
  <2> HIDE DEF row
  <2> QED BY <2>1, <2>2, SaveMoves
<1>6. CASE ReadTask(p, "recovered", "reread") \/ ReadTask(p, "claimed", "loaded")
           \/ ReadTask(p, "raised", "rescued") \/ ReadTask(p, "unsure", "overruling")
  <2>1. rows' = rows /\ posts' = posts
    BY <1>6 DEF ReadTask
  <2> QED BY <2>1, NotSeen
<1>7. CASE ListStale(p) \/ ListDue(p) \/ EndTick(p) \/ StoreRaises(p) \/ Crash(p)
  <2>1. rows' = rows /\ posts' = posts
    BY <1>7 DEF ListStale, ListDue, EndTick, StoreRaises, Crash
  <2> QED BY <2>1, NotSeen
<1>8. CASE CommitLost(p)
  <2>1. PICK row :
            /\ rows' = [rows EXCEPT ![cur[p]] = row] /\ posts' = posts
            /\ \/ pc[p] = "loaded" /\ row = Failed(copy[p])
               \/ pc[p] = "answered" /\ row = Finalized(copy[p])
    BY <1>8 DEF CommitLost
  <2>2. /\ cur[p] \in Scheduled /\ copy[p] \in Row /\ copy[p].attempts = rows[cur[p]].attempts
        /\ rows[cur[p]].status = "publishing"
        /\ pc[p] = "answered" => copy[p].status \in {"published", "failed"}
    BY <2>1 DEF Publishing, Scheduled, LifeInv, HandOK, TypeInv, WorkerOK
  <2>3. row.attempts = copy[p].attempts /\ row.status \in {"scheduled", "published", "failed"}
    BY <2>1, <2>2, SavedColumns, RowColumns
  <2>4. rows'[cur[p]] = row /\ \A u \in Tasks \ {cur[p]} : rows'[u] = rows[u]
    BY <1>1, <2>1, <2>2 DEF Scheduled
  <2> QED BY <2>1, <2>2, <2>3, <2>4, RowMoves DEF Scheduled
<1> QED BY <1>2, <1>3, <1>4, <1>5, <1>6, <1>7, <1>8, ClaimMoves, CallMoves
        DEF PollerStep, RecoverRead, LoadTask, RescueRead

LEMMA LifecycleStep == ASSUME LifeInv, [Next]_vars PROVE Lifecycle!Next \/ UNCHANGED Lifecycle!vars
<1>1. rows \in [Tasks -> Row]
  BY DEF LifeInv, TypeInv, TypeOK
<1>2. CASE UNCHANGED vars
  BY <1>2, NotSeen DEF vars
<1>3. ASSUME NEW t \in Tasks, Schedule(t) PROVE Lifecycle!Next \/ UNCHANGED Lifecycle!vars
  <2>1. PICK due, drafted : rows' = [rows EXCEPT ![t] = [NewRow("scheduled", due) EXCEPT !.drafted = drafted]]
    BY <1>3 DEF Schedule
  <2>2. /\ t \in Scheduled /\ rows[t].status = "absent" /\ rows[t].attempts = 0 /\ posts' = posts
    BY <1>3 DEF Schedule, Scheduled, LifeInv, FreshOK
  <2>3. /\ rows'[t].status = "scheduled" /\ rows'[t].attempts = 0
        /\ \A u \in Tasks \ {t} : rows'[u] = rows[u]
    BY <1>1, <2>1, FreshColumns
  <2> QED BY <2>2, <2>3, RowMoves DEF Scheduled
<1>4. ASSUME NEW t \in Tasks,
             PublishNow(t) \/ PublishDirect(t) \/ WebStep(t) \/ WebCrash(t)
      PROVE  Lifecycle!Next \/ UNCHANGED Lifecycle!vars
  <2>1. t \in WebTasks
    BY <1>4 DEF LifeInv, WebOK, PublishNow, PublishDirect, WebStep, WebCall, WebSave, WebCrash
  <2>2. \A s \in Scheduled : rows'[s] = rows[s] /\ posts'[s] = posts[s]
    BY <1>4, <2>1 DEF PublishNow, PublishDirect, WebStep, WebCall, WebSave, WebCrash, Scheduled,
                      LifeInv, TypeInv, TypeOK
  <2> QED BY <2>2, NotSeen
<1>5. CASE Tick
  <2>1. \A t \in Tasks : rows'[t] = Aged(rows[t]) /\ rows[t] \in Row
    BY <1>1, <1>5 DEF Tick
  <2>2. \A t \in Tasks : rows'[t].status = rows[t].status /\ rows'[t].attempts = rows[t].attempts
    BY <2>1, TimeColumns
  <2>3. posts' = posts
    BY <1>5 DEF Tick
  <2> QED BY <2>2, <2>3, NotSeen DEF Scheduled
<1> QED BY <1>2, <1>3, <1>4, <1>5, PollerMoves DEF Next

LEMMA LifecycleInit == Init => Lifecycle!Init
<1>1. Init => \A t \in Scheduled : rows[t].status = "absent" /\ rows[t].attempts = 0 /\ posts[t] = 0
  BY FreshColumns DEF Init, Scheduled
<1> QED BY <1>1 DEF Lifecycle!Init, Scheduled

-------------------------------------------------------------------------------
(* One poller under every fault: workers die, the store raises, answers are *)
(* lost, calls outlast the time after which a task counts as stuck.  Posts  *)
(* stay within counted attempts, attempts within their budget, and every    *)
(* step is one of PublishLifecycle.                                         *)

OnePoller == \A p, q \in Pollers : p = q

(* A task that waits for its time has an attempt left, unless a mishap took *)
(* the recovery from it that would have given it up.                        *)
RoomOK ==
    \A t \in Tasks :
        /\ rows[t].status = "absent" => rows[t].attempts = 0
        /\ rows[t].status = "scheduled" /\ (\A p \in Pollers : ~(Recovering(p) /\ cur[p] = t)) =>
              rows[t].attempts < MaxAttempts + mishaps

SoloInv == TypeInv /\ WebOK /\ HandOK /\ RoomOK /\ AttemptsWithinBudget /\ PostsWithinAttempts

-------------------------------------------------------------------------------
LEMMA SoloInit == Init => SoloInv
<1> SUFFICES ASSUME Init PROVE SoloInv
  OBVIOUS
<1>1. TypeInv
  BY NewRows DEF Init, TypeInv, TypeOK, WorkerOK, PollerState, WebState
<1>2. \A t \in Tasks : rows[t].status = "absent" /\ rows[t].due = None /\ rows[t].attempts = 0
  BY FreshColumns DEF Init
<1>3. \A p \in Pollers : pc[p] = "idle" /\ todo[p] = {}
  BY DEF Init
<1>4. \A t \in Tasks : web[t] = "none" /\ posts[t] = 0
  BY DEF Init
<1>5. mishaps = 0
  BY DEF Init
<1>6. WebOK
  BY <1>2, <1>3, <1>4, TaskAssumption DEF WebOK
<1>7. HandOK
  BY <1>3 DEF HandOK, Publishing, Recovering, Overruling
<1>8. RoomOK /\ AttemptsWithinBudget
  BY <1>2, <1>5, LimitAssumption DEF RoomOK, AttemptsWithinBudget
<1>9. PostsWithinAttempts
  BY <1>2, <1>3, <1>4 DEF PostsWithinAttempts
<1> QED BY <1>1, <1>6, <1>7, <1>8, <1>9 DEF SoloInv

\* The web process writes the rows of its own requests, without a time or an attempt.
LEMMA WebRowsMove ==
    ASSUME SoloInv, TypeInv', UNCHANGED <<pc, cur, copy, todo>>,
           \A t \in Tasks \ WebTasks : rows'[t] = rows[t] /\ posts'[t] = posts[t] /\ web'[t] = web[t],
           \A t \in WebTasks : rows'[t].due = None /\ rows'[t].attempts = 0,
           \A t \in WebTasks : web'[t] \in {"calling", "answered"} =>
                                   form'[t].due = None /\ form'[t].attempts = 0,
           mishaps' \in {mishaps, mishaps + 1}
    PROVE  SoloInv'
<1>1. mishaps \in Nat /\ mishaps' \in Nat /\ mishaps' >= mishaps
  BY DEF SoloInv, TypeInv, TypeOK
<1>2. WebOK'
  BY DEF SoloInv, WebOK
<1>3. HandOK'
  BY DEF SoloInv, WebOK, HandOK, Publishing, Recovering, Overruling, TypeInv, WorkerOK
<1>4. \A t \in Tasks : rows[t].attempts \in Nat
  BY DEF SoloInv, TypeInv, TypeOK, Row
<1>5. RoomOK' /\ AttemptsWithinBudget'
  BY <1>1, <1>4, LimitAssumption DEF SoloInv, RoomOK, AttemptsWithinBudget, Recovering
<1>6. PostsWithinAttempts'
  BY DEF SoloInv, PostsWithinAttempts, Holds
<1> QED BY <1>2, <1>3, <1>5, <1>6 DEF SoloInv

LEMMA ScheduleKeeps ==
    ASSUME SoloInv, TypeInv', NEW t \in Tasks, Schedule(t)
    PROVE  SoloInv'
<1>1. PICK due, drafted : rows' = [rows EXCEPT ![t] = [NewRow("scheduled", due) EXCEPT !.drafted = drafted]]
  BY DEF Schedule
<1>2. /\ t \notin WebTasks /\ rows[t].status = "absent" /\ posts' = posts /\ mishaps' = mishaps
      /\ pc' = pc /\ cur' = cur /\ copy' = copy /\ todo' = todo /\ web' = web /\ form' = form
  BY DEF Schedule, workerVars, webVars
<1>3. /\ rows'[t].status = "scheduled" /\ rows'[t].attempts = 0
      /\ \A s \in Tasks \ {t} : rows'[s] = rows[s]
  BY <1>1, FreshColumns DEF SoloInv, TypeInv, TypeOK
<1>4. \A p \in Pollers : Publishing(p) \/ Recovering(p) => cur[p] # t
  BY <1>2 DEF SoloInv, HandOK
<1>5. rows[t].attempts = 0 /\ mishaps \in Nat
  BY <1>2 DEF SoloInv, RoomOK, TypeInv, TypeOK
<1>6. WebOK'
  BY <1>2, <1>3, TaskAssumption DEF SoloInv, WebOK
<1>7. HandOK'
  BY <1>2, <1>3, <1>4 DEF SoloInv, HandOK, Publishing, Recovering, Overruling, TypeInv, WorkerOK
<1>8. RoomOK' /\ AttemptsWithinBudget'
  BY <1>2, <1>3, <1>5, LimitAssumption DEF SoloInv, RoomOK, AttemptsWithinBudget, Recovering
<1>9. PostsWithinAttempts'
  BY <1>2, <1>3, <1>5 DEF SoloInv, PostsWithinAttempts, Holds
<1> QED BY <1>6, <1>7, <1>8, <1>9 DEF SoloInv

LEMMA WebKeeps ==
    ASSUME SoloInv, TypeInv', NEW t \in Tasks,
           PublishNow(t) \/ PublishDirect(t) \/ WebStep(t) \/ WebCrash(t)
    PROVE  SoloInv'
<1>1. t \in WebTasks
  BY DEF SoloInv, WebOK, PublishNow, PublishDirect, WebStep, WebCall, WebSave, WebCrash
<1>2. UNCHANGED <<pc, cur, copy, todo>>
  BY DEF PublishNow, PublishDirect, WebStep, WebCall, WebSave, WebCrash, workerVars
<1>3. \A s \in Tasks \ WebTasks : rows'[s] = rows[s] /\ posts'[s] = posts[s] /\ web'[s] = web[s]
  BY <1>1 DEF PublishNow, PublishDirect, WebStep, WebCall, WebSave, WebCrash, SoloInv, TypeInv, TypeOK
<1>4. mishaps' \in {mishaps, mishaps + 1}
  BY DEF PublishNow, PublishDirect, WebStep, WebCall, WebSave, WebCrash
<1>5. /\ \A s \in WebTasks : rows'[s].due = None /\ rows'[s].attempts = 0
      /\ \A s \in WebTasks : web'[s] \in {"calling", "answered"} =>
                                 form'[s].due = None /\ form'[s].attempts = 0
  <2> USE TaskAssumption DEF SoloInv, TypeInv, TypeOK, WebOK
  <2>1. CASE PublishNow(t)
    BY <2>1, FreshColumns DEF PublishNow
  <2>2. CASE PublishDirect(t)
    <3>1. PICK o \in PossibleOutcomes :
              IF o = "live"
              THEN form' = [form EXCEPT ![t] = NewRow("published", None)]
              ELSE web' = [web EXCEPT ![t] = "done"] /\ UNCHANGED form
      BY <2>2 DEF PublishDirect
    <3>2. NewRow("published", None).due = None /\ NewRow("published", None).attempts = 0
      BY FreshColumns
    <3>3. rows' = rows /\ (\A s \in Tasks \ {t} : web'[s] = web[s])
      BY <2>2 DEF PublishDirect
    <3>4. CASE o = "live"
      BY <3>1, <3>2, <3>3, <3>4
    <3>5. CASE o # "live"
      BY <3>1, <3>3, <3>5
    <3> QED BY <3>4, <3>5
  <2>3. CASE WebCall(t)
    <3>1. PICK o \in PossibleOutcomes : form' = [form EXCEPT ![t] = Published(form[t], o)]
      BY <2>3 DEF WebCall
    <3>2. web[t] = "calling" /\ form[t] \in Row
      BY <2>3 DEF WebCall, WorkerOK
    <3>3. Published(form[t], o).due = None /\ Published(form[t], o).attempts = 0
      BY <1>1, <3>2, PublishedColumns
    <3> QED BY <2>3, <3>1, <3>3 DEF WebCall
  <2>4. CASE WebSave(t)
    <3>1. form[t] \in Row /\ form[t].due = None /\ form[t].attempts = 0
      BY <1>1, <2>4 DEF WebSave, WorkerOK
    <3>2. Stamped(form[t]).due = None /\ Stamped(form[t]).attempts = 0
      BY <3>1, RowColumns
    <3> QED BY <2>4, <3>2 DEF WebSave
  <2>5. CASE WebCrash(t)
    BY <2>5 DEF WebCrash
  <2> QED BY <2>1, <2>2, <2>3, <2>4, <2>5 DEF WebStep
<1> QED BY <1>2, <1>3, <1>4, <1>5, WebRowsMove

LEMMA TickKeeps ==
    ASSUME SoloInv, TypeInv', Tick
    PROVE  SoloInv'
<1>1. /\ \A t \in Tasks : rows'[t] = Aged(rows[t]) /\ rows[t] \in Row
      /\ UNCHANGED <<posts, pc, cur, todo, web, form, mishaps>>
  BY DEF Tick, webVars, SoloInv, TypeInv, TypeOK
<1>2. \A t \in Tasks : /\ rows'[t].status = rows[t].status /\ rows'[t].attempts = rows[t].attempts
                       /\ rows[t].due = None => rows'[t].due = None
  BY <1>1, TimeColumns
<1>3. \A p \in Pollers : copy[p] \in Row =>
          /\ copy'[p].status = copy[p].status /\ copy'[p].attempts = copy[p].attempts
          /\ copy[p].due = None => copy'[p].due = None
  <2> SUFFICES ASSUME NEW p \in Pollers, copy[p] \in Row
               PROVE  /\ copy'[p].status = copy[p].status /\ copy'[p].attempts = copy[p].attempts
                      /\ copy[p].due = None => copy'[p].due = None
    OBVIOUS
  <2>1. CASE copy[p] = None
    BY <2>1 DEF Tick
  <2>2. CASE copy[p] # None
    <3>1. copy'[p] = [copy[p] EXCEPT !.due = Later(copy[p].due)]
      BY <2>2 DEF Tick
    <3> QED BY <3>1, TimeColumns
  <2> QED BY <2>1, <2>2
<1>4. WebOK'
  BY <1>1, <1>2, TaskAssumption DEF SoloInv, WebOK
<1>5. HandOK'
  BY <1>1, <1>2, <1>3 DEF SoloInv, HandOK, Publishing, Recovering, Overruling, TypeInv, WorkerOK
<1>6. RoomOK' /\ AttemptsWithinBudget'
  BY <1>1, <1>2 DEF SoloInv, RoomOK, AttemptsWithinBudget, Recovering
<1>7. PostsWithinAttempts'
  BY <1>1, <1>2 DEF SoloInv, PostsWithinAttempts, Holds
<1> QED BY <1>4, <1>5, <1>6, <1>7 DEF SoloInv

-------------------------------------------------------------------------------
(* The poller *)

\* The poller ends its work on a task by saving its row, with the attempts it had.
LEMMA SaveKeeps ==
    ASSUME OnePoller, SoloInv, TypeInv', NEW p \in Pollers, NEW row \in Row,
           NEW next \in {"recovering", "running"}, SaveAndRelease(p, row, next),
           Publishing(p) \/ Recovering(p) \/ Overruling(p),
           row.attempts = rows[cur[p]].attempts,
           cur[p] \in WebTasks => row.due = None,
           cur[p] \notin WebTasks => row.status # "absent",
           row.status = "scheduled" => row.attempts < MaxAttempts + mishaps
    PROVE  SoloInv'
<1>1. /\ cur[p] \in Tasks /\ rows' = [rows EXCEPT ![cur[p]] = row] /\ Pollers = {p}
      /\ pc' = [pc EXCEPT ![p] = next] /\ cur' = [cur EXCEPT ![p] = None]
      /\ UNCHANGED <<posts, todo, web, form, mishaps>>
  BY DEF SaveAndRelease, Release, webVars, OnePoller, SoloInv, TypeInv, WorkerOK, Publishing, Recovering,
         Overruling
<1>2. /\ rows'[cur[p]] = row /\ \A t \in Tasks \ {cur[p]} : rows'[t] = rows[t]
      /\ pc'[p] = next
  BY <1>1 DEF SoloInv, TypeInv, TypeOK
<1>3. WebOK'
  BY <1>1, <1>2, TaskAssumption DEF SoloInv, WebOK
<1>4. HandOK'
  BY <1>1, <1>2 DEF HandOK, Publishing, Recovering, Overruling
<1>5. AttemptsWithinBudget'
  BY <1>1, <1>2 DEF SoloInv, AttemptsWithinBudget
<1>6. RoomOK'
  <2> SUFFICES ASSUME NEW t \in Tasks
               PROVE  /\ rows'[t].status = "absent" => rows'[t].attempts = 0
                      /\ rows'[t].status = "scheduled" => rows'[t].attempts < MaxAttempts + mishaps'
    BY DEF RoomOK
  <2>1. CASE t = cur[p]
    BY <1>1, <1>2, <2>1 DEF SoloInv, WebOK
  <2>2. CASE t # cur[p]
    <3>1. rows'[t] = rows[t] /\ mishaps' = mishaps
      BY <1>1, <1>2, <2>2
    <3>2. \A q \in Pollers : ~(Recovering(q) /\ cur[q] = t)
      BY <1>1, <2>2
    <3> QED BY <3>1, <3>2 DEF SoloInv, RoomOK
  <2> QED BY <2>1, <2>2
<1>7. PostsWithinAttempts'
  <2>1. \A t \in Tasks : ~Unused(t)'
    BY <1>1, <1>2 DEF Unused
  <2>2. \A t \in Tasks \ WebTasks : posts[t] + 0 <= rows[t].attempts
    BY UnusedPosts DEF SoloInv, TypeInv, TypeOK, Row
  <2>3. \A t \in Tasks \ WebTasks : posts'[t] + 0 <= rows'[t].attempts
    BY <1>1, <1>2, <2>2
  <2> QED BY <2>1, <2>3 DEF PostsWithinAttempts, Unused, Holds
<1> QED BY <1>3, <1>4, <1>5, <1>6, <1>7 DEF SoloInv

\* The save is committed and raises: the poller keeps the task in hand.
LEMMA CommitLostKeeps ==
    ASSUME OnePoller, SoloInv, TypeInv', NEW p \in Pollers, CommitLost(p)
    PROVE  SoloInv'
<1>1. PICK row :
          /\ rows' = [rows EXCEPT ![cur[p]] = row]
          /\ \/ pc[p] = "loaded" /\ row = Failed(copy[p])
             \/ pc[p] = "answered" /\ row = Finalized(copy[p])
  BY DEF CommitLost
<1>2. /\ Pollers = {p} /\ pc' = [pc EXCEPT ![p] = "unsure"] /\ "commit_lost" \in Faults
      /\ UNCHANGED <<posts, cur, copy, todo, web, form>>
      /\ mishaps \in Nat /\ mishaps' = mishaps + 1
  BY DEF CommitLost, webVars, OnePoller, SoloInv, TypeInv, TypeOK
<1>3. /\ cur[p] \in Tasks \ WebTasks /\ copy[p] \in Row /\ copy[p].attempts = rows[cur[p]].attempts
      /\ pc[p] = "answered" => copy[p].status \in {"published", "failed"}
  BY <1>1 DEF SoloInv, HandOK, Publishing, TypeInv, WorkerOK
<1>4. /\ row.attempts = copy[p].attempts /\ row.status \in {"scheduled", "published", "failed"}
      /\ row.status = "scheduled" => row.attempts < MaxAttempts
  BY <1>1, <1>3, SavedColumns, RowColumns
<1>5. /\ rows'[cur[p]] = row /\ pc'[p] = "unsure"
      /\ \A t \in Tasks \ {cur[p]} : rows'[t] = rows[t]
  BY <1>1, <1>2, <1>3 DEF SoloInv, TypeInv, TypeOK
<1>6. \A t \in Tasks : rows'[t].attempts = rows[t].attempts /\ rows[t].attempts \in Nat
  BY <1>3, <1>4, <1>5 DEF SoloInv, TypeInv, TypeOK, Row
<1>7. WebOK'
  BY <1>2, <1>3, <1>5, TaskAssumption DEF SoloInv, WebOK
<1>8. HandOK'
  BY <1>2, <1>3, <1>4, <1>5 DEF HandOK, Publishing, Recovering, Overruling
<1>9. AttemptsWithinBudget'
  BY <1>2, <1>6, LimitAssumption DEF SoloInv, AttemptsWithinBudget
<1>10. RoomOK'
  <2> SUFFICES ASSUME NEW t \in Tasks
               PROVE  /\ rows'[t].status = "absent" => rows'[t].attempts = 0
                      /\ rows'[t].status = "scheduled" => rows'[t].attempts < MaxAttempts + mishaps'
    BY DEF RoomOK
  <2>1. CASE t = cur[p]
    BY <1>2, <1>4, <1>5, <1>6, <2>1, LimitAssumption
  <2>2. CASE t # cur[p]
    <3>1. \A q \in Pollers : ~(Recovering(q) /\ cur[q] = t)
      BY <1>2, <2>2
    <3> QED BY <1>2, <1>5, <1>6, <2>2, <3>1, LimitAssumption DEF SoloInv, RoomOK
  <2> QED BY <2>1, <2>2
<1>11. PostsWithinAttempts'
  <2>1. \A t \in Tasks : ~Unused(t)'
    BY <1>2, <1>5 DEF Unused
  <2>2. \A t \in Tasks \ WebTasks : posts[t] + 0 <= rows[t].attempts
    BY UnusedPosts DEF SoloInv, TypeInv, TypeOK, Row
  <2>3. \A t \in Tasks \ WebTasks : posts'[t] + 0 <= rows'[t].attempts
    BY <1>2, <1>6, <2>2
  <2> QED BY <2>1, <2>3 DEF PostsWithinAttempts, Unused, Holds
<1> QED BY <1>7, <1>8, <1>9, <1>10, <1>11 DEF SoloInv

\* The poller reads the row of its task.
LEMMA ReadKeeps ==
    ASSUME OnePoller, SoloInv, TypeInv', NEW p \in Pollers,
           \/ ReadTask(p, "recovered", "reread")
           \/ ReadTask(p, "claimed", "loaded")
           \/ ReadTask(p, "raised", "rescued")
           \/ ReadTask(p, "unsure", "overruling")
    PROVE  SoloInv'
<1>1. /\ cur[p] \in Tasks /\ copy' = [copy EXCEPT ![p] = Stamped(rows[cur[p]])] /\ Pollers = {p}
      /\ UNCHANGED <<rows, posts, cur, todo, web, form, mishaps>>
      /\ rows[cur[p]] \in Row
      /\ \/ pc[p] = "recovered" /\ pc' = [pc EXCEPT ![p] = "reread"]
         \/ pc[p] = "claimed" /\ pc' = [pc EXCEPT ![p] = "loaded"]
         \/ pc[p] = "raised" /\ pc' = [pc EXCEPT ![p] = "rescued"]
         \/ pc[p] = "unsure" /\ pc' = [pc EXCEPT ![p] = "overruling"]
  BY DEF ReadTask, webVars, OnePoller, SoloInv, TypeInv, TypeOK, WorkerOK
<1>2. /\ copy'[p] = Stamped(rows[cur[p]])
      /\ \/ pc[p] = "recovered" /\ pc'[p] = "reread"
         \/ pc[p] = "claimed" /\ pc'[p] = "loaded"
         \/ pc[p] = "raised" /\ pc'[p] = "rescued"
         \/ pc[p] = "unsure" /\ pc'[p] = "overruling"
  BY <1>1 DEF SoloInv, TypeInv, TypeOK
<1>3. /\ copy'[p].status = rows[cur[p]].status /\ copy'[p].due = rows[cur[p]].due
      /\ copy'[p].attempts = rows[cur[p]].attempts
  BY <1>1, <1>2, RowColumns
<1>4. WebOK'
  BY <1>1 DEF SoloInv, WebOK
<1>5. HandOK'
  BY <1>1, <1>2, <1>3 DEF SoloInv, WebOK, HandOK, Publishing, Recovering, Overruling
<1>6. RoomOK' /\ AttemptsWithinBudget'
  BY <1>1, <1>2 DEF SoloInv, RoomOK, AttemptsWithinBudget, Recovering
<1>7. PostsWithinAttempts'
  BY <1>1, <1>2 DEF SoloInv, PostsWithinAttempts, Holds
<1> QED BY <1>4, <1>5, <1>6, <1>7 DEF SoloInv

\* A stuck row is handed back; the poller will look at its attempts next.
LEMMA RecoverClaimKeeps ==
    ASSUME OnePoller, SoloInv, TypeInv', NEW p \in Pollers, RecoverClaim(p)
    PROVE  SoloInv'
<1>1. PICK t \in stale[p] :
          IF CasSucceeds(rows[t], "publishing")
          THEN /\ rows' = [rows EXCEPT ![t] = HandedBack(rows[t])]
               /\ cur' = [cur EXCEPT ![p] = t]
               /\ pc' = [pc EXCEPT ![p] = "recovered"]
          ELSE UNCHANGED <<rows, cur, pc>>
  BY DEF RecoverClaim
<1>2. /\ t \in Tasks /\ Pollers = {p} /\ pc[p] = "recovering" /\ rows[t] \in Row
      /\ UNCHANGED <<posts, todo, copy, web, form, mishaps>>
  BY DEF RecoverClaim, webVars, OnePoller, SoloInv, TypeInv, TypeOK
<1>3. CASE ~CasSucceeds(rows[t], "publishing")
  <2>1. rows' = rows /\ cur' = cur /\ pc' = pc
    BY <1>1, <1>3
  <2>2. WebOK' /\ HandOK'
    BY <1>2, <2>1 DEF SoloInv, WebOK, HandOK, Publishing, Recovering, Overruling
  <2>3. RoomOK' /\ AttemptsWithinBudget' /\ PostsWithinAttempts'
    BY <1>2, <2>1 DEF SoloInv, RoomOK, AttemptsWithinBudget, Recovering, PostsWithinAttempts, Holds
  <2> QED BY <2>2, <2>3 DEF SoloInv
<1>4. CASE CasSucceeds(rows[t], "publishing")
  <2>1. /\ rows'[t] = HandedBack(rows[t]) /\ \A u \in Tasks \ {t} : rows'[u] = rows[u]
        /\ cur'[p] = t /\ pc'[p] = "recovered"
    BY <1>1, <1>2, <1>4 DEF SoloInv, TypeInv, TypeOK
  <2>2. /\ rows'[t].status = "scheduled" /\ rows'[t].due = rows[t].due
        /\ rows'[t].attempts = rows[t].attempts
    BY <1>2, <2>1, RowColumns
  <2>3. WebOK'
    BY <1>2, <2>1, <2>2, TaskAssumption DEF SoloInv, WebOK
  <2>4. HandOK'
    BY <1>2, <2>1, <2>2 DEF HandOK, Publishing, Recovering, Overruling
  <2>5. AttemptsWithinBudget'
    BY <1>2, <2>1, <2>2 DEF SoloInv, AttemptsWithinBudget
  <2>6. RoomOK'
    BY <1>2, <2>1, <2>2 DEF SoloInv, RoomOK, Recovering
  <2>7. PostsWithinAttempts'
    <3>1. \A u \in Tasks : ~Unused(u)'
      BY <1>2, <2>1 DEF Unused
    <3>2. \A u \in Tasks : ~Unused(u)
      BY <1>2 DEF Unused
    <3>3. \A u \in Tasks \ WebTasks : posts'[u] + 0 <= rows'[u].attempts
      BY <1>2, <2>1, <2>2, <3>2, UnusedPosts DEF SoloInv
    <3> QED BY <3>1, <3>3 DEF PostsWithinAttempts, Unused, Holds
  <2> QED BY <2>3, <2>4, <2>5, <2>6, <2>7 DEF SoloInv
<1> QED BY <1>3, <1>4

\* A due row is claimed: it had an attempt left, and now one it has not used.
LEMMA ClaimKeeps ==
    ASSUME OnePoller, SoloInv, TypeInv', NEW p \in Pollers, Claim(p)
    PROVE  SoloInv'
<1>1. PICK e \in todo[p] :
          /\ todo' = [todo EXCEPT ![p] = @ \ {e}]
          /\ IF CasSucceeds(rows[e.task], "scheduled")
             THEN /\ rows' = [rows EXCEPT ![e.task] = Claimed(rows[e.task])]
                  /\ cur' = [cur EXCEPT ![p] = e.task]
                  /\ pc' = [pc EXCEPT ![p] = "claimed"]
             ELSE UNCHANGED <<rows, cur, pc>>
  BY DEF Claim
<1> DEFINE t == e.task
<1>2. /\ t \in Tasks \ WebTasks /\ Pollers = {p} /\ pc[p] = "running" /\ rows[t] \in Row
      /\ UNCHANGED <<posts, copy, web, form, mishaps>> /\ mishaps \in Nat
      /\ \A q \in Pollers : todo'[q] \subseteq todo[q]
  BY <1>1 DEF Claim, webVars, OnePoller, SoloInv, TypeInv, TypeOK, WebOK
<1>3. CASE ~CasSucceeds(rows[t], "scheduled")
  <2>1. rows' = rows /\ cur' = cur /\ pc' = pc
    BY <1>1, <1>3
  <2>2. WebOK' /\ HandOK'
    BY <1>2, <2>1 DEF SoloInv, WebOK, HandOK, Publishing, Recovering, Overruling
  <2>3. RoomOK' /\ AttemptsWithinBudget' /\ PostsWithinAttempts'
    BY <1>2, <2>1 DEF SoloInv, RoomOK, AttemptsWithinBudget, Recovering, PostsWithinAttempts, Holds
  <2> QED BY <2>2, <2>3 DEF SoloInv
<1>4. CASE CasSucceeds(rows[t], "scheduled")
  <2>1. /\ rows'[t] = Claimed(rows[t]) /\ \A u \in Tasks \ {t} : rows'[u] = rows[u]
        /\ cur'[p] = t /\ pc'[p] = "claimed"
    BY <1>1, <1>2, <1>4 DEF SoloInv, TypeInv, TypeOK
  <2>2. rows'[t].status = "publishing" /\ rows'[t].attempts = rows[t].attempts + 1
    BY <1>2, <2>1, RowColumns
  <2>3. rows[t].attempts < MaxAttempts + mishaps /\ rows[t].attempts \in Nat
    BY <1>2, <1>4 DEF CasSucceeds, SoloInv, RoomOK, Recovering, Row
  <2> HIDE DEF t
  <2>4. WebOK'
    BY <1>2, <2>1, TaskAssumption DEF SoloInv, WebOK
  <2>5. HandOK'
    BY <1>2, <2>1, <2>2 DEF HandOK, Publishing, Recovering, Overruling
  <2>6. AttemptsWithinBudget'
    BY <1>2, <2>1, <2>2, <2>3, LimitAssumption DEF SoloInv, AttemptsWithinBudget
  <2>7. RoomOK'
    BY <1>2, <2>1, <2>2 DEF SoloInv, RoomOK, Recovering
  <2>8. PostsWithinAttempts'
    <3>1. \A u \in Tasks : Unused(u)' <=> u = t
      BY <1>2, <2>1 DEF Unused, Holds
    <3>2. \A u \in Tasks : ~Unused(u)
      BY <1>2 DEF Unused
    <3>3. \A u \in Tasks \ WebTasks : posts'[u] = posts[u] /\ posts[u] + 0 <= rows[u].attempts /\ posts[u] \in Nat
      BY <1>2, <3>2, UnusedPosts DEF SoloInv, TypeInv, TypeOK
    <3>4. posts'[t] + 1 <= rows'[t].attempts
      BY <1>2, <2>2, <2>3, <3>3
    <3>5. \A u \in Tasks \ WebTasks : u # t => posts'[u] + 0 <= rows'[u].attempts
      BY <2>1, <3>3
    <3> QED BY <3>1, <3>4, <3>5 DEF PostsWithinAttempts, Unused
  <2> QED BY <2>4, <2>5, <2>6, <2>7, <2>8 DEF SoloInv
<1> QED BY <1>3, <1>4

\* The call uses the attempt up, whatever its outcome.
LEMMA CallKeeps ==
    ASSUME OnePoller, SoloInv, TypeInv', NEW p \in Pollers, CallPublisher(p)
    PROVE  SoloInv'
<1>1. PICK o \in PossibleOutcomes :
          /\ copy' = [copy EXCEPT ![p] = Published(copy[p], o)]
          /\ posts' = [posts EXCEPT ![cur[p]] = @ + Accepted(o)]
  BY DEF CallPublisher
<1>2. /\ cur[p] \in Tasks \ WebTasks /\ Pollers = {p} /\ copy[p] \in Row /\ pc[p] = "loaded"
      /\ pc' = [pc EXCEPT ![p] = "answered"]
      /\ UNCHANGED <<rows, cur, todo, web, form, mishaps>>
  BY DEF CallPublisher, webVars, OnePoller, SoloInv, TypeInv, WorkerOK, HandOK, Publishing
<1>3. /\ copy'[p] = Published(copy[p], o) /\ pc'[p] = "answered"
      /\ posts'[cur[p]] = posts[cur[p]] + Accepted(o) /\ posts[cur[p]] \in Nat
      /\ \A u \in Tasks \ {cur[p]} : posts'[u] = posts[u]
  BY <1>1, <1>2 DEF SoloInv, TypeInv, TypeOK
<1>4. /\ copy'[p].attempts = copy[p].attempts /\ copy'[p].due = copy[p].due
      /\ copy'[p].status \in {"published", "failed"} /\ Accepted(o) \in {0, 1}
  BY <1>2, <1>3, PublishedColumns
<1>5. WebOK'
  BY <1>2 DEF SoloInv, WebOK
<1>6. HandOK'
  BY <1>2, <1>3, <1>4 DEF SoloInv, HandOK, Publishing, Recovering, Overruling
<1>7. RoomOK' /\ AttemptsWithinBudget'
  BY <1>2, <1>3 DEF SoloInv, RoomOK, AttemptsWithinBudget, Recovering
<1>8. PostsWithinAttempts'
  <2>1. \A u \in Tasks : ~Unused(u)'
    BY <1>2, <1>3 DEF Unused
  <2>2. \A u \in Tasks : Unused(u) <=> u = cur[p]
    BY <1>2 DEF Unused, Holds
  <2>3. posts[cur[p]] + 1 <= rows[cur[p]].attempts
    BY <1>2, <2>2, UnusedPosts DEF SoloInv
  <2>4. posts'[cur[p]] + 0 <= rows'[cur[p]].attempts
    BY <1>2, <1>3, <1>4, <2>3 DEF SoloInv, TypeInv, TypeOK, Row
  <2>5. \A u \in Tasks \ WebTasks : u # cur[p] => posts'[u] + 0 <= rows'[u].attempts
    BY <1>2, <1>3, <2>2, UnusedPosts DEF SoloInv
  <2> QED BY <2>1, <2>4, <2>5 DEF PostsWithinAttempts, Unused, Holds
<1> QED BY <1>5, <1>6, <1>7, <1>8 DEF SoloInv

\* Steps between tasks, and those that only lose what the poller had in memory.
LEMMA QuietKeeps ==
    ASSUME OnePoller, SoloInv, TypeInv', NEW p \in Pollers,
           ListStale(p) \/ ListDue(p) \/ EndTick(p) \/ StoreRaises(p) \/ Crash(p)
    PROVE  SoloInv'
<1>1. /\ UNCHANGED <<rows, posts, web, form>> /\ Pollers = {p}
      /\ mishaps \in Nat /\ mishaps' \in Nat /\ mishaps' >= mishaps
      /\ pc[p] \in {"recovered", "reread"} => mishaps' = mishaps + 1 /\ ~Recovering(p)'
  BY DEF ListStale, ListDue, EndTick, StoreRaises, Crash, Release, webVars, OnePoller, Recovering,
         SoloInv, TypeInv, TypeOK
<1>2. WebOK'
  <2>1. \A e \in todo'[p] : e.task \notin WebTasks
    <3>1. CASE ListDue(p)
      <4>1. PICK batch \in SUBSET {t \in Tasks : IsDue(rows[t])} :
                todo' = [todo EXCEPT ![p] = {[task |-> t, at |-> rows[t].due] : t \in batch}]
        BY <3>1 DEF ListDue
      <4>2. \A t \in batch : t \notin WebTasks
        BY DEF IsDue, SoloInv, WebOK
      <4>3. todo'[p] = {[task |-> t, at |-> rows[t].due] : t \in batch}
        BY <4>1 DEF SoloInv, TypeInv, TypeOK
      <4> QED BY <4>2, <4>3
    <3>2. CASE ~ListDue(p)
      BY <3>2 DEF ListStale, EndTick, StoreRaises, Crash, Release, SoloInv, TypeInv, TypeOK, WebOK
    <3> QED BY <3>1, <3>2
  <2> QED BY <1>1, <2>1 DEF SoloInv, WebOK
<1>3. /\ cur'[p] = cur[p] \/ pc'[p] = "idle"
      /\ copy'[p] = copy[p] \/ pc'[p] = "idle"
      /\ \/ pc'[p] \in {"idle", "recovering", "running"}
         \/ pc'[p] = "raised" /\ pc[p] \in {"loaded", "answered"}
  BY DEF ListStale, ListDue, EndTick, StoreRaises, Crash, Release, SoloInv, TypeInv, TypeOK
<1>4. HandOK'
  BY <1>1, <1>3 DEF SoloInv, HandOK, Publishing, Recovering, Overruling
<1>5. AttemptsWithinBudget'
  BY <1>1, LimitAssumption DEF SoloInv, AttemptsWithinBudget, TypeInv, TypeOK, Row
<1>6. RoomOK'
  <2> SUFFICES ASSUME NEW t \in Tasks, rows[t].status = "scheduled",
                      ~(Recovering(p) /\ cur[p] = t)'
               PROVE  rows[t].attempts < MaxAttempts + mishaps'
    BY <1>1 DEF SoloInv, RoomOK
  <2>1. rows[t].attempts \in Nat /\ rows[t].attempts <= MaxAttempts + mishaps
    BY DEF SoloInv, AttemptsWithinBudget, TypeInv, TypeOK, Row
  <2>2. CASE Recovering(p)
    BY <1>1, <2>1, <2>2, LimitAssumption DEF Recovering
  <2>3. CASE ~Recovering(p)
    BY <1>1, <2>1, <2>3, LimitAssumption DEF SoloInv, RoomOK
  <2> QED BY <2>2, <2>3
<1>7. PostsWithinAttempts'
  <2>1. \A t \in Tasks : ~Unused(t)'
    BY <1>1, <1>3 DEF Unused
  <2>2. \A t \in Tasks \ WebTasks : posts[t] + 0 <= rows[t].attempts
    BY UnusedPosts DEF SoloInv, TypeInv, TypeOK, Row
  <2>3. \A t \in Tasks \ WebTasks : posts'[t] + 0 <= rows'[t].attempts
    BY <1>1, <2>2
  <2> QED BY <2>1, <2>3 DEF PostsWithinAttempts, Unused, Holds
<1> QED BY <1>2, <1>4, <1>5, <1>6, <1>7 DEF SoloInv

LEMMA PollerKeeps ==
    ASSUME OnePoller, SoloInv, TypeInv', NEW p \in Pollers,
           PollerStep(p) \/ StoreRaises(p) \/ CommitLost(p) \/ Crash(p)
    PROVE  SoloInv'
<1>1. rows \in [Tasks -> Row]
  BY DEF SoloInv, TypeInv, TypeOK
<1>2. CASE RecoverSave(p)
  <2> DEFINE row == Recovered(copy[p])
  <2>1. /\ pc[p] = "reread" /\ copy[p] \in Row /\ cur[p] \in Tasks
        /\ SaveAndRelease(p, row, "recovering")
        /\ copy[p].attempts = rows[cur[p]].attempts
        /\ cur[p] \in WebTasks => copy[p].due = None
        /\ cur[p] \notin WebTasks => copy[p].status = "scheduled"
        /\ mishaps \in Nat
    BY <1>2 DEF RecoverSave, SoloInv, HandOK, TypeInv, TypeOK, WorkerOK
  <2>2. /\ row \in Row /\ row.attempts = copy[p].attempts /\ row.due = copy[p].due
        /\ row.status = "failed" \/ (row.status = copy[p].status /\ row.attempts < MaxAttempts)
    BY <2>1, RowFunctions, SavedColumns
  <2> HIDE DEF row
  <2>3. row.status = "scheduled" => row.attempts < MaxAttempts + mishaps
    BY <2>1, <2>2, LimitAssumption DEF Row
  <2>4. cur[p] \notin WebTasks => row.status # "absent"
    BY <2>1, <2>2
  <2> QED BY <2>1, <2>2, <2>3, <2>4, SaveKeeps DEF Recovering
<1>3. CASE Finalize(p)
  <2> DEFINE row == Finalized(copy[p])
  <2>1. /\ pc[p] = "answered" /\ copy[p] \in Row /\ cur[p] \in Tasks \ WebTasks
        /\ SaveAndRelease(p, row, "running")
        /\ copy[p].attempts = rows[cur[p]].attempts
        /\ copy[p].status \in {"published", "failed"}
        /\ mishaps \in Nat
    BY <1>3 DEF Finalize, SoloInv, HandOK, Publishing, TypeInv, TypeOK, WorkerOK
  <2>2. /\ row \in Row /\ row.attempts = copy[p].attempts
        /\ (row.status = "scheduled" /\ row.attempts < MaxAttempts) \/ row.status = copy[p].status
    BY <2>1, RowFunctions, SavedColumns
  <2> HIDE DEF row
  <2>3. row.status = "scheduled" => row.attempts < MaxAttempts + mishaps
    BY <2>1, <2>2, LimitAssumption DEF Row
  <2>4. row.status # "absent"
    BY <2>1, <2>2
  <2> QED BY <2>1, <2>2, <2>3, <2>4, SaveKeeps DEF Publishing
<1>4. CASE FailUnpublished(p) \/ RescueSave(p)
  <2> DEFINE row == Failed(copy[p])
  <2>1. /\ pc[p] \in {"loaded", "rescued", "overruling"} /\ copy[p] \in Row /\ cur[p] \in Tasks \ WebTasks
        /\ SaveAndRelease(p, row, "running")
        /\ copy[p].attempts = rows[cur[p]].attempts
    BY <1>4 DEF FailUnpublished, RescueSave, SoloInv, HandOK, Publishing, Overruling, TypeInv, WorkerOK
  <2>2. row \in Row /\ row.attempts = copy[p].attempts /\ row.status = "failed"
    BY <2>1, RowFunctions, RowColumns
  <2> HIDE DEF row
  <2> QED BY <2>1, <2>2, SaveKeeps DEF Publishing, Overruling
<1>5. CASE RecoverRead(p) \/ LoadTask(p) \/ RescueRead(p)
  BY <1>5, ReadKeeps DEF RecoverRead, LoadTask, RescueRead
<1>6. CASE CommitLost(p)
  BY <1>6, CommitLostKeeps
<1> QED
  BY <1>2, <1>3, <1>4, <1>5, <1>6, RecoverClaimKeeps, ClaimKeeps, CallKeeps, QuietKeeps DEF PollerStep

LEMMA SoloStep == ASSUME OnePoller, SoloInv, TypeInv', [Next]_vars PROVE SoloInv'
<1>1. CASE UNCHANGED vars
  <2>1. UNCHANGED <<rows, posts, pc, todo, cur, copy, web, form, mishaps>>
    BY <1>1 DEF vars, workerVars, webVars
  <2>2. WebOK' /\ HandOK'
    BY <2>1 DEF SoloInv, WebOK, HandOK, Publishing, Recovering, Overruling
  <2>3. RoomOK' /\ AttemptsWithinBudget' /\ PostsWithinAttempts'
    BY <2>1 DEF SoloInv, RoomOK, AttemptsWithinBudget, Recovering, PostsWithinAttempts, Holds
  <2> QED BY <2>2, <2>3 DEF SoloInv
<1> QED BY <1>1, ScheduleKeeps, WebKeeps, PollerKeeps, TickKeeps DEF Next

(* The poller knows its task's attempts, and a task that waits has one     *)
(* left: the parts of the invariant need each other.                       *)
THEOREM SoloInvariant == ASSUME OnePoller PROVE Spec => []SoloInv
<1>1. Init => SoloInv
  BY SoloInit
<1>2. SoloInv /\ TypeInv' /\ [Next]_vars => SoloInv'
  BY SoloStep
<1> QED BY <1>1, <1>2, TypeInvariant, PTL DEF Spec

(* One poller makes no more posts than it counts attempts, whatever dies,  *)
(* raises, is lost or takes too long.                                      *)
THEOREM PostsAreCounted == ASSUME OnePoller PROVE Spec => []PostsWithinAttempts
<1>1. SoloInv => PostsWithinAttempts
  BY DEF SoloInv
<1> QED BY <1>1, SoloInvariant, PTL

(* Attempts pass SCHEDULER_MAX_ATTEMPTS by one for each mishap at most.     *)
THEOREM AttemptsAreBounded == ASSUME OnePoller PROVE Spec => []AttemptsWithinBudget
<1>1. SoloInv => AttemptsWithinBudget
  BY DEF SoloInv
<1> QED BY <1>1, SoloInvariant, PTL

-------------------------------------------------------------------------------
(* One poller follows the life cycle of PublishLifecycle: only a claim     *)
(* counts an attempt, a post uses up a claim, failed is final and          *)
(* published left only for failed when a commit was not heard of, through  *)
(* crashes, store errors and lost answers.                                 *)
THEOREM FollowsLifecycle == ASSUME OnePoller PROVE Spec => ImplementsLifecycle
<1>1. Init => Lifecycle!Init
  BY LifecycleInit
<1>2. SoloInv /\ [Next]_vars => [Lifecycle!Next]_(Lifecycle!vars)
  <2>1. SoloInv => LifeInv
    BY DEF SoloInv, LifeInv, RoomOK, FreshOK
  <2> QED BY <2>1, LifecycleStep
<1> QED BY <1>1, <1>2, SoloInvariant, PTL DEF Spec, ImplementsLifecycle, Lifecycle!Spec
===============================================================================
