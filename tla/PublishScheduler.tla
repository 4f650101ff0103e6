--------------------------- MODULE PublishScheduler ---------------------------
(***************************************************************************)
(* The publish scheduler (app/scheduler.py) over the task table of the     *)
(* store: any number of pollers claim, publish, finalise and recover the   *)
(* rows that web requests create, while requests that publish at once do   *)
(* the same from the web process.  One action is one database operation    *)
(* together with the computation that leads to it, or one Graph API call.  *)
(*                                                                         *)
(* Time is relative: a row carries the time left until scheduled_at and    *)
(* the time since updated_at, and Tick moves both.                         *)
(***************************************************************************)
EXTENDS Integers, FiniteSets

CONSTANTS
    Tasks,        \* ids of the rows that may be created
    WebTasks,     \* those created by "publish now" and direct-photo requests
    Pollers,      \* SchedulerService instances sharing the database
    DueChoices,   \* times until scheduled_at a request may ask for
    BatchSize,    \* SCHEDULER_BATCH_SIZE
    MaxAttempts,  \* SCHEDULER_MAX_ATTEMPTS
    MaxLate,      \* SCHEDULER_MAX_LATE_SECONDS
    StaleAfter,   \* SCHEDULER_STALE_PUBLISHING_SECONDS
    RetryBase,    \* SCHEDULER_RETRY_BASE_SECONDS
    RetryCap,     \* the 3600 s ceiling of the back-off
    Faults,       \* which of AllFaults the environment may show
    MaxMishaps,   \* bound on crashes and store errors
    None          \* NULL

\* store: a store call raises and has written nothing; commit_lost: a save is committed and
\* raises all the same, as when the connection goes before the answer to COMMIT.
AllFaults == {"crash", "web_crash", "store", "commit_lost", "lost_reply", "slow"}

\* delay = min(base * 2 ** max(0, attempts - 1), 3600)
Backoff(attempts) ==
    LET delay == RetryBase * 2 ^ (IF attempts > 0 THEN attempts - 1 ELSE 0)
    IN  IF delay <= RetryCap THEN delay ELSE RetryCap

ASSUME TaskAssumption == WebTasks \subseteq Tasks
ASSUME TimeAssumption == /\ DueChoices \subseteq Int
                         /\ MaxLate \in Nat
                         /\ StaleAfter \in Nat
ASSUME LimitAssumption == /\ BatchSize \in Nat \ {0}
                          /\ MaxAttempts \in Nat \ {0}
                          /\ MaxMishaps \in Nat
ASSUME BackoffAssumption == \A n \in 0..MaxAttempts : Backoff(n) \in Nat
ASSUME FaultAssumption == Faults \subseteq AllFaults

VARIABLES
    rows,     \* the task table
    posts,    \* posts Graph accepted for each task (not visible to the code)
    pc,       \* where each poller is in its tick
    stale,    \* what is left of its list_recoverable_tasks result
    todo,     \* what is left of its list_due_tasks result
    cur,      \* the task it is working on
    copy,     \* its in-memory PublishTask
    web,      \* the request that publishes a web task at once
    form,     \* that request's in-memory PublishTask
    mishaps   \* crashes and store errors so far

workerVars == <<pc, stale, todo, cur, copy>>
webVars == <<web, form>>
vars == <<rows, posts, workerVars, webVars, mishaps>>

-------------------------------------------------------------------------------
(* Rows and what the code computes from them *)

Status == {"absent", "scheduled", "publishing", "published", "failed"}
\* The data.mode of the newest log entry that has one.
Mode == {"none", "live", "simulated", "api_error", "network_exception"}

\* drafted: the row of content_draft_id is there.
Row == [status: Status, due: Int \cup {None}, age: Nat, attempts: Nat, mode: Mode,
        drafted: BOOLEAN]

NewRow(status, due) ==
    [status |-> status, due |-> due, age |-> 0, attempts |-> 0, mode |-> "none",
     drafted |-> TRUE]

\* save_task and claim_task stamp updated_at.
Stamped(row) == [row EXCEPT !.age = 0]

Failed(row) == [Stamped(row) EXCEPT !.status = "failed"]

\* claim_task: UPDATE ... WHERE id = ? AND status = expected
CasUnguarded(row, expected) == TRUE   \* mutant: the status is not compared
CasSucceeds(row, expected) == row.status = expected

\* What claim_task writes in its two uses: take a due task, hand a stuck one back.
ClaimedUncounted(row) == [row EXCEPT !.status = "publishing", !.age = 0]   \* mutant
Claimed(row) == [row EXCEPT !.status = "publishing", !.attempts = @ + 1, !.age = 0]
HandedBackUntimed(row) == [row EXCEPT !.status = "scheduled", !.due = None]   \* mutant
HandedBack(row) == [row EXCEPT !.status = "scheduled", !.age = 0]

\* list_due_tasks: status, scheduled_at IS NOT NULL, scheduled_at <= now
IsDue(row) == row.status = "scheduled" /\ row.due # None /\ row.due <= 0

\* mutant of IsStale: a task in progress is taken for stuck
IsStaleAtOnce(row) == row.status = "publishing"

\* list_recoverable_tasks: updated_at < now - stale_after
IsStale(row) == row.status = "publishing" /\ row.age > StaleAfter

MissedWindow(row) == row.due # None /\ row.due < -MaxLate

IsTransient(row) == row.mode = "network_exception"

\* mutant of WillRetry: the attempts are not counted
WillAlwaysRetry(row) == row.status = "failed" /\ IsTransient(row)

WillRetry(row) ==
    row.status = "failed" /\ IsTransient(row) /\ row.attempts < MaxAttempts

\* mutant of Finalized: a status of its own for retries
FinalizedRetrying(row) ==
    IF WillRetry(row) THEN [Stamped(row) EXCEPT !.status = "retrying"] ELSE Stamped(row)

\* _finalize
Finalized(row) ==
    IF WillRetry(row)
    THEN [Stamped(row) EXCEPT !.status = "scheduled", !.due = Backoff(row.attempts)]
    ELSE Stamped(row)

\* recover_stuck_tasks, after the row was read again
Recovered(row) == IF row.attempts >= MaxAttempts THEN Failed(row) ELSE Stamped(row)

\* Times saturate where no comparison can tell them apart any more.
Later(due) == IF due = None \/ due < -MaxLate THEN due ELSE due - 1
Older(age) == IF age > StaleAfter THEN age ELSE age + 1

(* What a publish call may do: the task it returns and the posts it made. *)
Outcome == {"live", "simulated", "rejected", "unreachable", "raised",
            "reply_lost", "instagram_reply_lost"}
PossibleOutcomes ==
    {o \in Outcome : o \in {"reply_lost", "instagram_reply_lost"} => "lost_reply" \in Faults}

\* mutant: the client repeats a POST whose answer it lost, as it repeats a GET
AcceptedTwice(o) ==
    CASE o = "live" -> 1 [] o \in {"reply_lost", "instagram_reply_lost"} -> 2 [] OTHER -> 0

Accepted(o) == IF o \in {"live", "reply_lost", "instagram_reply_lost"} THEN 1 ELSE 0

\* mutant of Published: any answer counts as success
PublishedOnAnyAnswer(row, o) ==
    IF o \in {"live", "rejected"}
    THEN [row EXCEPT !.status = "published", !.mode = "live"]
    ELSE [row EXCEPT !.status = "failed"]

\* PublisherAgent.publish: never raises, sets the status and logs the mode.
Published(row, o) ==
    CASE o \in {"live", "simulated"} -> [row EXCEPT !.status = "published", !.mode = o]
      [] o \in {"rejected", "instagram_reply_lost"} ->
            [row EXCEPT !.status = "failed", !.mode = "api_error"]
      [] o \in {"unreachable", "reply_lost"} ->
            [row EXCEPT !.status = "failed", !.mode = "network_exception"]
      [] o = "raised" -> [row EXCEPT !.status = "failed"]

-------------------------------------------------------------------------------
Init ==
    /\ rows = [t \in Tasks |-> NewRow("absent", None)]
    /\ posts = [t \in Tasks |-> 0]
    /\ pc = [p \in Pollers |-> "idle"]
    /\ stale = [p \in Pollers |-> {}]
    /\ todo = [p \in Pollers |-> {}]
    /\ cur = [p \in Pollers |-> None]
    /\ copy = [p \in Pollers |-> None]
    /\ web = [t \in Tasks |-> "none"]
    /\ form = [t \in Tasks |-> None]
    /\ mishaps = 0

(* The web process *)

\* POST /publish/schedule without publish_now: scheduled_at may be missing.
Schedule(t) ==
    /\ t \notin WebTasks
    /\ rows[t].status = "absent"
    /\ \E due \in DueChoices \cup {None}, drafted \in BOOLEAN :
          rows' = [rows EXCEPT ![t] = [NewRow("scheduled", due) EXCEPT !.drafted = drafted]]
    /\ UNCHANGED <<posts, workerVars, webVars, mishaps>>

\* mutant of PublishNow: the row is saved as scheduled for now
PublishNowClaimable(t) ==
    /\ t \in WebTasks
    /\ web[t] = "none"
    /\ rows' = [rows EXCEPT ![t] = NewRow("scheduled", 0)]
    /\ form' = [form EXCEPT ![t] = NewRow("publishing", None)]
    /\ web' = [web EXCEPT ![t] = "calling"]
    /\ UNCHANGED <<posts, workerVars, mishaps>>

\* POST /publish/schedule with publish_now: the row is saved as publishing.
PublishNow(t) ==
    /\ t \in WebTasks
    /\ web[t] = "none"
    /\ rows' = [rows EXCEPT ![t] = NewRow("publishing", None)]
    /\ form' = [form EXCEPT ![t] = NewRow("publishing", None)]
    /\ web' = [web EXCEPT ![t] = "calling"]
    /\ UNCHANGED <<posts, workerVars, mishaps>>

WebCall(t) ==
    /\ web[t] = "calling"
    /\ \E o \in PossibleOutcomes :
          /\ form' = [form EXCEPT ![t] = Published(@, o)]
          /\ posts' = [posts EXCEPT ![t] = @ + Accepted(o)]
    /\ web' = [web EXCEPT ![t] = "answered"]
    /\ UNCHANGED <<rows, workerVars, mishaps>>

\* A request with a caption posts first; a row is written for a success only.
PublishDirect(t) ==
    /\ t \in WebTasks
    /\ web[t] = "none"
    /\ \E o \in PossibleOutcomes \ {"simulated", "instagram_reply_lost"} :
          /\ posts' = [posts EXCEPT ![t] = @ + Accepted(o)]
          /\ IF o = "live"
             THEN /\ form' = [form EXCEPT ![t] = NewRow("published", None)]
                  /\ web' = [web EXCEPT ![t] = "answered"]
             ELSE /\ web' = [web EXCEPT ![t] = "done"]
                  /\ UNCHANGED form
    /\ UNCHANGED <<rows, workerVars, mishaps>>

WebSave(t) ==
    /\ web[t] = "answered"
    /\ rows' = [rows EXCEPT ![t] = Stamped(form[t])]
    /\ web' = [web EXCEPT ![t] = "done"]
    /\ UNCHANGED <<posts, workerVars, form, mishaps>>

\* The web process dies, or the handler raises between two operations.
WebCrash(t) ==
    /\ "web_crash" \in Faults /\ mishaps < MaxMishaps
    /\ web[t] \in {"calling", "answered"}
    /\ web' = [web EXCEPT ![t] = "done"]
    /\ mishaps' = mishaps + 1
    /\ UNCHANGED <<rows, posts, workerVars, form>>

-------------------------------------------------------------------------------
(* One tick of a poller: recover_stuck_tasks, then the due tasks in turn *)

\* Poller p is done with its task and goes on with its tick at `next`.
Release(p, next) ==
    /\ pc' = [pc EXCEPT ![p] = next]
    /\ cur' = [cur EXCEPT ![p] = None]
    /\ copy' = [copy EXCEPT ![p] = None]

\* The row of p's task becomes `row`; p's task is done.
SaveAndRelease(p, row, next) ==
    /\ rows' = [rows EXCEPT ![cur[p]] = row]
    /\ Release(p, next)
    /\ UNCHANGED <<posts, stale, todo, webVars, mishaps>>

\* get_task_any_tenant
ReadTask(p, from, to) ==
    /\ pc[p] = from
    /\ copy' = [copy EXCEPT ![p] = Stamped(rows[cur[p]])]
    /\ pc' = [pc EXCEPT ![p] = to]
    /\ UNCHANGED <<rows, posts, stale, todo, cur, webVars, mishaps>>

ListStale(p) ==
    /\ pc[p] = "idle"
    /\ stale' = [stale EXCEPT ![p] = {t \in Tasks : IsStale(rows[t])}]
    /\ pc' = [pc EXCEPT ![p] = "recovering"]
    /\ UNCHANGED <<rows, posts, todo, cur, copy, webVars, mishaps>>

\* claim_task(publishing -> scheduled) on the next row of the stale list.
RecoverClaim(p) ==
    /\ pc[p] = "recovering"
    /\ \E t \in stale[p] :
          /\ stale' = [stale EXCEPT ![p] = @ \ {t}]
          /\ IF CasSucceeds(rows[t], "publishing")
             THEN /\ rows' = [rows EXCEPT ![t] = HandedBack(@)]
                  /\ cur' = [cur EXCEPT ![p] = t]
                  /\ pc' = [pc EXCEPT ![p] = "recovered"]
             ELSE UNCHANGED <<rows, cur, pc>>
    /\ UNCHANGED <<posts, todo, copy, webVars, mishaps>>

RecoverRead(p) == ReadTask(p, "recovered", "reread")

RecoverSave(p) ==
    /\ pc[p] = "reread"
    /\ SaveAndRelease(p, Recovered(copy[p]), "recovering")

\* list_due_tasks: the BatchSize earliest due rows.
ListDue(p) ==
    /\ pc[p] = "recovering"
    /\ stale[p] = {}
    /\ LET due == {t \in Tasks : IsDue(rows[t])}
       IN  \E batch \in SUBSET due :
              /\ \/ batch = due /\ Cardinality(due) <= BatchSize
                 \/ Cardinality(batch) = BatchSize /\ Cardinality(due) > BatchSize
              /\ \A t \in batch, u \in due \ batch : rows[t].due <= rows[u].due
              /\ todo' = [todo EXCEPT ![p] = {[task |-> t, at |-> rows[t].due] : t \in batch}]
    /\ pc' = [pc EXCEPT ![p] = "running"]
    /\ UNCHANGED <<rows, posts, stale, cur, copy, webVars, mishaps>>

\* claim_task(scheduled -> publishing) on the next listed task, in the listed order.
Claim(p) ==
    /\ pc[p] = "running"
    /\ \E e \in todo[p] :
          /\ \A f \in todo[p] : e.at <= f.at
          /\ todo' = [todo EXCEPT ![p] = @ \ {e}]
          /\ IF CasSucceeds(rows[e.task], "scheduled")
             THEN /\ rows' = [rows EXCEPT ![e.task] = Claimed(@)]
                  /\ cur' = [cur EXCEPT ![p] = e.task]
                  /\ pc' = [pc EXCEPT ![p] = "claimed"]
             ELSE UNCHANGED <<rows, cur, pc>>
    /\ UNCHANGED <<posts, stale, copy, webVars, mishaps>>

LoadTask(p) == ReadTask(p, "claimed", "loaded")

\* Late beyond max_late, or without a draft: fail without a call.
FailUnpublished(p) ==
    /\ pc[p] = "loaded"
    /\ MissedWindow(copy[p]) \/ ~copy[p].drafted
    /\ SaveAndRelease(p, Failed(copy[p]), "running")

\* publish_offloop
CallPublisher(p) ==
    /\ pc[p] = "loaded"
    /\ ~MissedWindow(copy[p]) /\ copy[p].drafted
    /\ \E o \in PossibleOutcomes :
          /\ copy' = [copy EXCEPT ![p] = Published(@, o)]
          /\ posts' = [posts EXCEPT ![cur[p]] = @ + Accepted(o)]
    /\ pc' = [pc EXCEPT ![p] = "answered"]
    /\ UNCHANGED <<rows, stale, todo, cur, webVars, mishaps>>

Finalize(p) ==
    /\ pc[p] = "answered"
    /\ SaveAndRelease(p, Finalized(copy[p]), "running")

\* An exception inside run_task's try: a read before the call, or _finalize's save.
StoreRaises(p) ==
    /\ "store" \in Faults /\ mishaps < MaxMishaps
    /\ pc[p] \in {"loaded", "answered"}
    /\ pc' = [pc EXCEPT ![p] = "raised"]
    /\ mishaps' = mishaps + 1
    /\ UNCHANGED <<rows, posts, stale, todo, cur, copy, webVars>>

\* The same, though the save of _finalize or _fail was committed.
CommitLost(p) ==
    /\ "commit_lost" \in Faults /\ mishaps < MaxMishaps
    /\ \/ /\ pc[p] = "loaded"
          /\ MissedWindow(copy[p]) \/ ~copy[p].drafted
          /\ rows' = [rows EXCEPT ![cur[p]] = Failed(copy[p])]
       \/ /\ pc[p] = "answered"
          /\ rows' = [rows EXCEPT ![cur[p]] = Finalized(copy[p])]
    /\ pc' = [pc EXCEPT ![p] = "unsure"]
    /\ mishaps' = mishaps + 1
    /\ UNCHANGED <<posts, stale, todo, cur, copy, webVars>>

\* The except branch: read the row again and write failed over it, whatever it says.
RescueRead(p) == ReadTask(p, "raised", "rescued") \/ ReadTask(p, "unsure", "overruling")

RescueSave(p) ==
    /\ pc[p] \in {"rescued", "overruling"}
    /\ SaveAndRelease(p, Failed(copy[p]), "running")

EndTick(p) ==
    /\ pc[p] = "running"
    /\ todo[p] = {}
    /\ pc' = [pc EXCEPT ![p] = "idle"]
    /\ UNCHANGED <<rows, posts, stale, todo, cur, copy, webVars, mishaps>>

\* The worker dies or is cancelled at shutdown, or an exception outside run_task's
\* try ends the tick: run_forever polls again, nothing in memory is left.
Crash(p) ==
    /\ "crash" \in Faults /\ mishaps < MaxMishaps
    /\ pc[p] # "idle"
    /\ Release(p, "idle")
    /\ stale' = [stale EXCEPT ![p] = {}]
    /\ todo' = [todo EXCEPT ![p] = {}]
    /\ mishaps' = mishaps + 1
    /\ UNCHANGED <<rows, posts, webVars>>

-------------------------------------------------------------------------------
\* Poller p has claimed task t for publishing and not yet written how it ended.
Holds(p, t) ==
    cur[p] = t /\ pc[p] \in {"claimed", "loaded", "answered", "raised", "rescued"}

\* A request is publishing t, with a row to show for it.
WebHolds(t) == web[t] \in {"calling", "answered"} /\ rows[t].status # "absent"

\* Unless calls may be slow, a claim ends before its row counts as stale.
Punctual ==
    \A t \in Tasks :
        (WebHolds(t) \/ \E p \in Pollers : Holds(p, t)) => rows[t].age < StaleAfter

Aged(row) ==
    CASE row.status = "scheduled" -> [row EXCEPT !.due = Later(@)]
      [] row.status = "publishing" -> [row EXCEPT !.due = Later(@), !.age = Older(@)]
      [] OTHER -> row

Tick ==
    /\ "slow" \in Faults \/ Punctual
    /\ rows' = [t \in Tasks |-> Aged(rows[t])]
    /\ copy' = [p \in Pollers |->
                   IF copy[p] = None THEN None ELSE [copy[p] EXCEPT !.due = Later(@)]]
    /\ UNCHANGED <<posts, pc, stale, todo, cur, webVars, mishaps>>

PollerStep(p) ==
    \/ ListStale(p) \/ RecoverClaim(p) \/ RecoverRead(p) \/ RecoverSave(p)
    \/ ListDue(p) \/ Claim(p) \/ LoadTask(p) \/ FailUnpublished(p)
    \/ CallPublisher(p) \/ Finalize(p) \/ RescueRead(p) \/ RescueSave(p)
    \/ EndTick(p)

WebStep(t) == WebCall(t) \/ WebSave(t)

Next ==
    \/ \E t \in Tasks : Schedule(t) \/ PublishNow(t) \/ PublishDirect(t) \/ WebStep(t) \/ WebCrash(t)
    \/ \E p \in Pollers : PollerStep(p) \/ StoreRaises(p) \/ CommitLost(p) \/ Crash(p)
    \/ Tick

Spec == Init /\ [][Next]_vars

\* run_forever keeps polling, a started request runs on, time passes.
Fairness ==
    /\ \A p \in Pollers : WF_vars(PollerStep(p))
    /\ \A t \in Tasks : WF_vars(WebStep(t))
    /\ WF_vars(Tick)

FairSpec == Spec /\ Fairness
-------------------------------------------------------------------------------
(* Properties *)

PollerState == {"idle", "recovering", "recovered", "reread", "running", "claimed",
                "loaded", "answered", "raised", "rescued", "unsure", "overruling"}
WebState == {"none", "calling", "answered", "done"}

\* The types of the table and of what the processes hold in memory.
TypeOK ==
    /\ rows \in [Tasks -> Row]
    /\ posts \in [Tasks -> Nat]
    /\ pc \in [Pollers -> PollerState]
    /\ stale \in [Pollers -> SUBSET Tasks]
    /\ todo \in [Pollers -> SUBSET [task: Tasks, at: Int]]
    /\ cur \in [Pollers -> Tasks \cup {None}]
    /\ copy \in [Pollers -> Row \cup {None}]
    /\ web \in [Tasks -> WebState]
    /\ form \in [Tasks -> Row \cup {None}]
    /\ mishaps \in Nat

Settled(t) == rows[t].status \in {"published", "failed"}

\* No post is ever made twice: the scheduler's claim is a compare-and-swap, so any
\* number of workers can poll without publishing a post a second time.
AtMostOnePost == \A t \in Tasks : posts[t] <= 1

\* At any time at most one process is between claiming a task and writing down how
\* publishing it ended, and the row says publishing for as long.
SinglePublisher ==
    \A t \in Tasks :
        /\ \A p, q \in Pollers : Holds(p, t) /\ Holds(q, t) => p = q
        /\ \A p \in Pollers : Holds(p, t) => rows[t].status = "publishing" /\ ~WebHolds(t)

\* Two workers never publish one task at the same time, whatever happened to a third one
\* before: the claim is a compare-and-swap. (A recovery ends with a plain save, though.)
NeverTogether == \A t \in Tasks : \A p, q \in Pollers : Holds(p, t) /\ Holds(q, t) => p = q

\* A settled row tells the truth about Facebook: published means that exactly one post is
\* there, unless the client only simulated it, and failed that none is.  A store that raises
\* after the call makes a lie of failed, for one task each time.
Truthful ==
    /\ \A t \in Tasks : rows[t].status = "published" =>
          posts[t] = (IF rows[t].mode = "simulated" THEN 0 ELSE 1)
    /\ Cardinality({t \in Tasks : rows[t].status = "failed" /\ posts[t] > 0}) <= mishaps

\* The life cycle has no arrow out of published and failed: once settled, a row is
\* never written again by a recovery, a late finalisation, the exception handler of
\* run_task or another poller.
FinalIsFinal == [][\A t \in Tasks : Settled(t) => rows'[t] = rows[t]]_vars

\* Each counted attempt buys at most one post, also when workers die between the
\* call and the save: a claim not yet used for a call is still to be accounted for.
PostsWithinAttempts ==
    \A t \in Tasks \ WebTasks :
        LET unused == IF \E p \in Pollers : Holds(p, t) /\ pc[p] \in {"claimed", "loaded"}
                      THEN 1 ELSE 0
        IN  posts[t] + unused <= rows[t].attempts

\* Attempts pass SCHEDULER_MAX_ATTEMPTS by no more than there were mishaps: a recovery that
\* dies between taking an exhausted row back and giving it up leaves it to be claimed again.
AttemptsWithinBudget == \A t \in Tasks : rows[t].attempts <= MaxAttempts + mishaps

\* A post that was given a time is settled in the end, through crashes, store errors,
\* network failures and restarts: nothing stays in scheduled or publishing for ever.
ScheduledSettle ==
    \A t \in Tasks \ WebTasks :
        (rows[t].status \in {"scheduled", "publishing"} /\ rows[t].due # None) ~> Settled(t)

\* A post the user asked to publish at once is settled in the end as well.
PublishNowSettles == \A t \in WebTasks : rows[t].status = "publishing" ~> Settled(t)

\* Every task the scheduler runs follows the life cycle of PublishLifecycle, where a
\* claim buys at most one post, and published is left only when a commit was not heard of.
Lifecycle == INSTANCE PublishLifecycle WITH
    Tasks  <- Tasks \ WebTasks,
    CommitsLost <- "commit_lost" \in Faults,
    status <- [t \in Tasks \ WebTasks |-> rows[t].status],
    claims <- [t \in Tasks \ WebTasks |-> rows[t].attempts],
    posted <- [t \in Tasks \ WebTasks |-> posts[t]]
ImplementsLifecycle == Lifecycle!Spec

===============================================================================
