# OMNI-FLOW 2.0: TLA+ models and proofs

OMNI-FLOW is a multi-tenant FastAPI service that drafts social-media content
with a language model, publishes it to Facebook and Instagram on a schedule,
and is sold as prepaid plans through Stripe. This directory keeps formal models
of the parts of it where steps of several actors interleave, where something
fails half-way, or where an amount of money or of posts has to come out right.
TLC checks the models on small instances; TLAPS proves the theorems for every
value of the constants.

- [1. The system](#1-the-system): components, state, interactions, hard behaviour
- [2. The modules](#2-the-modules): what each one models and how it maps to the code
- [3. The runs](#3-the-runs): what TLC checks, with which bounds and fairness
- [4. The proofs](#4-the-proofs): theorems, invariants, assumptions
- [5. Where code and documentation disagree](#5-where-code-and-documentation-disagree)
- [6. Not modelled](#6-not-modelled)
- [7. Plan](#7-plan)

Source paths below are relative to `src/`.

## 1. The system

### Components

| Component | Code | State it keeps | Operations |
|---|---|---|---|
| Publish scheduler | `app/scheduler.py`, `app/worker.py` | the `publish_tasks` rows; in memory the lists of one tick and the task in hand | poll, recover stuck tasks, claim, publish, finalise, retry |
| Leader lock | `app/scheduler.py` (`RedisLeaderLock`) | one Redis key with a token and a TTL | acquire, extend, release |
| Publishing requests and agent | `app/main.py`, `agents/publisher.py`, `app/services.py` | task rows | schedule, publish now, publish a photo directly |
| Meta Graph client | `tools/meta_api.py` | a process-wide cache of page tokens | publish, read, resolve tokens, OAuth exchange, subscribe webhooks |
| Plans and payments | `app/plans.py`, `app/payments.py`, `app/routers/billing.py`, `app/routers/webhook.py`, `scripts/set_plan.py` | `subscriptions`, `billing_payments`, `upgrade_requests` | trial, checkout, fulfil, extend or convert a period, operator activation and expiry |
| Plan limits | `app/dependencies/limits.py` | `usage_tracking`; per request a gate with the subscription and the channel list it read | admit, take a run, keep or refund it, require a channel slot |
| Accounts and verification codes | `app/verification.py`, `app/main.py` (register, login, reset), `app/mailer.py`, `db/passwords.py` | `verification_codes`, `users`, `tenants` | issue and consume a code, register, reset a password |
| Channel connections | `app/main.py` (integrations), `app/routers/meta_oauth.py` | `connected_accounts`, process-wide credentials of the default workspace | connect, refresh, disconnect, OAuth callback |
| Page comments | `app/routers/comments.py` | `page_comments` | receive events, sync, reply |
| Workspace notifications | `app/routers/notifications.py` | webhook rows in `connected_accounts` | save, test, delete |
| Chat and assistant | `app/main.py`, `agents/assistant.py` | `conversations`, `messages` | create, ask, answer, list |
| Language model client | `agents/llm_client.py`, `agents/copywriter.py` | authentication breaker per key | call with retries, fall back to templates |
| Planner and analytics | `agents/planner.py`, `agents/analytics.py` | none | calculations on one request's data |
| Stores | `db/base.py`, `db/sqlite_store.py`, `db/postgres_store.py` | all tables | one transaction per method; cross-tenant writes are refused |
| Tenancy and sessions | `app/tenancy.py`, `app/security.py` | none (signed tokens) | resolve the workspace of a request |
| Uploads and agency applications | `app/object_storage.py`, `app/routers/upload.py`, `app/routers/agency.py` | objects, application rows | store, apply |
| Health, HTTP, configuration | `app/routers/health.py`, `tools/http_client.py`, `app/config.py`, `app/redaction.py` | none | probe, pooled requests, masking |
| Deployment | `scripts/deploy_hk.sh`, `gunicorn.conf.py` | the running containers | rolling restart with rollback |
| Dashboard | `app/dashboard.py`, `app/static/index.html` | browser state | user interface |

### How they interact

Web processes and workers share nothing but the database (and, optionally, the
Redis lock). A request that publishes at once writes a row in the same table
the scheduler polls. Stripe calls the webhook at least once per payment; the
success page of the same browser fulfils the same Checkout Session
concurrently; `scripts/set_plan.py` writes the same rows from a shell. Every
request that uses the model passes the plan gate, which reads the subscription
that payments change and the usage row that other requests count on. Facebook
calls the comment webhook in any order.

### What is hard

- *Interleaving.* Several pollers, requests and recoveries act on one task row;
  the only protection is the compare-and-swap in `claim_task`.
- *Crashes.* Claiming, calling Graph and recording the outcome are three steps.
  A worker can die between any two; the recovery cannot know whether the post
  was made.
- *Unreliable answers.* A Graph call may post and lose its answer; a commit may
  succeed and raise.
- *Repeated delivery.* Stripe repeats events for days; handlers of one payment
  overlap.
- *Arithmetic over long histories.* Days are converted between plans of
  different daily prices on every upgrade and downgrade.
- *Stale reads.* Due lists, plan gates, the channel table, a password hash and
  the operator's subscription row are read early and used late.
- *Failures in the middle.* A mail is refused after its code was stored, a
  registration is three transactions after the code is used up, a batch of
  comment events is one transaction per event and workspace, an answer is
  charged before it is stored.

### What makes each component correct

- *Scheduler*: a post is made at most once by workers that do not die, and at
  most once per counted attempt otherwise; attempts are bounded; settled rows
  say what really happened and are never written again, except after a save
  that was committed and raised; nothing stays unsettled for ever.
- *Payments*: a payment is applied exactly once, in the end, whatever is
  repeated or fails; a customer neither loses time paid for nor gets more than
  the trial for free, except for days renewed for the other billing cycle; a
  trial is given once.
- *AI quota*: the count of a cycle agrees with the runs taken in it, whatever
  overlaps, fails or rolls over, and stays within the plan's limit.
- *Channels*: a Pro workspace has at most three channels; a refresh of a
  connected one is always allowed; the first page of an OAuth grant becomes the
  default; saving a webhook leaves one row, the one saved last.
- *Codes and accounts*: a code is used once, within its life and its five
  attempts; an e-mail address has one user, and a user has a workspace.
- *Comments*: an acknowledged event is shown to every workspace that has the
  Page; no text is lost to an event without one; a reply goes out as the Page of
  its comment unless its caller names another.
- *Chat and model*: a run is charged for what the model wrote and nothing else;
  a refused key is left alone; a stored question has an answer or its request
  has failed; every request ends.
- *Leader lock*: at most one holder while Redis answers; without Redis the
  scheduler stays correct because claims are atomic.

`PROJECT.json` lists the hazards one by one with the line where each bites and
the properties that cover it, or the reason why none does yet.

## 2. The modules

| Module | Extends / instantiates | Contents |
|---|---|---|
| `PublishLifecycle` | | abstract life cycle of a post |
| `PublishScheduler` | instance of `PublishLifecycle` | scheduler, publishing requests, task table, Graph outcomes |
| `MCPublishScheduler` | `PublishScheduler` | due times for TLC |
| `PublishSchedulerProofs` | `PublishScheduler`, TLAPS | types of rows and copies; one poller under all faults; the refinement of `PublishLifecycle` by one poller |
| `PublishFleetProofs` | `PublishSchedulerProofs` | many pollers that do not die or stall, and the refinement by them |
| `Induction` | TLAPS | induction over an interval of numbers, and iterating a step; used by `BillingProofs` and `WorkspaceProofs` |
| `Billing`, `MCBilling`, `BillingProofs` | | subscription, payments, Stripe, operator script |
| `AIQuota`, `MCAIQuota`, `AIQuotaProofs` | | usage counter and the requests that take runs |
| `Assistant`, `MCAssistant`, `AssistantProofs` | instance of `AIQuota` | requests that ask the model, the circuit breaker of keys, the stored conversation |
| `Accounts`, `MCAccounts`, `AccountsProofs` | | verification codes, registration, password reset, sign-in |
| `Channels` | | connected accounts, the channel cap, the webhook row |
| `Inbox` | `Channels` | comment events and replies, on top of the connections |
| `MCInbox`, `WorkspaceProofs` | `Inbox` | the instance and the theorems of both |

`AIQuota` is the abstract specification of `Assistant`, as `PublishLifecycle` is
of `PublishScheduler`. `Inbox` composes with `Channels`: which workspaces see a
comment and as which Page they answer is read from the table that handlers of
`Channels` change meanwhile.

An action is one database transaction or one external call together with the
computation that leads to it. Operators with "mutant" in their comment are
deliberate bugs used to test the properties; no specification uses them.
Variables called a history are kept for the properties and read by no guard.

### PublishScheduler

`rows` is the task table, reduced to the columns decisions depend on: `status`,
the time left until `scheduled_at` (`due`), the time since `updated_at`
(`age`), `attempts`, the mode of the newest log entry that has one, and whether
the draft exists. `posts` counts what Facebook really accepted, which the code
cannot see. For each poller `pc`, `stale`, `todo`, `cur` and `copy` are its
position in `poll_once`, the two lists it has read, the task in hand and its
in-memory copy; `web` and `form` are the same for a request that publishes at
once.

| Actions | Code |
|---|---|
| `Schedule`, `PublishNow`, `WebCall`, `WebSave`, `PublishDirect`, `WebCrash` | `schedule_publish`, `_publish_direct_photo` in `app/main.py` |
| `ListStale`, `RecoverClaim`, `RecoverRead`, `RecoverSave` | `recover_stuck_tasks`: list, compare-and-swap, read, save |
| `ListDue`, `Claim`, `LoadTask`, `FailUnpublished`, `CallPublisher`, `Finalize` | `poll_once` and `run_task` |
| `StoreRaises`, `CommitLost` | a load, `_finalize` or `_fail` that raises: before it has written, or after its commit |
| `RescueRead`, `RescueSave` | the `except` branch of `run_task` |
| `Crash` | death of a worker, or an exception that ends the tick |
| `Tick` | a unit of time |

Graph's answers are the ones the client tells apart: a live post, a simulated
one, a refusal, a connection that was never made, an exception without a mode,
and a post that was made but whose answer was lost (which Instagram's
two-step publish reports as a refusal and Facebook's as a network failure).
Time is relative, and saturates where no comparison in the code can tell two
values apart. The constant `Faults` says which of six kinds of faults an
instance allows: a worker or a web process dies, a store call raises having
written nothing (`store`) or having committed (`commit_lost`), an answer of
Graph is lost, a call outlasts the time after which its row looks stuck.

`PublishLifecycle` is the diagram in the docstring of `app/scheduler.py:10-16`, plus
one promise: a claim buys at most one post. It has one arrow the diagram lacks,
`Disown` from `published` to `failed`: when the save in `_finalize` is committed
and raises, the `except` branch (`scheduler.py:203-207`) reads the row, which
says `published` by then, and writes `failed` over it. The arrow is there only
where commits can be lost (`CommitsLost`). `ImplementsLifecycle` maps `status`,
`claims`, `posted` and `CommitsLost` to `rows[t].status`, `rows[t].attempts`,
`posts[t]` and `"commit_lost" \in Faults`.

### Billing

One workspace: its `subscriptions` row `sub`, one status per
`billing_payments` id, whether an upgrade request is pending, what Stripe knows
of each session, which paid sessions still have an unanswered event, and the
web handlers with their position in `fulfill_checkout_session`. Fulfilment is
four database steps: look for the subscription, create it, `apply_payment`
(one transaction with a row lock: payment row, period, subscription), and close
the upgrade requests. `OperatorReads`, `OperatorSaves` and `OperatorCloses` are
the steps of `scripts/set_plan.py`, which takes no lock.

The check of the subscription is merged into the action that starts a handler:
what a session says is fixed once it is paid. Events of sessions that are not
paid change nothing and are not actions; a session that is never paid stays
open. `FirstVisit` stands for every request that calls
`get_or_create_subscription`. `house` makes the workspace the operator's
default one, which has a plan without end. `used` and `revalued` are a history:
what the time that has passed was worth, and what days became worth when a
renewal for the other billing cycle gave them a new daily price.

### AIQuota

The `usage_tracking` row (`usage`), the workspace's plan, and for each request
in flight the plan its gate read and the cycle it has a run in. `Admit` is the
dependency `verify_plan_limit("ai_generation")`; `TakeRun` and `RefuseRun` are
the conditional increment; `Keep` and `Refund` are the two ways out of
`with gate.ai_run()`. `RefundFails` and `RefundUnanswered` follow an exception
in `release_ai_run`, once in `keep_if_ai` and once more in the `except` branch
(`again`). A workspace without a row is represented by a row whose cycle has
ended, which every statement of the code treats alike. `charged`, `lost`,
`extra` and `vip` are a history of the current cycle, kept only to state the
properties.

### Assistant

One web process. Each request has a program counter, the kind of its work
(`chat`, `campaign`, `prompt`), the conversation it belongs to, and how many
pieces of its answer are done and were written by the model. `key` is the
provider key of the process, `agentKey` the one of the client the copywriter
holds, `refused` the set behind the circuit breaker; all requests share them.
`messages`, `title` and `clock` are the stored conversation, `usage` the row of
`AIQuota`. `answered`, `unanswered`, `stranded`, `extra`, `slips` and `failed` are
a history: the runs the model answered, those whose reply was not stored, those
that a fault left behind, the refunds that came twice, the faults of increments
and refunds, and the requests that failed.

| Actions | Code |
|---|---|
| `Ask`, `ReadHistory`, `StoreQuestion` | `persistent_assistant_chat`, `generate_content` and the prompt endpoints up to the run |
| `TakeRun`, `RefuseRun`, `Settle`, `GiveBack` | `PlanGate.ai_run`, `AIRun.keep_if_ai`, `AIRun.refund` |
| `Fails`, `FailsInRun` | a store call that raises having written nothing: outside the run the request ends, inside it the `except` branch of `ai_run` gives the run back |
| `TakeUnheard`, `RefundUnheard`, `StoreUnheard` | the same after the commit: a run nobody can give back, a refund that comes twice, a message of a failed request |
| `Prepare`, `AnswerLocally`, `SaveDrafts` | copywriter set-up, answers without a model, saved drafts |
| `BeginCall`, `Complete`, `Unusable`, `Retry`, `GiveUp`, `Unauthorized` | `LLMClient.chat` and its callers |
| `StoreReply` | `add_message` for the answer |
| `Crash`, `ChangeKey` | restart; `/settings/apis` |

`Quota` maps a request inside `with gate.ai_run()` to a running request of
`AIQuota`, restarts to its crashes, and answered requests to its charged runs.
The instance is a workspace without a limit whose cycle does not end; what a
limit and the end of a cycle do is the subject of `AIQuota` itself.

### Accounts

One e-mail address: its row of codes per purpose (`pending`), what reached the
mailbox (`inbox`), its `users` row, how many workspaces were created for it and
whether the trial is there. A handler is at one of thirteen steps, each one
store or SMTP call. Codes are numbered, so a guess is a code from the mailbox or
`Wrong`. `user.legacy` says that the hash has an old format, which sign-in
replaces.

| Actions | Code |
|---|---|
| `SendCode`, `Submit`, `Login` | what the endpoints look up first |
| `IssueCheck`, `StoreCode`, `MailSent`, `MailFails`, `DropCode` | `issue_code` |
| `CheckCode`, `ExpireCode`, `RecordMiss`, `TakeCode` | `consume_code` |
| `CreateTenant`, `CreateUser`, `StartTrial` | `/auth/register` |
| `SetPassword`, `Rehash` | `/auth/password/reset`, `authenticate_user` |
| `Crash`, `Tick` | a handler dies or raises; time |

### Channels and Inbox

`accounts[t]` is the list of a workspace's channel rows, newest first, because
the newest Page is the default one. A handler carries the limit of the plan it
loaded, the Pages it was granted and how many it has still to save. `Start`,
`ListPages`, `CheckSlot`, `Resolve`, `SavePage`, `SubscribePage` are the OAuth
callback, the pasted token and the API-key connection; `Disconnect` and
`ChangePlan` happen at any time. `StartHook`, `SaveHook`, `ListHooks`,
`DeleteHook`, `DropWebhooks` are the webhook endpoints. `StartAttach` and
`AttachHook` are `/integrations/connect` with the platform `webhook`, which is not
a channel (`plans.NOT_A_CHANNEL`): it asks for no slot, saves a webhook row of any
name and deletes no other. `attached` remembers such rows until
`/integrations/webhook` saves the same one.

In `Inbox` a comment goes through versions on Facebook (`Happens`), each
version is an event, and Meta delivers batches of events it has no answer for,
new or repeated (`Receive`). `Route` and `Store` are the loop of `_persist`,
`Acknowledge` is the answer, which may be lost, `Fails` a store call that
raises. An event may carry no message, an empty one or a text, which differ:
the upsert keeps what is stored only if there is none (`Missing`, `Blank`).
`StartReply`, `Credentials`, `Default` and `Send` are the reply, `StartReplyAs` the
reply whose caller passes a `page_token`, which skips the look-up.
`ConnectionsMove` is a step of `Channels`.

## 3. The runs

| Run | Instance | Checks | Shows |
|---|---|---|---|
| `Solo` | 1 poller, 2 scheduled posts, batch 1, 2 attempts, 2 faults of the kinds crash, store, lost commit, lost reply, slow | `TypeOK`, `PostsWithinAttempts`, `AttemptsWithinBudget`, `ScheduledSettle`, `ImplementsLifecycle` | under every fault a poller meets, posts never exceed counted attempts, attempts exceed the maximum only by mishaps in a recovery, every post that has a time settles, and rows follow the life cycle with `Disown` |
| `Fleet` | 2 pollers that do not die, 1 scheduled post and 1 request that publishes at once and may die, 2 faults: web crashes and store calls that raise | `SinglePublisher`, `AtMostOnePost`, `Truthful`, `FinalIsFinal` | no double post, rows tell the truth but for one failed row per store error, settled rows stay, also when the exception handler runs |
| `RecoveryRace` | 2 pollers, 1 crash | `NeverTogether` is violated | section 5 |
| `PublishNowCrash` | 1 poller, 1 request, the web process dies | `PublishNowSettles` is violated | section 5 |
| `Billing` | 2 sessions of the 4 offers of the price list (66, 666, 166, 1666 yuan for 30 or 365 days), trial of 7 days, 2 handlers, 4 steps of 10 days, 1 failure | `TypeOK`, `FairDeal`, `OnlyPaidPlans` | what a customer has and had is worth what was paid, up to the trial, a day's price per payment and the days renewed for the other cycle |
| `Redelivery` | 2 sessions of the monthly Pro plan, 2 handlers, 1 failure, the operator's script once | `AppliedOnce`, `OneTrial`, `PaidIsSettled` | repeated events apply once and in the end |
| `OperatorRace` | 1 session of the 4 offers, the operator's script once | `RenewingAddsAPeriod` is violated | section 5 |
| `Quota` | 3 requests in flight, 5 in all, limit 2, 5 instants over cycles of 1, 1 fault, plan changes at any time | `TypeOK`, `NeverOvercharged`, `NothingUncounted`, `QuotaKept` | the count agrees with the runs |
| `LateRefund` | the same without faults | `PromisedRuns` is violated | section 5 |
| `Accounts` | 2 handlers, 2 passwords, 2 codes with 2 guesses each, 3 ticks, 1 fault, an address that is new or has an old-format hash | `TypeOK`, `UsedOnce`, `GuessesBounded`, `UndeliveredIsDropped`, `RegistrationAddsUp`, `PasswordAsChosen`, `InboxCodeStaysGood` | a code works once, clearing up spares other requests' codes, accounts are complete |
| `Workspace` | 2 handlers, 2 workspaces, 2 Pages, 2 API accounts, 2 webhooks, limit 2, 3 starts, 1 fault; 2 threads, 1 comment with 3 versions of which 2 are delivered, 1 reply | `TypeOK`, `CapKept`, `FirstPageIsDefault`, `OneWebhook`, `AckedIsShown`, `RepliesAsItsPage`, `TextIsKept` | connections, webhook and comments hold up to the races named below |
| `Assistant` | 2 requests in flight, 2 in all, 1 conversation, 1 key, 2 platforms, 1 retry, 1 fault or restart and one more if it hit a run or its refund | `TypeOK`, `Charged`, `KeyRests`, `RepliesFollow`, `QuestionsAnswered`, `RequestsEnd`, `UsesQuota` | runs are charged for model answers up to what faults leave behind, a refused key rests, requests end, the quota is used as `AIQuota` says |

### Bounds

*Scheduler.* Two tasks with a batch of one make the batch too small for the due
list; two attempts are the least that has a retry, and one of the two due times
lies before the miss window so that a post can be too late when first seen.
`MaxLate`, `StaleAfter` and the back-off are one or two units, the least at
which before, at and after the limit are three cases. Two faults put one into
the handling of another (a crash in the recovery of a crash). `MaxMishaps` is
the only counter that bounds behaviour; time and ages saturate, so no behaviour
ends for want of time.

*Billing.* Two sessions are the least with a renewal, an upgrade and a
downgrade, or a renewal for the other cycle, two handlers the least that overlap
on one payment. `Billing` has the price list of `plans.py:25-42` and counts days;
`UnitPrice` is the least number of yuan no day of it is above. The code counts
microseconds, so a conversion rounds off that much less; `FairDeal` is stated in
whatever unit `Days` counts. `MaxTicks` bounds time in `Billing` only: steps of
`Hop` days let a trial run out, and a month in part or altogether.

*Quota.* A limit of two with three requests makes the last run contested. Five
instants with a cycle of length one see three cycles. `MaxRequests` bounds the
history counters. The requests are interchangeable and no property names one,
so `Quota` uses symmetry; it checks invariants only.

*Accounts.* Two handlers are the least for two sends, two submissions or a
sign-in next to a reset. Two codes are the least in which a later code takes the
place of an earlier one, three ticks let a code of life two run out while a
handler still holds it, two guesses reach the limit. `MaxCodes` and `MaxTime`
end behaviours.

*Workspace.* `MCInbox` adds up four scenarios instead of multiplying them:
handlers connect, handlers save and attach webhooks, comments come to two
connected workspaces while Pages are disconnected, comments are answered while
Pages are disconnected and one of them is connected again, so that a reply finds
its Page gone and another as the default. The plan of the first scenario changes
but does not end, which would only keep handlers from starting. Channel rows, webhook rows and
comments are different tables; the one link between them, the Pages that
comments and replies look up, moves in the last two scenarios too. In the first
two only one workspace acts, as every table is keyed by workspace. Two Pages and
a second platform against a limit of two make the last slot contested. Of the
three versions of a comment, written, edited and removed, two are delivered,
repeated and in any order; the edit may have no message, an empty one or a text,
the removal has none. Permuted constants appear in no definition by name, and
`TextIsKept`, the only property that is not an invariant, is a property of
steps, for which the permutations are sound.

*Assistant.* Two requests in flight are the least that share a run, a key and a
conversation. `MCNext` lets one thing go wrong, a store call or a restart, and a
second one when an increment or a refund is among them (a refund that raises in
the `except` branch follows another fault); it does not take a key away once it
is set. A campaign has two pieces so that one
can be a template and the other not.

### Fairness

`FairSpec` of `PublishScheduler` assumes weak fairness of each poller
(`run_forever` polls again after every tick and after every exception), of a
request that has been started, and of time. Nothing is assumed of crashes,
users or Graph's answers. `FairSpec` of `Billing` assumes weak fairness of a
handler that has started and strong fairness of the repetition of an
unanswered event: Stripe repeats it for days, and handlers are busy in between
rather than for ever. The specification bounds failures, as it must: a database
that is down for ever settles nothing. `Fairness` of `Assistant` assumes that a
request's thread goes on: calls of the provider have a timeout, the number of
attempts is bounded and the sleeps between them are capped. It says nothing of
which outcome a call has.

### Deadlock

Not checked in `Billing`, `Redelivery` and `OperatorRace`, where a workspace
whose payments are applied really has nothing left to do, nor in `Accounts`
and `Workspace`, where the bounds on codes, time and starts end behaviours. A
handler that has started can always go on in both, except for want of a code
number.

### Properties that hold only under a condition

- `AttemptsWithinBudget` allows one attempt beyond `SCHEDULER_MAX_ATTEMPTS` per
  mishap: the recovery hands a task back first and looks at its attempts
  afterwards, and a crash in between gives an exhausted task another try.
- `ImplementsLifecycle` has the arrow `Disown`, from `published` to `failed`,
  where commits can be lost, and `FinalIsFinal` is claimed where they cannot.
- `Truthful` allows one `failed` row with a post for each mishap: a store call
  that raises after the post makes the exception handler write `failed`.
- `FairDeal` speaks of histories without `set_plan.py`, and takes `revalued` into
  account: renewing a plan for the other cycle keeps the days and relabels all of
  them (`plans.py:159-163`), so that the rest of an annual period is later
  converted at the monthly price, or the other way round. No document promises
  otherwise.
- `QuotaKept` excepts cycles in which an unlimited plan took runs, which count
  but are not limited.
- `GuessesBounded` allows the guesses in flight beyond the limit, and those a
  fault kept from being counted: the limit is read before the guess is counted.
- `PasswordAsChosen` excepts a reset that overtook a sign-in which was replacing
  an old-format hash. The sign-in then writes the old password back
  (`overtaken`).
- `CapKept` excepts workspaces in `excused`: two handlers held slots at once, a
  pasted token resolved to another Page than the slot was for, or the workspace
  left the agency plan with more than a Pro plan may have.
- `OneWebhook` does not count rows that `/integrations/connect` added beside the
  webhook (`attached`; `main.py:980-1002` deletes nothing, the next save does),
  and excepts handlers that died before they deleted, and, for the
  webhook that must remain, saves that overlapped (`clashed`): each may delete
  the other's row, and none is left.
- `AckedIsShown` excepts comments whose older event was stored after a newer
  one (`late`). Rows carry no version, so the last event stored wins.
- `RepliesAsItsPage` excepts replies whose caller passed a `page_token`, replies
  to comments the workspace had not stored, and Pages that were disconnected
  meanwhile (`astray`), where the code falls back to the default Page.
- `TextIsKept` lets an event with an empty message take a text away: that is a
  message, and the upsert stores it.
- `Charged` has a term for each thing a fault leaves behind: the process died or
  a refund raised with the run still counted, an increment was committed and
  raised, a refund was committed, raised and came a second time.
- `KeyRests` bounds refusals by the calls under way when the breaker trips.

Each exception names something the code does.

## 4. The proofs

Every leaf is proved by SMT (Z3), Zenon or, for the temporal steps, LS4. The
theorems hold for every value of the constants that meets the named assumptions
of the modules, without the bounds and symmetries of the runs.

| Theorem | States, for all constants |
|---|---|
| `PublishSchedulerProofs!TypeCorrect` | `Spec => []TypeOK`, under all faults |
| `PublishFleetProofs!NeverPostsTwice` | `AtMostOnePost` for living workers whose answers arrive |
| `PublishFleetProofs!OnePublisherAtATime` | `NeverTogether` for living workers, and `SinglePublisher` while commits are heard of |
| `PublishFleetProofs!SettledRowsAreTrue` | `Truthful` for living workers whose answers arrive; for healthy ones no failed row hides a post |
| `PublishFleetProofs!SettledIsFinal` | `FinalIsFinal` for living workers while commits are heard of |
| `PublishFleetProofs!FleetPostsAreCounted` | `PostsWithinAttempts` for living workers while commits are heard of |
| `PublishFleetProofs!FleetKeepsBudget` | `AttemptsWithinBudget` for the same, and without its allowance for mishaps |
| `PublishFleetProofs!FleetFollowsLifecycle` | `Spec => ImplementsLifecycle` for the same, hence without `Disown` |
| `PublishSchedulerProofs!PostsAreCounted` | `PostsWithinAttempts` for one poller, under all faults |
| `PublishSchedulerProofs!AttemptsAreBounded` | `AttemptsWithinBudget` for one poller, under all faults |
| `PublishSchedulerProofs!FollowsLifecycle` | `Spec => ImplementsLifecycle` for one poller, under all faults |
| `BillingProofs!TypeCorrect` | `Spec => []TypeOK` |
| `BillingProofs!SessionsApplyOnce` | `AppliedOnce` |
| `BillingProofs!TrialsDoNotRestart` | `OneTrial` |
| `BillingProofs!PlansArePaidFor` | `OnlyPaidPlans` |
| `BillingProofs!DealsAreFair` | `FairDeal`, for every price list with any plans and cycles |
| `AIQuotaProofs!TypeCorrect` | `Spec => []TypeOK` |
| `AIQuotaProofs!NobodyIsOvercharged`, `EveryRunIsCounted`, `CountWithinLimit` | `NeverOvercharged`, `NothingUncounted`, `QuotaKept` |
| `AccountsProofs!TypeCorrect` | `Spec => []TypeOK` |
| `AccountsProofs!CodesWorkOnce`, `GoodCodesStay`, `UndeliveredCodesGo` | `UsedOnce`, `InboxCodeStaysGood`, `UndeliveredIsDropped` |
| `AccountsProofs!FewGuesses`, `LastChoiceWins` | `GuessesBounded`, `PasswordAsChosen` |
| `AccountsProofs!RegistrationsAddUp` | `RegistrationAddsUp` |
| `WorkspaceProofs!InboxTypes` | `Spec => []TypeOK`, of `Inbox` with `Channels` |
| `WorkspaceProofs!CapIsKept`, `FirstPageStaysDefault` | `CapKept`, `FirstPageIsDefault` |
| `WorkspaceProofs!OneWebhookKept` | `OneWebhook` |
| `WorkspaceProofs!AnsweredIsShown`, `TextStays` | `AckedIsShown`, `TextIsKept` |
| `WorkspaceProofs!RepliesGoAsItsPage` | `RepliesAsItsPage` |
| `AssistantProofs!TypeCorrect` | `Spec => []TypeOK` |
| `AssistantProofs!RunsAddUp`, `RefusedKeyRests` | `Charged`, `KeyRests` |
| `AssistantProofs!RepliesComeAfter`, `NoQuestionForgotten` | `RepliesFollow`, `QuestionsAnswered` |
| `AssistantProofs!QuotaIsUsed` | `Spec => UsesQuota` |

*Type correctness of the scheduler* needs `TypeInv`: `TypeOK` together with the
fact that a poller has a task, and a copy of it, in the states of its
tick that use them.

*The fleet theorems* are about any number of pollers and assume no more of the
workers than they need. `LivingWorkers`: none dies, and their calls end before
the row looks stuck; the store may raise while a task is in hand, before or after
its commit, answers may be lost, web processes may die. `AnswersArrive` adds that
no answer is lost: a post the client has not heard of is repeated. `CommitsHeard`
adds that a store that raises has written nothing: after a `_finalize` that was
committed and raised, the exception handler writes `failed` over a row that is
already published, or scheduled and perhaps claimed by another poller.
`HealthyWorkers` adds to both that the store works, as the exception handler of
`run_task` writes `failed` after a post whose outcome could not be saved. Without
`LivingWorkers` they are false (`RecoveryRace`).

`AtMostOnePost` is not inductive: it depends on which process is responsible for
a row. `FleetInv` says so. A scheduled post's row is `publishing` only while
some poller holds it, and was stamped recently enough not to look stuck
(`ScheduledRowOK`; this is where the assumption that calls end in time is used).
What a request publishes at once never becomes due (`WebRowOK`). A poller that
has the answer of a call knows the number of posts it made, as far as answers
tell, and recoveries only ever work on the rows of dead requests (`PollerOK`).
No two pollers hold one task (`Exclusive`). Each action is then shown to
preserve each part. `CountOK` adds the attempts: a row that waits has one left,
a row that was claimed has used one, and the copy a poller will write back has
the attempts of the row. It gives the budget, and, with `PostsWithinAttempts`,
the refinement, in which every claim is an arrow that counts.

*The theorems on one poller* assume `OnePoller`, without which the race of
`RecoveryRace` sets the count of attempts back, and no more: workers die, the
store raises, answers are lost, calls outlast the time after which a row looks
stuck. Their invariant `SoloInv` says what the poller knows. Nobody writes the
row in its hand, and its copy has the attempts of the row (`HandOK`); what a
request publishes at once has no time and no attempts and is never listed
(`WebOK`); a task that waits has an attempt left, unless a mishap took away the
recovery that would have given it up (`RoomOK`). `RoomOK` carries the budget,
`HandOK` the count of posts. The refinement follows from the same invariant:
each write of a row is one arrow of `PublishLifecycle` (`RowMoves`), the claim
is the one that counts (`ClaimMoves`), a post uses up an attempt that had bought
none (`CallMoves`), and everything else is not seen (`NotSeen`).

*The first billing theorems* hold without assumptions on prices beyond being
positive. `OneTrial` needs that a trial always has an end, that a handler in
`apply` has a session, and that the row the operator is about to save is not a
trial. `OnlyPaidPlans` needs that a handler works on a session Stripe reports as
paid and that an operator at work has been started (`PaidInv`).

*The theorem on fair deals* says that the time left on the plan and the time used
are together worth what the applied payments have cost, give or take what
`FairDeal` names. `DealSteps` finds the steps that touch these books: a first row,
time that passes, and a payment (`Buys`). Only the payment changes what was paid,
and by the price of its session. `Books` says that there are finitely many
payments and that a workspace on trial has made none, so that the trial is the
one thing a customer may have for free. `PurchaseIsFair` is the heart of it: a
payment for the same plan adds its days and prices the rest anew, which is
`Revaluation`; a payment for another plan converts the rest by integer division,
which adds nothing and loses less than what one unit of time is worth
(`UnitPrice`, for which the module assumes only that no daily price is above it).
`GivenStep` and `LostStep` carry the two halves from step to step. Nothing is
assumed of the price list, so that the list of `plans.py`, with its two cycles of
each plan, is covered.

*The quota theorems* share the invariant `TypeOK /\ RunsOK /\ CountOK`.
`CountOK` is the three properties together, which need each other only through
`RunsOK`: no request has a run in a cycle that has not begun, and a request
that has not taken a run has none. Without it a new cycle could start with
runs that nobody counted. The steps that touch the count are four: a run is
taken, kept, given back or lost, each with a lemma on the cardinality of
`Outstanding`.

*The account theorems* rest on `CodeInv`: a code that is pending has not been
used, one that has been used let one request through (`UsesOK`), and a handler that holds
the code of a row works on that row (`HoldersOK`).
`GuessesOK` adds, for a pending code, that wrong guesses are at most the
attempts counted on its row, the guesses still to be counted and those lost to
faults; a row that takes a guess has an attempt left, which bounds the sum. `RehashOK` says that a sign-in
about to replace a hash has the password that is stored, unless it was
overtaken. `RegistrationInv` counts: the workspaces created, and the requests about
to create one, are no more than the sign-up codes that were used, each of which
let one request through; a user without a trial has a request at work on it, or
a fault ended it.

*The workspace theorems* use an invariant each. `HookInv`: of two webhook rows
of a workspace some handler will still delete one, and while saves do not
overlap the row of the handler at work is nobody's to delete. `InboxInv`: the
events a thread has behind it in its batch are shown wherever the Page has been
connected all along, so they are shown when the batch is acknowledged.
`RepliesInv`: a reply under way knows the Page of its comment or is astray.
`SlotsInv` carries the cap and the default Page: a table has each account once
(`TablesOK`); the channels a handler still has to save, together with those that
are connected, fit the limit it loaded, while nobody else holds slots in the
workspace (`SlotsOK`); and the Pages of a list are saved from its end, so that
the first one is the newest. The proof needs to know what `Usable` grants of any
list of Pages and what `Without` leaves of any table.

*Recursion.* `Usable`, `Without` and the sums of `Billing` run over a list or a
set. The library's induction rules take an operator as a parameter, which the
installed provers cannot instantiate. `Induction` therefore states induction for
a set of numbers (`SetInduction`, by the least number outside it), and that every
step function can be iterated (`Iteration`); the recursive functions are
unfolded as the `CHOOSE` that defines them. `CapKept`, `FirstPageIsDefault`,
`TypeOK` of `Inbox` and `FairDeal` rest on these two lemmas.

*The assistant theorems* share `IInv == Shape /\ Count /\ Rests /\ Talk`.
`Shape` says that no two requests have one number; `Count` is `Charged` with the
fact that an unused row counts nothing; `Rests` bounds refusals of a key and
calls under way with it together by the number of requests, which `KeyRests`
alone cannot carry from step to step; `Talk` says where the question of a
request at work is. `QuotaIsUsed` then maps every step to one of `AIQuota`. Runs
are given back only by requests that hold one, which `Count` provides.

### Only model-checked

Every invariant and every action property of the passing runs is a theorem, under
the assumptions of the table: those of the scheduler for one poller or for
living ones. Liveness under
fairness is out of the prover's reach and stays with TLC: `ScheduledSettle`,
`PaidIsSettled`, `RequestsEnd`. So do the refutations of section 5, and the
combination of several pollers with the faults that `LivingWorkers` rules out:
there only `TypeOK` is proved, and `RecoveryRace` shows why.

## 5. Where code and documentation disagree

- `RecoveryRace`. `app/scheduler.py:19-20` promises that any number of workers
  can poll concurrently and never double-publish. A recovery hands a stuck task
  back, reads it, and saves what it read; the save compares nothing. A poller
  that claims the task in between has its claim overwritten, and the task can be
  claimed once more while it is being published. One worker has to die for this,
  but the two that publish together are both alive, and the count of attempts
  goes back as well. The promise is also more than a single poller can keep: if
  it dies after Graph accepted the post and before the row was saved, the
  recovery hands the task back and it is posted again. `PostsWithinAttempts` is
  what remains true of that case.
- `PublishNowCrash`. A row that is published at once has no `scheduled_at`. If
  the web process dies, the recovery makes it `scheduled`, and `list_due_tasks`
  never lists it: the post is neither made nor failed.
- `OperatorRace`. `scripts/set_plan.py` computes the new period from a row it
  read without a lock; a Stripe payment committed in between is overwritten.
- `LateRefund`. `app/dependencies/limits.py:5` allows 300 runs per cycle. A run
  taken at the end of a cycle and given back in the next is taken off the new
  count, so the new cycle has room for one run more than its limit.

The exceptions listed in section 3 are of the same kind, but no run of their
own exhibits them: the published row that the exception handler turns into
`failed` (the diagram in `scheduler.py:10-16` has no such arrow), the webhook row that
`/integrations/connect` adds and the webhook that two overlapping saves delete,
the channel cap that two overlapping connections pass, the late comment event
that wins, the old password that a sign-in writes back, the run that a failed
refund leaves counted, the extra attempt after a crash in a recovery.

## 6. Not modelled

- *The leader lock.* `RedisLeaderLock` sets, reads and extends a key in three
  calls and may have two holders. It is optional and nothing is said to rest on
  it; `PublishScheduler` allows any number of pollers at once. While it holds,
  it also rules out the race of section 5.
- *The page-token cache* of the Graph client. Tokens are data of the outcomes
  of a publish call.
- *The house workspace's credentials*, which live in the process environment.
- *Text and layout*: prompts, parsing of model output, intent matching,
  captions, masking of logs, the dashboard, HTML.
- *Cryptography and stateless checks*: signatures, password hashing, the
  resolution of a workspace from a request.
- *Calculations on one request's data*: planner, analytics.
- *Tables with single writes and no rule between them*: campaigns, drafts,
  metrics, agency applications, uploads.
- *Deployment*: the rolling restart with rollback of `scripts/deploy_hk.sh`.
- In the modelled parts: image handling and credential lookup of the publisher,
  `/publish/facebook` (keeps no row), the operator's notification and the
  details of upgrade requests, what the AI endpoints save besides the quota,
  the messages sent to a workspace's webhook, the list of conversations.

## 7. Plan

Done: `PublishScheduler` with `PublishLifecycle`, `Billing`, `AIQuota`,
`Accounts`, `Channels` and `Inbox`, `Assistant`, and the proofs of section 4.
Left, by what it would add:

1. Upgrade requests in `Billing`: the handler that dies between applying a
   payment and closing the requests, and the duplicate check that is a read
   followed by an insert.
2. The leader lock over Redis, composed with the scheduler: at most one holder
   while Redis answers, and `AtMostOnePost` without it.
3. The page-token cache with its single refresh.
4. Uploads, and the rolling restart with its rollback.

### Running the checks

    tlc -config Fleet.cfg MCPublishScheduler.tla
    tlc -config Workspace.cfg MCInbox.tla
    tlc -config Assistant.cfg MCAssistant.tla
    tlapm PublishFleetProofs.tla

Each passing run takes at most about three minutes with two workers, the proofs of
a module between a few seconds and a few minutes.
