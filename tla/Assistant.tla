------------------------------ MODULE Assistant -------------------------------
(***************************************************************************)
(* Requests that ask the language model for text, in one web process: the  *)
(* chat with a stored conversation, the chat without one, and the content  *)
(* endpoints.  A request that passed the plan gate stores its question,    *)
(* takes an AI run, lets the model write the pieces of its answer (one     *)
(* for a chat, one per platform for a campaign, one for a prompt with or   *)
(* without an image), saves them, keeps the run when the model wrote any   *)
(* of them, and stores its reply.                                          *)
(*                                                                         *)
(* The client of the provider is shared by all requests, and so are the    *)
(* keys it was refused with: the circuit breaker.  The quota itself is     *)
(* module AIQuota, which this module implements for a workspace without a  *)
(* limit.  Campaigns and the texts are left out.                           *)
(***************************************************************************)
EXTENDS Integers, FiniteSets

CONSTANTS
    Requests,
    Conversations,
    Keys,          \* API keys of the provider
    None,          \* no key, no conversation
    Platforms,     \* how many drafts a campaign asks for
    Retries,       \* LLM_MAX_RETRIES
    MaxStarts,     \* bound: requests in one behaviour
    MaxFaults,     \* bound: store calls that raise, with or without having committed
    MaxCrashes     \* bound: restarts of the process

ASSUME RequestsAssumption == IsFiniteSet(Requests)
ASSUME AssistantAssumption ==
    /\ None \notin Int \cup Keys \cup Conversations
    /\ Platforms \in Nat \ {0} /\ Retries \in Nat
    /\ MaxStarts \in Nat /\ MaxFaults \in Nat /\ MaxCrashes \in Nat

VARIABLES
    key,         \* OPENAI_API_KEY of the process
    agentKey,    \* the key of the client the copywriter holds
    refused,     \* _auth_failed_keys
    request,     \* what each request is doing
    usage,       \* the workspace's AI runs, as in AIQuota
    messages,    \* of each conversation
    title,       \* of each conversation: the question it was taken from
    clock,       \* created_at of the next message
    starts, faults, crashes,
    refusals,    \* history: how often the provider refused each key
    answered,    \* history: answers with text of the model,
    unanswered,  \* those whose reply could not be stored,
    stranded,    \* runs a fault left on the count,
    extra,       \* times the count went down for a run given back before,
    slips,       \* store faults that kept a request from its run or its refund,
    failed       \* and requests that ended without an answer

llm == <<key, agentKey, refused, refusals>>
chat == <<messages, title>>
bounds == <<starts, faults, crashes>>
tally == <<answered, unanswered, stranded, extra, slips, failed>>
vars == <<llm, request, usage, chat, clock, bounds, tally>>

-------------------------------------------------------------------------------
Kinds == {"chat", "campaign", "prompt"}
Message == [role : {"user", "assistant"}, of : Nat, at : Nat]

Idle == [pc |-> "idle", kind |-> "chat", conversation |-> None, id |-> 0, at |-> 0, key |-> None,
         attempt |-> 0, image |-> FALSE, piece |-> 0, written |-> 0, labelled |-> 0]

Set(r, field, value) == request' = [request EXCEPT ![r][field] = value]
Becomes(r, record) == request' = [request EXCEPT ![r] = record]

\* a request keeps its number, it is otherwise forgotten
Over(r) == [Idle EXCEPT !.id = request[r].id]

\* "refund" is the except branch of ai_run
InRun == {"prepare", "begin", "send", "save", "settle", "refund"}
Holding == {r \in Requests : request[r].pc \in InRun}
Replying == {r \in Requests : request[r].pc = "reply" /\ request[r].written > 0}
Busy == {r \in Requests : request[r].pc # "idle"}
Answer(r) == IF request[r].written > 0 THEN 1 ELSE 0

Pieces(kind) == IF kind = "campaign" THEN Platforms ELSE 1

\* increment_ai_runs without a limit, and release_ai_run
Counted == IF usage.ends < 0 THEN [runs |-> 1, ends |-> 1] ELSE [usage EXCEPT !.runs = @ + 1]
Released == IF usage.runs > 0 THEN [usage EXCEPT !.runs = @ - 1] ELSE usage

-------------------------------------------------------------------------------
(* The question *)

\* load_plan_gate and check_ai_quota passed
Ask(r, kind, image, c) ==
    /\ request[r].pc = "idle" /\ starts < MaxStarts
    /\ image => kind = "prompt"
    /\ Becomes(r, [Idle EXCEPT !.pc = IF c = None THEN "run" ELSE "read", !.kind = kind,
                               !.conversation = c, !.id = starts + 1, !.image = image])
    /\ starts' = starts + 1
    /\ UNCHANGED <<llm, usage, chat, clock, faults, crashes, tally>>

\* the history is listed, then the question is made: it has its created_at
ReadHistory(r) ==
    /\ request[r].pc = "read"
    /\ Becomes(r, [request[r] EXCEPT !.pc = "question", !.at = clock])
    /\ clock' = clock + 1
    /\ UNCHANGED <<llm, usage, chat, bounds, tally>>

\* mutant of Titled: the conversation keeps its empty title
TitledNever(c, r) == title

\* the first question names the conversation
Titled(c, r) == IF title[c] = 0 THEN [title EXCEPT ![c] = request[r].id] ELSE title

AddMessage(r, role) ==
    LET c == request[r].conversation
        message == [role |-> role, of |-> request[r].id, at |-> request[r].at]
    IN
    /\ messages' = [messages EXCEPT ![c] = @ \cup {message}]
    /\ title' = IF role = "user" THEN Titled(c, r) ELSE title

StoreQuestion(r) ==
    /\ request[r].pc = "question"
    /\ AddMessage(r, "user")
    /\ Set(r, "pc", "run")
    /\ UNCHANGED <<llm, usage, clock, bounds, tally>>

-------------------------------------------------------------------------------
(* The run *)

TakeRun(r) ==
    /\ request[r].pc = "run"
    /\ usage' = Counted
    /\ Set(r, "pc", IF request[r].kind = "chat" THEN "begin" ELSE "prepare")
    /\ UNCHANGED <<llm, chat, clock, bounds, tally>>

\* 403: another request took the last run.  The question is already stored.
RefuseRun(r) ==
    /\ request[r].pc = "run"
    /\ Becomes(r, Over(r))
    /\ failed' = failed \cup {request[r].id}
    /\ UNCHANGED <<llm, usage, chat, clock, bounds, answered, unanswered, stranded, extra, slips>>

\* the copywriter takes the current client, for the other requests too
Prepare(r) ==
    /\ request[r].pc = "prepare"
    /\ agentKey' = key
    /\ Set(r, "pc", "begin")
    /\ UNCHANGED <<key, refused, refusals, usage, chat, clock, bounds, tally>>

(* One piece is done: written says the model wrote it, labelled that its   *)
(* metadata (or that of the answer) has the status "ai_generated".         *)
PieceDone(r, written, labelled) ==
    LET n == request[r].piece + 1
        next == IF n < Pieces(request[r].kind) THEN "begin"
                ELSE IF request[r].kind = "chat" THEN "settle" ELSE "save"
    IN Becomes(r, [request[r] EXCEPT !.pc = next, !.piece = n, !.attempt = 0, !.key = None,
                                     !.written = @ + written, !.labelled = @ + labelled])

\* boost, reports, Facebook status and questions about the program need no model
AnswerLocally(r) ==
    /\ request[r].pc = "begin" /\ request[r].kind = "chat"
    /\ PieceDone(r, 0, 0)
    /\ UNCHANGED <<llm, usage, chat, clock, bounds, tally>>

-------------------------------------------------------------------------------
(* One call of the model: LLMClient.chat *)

ClientKey(r) == IF request[r].kind = "chat" THEN key ELSE agentKey

\* mutant of BeginCall: the circuit breaker is not asked
BeginCallAnyway(r) ==
    /\ request[r].pc = "begin"
    /\ IF ClientKey(r) = None THEN PieceDone(r, 0, 0)
       ELSE Becomes(r, [request[r] EXCEPT !.pc = "send", !.key = ClientKey(r), !.attempt = 1])
    /\ UNCHANGED <<llm, usage, chat, clock, bounds, tally>>

\* no key, or one the provider refused: a template
BeginCall(r) ==
    LET k == ClientKey(r) IN
    /\ request[r].pc = "begin"
    /\ IF k = None \/ k \in refused THEN PieceDone(r, 0, 0)
       ELSE Becomes(r, [request[r] EXCEPT !.pc = "send", !.key = k, !.attempt = 1])
    /\ UNCHANGED <<llm, usage, chat, clock, bounds, tally>>

Complete(r) ==
    /\ request[r].pc = "send"
    /\ PieceDone(r, 1, 1)
    /\ UNCHANGED <<llm, usage, chat, clock, bounds, tally>>

\* mutant of Unusable: the status stays what it was set to before the copy was looked at
UnusableLabelled(r) ==
    /\ request[r].pc = "send" /\ request[r].kind = "prompt"
    /\ PieceDone(r, 0, 1)
    /\ UNCHANGED <<llm, usage, chat, clock, bounds, tally>>

\* the reply is no JSON object or has no copy: "empty_copy"
Unusable(r) ==
    /\ request[r].pc = "send" /\ request[r].kind = "prompt"
    /\ PieceDone(r, 0, 0)
    /\ UNCHANGED <<llm, usage, chat, clock, bounds, tally>>

\* rate limit, timeout, no connection, 5xx; the thread sleeps first
Retry(r) ==
    /\ request[r].pc = "send" /\ request[r].attempt <= Retries
    /\ Set(r, "attempt", request[r].attempt + 1)
    /\ UNCHANGED <<llm, usage, chat, clock, bounds, tally>>

\* mutant of GiveUp: the prompt is asked again with its image
GiveUpAgain(r) ==
    /\ request[r].pc = "send"
    /\ IF request[r].image
       THEN Becomes(r, [request[r] EXCEPT !.pc = "begin", !.attempt = 0, !.key = None])
       ELSE PieceDone(r, 0, 0)
    /\ UNCHANGED <<llm, usage, chat, clock, bounds, tally>>

(* The last attempt failed too, or a 4xx or an empty completion ended them. *)
(* A prompt with an image is asked once more without it.                    *)
GiveUp(r) ==
    /\ request[r].pc = "send"
    /\ IF request[r].image
       THEN Becomes(r, [request[r] EXCEPT !.pc = "begin", !.image = FALSE, !.attempt = 0, !.key = None])
       ELSE PieceDone(r, 0, 0)
    /\ UNCHANGED <<llm, usage, chat, clock, bounds, tally>>

\* the provider refuses the key: its circuit breaker trips
Unauthorized(r) ==
    LET k == request[r].key IN
    /\ request[r].pc = "send"
    /\ refused' = refused \cup {k}
    /\ refusals' = [refusals EXCEPT ![k] = @ + 1]
    /\ PieceDone(r, 0, 0)
    /\ UNCHANGED <<key, agentKey, usage, chat, clock, bounds, tally>>

-------------------------------------------------------------------------------
(* The answer *)

SaveDrafts(r) ==
    /\ request[r].pc = "save"
    /\ Set(r, "pc", "settle")
    /\ UNCHANGED <<llm, usage, chat, clock, bounds, tally>>

\* mutant of Settle: the reply has the created_at of its question
SettleUnstamped(r) ==
    /\ request[r].pc = "settle"
    /\ usage' = IF request[r].labelled > 0 THEN usage ELSE Released
    /\ IF request[r].conversation = None
       THEN Becomes(r, Over(r)) /\ answered' = answered + Answer(r)
       ELSE Set(r, "pc", "reply") /\ UNCHANGED answered
    /\ UNCHANGED <<llm, chat, clock, bounds, unanswered, stranded, extra, slips, failed>>

\* keep_if_ai; an answer of a conversation becomes a message
Settle(r) ==
    /\ request[r].pc = "settle"
    /\ usage' = IF request[r].labelled > 0 THEN usage ELSE Released
    /\ IF request[r].conversation = None
       THEN /\ Becomes(r, Over(r))
            /\ answered' = answered + Answer(r)
            /\ UNCHANGED clock
       ELSE /\ Becomes(r, [request[r] EXCEPT !.pc = "reply", !.at = clock])
            /\ clock' = clock + 1
            /\ UNCHANGED answered
    /\ UNCHANGED <<llm, chat, bounds, unanswered, stranded, extra, slips, failed>>

\* mutant of StoreReply: what the model did not write is not stored
StoreReplyWritten(r) ==
    /\ request[r].pc = "reply"
    /\ IF request[r].written > 0 THEN AddMessage(r, "assistant") ELSE UNCHANGED chat
    /\ Becomes(r, Over(r))
    /\ answered' = answered + Answer(r)
    /\ UNCHANGED <<llm, usage, clock, bounds, unanswered, stranded, extra, slips, failed>>

StoreReply(r) ==
    /\ request[r].pc = "reply"
    /\ AddMessage(r, "assistant")
    /\ Becomes(r, Over(r))
    /\ answered' = answered + Answer(r)
    /\ UNCHANGED <<llm, usage, clock, bounds, unanswered, stranded, extra, slips, failed>>

-------------------------------------------------------------------------------
(* The store raises: with nothing written, or after its commit.             *)

Fault == faults < MaxFaults /\ faults' = faults + 1

Fail(r) ==
    /\ Becomes(r, Over(r))
    /\ failed' = failed \cup {request[r].id}

\* keep_if_ai gives the run back
Returns(r) == request[r].pc = "settle" /\ request[r].labelled = 0

(* Outside the work the request fails as it is: without a run, or, when its *)
(* reply or the refund in the except branch raised, with the run charged.   *)
Fails(r) ==
    LET pc == request[r].pc IN
    /\ pc \in {"read", "question", "run", "refund", "again", "reply"}
    /\ Fault /\ Fail(r)
    /\ stranded' = stranded + (IF pc = "refund" THEN 1 ELSE 0)
    /\ slips' = slips + (IF pc \in {"refund", "again"} THEN 1 ELSE 0)
    /\ unanswered' = unanswered + (IF pc = "reply" THEN Answer(r) ELSE 0)
    /\ UNCHANGED <<llm, usage, chat, clock, starts, crashes, answered, extra>>

\* within ai_run the except branch comes first, also after keep_if_ai's refund
FailsInRun(r) ==
    /\ \/ request[r].pc \in {"prepare", "save"}
       \/ request[r].pc = "begin" /\ request[r].kind = "chat"
       \/ Returns(r)
    /\ Fault
    /\ Set(r, "pc", "refund")
    /\ UNCHANGED <<llm, usage, chat, clock, starts, crashes, tally>>

\* mutant of GiveBack: the run is kept
GiveBackNothing(r) ==
    /\ request[r].pc \in {"refund", "again"}
    /\ Fail(r)
    /\ UNCHANGED <<llm, usage, chat, clock, bounds, answered, unanswered, stranded, extra, slips>>

\* the except branch: the run is given back, "again" for the second time
GiveBack(r) ==
    /\ request[r].pc \in {"refund", "again"}
    /\ usage' = Released
    /\ extra' = IF request[r].pc = "again" /\ Released # usage THEN extra + 1 ELSE extra
    /\ Fail(r)
    /\ UNCHANGED <<llm, chat, clock, bounds, answered, unanswered, stranded, slips>>

\* increment_ai_runs commits, but the request gets no AIRun to give back
TakeUnheard(r) ==
    /\ request[r].pc = "run"
    /\ Fault /\ Fail(r)
    /\ usage' = Counted
    /\ stranded' = stranded + 1 /\ slips' = slips + 1
    /\ UNCHANGED <<llm, chat, clock, starts, crashes, answered, unanswered, extra>>

\* the refund in keep_if_ai commits, but refunded stays False
RefundUnheard(r) ==
    /\ Returns(r)
    /\ Fault
    /\ usage' = Released
    /\ slips' = slips + 1
    /\ Set(r, "pc", "again")
    /\ UNCHANGED <<llm, chat, clock, starts, crashes, answered, unanswered, stranded, extra, failed>>

\* a question or reply is stored, and its request fails
StoreUnheard(r) ==
    LET pc == request[r].pc IN
    /\ pc \in {"question", "reply"}
    /\ AddMessage(r, IF pc = "question" THEN "user" ELSE "assistant")
    /\ Fault /\ Fail(r)
    /\ answered' = answered + (IF pc = "reply" THEN Answer(r) ELSE 0)
    /\ UNCHANGED <<llm, usage, clock, starts, crashes, unanswered, stranded, extra, slips>>

\* the process is restarted: requests and the circuit breaker are gone
Crash ==
    /\ crashes < MaxCrashes
    /\ crashes' = crashes + 1
    /\ request' = [r \in Requests |-> Over(r)]
    /\ agentKey' = key /\ refused' = {} /\ refusals' = [k \in Keys |-> 0]
    /\ stranded' = stranded + Cardinality(Holding)
    /\ unanswered' = unanswered + Cardinality(Replying)
    /\ failed' = failed \cup {request[r].id : r \in Busy}
    /\ UNCHANGED <<key, usage, chat, clock, starts, faults, answered, extra, slips>>

\* POST /settings/apis, or the environment
ChangeKey(k) ==
    /\ key' = k
    /\ UNCHANGED <<agentKey, refused, refusals, request, usage, chat, clock, bounds, tally>>

-------------------------------------------------------------------------------
Calling(r) ==
    \/ AnswerLocally(r) \/ BeginCall(r)
    \/ Complete(r) \/ Unusable(r) \/ Retry(r) \/ GiveUp(r) \/ Unauthorized(r)

Step(r) ==
    \/ ReadHistory(r) \/ StoreQuestion(r)
    \/ TakeRun(r) \/ RefuseRun(r) \/ Prepare(r)
    \/ Calling(r)
    \/ SaveDrafts(r) \/ Settle(r) \/ GiveBack(r) \/ StoreReply(r)

StoreFault(r) ==
    Fails(r) \/ FailsInRun(r) \/ TakeUnheard(r) \/ RefundUnheard(r) \/ StoreUnheard(r)

Init ==
    /\ key \in Keys \cup {None} /\ agentKey = key
    /\ refused = {} /\ refusals = [k \in Keys |-> 0]
    /\ request = [r \in Requests |-> Idle]
    /\ usage = [runs |-> 0, ends |-> -1]
    /\ messages = [c \in Conversations |-> {}]
    /\ title = [c \in Conversations |-> 0]
    /\ clock = 1
    /\ starts = 0 /\ faults = 0 /\ crashes = 0
    /\ answered = 0 /\ unanswered = 0 /\ stranded = 0 /\ extra = 0 /\ slips = 0 /\ failed = {}

Next ==
    \/ \E r \in Requests :
           \/ \E kind \in Kinds, image \in BOOLEAN, c \in Conversations \cup {None} : Ask(r, kind, image, c)
           \/ Step(r) \/ StoreFault(r)
    \/ Crash
    \/ \E k \in Keys \cup {None} : ChangeKey(k)

Spec == Init /\ [][Next]_vars

(* A request's thread runs until its response: calls have a timeout and     *)
(* sleeps are capped.                                                       *)
Fairness == \A r \in Requests : WF_vars(Step(r))

FairSpec == Spec /\ Fairness

-------------------------------------------------------------------------------
\* Records have their shapes; a conversation has a title once it has a question.
TypeOK ==
    /\ {key, agentKey} \subseteq Keys \cup {None} /\ refused \subseteq Keys
    /\ refusals \in [Keys -> Nat]
    /\ usage.runs \in Nat /\ usage.ends \in {-1, 1}
    /\ messages \in [Conversations -> SUBSET Message]
    /\ \A c \in Conversations : title[c] # 0 <=> \E m \in messages[c] : m.role = "user"
    /\ \A r \in Requests :
           /\ request[r].pc \in InRun \cup {"idle", "read", "question", "run", "again", "reply"}
           /\ request[r].pc = "send" => request[r].key \in Keys

(* limits.py: a run is given back "when the request fails or only a        *)
(* template draft could be written".  The count is the answers the model   *)
(* had a part in, the runs in progress, and what was lost: answers whose   *)
(* reply could not be stored, which stay charged, and runs a restart, a    *)
(* refund that raised or an increment that was not heard of left behind.   *)
(* It is lower only by the refunds that came twice.                        *)
Charged ==
    LET owed == Cardinality(Holding) + Cardinality(Replying) + answered + unanswered + stranded
    IN usage.runs <= owed /\ owed <= usage.runs + extra

(* "Auth failures trip a per-key circuit breaker so a bad key never hammers *)
(* the provider".  Calls that were already under way when it tripped go on, *)
(* each until its own refusal: as many as there are requests.               *)
KeyRests == \A k \in Keys : refusals[k] <= Cardinality(Requests)

(* Messages are listed by created_at: a reply comes after its question, and *)
(* a question has one at most, however requests of a conversation overlap.  *)
RepliesFollow ==
    \A c \in Conversations : \A m \in messages[c] :
        m.role = "assistant" =>
            /\ \E q \in messages[c] : q.role = "user" /\ q.of = m.of /\ q.at < m.at
            /\ \A o \in messages[c] : o.role = "assistant" /\ o.of = m.of => o = m

(* The question is stored before the run and the reply after it.  A stored  *)
(* question without a reply is of a request that is at work or has failed.  *)
QuestionsAnswered ==
    \A c \in Conversations : \A q \in messages[c] :
        \/ \E m \in messages[c] : m.role = "assistant" /\ m.of = q.of
        \/ q.of \in failed
        \/ \E r \in Busy : request[r].id = q.of

(* Every request comes to an end, whatever the provider does. *)
RequestsEnd == \A r \in Requests : request[r].pc # "idle" ~> request[r].pc = "idle"

(* The requests take runs and give them back as AIQuota says: a workspace   *)
(* without a limit, whose cycle does not end here.                          *)
Quota == INSTANCE AIQuota WITH
    Limit <- 0, Cycle <- 1, Faults <- {"store", "lost_reply", "crash"}, MaxMishaps <- MaxFaults + MaxCrashes,
    MaxRequests <- MaxStarts, MaxTime <- 0, NoCycle <- None,
    now <- 0, plan <- "agency",
    pc <- [r \in Requests |->
              IF r \in Holding THEN "running"
              ELSE IF request[r].pc = "again" THEN "again"
              ELSE IF request[r].pc \in {"read", "question", "run"} THEN "admitted" ELSE "idle"],
    gate <- [r \in Requests |-> IF request[r].id = 0 THEN "ended" ELSE "agency"],
    taken <- [r \in Requests |-> IF r \in Holding THEN 1 ELSE None],
    charged <- answered + unanswered + Cardinality(Replying),
    lost <- stranded, extra <- extra, vip <- usage.ends > 0,
    issued <- starts, mishaps <- slips + crashes

UsesQuota == Quota!Spec

===============================================================================
