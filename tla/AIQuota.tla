-------------------------------- MODULE AIQuota --------------------------------
(***************************************************************************)
(* The AI-run quota of one workspace (app/dependencies/limits.py, the      *)
(* endpoints of app/main.py that generate text, usage_tracking in the      *)
(* stores).                                                                *)
(*                                                                         *)
(* A request reads the plan and the count when it is admitted, takes a run *)
(* when it gets to the model, and gives it back when the model wrote       *)
(* nothing.  Requests overlap one another, the end of the 30-day cycle and *)
(* changes of the plan.  Questions and drafts that the endpoints save do   *)
(* not affect the quota and are left out.                                  *)
(***************************************************************************)
EXTENDS Integers, FiniteSets

CONSTANTS
    Requests,     \* requests that can be in flight at a time
    Limit,        \* PLANS["pro"]["ai_runs"]
    Cycle,        \* AI_USAGE_CYCLE_DAYS
    Faults,       \* which of "store", "lost_reply", "crash" happen
    MaxMishaps,   \* bound on faults
    MaxRequests,  \* bound on admitted requests
    MaxTime,      \* bound on time
    NoCycle       \* of a request that has no run

ASSUME RequestsAssumption == IsFiniteSet(Requests)
ASSUME QuotaAssumption == Limit \in Nat /\ Cycle \in Nat \ {0}
ASSUME NoCycleAssumption == NoCycle \notin Int
ASSUME FaultAssumption == Faults \subseteq {"store", "lost_reply", "crash"}
ASSUME BoundAssumption == MaxMishaps \in Nat /\ MaxRequests \in Nat /\ MaxTime \in Nat

VARIABLES
    now,      \* time
    plan,     \* the workspace's plan, "ended" when its period is over
    usage,    \* its usage_tracking row
    pc,       \* what each request does
    gate,     \* the plan each request read when it was admitted
    taken,    \* the cycle (its end) on whose count a request still has a run
    charged,  \* model-written answers of runs taken in this cycle,
    lost,     \* runs of this cycle that a fault left on the count,
    extra,    \* times this cycle's count went down for a run that was not on it,
    vip,      \* and has an unlimited run been taken in it? (these four: not in the code)
    issued,   \* requests admitted so far
    mishaps   \* faults so far

requestVars == <<pc, gate, taken>>
historyVars == <<charged, lost, extra, vip>>
boundVars == <<issued, mishaps>>
vars == <<now, plan, usage, requestVars, historyVars, boundVars>>

-------------------------------------------------------------------------------
(* usage_tracking.  A workspace without a row counts like one whose cycle  *)
(* has ended: both read as 0, and the next run starts a cycle at 1.        *)

Plans == {"pro", "agency", "ended"}
Row == [runs: Nat, ends: Int]
NoRow == [runs |-> 0, ends |-> -1]

\* CASE WHEN now > cycle_end, the test of every statement on the row
Open == now <= usage.ends

\* current_ai_runs
CurrentRuns == IF Open THEN usage.runs ELSE 0

\* increment_ai_runs refuses.  mutant: an off-by-one in the limit.
FullOneLate(p) == p = "pro" /\ CurrentRuns > Limit
Full(p) == p = "pro" /\ CurrentRuns >= Limit

\* mutant: a new cycle starts without its first run
IncrementedFromZero ==
    IF Open THEN [usage EXCEPT !.runs = @ + 1] ELSE [runs |-> 0, ends |-> now + Cycle]
\* increment_ai_runs counts a run
Incremented ==
    IF Open THEN [usage EXCEPT !.runs = @ + 1] ELSE [runs |-> 1, ends |-> now + Cycle]

\* mutant: the run is never given back
ReleasedByNothing == usage
\* mutant: without the test that the count is positive
ReleasedBelowZero == IF Open THEN [usage EXCEPT !.runs = @ - 1] ELSE usage
\* release_ai_run
Released == IF Open /\ usage.runs > 0 THEN [usage EXCEPT !.runs = @ - 1] ELSE usage

-------------------------------------------------------------------------------
(* The history of a cycle. *)

Outstanding == {r \in Requests : taken[r] = usage.ends}

SoFar(history) == IF Open THEN history ELSE 0

\* A run is counted under plan p, perhaps as the first of a cycle.
Counts(p) ==
    /\ usage' = Incremented
    /\ charged' = SoFar(charged)
    /\ extra' = SoFar(extra)
    /\ vip' = (p # "pro" \/ (Open /\ vip))

\* The refund of r's run is committed.
GivesBack(r) ==
    /\ usage' = Released
    /\ extra' = IF Released # usage /\ taken[r] # usage.ends THEN extra + 1 ELSE extra
    /\ UNCHANGED <<charged, lost, vip>>

\* The runs of the requests in R stay on the count, with nobody to return them.
Loses(R) ==
    /\ lost' = lost + Cardinality(R \cap Outstanding)
    /\ UNCHANGED <<usage, charged, extra, vip>>

-------------------------------------------------------------------------------
Init ==
    /\ now = 0
    /\ plan \in {"pro", "agency"}
    /\ usage = NoRow
    /\ pc = [r \in Requests |-> "idle"]
    /\ gate = [r \in Requests |-> "ended"]
    /\ taken = [r \in Requests |-> NoCycle]
    /\ charged = 0 /\ lost = 0 /\ extra = 0 /\ vip = FALSE
    /\ issued = 0 /\ mishaps = 0

\* verify_plan_limit("ai_generation"): load_plan_gate, require_active, check_ai_quota
Admit(r) ==
    /\ pc[r] = "idle"
    /\ issued < MaxRequests
    /\ plan # "ended"
    /\ ~Full(plan)
    /\ pc' = [pc EXCEPT ![r] = "admitted"]
    /\ gate' = [gate EXCEPT ![r] = plan]
    /\ issued' = issued + 1
    /\ UNCHANGED <<now, plan, usage, taken, historyVars, mishaps>>

\* The request ends before it gets to the model: a 404, a failing save.
Abandon(r) ==
    /\ pc[r] = "admitted"
    /\ pc' = [pc EXCEPT ![r] = "idle"]
    /\ UNCHANGED <<now, plan, usage, gate, taken, historyVars, boundVars>>

\* gate.ai_run: increment_ai_runs counts the run under the plan the gate holds.
TakeRun(r) ==
    /\ pc[r] = "admitted"
    /\ ~Full(gate[r])
    /\ Counts(gate[r])
    /\ lost' = SoFar(lost)
    /\ taken' = [taken EXCEPT ![r] = Incremented.ends]
    /\ pc' = [pc EXCEPT ![r] = "running"]
    /\ UNCHANGED <<now, plan, gate, boundVars>>

\* "another request took the last run"
RefuseRun(r) ==
    /\ pc[r] = "admitted"
    /\ Full(gate[r])
    /\ pc' = [pc EXCEPT ![r] = "idle"]
    /\ UNCHANGED <<now, plan, usage, gate, taken, historyVars, boundVars>>

\* keep_if_ai: the model wrote something, the run is charged.
Keep(r) ==
    /\ pc[r] = "running"
    /\ charged' = IF taken[r] = usage.ends THEN charged + 1 ELSE charged
    /\ taken' = [taken EXCEPT ![r] = NoCycle]
    /\ pc' = [pc EXCEPT ![r] = "idle"]
    /\ UNCHANGED <<now, plan, usage, gate, lost, extra, vip, boundVars>>

\* The request failed or only a template came out; "again" is ai_run's except
\* branch after the refund in keep_if_ai has raised.
Refund(r) ==
    /\ pc[r] \in {"running", "again"}
    /\ GivesBack(r)
    /\ taken' = [taken EXCEPT ![r] = NoCycle]
    /\ pc' = [pc EXCEPT ![r] = "idle"]
    /\ UNCHANGED <<now, plan, gate, boundVars>>

-------------------------------------------------------------------------------
Mishap(f) == f \in Faults /\ mishaps < MaxMishaps /\ mishaps' = mishaps + 1

\* increment_ai_runs commits, but the request fails before it has its AIRun.
TakeUnanswered(r) ==
    /\ pc[r] = "admitted"
    /\ Mishap("lost_reply")
    /\ ~Full(gate[r])
    /\ Counts(gate[r])
    /\ lost' = SoFar(lost) + 1
    /\ pc' = [pc EXCEPT ![r] = "idle"]
    /\ UNCHANGED <<now, plan, gate, taken, issued>>

\* What follows a release_ai_run that raised: ai_run's except branch tries once
\* more unless it is the one that failed.
AfterRaise(r) == IF pc[r] = "running" THEN {"again", "idle"} ELSE {"idle"}

\* release_ai_run raises without effect.
RefundFails(r) ==
    /\ pc[r] \in {"running", "again"}
    /\ Mishap("store")
    /\ \E next \in AfterRaise(r) :
          /\ pc' = [pc EXCEPT ![r] = next]
          /\ IF next = "again"
             THEN UNCHANGED <<usage, taken, historyVars>>
             ELSE Loses({r}) /\ taken' = [taken EXCEPT ![r] = NoCycle]
    /\ UNCHANGED <<now, plan, gate, issued>>

\* release_ai_run commits and raises all the same.
RefundUnanswered(r) ==
    /\ pc[r] \in {"running", "again"}
    /\ Mishap("lost_reply")
    /\ GivesBack(r)
    /\ \E next \in AfterRaise(r) : pc' = [pc EXCEPT ![r] = next]
    /\ taken' = [taken EXCEPT ![r] = NoCycle]
    /\ UNCHANGED <<now, plan, gate, issued>>

\* The web process dies with every request in it.
Crash ==
    /\ Mishap("crash")
    /\ Loses(Requests)
    /\ pc' = [r \in Requests |-> "idle"]
    /\ taken' = [r \in Requests |-> NoCycle]
    /\ UNCHANGED <<now, plan, gate, issued>>

-------------------------------------------------------------------------------
\* A payment, set_plan.py, or the end of a paid period (Billing).
ChangePlan ==
    /\ \E p \in Plans \ {plan} : plan' = p
    /\ UNCHANGED <<now, usage, requestVars, historyVars, boundVars>>

Tick ==
    /\ now < MaxTime
    /\ now' = now + 1
    /\ UNCHANGED <<plan, usage, requestVars, historyVars, boundVars>>

RequestStep(r) ==
    \/ Admit(r) \/ Abandon(r)
    \/ TakeRun(r) \/ RefuseRun(r) \/ TakeUnanswered(r)
    \/ Keep(r) \/ Refund(r) \/ RefundFails(r) \/ RefundUnanswered(r)

Next == (\E r \in Requests : RequestStep(r)) \/ Crash \/ ChangePlan \/ Tick

Spec == Init /\ [][Next]_vars

-------------------------------------------------------------------------------
(* What the quota promises. *)

\* The rows and the requests have their shapes.
TypeOK ==
    /\ now \in Nat
    /\ plan \in Plans
    /\ usage \in Row
    /\ pc \in [Requests -> {"idle", "admitted", "running", "again"}]
    /\ gate \in [Requests -> Plans]
    /\ taken \in [Requests -> Int \cup {NoCycle}]
    /\ charged \in Nat /\ lost \in Nat /\ extra \in Nat
    /\ vip \in BOOLEAN
    /\ issued \in Nat /\ mishaps \in Nat

\* No workspace pays for a run it did not have: while a cycle lasts, its count
\* is at most the answers the model wrote, the runs in progress and those a
\* fault took (limits.py: a run is given back when the request fails or only a
\* template could be written).
NeverOvercharged ==
    Open => usage.runs <= charged + lost + Cardinality(Outstanding)

\* No run goes uncounted, except for the refunds that hit a cycle they were
\* not taken in or came twice.
NothingUncounted ==
    charged + lost + Cardinality(Outstanding) <= usage.runs + extra

\* However requests overlap, the count of a cycle does not pass the limit
\* unless an unlimited plan took runs in it (base.py: concurrent callers can
\* never push the count past the limit).
QuotaKept == Open /\ ~vip => usage.runs <= Limit

\* limits.py says more: "Pro allows 300 AI runs per 30-day cycle".
PromisedRuns == Open /\ ~vip => charged <= Limit

===============================================================================
