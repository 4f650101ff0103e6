--------------------------- MODULE PublishLifecycle ---------------------------
(***************************************************************************)
(* What the scheduler promises about one post, and nothing about how:      *)
(* the life-cycle diagram of app/scheduler.py, with the number of times    *)
(* the task was claimed and the number of posts Facebook accepted for it.  *)
(* The diagram has no arrow out of published.  The code has one: when the  *)
(* save that published a task was committed and raised, the exception      *)
(* handler of run_task writes failed over it.  CommitsLost says whether    *)
(* that can happen; without it the arrows are those of the diagram.        *)
(* PublishScheduler implements it with one poller under all faults         *)
(* (PublishSchedulerProofs) and, without CommitsLost, with any number of   *)
(* pollers that neither die nor stall (PublishFleetProofs).                *)
(***************************************************************************)
EXTENDS Naturals

CONSTANTS Tasks,
          CommitsLost   \* BOOLEAN: a save may be committed and raise

VARIABLES status,   \* [Tasks -> Status]
          claims,   \* [Tasks -> Nat]: how often the task was claimed
          posted    \* [Tasks -> Nat]: posts the platform accepted for it

vars == <<status, claims, posted>>

Status == {"absent", "scheduled", "publishing", "published", "failed"}

Init ==
    /\ status = [t \in Tasks |-> "absent"]
    /\ claims = [t \in Tasks |-> 0]
    /\ posted = [t \in Tasks |-> 0]

\* The task moves from one of the states `from` to `to`.
Move(t, from, to) ==
    /\ status[t] \in from
    /\ status' = [status EXCEPT ![t] = to]

Schedule(t) == Move(t, {"absent"}, "scheduled") /\ UNCHANGED <<claims, posted>>

\* One claim, one attempt.
Claim(t) ==
    /\ Move(t, {"scheduled"}, "publishing")
    /\ claims' = [claims EXCEPT ![t] = @ + 1]
    /\ UNCHANGED posted

\* A claim buys at most one post.
Post(t) ==
    /\ status[t] = "publishing"
    /\ posted[t] < claims[t]
    /\ posted' = [posted EXCEPT ![t] = @ + 1]
    /\ UNCHANGED <<status, claims>>

Publish(t) == Move(t, {"publishing"}, "published") /\ UNCHANGED <<claims, posted>>

Fail(t) == Move(t, {"publishing", "scheduled"}, "failed") /\ UNCHANGED <<claims, posted>>

\* A transient failure, or the recovery of a claim its worker abandoned.
Reschedule(t) == Move(t, {"publishing"}, "scheduled") /\ UNCHANGED <<claims, posted>>

\* A post that was made is written down as failed.
Disown(t) ==
    /\ CommitsLost
    /\ Move(t, {"published"}, "failed")
    /\ UNCHANGED <<claims, posted>>

Next ==
    \E t \in Tasks :
        \/ Schedule(t) \/ Claim(t) \/ Post(t)
        \/ Publish(t) \/ Fail(t) \/ Reschedule(t) \/ Disown(t)

Spec == Init /\ [][Next]_vars

==============================================================================
