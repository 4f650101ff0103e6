----------------------------- MODULE AIQuotaProofs -----------------------------
(***************************************************************************)
(* The count of AIQuota agrees with the runs that were taken, for any      *)
(* number of requests, faults, cycles and changes of the plan.             *)
(***************************************************************************)
EXTENDS AIQuota, FiniteSetTheorems, TLAPS

\* What a request has on the count: nothing before its run is taken, and then
\* a run of this cycle or of an earlier one.
RunsOK ==
    \A r \in Requests :
        /\ pc[r] \in {"idle", "admitted"} => taken[r] = NoCycle
        /\ taken[r] # NoCycle => taken[r] <= usage.ends

-------------------------------------------------------------------------------
\* The outstanding runs are finitely many.
LEMMA FinitelyOutstanding ==
    /\ IsFiniteSet(Outstanding)
    /\ Cardinality(Outstanding) \in Nat
  <1>1. Outstanding \in SUBSET Requests
    BY DEF Outstanding
  <1>2. IsFiniteSet(Outstanding)
    BY <1>1, RequestsAssumption, FS_Subset
  <1> QED
    BY <1>2, FS_CardinalityType

\* A request that ends leaves the outstanding runs of the cycle.
LEMMA OneFewer ==
    ASSUME TypeOK, NEW r \in Requests,
           taken' = [taken EXCEPT ![r] = NoCycle], usage'.ends = usage.ends
    PROVE  /\ Cardinality(Outstanding') =
                IF r \in Outstanding THEN Cardinality(Outstanding) - 1
                                     ELSE Cardinality(Outstanding)
           /\ Cardinality(Outstanding') \in Nat
  <1>1. usage.ends # NoCycle
    BY NoCycleAssumption DEF TypeOK, Row
  <1>2. Outstanding' = Outstanding \ {r}
    BY <1>1 DEF Outstanding, TypeOK
  <1> QED
    BY <1>2, FinitelyOutstanding, FS_RemoveElement, FS_CardinalityType

\* Nothing changes for the others when neither the runs nor the cycle change.
LEMMA AsMany ==
    ASSUME taken' = taken, usage'.ends = usage.ends
    PROVE  Outstanding' = Outstanding
  BY DEF Outstanding

\* A run that is taken is one more, or the only one of a new cycle.
LEMMA OneMore ==
    ASSUME TypeOK, RunsOK, NEW r \in Requests, pc[r] = "admitted",
           usage' = Incremented, taken' = [taken EXCEPT ![r] = Incremented.ends]
    PROVE  Cardinality(Outstanding') =
             IF Open THEN Cardinality(Outstanding) + 1 ELSE 1
  <1>1. /\ taken[r] = NoCycle /\ usage.ends \in Int /\ usage.ends # NoCycle
        /\ now \in Int /\ Cycle \in Nat \ {0}
    BY NoCycleAssumption, QuotaAssumption DEF TypeOK, Row, RunsOK
  <1>2. CASE Open
    <2>1. Incremented.ends = usage.ends
      BY <1>2 DEF Incremented, TypeOK, Row
    <2>2. Outstanding' = Outstanding \cup {r}
      BY <2>1 DEF Outstanding, TypeOK
    <2>3. r \notin Outstanding
      BY <1>1 DEF Outstanding
    <2> QED
      BY <1>2, <2>2, <2>3, FinitelyOutstanding, FS_AddElement
  <1>3. CASE ~Open
    <2>1. Incremented.ends = now + Cycle
      BY <1>3 DEF Incremented
    <2>2. ~(now <= usage.ends)
      BY <1>3 DEF Open
    <2>3. \A q \in Requests : taken[q] # now + Cycle
      <3> SUFFICES ASSUME NEW q \in Requests, taken[q] = now + Cycle PROVE FALSE
        OBVIOUS
      <3>1. taken[q] # NoCycle /\ now + Cycle > usage.ends
        BY <1>1, <2>2, NoCycleAssumption
      <3> QED
        BY <3>1, <1>1 DEF RunsOK
    <2>4. Outstanding' = {r}
      BY <2>1, <2>3 DEF Outstanding, TypeOK
    <2> QED
      BY <1>3, <2>4, FS_Singleton
  <1> QED
    BY <1>2, <1>3

\* What increment_ai_runs writes.
LEMMA IncrementedRow ==
    ASSUME TypeOK
    PROVE  /\ Incremented \in Row
           /\ Open => Incremented.runs = usage.runs + 1 /\ Incremented.ends = usage.ends
           /\ ~Open => Incremented.runs = 1 /\ Incremented.ends = now + Cycle
           /\ now <= Incremented.ends /\ usage.ends <= Incremented.ends
  <1>1. now \in Nat /\ usage.runs \in Nat /\ usage.ends \in Int /\ Cycle \in Nat
    BY QuotaAssumption DEF TypeOK, Row
  <1>2. CASE Open
    BY <1>1, <1>2 DEF Incremented, Open, TypeOK, Row
  <1>3. CASE ~Open
    BY <1>1, <1>3 DEF Incremented, Open, TypeOK, Row
  <1> QED
    BY <1>2, <1>3

\* A run that is taken for nobody leaves those of the cycle as they are.
LEMMA NoneYet ==
    ASSUME TypeOK, RunsOK, usage' = Incremented, taken' = taken
    PROVE  Cardinality(Outstanding') = IF Open THEN Cardinality(Outstanding) ELSE 0
  <1>1. CASE Open
    BY <1>1, IncrementedRow, AsMany
  <1>2. CASE ~Open
    <2>1. /\ usage'.ends = now + Cycle /\ ~(now <= usage.ends)
          /\ now \in Int /\ usage.ends \in Int /\ Cycle \in Nat \ {0}
      BY <1>2, IncrementedRow, QuotaAssumption DEF Open, TypeOK, Row
    <2>2. \A q \in Requests : taken[q] # now + Cycle
      <3> SUFFICES ASSUME NEW q \in Requests, taken[q] = now + Cycle PROVE FALSE
        OBVIOUS
      <3>1. taken[q] # NoCycle /\ now + Cycle > usage.ends
        BY <2>1, NoCycleAssumption
      <3> QED
        BY <3>1, <2>1 DEF RunsOK
    <2>3. Outstanding' = {}
      BY <2>1, <2>2 DEF Outstanding
    <2> QED
      BY <1>2, <2>3, FS_EmptySet
  <1> QED
    BY <1>1, <1>2

\* What release_ai_run writes.
LEMMA ReleasedRow ==
    ASSUME TypeOK
    PROVE  /\ Released \in Row
           /\ Released.ends = usage.ends
           /\ Open /\ usage.runs > 0 => Released.runs = usage.runs - 1 /\ Released # usage
           /\ ~(Open /\ usage.runs > 0) => Released = usage
  <1>1. usage \in Row /\ usage.runs \in Nat
    BY DEF TypeOK, Row
  <1>2. CASE Open /\ usage.runs > 0
    <2>1. Released = [usage EXCEPT !.runs = @ - 1]
      BY <1>2 DEF Released
    <2>2. Released.runs = usage.runs - 1 /\ Released.ends = usage.ends /\ Released \in Row
      BY <1>1, <1>2, <2>1 DEF Row
    <2>3. Released # usage
      BY <1>1, <2>2
    <2> QED
      BY <1>2, <2>2, <2>3
  <1>3. CASE ~(Open /\ usage.runs > 0)
    BY <1>1, <1>3 DEF Released
  <1> QED
    BY <1>2, <1>3

-------------------------------------------------------------------------------
(* The invariant, step by step. *)

\* Every step keeps the shapes.
LEMMA TypeStep == TypeOK /\ [Next]_vars => TypeOK'
  <1> SUFFICES ASSUME TypeOK, [Next]_vars PROVE TypeOK'
    OBVIOUS
  <1>1. Incremented \in Row /\ Released \in Row
    BY IncrementedRow, ReleasedRow
  <1>2. /\ SoFar(charged) \in Nat /\ SoFar(lost) \in Nat /\ SoFar(extra) \in Nat
    BY DEF SoFar, TypeOK
  <1>3. ASSUME NEW p \in Plans, Counts(p)
        PROVE  usage' \in Row /\ charged' \in Nat /\ extra' \in Nat /\ vip' \in BOOLEAN
    BY <1>1, <1>2, <1>3, Zenon DEF Counts
  <1>4. ASSUME NEW r \in Requests, GivesBack(r)
        PROVE  usage' \in Row /\ charged' \in Nat /\ lost' \in Nat /\ extra' \in Nat /\ vip' \in BOOLEAN
    BY <1>1, <1>4 DEF GivesBack, TypeOK
  <1>5. ASSUME NEW R, Loses(R)
        PROVE  usage' \in Row /\ charged' \in Nat /\ lost' \in Nat /\ extra' \in Nat /\ vip' \in BOOLEAN
    <2>1. R \cap Outstanding \in SUBSET Requests
      BY DEF Outstanding
    <2>2. Cardinality(R \cap Outstanding) \in Nat
      BY <2>1, RequestsAssumption, FS_Subset, FS_CardinalityType
    <2> QED
      BY <1>5, <2>2 DEF Loses, TypeOK
  <1>6. ASSUME NEW r \in Requests, RequestStep(r) PROVE TypeOK'
    <2>1. CASE Admit(r)
      BY <2>1 DEF Admit, TypeOK, historyVars
    <2>2. CASE Abandon(r)
      BY <2>2 DEF Abandon, TypeOK, historyVars, boundVars
    <2>3. CASE TakeRun(r)
      <3>1. gate[r] \in Plans /\ Incremented.ends \in Int
        BY <1>1 DEF TypeOK, Row
      <3>2. usage' \in Row /\ charged' \in Nat /\ extra' \in Nat /\ vip' \in BOOLEAN
        BY <1>3, <2>3, <3>1 DEF TakeRun
      <3> QED
        BY <1>2, <2>3, <3>1, <3>2 DEF TakeRun, TypeOK, boundVars
    <2>4. CASE RefuseRun(r)
      BY <2>4 DEF RefuseRun, TypeOK, historyVars, boundVars
    <2>5. CASE TakeUnanswered(r)
      <3>1. gate[r] \in Plans
        BY DEF TypeOK
      <3>2. usage' \in Row /\ charged' \in Nat /\ extra' \in Nat /\ vip' \in BOOLEAN
        BY <1>3, <2>5, <3>1 DEF TakeUnanswered
      <3> QED
        BY <1>2, <2>5, <3>2 DEF TakeUnanswered, Mishap, TypeOK
    <2>6. CASE Keep(r)
      BY <2>6 DEF Keep, TypeOK, boundVars
    <2>7. CASE Refund(r)
      BY <1>4, <2>7 DEF Refund, TypeOK, boundVars
    <2>8. CASE RefundFails(r)
      <3>1. /\ pc' \in [Requests -> {"idle", "admitted", "running", "again"}]
            /\ taken' \in [Requests -> Int \cup {NoCycle}]
        BY <2>8 DEF RefundFails, AfterRaise, TypeOK
      <3>2. usage' \in Row /\ charged' \in Nat /\ lost' \in Nat /\ extra' \in Nat /\ vip' \in BOOLEAN
        BY <1>5, <2>8 DEF RefundFails, TypeOK, historyVars
      <3> QED
        BY <2>8, <3>1, <3>2 DEF RefundFails, Mishap, TypeOK
    <2>9. CASE RefundUnanswered(r)
      <3>1. pc' \in [Requests -> {"idle", "admitted", "running", "again"}]
        BY <2>9 DEF RefundUnanswered, AfterRaise, TypeOK
      <3> QED
        BY <1>4, <2>9, <3>1 DEF RefundUnanswered, Mishap, TypeOK
    <2> QED
      BY <1>6, <2>1, <2>2, <2>3, <2>4, <2>5, <2>6, <2>7, <2>8, <2>9 DEF RequestStep
  <1>7. CASE Crash
    BY <1>5, <1>7 DEF Crash, Mishap, TypeOK
  <1>8. CASE ChangePlan
    BY <1>8 DEF ChangePlan, TypeOK, requestVars, historyVars, boundVars
  <1>9. CASE Tick
    BY <1>9 DEF Tick, TypeOK, requestVars, historyVars, boundVars
  <1>10. CASE UNCHANGED vars
    BY <1>10 DEF vars, TypeOK, requestVars, historyVars, boundVars
  <1> QED
    BY <1>6, <1>7, <1>8, <1>9, <1>10 DEF Next

\* Every step keeps what a request has on the count.
LEMMA RunsStep == TypeOK /\ RunsOK /\ [Next]_vars => RunsOK'
  <1> SUFFICES ASSUME TypeOK, RunsOK, [Next]_vars PROVE RunsOK'
    OBVIOUS
  <1>1. ASSUME pc' = pc, taken' = taken, usage' = usage PROVE RunsOK'
    BY <1>1 DEF RunsOK
  <1>2. ASSUME NEW r \in Requests, usage'.ends = usage.ends, taken' = [taken EXCEPT ![r] = NoCycle],
               \/ pc' = [pc EXCEPT ![r] = "idle"]
               \/ pc' = [pc EXCEPT ![r] = "again"]
        PROVE  RunsOK'
    BY <1>2 DEF RunsOK, TypeOK
  <1>3. ASSUME NEW r \in Requests, RequestStep(r) PROVE RunsOK'
    <2>1. CASE Admit(r)
      BY <2>1 DEF Admit, RunsOK, TypeOK
    <2>2. CASE Abandon(r)
      BY <2>2 DEF Abandon, RunsOK, TypeOK, historyVars
    <2>3. CASE TakeRun(r)
      <3>1. /\ usage' = Incremented /\ taken' = [taken EXCEPT ![r] = Incremented.ends]
            /\ pc' = [pc EXCEPT ![r] = "running"]
        BY <2>3 DEF TakeRun, Counts
      <3>2. usage.ends <= usage'.ends /\ usage'.ends \in Int /\ usage.ends \in Int
        BY <3>1, IncrementedRow DEF TypeOK, Row
      <3>3. ASSUME NEW q \in Requests, q # r
            PROVE  /\ pc'[q] \in {"idle", "admitted"} => taken'[q] = NoCycle
                   /\ taken'[q] # NoCycle => taken'[q] <= usage'.ends
        <4>1. pc'[q] = pc[q] /\ taken'[q] = taken[q] /\ taken[q] \in Int \cup {NoCycle}
          BY <3>1, <3>3 DEF TypeOK
        <4>2. taken[q] # NoCycle => taken[q] \in Int /\ taken[q] <= usage.ends
          BY <4>1 DEF RunsOK
        <4> QED
          BY <3>2, <4>1, <4>2 DEF RunsOK
      <3>4. pc'[r] = "running" /\ taken'[r] = usage'.ends
        BY <3>1 DEF TypeOK
      <3> QED
        BY <3>2, <3>3, <3>4 DEF RunsOK
    <2>4. CASE RefuseRun(r)
      BY <2>4 DEF RefuseRun, RunsOK, TypeOK
    <2>5. CASE TakeUnanswered(r)
      <3>1. usage' = Incremented /\ taken' = taken /\ pc' = [pc EXCEPT ![r] = "idle"]
            /\ pc[r] = "admitted"
        BY <2>5 DEF TakeUnanswered, Counts
      <3>2. usage.ends <= usage'.ends /\ usage'.ends \in Int /\ usage.ends \in Int
        BY <3>1, IncrementedRow DEF TypeOK, Row
      <3>3. ASSUME NEW q \in Requests
            PROVE  /\ pc'[q] \in {"idle", "admitted"} => taken[q] = NoCycle
                   /\ taken[q] # NoCycle => taken[q] <= usage'.ends
        <4>1. pc'[q] \in {"idle", "admitted"} => pc[q] \in {"idle", "admitted"}
          BY <3>1 DEF TypeOK
        <4>2. taken[q] # NoCycle => taken[q] \in Int /\ taken[q] <= usage.ends
          BY DEF RunsOK, TypeOK
        <4> QED
          BY <3>2, <4>1, <4>2 DEF RunsOK
      <3> QED
        BY <3>1, <3>3 DEF RunsOK
    <2>6. CASE Keep(r)
      BY <1>2, <2>6 DEF Keep
    <2>7. CASE Refund(r)
      BY <1>2, <2>7, ReleasedRow DEF Refund, GivesBack
    <2>8. CASE RefundFails(r)
      <3>1. pc[r] \in {"running", "again"}
        BY <2>8 DEF RefundFails
      <3>2. PICK next \in AfterRaise(r) :
              /\ pc' = [pc EXCEPT ![r] = next]
              /\ IF next = "again"
                 THEN UNCHANGED <<usage, taken, historyVars>>
                 ELSE Loses({r}) /\ taken' = [taken EXCEPT ![r] = NoCycle]
        BY <2>8 DEF RefundFails
      <3>3. CASE next = "again"
        BY <3>1, <3>2, <3>3 DEF RunsOK, TypeOK
      <3>4. CASE next # "again"
        BY <1>2, <3>2, <3>4 DEF AfterRaise, Loses
      <3> QED
        BY <3>3, <3>4
    <2>9. CASE RefundUnanswered(r)
      <3>1. PICK next \in AfterRaise(r) : pc' = [pc EXCEPT ![r] = next]
        BY <2>9 DEF RefundUnanswered
      <3>2. usage'.ends = usage.ends /\ taken' = [taken EXCEPT ![r] = NoCycle]
        BY <2>9, ReleasedRow DEF RefundUnanswered, GivesBack
      <3> QED
        BY <1>2, <3>1, <3>2 DEF AfterRaise
    <2> QED
      BY <1>3, <2>1, <2>2, <2>3, <2>4, <2>5, <2>6, <2>7, <2>8, <2>9 DEF RequestStep
  <1>4. CASE Crash
    BY <1>4 DEF Crash, RunsOK, TypeOK
  <1>5. CASE ChangePlan
    BY <1>1, <1>5 DEF ChangePlan, requestVars
  <1>6. CASE Tick
    BY <1>1, <1>6 DEF Tick, requestVars
  <1>7. CASE UNCHANGED vars
    BY <1>1, <1>7 DEF vars, requestVars
  <1> QED
    BY <1>3, <1>4, <1>5, <1>6, <1>7 DEF Next

-------------------------------------------------------------------------------
(* The count, for each way a step can touch it. *)

CountOK == NeverOvercharged /\ NothingUncounted /\ QuotaKept

\* Time may pass; nothing else that matters changes.
LEMMA QuietStep ==
    ASSUME TypeOK, CountOK, now' \in {now, now + 1},
           UNCHANGED <<usage, taken, historyVars>>
    PROVE  CountOK'
  <1>1. Outstanding' = Outstanding
    BY AsMany
  <1>2. Open' => Open
    BY DEF Open, TypeOK, Row
  <1> QED
    BY <1>1, <1>2 DEF CountOK, NeverOvercharged, NothingUncounted, QuotaKept, historyVars

\* A run is counted: for the request that has it, or for one that never learns.
LEMMA TakeStep ==
    ASSUME TypeOK, RunsOK, CountOK, NEW r \in Requests, pc[r] = "admitted",
           now' = now, ~Full(gate[r]), Counts(gate[r]),
           \/ lost' = SoFar(lost) /\ taken' = [taken EXCEPT ![r] = Incremented.ends]
           \/ lost' = SoFar(lost) + 1 /\ taken' = taken
    PROVE  CountOK'
  <1>1. Cardinality(Outstanding) \in Nat
    BY FinitelyOutstanding
  <1>2. /\ lost' + Cardinality(Outstanding') = SoFar(lost) + SoFar(Cardinality(Outstanding)) + 1
        /\ lost' \in Nat /\ Cardinality(Outstanding') \in Nat
    <2>1. SoFar(lost) \in Nat /\ SoFar(Cardinality(Outstanding)) \in Nat
      BY <1>1 DEF SoFar, TypeOK
    <2>2. CASE lost' = SoFar(lost) /\ taken' = [taken EXCEPT ![r] = Incremented.ends]
      <3>1. Cardinality(Outstanding') = IF Open THEN Cardinality(Outstanding) + 1 ELSE 1
        BY <2>2, OneMore DEF Counts
      <3>2. Cardinality(Outstanding') = SoFar(Cardinality(Outstanding)) + 1
        BY <3>1 DEF SoFar
      <3> QED
        BY <2>1, <2>2, <3>2
    <2>3. CASE lost' = SoFar(lost) + 1 /\ taken' = taken
      <3>1. Cardinality(Outstanding') = IF Open THEN Cardinality(Outstanding) ELSE 0
        BY <2>3, NoneYet DEF Counts
      <3>2. Cardinality(Outstanding') = SoFar(Cardinality(Outstanding))
        BY <3>1 DEF SoFar
      <3> QED
        BY <2>1, <2>3, <3>2
    <2> QED
      BY <2>2, <2>3
  <1>3. usage'.runs = SoFar(usage.runs) + 1
    BY IncrementedRow DEF Counts, SoFar, TypeOK, Row
  <1>4. /\ SoFar(usage.runs) <= SoFar(charged) + SoFar(lost) + SoFar(Cardinality(Outstanding))
        /\ SoFar(charged) + SoFar(lost) + SoFar(Cardinality(Outstanding))
             <= SoFar(usage.runs) + SoFar(extra)
        /\ SoFar(charged) \in Nat /\ SoFar(lost) \in Nat /\ SoFar(extra) \in Nat
        /\ SoFar(Cardinality(Outstanding)) \in Nat /\ SoFar(usage.runs) \in Nat
    BY <1>1 DEF CountOK, NeverOvercharged, NothingUncounted, SoFar, TypeOK, Row
  <1>5. charged' = SoFar(charged) /\ extra' = SoFar(extra)
    BY DEF Counts
  <1>6. NeverOvercharged' /\ NothingUncounted'
    <2>1. /\ usage'.runs <= charged' + lost' + Cardinality(Outstanding')
          /\ charged' + lost' + Cardinality(Outstanding') <= usage'.runs + extra'
      BY <1>2, <1>3, <1>4, <1>5
    <2> QED
      BY <2>1 DEF NeverOvercharged, NothingUncounted
  <1>7. QuotaKept'
    <2> SUFFICES ASSUME ~vip' PROVE usage'.runs <= Limit
      BY DEF QuotaKept
    <2>1. gate[r] = "pro"
      BY Zenon DEF Counts
    <2>2. ~(CurrentRuns >= Limit)
      BY <2>1 DEF Full
    <2>3. CurrentRuns = SoFar(usage.runs)
      BY DEF CurrentRuns, SoFar
    <2> QED
      BY <1>3, <1>4, <2>2, <2>3, QuotaAssumption
  <1> QED
    BY <1>6, <1>7 DEF CountOK

\* The model wrote something for r.
LEMMA KeepStep ==
    ASSUME TypeOK, CountOK, NEW r \in Requests, Keep(r)
    PROVE  CountOK'
  <1>1. /\ usage' = usage /\ now' = now /\ lost' = lost /\ extra' = extra /\ vip' = vip
        /\ taken' = [taken EXCEPT ![r] = NoCycle]
        /\ charged' = IF r \in Outstanding THEN charged + 1 ELSE charged
    BY DEF Keep, Outstanding
  <1>2. /\ Cardinality(Outstanding') = IF r \in Outstanding THEN Cardinality(Outstanding) - 1
                                                             ELSE Cardinality(Outstanding)
        /\ Cardinality(Outstanding) \in Nat
    BY <1>1, OneFewer, FinitelyOutstanding
  <1>3. charged' + Cardinality(Outstanding') = charged + Cardinality(Outstanding)
    BY <1>1, <1>2 DEF TypeOK
  <1>4. charged' \in Nat /\ Cardinality(Outstanding') \in Int /\ Open' = Open
    BY <1>1, <1>2 DEF TypeOK, Open
  <1> QED
    BY <1>1, <1>2, <1>3, <1>4 DEF CountOK, NeverOvercharged, NothingUncounted, QuotaKept, TypeOK, Row

\* r's run is given back, to this cycle or to another, or a second time.
LEMMA RefundStep ==
    ASSUME TypeOK, CountOK, NEW r \in Requests, GivesBack(r), now' = now,
           taken' = [taken EXCEPT ![r] = NoCycle]
    PROVE  CountOK'
  <1>1. /\ usage' = Released /\ charged' = charged /\ lost' = lost /\ vip' = vip
        /\ extra' = IF Released # usage /\ r \notin Outstanding THEN extra + 1 ELSE extra
    BY DEF GivesBack, Outstanding
  <1>2. /\ Cardinality(Outstanding') = IF r \in Outstanding THEN Cardinality(Outstanding) - 1
                                                             ELSE Cardinality(Outstanding)
        /\ Cardinality(Outstanding) \in Nat
    BY <1>1, ReleasedRow, OneFewer, FinitelyOutstanding
  <1>3. Open' = Open
    BY <1>1, ReleasedRow DEF Open
  <1>4. CASE Open /\ usage.runs > 0
    <2>1. usage'.runs = usage.runs - 1 /\ Released # usage
      BY <1>1, <1>4, ReleasedRow
    <2>2. /\ charged \in Nat /\ lost \in Nat /\ extra \in Nat /\ usage.runs \in Nat
          /\ usage.runs <= charged + lost + Cardinality(Outstanding)
          /\ charged + lost + Cardinality(Outstanding) <= usage.runs + extra
          /\ ~vip => usage.runs <= Limit
      BY <1>4 DEF CountOK, NeverOvercharged, NothingUncounted, QuotaKept, TypeOK, Row
    <2>3. /\ usage'.runs <= charged' + lost' + Cardinality(Outstanding')
          /\ charged' + lost' + Cardinality(Outstanding') <= usage'.runs + extra'
      BY <1>1, <1>2, <2>1, <2>2
    <2>4. ~vip' => usage'.runs <= Limit
      BY <1>1, <2>1, <2>2, QuotaAssumption
    <2> QED
      BY <2>3, <2>4 DEF CountOK, NeverOvercharged, NothingUncounted, QuotaKept
  <1>5. CASE ~(Open /\ usage.runs > 0)
    <2>1. usage' = usage /\ extra' = extra
      BY <1>1, <1>5, ReleasedRow
    <2>2. /\ charged \in Nat /\ lost \in Nat /\ extra \in Nat /\ usage.runs \in Nat
          /\ Open => usage.runs <= charged + lost + Cardinality(Outstanding)
          /\ charged + lost + Cardinality(Outstanding) <= usage.runs + extra
          /\ Open /\ ~vip => usage.runs <= Limit
      BY DEF CountOK, NeverOvercharged, NothingUncounted, QuotaKept, TypeOK, Row
    <2>3. Open => usage.runs <= charged + lost + Cardinality(Outstanding')
      <3>1. CASE Open
        <4>1. usage.runs = 0
          BY <1>5, <2>2, <3>1
        <4>2. Cardinality(Outstanding') \in Nat
          BY <1>1, ReleasedRow, OneFewer
        <4> QED
          BY <2>2, <4>1, <4>2
      <3>2. CASE ~Open
        BY <3>2
      <3> QED
        BY <3>1, <3>2
    <2>4. charged + lost + Cardinality(Outstanding') <= usage.runs + extra
      BY <1>2, <2>2
    <2> QED
      BY <1>1, <1>3, <2>1, <2>2, <2>3, <2>4
      DEF CountOK, NeverOvercharged, NothingUncounted, QuotaKept
  <1> QED
    BY <1>4, <1>5

\* r's run stays on the count although the request has ended.
LEMMA LossStep ==
    ASSUME TypeOK, CountOK, NEW r \in Requests, Loses({r}), now' = now,
           taken' = [taken EXCEPT ![r] = NoCycle]
    PROVE  CountOK'
  <1>1. /\ usage' = usage /\ charged' = charged /\ extra' = extra /\ vip' = vip
        /\ lost' = lost + Cardinality({r} \cap Outstanding)
    BY DEF Loses
  <1>2. Cardinality({r} \cap Outstanding) = IF r \in Outstanding THEN 1 ELSE 0
    <2>1. CASE r \in Outstanding
      <3>1. {r} \cap Outstanding = {r}
        BY <2>1
      <3> QED
        BY <2>1, <3>1, FS_Singleton
    <2>2. CASE r \notin Outstanding
      <3>1. {r} \cap Outstanding = {}
        BY <2>2
      <3> QED
        BY <2>2, <3>1, FS_EmptySet
    <2> QED
      BY <2>1, <2>2
  <1>3. /\ Cardinality(Outstanding') = IF r \in Outstanding THEN Cardinality(Outstanding) - 1
                                                             ELSE Cardinality(Outstanding)
        /\ Cardinality(Outstanding) \in Nat
    BY <1>1, OneFewer, FinitelyOutstanding
  <1>4. lost' + Cardinality(Outstanding') = lost + Cardinality(Outstanding) /\ Open' = Open
    BY <1>1, <1>2, <1>3 DEF TypeOK, Open
  <1>5. lost' \in Nat /\ Cardinality(Outstanding') \in Int
    BY <1>1, <1>2, <1>3 DEF TypeOK
  <1> QED
    BY <1>1, <1>3, <1>4, <1>5
    DEF CountOK, NeverOvercharged, NothingUncounted, QuotaKept, TypeOK, Row

\* All runs stay on the count, and nobody is left to return them.
LEMMA CrashStep ==
    ASSUME TypeOK, CountOK, Crash
    PROVE  CountOK'
  <1>1. /\ usage' = usage /\ now' = now /\ charged' = charged /\ extra' = extra /\ vip' = vip
        /\ taken' = [r \in Requests |-> NoCycle]
        /\ lost' = lost + Cardinality(Requests \cap Outstanding)
    BY DEF Crash, Loses
  <1>2. Requests \cap Outstanding = Outstanding
    BY DEF Outstanding
  <1>3. usage.ends # NoCycle
    BY NoCycleAssumption DEF TypeOK, Row
  <1>4. Outstanding' = {}
    BY <1>1, <1>3 DEF Outstanding
  <1>5. Cardinality(Outstanding') = 0 /\ Cardinality(Outstanding) \in Nat
    BY <1>4, FinitelyOutstanding, FS_EmptySet
  <1>6. lost' = lost + Cardinality(Outstanding) /\ Open' = Open
    BY <1>1, <1>2 DEF Open
  <1> QED
    BY <1>1, <1>5, <1>6
    DEF CountOK, NeverOvercharged, NothingUncounted, QuotaKept, TypeOK, Row

\* Every step keeps the count right.
LEMMA CountStep == TypeOK /\ RunsOK /\ CountOK /\ [Next]_vars => CountOK'
  <1> SUFFICES ASSUME TypeOK, RunsOK, CountOK, [Next]_vars PROVE CountOK'
    OBVIOUS
  <1>1. ASSUME NEW r \in Requests, RequestStep(r) PROVE CountOK'
    <2>1. CASE Admit(r)
      BY <2>1, QuietStep DEF Admit
    <2>2. CASE Abandon(r)
      BY <2>2, QuietStep DEF Abandon
    <2>3. CASE TakeRun(r)
      BY <2>3, TakeStep DEF TakeRun
    <2>4. CASE RefuseRun(r)
      BY <2>4, QuietStep DEF RefuseRun
    <2>5. CASE TakeUnanswered(r)
      BY <2>5, TakeStep DEF TakeUnanswered
    <2>6. CASE Keep(r)
      BY <2>6, KeepStep
    <2>7. CASE Refund(r)
      BY <2>7, RefundStep DEF Refund
    <2>8. CASE RefundFails(r)
      <3>1. now' = now
        BY <2>8 DEF RefundFails
      <3>2. CASE UNCHANGED <<usage, taken, historyVars>>
        BY <3>1, <3>2, QuietStep
      <3>3. CASE Loses({r}) /\ taken' = [taken EXCEPT ![r] = NoCycle]
        BY <3>1, <3>3, LossStep
      <3> QED
        BY <2>8, <3>2, <3>3 DEF RefundFails
    <2>9. CASE RefundUnanswered(r)
      BY <2>9, RefundStep DEF RefundUnanswered
    <2> QED
      BY <1>1, <2>1, <2>2, <2>3, <2>4, <2>5, <2>6, <2>7, <2>8, <2>9 DEF RequestStep
  <1>2. CASE Crash
    BY <1>2, CrashStep
  <1>3. CASE ChangePlan
    BY <1>3, QuietStep DEF ChangePlan, requestVars
  <1>4. CASE Tick
    BY <1>4, QuietStep DEF Tick, requestVars
  <1>5. CASE UNCHANGED vars
    BY <1>5, QuietStep DEF vars, requestVars
  <1> QED
    BY <1>1, <1>2, <1>3, <1>4, <1>5 DEF Next

-------------------------------------------------------------------------------
\* The inductive invariant of every behaviour.
THEOREM Invariance == Spec => [](TypeOK /\ RunsOK /\ CountOK)
  <1>1. Init => TypeOK /\ RunsOK /\ CountOK
    <2> SUFFICES ASSUME Init PROVE TypeOK /\ RunsOK /\ CountOK
      OBVIOUS
    <2>1. TypeOK
      <3>1. usage \in Row
        <4>1. -1 \in Int /\ 0 \in Nat
          OBVIOUS
        <4> QED
          BY <4>1, Zenon DEF Init, Row, NoRow
      <3> QED
        BY <3>1 DEF Init, TypeOK, Plans
    <2>2. RunsOK
      BY DEF Init, RunsOK
    <2>3. usage.ends # NoCycle /\ ~Open /\ usage.runs = 0
      BY NoCycleAssumption DEF Init, NoRow, Open
    <2>4. Outstanding = {}
      BY <2>3 DEF Init, Outstanding
    <2>5. Cardinality(Outstanding) = 0
      BY <2>4, FS_EmptySet
    <2> QED
      BY <2>1, <2>2, <2>3, <2>5 DEF Init, CountOK, NeverOvercharged, NothingUncounted, QuotaKept
  <1>2. (TypeOK /\ RunsOK /\ CountOK) /\ [Next]_vars => (TypeOK /\ RunsOK /\ CountOK)'
    BY TypeStep, RunsStep, CountStep
  <1> QED
    BY <1>1, <1>2, PTL DEF Spec

\* The rows and requests keep their shapes.
THEOREM TypeCorrect == Spec => []TypeOK
  BY Invariance, PTL

\* The count of a cycle is never more than the answers charged in it, the runs
\* in progress and those a fault took.
THEOREM NobodyIsOvercharged == Spec => []NeverOvercharged
  <1>1. CountOK => NeverOvercharged
    BY DEF CountOK
  <1> QED
    BY <1>1, Invariance, PTL

\* The count of a cycle misses no run but those paid back to the wrong cycle or twice.
THEOREM EveryRunIsCounted == Spec => []NothingUncounted
  <1>1. CountOK => NothingUncounted
    BY DEF CountOK
  <1> QED
    BY <1>1, Invariance, PTL

\* No interleaving of requests pushes the count of a Pro cycle past the limit.
THEOREM CountWithinLimit == Spec => []QuotaKept
  <1>1. CountOK => QuotaKept
    BY DEF CountOK
  <1> QED
    BY <1>1, Invariance, PTL

===============================================================================
