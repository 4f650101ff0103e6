---------------------------- MODULE AssistantProofs ----------------------------
(***************************************************************************)
(* Proofs about Assistant, for any number of requests, conversations, keys *)
(* and platforms: what is charged, how often a refused key is used, and    *)
(* what a conversation holds.  The inductive invariant has four parts:     *)
(* Shape of the requests, Count of the runs, Rests for the keys, Talk for  *)
(* the conversations.                                                      *)
(***************************************************************************)
EXTENDS Assistant, FiniteSetTheorems, TLAPS

-------------------------------------------------------------------------------
Steps == InRun \cup {"idle", "read", "question", "run", "again", "reply"}

(* A request keeps its number, which is its own, when it is over; what it   *)
(* counts as AI text is what the model wrote.                               *)
RequestOK(r) ==
    /\ DOMAIN request[r] = DOMAIN Idle
    /\ request[r].pc \in Steps
    /\ request[r].id \in 0..starts
    /\ request[r].pc # "idle" => request[r].id # 0
    /\ request[r].at \in Nat
    /\ request[r].written \in Nat /\ request[r].labelled = request[r].written
    /\ request[r].conversation \in Conversations \cup {None}
    /\ request[r].pc = "send" => request[r].key \in Keys
    /\ request[r].pc \in {"read", "question", "reply"} => request[r].conversation # None
    /\ request[r].pc \in {"question", "reply"} => request[r].at < clock

Shape ==
    /\ starts \in Nat /\ clock \in Nat
    /\ {key, agentKey} \subseteq Keys \cup {None}
    /\ DOMAIN request = Requests
    /\ \A r \in Requests : RequestOK(r)
    /\ \A r, s \in Requests : request[r].id = request[s].id /\ request[r].id # 0 => r = s

(* Before the first run the count is zero, so that run makes it one.        *)
Owed == Cardinality(Holding) + Cardinality(Replying) + answered + unanswered + stranded

Count ==
    /\ usage \in [runs : Nat, ends : {-1, 1}]
    /\ usage.ends = -1 => usage.runs = 0 /\ extra = 0
    /\ answered \in Nat /\ unanswered \in Nat /\ stranded \in Nat /\ extra \in Nat
    /\ Charged

(* Refusals of a key and calls still under way with it add up to the        *)
(* requests at most, and before its first refusal there is none.            *)
Sending(k) == {r \in Requests : request[r].pc = "send" /\ request[r].key = k}

Rests ==
    /\ refused \subseteq Keys /\ refusals \in [Keys -> Nat]
    /\ \A k \in Keys :
           /\ k \notin refused => refusals[k] = 0
           /\ k \in refused => refusals[k] + Cardinality(Sending(k)) <= Cardinality(Requests)

(* A request at work has no reply yet, and its question, once stored, is in *)
(* its conversation and older than the reply it is about to store.          *)
TalkTypes ==
    /\ messages \in [Conversations -> SUBSET Message] /\ title \in [Conversations -> Nat]
    /\ \A c \in Conversations : title[c] # 0 <=> \E m \in messages[c] : m.role = "user"

Numbered ==
    \A c \in Conversations : \A m \in messages[c] :
        /\ m.of \in 1..starts /\ m.at < clock
        /\ \A r \in Busy : m.of = request[r].id =>
               /\ m.role = "user" /\ request[r].conversation = c
               /\ request[r].pc \notin {"read", "question"}

HasAsked == InRun \cup {"run", "reply"}

Asked ==
    \A r \in Requests :
        request[r].pc \in HasAsked /\ request[r].conversation # None =>
            \E q \in messages[request[r].conversation] :
                /\ q.role = "user" /\ q.of = request[r].id
                /\ request[r].pc = "reply" => q.at < request[r].at

Talk == TalkTypes /\ Numbered /\ Asked /\ RepliesFollow /\ QuestionsAnswered

IInv == Shape /\ Count /\ Rests /\ Talk

-------------------------------------------------------------------------------
(* Finite sets of requests *)

LEMMA HoldingFinite ==
    /\ IsFiniteSet(Holding) /\ Cardinality(Holding) \in Nat
    /\ IsFiniteSet(Replying) /\ Cardinality(Replying) \in Nat
PROOF
<1>1. Holding \subseteq Requests /\ Replying \subseteq Requests
  BY DEF Holding, Replying
<1> QED BY <1>1, RequestsAssumption, FS_Subset, FS_CardinalityType

LEMMA SendingFinite ==
    ASSUME NEW k
    PROVE  /\ IsFiniteSet(Sending(k)) /\ Cardinality(Sending(k)) \in Nat
           /\ Cardinality(Sending(k)) <= Cardinality(Requests) /\ Cardinality(Requests) \in Nat
PROOF
<1>1. Sending(k) \subseteq Requests
  BY DEF Sending
<1> QED BY <1>1, RequestsAssumption, FS_Subset, FS_CardinalityType

LEMMA Enters ==
    ASSUME NEW S, IsFiniteSet(S), NEW r, r \notin S
    PROVE  Cardinality(S \cup {r}) = Cardinality(S) + 1
PROOF BY FS_AddElement

LEMMA Leaves ==
    ASSUME NEW S, IsFiniteSet(S), NEW r \in S
    PROVE  Cardinality(S \ {r}) = Cardinality(S) - 1 /\ Cardinality(S) \in Nat \ {0}
PROOF
<1>1. Cardinality(S) \in Nat
  BY FS_CardinalityType
<1>2. Cardinality(S \ {r}) = Cardinality(S) - 1
  BY FS_RemoveElement
<1>3. S # {}
  OBVIOUS
<1>4. Cardinality(S) # 0
  BY <1>3, FS_EmptySet
<1> QED BY <1>1, <1>2, <1>4

LEMMA TypesHold == IInv => TypeOK
PROOF
<1> SUFFICES ASSUME IInv PROVE TypeOK
  OBVIOUS
<1>1. {key, agentKey} \subseteq Keys \cup {None} /\ refused \subseteq Keys /\ refusals \in [Keys -> Nat]
  BY DEF IInv, Shape, Rests
<1>2. usage.runs \in Nat /\ usage.ends \in {-1, 1}
  BY DEF IInv, Count
<1>3. messages \in [Conversations -> SUBSET Message]
  BY DEF IInv, Talk, TalkTypes
<1>4. \A c \in Conversations : title[c] # 0 <=> \E m \in messages[c] : m.role = "user"
  BY DEF IInv, Talk, TalkTypes
<1>5. \A r \in Requests :
           /\ request[r].pc \in InRun \cup {"idle", "read", "question", "run", "again", "reply"}
           /\ request[r].pc = "send" => request[r].key \in Keys
  BY DEF IInv, Shape, RequestOK, Steps
<1> QED BY <1>1, <1>2, <1>3, <1>4, <1>5 DEF TypeOK

LEMMA IInvInit == Init => IInv
PROOF
<1> SUFFICES ASSUME Init PROVE IInv
  OBVIOUS
<1>1. /\ Idle.pc = "idle" /\ Idle.id = 0 /\ Idle.at = 0 /\ Idle.written = 0 /\ Idle.labelled = 0
      /\ Idle.conversation = None
  BY DEF Idle
<1>2. \A r \in Requests : request[r] = Idle
  BY DEF Init
<1>3. Shape
  BY <1>1, <1>2 DEF Init, Shape, RequestOK, Steps
<1>4. Holding = {} /\ Replying = {} /\ Busy = {}
  BY <1>1, <1>2 DEF Holding, Replying, Busy, InRun
<1>5. Cardinality({}) = 0
  BY FS_EmptySet
<1>6. Count
  BY <1>4, <1>5 DEF Init, Count, Charged, Owed
<1>7. Rests
  BY DEF Init, Rests
<1>8. Talk
  BY <1>1, <1>2 DEF Init, Talk, TalkTypes, Numbered, Asked, HasAsked, RepliesFollow, QuestionsAnswered, InRun
<1> QED BY <1>3, <1>6, <1>7, <1>8 DEF IInv

-------------------------------------------------------------------------------
(* What each kind of step does to its request *)

OthersStay(r) ==
    /\ DOMAIN request' = Requests
    /\ \A s \in Requests \ {r} : request'[s] = request[s]

(* within a run: writing pieces, saving them                                *)
Works(r) ==
    /\ OthersStay(r)
    /\ DOMAIN request'[r] = DOMAIN Idle
    /\ request[r].pc \in InRun /\ request'[r].pc \in InRun
    /\ request'[r].id = request[r].id /\ request'[r].at = request[r].at
    /\ request'[r].conversation = request[r].conversation
    /\ request'[r].written \in Nat /\ request'[r].labelled = request'[r].written
    /\ UNCHANGED <<usage, chat, clock, starts, tally>>

(* any other step of one request                                            *)
Moved(r, pc, at, written) ==
    /\ OthersStay(r)
    /\ DOMAIN request'[r] = DOMAIN Idle
    /\ request'[r].pc = pc /\ request'[r].id = request[r].id /\ request'[r].at = at
    /\ request'[r].written = written /\ request'[r].labelled = written
    /\ request'[r].conversation = IF pc = "idle" THEN None ELSE request[r].conversation

LEMMA SetMoves ==
    ASSUME Shape, NEW r \in Requests, NEW pc, NEW at,
           \/ Set(r, "pc", pc) /\ at = request[r].at
           \/ Becomes(r, [request[r] EXCEPT !.pc = pc, !.at = at])
    PROVE  Moved(r, pc, at, request[r].written) \/ pc = "idle"
PROOF
<1>0. DOMAIN request = Requests /\ DOMAIN request[r] = DOMAIN Idle /\ request[r].labelled = request[r].written
  BY DEF Shape, RequestOK
<1> DEFINE q == [request[r] EXCEPT !.pc = pc, !.at = at]
           p == [request[r] EXCEPT !.pc = pc]
<1>1. /\ DOMAIN q = DOMAIN Idle /\ q.pc = pc /\ q.id = request[r].id /\ q.at = at
      /\ q.written = request[r].written /\ q.labelled = request[r].labelled
      /\ q.conversation = request[r].conversation
  BY <1>0 DEF Idle
<1>2. /\ DOMAIN p = DOMAIN Idle /\ p.pc = pc /\ p.id = request[r].id /\ p.at = request[r].at
      /\ p.written = request[r].written /\ p.labelled = request[r].labelled
      /\ p.conversation = request[r].conversation
  BY <1>0 DEF Idle
<1>3. request' = [request EXCEPT ![r] = q] \/ (request' = [request EXCEPT ![r] = p] /\ at = request[r].at)
  BY <1>0 DEF Set, Becomes
<1> HIDE DEF q, p
<1>4. OthersStay(r) /\ request'[r] \in {q, p} /\ (request'[r] = p => at = request[r].at \/ p = q)
  BY <1>0, <1>3 DEF OthersStay
<1>5. CASE request'[r] = q
  BY <1>0, <1>1, <1>4, <1>5 DEF Moved
<1>6. CASE request'[r] = p /\ at = request[r].at
  BY <1>0, <1>2, <1>4, <1>6 DEF Moved
<1> QED BY <1>1, <1>2, <1>3, <1>4, <1>5, <1>6

LEMMA OverMoves ==
    ASSUME Shape, NEW r \in Requests, Becomes(r, Over(r))
    PROVE  Moved(r, "idle", 0, 0)
PROOF
<1> DEFINE q == [Idle EXCEPT !.id = request[r].id]
<1>1. /\ DOMAIN q = DOMAIN Idle /\ q.pc = "idle" /\ q.id = request[r].id /\ q.at = 0
      /\ q.written = 0 /\ q.labelled = 0 /\ q.conversation = None
  BY DEF Idle
<1>2. DOMAIN request = Requests /\ request' = [request EXCEPT ![r] = q]
  BY DEF Shape, Becomes, Over
<1> HIDE DEF q
<1>3. OthersStay(r) /\ request'[r] = q
  BY <1>2 DEF OthersStay
<1> QED BY <1>1, <1>3 DEF Moved

LEMMA PieceWorks ==
    ASSUME Shape, NEW r \in Requests, request[r].pc \in InRun,
           NEW n \in Nat, NEW m \in Nat, n = m, PieceDone(r, n, m),
           UNCHANGED <<usage, chat, clock, starts, tally>>
    PROVE  Works(r) /\ request'[r].pc # "send"
PROOF
<1> DEFINE pc == IF request[r].piece + 1 < Pieces(request[r].kind) THEN "begin"
                 ELSE IF request[r].kind = "chat" THEN "settle" ELSE "save"
           q == [request[r] EXCEPT !.pc = pc, !.piece = request[r].piece + 1, !.attempt = 0, !.key = None,
                                   !.written = request[r].written + n,
                                   !.labelled = request[r].labelled + m]
<1>0. /\ DOMAIN request = Requests /\ DOMAIN request[r] = DOMAIN Idle
      /\ request[r].written \in Nat /\ request[r].labelled = request[r].written
  BY DEF Shape, RequestOK
<1>1. request' = [request EXCEPT ![r] = q]
  BY DEF PieceDone, Becomes
<1>2. pc \in {"begin", "settle", "save"}
  OBVIOUS
<1> HIDE DEF pc
<1>3. /\ DOMAIN q = DOMAIN Idle /\ q.pc = pc /\ q.id = request[r].id /\ q.at = request[r].at
      /\ q.written = request[r].written + n /\ q.labelled = request[r].labelled + m
      /\ q.conversation = request[r].conversation
  BY <1>0 DEF Idle
<1> HIDE DEF q
<1>4. OthersStay(r) /\ request'[r] = q
  BY <1>0, <1>1 DEF OthersStay
<1>5. q.written \in Nat /\ q.labelled = q.written
  BY <1>0, <1>3
<1>6. q.pc \in InRun /\ q.pc # "send"
  BY <1>2, <1>3 DEF InRun
<1> QED BY <1>3, <1>4, <1>5, <1>6 DEF Works

(* A call under way goes on with its key, a new one has a key not refused.  *)
Calm(r) ==
    /\ refused' = refused /\ refusals' = refusals
    /\ request'[r].pc = "send" =>
           /\ request'[r].key \in Keys
           /\ \/ request'[r].key \notin refused
              \/ request[r].pc = "send" /\ request[r].key = request'[r].key

WorkStep(r) == Prepare(r) \/ Calling(r) \/ SaveDrafts(r) \/ FailsInRun(r)

LEMMA WorkWorks ==
    ASSUME Shape, Rests, NEW r \in Requests, WorkStep(r)
    PROVE  /\ Works(r)
           /\ Calm(r) \/ (Unauthorized(r) /\ request'[r].pc # "send")
           /\ {key', agentKey'} \subseteq Keys \cup {None}
PROOF
<1>0. /\ DOMAIN request = Requests /\ DOMAIN request[r] = DOMAIN Idle
      /\ request[r].written \in Nat /\ request[r].labelled = request[r].written
      /\ {key, agentKey} \subseteq Keys \cup {None}
      /\ request[r].pc = "send" => request[r].key \in Keys
  BY DEF Shape, RequestOK
<1> DEFINE Quiet == UNCHANGED <<usage, chat, clock, starts, tally>>
           Same == refused' = refused /\ refusals' = refusals /\ {key', agentKey'} \subseteq Keys \cup {None}
           Sends(q) == q.pc = "send" => /\ q.key \in Keys
                                        /\ \/ q.key \notin refused
                                           \/ request[r].pc = "send" /\ request[r].key = q.key
(* the steps that end a piece                                               *)
<1>1. ASSUME NEW n \in Nat, PieceDone(r, n, n), Quiet, Same, request[r].pc \in InRun
      PROVE  Works(r) /\ Calm(r) /\ {key', agentKey'} \subseteq Keys \cup {None}
  <2>1. Works(r) /\ request'[r].pc # "send"
    BY <1>1, PieceWorks
  <2> QED BY <1>1, <2>1 DEF Calm
(* the other ones                                                           *)
<1>2. ASSUME NEW q, Becomes(r, q), Quiet, Same, request[r].pc \in InRun, q.pc \in InRun,
             DOMAIN q = DOMAIN Idle, q.id = request[r].id, q.at = request[r].at,
             q.conversation = request[r].conversation, q.written = request[r].written,
             q.labelled = request[r].labelled, Sends(q)
      PROVE  Works(r) /\ Calm(r) /\ {key', agentKey'} \subseteq Keys \cup {None}
  <2>1. OthersStay(r) /\ request'[r] = q
    BY <1>0, <1>2 DEF OthersStay, Becomes
  <2>2. Works(r)
    BY <1>0, <1>2, <2>1 DEF Works
  <2>3. Calm(r)
    BY <1>2, <2>1 DEF Calm
  <2> QED BY <1>2, <2>2, <2>3
<1>3. CASE Prepare(r)
  <2> DEFINE q == [request[r] EXCEPT !.pc = "begin"]
  <2>1. Becomes(r, q) /\ Quiet /\ Same /\ request[r].pc \in InRun
    BY <1>0, <1>3 DEF Prepare, Set, Becomes, bounds, InRun
  <2>2. /\ DOMAIN q = DOMAIN Idle /\ q.pc = "begin" /\ q.id = request[r].id /\ q.at = request[r].at
        /\ q.conversation = request[r].conversation /\ q.written = request[r].written
        /\ q.labelled = request[r].labelled
    BY <1>0 DEF Idle
  <2>3. "begin" \in InRun
    BY DEF InRun
  <2> HIDE DEF q
  <2> QED BY <1>2, <2>1, <2>2, <2>3
<1>4. CASE AnswerLocally(r)
  <2>1. PieceDone(r, 0, 0) /\ Quiet /\ Same /\ request[r].pc \in InRun
    BY <1>0, <1>4 DEF AnswerLocally, bounds, llm, InRun
  <2> QED BY <1>1, <2>1
<1>5. CASE BeginCall(r)
  <2> DEFINE k == ClientKey(r)
             q == [request[r] EXCEPT !.pc = "send", !.key = k, !.attempt = 1]
  <2>1. /\ \/ PieceDone(r, 0, 0)
           \/ k # None /\ k \notin refused /\ Becomes(r, q)
        /\ Quiet /\ Same /\ request[r].pc \in InRun
    BY <1>0, <1>5 DEF BeginCall, bounds, llm, InRun
  <2>2. k \in Keys \cup {None}
    BY <1>0 DEF ClientKey
  <2>3. /\ DOMAIN q = DOMAIN Idle /\ q.pc = "send" /\ q.id = request[r].id /\ q.at = request[r].at
        /\ q.conversation = request[r].conversation /\ q.written = request[r].written
        /\ q.labelled = request[r].labelled /\ q.key = k
    BY <1>0 DEF Idle
  <2>4. "send" \in InRun
    BY DEF InRun
  <2> HIDE DEF q, k
  <2> QED BY <1>1, <1>2, <2>1, <2>2, <2>3, <2>4
<1>6. CASE Complete(r)
  <2>1. PieceDone(r, 1, 1) /\ Quiet /\ Same /\ request[r].pc \in InRun
    BY <1>0, <1>6 DEF Complete, bounds, llm, InRun
  <2> QED BY <1>1, <2>1
<1>7. CASE Unusable(r)
  <2>1. PieceDone(r, 0, 0) /\ Quiet /\ Same /\ request[r].pc \in InRun
    BY <1>0, <1>7 DEF Unusable, bounds, llm, InRun
  <2> QED BY <1>1, <2>1
<1>8. CASE Retry(r)
  <2> DEFINE q == [request[r] EXCEPT !.attempt = request[r].attempt + 1]
  <2>1. Becomes(r, q) /\ Quiet /\ Same /\ request[r].pc \in InRun /\ request[r].pc = "send"
    BY <1>0, <1>8 DEF Retry, Set, Becomes, bounds, llm, InRun
  <2>2. /\ DOMAIN q = DOMAIN Idle /\ q.pc = request[r].pc /\ q.id = request[r].id /\ q.at = request[r].at
        /\ q.conversation = request[r].conversation /\ q.written = request[r].written
        /\ q.labelled = request[r].labelled /\ q.key = request[r].key
    BY <1>0 DEF Idle
  <2> HIDE DEF q
  <2> QED BY <1>0, <1>2, <2>1, <2>2
<1>9. CASE GiveUp(r)
  <2> DEFINE q == [request[r] EXCEPT !.pc = "begin", !.image = FALSE, !.attempt = 0, !.key = None]
  <2>1. /\ PieceDone(r, 0, 0) \/ Becomes(r, q)
        /\ Quiet /\ Same /\ request[r].pc \in InRun
    BY <1>0, <1>9 DEF GiveUp, bounds, llm, InRun
  <2>2. /\ DOMAIN q = DOMAIN Idle /\ q.pc = "begin" /\ q.id = request[r].id /\ q.at = request[r].at
        /\ q.conversation = request[r].conversation /\ q.written = request[r].written
        /\ q.labelled = request[r].labelled
    BY <1>0 DEF Idle
  <2>3. "begin" \in InRun
    BY DEF InRun
  <2> HIDE DEF q
  <2> QED BY <1>1, <1>2, <2>1, <2>2, <2>3
<1>10. CASE Unauthorized(r)
  <2>1. PieceDone(r, 0, 0) /\ Quiet /\ request[r].pc \in InRun /\ key' = key /\ agentKey' = agentKey
    BY <1>10 DEF Unauthorized, bounds, InRun
  <2>2. Works(r) /\ request'[r].pc # "send"
    BY <2>1, PieceWorks
  <2> QED BY <1>0, <1>10, <2>1, <2>2
<1>11. CASE SaveDrafts(r)
  <2> DEFINE q == [request[r] EXCEPT !.pc = "settle"]
  <2>1. Becomes(r, q) /\ Quiet /\ Same /\ request[r].pc \in InRun
    BY <1>0, <1>11 DEF SaveDrafts, Set, Becomes, bounds, llm, InRun
  <2>2. /\ DOMAIN q = DOMAIN Idle /\ q.pc = "settle" /\ q.id = request[r].id /\ q.at = request[r].at
        /\ q.conversation = request[r].conversation /\ q.written = request[r].written
        /\ q.labelled = request[r].labelled
    BY <1>0 DEF Idle
  <2>3. "settle" \in InRun
    BY DEF InRun
  <2> HIDE DEF q
  <2> QED BY <1>2, <2>1, <2>2, <2>3
<1>12. CASE FailsInRun(r)
  <2> DEFINE q == [request[r] EXCEPT !.pc = "refund"]
  <2>1. Becomes(r, q) /\ Quiet /\ Same /\ request[r].pc \in InRun
    BY <1>0, <1>12 DEF FailsInRun, Returns, Set, Becomes, llm, InRun
  <2>2. /\ DOMAIN q = DOMAIN Idle /\ q.pc = "refund" /\ q.id = request[r].id /\ q.at = request[r].at
        /\ q.conversation = request[r].conversation /\ q.written = request[r].written
        /\ q.labelled = request[r].labelled
    BY <1>0 DEF Idle
  <2>3. "refund" \in InRun
    BY DEF InRun
  <2> HIDE DEF q
  <2> QED BY <1>2, <2>1, <2>2, <2>3
<1> QED BY <1>3, <1>4, <1>5, <1>6, <1>7, <1>8, <1>9, <1>10, <1>11, <1>12 DEF WorkStep, Calling

-------------------------------------------------------------------------------
(* The keys *)

LEMMA CalmRests ==
    ASSUME Shape, Rests, NEW r \in Requests, OthersStay(r), Calm(r)
    PROVE  Rests'
PROOF
<1> SUFFICES ASSUME NEW k \in Keys, k \in refused
             PROVE  Cardinality(Sending(k)') <= Cardinality(Sending(k))
  <2>1. \A k \in Keys : Cardinality(Sending(k)) \in Nat /\ Cardinality(Requests) \in Nat
    BY SendingFinite
  <2>2. \A k \in Keys : Cardinality(Sending(k)') \in Nat
    <3> TAKE k \in Keys
    <3>1. Sending(k)' \subseteq Requests
      BY DEF Sending
    <3> QED BY <3>1, RequestsAssumption, FS_Subset, FS_CardinalityType
  <2>3. refused' = refused /\ refusals' = refusals
    BY DEF Calm
  <2> HIDE DEF Sending
  <2> QED BY <2>1, <2>2, <2>3 DEF Rests
<1>1. Sending(k)' \subseteq Sending(k)
  BY DEF Sending, OthersStay, Calm
<1> QED BY <1>1, SendingFinite, FS_Subset

LEMMA UnauthorizedRests ==
    ASSUME Shape, Rests, NEW r \in Requests, OthersStay(r), Unauthorized(r), request'[r].pc # "send"
    PROVE  Rests'
PROOF
<1>1. PICK k \in Keys : k = request[r].key /\ request[r].pc = "send"
  BY DEF Unauthorized, Shape, RequestOK
<1>2. refused' = refused \cup {k} /\ refusals' = [refusals EXCEPT ![k] = refusals[k] + 1]
  BY <1>1 DEF Unauthorized
<1>3. r \in Sending(k)
  BY <1>1 DEF Sending
<1>4. Sending(k)' = Sending(k) \ {r}
  <2>1. r \notin Sending(k)'
    BY DEF Sending
  <2>2. \A s \in Requests \ {r} : s \in Sending(k)' <=> s \in Sending(k)
    BY DEF Sending, OthersStay
  <2>3. Sending(k) \subseteq Requests /\ Sending(k)' \subseteq Requests
    BY DEF Sending
  <2> QED BY <2>1, <2>2, <2>3
<1>5. \A j \in Keys \ {k} : Sending(j)' = Sending(j)
  BY <1>1 DEF Sending, OthersStay
<1>6. /\ Cardinality(Sending(k)') = Cardinality(Sending(k)) - 1
      /\ Cardinality(Sending(k)) \in Nat /\ Cardinality(Sending(k)) <= Cardinality(Requests)
      /\ Cardinality(Requests) \in Nat
  BY <1>3, <1>4, SendingFinite, Leaves
<1>7. refusals \in [Keys -> Nat] /\ refused \subseteq Keys
  BY DEF Rests
<1>8. refusals'[k] + Cardinality(Sending(k)') <= Cardinality(Requests)
  BY <1>1, <1>2, <1>6, <1>7 DEF Rests
<1>9. ASSUME NEW j \in Keys \ {k}
      PROVE  /\ j \notin refused' => refusals'[j] = 0
             /\ j \in refused' => refusals'[j] + Cardinality(Sending(j)') <= Cardinality(Requests)
  <2>1. refusals'[j] = refusals[j] /\ (j \in refused' <=> j \in refused)
    BY <1>2, <1>7
  <2> QED BY <1>5, <2>1 DEF Rests
<1>10. refused' \subseteq Keys /\ refusals' \in [Keys -> Nat] /\ k \in refused'
  BY <1>1, <1>2, <1>7
<1>11. \A j \in Keys :
           /\ j \notin refused' => refusals'[j] = 0
           /\ j \in refused' => refusals'[j] + Cardinality(Sending(j)') <= Cardinality(Requests)
  BY <1>8, <1>9, <1>10
<1> QED BY <1>10, <1>11 DEF Rests

-------------------------------------------------------------------------------
(* The conversations *)

(* The conversations stay as they are: a request at work had asked before,  *)
(* or it is a new one; one that ends has failed, or has no conversation.    *)
Follows(r) ==
    /\ request'[r].pc # "idle" =>
           \/ request'[r].id = starts + 1 /\ request'[r].pc \notin HasAsked
           \/ request'[r].id = starts + 1 /\ request'[r].conversation = None
           \/ /\ request[r].pc # "idle" /\ request'[r].id = request[r].id
              /\ request'[r].conversation = request[r].conversation
              /\ request'[r].pc \in {"read", "question"} => request[r].pc \in {"read", "question"}
              /\ request'[r].pc \in HasAsked =>
                     request[r].pc \in HasAsked \/ request[r].conversation = None
              /\ request'[r].pc = "reply" =>
                     \/ request[r].pc = "reply" /\ request'[r].at = request[r].at
                     \/ request'[r].at = clock
    /\ request[r].pc # "idle" =>
           \/ request'[r].pc # "idle" /\ request'[r].id = request[r].id
           \/ request[r].id \in failed'
           \/ request[r].conversation = None

LEMMA TalkGoesOn ==
    ASSUME Shape, Talk, messages' = messages, title' = title,
           starts' \in Nat, starts' >= starts, clock' \in Nat, clock' >= clock,
           failed \subseteq failed', \A r \in Requests : Follows(r)
    PROVE  Talk'
PROOF
<1>0. starts \in Nat /\ clock \in Nat /\ None \notin Conversations
      /\ \A c \in Conversations : \A m \in messages[c] : m.of \in Nat /\ m.at \in Nat
  BY AssistantAssumption DEF Shape, Talk, TalkTypes, Message
<1>1. TalkTypes' /\ RepliesFollow'
  BY DEF Talk, TalkTypes, RepliesFollow
<1>2. Numbered'
  <2> SUFFICES ASSUME NEW c \in Conversations, NEW m \in messages[c]
               PROVE  /\ m.of \in 1..starts' /\ m.at < clock'
                      /\ \A r \in Requests : request'[r].pc # "idle" /\ m.of = request'[r].id =>
                             /\ m.role = "user" /\ request'[r].conversation = c
                             /\ request'[r].pc \notin {"read", "question"}
    BY DEF Numbered, Busy
  <2>1. /\ m.of \in 1..starts /\ m.at < clock /\ m.at \in Nat
        /\ \A r \in Requests : request[r].pc # "idle" /\ m.of = request[r].id =>
               /\ m.role = "user" /\ request[r].conversation = c
               /\ request[r].pc \notin {"read", "question"}
    BY <1>0 DEF Talk, Numbered, Busy
  <2>2. m.of \in 1..starts' /\ m.at < clock'
    BY <1>0, <2>1
  <2>3. m.of # starts + 1
    BY <1>0, <2>1
  <2>4. ASSUME NEW r \in Requests, request'[r].pc # "idle", m.of = request'[r].id
        PROVE  /\ m.role = "user" /\ request'[r].conversation = c
               /\ request'[r].pc \notin {"read", "question"}
    BY <2>1, <2>3, <2>4 DEF Follows
  <2> QED BY <2>2, <2>4
<1>3. Asked'
  <2> SUFFICES ASSUME NEW r \in Requests, request'[r].pc \in HasAsked, request'[r].conversation # None
               PROVE  \E q \in messages[request'[r].conversation] :
                          /\ q.role = "user" /\ q.of = request'[r].id
                          /\ request'[r].pc = "reply" => q.at < request'[r].at
    BY DEF Asked, HasAsked, InRun
  <2>1. request'[r].pc # "idle"
    BY DEF HasAsked, InRun
  <2>2. /\ request[r].pc \in HasAsked /\ request'[r].id = request[r].id
        /\ request'[r].conversation = request[r].conversation
        /\ request'[r].pc = "reply" =>
               \/ request[r].pc = "reply" /\ request'[r].at = request[r].at
               \/ request'[r].at = clock
    BY <2>1 DEF Follows
  <2>3. PICK q \in messages[request[r].conversation] :
          /\ q.role = "user" /\ q.of = request[r].id
          /\ request[r].pc = "reply" => q.at < request[r].at
    BY <2>2 DEF Talk, Asked
  <2>4. request[r].conversation \in Conversations
    BY <2>2 DEF Shape, RequestOK
  <2>5. q.at < clock /\ q.at \in Nat
    BY <1>0, <2>4 DEF Talk, Numbered
  <2>6. request'[r].pc = "reply" => q.at < request'[r].at
    <3>1. CASE request[r].pc = "reply" /\ request'[r].at = request[r].at
      BY <2>3, <3>1
    <3>2. CASE request'[r].at = clock
      BY <2>5, <3>2
    <3> QED BY <2>2, <3>1, <3>2
  <2> QED BY <2>2, <2>3, <2>6
<1>4. QuestionsAnswered'
  <2> SUFFICES ASSUME NEW c \in Conversations, NEW q \in messages[c]
               PROVE  \/ \E m \in messages[c] : m.role = "assistant" /\ m.of = q.of
                      \/ q.of \in failed'
                      \/ \E r \in Requests : request'[r].pc # "idle" /\ request'[r].id = q.of
    BY DEF QuestionsAnswered, Busy
  <2>1. CASE \E r \in Requests : request[r].pc # "idle" /\ request[r].id = q.of
    <3>1. PICK r \in Requests : request[r].pc # "idle" /\ request[r].id = q.of
      BY <2>1
    <3>2. request[r].conversation = c
      BY <3>1 DEF Talk, Numbered, Busy
    <3> QED BY <1>0, <3>1, <3>2 DEF Follows
  <2>2. CASE ~ \E r \in Requests : request[r].pc # "idle" /\ request[r].id = q.of
    BY <2>2 DEF Talk, QuestionsAnswered, Busy
  <2> QED BY <2>1, <2>2
<1> QED BY <1>1, <1>2, <1>3, <1>4 DEF Talk

-------------------------------------------------------------------------------
(* The runs *)

(* the counts, as numbers                                                   *)
LEMMA CountNumbers ==
    ASSUME Count
    PROVE  /\ usage.runs \in Nat /\ answered \in Nat /\ unanswered \in Nat /\ stranded \in Nat
           /\ Cardinality(Holding) \in Nat /\ Cardinality(Replying) \in Nat
           /\ Owed \in Nat /\ extra \in Nat
           /\ usage.runs <= Owed /\ Owed <= usage.runs + extra
           /\ usage.ends \in {-1, 1} /\ (usage.ends = -1 => usage.runs = 0 /\ extra = 0)
PROOF
<1>1. /\ usage.runs \in Nat /\ answered \in Nat /\ unanswered \in Nat /\ stranded \in Nat /\ extra \in Nat
      /\ Cardinality(Holding) \in Nat /\ Cardinality(Replying) \in Nat
  BY HoldingFinite DEF Count
<1>2. Owed \in Nat
  BY <1>1 DEF Owed
<1>3. usage.runs <= Owed /\ Owed <= usage.runs + extra
  BY DEF Count, Charged, Owed
<1> QED BY <1>1, <1>2, <1>3 DEF Count

LEMMA CountedOne ==
    ASSUME Count
    PROVE  /\ Counted \in [runs : Nat, ends : {-1, 1}]
           /\ Counted.ends = 1 /\ Counted.runs = usage.runs + 1
PROOF
<1>1. usage \in [runs : Nat, ends : {-1, 1}] /\ (usage.ends = -1 => usage.runs = 0)
  BY DEF Count
<1>2. CASE usage.ends < 0
  <2>1. usage.ends = -1
    BY <1>1, <1>2
  <2>2. Counted = [runs |-> 1, ends |-> 1]
    BY <1>2 DEF Counted
  <2> QED BY <1>1, <2>1, <2>2
<1>3. CASE ~(usage.ends < 0)
  <2>1. usage.ends = 1
    BY <1>1, <1>3
  <2>2. Counted = [usage EXCEPT !.runs = usage.runs + 1]
    BY <1>3 DEF Counted
  <2> QED BY <1>1, <2>1, <2>2
<1> QED BY <1>2, <1>3

LEMMA ReleasedOne ==
    ASSUME Count
    PROVE  /\ Released \in [runs : Nat, ends : {-1, 1}]
           /\ Released.ends = usage.ends
           /\ Released.runs = IF usage.runs > 0 THEN usage.runs - 1 ELSE 0
PROOF
<1>1. usage \in [runs : Nat, ends : {-1, 1}]
  BY DEF Count
<1>2. CASE usage.runs > 0
  <2>1. Released = [usage EXCEPT !.runs = usage.runs - 1]
    BY <1>2 DEF Released
  <2>2. usage.runs - 1 \in Nat
    BY <1>1, <1>2
  <2> QED BY <1>1, <1>2, <2>1, <2>2
<1>3. CASE ~(usage.runs > 0)
  <2>1. Released = usage /\ usage.runs = 0
    BY <1>1, <1>3 DEF Released
  <2> QED BY <1>1, <1>3, <2>1
<1> QED BY <1>2, <1>3

(* A step that leaves the runs alone, takes one, gives one back, or gives   *)
(* one back that is not held any more, keeps the count.                     *)
LEMMA CountKept ==
    ASSUME Count, answered' \in Nat, unanswered' \in Nat, stranded' \in Nat, Owed' \in Nat,
           \/ usage' = usage /\ extra' = extra /\ Owed' = Owed
           \/ usage' = Counted /\ extra' = extra /\ Owed' = Owed + 1
           \/ usage' = Released /\ extra' = extra /\ Owed' = Owed - 1
           \/ /\ usage' = Released /\ Owed' = Owed
              /\ extra' = IF Released # usage THEN extra + 1 ELSE extra
    PROVE  Count'
PROOF
<1>1. /\ usage \in [runs : Nat, ends : {-1, 1}] /\ usage.runs \in Nat /\ Owed \in Nat /\ extra \in Nat
      /\ usage.runs <= Owed /\ Owed <= usage.runs + extra
      /\ usage.ends \in {-1, 1} /\ (usage.ends = -1 => usage.runs = 0 /\ extra = 0)
  BY CountNumbers DEF Count
<1>2. Charged' <=> usage'.runs <= Owed' /\ Owed' <= usage'.runs + extra'
  BY DEF Charged, Owed
<1> HIDE DEF Owed
<1>3. CASE usage' = usage /\ extra' = extra /\ Owed' = Owed
  BY <1>1, <1>2, <1>3 DEF Count
<1>4. CASE usage' = Counted /\ extra' = extra /\ Owed' = Owed + 1
  <2>1. usage' \in [runs : Nat, ends : {-1, 1}] /\ usage'.ends = 1 /\ usage'.runs = usage.runs + 1
    BY <1>4, CountedOne
  <2> QED BY <1>1, <1>2, <1>4, <2>1 DEF Count
<1>5. /\ Released \in [runs : Nat, ends : {-1, 1}] /\ Released.ends = usage.ends
      /\ Released.runs = IF usage.runs > 0 THEN usage.runs - 1 ELSE 0
  BY ReleasedOne
<1>6. CASE usage' = Released /\ extra' = extra /\ Owed' = Owed - 1
  <2>1. usage'.runs = IF usage.runs > 0 THEN usage.runs - 1 ELSE 0
    BY <1>5, <1>6
  <2>2. usage'.runs <= Owed' /\ Owed' <= usage'.runs + extra'
    BY <1>1, <1>6, <2>1
  <2> QED BY <1>1, <1>2, <1>5, <1>6, <2>1, <2>2 DEF Count
<1>7. CASE usage' = Released /\ Owed' = Owed /\ extra' = IF Released # usage THEN extra + 1 ELSE extra
  <2>1. Released # usage <=> usage.runs > 0
    <3>1. CASE usage.runs > 0
      BY <1>1, <1>5, <3>1
    <3>2. CASE ~(usage.runs > 0)
      BY <3>2 DEF Released
    <3> QED BY <3>1, <3>2
  <2>2. /\ usage'.runs = IF usage.runs > 0 THEN usage.runs - 1 ELSE 0
        /\ extra' = IF usage.runs > 0 THEN extra + 1 ELSE extra
    BY <1>5, <1>7, <2>1
  <2>3. usage'.runs <= Owed' /\ Owed' <= usage'.runs + extra' /\ extra' \in Nat
    BY <1>1, <1>7, <2>2
  <2>4. usage'.ends = -1 => usage'.runs = 0 /\ extra' = 0
    BY <1>1, <1>5, <1>7, <2>2
  <2> QED BY <1>2, <1>5, <1>7, <2>3, <2>4 DEF Count
<1> QED BY <1>3, <1>4, <1>6, <1>7

-------------------------------------------------------------------------------
(* The four parts are kept by a step within a run *)

LEMMA WorkKeeps ==
    ASSUME IInv, NEW r \in Requests, WorkStep(r)
    PROVE  IInv'
PROOF
<1>0. /\ Works(r) /\ {key', agentKey'} \subseteq Keys \cup {None}
      /\ Calm(r) \/ (Unauthorized(r) /\ request'[r].pc # "send")
      /\ OthersStay(r)
  BY WorkWorks DEF IInv, Works
<1>1. Rests'
  BY <1>0, CalmRests, UnauthorizedRests DEF IInv
<1>2. request'[r].pc = "send" => request'[r].key \in Keys
  BY <1>0 DEF Calm
<1>3. /\ usage' = usage /\ messages' = messages /\ title' = title /\ clock' = clock /\ starts' = starts
      /\ answered' = answered /\ unanswered' = unanswered /\ stranded' = stranded /\ extra' = extra
      /\ failed' = failed
  BY <1>0 DEF Works, chat, tally
<1>4. /\ request[r].pc \notin {"idle", "read", "question", "run", "again", "reply"}
      /\ request'[r].pc \notin {"idle", "read", "question", "run", "again", "reply"}
      /\ request[r].pc \in Steps /\ request'[r].pc \in Steps
  BY <1>0 DEF Works, InRun, Steps
<1>5. Shape'
  <2>1. RequestOK(r)'
    BY <1>0, <1>2, <1>3, <1>4 DEF IInv, Shape, RequestOK, Works
  <2>2. \A s \in Requests \ {r} : RequestOK(s)'
    BY <1>0, <1>3 DEF IInv, Shape, RequestOK, OthersStay
  <2>3. \A s \in Requests : request'[s].id = request[s].id
    BY <1>0 DEF OthersStay, Works
  <2> QED BY <1>0, <1>3, <2>1, <2>2, <2>3 DEF IInv, Shape, OthersStay
<1>6. Count'
  <2>1. Holding' = Holding /\ Replying' = Replying
    BY <1>0, <1>4 DEF Holding, Replying, OthersStay, Works
  <2>2. Owed' = Owed /\ Owed \in Nat
    BY <1>3, <2>1, CountNumbers DEF IInv, Owed
  <2> QED BY <1>3, <2>2, CountNumbers, CountKept DEF IInv
<1>7. Talk'
  <2>1. \A x \in Requests : /\ request'[x].id = request[x].id
                            /\ request'[x].conversation = request[x].conversation
                            /\ request'[x].at = request[x].at
    BY <1>0 DEF OthersStay, Works
  <2>2. \A x \in Requests : \/ request'[x].pc = request[x].pc
                            \/ x = r
    BY <1>0 DEF OthersStay
  <2>3. request[r].pc \in HasAsked /\ request'[r].pc # "reply"
    BY <1>0, <1>4 DEF Works, HasAsked
  <2>4. \A x \in Requests : Follows(x)
    BY <1>3, <1>4, <2>1, <2>2, <2>3 DEF Follows, Shape, IInv
  <2> QED BY <1>3, <2>4, TalkGoesOn DEF IInv, Shape
<1> QED BY <1>1, <1>5, <1>6, <1>7 DEF IInv

-------------------------------------------------------------------------------
(* Shape and Count are kept by the other steps of one request *)

LEMMA MovedShape ==
    ASSUME Shape, NEW r \in Requests, NEW pc \in Steps, NEW at \in Nat, NEW written \in Nat,
           Moved(r, pc, at, written),
           pc # "idle" => request[r].id # 0,
           pc \in {"read", "question", "reply"} => request[r].conversation # None,
           pc \in {"question", "reply"} => at < clock', pc # "send",
           starts' = starts, clock' \in Nat, clock' >= clock,
           {key', agentKey'} \subseteq Keys \cup {None}
    PROVE  Shape'
PROOF
<1>1. OthersStay(r) /\ request'[r].id = request[r].id
  BY DEF Moved
<1>2. RequestOK(r)'
  BY DEF Moved, Shape, RequestOK
<1>3. ASSUME NEW s \in Requests \ {r} PROVE RequestOK(s)'
  <2>1. request'[s] = request[s]
    BY <1>1 DEF OthersStay
  <2>2. request[s].at \in Nat /\ (request[s].pc \in {"question", "reply"} => request[s].at < clock)
    BY DEF Shape, RequestOK
  <2>3. request[s].pc \in {"question", "reply"} => request[s].at < clock'
    BY <2>2 DEF Shape
  <2> QED BY <2>1, <2>3 DEF Shape, RequestOK
<1>4. \A s \in Requests : request'[s].id = request[s].id
  BY <1>1 DEF OthersStay
<1> QED BY <1>1, <1>2, <1>3, <1>4 DEF Shape, OthersStay

(* what a move does to the requests within a run and those about to reply   *)
LEMMA MovedCount ==
    ASSUME NEW r \in Requests, OthersStay(r)
    PROVE  /\ Cardinality(Holding)' = Cardinality(Holding)
                  + (IF request'[r].pc \in InRun THEN 1 ELSE 0) - (IF request[r].pc \in InRun THEN 1 ELSE 0)
           /\ Cardinality(Replying)' = Cardinality(Replying)
                  + (IF request'[r].pc = "reply" /\ request'[r].written > 0 THEN 1 ELSE 0)
                  - (IF request[r].pc = "reply" /\ request[r].written > 0 THEN 1 ELSE 0)
           /\ Cardinality(Holding) \in Nat /\ (request[r].pc \in InRun => Cardinality(Holding) > 0)
           /\ Cardinality(Replying) \in Nat /\ Cardinality(Replying)' \in Nat
PROOF
<1>1. Holding \subseteq Requests /\ Replying \subseteq Requests
  BY DEF Holding, Replying
<1>2. IsFiniteSet(Holding \ {r}) /\ IsFiniteSet(Replying \ {r})
  BY <1>1, RequestsAssumption, FS_Subset
<1> DEFINE H == Holding \ {r}
           P == Replying \ {r}
<1>3. /\ Holding = IF request[r].pc \in InRun THEN H \cup {r} ELSE H
      /\ Replying = IF request[r].pc = "reply" /\ request[r].written > 0 THEN P \cup {r} ELSE P
  BY DEF Holding, Replying
<1>4. \A s \in Requests \ {r} : /\ s \in Holding' <=> s \in Holding
                                /\ s \in Replying' <=> s \in Replying
  BY DEF Holding, Replying, OthersStay
<1>5. /\ r \in Holding' <=> request'[r].pc \in InRun
      /\ r \in Replying' <=> request'[r].pc = "reply" /\ request'[r].written > 0
  BY DEF Holding, Replying
<1>6. Holding' \subseteq Requests /\ Replying' \subseteq Requests
  BY DEF Holding, Replying
<1>7. Holding' = IF request'[r].pc \in InRun THEN H \cup {r} ELSE H
  BY <1>1, <1>4, <1>5, <1>6
<1>8. Replying' = IF request'[r].pc = "reply" /\ request'[r].written > 0 THEN P \cup {r} ELSE P
  BY <1>1, <1>4, <1>5, <1>6
<1>9. /\ Cardinality(H \cup {r}) = Cardinality(H) + 1 /\ Cardinality(P \cup {r}) = Cardinality(P) + 1
      /\ Cardinality(H) \in Nat /\ Cardinality(P) \in Nat
  BY <1>2, Enters, FS_CardinalityType
<1>10. /\ Cardinality(Holding)' = IF request'[r].pc \in InRun THEN Cardinality(H) + 1 ELSE Cardinality(H)
       /\ Cardinality(Holding) = IF request[r].pc \in InRun THEN Cardinality(H) + 1 ELSE Cardinality(H)
  BY <1>3, <1>7, <1>9
<1>11. /\ Cardinality(Replying)' = IF request'[r].pc = "reply" /\ request'[r].written > 0
                                   THEN Cardinality(P) + 1 ELSE Cardinality(P)
       /\ Cardinality(Replying) = IF request[r].pc = "reply" /\ request[r].written > 0
                                  THEN Cardinality(P) + 1 ELSE Cardinality(P)
  BY <1>3, <1>8, <1>9
<1> HIDE DEF H, P
<1> QED BY <1>9, <1>10, <1>11

-------------------------------------------------------------------------------
(* The other steps *)

LEMMA OtherFollows ==
    ASSUME Shape, NEW r \in Requests, OthersStay(r), Follows(r)
    PROVE  \A s \in Requests : Follows(s)
PROOF
<1> SUFFICES ASSUME NEW s \in Requests \ {r} PROVE Follows(s)
  OBVIOUS
<1>1. request'[s] = request[s]
  BY DEF OthersStay
<1> QED BY <1>1 DEF Follows

LEMMA NotSendingRests ==
    ASSUME Shape, Rests, NEW r \in Requests, OthersStay(r), request'[r].pc # "send",
           refused' = refused, refusals' = refusals
    PROVE  Rests'
PROOF
<1>1. Calm(r)
  BY DEF Calm
<1> QED BY <1>1, CalmRests

LEMMA AskKeeps ==
    ASSUME IInv, NEW r \in Requests, NEW kind, NEW image, NEW c \in Conversations \cup {None},
           Ask(r, kind, image, c)
    PROVE  IInv'
PROOF
<1> DEFINE q == [Idle EXCEPT !.pc = IF c = None THEN "run" ELSE "read", !.kind = kind,
                             !.conversation = c, !.id = starts + 1, !.image = image]
<1>1. /\ DOMAIN q = DOMAIN Idle /\ q.pc = IF c = None THEN "run" ELSE "read"
      /\ q.id = starts + 1 /\ q.at = 0 /\ q.written = 0 /\ q.labelled = 0 /\ q.conversation = c
  BY DEF Idle
<1>2. /\ request' = [request EXCEPT ![r] = q] /\ request[r].pc = "idle"
      /\ starts' = starts + 1 /\ DOMAIN request = Requests /\ starts \in Nat /\ clock \in Nat
  BY DEF Ask, Becomes, IInv, Shape
<1>3. /\ usage' = usage /\ messages' = messages /\ title' = title /\ clock' = clock
      /\ key' = key /\ agentKey' = agentKey /\ refused' = refused /\ refusals' = refusals
      /\ answered' = answered /\ unanswered' = unanswered /\ stranded' = stranded
      /\ extra' = extra /\ failed' = failed
  BY DEF Ask, chat, llm, tally
<1> HIDE DEF q
<1>4. OthersStay(r) /\ request'[r] = q
  BY <1>2 DEF OthersStay
<1>5. Shape'
  <2>1. \A s \in Requests : request[s].id \in 0..starts
    BY DEF IInv, Shape, RequestOK
  <2>2. RequestOK(r)'
    BY <1>1, <1>2, <1>4 DEF RequestOK, Steps
  <2>3. ASSUME NEW s \in Requests \ {r} PROVE RequestOK(s)'
    BY <1>2, <1>3, <1>4 DEF RequestOK, IInv, Shape, OthersStay
  <2>4. \A s, x \in Requests : request'[s].id = request'[x].id /\ request'[s].id # 0 => s = x
    BY <1>1, <1>2, <1>4, <2>1 DEF OthersStay, IInv, Shape
  <2> QED BY <1>2, <1>3, <1>4, <2>2, <2>3, <2>4 DEF OthersStay, IInv, Shape
<1>6. Count'
  <2>1. Cardinality(Holding)' = Cardinality(Holding) /\ Cardinality(Replying)' = Cardinality(Replying)
    BY <1>1, <1>2, <1>4, MovedCount DEF InRun
  <2>2. Owed' = Owed /\ Owed \in Nat
    BY <1>3, <2>1, CountNumbers DEF IInv, Owed
  <2> QED BY <1>3, <2>2, CountNumbers, CountKept DEF IInv
<1>7. Rests'
  BY <1>1, <1>3, <1>4, NotSendingRests DEF IInv
<1>8. Talk'
  <2>1. Follows(r)
    BY <1>1, <1>2, <1>4 DEF Follows, HasAsked, InRun
  <2> QED BY <1>2, <1>3, <1>4, <2>1, OtherFollows, TalkGoesOn DEF IInv
<1> QED BY <1>5, <1>6, <1>7, <1>8 DEF IInv

LEMMA ReadHistoryKeeps ==
    ASSUME IInv, NEW r \in Requests, ReadHistory(r)
    PROVE  IInv'
PROOF
<1>1. /\ Shape /\ clock \in Nat /\ starts \in Nat /\ request[r].pc = "read" /\ request[r].id # 0
      /\ request[r].conversation # None /\ request[r].written \in Nat
      /\ {key, agentKey} \subseteq Keys \cup {None}
  BY DEF ReadHistory, IInv, Shape, RequestOK
<1>2. /\ usage' = usage /\ messages' = messages /\ title' = title /\ clock' = clock + 1 /\ starts' = starts
      /\ key' = key /\ agentKey' = agentKey /\ refused' = refused /\ refusals' = refusals
      /\ answered' = answered /\ unanswered' = unanswered /\ stranded' = stranded
      /\ extra' = extra /\ failed' = failed
  BY DEF ReadHistory, chat, llm, tally, bounds
<1>3. Moved(r, "question", clock, request[r].written)
  BY <1>1, SetMoves DEF ReadHistory
<1>4. OthersStay(r) /\ request'[r].pc = "question" /\ request'[r].id = request[r].id
      /\ request'[r].conversation = request[r].conversation
  BY <1>3 DEF Moved
<1>5. Shape'
  <2>1. "question" \in Steps
    BY DEF Steps
  <2>2. clock < clock' /\ clock' >= clock /\ clock' \in Nat
    BY <1>1, <1>2
  <2> QED BY <1>1, <1>2, <1>3, <2>1, <2>2, MovedShape
<1>6. Count'
  <2>1. Cardinality(Holding)' = Cardinality(Holding) /\ Cardinality(Replying)' = Cardinality(Replying)
    BY <1>1, <1>4, MovedCount DEF InRun
  <2>2. Owed' = Owed /\ Owed \in Nat
    BY <1>2, <2>1, CountNumbers DEF IInv, Owed
  <2> QED BY <1>2, <2>2, CountNumbers, CountKept DEF IInv
<1>7. Rests'
  BY <1>2, <1>4, NotSendingRests DEF IInv
<1>8. Talk'
  <2>1. Follows(r)
    BY <1>1, <1>4 DEF Follows, HasAsked, InRun
  <2> QED BY <1>1, <1>2, <1>4, <2>1, OtherFollows, TalkGoesOn DEF IInv
<1> QED BY <1>5, <1>6, <1>7, <1>8 DEF IInv

LEMMA TakeRunKeeps ==
    ASSUME IInv, NEW r \in Requests, TakeRun(r)
    PROVE  IInv'
PROOF
<1>1. /\ Shape /\ clock \in Nat /\ starts \in Nat /\ request[r].pc = "run" /\ request[r].id # 0
      /\ request[r].written \in Nat /\ request[r].at \in Nat
      /\ {key, agentKey} \subseteq Keys \cup {None}
  BY DEF TakeRun, IInv, Shape, RequestOK
<1>2. /\ usage' = Counted /\ messages' = messages /\ title' = title /\ clock' = clock /\ starts' = starts
      /\ key' = key /\ agentKey' = agentKey /\ refused' = refused /\ refusals' = refusals
      /\ answered' = answered /\ unanswered' = unanswered /\ stranded' = stranded
      /\ extra' = extra /\ failed' = failed
  BY DEF TakeRun, chat, llm, tally, bounds
<1>3. PICK pc \in {"begin", "prepare"} : Set(r, "pc", pc)
  BY DEF TakeRun
<1>4. Moved(r, pc, request[r].at, request[r].written)
  BY <1>1, <1>3, SetMoves
<1>5. OthersStay(r) /\ request'[r].pc = pc /\ request'[r].id = request[r].id
      /\ request'[r].conversation = request[r].conversation
  BY <1>3, <1>4 DEF Moved
<1>6. pc \in InRun /\ pc \notin {"idle", "read", "question", "run", "reply", "send"} /\ pc \in Steps
  BY <1>3 DEF InRun, Steps
<1>7. Shape'
  BY <1>1, <1>2, <1>4, <1>6, MovedShape
<1>8. Count'
  <2>1. Cardinality(Holding)' = Cardinality(Holding) + 1 /\ Cardinality(Replying)' = Cardinality(Replying)
    BY <1>1, <1>5, <1>6, MovedCount DEF InRun
  <2>2. Owed' = Owed + 1 /\ Owed \in Nat
    BY <1>2, <2>1, CountNumbers DEF IInv, Owed
  <2> QED BY <1>2, <2>2, CountNumbers, CountKept DEF IInv
<1>9. Rests'
  BY <1>2, <1>5, <1>6, NotSendingRests DEF IInv
<1>10. Talk'
  <2>1. Follows(r)
    BY <1>1, <1>5, <1>6 DEF Follows, HasAsked
  <2> QED BY <1>1, <1>2, <1>5, <2>1, OtherFollows, TalkGoesOn DEF IInv
<1> QED BY <1>7, <1>8, <1>9, <1>10 DEF IInv

(* a request ends, without an answer stored                                 *)
LEMMA EndKeepsShape ==
    ASSUME Shape, Rests, NEW r \in Requests, Becomes(r, Over(r)),
           starts' = starts, clock' = clock, UNCHANGED llm
    PROVE  /\ Shape' /\ Rests' /\ OthersStay(r) /\ request'[r].pc = "idle"
           /\ Cardinality(Holding)' = Cardinality(Holding) - (IF request[r].pc \in InRun THEN 1 ELSE 0)
           /\ Cardinality(Replying)' = Cardinality(Replying)
                  - (IF request[r].pc = "reply" /\ request[r].written > 0 THEN 1 ELSE 0)
PROOF
<1>1. Moved(r, "idle", 0, 0)
  BY OverMoves
<1>2. /\ key' = key /\ agentKey' = agentKey /\ refused' = refused /\ refusals' = refusals
      /\ clock \in Nat /\ {key, agentKey} \subseteq Keys \cup {None}
  BY DEF llm, Shape
<1>3. OthersStay(r) /\ request'[r].pc = "idle"
  BY <1>1 DEF Moved
<1>4. Shape'
  <2>1. "idle" \in Steps
    BY DEF Steps
  <2> QED BY <1>1, <1>2, <2>1, MovedShape
<1>5. Rests'
  BY <1>2, <1>3, NotSendingRests
<1>6. request'[r].pc \notin InRun
  BY <1>3 DEF InRun
<1>7. /\ Cardinality(Holding) \in Nat /\ Cardinality(Replying) \in Nat
  BY HoldingFinite
<1> QED BY <1>3, <1>4, <1>5, <1>6, <1>7, MovedCount

LEMMA RefuseRunKeeps ==
    ASSUME IInv, NEW r \in Requests, RefuseRun(r)
    PROVE  IInv'
PROOF
<1>1. /\ usage' = usage /\ messages' = messages /\ title' = title /\ clock' = clock /\ starts' = starts
      /\ answered' = answered /\ unanswered' = unanswered /\ stranded' = stranded /\ extra' = extra
      /\ failed' = failed \cup {request[r].id} /\ request[r].pc = "run" /\ UNCHANGED llm
      /\ Becomes(r, Over(r))
  BY DEF RefuseRun, chat, tally, bounds
<1>2. Shape /\ Rests /\ Talk /\ starts \in Nat /\ clock \in Nat
  BY DEF IInv, Shape
<1>3. /\ Shape' /\ Rests' /\ OthersStay(r) /\ request'[r].pc = "idle"
      /\ Cardinality(Holding)' = Cardinality(Holding) - (IF request[r].pc \in InRun THEN 1 ELSE 0)
      /\ Cardinality(Replying)' = Cardinality(Replying)
             - (IF request[r].pc = "reply" /\ request[r].written > 0 THEN 1 ELSE 0)
  BY <1>1, <1>2, EndKeepsShape
<1>4. Count'
  <2>1. request[r].pc \notin InRun /\ request[r].pc # "reply"
    BY <1>1 DEF InRun
  <2>2. Cardinality(Holding)' = Cardinality(Holding) /\ Cardinality(Replying)' = Cardinality(Replying)
    BY <1>3, <2>1, HoldingFinite
  <2>3. Owed' = Owed /\ Owed \in Nat
    BY <1>1, <2>2, CountNumbers DEF IInv, Owed
  <2> QED BY <1>1, <2>3, CountNumbers, CountKept DEF IInv
<1>5. Talk'
  <2>1. Follows(r)
    BY <1>1, <1>3 DEF Follows
  <2> QED BY <1>1, <1>2, <1>3, <2>1, OtherFollows, TalkGoesOn
<1> QED BY <1>3, <1>4, <1>5 DEF IInv

(* a request fails: at a refund its run stays on the count, at a reply its  *)
(* answer does                                                              *)
Held(r) == IF request[r].pc \in InRun THEN 1 ELSE 0
Unstored(r) == IF request[r].pc = "reply" THEN Answer(r) ELSE 0

LEMMA FailCounts ==
    ASSUME IInv, NEW r \in Requests, Fail(r), UNCHANGED <<llm, clock, starts>>,
           answered' \in Nat, unanswered' \in Nat, stranded' \in Nat,
           LET left == answered' + unanswered' + stranded' - answered - unanswered - stranded IN
           \/ usage' = usage /\ extra' = extra /\ left = Held(r) + Unstored(r)
           \/ usage' = Counted /\ extra' = extra /\ left = 1 + Held(r) + Unstored(r)
           \/ usage' = Released /\ extra' = extra /\ left = Held(r) + Unstored(r) - 1
           \/ /\ usage' = Released /\ left = Held(r) + Unstored(r)
              /\ extra' = IF Released # usage THEN extra + 1 ELSE extra
    PROVE  /\ Shape' /\ Rests' /\ Count' /\ OthersStay(r)
           /\ request'[r].pc = "idle" /\ request'[r].id = request[r].id
PROOF
<1>1. clock' = clock /\ starts' = starts /\ UNCHANGED llm /\ Becomes(r, Over(r))
  BY DEF Fail
<1>2. Shape /\ Rests /\ Count
  BY DEF IInv
<1>3. /\ Shape' /\ Rests' /\ OthersStay(r) /\ request'[r].pc = "idle"
      /\ Cardinality(Holding)' = Cardinality(Holding) - (IF request[r].pc \in InRun THEN 1 ELSE 0)
      /\ Cardinality(Replying)' = Cardinality(Replying)
             - (IF request[r].pc = "reply" /\ request[r].written > 0 THEN 1 ELSE 0)
  BY <1>1, <1>2, EndKeepsShape
<1>4. Count'
  <2> DEFINE left == answered' + unanswered' + stranded' - answered - unanswered - stranded
  <2>1. Cardinality(Holding)' = Cardinality(Holding) - Held(r)
        /\ Cardinality(Replying)' = Cardinality(Replying) - Unstored(r)
    BY <1>3 DEF Held, Unstored, Answer
  <2>2. Held(r) \in Nat /\ Unstored(r) \in Nat
    BY DEF Held, Unstored, Answer
  <2>3. /\ answered \in Nat /\ unanswered \in Nat /\ stranded \in Nat /\ Owed \in Nat
        /\ Cardinality(Holding) \in Nat /\ Cardinality(Replying) \in Nat
    BY <1>2, CountNumbers
  <2>4. Cardinality(Holding)' \in Nat /\ Cardinality(Replying)' \in Nat
    <3>1. IsFiniteSet(Holding') /\ IsFiniteSet(Replying')
      <4>1. Holding' \subseteq Requests /\ Replying' \subseteq Requests
        BY DEF Holding, Replying
      <4> QED BY <4>1, RequestsAssumption, FS_Subset
    <3> QED BY <3>1, FS_CardinalityType
  <2>5. Owed' \in Nat /\ Owed' = Owed - Held(r) - Unstored(r) + left
    BY <2>1, <2>2, <2>3, <2>4 DEF Owed
  <2>6. \/ usage' = usage /\ extra' = extra /\ Owed' = Owed
        \/ usage' = Counted /\ extra' = extra /\ Owed' = Owed + 1
        \/ usage' = Released /\ extra' = extra /\ Owed' = Owed - 1
        \/ /\ usage' = Released /\ Owed' = Owed
           /\ extra' = IF Released # usage THEN extra + 1 ELSE extra
    <3> HIDE DEF left
    <3>1. \/ usage' = usage /\ extra' = extra /\ left = Held(r) + Unstored(r)
          \/ usage' = Counted /\ extra' = extra /\ left = 1 + Held(r) + Unstored(r)
          \/ usage' = Released /\ extra' = extra /\ left = Held(r) + Unstored(r) - 1
          \/ /\ usage' = Released /\ left = Held(r) + Unstored(r)
             /\ extra' = IF Released # usage THEN extra + 1 ELSE extra
      BY DEF left
    <3>2. \A x : left = x /\ x \in Int => Owed' = Owed - Held(r) - Unstored(r) + x
      BY <2>5
    <3> HIDE DEF Owed
    <3>3. left = Held(r) + Unstored(r) => Owed' = Owed
      BY <2>2, <2>3, <3>2
    <3>4. left = 1 + Held(r) + Unstored(r) => Owed' = Owed + 1
      BY <2>2, <2>3, <3>2
    <3>5. left = Held(r) + Unstored(r) - 1 => Owed' = Owed - 1
      BY <2>2, <2>3, <3>2
    <3> QED BY <3>1, <3>3, <3>4, <3>5
  <2> QED BY <1>2, <2>5, <2>6, CountKept
<1>5. request'[r].id = request[r].id
  BY <1>1, <1>2, OverMoves DEF Moved
<1> QED BY <1>3, <1>4, <1>5

LEMMA FailKeeps ==
    ASSUME IInv, NEW r \in Requests, Fail(r), UNCHANGED <<chat, clock, starts>>,
           Shape', Rests', Count', OthersStay(r), request'[r].pc = "idle"
    PROVE  IInv'
PROOF
<1>1. /\ messages' = messages /\ title' = title /\ clock' = clock /\ starts' = starts
      /\ failed' = failed \cup {request[r].id} /\ Shape /\ Talk /\ starts \in Nat /\ clock \in Nat
  BY DEF chat, Fail, IInv, Shape
<1>2. Follows(r)
  BY <1>1 DEF Follows
<1>3. Talk'
  BY <1>1, <1>2, OtherFollows, TalkGoesOn
<1> QED BY <1>3 DEF IInv

LEMMA FailsKeeps ==
    ASSUME IInv, NEW r \in Requests, Fails(r)
    PROVE  IInv'
PROOF
<1>1. /\ request[r].pc \in {"read", "question", "run", "refund", "again", "reply"} /\ Fail(r)
      /\ UNCHANGED <<llm, chat, clock, starts>> /\ usage' = usage /\ extra' = extra
      /\ answered' = answered /\ stranded' = stranded + (IF request[r].pc = "refund" THEN 1 ELSE 0)
      /\ unanswered' = unanswered + Unstored(r)
  BY DEF Fails, Unstored
<1>2. answered \in Nat /\ stranded \in Nat /\ unanswered \in Nat
  BY CountNumbers DEF IInv
<1>3. Held(r) = (IF request[r].pc = "refund" THEN 1 ELSE 0) /\ Unstored(r) \in Nat
  BY <1>1 DEF Held, InRun, Unstored, Answer
<1>4. /\ answered' \in Nat /\ unanswered' \in Nat /\ stranded' \in Nat
      /\ answered' + unanswered' + stranded' - answered - unanswered - stranded = Held(r) + Unstored(r)
  BY <1>1, <1>2, <1>3
<1> QED BY <1>1, <1>4, FailCounts, FailKeeps

LEMMA GiveBackKeeps ==
    ASSUME IInv, NEW r \in Requests, GiveBack(r)
    PROVE  IInv'
PROOF
<1>1. /\ request[r].pc \in {"refund", "again"} /\ Fail(r)
      /\ UNCHANGED <<llm, chat, clock, starts>> /\ usage' = Released
      /\ extra' = IF request[r].pc = "again" /\ Released # usage THEN extra + 1 ELSE extra
      /\ answered' = answered /\ stranded' = stranded /\ unanswered' = unanswered
  BY DEF GiveBack, bounds
<1>2. answered \in Nat /\ stranded \in Nat /\ unanswered \in Nat
  BY CountNumbers DEF IInv
<1>3. Held(r) = (IF request[r].pc = "refund" THEN 1 ELSE 0) /\ Unstored(r) = 0
  BY <1>1 DEF Held, InRun, Unstored
<1>4. answered' + unanswered' + stranded' - answered - unanswered - stranded = 0
  BY <1>1, <1>2
<1>5. CASE request[r].pc = "refund"
  <2>1. extra' = extra /\ 0 = Held(r) + Unstored(r) - 1
    BY <1>1, <1>3, <1>5
  <2> QED BY <1>1, <1>2, <1>4, <2>1, FailCounts, FailKeeps
<1>6. CASE request[r].pc = "again"
  <2>1. (extra' = IF Released # usage THEN extra + 1 ELSE extra) /\ 0 = Held(r) + Unstored(r)
    BY <1>1, <1>3, <1>6
  <2> QED BY <1>1, <1>2, <1>4, <2>1, FailCounts, FailKeeps
<1> QED BY <1>1, <1>5, <1>6

LEMMA TakeUnheardKeeps ==
    ASSUME IInv, NEW r \in Requests, TakeUnheard(r)
    PROVE  IInv'
PROOF
<1>1. /\ request[r].pc = "run" /\ Fail(r)
      /\ UNCHANGED <<llm, chat, clock, starts>> /\ usage' = Counted /\ extra' = extra
      /\ answered' = answered /\ stranded' = stranded + 1 /\ unanswered' = unanswered
  BY DEF TakeUnheard
<1>2. answered \in Nat /\ stranded \in Nat /\ unanswered \in Nat
  BY CountNumbers DEF IInv
<1>3. Held(r) = 0 /\ Unstored(r) = 0
  BY <1>1 DEF Held, InRun, Unstored
<1>4. /\ answered' \in Nat /\ unanswered' \in Nat /\ stranded' \in Nat
      /\ answered' + unanswered' + stranded' - answered - unanswered - stranded = 1 + Held(r) + Unstored(r)
  BY <1>1, <1>2, <1>3
<1> QED BY <1>1, <1>4, FailCounts, FailKeeps

LEMMA RefundUnheardKeeps ==
    ASSUME IInv, NEW r \in Requests, RefundUnheard(r)
    PROVE  IInv'
PROOF
<1>1. /\ Shape /\ Rests /\ clock \in Nat /\ starts \in Nat /\ request[r].pc = "settle" /\ request[r].id # 0
      /\ request[r].written \in Nat /\ request[r].at \in Nat
      /\ {key, agentKey} \subseteq Keys \cup {None}
  BY DEF RefundUnheard, Returns, IInv, Shape, RequestOK
<1>2. /\ usage' = Released /\ messages' = messages /\ title' = title /\ clock' = clock /\ starts' = starts
      /\ key' = key /\ agentKey' = agentKey /\ refused' = refused /\ refusals' = refusals
      /\ answered' = answered /\ unanswered' = unanswered /\ stranded' = stranded
      /\ extra' = extra /\ failed' = failed
  BY DEF RefundUnheard, chat, llm
<1>3. Moved(r, "again", request[r].at, request[r].written)
  BY <1>1, SetMoves DEF RefundUnheard
<1>4. OthersStay(r) /\ request'[r].pc = "again" /\ request'[r].id = request[r].id
      /\ request'[r].conversation = request[r].conversation
  BY <1>3 DEF Moved
<1>5. Shape'
  <2>1. "again" \in Steps
    BY DEF Steps
  <2> QED BY <1>1, <1>2, <1>3, <2>1, MovedShape
<1>6. Count'
  <2>1. /\ Cardinality(Holding)' = Cardinality(Holding) - 1
        /\ Cardinality(Replying)' = Cardinality(Replying) /\ Cardinality(Holding) > 0
    BY <1>1, <1>4, MovedCount DEF InRun
  <2>2. Owed' = Owed - 1 /\ Owed' \in Nat
    BY <1>2, <2>1, CountNumbers DEF IInv, Owed
  <2> QED BY <1>2, <2>2, CountNumbers, CountKept DEF IInv
<1>7. Rests'
  BY <1>1, <1>2, <1>4, NotSendingRests
<1>8. Talk'
  <2>1. Follows(r)
    BY <1>1, <1>4 DEF Follows, HasAsked, InRun
  <2> QED BY <1>1, <1>2, <1>4, <2>1, OtherFollows, TalkGoesOn DEF IInv
<1> QED BY <1>5, <1>6, <1>7, <1>8 DEF IInv

LEMMA SettleKeeps ==
    ASSUME IInv, NEW r \in Requests, Settle(r)
    PROVE  IInv'
PROOF
<1>1. /\ messages' = messages /\ title' = title /\ starts' = starts
      /\ stranded' = stranded /\ extra' = extra /\ unanswered' = unanswered /\ failed' = failed /\ UNCHANGED llm
      /\ usage' = (IF request[r].labelled > 0 THEN usage ELSE Released)
      /\ request[r].pc = "settle"
  BY DEF Settle, chat, bounds
<1>2. Shape /\ Rests /\ Talk /\ Count /\ starts \in Nat /\ clock \in Nat
  BY DEF IInv, Shape
<1>3. /\ request[r].id # 0 /\ request[r].written \in Nat /\ request[r].labelled = request[r].written
      /\ key' = key /\ agentKey' = agentKey /\ refused' = refused /\ refusals' = refusals
      /\ {key, agentKey} \subseteq Keys \cup {None} /\ request[r].pc \in InRun
  BY <1>1, <1>2 DEF Shape, RequestOK, llm, InRun
<1>4. /\ Shape' /\ Rests' /\ OthersStay(r) /\ Follows(r)
      /\ Cardinality(Holding)' = Cardinality(Holding) - 1 /\ clock' \in Nat /\ clock' >= clock
      /\ answered' \in Nat
      /\ answered' + Cardinality(Replying)' =
             answered + Cardinality(Replying) + (IF request[r].written > 0 THEN 1 ELSE 0)
      /\ Cardinality(Replying)' \in Nat
  <2>1. CASE request[r].conversation = None
    <3>1. /\ Becomes(r, Over(r)) /\ clock' = clock
          /\ answered' = answered + (IF request[r].written > 0 THEN 1 ELSE 0)
      BY <2>1 DEF Settle, Answer
    <3>2. /\ Shape' /\ Rests' /\ OthersStay(r) /\ request'[r].pc = "idle"
          /\ Cardinality(Holding)' = Cardinality(Holding) - (IF request[r].pc \in InRun THEN 1 ELSE 0)
          /\ Cardinality(Replying)' = Cardinality(Replying)
                 - (IF request[r].pc = "reply" /\ request[r].written > 0 THEN 1 ELSE 0)
      BY <1>1, <1>2, <3>1, EndKeepsShape
    <3>3. Cardinality(Holding)' = Cardinality(Holding) - 1 /\ Cardinality(Replying)' = Cardinality(Replying)
      BY <1>1, <1>3, <3>2, HoldingFinite
    <3>4. Follows(r)
      BY <2>1, <3>2 DEF Follows
    <3> QED BY <1>2, <3>1, <3>2, <3>3, <3>4, CountNumbers
  <2>2. CASE request[r].conversation # None
    <3>1. /\ Becomes(r, [request[r] EXCEPT !.pc = "reply", !.at = clock]) /\ clock' = clock + 1
          /\ answered' = answered
      BY <2>2 DEF Settle
    <3>2. Moved(r, "reply", clock, request[r].written)
      BY <1>2, <3>1, SetMoves
    <3>3. /\ OthersStay(r) /\ request'[r].pc = "reply" /\ request'[r].written = request[r].written
          /\ request'[r].id = request[r].id /\ request'[r].conversation = request[r].conversation
          /\ request'[r].at = clock
      BY <3>2 DEF Moved
    <3>4. "reply" \in Steps /\ clock < clock' /\ clock' >= clock /\ clock' \in Nat
      BY <1>2, <3>1 DEF Steps
    <3>5. Shape'
      BY <1>1, <1>2, <1>3, <2>2, <3>2, <3>4, MovedShape
    <3>6. Rests'
      BY <1>2, <1>3, <3>3, NotSendingRests
    <3>7. Follows(r)
      BY <1>1, <1>3, <3>3 DEF Follows, HasAsked
    <3>8. request'[r].pc \notin InRun /\ request[r].pc # "reply"
      BY <1>1, <3>3 DEF InRun
    <3>9. /\ Cardinality(Holding)' = Cardinality(Holding) - 1
          /\ Cardinality(Replying)' = Cardinality(Replying) + (IF request[r].written > 0 THEN 1 ELSE 0)
      BY <1>3, <3>3, <3>8, MovedCount
    <3> QED BY <1>2, <3>1, <3>3, <3>4, <3>5, <3>6, <3>7, <3>9, CountNumbers
  <2> QED BY <2>1, <2>2
<1>5. Count'
  <2>1. /\ Cardinality(Holding)' \in Nat
    BY <1>3, <1>4, MovedCount, HoldingFinite
  <2>2. /\ Owed' \in Nat /\ Owed \in Nat
        /\ Owed' = Owed - 1 + (IF request[r].written > 0 THEN 1 ELSE 0)
    BY <1>1, <1>2, <1>4, <2>1, CountNumbers DEF Owed
  <2>3. CASE request[r].written > 0
    <3>1. usage' = usage /\ Owed' = Owed
      BY <1>1, <1>3, <2>2, <2>3
    <3> QED BY <1>1, <1>2, <1>4, <2>2, <3>1, CountNumbers, CountKept
  <2>4. CASE ~(request[r].written > 0)
    <3>1. usage' = Released /\ Owed' = Owed - 1
      BY <1>1, <1>3, <2>2, <2>4
    <3> QED BY <1>1, <1>2, <1>4, <2>2, <3>1, CountNumbers, CountKept
  <2> QED BY <2>3, <2>4
<1>6. Talk'
  BY <1>1, <1>2, <1>4, OtherFollows, TalkGoesOn
<1> QED BY <1>4, <1>5, <1>6 DEF IInv

(* a message is added to a conversation                                     *)
LEMMA MessageAdded ==
    ASSUME Talk, NEW c \in Conversations, NEW m, m \in Message,
           messages' = [messages EXCEPT ![c] = messages[c] \cup {m}]
    PROVE  /\ messages' \in [Conversations -> SUBSET Message]
           /\ messages'[c] = messages[c] \cup {m}
           /\ \A d \in Conversations \ {c} : messages'[d] = messages[d]
           /\ \A d \in Conversations : messages[d] \subseteq messages'[d]
           /\ \A d \in Conversations : \A x \in messages'[d] : x \in messages[d] \/ (d = c /\ x = m)
PROOF
<1>1. messages \in [Conversations -> SUBSET Message]
  BY DEF Talk, TalkTypes
<1> QED BY <1>1

(* a question is stored, and its request goes on to its run or fails        *)
LEMMA QuestionTalk ==
    ASSUME IInv, NEW r \in Requests, request[r].pc = "question", AddMessage(r, "user"), OthersStay(r),
           request'[r].id = request[r].id, clock' = clock, starts' = starts, failed \subseteq failed',
           \/ request'[r].pc = "run" /\ request'[r].conversation = request[r].conversation
           \/ request'[r].pc = "idle" /\ request[r].id \in failed'
    PROVE  Talk'
PROOF
<1>1. PICK c \in Conversations : c = request[r].conversation
  BY DEF IInv, Shape, RequestOK
<1>2. /\ Shape /\ clock \in Nat /\ starts \in Nat /\ request[r].pc = "question" /\ request[r].id # 0
      /\ request[r].at \in Nat /\ request[r].at < clock /\ request[r].id \in 1..starts /\ Talk
  BY DEF IInv, Shape, RequestOK
<1>3. PICK m : m = [role |-> "user", of |-> request[r].id, at |-> request[r].at]
  OBVIOUS
<1>4. /\ messages' = [messages EXCEPT ![c] = messages[c] \cup {m}]
      /\ title' = IF title[c] = 0 THEN [title EXCEPT ![c] = request[r].id] ELSE title
      /\ clock' = clock /\ starts' = starts /\ failed \subseteq failed'
  BY <1>1, <1>3 DEF AddMessage, Titled
<1>5. m \in Message /\ m.role = "user" /\ m.of = request[r].id /\ m.at = request[r].at
  BY <1>2, <1>3 DEF Message
<1>7. /\ OthersStay(r) /\ request'[r].id = request[r].id
      /\ \/ request'[r].pc = "run" /\ request'[r].conversation = c
         \/ request'[r].pc = "idle" /\ request[r].id \in failed'
  BY <1>1
<1>11. /\ messages' \in [Conversations -> SUBSET Message]
       /\ messages'[c] = messages[c] \cup {m}
       /\ \A d \in Conversations \ {c} : messages'[d] = messages[d]
       /\ \A d \in Conversations : messages[d] \subseteq messages'[d]
       /\ \A d \in Conversations : \A x \in messages'[d] : x \in messages[d] \/ (d = c /\ x = m)
  BY <1>2, <1>4, <1>5, MessageAdded
<1>12. TalkTypes'
  <2>1. title' \in [Conversations -> Nat] /\ title'[c] # 0 /\ \A d \in Conversations \ {c} : title'[d] = title[d]
    BY <1>2, <1>4 DEF Talk, TalkTypes
  <2>2. \A d \in Conversations : title'[d] # 0 <=> \E x \in messages'[d] : x.role = "user"
    BY <1>2, <1>5, <1>11, <2>1 DEF Talk, TalkTypes
  <2> QED BY <1>11, <2>1, <2>2 DEF TalkTypes
<1>13. Numbered'
  <2> SUFFICES ASSUME NEW d \in Conversations, NEW x \in messages'[d]
               PROVE  /\ x.of \in 1..starts /\ x.at < clock
                      /\ \A s \in Requests : request'[s].pc # "idle" /\ x.of = request'[s].id =>
                             /\ x.role = "user" /\ request'[s].conversation = d
                             /\ request'[s].pc \notin {"read", "question"}
    BY <1>4 DEF Numbered, Busy
  <2>1. CASE x \in messages[d]
    <3>1. /\ x.of \in 1..starts /\ x.at < clock
          /\ \A s \in Requests : request[s].pc # "idle" /\ x.of = request[s].id =>
                             /\ x.role = "user" /\ request[s].conversation = d
                             /\ request[s].pc \notin {"read", "question"}
      BY <1>2, <2>1 DEF Talk, Numbered, Busy
    <3>2. x.of # request[r].id
      BY <1>2, <3>1
    <3> QED BY <1>7, <3>1, <3>2 DEF OthersStay
  <2>2. CASE d = c /\ x = m
    <3>1. \A s \in Requests : x.of = request'[s].id => s = r
      BY <1>2, <1>5, <1>7, <2>2 DEF Shape, OthersStay
    <3> QED BY <1>2, <1>5, <1>7, <2>2, <3>1
  <2> QED BY <1>11, <2>1, <2>2
<1>14. Asked'
  <2> SUFFICES ASSUME NEW s \in Requests, request'[s].pc \in HasAsked, request'[s].conversation # None
               PROVE  \E q \in messages'[request'[s].conversation] :
                          /\ q.role = "user" /\ q.of = request'[s].id
                          /\ request'[s].pc = "reply" => q.at < request'[s].at
    BY DEF Asked, HasAsked, InRun
  <2>1. CASE s = r
    BY <1>5, <1>7, <1>11, <2>1 DEF HasAsked, InRun
  <2>2. CASE s # r
    <3>1. request'[s] = request[s] /\ request[s].conversation \in Conversations
      BY <1>2, <1>7, <2>2 DEF OthersStay, Shape, RequestOK
    <3> QED BY <1>2, <1>11, <3>1 DEF Talk, Asked
  <2> QED BY <2>1, <2>2
<1>15. RepliesFollow'
  BY <1>2, <1>5, <1>11 DEF Talk, RepliesFollow
<1>16. QuestionsAnswered'
  <2> SUFFICES ASSUME NEW d \in Conversations, NEW q \in messages'[d]
               PROVE  \/ \E x \in messages'[d] : x.role = "assistant" /\ x.of = q.of
                      \/ q.of \in failed'
                      \/ \E s \in Requests : request'[s].pc # "idle" /\ request'[s].id = q.of
    BY DEF QuestionsAnswered, Busy
  <2>1. CASE q \in messages[d]
    <3>1. \A s \in Requests : request[s].pc # "idle" =>
             \/ request'[s].pc # "idle" /\ request'[s].id = request[s].id
             \/ request[s].id \in failed'
      BY <1>7 DEF OthersStay
    <3> QED BY <1>2, <1>4, <1>11, <2>1, <3>1 DEF Talk, QuestionsAnswered, Busy
  <2>2. CASE q = m
    BY <1>5, <1>7, <2>2
  <2> QED BY <1>11, <2>1, <2>2
<1> QED BY <1>12, <1>13, <1>14, <1>15, <1>16 DEF Talk

LEMMA StoreQuestionKeeps ==
    ASSUME IInv, NEW r \in Requests, StoreQuestion(r)
    PROVE  IInv'
PROOF
<1>1. /\ Shape /\ clock \in Nat /\ starts \in Nat /\ request[r].pc = "question" /\ request[r].id # 0
      /\ request[r].written \in Nat /\ request[r].at \in Nat /\ {key, agentKey} \subseteq Keys \cup {None}
      /\ Rests /\ Count
  BY DEF StoreQuestion, IInv, Shape, RequestOK
<1>2. /\ AddMessage(r, "user")
      /\ Set(r, "pc", "run") /\ usage' = usage /\ clock' = clock /\ starts' = starts
      /\ key' = key /\ agentKey' = agentKey /\ refused' = refused /\ refusals' = refusals
      /\ answered' = answered /\ unanswered' = unanswered /\ stranded' = stranded
      /\ extra' = extra /\ failed' = failed
  BY DEF StoreQuestion, llm, bounds, tally
<1>3. Moved(r, "run", request[r].at, request[r].written)
  BY <1>1, <1>2, SetMoves
<1>4. /\ OthersStay(r) /\ request'[r].pc = "run" /\ request'[r].id = request[r].id
      /\ request'[r].conversation = request[r].conversation
  BY <1>3 DEF Moved
<1>5. Shape'
  <2>1. "run" \in Steps
    BY DEF Steps
  <2> QED BY <1>1, <1>2, <1>3, <2>1, MovedShape
<1>6. Count'
  <2>1. Cardinality(Holding)' = Cardinality(Holding) /\ Cardinality(Replying)' = Cardinality(Replying)
    BY <1>1, <1>4, MovedCount DEF InRun
  <2>2. Owed' = Owed /\ Owed \in Nat
    BY <1>1, <1>2, <2>1, CountNumbers DEF Owed
  <2> QED BY <1>1, <1>2, <2>2, CountNumbers, CountKept
<1>7. Rests'
  BY <1>1, <1>2, <1>4, NotSendingRests
<1>8. Talk'
  BY <1>1, <1>2, <1>4, QuestionTalk
<1> QED BY <1>5, <1>6, <1>7, <1>8 DEF IInv

(* a reply is stored, and its request is over                               *)
LEMMA ReplyTalk ==
    ASSUME IInv, NEW r \in Requests, request[r].pc = "reply", AddMessage(r, "assistant"), OthersStay(r),
           request'[r].pc = "idle", clock' = clock, starts' = starts, failed \subseteq failed'
    PROVE  Talk'
PROOF
<1>1. PICK c \in Conversations : c = request[r].conversation
  BY DEF IInv, Shape, RequestOK
<1>2. /\ Shape /\ clock \in Nat /\ starts \in Nat /\ request[r].pc = "reply" /\ request[r].id # 0
      /\ request[r].at \in Nat /\ request[r].at < clock /\ request[r].id \in 1..starts /\ Talk
  BY DEF IInv, Shape, RequestOK
<1>3. PICK m : m = [role |-> "assistant", of |-> request[r].id, at |-> request[r].at]
  OBVIOUS
<1>4. /\ messages' = [messages EXCEPT ![c] = messages[c] \cup {m}]
      /\ title' = title /\ clock' = clock /\ starts' = starts /\ failed \subseteq failed'
  BY <1>1, <1>3 DEF AddMessage
<1>5. m \in Message /\ m.role = "assistant" /\ m.of = request[r].id /\ m.at = request[r].at
  BY <1>2, <1>3 DEF Message
<1>6. OthersStay(r) /\ request'[r].pc = "idle"
  OBVIOUS
<1>8. /\ messages' \in [Conversations -> SUBSET Message]
      /\ messages'[c] = messages[c] \cup {m}
      /\ \A d \in Conversations \ {c} : messages'[d] = messages[d]
      /\ \A d \in Conversations : messages[d] \subseteq messages'[d]
      /\ \A d \in Conversations : \A x \in messages'[d] : x \in messages[d] \/ (d = c /\ x = m)
  BY <1>2, <1>4, <1>5, MessageAdded
<1>9. TalkTypes'
  BY <1>2, <1>4, <1>5, <1>8 DEF Talk, TalkTypes
<1>10. Numbered'
  <2> SUFFICES ASSUME NEW d \in Conversations, NEW x \in messages'[d]
               PROVE  /\ x.of \in 1..starts /\ x.at < clock
                      /\ \A s \in Requests : request'[s].pc # "idle" /\ x.of = request'[s].id =>
                             /\ x.role = "user" /\ request'[s].conversation = d
                             /\ request'[s].pc \notin {"read", "question"}
    BY <1>4 DEF Numbered, Busy
  <2>1. CASE x \in messages[d]
    BY <1>2, <1>6, <2>1 DEF Talk, Numbered, Busy, OthersStay
  <2>2. CASE d = c /\ x = m
    <3>1. \A s \in Requests \ {r} : request'[s].id # x.of
      BY <1>2, <1>5, <1>6, <2>2 DEF Shape, OthersStay
    <3> QED BY <1>2, <1>5, <1>6, <2>2, <3>1
  <2> QED BY <1>8, <2>1, <2>2
<1>11. Asked'
  <2> SUFFICES ASSUME NEW s \in Requests, request'[s].pc \in HasAsked, request'[s].conversation # None
               PROVE  \E q \in messages'[request'[s].conversation] :
                          /\ q.role = "user" /\ q.of = request'[s].id
                          /\ request'[s].pc = "reply" => q.at < request'[s].at
    BY DEF Asked, HasAsked, InRun
  <2>1. s # r
    BY <1>6 DEF HasAsked, InRun
  <2>2. request'[s] = request[s] /\ request[s].conversation \in Conversations
    BY <1>2, <1>6, <2>1 DEF OthersStay, Shape, RequestOK
  <2> QED BY <1>2, <1>8, <2>2 DEF Talk, Asked
<1>12. RepliesFollow'
  <2> SUFFICES ASSUME NEW d \in Conversations, NEW x \in messages'[d], x.role = "assistant"
               PROVE  /\ \E q \in messages'[d] : q.role = "user" /\ q.of = x.of /\ q.at < x.at
                      /\ \A o \in messages'[d] : o.role = "assistant" /\ o.of = x.of => o = x
    BY DEF RepliesFollow
  <2>1. \A o \in messages[c] : o.role = "assistant" => o.of # request[r].id
    BY <1>2 DEF Talk, Numbered, Busy
  <2>2. CASE x \in messages[d]
    <3>1. /\ \E q \in messages[d] : q.role = "user" /\ q.of = x.of /\ q.at < x.at
          /\ \A o \in messages[d] : o.role = "assistant" /\ o.of = x.of => o = x
      BY <1>2, <2>2 DEF Talk, RepliesFollow
    <3> QED BY <1>5, <1>8, <2>1, <2>2, <3>1
  <2>3. CASE d = c /\ x = m
    <3>1. PICK q \in messages[c] : q.role = "user" /\ q.of = request[r].id /\ q.at < request[r].at
      BY <1>1, <1>2, AssistantAssumption DEF Talk, Asked, HasAsked
    <3>2. \E y \in messages'[d] : y.role = "user" /\ y.of = x.of /\ y.at < x.at
      BY <1>5, <1>8, <2>3, <3>1
    <3>3. \A o \in messages'[d] : o.role = "assistant" /\ o.of = x.of => o = x
      BY <1>5, <1>8, <2>1, <2>3
    <3> QED BY <3>2, <3>3
  <2> QED BY <1>8, <2>2, <2>3
<1>13. QuestionsAnswered'
  <2> SUFFICES ASSUME NEW d \in Conversations, NEW q \in messages'[d]
               PROVE  \/ \E x \in messages'[d] : x.role = "assistant" /\ x.of = q.of
                      \/ q.of \in failed'
                      \/ \E s \in Requests : request'[s].pc # "idle" /\ request'[s].id = q.of
    BY DEF QuestionsAnswered, Busy
  <2>1. CASE q = m /\ d = c
    BY <1>5, <2>1
  <2>2. CASE q \in messages[d] /\ q.of = request[r].id
    <3>1. d = c
      BY <1>1, <1>2, <2>2 DEF Talk, Numbered, Busy
    <3> QED BY <1>5, <1>8, <2>2, <3>1
  <2>3. CASE q \in messages[d] /\ q.of # request[r].id
    BY <1>2, <1>4, <1>6, <1>8, <2>3 DEF Talk, QuestionsAnswered, Busy, OthersStay
  <2> QED BY <1>8, <2>1, <2>2, <2>3
<1> QED BY <1>9, <1>10, <1>11, <1>12, <1>13 DEF Talk

LEMMA StoreReplyKeeps ==
    ASSUME IInv, NEW r \in Requests, StoreReply(r)
    PROVE  IInv'
PROOF
<1>1. /\ Shape /\ clock \in Nat /\ starts \in Nat /\ request[r].pc = "reply" /\ request[r].written \in Nat
      /\ Rests /\ Count
  BY DEF StoreReply, IInv, Shape, RequestOK
<1>2. /\ AddMessage(r, "assistant") /\ Becomes(r, Over(r))
      /\ usage' = usage /\ clock' = clock /\ starts' = starts /\ UNCHANGED llm
      /\ answered' = answered + (IF request[r].written > 0 THEN 1 ELSE 0)
      /\ unanswered' = unanswered /\ stranded' = stranded /\ extra' = extra /\ failed' = failed
  BY DEF StoreReply, Answer, bounds
<1>3. /\ Shape' /\ Rests' /\ OthersStay(r) /\ request'[r].pc = "idle"
      /\ Cardinality(Holding)' = Cardinality(Holding) - (IF request[r].pc \in InRun THEN 1 ELSE 0)
      /\ Cardinality(Replying)' = Cardinality(Replying)
             - (IF request[r].pc = "reply" /\ request[r].written > 0 THEN 1 ELSE 0)
  BY <1>1, <1>2, EndKeepsShape
<1>4. Count'
  <2>1. request[r].pc \notin InRun
    BY <1>1 DEF InRun
  <2>2. Cardinality(Replying)' \in Nat
    BY <1>3, MovedCount
  <2>3. Owed' = Owed /\ Owed \in Nat /\ answered' \in Nat
    BY <1>1, <1>2, <1>3, <2>1, <2>2, CountNumbers DEF Owed
  <2> QED BY <1>1, <1>2, <2>3, CountNumbers, CountKept
<1>5. Talk'
  BY <1>1, <1>2, <1>3, ReplyTalk
<1> QED BY <1>3, <1>4, <1>5 DEF IInv

LEMMA StoreUnheardKeeps ==
    ASSUME IInv, NEW r \in Requests, StoreUnheard(r)
    PROVE  IInv'
PROOF
<1>1. /\ request[r].pc \in {"question", "reply"} /\ Fail(r) /\ UNCHANGED <<llm, clock, starts>>
      /\ AddMessage(r, IF request[r].pc = "question" THEN "user" ELSE "assistant")
      /\ usage' = usage /\ extra' = extra /\ stranded' = stranded /\ unanswered' = unanswered
      /\ answered' = answered + Unstored(r)
  BY DEF StoreUnheard, Unstored
<1>2. answered \in Nat /\ stranded \in Nat /\ unanswered \in Nat
  BY CountNumbers DEF IInv
<1>3. Held(r) = 0 /\ Unstored(r) \in Nat
  BY <1>1 DEF Held, InRun, Unstored, Answer
<1>4. /\ answered' \in Nat /\ unanswered' \in Nat /\ stranded' \in Nat
      /\ answered' + unanswered' + stranded' - answered - unanswered - stranded = Held(r) + Unstored(r)
  BY <1>1, <1>2, <1>3
<1>5. /\ Shape' /\ Rests' /\ Count' /\ OthersStay(r)
      /\ request'[r].pc = "idle" /\ request'[r].id = request[r].id
  BY <1>1, <1>4, FailCounts
<1>6. failed \subseteq failed' /\ request[r].id \in failed'
  BY <1>1 DEF Fail
<1>7. Talk'
  <2>1. CASE request[r].pc = "question"
    BY <1>1, <1>5, <1>6, <2>1, QuestionTalk
  <2>2. CASE request[r].pc = "reply"
    BY <1>1, <1>5, <1>6, <2>2, ReplyTalk
  <2> QED BY <1>1, <2>1, <2>2
<1> QED BY <1>5, <1>7 DEF IInv

LEMMA CrashKeeps == IInv /\ Crash => IInv'
PROOF
<1> SUFFICES ASSUME IInv, Crash PROVE IInv'
  OBVIOUS
<1>1. /\ messages' = messages /\ title' = title /\ clock' = clock /\ starts' = starts /\ usage' = usage
      /\ key' = key /\ agentKey' = key /\ refused' = {} /\ refusals' = [k \in Keys |-> 0]
      /\ answered' = answered /\ stranded' = stranded + Cardinality(Holding) /\ extra' = extra
      /\ unanswered' = unanswered + Cardinality(Replying)
      /\ failed' = failed \cup {request[r].id : r \in Busy}
      /\ request' = [r \in Requests |-> [Idle EXCEPT !.id = request[r].id]]
  BY DEF Crash, chat, Over
<1>2. Shape /\ Talk /\ Count /\ starts \in Nat /\ clock \in Nat
  BY DEF IInv, Shape
<1>3. \A id : LET q == [Idle EXCEPT !.id = id] IN
          /\ DOMAIN q = DOMAIN Idle /\ q.pc = "idle" /\ q.id = id /\ q.at = 0
          /\ q.written = 0 /\ q.labelled = 0 /\ q.conversation = None
  BY DEF Idle
<1>4. /\ DOMAIN request' = Requests
      /\ \A r \in Requests :
            /\ DOMAIN request'[r] = DOMAIN Idle /\ request'[r].pc = "idle" /\ request'[r].id = request[r].id
            /\ request'[r].at = 0 /\ request'[r].written = 0 /\ request'[r].labelled = 0
            /\ request'[r].conversation = None
  BY <1>1, <1>3
<1>5. Shape'
  BY <1>1, <1>2, <1>4 DEF Shape, RequestOK, Steps
<1>6. Count'
  <2>1. Holding' = {} /\ Replying' = {}
    BY <1>4 DEF Holding, Replying, InRun
  <2>2. Cardinality(Holding)' = 0 /\ Cardinality(Replying)' = 0
    BY <2>1, FS_EmptySet
  <2>3. /\ Owed' = Owed /\ Owed \in Nat
        /\ answered' \in Nat /\ unanswered' \in Nat /\ stranded' \in Nat
    BY <1>1, <1>2, <2>2, CountNumbers DEF Owed
  <2> QED BY <1>1, <1>2, <2>3, CountKept
<1>7. Rests'
  BY <1>1 DEF Rests
<1>8. Talk'
  <2>1. \A r \in Requests : request[r].pc # "idle" => request[r].id \in failed'
    BY <1>1 DEF Busy
  <2>2. \A r \in Requests : Follows(r)
    BY <1>4, <2>1 DEF Follows
  <2>3. failed \subseteq failed'
    BY <1>1
  <2> QED BY <1>1, <1>2, <2>2, <2>3, TalkGoesOn
<1> QED BY <1>5, <1>6, <1>7, <1>8 DEF IInv

LEMMA SameRequestsKeep ==
    ASSUME IInv, request' = request, UNCHANGED <<usage, chat, clock, starts, tally, refused, refusals>>,
           {key', agentKey'} \subseteq Keys \cup {None}
    PROVE  IInv'
PROOF
<1>1. Shape'
  BY DEF IInv, Shape, RequestOK
<1>2. Count'
  BY DEF IInv, Count, Charged, Holding, Replying, tally
<1>3. Rests'
  BY DEF IInv, Rests, Sending
<1>4. Talk'
  BY DEF IInv, Talk, TalkTypes, Numbered, Asked, RepliesFollow, QuestionsAnswered, Busy, chat, tally
<1> QED BY <1>1, <1>2, <1>3, <1>4 DEF IInv

LEMMA IInvStep == IInv /\ [Next]_vars => IInv'
PROOF
<1> SUFFICES ASSUME IInv, [Next]_vars PROVE IInv'
  OBVIOUS
<1>1. ASSUME NEW r \in Requests, Step(r) PROVE IInv'
  BY <1>1, ReadHistoryKeeps, StoreQuestionKeeps, TakeRunKeeps, RefuseRunKeeps, WorkKeeps,
     SettleKeeps, GiveBackKeeps, StoreReplyKeeps DEF Step, WorkStep
<1>4. ASSUME NEW r \in Requests, StoreFault(r) PROVE IInv'
  BY <1>4, FailsKeeps, WorkKeeps, TakeUnheardKeeps, RefundUnheardKeeps, StoreUnheardKeeps
     DEF StoreFault, WorkStep
<1>2. ASSUME NEW k \in Keys \cup {None}, ChangeKey(k) PROVE IInv'
  <2>1. {key', agentKey'} \subseteq Keys \cup {None}
    BY <1>2 DEF ChangeKey, IInv, Shape
  <2> QED BY <1>2, <2>1, SameRequestsKeep DEF ChangeKey, bounds
<1>3. CASE UNCHANGED vars
  <2>1. {key', agentKey'} \subseteq Keys \cup {None}
    BY <1>3 DEF vars, llm, IInv, Shape
  <2> QED BY <1>3, <2>1, SameRequestsKeep DEF vars, llm, bounds
<1> QED BY <1>1, <1>2, <1>3, <1>4, AskKeeps, CrashKeeps DEF Next

-------------------------------------------------------------------------------
(* The parts of the invariant together hold in every state: requests, runs, *)
(* keys and conversations depend on one another and are proved together.    *)
THEOREM Invariant == Spec => []IInv
PROOF
<1>1. Init => IInv
  BY IInvInit
<1>2. IInv /\ [Next]_vars => IInv'
  BY IInvStep
<1> QED BY <1>1, <1>2, PTL DEF Spec

(* Records keep their shapes; a conversation has a title once it has a      *)
(* question.                                                                *)
THEOREM TypeCorrect == Spec => []TypeOK
PROOF BY Invariant, TypesHold, PTL

(* The count of AI runs is never above the answers the model had a part in, *)
(* the runs in progress, and those a fault left behind: a reply that could  *)
(* not be stored, a restart, an increment nobody heard of, a refund that    *)
(* raised.  It is below them by refunds that came twice at most.            *)
THEOREM RunsAddUp == Spec => []Charged
PROOF
<1>1. IInv => Charged
  BY DEF IInv, Count
<1> QED BY <1>1, Invariant, PTL

(* A refused key is refused as often as there are requests at most, until   *)
(* the process restarts: once for each call under way.                      *)
THEOREM RefusedKeyRests == Spec => []KeyRests
PROOF
<1>1. IInv => KeyRests
  <2> SUFFICES ASSUME IInv, NEW k \in Keys PROVE refusals[k] <= Cardinality(Requests)
    BY DEF KeyRests
  <2>1. refusals[k] \in Nat
    BY DEF IInv, Rests
  <2>2. Cardinality(Sending(k)) \in Nat /\ Cardinality(Requests) \in Nat
    BY SendingFinite
  <2> QED BY <2>1, <2>2 DEF IInv, Rests
<1> QED BY <1>1, Invariant, PTL

(* However requests of a conversation overlap, each reply is listed after   *)
(* its question, and a question has one at most.                            *)
THEOREM RepliesComeAfter == Spec => []RepliesFollow
PROOF
<1>1. IInv => RepliesFollow
  BY DEF IInv, Talk
<1> QED BY <1>1, Invariant, PTL

(* A stored question without a reply is of a request that is at work or has *)
(* failed: none is forgotten.                                               *)
THEOREM NoQuestionForgotten == Spec => []QuestionsAnswered
PROOF
<1>1. IInv => QuestionsAnswered
  BY DEF IInv, Talk
<1> QED BY <1>1, Invariant, PTL

-------------------------------------------------------------------------------
(* Requests use the quota as AIQuota says *)

(* the values of AIQuota's variables, under the refinement mapping          *)
PcOf(r) ==
    IF r \in Holding THEN "running"
    ELSE IF request[r].pc = "again" THEN "again"
    ELSE IF request[r].pc \in {"read", "question", "run"} THEN "admitted" ELSE "idle"
GateOf(r) == IF request[r].id = 0 THEN "ended" ELSE "agency"
TakenOf(r) == IF r \in Holding THEN 1 ELSE None
ChargedNow == answered + unanswered + Cardinality(Replying)

(* a step of r that is one of the quota moves the values of r alone         *)
ValuesMove(r, pc, gate, taken) ==
    /\ \A s \in Requests \ {r} : PcOf(s)' = PcOf(s) /\ GateOf(s)' = GateOf(s) /\ TakenOf(s)' = TakenOf(s)
    /\ PcOf(r)' = pc /\ GateOf(r)' = gate /\ TakenOf(r)' = taken

LEMMA MoveValues ==
    ASSUME Shape, NEW r \in Requests, OthersStay(r)
    PROVE  /\ ValuesMove(r, PcOf(r)', GateOf(r)', TakenOf(r)')
           /\ PcOf(r)' = IF request'[r].pc \in InRun THEN "running"
                         ELSE IF request'[r].pc = "again" THEN "again"
                         ELSE IF request'[r].pc \in {"read", "question", "run"} THEN "admitted" ELSE "idle"
           /\ TakenOf(r)' = IF request'[r].pc \in InRun THEN 1 ELSE None
           /\ GateOf(r)' = IF request'[r].id = 0 THEN "ended" ELSE "agency"
           /\ PcOf(r) = IF request[r].pc \in InRun THEN "running"
                        ELSE IF request[r].pc = "again" THEN "again"
                        ELSE IF request[r].pc \in {"read", "question", "run"} THEN "admitted" ELSE "idle"
           /\ TakenOf(r) = IF request[r].pc \in InRun THEN 1 ELSE None
           /\ GateOf(r) = IF request[r].id = 0 THEN "ended" ELSE "agency"
PROOF BY DEF ValuesMove, PcOf, GateOf, TakenOf, Holding, OthersStay

LEMMA AskAdmits ==
    ASSUME IInv, NEW r \in Requests, NEW kind, NEW image, NEW c \in Conversations \cup {None},
           Ask(r, kind, image, c)
    PROVE  Quota!Admit(r)
PROOF
<1> DEFINE q == [Idle EXCEPT !.pc = IF c = None THEN "run" ELSE "read", !.kind = kind,
                             !.conversation = c, !.id = starts + 1, !.image = image]
<1>1. q.pc \in {"run", "read"} /\ q.id = starts + 1
  BY DEF Idle
<1>2. /\ request' = [request EXCEPT ![r] = q] /\ request[r].pc = "idle" /\ starts < MaxStarts
      /\ starts' = starts + 1 /\ DOMAIN request = Requests /\ starts \in Nat /\ Shape
      /\ usage' = usage /\ stranded' = stranded /\ crashes' = crashes /\ slips' = slips /\ extra' = extra
      /\ answered' = answered /\ unanswered' = unanswered
  BY DEF Ask, Becomes, IInv, Shape, tally
<1> HIDE DEF q
<1>3. OthersStay(r) /\ request'[r] = q
  BY <1>2 DEF OthersStay
<1>4. request'[r].id # 0 /\ request'[r].pc \in {"run", "read"}
  BY <1>1, <1>2, <1>3
<1>5. request[r].pc \notin InRun /\ request'[r].pc \notin InRun
  BY <1>2, <1>4 DEF InRun
<1>6. /\ ValuesMove(r, "admitted", "agency", None) /\ PcOf(r) = "idle" /\ TakenOf(r) = None
  BY <1>2, <1>3, <1>4, <1>5, MoveValues
<1>7. ChargedNow' = ChargedNow
  <2>1. Cardinality(Replying)' = Cardinality(Replying)
    BY <1>2, <1>3, <1>4, MovedCount
  <2> QED BY <1>2, <2>1 DEF ChargedNow
<1> QED BY <1>2, <1>6, <1>7
        DEF Quota!Admit, Quota!Full, Quota!historyVars, ValuesMove, PcOf, GateOf, TakenOf, ChargedNow

(* steps the quota does not see                                             *)
LEMMA StutterIfSame ==
    ASSUME \A s \in Requests : PcOf(s)' = PcOf(s) /\ GateOf(s)' = GateOf(s) /\ TakenOf(s)' = TakenOf(s),
           ChargedNow' = ChargedNow, usage' = usage, stranded' = stranded,
           starts' = starts, crashes' = crashes, slips' = slips, extra' = extra
    PROVE  UNCHANGED Quota!vars
PROOF BY DEF Quota!vars, Quota!requestVars, Quota!historyVars, Quota!boundVars,
             PcOf, GateOf, TakenOf, ChargedNow

LEMMA MoveStutters ==
    ASSUME Shape, NEW r \in Requests, OthersStay(r), request'[r].id = request[r].id,
           \/ request[r].pc \in InRun /\ request'[r].pc \in InRun
           \/ request[r].pc \in {"read", "question", "run"} /\ request'[r].pc \in {"read", "question", "run"}
           \/ request[r].pc = "reply" /\ request'[r].pc = "idle",
           ChargedNow' = ChargedNow, usage' = usage, stranded' = stranded,
           starts' = starts, crashes' = crashes, slips' = slips, extra' = extra
    PROVE  UNCHANGED Quota!vars
PROOF
<1>1. \A x \in {"read", "question", "run", "reply", "idle"} : x \notin InRun
  BY DEF InRun
<1>2. PcOf(r)' = PcOf(r) /\ GateOf(r)' = GateOf(r) /\ TakenOf(r)' = TakenOf(r)
  BY <1>1, MoveValues
<1>3. \A s \in Requests : PcOf(s)' = PcOf(s) /\ GateOf(s)' = GateOf(s) /\ TakenOf(s)' = TakenOf(s)
  BY <1>2, MoveValues DEF ValuesMove
<1> QED BY <1>3, StutterIfSame

(* a run in progress is of the cycle that is open                           *)
LEMMA HoldingIsOpen ==
    ASSUME IInv, NEW r \in Requests, request[r].pc \in InRun
    PROVE  usage.ends = 1
PROOF
<1>1. r \in Holding
  BY DEF Holding
<1>2. Cardinality(Holding) \in Nat \ {0}
  BY <1>1, HoldingFinite, Leaves
<1>3. Owed > 0
  <2>1. /\ answered \in Nat /\ unanswered \in Nat /\ stranded \in Nat
        /\ Cardinality(Replying) \in Nat
    BY CountNumbers DEF IInv
  <2> QED BY <1>2, <2>1 DEF Owed
<1> QED BY <1>3, CountNumbers DEF IInv

(* a run is counted, perhaps as the first one                               *)
LEMMA RunCounts ==
    ASSUME IInv, usage' = Counted, extra' = extra, ChargedNow' = ChargedNow
    PROVE  /\ Quota!Counts("agency") /\ Quota!SoFar(stranded) = stranded
           /\ Quota!Incremented.ends = 1
PROOF
<1>1. Count /\ usage' = Counted /\ extra' = extra /\ ChargedNow' = ChargedNow
  BY DEF IInv
<1>7. /\ Counted.ends = 1
      /\ 0 <= usage.ends => Counted = [usage EXCEPT !.runs = usage.runs + 1]
      /\ ~(0 <= usage.ends) => /\ Counted = [runs |-> 1, ends |-> 1]
                                /\ ChargedNow = 0 /\ stranded = 0 /\ extra = 0
  <2>1. usage.ends \in {-1, 1}
    BY <1>1, CountNumbers
  <2>2. Counted.ends = 1
    BY <1>1, CountedOne
  <2>3. CASE usage.ends = 1
    <3>1. Counted = [usage EXCEPT !.runs = usage.runs + 1]
      BY <2>3 DEF Counted
    <3> QED BY <2>2, <2>3, <3>1
  <2>4. CASE usage.ends = -1
    <3>1. Counted = [runs |-> 1, ends |-> 1]
      BY <2>4 DEF Counted
    <3>2. answered = 0 /\ unanswered = 0 /\ stranded = 0 /\ Cardinality(Replying) = 0
      <4>1. /\ answered \in Nat /\ unanswered \in Nat /\ stranded \in Nat
            /\ Cardinality(Holding) \in Nat /\ Cardinality(Replying) \in Nat
            /\ 0 = Cardinality(Holding) + Cardinality(Replying) + answered + unanswered + stranded
        <5>1. Owed \in Nat /\ Owed <= 0 + 0
          BY <1>1, <2>4, CountNumbers
        <5> QED BY <1>1, <5>1, CountNumbers DEF Owed
      <4>2. \A h, p, a, u, l \in Nat : 0 = h + p + a + u + l => p = 0 /\ a = 0 /\ u = 0 /\ l = 0
        OBVIOUS
      <4> QED BY <4>1, <4>2
    <3>3. ChargedNow = 0
      BY <3>2 DEF ChargedNow
    <3>4. extra = 0
      BY <1>1, <2>4, CountNumbers
    <3> QED BY <2>2, <2>4, <3>1, <3>2, <3>3, <3>4
  <2> QED BY <2>1, <2>3, <2>4
<1>8. Quota!Incremented = Counted
  BY <1>7 DEF Quota!Incremented, Quota!Open
<1>9. Quota!Counts("agency")
  <2>1. Quota!SoFar(ChargedNow) = ChargedNow
    BY <1>7 DEF Quota!SoFar, Quota!Open
  <2>2. Quota!SoFar(extra) = extra
    BY <1>7 DEF Quota!SoFar, Quota!Open
  <2>3. (usage'.ends > 0) = TRUE
    BY <1>1, <1>7
  <2> QED BY <1>1, <1>8, <2>1, <2>2, <2>3 DEF Quota!Counts, ChargedNow
<1>10. Quota!SoFar(stranded) = stranded
  BY <1>7 DEF Quota!SoFar, Quota!Open
<1> QED BY <1>7, <1>8, <1>9, <1>10

LEMMA TakeRunTakes ==
    ASSUME IInv, NEW r \in Requests, TakeRun(r)
    PROVE  Quota!TakeRun(r)
PROOF
<1>1. /\ Shape /\ Count /\ request[r].pc = "run" /\ request[r].id # 0 /\ usage' = Counted
      /\ starts' = starts /\ answered' = answered /\ unanswered' = unanswered /\ stranded' = stranded
      /\ crashes' = crashes /\ slips' = slips /\ extra' = extra
  BY DEF TakeRun, IInv, Shape, RequestOK, tally, bounds
<1>2. PICK pc \in {"begin", "prepare"} : Set(r, "pc", pc)
  BY DEF TakeRun
<1>3. Moved(r, pc, request[r].at, request[r].written)
  BY <1>1, <1>2, SetMoves
<1>4. OthersStay(r) /\ request'[r].pc = pc /\ request'[r].id = request[r].id /\ request[r].pc \notin InRun
      /\ request'[r].pc \in InRun /\ request'[r].pc # "reply"
  BY <1>1, <1>2, <1>3 DEF Moved, InRun
<1>5. ValuesMove(r, "running", "agency", 1) /\ PcOf(r) = "admitted" /\ GateOf(r) = "agency"
  BY <1>1, <1>4, MoveValues
<1>6. ChargedNow' = ChargedNow
  <2>1. Cardinality(Replying)' = Cardinality(Replying)
    BY <1>1, <1>4, MovedCount
  <2> QED BY <1>1, <2>1 DEF ChargedNow
<1> QED BY <1>1, <1>5, <1>6, RunCounts
        DEF Quota!TakeRun, Quota!Full, Quota!boundVars, ValuesMove, PcOf, GateOf, TakenOf

LEMMA EndAbandons ==
    ASSUME IInv, NEW r \in Requests, Becomes(r, Over(r)),
           request[r].pc \in {"read", "question", "run"},
           usage' = usage, starts' = starts, crashes' = crashes, slips' = slips, stranded' = stranded, extra' = extra,
           answered' = answered, unanswered' = unanswered
    PROVE  Quota!Abandon(r)
PROOF
<1>1. Shape /\ Moved(r, "idle", 0, 0)
  BY OverMoves DEF IInv
<1>2. OthersStay(r) /\ request'[r].pc = "idle" /\ request'[r].id = request[r].id
  BY <1>1 DEF Moved
<1>3. request[r].pc \notin InRun /\ request'[r].pc \notin InRun /\ request[r].pc # "reply"
  BY <1>2 DEF InRun
<1>4. /\ ValuesMove(r, "idle", GateOf(r), TakenOf(r)) /\ PcOf(r) = "admitted"
  BY <1>1, <1>2, <1>3, MoveValues
<1>5. ChargedNow' = ChargedNow
  <2>1. Cardinality(Replying)' = Cardinality(Replying)
    BY <1>1, <1>2, <1>3, MovedCount
  <2> QED BY <2>1 DEF ChargedNow
<1> QED BY <1>4, <1>5
        DEF Quota!Abandon, Quota!historyVars, Quota!boundVars, ValuesMove, PcOf, GateOf, TakenOf, ChargedNow

(* a run ends: kept when it counts as an answer, given back otherwise       *)
LEMMA RunEnds ==
    ASSUME IInv, NEW r \in Requests, OthersStay(r), request[r].pc \in InRun,
           request'[r].pc \in {"idle", "reply"}, request'[r].id = request[r].id,
           starts' = starts, crashes' = crashes, slips' = slips, stranded' = stranded, extra' = extra
    PROVE  /\ usage' = usage /\ ChargedNow' = ChargedNow + 1 => Quota!Keep(r)
           /\ usage' = Released /\ ChargedNow' = ChargedNow => Quota!Refund(r)
PROOF
<1>1. request'[r].pc \notin InRun /\ request'[r].pc \notin {"read", "question", "run"}
  BY DEF InRun
<1>2. /\ ValuesMove(r, "idle", GateOf(r), None) /\ PcOf(r) = "running" /\ TakenOf(r) = 1
  BY <1>1, MoveValues DEF IInv
<1>3. usage.ends = 1
  BY HoldingIsOpen
<1>4. ASSUME usage' = usage, ChargedNow' = ChargedNow + 1
      PROVE  Quota!Keep(r)
  <2>1. (usage'.ends > 0) = (usage.ends > 0)
    BY <1>4
  <2> QED BY <1>2, <1>3, <1>4, <2>1
          DEF Quota!Keep, Quota!boundVars, ValuesMove, PcOf, GateOf, TakenOf, ChargedNow
<1>5. ASSUME usage' = Released, ChargedNow' = ChargedNow
      PROVE  Quota!Refund(r)
  <2>1. Quota!Released = Released
    BY <1>3 DEF Quota!Released, Quota!Open, Released
  <2>2. usage'.ends = usage.ends
    BY <1>5, ReleasedOne DEF IInv
  <2>3. Quota!GivesBack(r)
    BY <1>2, <1>3, <1>5, <2>1, <2>2 DEF Quota!GivesBack, TakenOf, ChargedNow
  <2> QED BY <1>2, <2>3 DEF Quota!Refund, Quota!boundVars, ValuesMove, PcOf, GateOf, TakenOf
<1> QED BY <1>4, <1>5

(* steps between two states of a run, or before it                          *)
LEMMA WorkStutters ==
    ASSUME IInv, NEW r \in Requests, WorkStep(r)
    PROVE  UNCHANGED Quota!vars
PROOF
<1>1. Works(r) /\ Shape
  BY WorkWorks DEF IInv
<1>2. crashes' = crashes
  BY DEF WorkStep, Prepare, Calling, AnswerLocally, BeginCall, Complete, Unusable, Retry, GiveUp,
         Unauthorized, SaveDrafts, FailsInRun, bounds
<1>3. /\ usage' = usage /\ starts' = starts /\ stranded' = stranded /\ slips' = slips /\ extra' = extra
      /\ answered' = answered /\ unanswered' = unanswered /\ OthersStay(r)
      /\ request[r].pc \in InRun /\ request'[r].pc \in InRun /\ request'[r].id = request[r].id
  BY <1>1 DEF Works, tally
<1>4. request[r].pc # "reply" /\ request'[r].pc # "reply"
  BY <1>3 DEF InRun
<1>5. ChargedNow' = ChargedNow
  <2>1. Cardinality(Replying)' = Cardinality(Replying)
    BY <1>3, <1>4, MovedCount
  <2> QED BY <1>3, <2>1 DEF ChargedNow
<1> QED BY <1>1, <1>2, <1>3, <1>5, MoveStutters

LEMMA QuestionStutters ==
    ASSUME IInv, NEW r \in Requests, ReadHistory(r) \/ StoreQuestion(r)
    PROVE  UNCHANGED Quota!vars
PROOF
<1>1. /\ Shape /\ request[r].pc \in {"read", "question"}
      /\ usage' = usage /\ starts' = starts /\ stranded' = stranded /\ crashes' = crashes
      /\ slips' = slips /\ extra' = extra /\ answered' = answered /\ unanswered' = unanswered
  BY DEF ReadHistory, StoreQuestion, IInv, tally, bounds
<1>2. PICK pc \in {"question", "run"}, at \in {clock, request[r].at} : Moved(r, pc, at, request[r].written)
  <2>1. CASE ReadHistory(r)
    <3>1. Becomes(r, [request[r] EXCEPT !.pc = "question", !.at = clock])
      BY <2>1 DEF ReadHistory
    <3>2. Moved(r, "question", clock, request[r].written)
      BY <1>1, <3>1, SetMoves
    <3> QED BY <3>2
  <2>2. CASE StoreQuestion(r)
    <3>1. Set(r, "pc", "run")
      BY <2>2 DEF StoreQuestion
    <3>2. Moved(r, "run", request[r].at, request[r].written)
      BY <1>1, <3>1, SetMoves
    <3> QED BY <3>2
  <2> QED BY <2>1, <2>2
<1>3. OthersStay(r) /\ request'[r].pc \in {"question", "run"} /\ request'[r].id = request[r].id
  BY <1>2 DEF Moved
<1>4. request[r].pc \notin InRun /\ request'[r].pc \notin InRun /\ request[r].pc # "reply" /\ request'[r].pc # "reply"
  BY <1>1, <1>3 DEF InRun
<1>5. ChargedNow' = ChargedNow
  <2>1. Cardinality(Replying)' = Cardinality(Replying)
    BY <1>3, <1>4, MovedCount
  <2> QED BY <1>1, <2>1 DEF ChargedNow
<1> QED BY <1>1, <1>3, <1>5, MoveStutters

LEMMA SettleEnds ==
    ASSUME IInv, NEW r \in Requests, Settle(r)
    PROVE  Quota!Keep(r) \/ Quota!Refund(r)
PROOF
<1>1. /\ request[r].pc = "settle" /\ unanswered' = unanswered
      /\ starts' = starts /\ stranded' = stranded /\ crashes' = crashes
      /\ slips' = slips /\ extra' = extra
      /\ usage' = (IF request[r].labelled > 0 THEN usage ELSE Released)
  BY DEF Settle, bounds
<1>2. /\ Shape /\ request[r].written \in Nat /\ request[r].labelled = request[r].written
      /\ request[r].pc \in InRun /\ request[r].pc # "reply"
      /\ answered \in Nat /\ unanswered \in Nat
  BY <1>1 DEF IInv, Shape, RequestOK, InRun, Count
<1> DEFINE one == IF request[r].written > 0 THEN 1 ELSE 0
<1>3. /\ OthersStay(r) /\ request'[r].id = request[r].id /\ request'[r].pc \in {"idle", "reply"}
      /\ ChargedNow' = ChargedNow + one
  <2>1. CASE request[r].conversation = None
    <3>1. Becomes(r, Over(r)) /\ answered' = answered + one
      BY <2>1 DEF Settle, Answer
    <3>2. Moved(r, "idle", 0, 0)
      BY <1>2, <3>1, OverMoves
    <3>3. OthersStay(r) /\ request'[r].pc = "idle" /\ request'[r].id = request[r].id
      BY <3>2 DEF Moved
    <3>4. Cardinality(Replying)' = Cardinality(Replying) /\ Cardinality(Replying) \in Nat
      BY <1>2, <3>3, MovedCount
    <3>5. ChargedNow' = ChargedNow + one
      BY <1>1, <1>2, <3>1, <3>4 DEF ChargedNow
    <3> QED BY <3>3, <3>5
  <2>2. CASE request[r].conversation # None
    <3>1. Becomes(r, [request[r] EXCEPT !.pc = "reply", !.at = clock]) /\ answered' = answered
      BY <2>2 DEF Settle
    <3>2. Moved(r, "reply", clock, request[r].written)
      BY <1>2, <3>1, SetMoves
    <3>3. /\ OthersStay(r) /\ request'[r].pc = "reply" /\ request'[r].id = request[r].id
          /\ request'[r].written = request[r].written
      BY <3>2 DEF Moved
    <3>4. Cardinality(Replying)' = Cardinality(Replying) + one /\ Cardinality(Replying) \in Nat
      BY <1>2, <3>3, MovedCount
    <3>5. ChargedNow' = ChargedNow + one
      BY <1>1, <1>2, <3>1, <3>4 DEF ChargedNow
    <3> QED BY <3>3, <3>5
  <2> QED BY <2>1, <2>2
<1>4. ChargedNow + 0 = ChargedNow
  BY <1>2, HoldingFinite DEF ChargedNow
<1>5. CASE request[r].written > 0
  BY <1>1, <1>2, <1>3, <1>5, RunEnds
<1>6. CASE ~(request[r].written > 0)
  <2>1. usage' = Released /\ ChargedNow' = ChargedNow
    BY <1>1, <1>2, <1>3, <1>4, <1>6
  <2> QED BY <1>1, <1>2, <1>3, <2>1, RunEnds
<1> QED BY <1>5, <1>6

(* a request that ends with or without its reply stored                     *)
LEMMA ReplyStutters ==
    ASSUME IInv, NEW r \in Requests, request[r].pc = "reply", Becomes(r, Over(r)),
           LET one == IF request[r].written > 0 THEN 1 ELSE 0 IN
           \/ answered' = answered + one /\ unanswered' = unanswered
           \/ answered' = answered /\ unanswered' = unanswered + one,
           usage' = usage, stranded' = stranded, starts' = starts, crashes' = crashes,
           slips' = slips, extra' = extra
    PROVE  UNCHANGED Quota!vars
PROOF
<1>1. Shape /\ Moved(r, "idle", 0, 0) /\ answered \in Nat /\ unanswered \in Nat
  BY OverMoves DEF IInv, Count
<1>2. OthersStay(r) /\ request'[r].pc = "idle" /\ request'[r].id = request[r].id
  BY <1>1 DEF Moved
<1>3. /\ Cardinality(Replying)' = Cardinality(Replying) - (IF request[r].written > 0 THEN 1 ELSE 0)
      /\ Cardinality(Replying) \in Nat
  BY <1>2, MovedCount
<1>4. ChargedNow' = ChargedNow
  BY <1>1, <1>3 DEF ChargedNow
<1> QED BY <1>1, <1>2, <1>4, MoveStutters

(* The faults are counted, so that those the quota notices stay in bounds.  *)
Bounded ==
    /\ faults \in Nat /\ slips \in Nat /\ crashes \in Nat
    /\ slips <= faults /\ faults <= MaxFaults /\ crashes <= MaxCrashes

LEMMA BoundedKept == Bounded /\ [Next]_vars => Bounded'
PROOF
<1> SUFFICES ASSUME Bounded, [Next]_vars PROVE Bounded'
  OBVIOUS
<1>1. \/ faults' = faults /\ slips' = slips /\ crashes' = crashes
      \/ faults < MaxFaults /\ faults' = faults + 1 /\ slips' \in {slips, slips + 1} /\ crashes' = crashes
      \/ faults' = faults /\ slips' = slips /\ crashes < MaxCrashes /\ crashes' = crashes + 1
  <2>1. CASE UNCHANGED vars
    BY <2>1 DEF vars, bounds, tally
  <2>2. CASE Crash
    BY <2>2 DEF Crash
  <2>3. ASSUME NEW k, ChangeKey(k)
        PROVE  faults' = faults /\ slips' = slips /\ crashes' = crashes
    BY <2>3 DEF ChangeKey, bounds, tally
  <2>4. ASSUME NEW r, NEW kind, NEW image, NEW c, Ask(r, kind, image, c)
        PROVE  faults' = faults /\ slips' = slips /\ crashes' = crashes
    BY <2>4 DEF Ask, tally
  <2>5. ASSUME NEW r, Step(r)
        PROVE  faults' = faults /\ slips' = slips /\ crashes' = crashes
    BY <2>5 DEF Step, ReadHistory, StoreQuestion, TakeRun, RefuseRun, Prepare, Calling, AnswerLocally,
                BeginCall, Complete, Unusable, Retry, GiveUp, Unauthorized, SaveDrafts, Settle,
                GiveBack, StoreReply, bounds, tally
  <2>6. ASSUME NEW r, StoreFault(r)
        PROVE  faults < MaxFaults /\ faults' = faults + 1 /\ slips' \in {slips, slips + 1} /\ crashes' = crashes
    <3>1. CASE Fails(r)
      <4>1. slips' = slips + (IF request[r].pc \in {"refund", "again"} THEN 1 ELSE 0)
        BY <3>1 DEF Fails
      <4>2. slips' \in {slips, slips + 1}
        BY <4>1 DEF Bounded
      <4> QED BY <3>1, <4>2 DEF Fails, Fault
    <3>2. CASE FailsInRun(r)
      BY <3>2 DEF FailsInRun, Fault, tally
    <3>3. CASE TakeUnheard(r) \/ RefundUnheard(r) \/ StoreUnheard(r)
      BY <3>3 DEF TakeUnheard, RefundUnheard, StoreUnheard, Fault
    <3> QED BY <2>6, <3>1, <3>2, <3>3 DEF StoreFault
  <2> QED BY <2>1, <2>2, <2>3, <2>4, <2>5, <2>6 DEF Next
<1> QED BY <1>1, AssistantAssumption DEF Bounded

(* a fault the quota notices is one of its mishaps                          *)
LEMMA SlipIsMishap ==
    ASSUME Bounded, Fault, slips' = slips + 1, crashes' = crashes, NEW f \in {"store", "lost_reply"}
    PROVE  Quota!Mishap(f)
PROOF
<1>1. slips + crashes < MaxFaults + MaxCrashes /\ slips' + crashes' = slips + crashes + 1
  BY AssistantAssumption DEF Bounded, Fault
<1> QED BY <1>1 DEF Quota!Mishap

(* what a request that fails does to the values of the quota                *)
LEMMA FailMoves ==
    ASSUME IInv, NEW r \in Requests, Fail(r), starts' = starts
    PROVE  /\ ValuesMove(r, "idle", GateOf(r), None)
           /\ PcOf(r) = IF request[r].pc \in InRun THEN "running"
                        ELSE IF request[r].pc = "again" THEN "again"
                        ELSE IF request[r].pc \in {"read", "question", "run"} THEN "admitted" ELSE "idle"
           /\ TakenOf(r) = IF request[r].pc \in InRun THEN 1 ELSE None
           /\ request[r].id # 0 => GateOf(r) = "agency"
           /\ Cardinality(Replying)' = Cardinality(Replying) - Unstored(r)
PROOF
<1>1. Shape /\ Moved(r, "idle", 0, 0)
  BY OverMoves DEF IInv, Fail
<1>2. OthersStay(r) /\ request'[r].pc = "idle" /\ request'[r].id = request[r].id
  BY <1>1 DEF Moved
<1>3. request'[r].pc \notin InRun
  BY <1>2 DEF InRun
<1>4. Cardinality(Replying)' = Cardinality(Replying) - Unstored(r)
  BY <1>2, MovedCount DEF Unstored, Answer
<1> QED BY <1>1, <1>2, <1>3, <1>4, MoveValues

LEMMA FailsEnds ==
    ASSUME IInv, Bounded, NEW r \in Requests, Fails(r)
    PROVE  Quota!Abandon(r) \/ Quota!RefundFails(r) \/ UNCHANGED Quota!vars
PROOF
<1>1. /\ request[r].pc \in {"read", "question", "run", "refund", "again", "reply"}
      /\ Fault /\ Fail(r) /\ Becomes(r, Over(r)) /\ answered' = answered /\ usage' = usage
      /\ starts' = starts /\ crashes' = crashes /\ extra' = extra
      /\ stranded' = stranded + (IF request[r].pc = "refund" THEN 1 ELSE 0)
      /\ slips' = slips + (IF request[r].pc \in {"refund", "again"} THEN 1 ELSE 0)
      /\ unanswered' = unanswered + Unstored(r)
      /\ answered \in Nat /\ unanswered \in Nat /\ stranded \in Nat /\ slips \in Nat
  BY DEF Fails, Fail, IInv, Count, Unstored, Bounded
<1>2. CASE request[r].pc \in {"read", "question", "run"}
  <2>1. stranded' = stranded /\ slips' = slips /\ unanswered' = unanswered
    BY <1>1, <1>2 DEF Unstored
  <2> QED BY <1>1, <1>2, <2>1, EndAbandons
<1>3. CASE request[r].pc = "reply"
  <2>1. /\ stranded' = stranded /\ slips' = slips
        /\ unanswered' = unanswered + (IF request[r].written > 0 THEN 1 ELSE 0)
    BY <1>1, <1>3 DEF Unstored, Answer
  <2> QED BY <1>1, <1>3, <2>1, ReplyStutters
<1>4. CASE request[r].pc \in {"refund", "again"}
  <2>1. slips' = slips + 1 /\ unanswered' = unanswered /\ Unstored(r) = 0
    BY <1>1, <1>4 DEF Unstored
  <2>2. Quota!Mishap("store")
    BY <1>1, <2>1, SlipIsMishap
  <2>3. ChargedNow' = ChargedNow
    <3>1. Cardinality(Replying)' = Cardinality(Replying)
      BY <1>1, <2>1, FailMoves, HoldingFinite
    <3> QED BY <1>1, <2>1, <3>1 DEF ChargedNow
  <2>4. /\ ValuesMove(r, "idle", GateOf(r), None)
        /\ PcOf(r) \in {"running", "again"} /\ "idle" \in Quota!AfterRaise(r)
        /\ TakenOf(r) = IF request[r].pc = "refund" THEN 1 ELSE None
    <3>1. "refund" \in InRun /\ "again" \notin InRun
      BY DEF InRun
    <3>2. PcOf(r) \in {"running", "again"} /\ TakenOf(r) = IF request[r].pc = "refund" THEN 1 ELSE None
      BY <1>1, <1>4, <3>1, FailMoves
    <3>3. "idle" \in Quota!AfterRaise(r)
      BY DEF Quota!AfterRaise
    <3> QED BY <1>1, <3>2, <3>3, FailMoves
  <2>5. Quota!Loses({r})
    <3>1. usage.ends \in {-1, 1} /\ None \notin {-1, 1}
      BY CountNumbers, AssistantAssumption DEF IInv
    <3>2. request[r].pc = "refund" => usage.ends = 1
      BY HoldingIsOpen DEF InRun
    <3>3. {r} \cap Quota!Outstanding = IF request[r].pc = "refund" THEN {r} ELSE {}
      <4>1. r \in Quota!Outstanding <=> TakenOf(r) = usage.ends
        BY DEF Quota!Outstanding, TakenOf
      <4>2. TakenOf(r) = usage.ends <=> request[r].pc = "refund"
        BY <1>4, <2>4, <3>1, <3>2
      <4> QED BY <4>1, <4>2
    <3>4. Cardinality({r}) = 1 /\ Cardinality({}) = 0
      BY FS_Singleton, FS_EmptySet
    <3>5. stranded' = stranded + Cardinality({r} \cap Quota!Outstanding)
      <4>1. CASE request[r].pc = "refund"
        BY <1>1, <3>3, <3>4, <4>1
      <4>2. CASE request[r].pc # "refund"
        BY <1>1, <3>3, <3>4, <4>2
      <4> QED BY <4>1, <4>2
    <3>6. Quota!Cardinality({r} \cap Quota!Outstanding) = Cardinality({r} \cap Quota!Outstanding)
      BY DEF Quota!Cardinality, Cardinality
    <3>7. (usage.ends > 0)' = (usage.ends > 0)
      BY <1>1
    <3> QED BY <1>1, <2>3, <3>5, <3>6, <3>7 DEF Quota!Loses, ChargedNow
  <2> QED BY <1>1, <2>2, <2>4, <2>5
          DEF Quota!RefundFails, ValuesMove, PcOf, GateOf, TakenOf
<1> QED BY <1>1, <1>2, <1>3, <1>4

LEMMA GiveBackRefunds ==
    ASSUME IInv, NEW r \in Requests, GiveBack(r)
    PROVE  Quota!Refund(r)
PROOF
<1>1. /\ request[r].pc \in {"refund", "again"} /\ Fail(r) /\ answered' = answered /\ usage' = Released
      /\ starts' = starts /\ crashes' = crashes /\ stranded' = stranded /\ slips' = slips
      /\ unanswered' = unanswered
      /\ extra' = IF request[r].pc = "again" /\ Released # usage THEN extra + 1 ELSE extra
  BY DEF GiveBack, bounds
<1>2. Unstored(r) = 0 /\ "refund" \in InRun /\ "again" \notin InRun
  BY <1>1 DEF Unstored, InRun
<1>3. ChargedNow' = ChargedNow
  <2>1. Cardinality(Replying)' = Cardinality(Replying)
    BY <1>1, <1>2, FailMoves, HoldingFinite
  <2> QED BY <1>1, <2>1 DEF ChargedNow
<1>4. /\ ValuesMove(r, "idle", GateOf(r), None) /\ PcOf(r) \in {"running", "again"}
      /\ TakenOf(r) = IF request[r].pc = "refund" THEN 1 ELSE None
  BY <1>1, <1>2, FailMoves
<1>5. Quota!Released = Released
  <2>1. usage.ends \in {-1, 1} /\ (usage.ends = -1 => usage.runs = 0)
    BY CountNumbers DEF IInv
  <2> QED BY <2>1 DEF Quota!Released, Quota!Open, Released
<1>6. Quota!GivesBack(r)
  <2>1. usage.ends \in {-1, 1} /\ None \notin {-1, 1}
    BY CountNumbers, AssistantAssumption DEF IInv
  <2>2. request[r].pc = "refund" => usage.ends = 1
    BY HoldingIsOpen DEF InRun
  <2>3. TakenOf(r) = usage.ends <=> request[r].pc = "refund"
    BY <1>1, <1>4, <2>1, <2>2
  <2>4. extra' = IF Released # usage /\ TakenOf(r) # usage.ends THEN extra + 1 ELSE extra
    BY <1>1, <2>3
  <2>5. usage'.ends = usage.ends
    BY <1>1, ReleasedOne DEF IInv
  <2> QED BY <1>1, <1>3, <1>5, <2>4, <2>5 DEF Quota!GivesBack, TakenOf, ChargedNow
<1> QED BY <1>1, <1>4, <1>6 DEF Quota!Refund, Quota!boundVars, ValuesMove, PcOf, GateOf, TakenOf

LEMMA TakeUnheardTakes ==
    ASSUME IInv, Bounded, NEW r \in Requests, TakeUnheard(r)
    PROVE  Quota!TakeUnanswered(r)
PROOF
<1>1. /\ request[r].pc = "run" /\ Fault /\ Fail(r) /\ usage' = Counted /\ answered' = answered
      /\ unanswered' = unanswered /\ starts' = starts /\ crashes' = crashes /\ extra' = extra
      /\ stranded' = stranded + 1 /\ slips' = slips + 1 /\ request[r].id # 0
  BY DEF TakeUnheard, IInv, Shape, RequestOK
<1>2. Unstored(r) = 0 /\ request[r].pc \notin InRun
  BY <1>1 DEF Unstored, InRun
<1>3. ChargedNow' = ChargedNow
  <2>1. Cardinality(Replying)' = Cardinality(Replying)
    BY <1>1, <1>2, FailMoves, HoldingFinite
  <2> QED BY <1>1, <2>1 DEF ChargedNow
<1>4. /\ ValuesMove(r, "idle", "agency", None) /\ PcOf(r) = "admitted" /\ GateOf(r) = "agency"
      /\ TakenOf(r) = None
  BY <1>1, <1>2, FailMoves
<1>5. Quota!Mishap("lost_reply")
  BY <1>1, SlipIsMishap
<1> QED BY <1>1, <1>3, <1>4, <1>5, RunCounts
        DEF Quota!TakeUnanswered, Quota!Full, ValuesMove, PcOf, GateOf, TakenOf

LEMMA RefundUnheardRefunds ==
    ASSUME IInv, Bounded, NEW r \in Requests, RefundUnheard(r)
    PROVE  Quota!RefundUnanswered(r)
PROOF
<1>1. /\ Shape /\ request[r].pc = "settle" /\ Fault /\ usage' = Released /\ answered' = answered
      /\ unanswered' = unanswered /\ starts' = starts /\ crashes' = crashes /\ extra' = extra
      /\ stranded' = stranded /\ slips' = slips + 1 /\ Set(r, "pc", "again")
  BY DEF RefundUnheard, Returns, IInv
<1>2. Moved(r, "again", request[r].at, request[r].written)
  BY <1>1, SetMoves
<1>3. OthersStay(r) /\ request'[r].pc = "again" /\ request'[r].id = request[r].id
  BY <1>2 DEF Moved
<1>4. request[r].pc \in InRun /\ request'[r].pc \notin InRun
  BY <1>1, <1>3 DEF InRun
<1>5. ValuesMove(r, "again", GateOf(r), None) /\ PcOf(r) = "running" /\ TakenOf(r) = 1
  BY <1>1, <1>3, <1>4, MoveValues
<1>6. ChargedNow' = ChargedNow
  <2>1. Cardinality(Replying)' = Cardinality(Replying)
    BY <1>1, <1>3, MovedCount
  <2> QED BY <1>1, <2>1 DEF ChargedNow
<1>7. usage.ends = 1
  BY <1>4, HoldingIsOpen
<1>8. Quota!GivesBack(r)
  <2>1. Quota!Released = Released
    BY <1>7 DEF Quota!Released, Quota!Open, Released
  <2>2. usage'.ends = usage.ends
    BY <1>1, ReleasedOne DEF IInv
  <2>3. TakenOf(r) = usage.ends
    BY <1>5, <1>7
  <2>4. extra' = IF Released # usage /\ TakenOf(r) # usage.ends THEN extra + 1 ELSE extra
    BY <1>1, <2>3
  <2> QED BY <1>1, <1>6, <2>1, <2>2, <2>4 DEF Quota!GivesBack, TakenOf, ChargedNow
<1>9. Quota!Mishap("lost_reply")
  BY <1>1, SlipIsMishap
<1>10. PcOf(r) = "running" /\ PcOf(r)' = "again" /\ TakenOf(r)' = None
  BY <1>5 DEF ValuesMove
<1>11. \A s \in Requests \ {r} : PcOf(s)' = PcOf(s) /\ TakenOf(s)' = TakenOf(s)
  BY <1>5 DEF ValuesMove
<1>12. \A s \in Requests : GateOf(s)' = GateOf(s)
  BY <1>5 DEF ValuesMove
<1> QED BY <1>1, <1>8, <1>9, <1>10, <1>11, <1>12
        DEF Quota!RefundUnanswered, Quota!AfterRaise, PcOf, GateOf, TakenOf

LEMMA StoreUnheardEnds ==
    ASSUME IInv, NEW r \in Requests, StoreUnheard(r)
    PROVE  Quota!Abandon(r) \/ UNCHANGED Quota!vars
PROOF
<1>1. /\ request[r].pc \in {"question", "reply"} /\ Becomes(r, Over(r)) /\ usage' = usage
      /\ starts' = starts /\ crashes' = crashes /\ extra' = extra /\ slips' = slips
      /\ stranded' = stranded /\ unanswered' = unanswered
      /\ answered' = answered + (IF request[r].pc = "reply" THEN Answer(r) ELSE 0)
      /\ answered \in Nat
  BY DEF StoreUnheard, Fail, IInv, Count
<1>2. CASE request[r].pc = "question"
  <2>1. answered' = answered
    BY <1>1, <1>2
  <2> QED BY <1>1, <1>2, <2>1, EndAbandons
<1>3. CASE request[r].pc = "reply"
  <2>1. answered' = answered + (IF request[r].written > 0 THEN 1 ELSE 0)
    BY <1>1, <1>3 DEF Answer
  <2> QED BY <1>1, <1>3, <2>1, ReplyStutters
<1> QED BY <1>1, <1>2, <1>3

LEMMA CrashCrashes ==
    ASSUME IInv, Bounded, Crash
    PROVE  Quota!Crash
PROOF
<1>1. /\ crashes < MaxCrashes /\ crashes' = crashes + 1 /\ usage' = usage /\ starts' = starts
      /\ answered' = answered /\ stranded' = stranded + Cardinality(Holding)
      /\ extra' = extra /\ slips' = slips
      /\ unanswered' = unanswered + Cardinality(Replying)
      /\ request' = [r \in Requests |-> [Idle EXCEPT !.id = request[r].id]]
  BY DEF Crash, Over
<1>2. \A id : [Idle EXCEPT !.id = id].pc = "idle" /\ [Idle EXCEPT !.id = id].id = id
  BY DEF Idle
<1>3. \A r \in Requests : request'[r].pc = "idle" /\ request'[r].id = request[r].id
  BY <1>1, <1>2
<1>4. Holding' = {} /\ Replying' = {}
  BY <1>3 DEF Holding, Replying, InRun
<1>5. \A r \in Requests : PcOf(r)' = "idle" /\ GateOf(r)' = GateOf(r) /\ TakenOf(r)' = None
  BY <1>3, <1>4 DEF PcOf, GateOf, TakenOf
<1>6. ChargedNow' = ChargedNow
  <2>1. Cardinality(Replying)' = 0
    BY <1>4, FS_EmptySet
  <2> QED BY <1>1, <2>1, CountNumbers DEF IInv, ChargedNow
<1>7. {r \in Requests : TakenOf(r) = usage.ends} = Holding
  <2>1. None # 1 /\ None # -1
    BY AssistantAssumption
  <2>2. usage.ends \in {-1, 1} /\ Holding \subseteq Requests
    BY CountNumbers DEF IInv, Holding
  <2>3. usage.ends = -1 => Holding = {}
    BY HoldingIsOpen DEF Holding
  <2>4. CASE usage.ends = 1
    BY <2>1, <2>2, <2>4 DEF TakenOf
  <2>5. CASE usage.ends = -1
    BY <2>1, <2>3, <2>5 DEF TakenOf
  <2> QED BY <2>2, <2>4, <2>5
<1>8. Requests \cap Holding = Holding
  BY DEF Holding
<1>9. Quota!Loses(Requests)
  <2>1. Quota!Outstanding = Holding
    BY <1>7 DEF Quota!Outstanding, TakenOf
  <2>2. Cardinality(Requests \cap Quota!Outstanding) = Cardinality(Holding)
    BY <1>8, <2>1
  <2>3. stranded' = stranded + Cardinality(Requests \cap Quota!Outstanding)
    BY <1>1, <2>2
  <2>4. (usage.ends > 0)' = (usage.ends > 0)
    BY <1>1
  <2>5. Quota!Cardinality(Requests \cap Quota!Outstanding) = Cardinality(Requests \cap Quota!Outstanding)
    BY DEF Quota!Cardinality, Cardinality
  <2> QED BY <1>1, <1>6, <2>3, <2>4, <2>5 DEF Quota!Loses, ChargedNow
<1>10. Quota!Mishap("crash")
  <2>1. slips + crashes < MaxFaults + MaxCrashes /\ slips' + crashes' = slips + crashes + 1
    BY <1>1, AssistantAssumption DEF Bounded
  <2> QED BY <2>1 DEF Quota!Mishap
<1> QED BY <1>1, <1>5, <1>9, <1>10 DEF Quota!Crash, PcOf, GateOf, TakenOf

LEMMA QuotaStep ==
    ASSUME IInv, Bounded, [Next]_vars
    PROVE  [Quota!Next]_(Quota!vars)
PROOF
<1>1. ASSUME NEW r \in Requests, NEW kind, NEW image, NEW c \in Conversations \cup {None},
             Ask(r, kind, image, c)
      PROVE  Quota!Next
  BY <1>1, AskAdmits DEF Quota!Next, Quota!RequestStep
<1>2. ASSUME NEW r \in Requests, Step(r) PROVE Quota!Next \/ UNCHANGED Quota!vars
  <2>1. CASE ReadHistory(r) \/ StoreQuestion(r)
    BY <2>1, QuestionStutters
  <2>2. CASE TakeRun(r)
    BY <2>2, TakeRunTakes DEF Quota!Next, Quota!RequestStep
  <2>3. CASE RefuseRun(r)
    <3>1. /\ request[r].pc \in {"read", "question", "run"} /\ Becomes(r, Over(r)) /\ usage' = usage
          /\ starts' = starts /\ crashes' = crashes /\ slips' = slips /\ stranded' = stranded
          /\ extra' = extra /\ answered' = answered /\ unanswered' = unanswered
      BY <2>3 DEF RefuseRun, bounds
    <3>2. Quota!Abandon(r)
      BY <3>1, EndAbandons
    <3> QED BY <3>2 DEF Quota!Next, Quota!RequestStep
  <2>4. CASE WorkStep(r)
    BY <2>4, WorkStutters
  <2>5. CASE Settle(r)
    BY <2>5, SettleEnds DEF Quota!Next, Quota!RequestStep
  <2>6. CASE StoreReply(r)
    <3>1. /\ request[r].pc = "reply" /\ Becomes(r, Over(r)) /\ usage' = usage
          /\ starts' = starts /\ crashes' = crashes /\ slips' = slips /\ stranded' = stranded
          /\ answered' = answered + (IF request[r].written > 0 THEN 1 ELSE 0) /\ unanswered' = unanswered
          /\ extra' = extra
      BY <2>6 DEF StoreReply, Answer, bounds
    <3> QED BY <3>1, ReplyStutters
  <2>7. CASE GiveBack(r)
    BY <2>7, GiveBackRefunds DEF Quota!Next, Quota!RequestStep
  <2> QED BY <1>2, <2>1, <2>2, <2>3, <2>4, <2>5, <2>6, <2>7 DEF Step, WorkStep
<1>3. ASSUME NEW r \in Requests, StoreFault(r) PROVE Quota!Next \/ UNCHANGED Quota!vars
  <2>1. CASE Fails(r)
    BY <2>1, FailsEnds DEF Quota!Next, Quota!RequestStep
  <2>2. CASE FailsInRun(r)
    BY <2>2, WorkStutters DEF WorkStep
  <2>3. CASE TakeUnheard(r)
    BY <2>3, TakeUnheardTakes DEF Quota!Next, Quota!RequestStep
  <2>4. CASE RefundUnheard(r)
    BY <2>4, RefundUnheardRefunds DEF Quota!Next, Quota!RequestStep
  <2>5. CASE StoreUnheard(r)
    BY <2>5, StoreUnheardEnds DEF Quota!Next, Quota!RequestStep
  <2> QED BY <1>3, <2>1, <2>2, <2>3, <2>4, <2>5 DEF StoreFault
<1>4. CASE Crash
  BY <1>4, CrashCrashes DEF Quota!Next
<1>5. ASSUME request' = request, usage' = usage, bounds' = bounds, tally' = tally
      PROVE  UNCHANGED Quota!vars
  <2>1. \A s \in Requests : PcOf(s)' = PcOf(s) /\ GateOf(s)' = GateOf(s) /\ TakenOf(s)' = TakenOf(s)
    BY <1>5 DEF PcOf, GateOf, TakenOf, Holding
  <2>2. ChargedNow' = ChargedNow
    BY <1>5 DEF ChargedNow, Replying, tally
  <2>3. stranded' = stranded /\ starts' = starts /\ crashes' = crashes /\ slips' = slips /\ extra' = extra
    BY <1>5 DEF tally, bounds
  <2> QED BY <1>5, <2>1, <2>2, <2>3, StutterIfSame
<1>6. CASE \E k \in Keys \cup {None} : ChangeKey(k)
  BY <1>5, <1>6 DEF ChangeKey
<1>7. CASE UNCHANGED vars
  BY <1>5, <1>7 DEF vars
<1> QED BY <1>1, <1>2, <1>3, <1>4, <1>6, <1>7 DEF Next

LEMMA QuotaInit == Init => Quota!Init
PROOF
<1> SUFFICES ASSUME Init PROVE Quota!Init
  OBVIOUS
<1>1. Idle.pc = "idle" /\ Idle.id = 0
  BY DEF Idle
<1>2. \A r \in Requests : request[r].pc = "idle" /\ request[r].id = 0
  BY <1>1 DEF Init
<1>3. Holding = {} /\ Replying = {}
  BY <1>2 DEF Holding, Replying, InRun
<1>4. \A r \in Requests : PcOf(r) = "idle" /\ GateOf(r) = "ended" /\ TakenOf(r) = None
  BY <1>2, <1>3 DEF PcOf, GateOf, TakenOf
<1>5. ChargedNow = 0
  BY <1>3, FS_EmptySet DEF Init, ChargedNow
<1>6. (usage.ends > 0) = FALSE
  BY DEF Init
<1> QED BY <1>4, <1>5, <1>6 DEF Init, Quota!Init, Quota!NoRow, PcOf, GateOf, TakenOf, ChargedNow

(* The assistant's requests take runs, keep them and give them back as the  *)
(* quota of AIQuota says, restarts and store calls that raise before or     *)
(* after their commit included.                                             *)
THEOREM QuotaIsUsed == Spec => UsesQuota
PROOF
<1>1. Init => Quota!Init
  BY QuotaInit
<1>2. IInv /\ Bounded /\ [Next]_vars => [Quota!Next]_(Quota!vars)
  BY QuotaStep
<1>3. Init => Bounded
  BY AssistantAssumption DEF Init, Bounded
<1> QED BY <1>1, <1>2, <1>3, BoundedKept, Invariant, PTL DEF Spec, UsesQuota, Quota!Spec

===============================================================================
