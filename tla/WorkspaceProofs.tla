---------------------------- MODULE WorkspaceProofs ----------------------------
(***************************************************************************)
(* Proofs about Inbox and the Channels below it: the webhook of a          *)
(* workspace, the comments it is shown and the Page it replies as, for any *)
(* number of handlers, workspaces, Pages and comments.                     *)
(*                                                                         *)
(* CapKept, FirstPageIsDefault and TypeOK need to know what the recursive  *)
(* functions of Usable and Without return for every list.  The lemmas on   *)
(* lists say so, by the induction over numbers of module Induction.        *)
(***************************************************************************)
EXTENDS Inbox, FiniteSetTheorems, Induction, TLAPS

-------------------------------------------------------------------------------
(* The webhook of a workspace *)

HookSteps == {"test", "list", "delete", "attach"}
BringsRow(r) == request[r].pc \in {"test", "attach"}
InHookStep(r) == request[r].pc \in {"list", "delete"}

(* Handlers are records with the fields of Idle; those of a webhook know   *)
(* their workspace, and each brings an id no row and no other one has.     *)
HandlersOK ==
    /\ DOMAIN request = Requests
    /\ \A r \in Requests :
           /\ DOMAIN request[r] = DOMAIN Idle
           /\ request[r].pc \in HookSteps => request[r].tenant \in Tenants
           /\ BringsRow(r) => request[r].n \in 1..starts
    /\ \A r, s \in Requests :
           BringsRow(r) /\ BringsRow(s) /\ request[r].n = request[s].n => r = s

RowsOK ==
    /\ DOMAIN webhooks = Tenants /\ DOMAIN attached = Tenants
    /\ \A t \in Tenants : \A a \in webhooks[t] :
           /\ a.id \in 1..starts
           /\ \A r \in Requests : BringsRow(r) => request[r].n # a.id
           /\ \A b \in webhooks[t] : a.id = b.id \/ a.hook = b.hook => a = b

(* Of two rows of a workspace that were not added by connect some handler   *)
(* will delete one: it has still to list them and spares at most one, or it *)
(* has one of them on its list.                                             *)
Doomed(r, t, a, b) ==
    /\ request[r].tenant = t
    /\ \/ request[r].pc = "list" /\ (request[r].asked = a.hook \/ request[r].asked = b.hook)
       \/ request[r].pc = "delete" /\ (a.id \in request[r].ids \/ b.id \in request[r].ids)

Saves(t) == {row \in webhooks[t] : row.hook \notin attached[t]}

PairsDoomed ==
    faults = 0 => \A t \in Tenants : \A a, b \in Saves(t) :
                      a # b => \E r \in Requests : Doomed(r, t, a, b)

(* While the saves of a workspace do not overlap, the handler at work spares *)
(* the row it saved.                                                         *)
Spares(r, t, row) ==
    request[r].tenant = t /\ InHookStep(r) =>
        /\ request[r].asked = row.hook
        /\ request[r].pc = "delete" => row.id \notin request[r].ids

OneSpared ==
    \A t \in (hooked \ clashed) \cap Tenants :
        \E row \in webhooks[t] : \A r \in Requests : Spares(r, t, row)

Counters == starts \in Nat /\ faults \in Nat

HookInv ==
    /\ Counters /\ HandlersOK /\ RowsOK
    /\ PairsDoomed /\ OneSpared /\ hooked \subseteq Tenants

(* Rows unique by id and webhook, no two rows without somebody to delete    *)
(* one, and one row nobody deletes: this is the property.                   *)
LEMMA HookInvImplies == HookInv => OneWebhook
PROOF
<1> SUFFICES ASSUME HookInv, NEW t \in Tenants
             PROVE  /\ InHook(t) = {} /\ faults = 0 => Cardinality(Saves(t)) <= 1
                    /\ t \in hooked \ clashed => webhooks[t] # {}
  BY DEF OneWebhook, Saves
<1>1. ASSUME InHook(t) = {}, faults = 0
      PROVE  Cardinality(Saves(t)) <= 1
  <2>1. \A r \in Requests : request[r].tenant = t => request[r].pc \notin {"list", "delete"}
    BY <1>1 DEF InHook, OnTenant
  <2>2. \A a, b \in Saves(t) : a = b
    BY <1>1, <2>1 DEF HookInv, PairsDoomed, Doomed
  <2>3. CASE Saves(t) = {}
    BY <2>3, FS_EmptySet
  <2>4. CASE Saves(t) # {}
    <3>1. PICK a \in Saves(t) : TRUE
      BY <2>4
    <3>2. Saves(t) = {a}
      BY <3>1, <2>2
    <3>3. Cardinality({a}) = 1
      BY FS_Singleton
    <3> QED BY <3>2, <3>3
  <2> QED BY <2>3, <2>4
<1>2. ASSUME t \in hooked \ clashed
      PROVE  webhooks[t] # {}
  BY <1>2 DEF HookInv, OneSpared
<1> QED BY <1>1, <1>2

LEMMA HookInvInit == Init => HookInv
PROOF
<1> SUFFICES ASSUME Init PROVE HookInv
  OBVIOUS
<1>1. ChannelsInit
  BY DEF Init
<1>2. \A r \in Requests : request[r] = Idle
  BY <1>1 DEF ChannelsInit
<1>3. Idle.pc = "idle"
  BY DEF Idle
<1>4. Counters
  BY <1>1 DEF Counters, ChannelsInit
<1>5. HandlersOK
  BY <1>1, <1>2, <1>3 DEF HandlersOK, BringsRow, ChannelsInit, HookSteps
<1>6. RowsOK /\ PairsDoomed /\ OneSpared
  BY <1>1 DEF RowsOK, PairsDoomed, Saves, OneSpared, ChannelsInit
<1> QED BY <1>1, <1>4, <1>5, <1>6 DEF HookInv, ChannelsInit

(* A step that leaves the webhooks alone and moves only handlers of something *)
(* else, or fails.                                                            *)
Aside(r) ==
    /\ DOMAIN request' = Requests
    /\ \A s \in Requests \ {r} : request'[s] = request[s]
    /\ DOMAIN request'[r] = DOMAIN Idle
    /\ request'[r].pc \notin HookSteps
    /\ request[r].pc \in {"list", "delete"} => faults' > 0

LEMMA AsideKeeps ==
    ASSUME HookInv, NEW r \in Requests, Aside(r),
           webhooks' = webhooks, hooked' = hooked, clashed' = clashed, attached' = attached,
           starts' \in Nat, starts' >= starts, faults' \in Nat, faults' >= faults
    PROVE  HookInv'
PROOF
<1>1. HandlersOK'
  BY DEF HookInv, HandlersOK, BringsRow, Aside, Counters, HookSteps
<1>2. RowsOK'
  BY DEF HookInv, RowsOK, BringsRow, Aside, Counters, HookSteps
<1>3. PairsDoomed'
  <2> SUFFICES ASSUME faults' = 0, NEW t \in Tenants, NEW a \in Saves(t), NEW b \in Saves(t),
                      a # b
               PROVE  \E s \in Requests : Doomed(s, t, a, b)'
    BY DEF PairsDoomed, Saves
  <2>1. faults = 0
    BY DEF HookInv, Counters
  <2>2. PICK s \in Requests : Doomed(s, t, a, b)
    BY <2>1 DEF HookInv, PairsDoomed
  <2>3. s # r
    BY <2>2 DEF Doomed, Aside
  <2>4. request'[s] = request[s]
    BY <2>3 DEF Aside
  <2>5. Doomed(s, t, a, b)'
    BY <2>2, <2>4 DEF Doomed
  <2> QED BY <2>5
<1>4. OneSpared'
  <2> SUFFICES ASSUME NEW t \in (hooked \ clashed) \cap Tenants
               PROVE  \E row \in webhooks[t] : \A s \in Requests : Spares(s, t, row)'
    BY DEF OneSpared
  <2>1. PICK row \in webhooks[t] : \A s \in Requests : Spares(s, t, row)
    BY DEF HookInv, OneSpared
  <2>2. \A s \in Requests : Spares(s, t, row)'
    BY <2>1 DEF Spares, InHookStep, Aside, HookSteps
  <2> QED BY <2>2
<1>5. Counters' /\ hooked' \subseteq Tenants
  BY DEF Counters, HookInv
<1> QED BY <1>1, <1>2, <1>3, <1>4, <1>5 DEF HookInv

(* Connecting accounts never touches a webhook.                               *)
LEMMA ConnectingKeeps ==
    ASSUME HookInv, NEW r \in Requests, Connecting(r)
    PROVE  HookInv'
PROOF
<1>0. DOMAIN request = Requests /\ DOMAIN request[r] = DOMAIN Idle /\ starts \in Nat /\ faults \in Nat
  BY DEF HookInv, HandlersOK, Counters
<1>i. Idle.pc = "idle"
  BY DEF Idle
<1>1. ASSUME NEW t \in Tenants, NEW via \in {"oauth", "connect", "token"}, NEW a, Start(r, t, via, a)
      PROVE  HookInv'
  <2> DEFINE q == [Idle EXCEPT !.pc = IF via = "oauth" THEN "exchange" ELSE "slot",
                               !.via = via, !.tenant = t, !.limit = PlanLimit(t), !.asked = a]
  <2>a. request' = [request EXCEPT ![r] = q] /\ request[r].pc = "idle"
    BY <1>1 DEF Start, Running
  <2>b. DOMAIN q = DOMAIN Idle /\ q.pc \in {"exchange", "slot"}
    BY DEF Idle
  <2> HIDE DEF q
  <2>1. Aside(r)
    BY <1>0, <2>a, <2>b DEF Aside, HookSteps
  <2> QED BY <1>0, <1>1, <2>1, AsideKeeps DEF Start, tables, history, hookHistory
<1>2. ASSUME NEW list, ListPages(r, list)
      PROVE  HookInv'
  <2> DEFINE usable == Usable(accounts[request[r].tenant], request[r].limit, list)
             q == [request[r] EXCEPT !.pc = "save", !.pages = usable, !.n = Len(usable)]
  <2>a. request[r].pc = "exchange" /\ (request' = [request EXCEPT ![r] = Idle] \/ request' = [request EXCEPT ![r] = q])
    BY <1>0, <1>2 DEF ListPages, Ends
  <2>b. DOMAIN q = DOMAIN Idle /\ q.pc = "save"
    BY <1>0 DEF Idle
  <2> HIDE DEF q
  <2>1. Aside(r)
    BY <1>0, <1>i, <2>a, <2>b DEF Aside, HookSteps
  <2> QED BY <1>0, <1>2, <2>1, AsideKeeps DEF ListPages, tables, hookHistory
<1>3. ASSUME CheckSlot(r) PROVE HookInv'
  <2> DEFINE pc == IF request[r].via = "token" THEN "resolve" ELSE "save"
             q == [request[r] EXCEPT !.pc = pc, !.pages = <<request[r].asked>>, !.n = 1]
  <2>a. request[r].pc = "slot" /\ (request' = [request EXCEPT ![r] = Idle] \/ request' = [request EXCEPT ![r] = q])
    BY <1>0, <1>3 DEF CheckSlot, Ends
  <2>b. DOMAIN q = DOMAIN Idle /\ q.pc \in {"resolve", "save"}
    BY <1>0 DEF Idle
  <2> HIDE DEF q
  <2>1. Aside(r)
    BY <1>0, <1>i, <2>a, <2>b DEF Aside, HookSteps
  <2> QED BY <1>0, <1>3, <2>1, AsideKeeps DEF CheckSlot, tables, hookHistory
<1>4. ASSUME NEW page \in Pages, Resolve(r, page) PROVE HookInv'
  <2>1. Aside(r)
    BY <1>0, <1>4 DEF Resolve, Aside, HookSteps
  <2> QED BY <1>0, <1>4, <2>1, AsideKeeps DEF Resolve, tables, hookHistory
<1>5. ASSUME Refused(r) PROVE HookInv'
  <2>1. Aside(r)
    BY <1>0, <1>i, <1>5 DEF Refused, Aside, HookSteps, Ends
  <2> QED BY <1>0, <1>5, <2>1, AsideKeeps DEF Refused, tables, hookHistory
<1>6. ASSUME SavePage(r) PROVE HookInv'
  <2>a. /\ request[r].pc = "save" /\ DOMAIN request' = Requests
        /\ \A s \in Requests \ {r} : request'[s] = request[s]
        /\ request'[r] \in {[request[r] EXCEPT !.n = request[r].n - 1], Idle,
                 [request[r] EXCEPT !.n = 0, !.pc = "subscribe"]}
    BY <1>0, <1>6 DEF SavePage, EndsAfter
  <2>b. DOMAIN request'[r] = DOMAIN Idle /\ request'[r].pc \in {"save", "subscribe", "idle"}
    BY <1>0, <1>i, <2>a DEF Idle
  <2>1. Aside(r)
    BY <2>a, <2>b DEF Aside, HookSteps
  <2> QED BY <1>0, <1>6, <2>1, AsideKeeps DEF SavePage, hookHistory
<1>7. ASSUME SubscribePage(r) PROVE HookInv'
  <2>a. /\ request[r].pc = "subscribe" /\ DOMAIN request' = Requests
        /\ \A s \in Requests \ {r} : request'[s] = request[s]
        /\ request'[r] \in {[request[r] EXCEPT !.n = request[r].n + 1], Idle}
    BY <1>0, <1>7 DEF SubscribePage, Ends, Set
  <2>b. DOMAIN request'[r] = DOMAIN Idle /\ request'[r].pc \in {"subscribe", "idle"}
    BY <1>0, <1>i, <2>a DEF Idle
  <2>1. Aside(r)
    BY <2>a, <2>b DEF Aside, HookSteps
  <2> QED BY <1>0, <1>7, <2>1, AsideKeeps DEF SubscribePage, hookHistory
<1> QED BY <1>1, <1>2, <1>3, <1>4, <1>5, <1>6, <1>7 DEF Connecting

LEMMA CrashKeeps ==
    ASSUME HookInv, NEW r \in Requests, Crash(r)
    PROVE  HookInv'
PROOF
<1>0. DOMAIN request = Requests /\ DOMAIN request[r] = DOMAIN Idle /\ starts \in Nat /\ faults \in Nat
  BY DEF HookInv, HandlersOK, Counters
<1>i. Idle.pc = "idle"
  BY DEF Idle
<1>1. Aside(r)
  BY <1>0, <1>i DEF Crash, Aside, HookSteps, Ends
<1> QED BY <1>0, <1>1, AsideKeeps DEF Crash, tables, hookHistory

(* A handler that saves a webhook, the one way or the other, brings an id   *)
(* that is new.                                                             *)
LEMMA StartHookKeeps ==
    ASSUME HookInv, NEW r \in Requests, NEW u \in Tenants, NEW h \in Hooks,
           StartHook(r, u, h) \/ StartAttach(r, u, h)
    PROVE  HookInv'
PROOF
<1> PICK way \in {<<"test", "hook">>, <<"attach", "connect">>} :
        /\ request' = [request EXCEPT ![r] = [Idle EXCEPT !.pc = way[1], !.via = way[2],
                                                  !.tenant = u, !.asked = h, !.n = starts + 1]]
        /\ ~Running(r) /\ starts' = starts + 1 /\ UNCHANGED <<tables, history, faults>>
  BY DEF StartHook, StartAttach
<1> DEFINE q == [Idle EXCEPT !.pc = way[1], !.via = way[2], !.tenant = u, !.asked = h, !.n = starts + 1]
<1>1. /\ request' = [request EXCEPT ![r] = q] /\ request[r].pc = "idle"
      /\ starts' = starts + 1 /\ webhooks' = webhooks /\ hooked' = hooked /\ clashed' = clashed
      /\ faults' = faults /\ attached' = attached
  BY DEF tables, history, hookHistory, Running
<1>2. DOMAIN q = DOMAIN Idle /\ q.pc \in {"test", "attach"} /\ q.tenant = u /\ q.n = starts + 1
  BY DEF Idle
<1> HIDE DEF q
<1>3. HandlersOK'
  BY <1>1, <1>2 DEF HookInv, HandlersOK, BringsRow, Counters, HookSteps
<1>4. RowsOK'
  BY <1>1, <1>2 DEF HookInv, RowsOK, HandlersOK, BringsRow, Counters
<1>5. PairsDoomed'
  <2> SUFFICES ASSUME faults = 0, NEW t \in Tenants, NEW a \in Saves(t), NEW b \in Saves(t),
                      a # b
               PROVE  \E s \in Requests : Doomed(s, t, a, b)'
    BY <1>1 DEF PairsDoomed, Saves
  <2>2. PICK s \in Requests : Doomed(s, t, a, b)
    BY DEF HookInv, PairsDoomed
  <2>3. Doomed(s, t, a, b)'
    BY <1>1, <2>2 DEF Doomed, HookInv, HandlersOK
  <2> QED BY <2>3
<1>6. OneSpared'
  <2> SUFFICES ASSUME NEW t \in (hooked \ clashed) \cap Tenants
               PROVE  \E row \in webhooks[t] : \A s \in Requests : Spares(s, t, row)'
    BY <1>1 DEF OneSpared
  <2>1. PICK row \in webhooks[t] : \A s \in Requests : Spares(s, t, row)
    BY DEF HookInv, OneSpared
  <2>2. \A s \in Requests : Spares(s, t, row)'
    BY <1>1, <1>2, <2>1 DEF Spares, InHookStep, HookInv, HandlersOK
  <2> QED BY <2>2
<1> QED BY <1>1, <1>3, <1>4, <1>5, <1>6 DEF HookInv, Counters

LEMMA SaveHookKeeps ==
    ASSUME HookInv, NEW r \in Requests, SaveHook(r)
    PROVE  HookInv'
PROOF
<1> DEFINE u == request[r].tenant
           h == request[r].asked
           id == request[r].n
           rows == SavedHook(webhooks[u], h, id)
           q == [request[r] EXCEPT !.pc = "list"]
<1>0. DOMAIN request = Requests /\ DOMAIN request[r] = DOMAIN Idle /\ DOMAIN webhooks = Tenants
  BY DEF HookInv, HandlersOK, RowsOK
<1>1. /\ request[r].pc = "test" /\ u \in Tenants /\ id \in 1..starts
      /\ starts' = starts /\ faults' = faults /\ hooked' = hooked \cup {u}
      /\ clashed' = IF InHook(u) # {} THEN clashed \cup {u} ELSE clashed
      /\ webhooks' = [webhooks EXCEPT ![u] = rows]
      /\ attached' = [attached EXCEPT ![u] = @ \ {h}]
  BY DEF SaveHook, HookInv, HandlersOK, BringsRow, HookSteps
<1>2. request' = [request EXCEPT ![r] = q]
  BY <1>0 DEF SaveHook, Set
<1>3. DOMAIN q = DOMAIN Idle /\ q.pc = "list" /\ q.tenant = u /\ q.asked = h
  BY <1>0 DEF Idle
<1>4. rows = webhooks[u] \/ rows = webhooks[u] \cup {[hook |-> h, id |-> id]}
  BY DEF SavedHook
<1>5. (\A a \in webhooks[u] : a.hook # h) \/ rows = webhooks[u]
  BY DEF SavedHook
<1>6. \E a \in rows : a.hook = h
  <2>1. CASE \E a \in webhooks[u] : a.hook = h
    BY <2>1 DEF SavedHook
  <2>2. CASE ~\E a \in webhooks[u] : a.hook = h
    <3>1. [hook |-> h, id |-> id] \in rows
      BY <2>2 DEF SavedHook
    <3>2. [hook |-> h, id |-> id].hook = h
      OBVIOUS
    <3> HIDE DEF rows, h, id
    <3> QED BY <3>1, <3>2
  <2> QED BY <2>1, <2>2
<1> HIDE DEF q, rows
<1>7. HandlersOK'
  BY <1>1, <1>2, <1>3 DEF HookInv, HandlersOK, BringsRow, HookSteps
<1>8. RowsOK'
  <2>1. \A t \in Tenants : \A a \in webhooks'[t] :
            a \in webhooks[t] \/ (t = u /\ a = [hook |-> h, id |-> id] /\ rows # webhooks[u])
    BY <1>0, <1>1, <1>4
  <2>2. \A s \in Requests : BringsRow(s)' => s # r /\ BringsRow(s) /\ request'[s].n = request[s].n
    BY <1>0, <1>2, <1>3 DEF BringsRow
  <2>3. DOMAIN webhooks' = Tenants /\ DOMAIN attached' = Tenants
    BY <1>0, <1>1 DEF HookInv, RowsOK
  <2> HIDE DEF u, h, id
  <2>4. ASSUME NEW t \in Tenants, NEW a \in webhooks'[t]
        PROVE  a.id \in 1..starts /\ \A s \in Requests : BringsRow(s)' => request'[s].n # a.id
    BY <1>1, <2>1, <2>2, <2>4 DEF HookInv, RowsOK, HandlersOK, BringsRow, id
  <2>5. ASSUME NEW t \in Tenants, NEW a \in webhooks'[t], NEW b \in webhooks'[t], a.id = b.id \/ a.hook = b.hook
        PROVE  a = b
    <3>1. CASE a \in webhooks[t] /\ b \in webhooks[t]
      BY <2>5, <3>1 DEF HookInv, RowsOK
    <3>2. \A x \in webhooks[u] : x.id # id
      BY <1>1 DEF HookInv, RowsOK, BringsRow, id, u
    <3>3. ASSUME ~(a \in webhooks[t] /\ b \in webhooks[t])
          PROVE  a = b
      <4> DEFINE new == [hook |-> h, id |-> id]
      <4>1. new.hook = h /\ new.id = id
        OBVIOUS
      <4> HIDE DEF new
      <4>2. /\ a \in webhooks[t] \/ (t = u /\ a = new /\ rows # webhooks[u])
            /\ b \in webhooks[t] \/ (t = u /\ b = new /\ rows # webhooks[u])
        BY <2>1 DEF new
      <4> QED BY <1>5, <2>5, <3>2, <3>3, <4>1, <4>2
    <3> QED BY <3>1, <3>3
  <2> QED BY <1>1, <2>3, <2>4, <2>5 DEF RowsOK
<1>9. PairsDoomed'
  <2> SUFFICES ASSUME faults = 0, NEW t \in Tenants, NEW a \in Saves(t)', NEW b \in Saves(t)',
                      a # b
               PROVE  \E s \in Requests : Doomed(s, t, a, b)'
    BY <1>1 DEF PairsDoomed
  <2>0. a \in webhooks'[t] /\ b \in webhooks'[t]
    BY DEF Saves
  <2>1. CASE a \in Saves(t) /\ b \in Saves(t)
    <3>1. PICK s \in Requests : Doomed(s, t, a, b)
      BY <2>1 DEF HookInv, PairsDoomed
    <3>2. s # r
      BY <1>1, <3>1 DEF Doomed
    <3>3. Doomed(s, t, a, b)'
      BY <1>0, <1>2, <3>1, <3>2 DEF Doomed
    <3> QED BY <3>3
  <2>2. CASE ~(a \in Saves(t) /\ b \in Saves(t))
    <3>1. t = u /\ (a.hook = h \/ b.hook = h)
      BY <1>0, <1>1, <1>4, <2>0, <2>2 DEF Saves
    <3>2. Doomed(r, t, a, b)'
      BY <1>0, <1>2, <1>3, <3>1 DEF Doomed
    <3> QED BY <3>2
  <2> QED BY <2>1, <2>2
<1>10. OneSpared'
  <2> SUFFICES ASSUME NEW t \in (hooked' \ clashed') \cap Tenants
               PROVE  \E row \in webhooks'[t] : \A s \in Requests : Spares(s, t, row)'
    BY DEF OneSpared
  <2>1. CASE t = u
    <3>1. PICK row \in rows : row.hook = h
      BY <1>6
    <3>2. \A s \in Requests : request[s].tenant = u => ~InHookStep(s)
      BY <1>1, <2>1 DEF InHook, OnTenant, InHookStep
    <3>3. \A s \in Requests : Spares(s, t, row)'
      <4> TAKE s \in Requests
      <4>1. CASE s = r
        BY <1>0, <1>2, <1>3, <2>1, <3>1, <4>1 DEF Spares, InHookStep
      <4>2. CASE s # r
        BY <1>0, <1>2, <2>1, <3>2, <4>2 DEF Spares, InHookStep
      <4> QED BY <4>1, <4>2
    <3>4. row \in webhooks'[t]
      BY <1>0, <1>1, <2>1, <3>1
    <3> QED BY <3>3, <3>4
  <2>2. CASE t # u
    <3>0. t \in hooked \ clashed
      BY <1>1, <2>2
    <3>1. PICK row \in webhooks[t] : \A s \in Requests : Spares(s, t, row)
      BY <3>0 DEF HookInv, OneSpared
    <3>2. \A s \in Requests : Spares(s, t, row)'
      BY <1>0, <1>2, <1>3, <2>2, <3>1 DEF Spares, InHookStep
    <3> QED BY <1>0, <1>1, <2>2, <3>2
  <2> QED BY <2>1, <2>2
<1> QED BY <1>1, <1>7, <1>8, <1>9, <1>10 DEF HookInv, Counters

LEMMA ListHooksKeeps ==
    ASSUME HookInv, NEW r \in Requests, ListHooks(r)
    PROVE  HookInv'
PROOF
<1> DEFINE u == request[r].tenant
           h == request[r].asked
           others == {row \in webhooks[u] : row.hook # h}
           ids == {row.id : row \in others}
           q == [request[r] EXCEPT !.pc = "delete", !.ids = ids]
<1>0. DOMAIN request = Requests /\ DOMAIN request[r] = DOMAIN Idle /\ DOMAIN webhooks = Tenants
  BY DEF HookInv, HandlersOK, RowsOK
<1>1. /\ request[r].pc = "list" /\ u \in Tenants
      /\ starts' = starts /\ faults' = faults /\ hooked' = hooked
      /\ clashed' = clashed /\ webhooks' = webhooks /\ attached' = attached
  BY DEF ListHooks, HookInv, HandlersOK, HookSteps, tables, hookHistory
<1>2. \/ others = {} /\ request' = [request EXCEPT ![r] = Idle]
      \/ others # {} /\ request' = [request EXCEPT ![r] = q]
  BY <1>0 DEF ListHooks, Ends
<1>3. DOMAIN q = DOMAIN Idle /\ q.pc = "delete" /\ q.tenant = u /\ q.asked = h /\ q.ids = ids
  BY <1>0 DEF Idle
<1>4. Idle.pc = "idle"
  BY DEF Idle
<1>5. \A row \in webhooks[u] : row.hook # h => row.id \in ids
  OBVIOUS
<1>6. \A row \in webhooks[u] : row.hook = h => row.id \notin ids
  BY <1>1 DEF HookInv, RowsOK
<1>7. \A row \in webhooks[u] : row.hook # h => others # {}
  OBVIOUS
<1> HIDE DEF q, ids, others
<1>8. HandlersOK'
  BY <1>1, <1>2, <1>3, <1>4 DEF HookInv, HandlersOK, BringsRow, HookSteps
<1>9. RowsOK'
  <2>1. \A s \in Requests : BringsRow(s)' => BringsRow(s) /\ request'[s].n = request[s].n
    BY <1>0, <1>2, <1>3, <1>4 DEF BringsRow
  <2> QED BY <1>1, <2>1 DEF HookInv, RowsOK
<1>10. PairsDoomed'
  <2> SUFFICES ASSUME faults = 0, NEW t \in Tenants, NEW a \in Saves(t), NEW b \in Saves(t),
                      a # b
               PROVE  \E s \in Requests : Doomed(s, t, a, b)'
    BY <1>1 DEF PairsDoomed, Saves
  <2>1. PICK s \in Requests : Doomed(s, t, a, b)
    BY DEF HookInv, PairsDoomed
  <2>2. CASE s # r
    <3>1. Doomed(s, t, a, b)'
      BY <1>0, <1>2, <2>1, <2>2 DEF Doomed
    <3> QED BY <3>1
  <2>3. CASE s = r
    <3>1. t = u /\ (h = a.hook \/ h = b.hook)
      BY <1>1, <2>1, <2>3 DEF Doomed
    <3>0. a \in webhooks[t] /\ b \in webhooks[t]
      BY DEF Saves
    <3>2. a.hook # b.hook
      BY <3>0 DEF HookInv, RowsOK
    <3>3. a.id \in ids \/ b.id \in ids
      BY <1>5, <3>0, <3>1, <3>2
    <3>4. others # {}
      BY <1>7, <3>0, <3>1, <3>2
    <3>5. Doomed(r, t, a, b)'
      BY <1>0, <1>2, <1>3, <3>1, <3>3, <3>4 DEF Doomed
    <3> QED BY <3>5
  <2> QED BY <2>2, <2>3
<1>11. OneSpared'
  <2> SUFFICES ASSUME NEW t \in (hooked \ clashed) \cap Tenants
               PROVE  \E row \in webhooks[t] : \A s \in Requests : Spares(s, t, row)'
    BY <1>1 DEF OneSpared
  <2>1. PICK row \in webhooks[t] : \A s \in Requests : Spares(s, t, row)
    BY DEF HookInv, OneSpared
  <2>2. \A s \in Requests : Spares(s, t, row)'
    <3> TAKE s \in Requests
    <3>1. CASE s = r
      BY <1>0, <1>1, <1>2, <1>3, <1>4, <1>6, <2>1, <3>1 DEF Spares, InHookStep
    <3>2. CASE s # r
      BY <1>0, <1>2, <2>1, <3>2 DEF Spares, InHookStep
    <3> QED BY <3>1, <3>2
  <2> QED BY <2>2
<1> QED BY <1>1, <1>8, <1>9, <1>10, <1>11 DEF HookInv, Counters

LEMMA DeleteHookKeeps ==
    ASSUME HookInv, NEW r \in Requests, DeleteHook(r)
    PROVE  HookInv'
PROOF
<1> DEFINE u == request[r].tenant
           h == request[r].asked
<1>0. DOMAIN request = Requests /\ DOMAIN request[r] = DOMAIN Idle /\ DOMAIN webhooks = Tenants
  BY DEF HookInv, HandlersOK, RowsOK
<1>1. /\ request[r].pc = "delete" /\ u \in Tenants
      /\ starts' = starts /\ faults' = faults /\ hooked' = hooked /\ clashed' = clashed
      /\ attached' = attached
  BY DEF DeleteHook, HookInv, HandlersOK, HookSteps, hookHistory
<1>2. PICK id \in request[r].ids :
        /\ webhooks' = [webhooks EXCEPT ![u] = {row \in @ : row.id # id}]
        /\ \/ request[r].ids = {id} /\ request' = [request EXCEPT ![r] = Idle]
           \/ request' = [request EXCEPT ![r] = [request[r] EXCEPT !.ids = request[r].ids \ {id}]]
  BY <1>0 DEF DeleteHook, Ends, Set
<1> DEFINE q == [request[r] EXCEPT !.ids = request[r].ids \ {id}]
<1>3. DOMAIN q = DOMAIN Idle /\ q.pc = "delete" /\ q.tenant = u /\ q.asked = h /\ q.ids = request[r].ids \ {id}
  BY <1>0, <1>1 DEF Idle
<1>4. Idle.pc = "idle"
  BY DEF Idle
<1> HIDE DEF q
<1>5. \/ request[r].ids = {id} /\ request' = [request EXCEPT ![r] = Idle]
      \/ request' = [request EXCEPT ![r] = q]
  BY <1>2 DEF q
<1>6. /\ DOMAIN webhooks' = Tenants
      /\ \A t \in Tenants : webhooks'[t] = IF t = u THEN {row \in webhooks[t] : row.id # id} ELSE webhooks[t]
  BY <1>0, <1>2
<1>7. HandlersOK'
  BY <1>1, <1>3, <1>4, <1>5 DEF HookInv, HandlersOK, BringsRow, HookSteps
<1>8. RowsOK'
  <2>1. \A s \in Requests : BringsRow(s)' => BringsRow(s) /\ request'[s].n = request[s].n
    BY <1>0, <1>3, <1>4, <1>5 DEF BringsRow
  <2>2. \A t \in Tenants : \A a \in webhooks'[t] : a \in webhooks[t]
    BY <1>6
  <2> QED BY <1>1, <1>6, <2>1, <2>2 DEF HookInv, RowsOK
<1>9. PairsDoomed'
  <2> SUFFICES ASSUME faults = 0, NEW t \in Tenants, NEW a \in Saves(t)', NEW b \in Saves(t)',
                      a # b
               PROVE  \E s \in Requests : Doomed(s, t, a, b)'
    BY <1>1 DEF PairsDoomed
  <2>1. a \in Saves(t) /\ b \in Saves(t) /\ (t = u => a.id # id /\ b.id # id)
    BY <1>1, <1>6 DEF Saves
  <2>2. PICK s \in Requests : Doomed(s, t, a, b)
    BY <2>1 DEF HookInv, PairsDoomed
  <2>3. CASE s # r
    <3>1. Doomed(s, t, a, b)'
      BY <1>0, <1>5, <2>2, <2>3 DEF Doomed
    <3> QED BY <3>1
  <2>4. CASE s = r
    <3>1. t = u /\ (a.id \in request[r].ids \ {id} \/ b.id \in request[r].ids \ {id})
      BY <1>1, <2>1, <2>2, <2>4 DEF Doomed
    <3>2. Doomed(r, t, a, b)'
      BY <1>0, <1>3, <1>5, <3>1 DEF Doomed
    <3> QED BY <3>2
  <2> QED BY <2>3, <2>4
<1>10. OneSpared'
  <2> SUFFICES ASSUME NEW t \in (hooked \ clashed) \cap Tenants
               PROVE  \E row \in webhooks'[t] : \A s \in Requests : Spares(s, t, row)'
    BY <1>1 DEF OneSpared
  <2>1. PICK row \in webhooks[t] : \A s \in Requests : Spares(s, t, row)
    BY DEF HookInv, OneSpared
  <2>2. row \in webhooks'[t]
    BY <1>1, <1>2, <1>6, <2>1 DEF Spares, InHookStep
  <2>3. \A s \in Requests : Spares(s, t, row)'
    <3> TAKE s \in Requests
    <3>1. CASE s = r
      BY <1>0, <1>1, <1>3, <1>4, <1>5, <2>1, <3>1 DEF Spares, InHookStep
    <3>2. CASE s # r
      BY <1>0, <1>5, <2>1, <3>2 DEF Spares, InHookStep
    <3> QED BY <3>1, <3>2
  <2> QED BY <2>2, <2>3
<1> QED BY <1>1, <1>7, <1>8, <1>9, <1>10 DEF HookInv, Counters

(* Connecting a webhook adds a row, marked as such, if there was none.      *)
LEMMA AttachHookKeeps ==
    ASSUME HookInv, NEW r \in Requests, AttachHook(r)
    PROVE  HookInv'
PROOF
<1> DEFINE u == request[r].tenant
           h == request[r].asked
           id == request[r].n
           new == [hook |-> h, id |-> id]
<1>0. DOMAIN request = Requests /\ DOMAIN request[r] = DOMAIN Idle /\ DOMAIN webhooks = Tenants
  BY DEF HookInv, HandlersOK, RowsOK
<1>1. /\ request[r].pc = "attach" /\ u \in Tenants /\ id \in 1..starts
      /\ starts' = starts /\ faults' = faults /\ hooked' = hooked /\ clashed' = clashed
      /\ webhooks' = [webhooks EXCEPT ![u] = SavedHook(webhooks[u], h, id)]
      /\ attached' = IF \E row \in webhooks[u] : row.hook = h THEN attached
                     ELSE [attached EXCEPT ![u] = @ \cup {h}]
  BY DEF AttachHook, HookInv, HandlersOK, HookSteps, BringsRow
<1>2. request' = [request EXCEPT ![r] = Idle] /\ Idle.pc = "idle"
  BY DEF AttachHook, Ends, Idle
<1>3. /\ DOMAIN request' = Requests /\ \A s \in Requests \ {r} : request'[s] = request[s]
      /\ request'[r] = Idle
  BY <1>0, <1>2
<1>4. new.hook = h /\ new.id = id
  OBVIOUS
<1>5. /\ DOMAIN webhooks' = Tenants /\ DOMAIN attached' = Tenants
      /\ \/ \A t \in Tenants : webhooks'[t] = webhooks[t] /\ attached'[t] = attached[t]
         \/ /\ \A row \in webhooks[u] : row.hook # h
            /\ \A t \in Tenants :
                   IF t = u THEN webhooks'[t] = webhooks[t] \cup {new} /\ attached'[t] = attached[t] \cup {h}
                   ELSE webhooks'[t] = webhooks[t] /\ attached'[t] = attached[t]
  <2>1. DOMAIN attached = Tenants
    BY DEF HookInv, RowsOK
  <2>2. CASE \E row \in webhooks[u] : row.hook = h
    <3>1. SavedHook(webhooks[u], h, id) = webhooks[u]
      BY <2>2 DEF SavedHook
    <3> QED BY <1>0, <1>1, <2>1, <2>2, <3>1
  <2>3. CASE ~\E row \in webhooks[u] : row.hook = h
    <3>1. SavedHook(webhooks[u], h, id) = webhooks[u] \cup {new}
      BY <2>3 DEF SavedHook
    <3> HIDE DEF u, h, id, new
    <3> QED BY <1>0, <1>1, <2>1, <2>3, <3>1
  <2> QED BY <2>2, <2>3
<1> HIDE DEF u, h, id, new
<1>6. HandlersOK'
  BY <1>1, <1>2, <1>3 DEF HookInv, HandlersOK, BringsRow, HookSteps
<1>7. \A s \in Requests : BringsRow(s)' => BringsRow(s) /\ request'[s].n = request[s].n /\ request[s].n # id
  BY <1>1, <1>2, <1>3 DEF HookInv, HandlersOK, BringsRow, id
<1>8. RowsOK'
  <2>1. CASE \A t \in Tenants : webhooks'[t] = webhooks[t]
    BY <1>1, <1>5, <1>7, <2>1 DEF HookInv, RowsOK
  <2>2. CASE ~\A t \in Tenants : webhooks'[t] = webhooks[t]
    <3>1. /\ DOMAIN webhooks' = Tenants
          /\ \A t \in Tenants : \A a \in webhooks'[t] : a \in webhooks[t] \/ (t = u /\ a = new)
      BY <1>0, <1>5, <2>2
    <3>2. \A a \in webhooks[u] : a.hook # h /\ a.id # id
      BY <1>1, <1>5, <2>2 DEF HookInv, RowsOK, BringsRow, id
    <3>3. \A t \in Tenants : \A a \in webhooks'[t] :
              a.id \in 1..starts /\ \A s \in Requests : BringsRow(s)' => request'[s].n # a.id
      <4> SUFFICES ASSUME NEW t \in Tenants, NEW a \in webhooks'[t]
                   PROVE  a.id \in 1..starts /\ \A s \in Requests : BringsRow(s)' => request'[s].n # a.id
        OBVIOUS
      <4>1. CASE a \in webhooks[t]
        BY <1>7, <4>1 DEF HookInv, RowsOK
      <4>2. CASE a = new
        BY <1>1, <1>4, <1>7, <4>2
      <4> QED BY <3>1, <4>1, <4>2
    <3>4. \A t \in Tenants : \A a, b \in webhooks'[t] : a.id = b.id \/ a.hook = b.hook => a = b
      <4> SUFFICES ASSUME NEW t \in Tenants, NEW a \in webhooks'[t], NEW b \in webhooks'[t],
                          a.id = b.id \/ a.hook = b.hook
                   PROVE  a = b
        OBVIOUS
      <4>1. CASE a \in webhooks[t] /\ b \in webhooks[t]
        BY <4>1 DEF HookInv, RowsOK
      <4>2. CASE ~(a \in webhooks[t] /\ b \in webhooks[t])
        BY <1>4, <3>1, <3>2, <4>2
      <4> QED BY <4>1, <4>2
    <3> QED BY <1>1, <1>5, <3>1, <3>3, <3>4 DEF RowsOK
  <2> QED BY <2>1, <2>2
<1>9. PairsDoomed'
  <2> SUFFICES ASSUME faults = 0, NEW t \in Tenants, NEW a \in Saves(t)', NEW b \in Saves(t)',
                      a # b
               PROVE  \E s \in Requests : Doomed(s, t, a, b)'
    BY <1>1 DEF PairsDoomed
  <2>1. Saves(t)' \subseteq Saves(t)
    <3>1. CASE webhooks'[t] = webhooks[t] /\ attached'[t] = attached[t]
      BY <3>1 DEF Saves
    <3>2. CASE webhooks'[t] = webhooks[t] \cup {new} /\ attached'[t] = attached[t] \cup {h}
      BY <1>4, <3>2 DEF Saves
    <3> QED BY <1>5, <3>1, <3>2
  <2>2. PICK s \in Requests : Doomed(s, t, a, b)
    BY <2>1 DEF HookInv, PairsDoomed
  <2>3. s # r
    BY <1>1, <2>2 DEF Doomed
  <2>4. Doomed(s, t, a, b)'
    BY <1>3, <2>2, <2>3 DEF Doomed
  <2> QED BY <2>4
<1>10. OneSpared'
  <2> SUFFICES ASSUME NEW t \in (hooked \ clashed) \cap Tenants
               PROVE  \E row \in webhooks'[t] : \A s \in Requests : Spares(s, t, row)'
    BY <1>1 DEF OneSpared
  <2>1. PICK row \in webhooks[t] : \A s \in Requests : Spares(s, t, row)
    BY DEF HookInv, OneSpared
  <2>2. row \in webhooks'[t]
    BY <1>0, <1>5, <2>1
  <2>3. \A s \in Requests : Spares(s, t, row)'
    BY <1>2, <1>3, <2>1 DEF Spares, InHookStep
  <2> QED BY <2>2, <2>3
<1> QED BY <1>1, <1>6, <1>8, <1>9, <1>10 DEF HookInv, Counters

LEMMA SameRequestsKeep ==
    ASSUME HookInv, request' = request, starts' = starts, faults' = faults, clashed' = clashed,
           \/ webhooks' = webhooks /\ hooked' = hooked /\ attached' = attached
           \/ \E t \in Tenants : DropWebhooks(t)
    PROVE  HookInv'
PROOF
<1>1. CASE webhooks' = webhooks /\ hooked' = hooked /\ attached' = attached
  BY <1>1 DEF HookInv, Counters, HandlersOK, BringsRow, RowsOK, PairsDoomed, Saves, Doomed, OneSpared, Spares, InHookStep
<1>2. ASSUME NEW u \in Tenants, DropWebhooks(u)
      PROVE  HookInv'
  <2>1. /\ DOMAIN webhooks = Tenants /\ hooked' = hooked \ {u}
        /\ webhooks' = [webhooks EXCEPT ![u] = {}] /\ attached' = [attached EXCEPT ![u] = {}]
    BY <1>2 DEF HookInv, RowsOK, DropWebhooks
  <2>2. HandlersOK' /\ Counters'
    BY DEF HookInv, HandlersOK, BringsRow, Counters
  <2>3. /\ DOMAIN webhooks' = Tenants /\ DOMAIN attached' = Tenants /\ webhooks'[u] = {}
        /\ \A t \in Tenants \ {u} : webhooks'[t] = webhooks[t] /\ attached'[t] = attached[t]
    BY <2>1 DEF HookInv, RowsOK
  <2>4. RowsOK'
    BY <2>3 DEF HookInv, RowsOK, BringsRow
  <2>5. PairsDoomed'
    BY <2>3 DEF HookInv, PairsDoomed, Saves, Doomed
  <2>6. OneSpared'
    BY <2>1, <2>3 DEF HookInv, OneSpared, Spares, InHookStep
  <2> QED BY <2>1, <2>2, <2>4, <2>5, <2>6 DEF HookInv
<1> QED BY <1>1, <1>2

LEMMA HookInvStep == HookInv /\ [Next]_vars => HookInv'
PROOF
<1> SUFFICES ASSUME HookInv, [Next]_vars PROVE HookInv'
  OBVIOUS
<1>1. ASSUME NEW r \in Requests, Connecting(r) \/ Notifying(r) \/ Crash(r)
      PROVE  HookInv'
  BY <1>1, ConnectingKeeps, CrashKeeps, StartHookKeeps, SaveHookKeeps, ListHooksKeeps,
     DeleteHookKeeps, AttachHookKeeps DEF Notifying
<1>2. ASSUME NEW t \in Tenants,
             Disconnect(t, Pages) \/ Disconnect(t, ApiAccounts) \/ DropWebhooks(t)
             \/ \E p \in Plans : ChangePlan(t, p)
      PROVE  HookInv'
  BY <1>2, SameRequestsKeep DEF Disconnect, DropWebhooks, ChangePlan, hookHistory
<1>3. ASSUME UNCHANGED channelVars PROVE HookInv'
  BY <1>3, SameRequestsKeep DEF channelVars, tables, history, hookHistory
<1>4. ASSUME NEW d \in Workers, Fails(d) PROVE HookInv'
  <2>1. /\ webhooks' = webhooks /\ hooked' = hooked /\ clashed' = clashed /\ request' = request
        /\ starts' = starts /\ faults' = faults + 1 /\ attached' = attached
    BY <1>4 DEF Fails, tables, history, hookHistory
  <2>2. faults' \in Nat /\ faults' # 0
    BY <2>1 DEF HookInv, Counters
  <2> QED BY <2>1, <2>2
          DEF HookInv, Counters, HandlersOK, BringsRow, RowsOK, PairsDoomed, OneSpared, Spares,
              InHookStep
<1>5. ASSUME NEW d \in Workers, Handling(d) \/ Replying(d) PROVE HookInv'
  BY <1>3, <1>4, <1>5 DEF Handling, Receive, Route, Store, Acknowledge,
     Replying, StartReply, StartReplyAs, Credentials, Default, Send
<1>6. ASSUME NEW c \in Comments, Happens(c) PROVE HookInv'
  BY <1>3, <1>6 DEF Happens
<1>7. ASSUME ConnectionsMove PROVE HookInv'
  BY <1>1, <1>2, <1>7 DEF ConnectionsMove, ChannelsNext
<1> QED BY <1>3, <1>5, <1>6, <1>7 DEF Next, vars

(* "One webhook per workspace: drop any previously saved one": once the     *)
(* handlers have finished and none of them died there is one at most,       *)
(* besides those that were connected as an account, and a workspace whose   *)
(* saves did not overlap keeps the one it saved.                            *)
THEOREM OneWebhookKept == Spec => []OneWebhook
PROOF
<1>1. Init => HookInv
  BY HookInvInit
<1>2. HookInv /\ [Next]_vars => HookInv'
  BY HookInvStep
<1>3. HookInv => OneWebhook
  BY HookInvImplies
<1> QED BY <1>1, <1>2, <1>3, PTL DEF Spec

-------------------------------------------------------------------------------
(* Comments: what a handled event leaves *)

Batch(d) == worker[d].batch

(* Events are of comments that were made, threads hold batches of events    *)
(* and know where in them they are, and "since" are workspaces that have    *)
(* the Page now.                                                            *)
StoredOK ==
    /\ version \in [Comments -> 0..Removed]
    /\ events \subseteq Events /\ \A e \in events : version[e.comment] > 0
    /\ acked \subseteq events
    /\ comments \in [Tenants -> [Comments -> CommentRow]]
    /\ since \in [Comments -> SUBSET Tenants]
    /\ \A c \in Comments : since[c] \subseteq TenantsFor(PageOf[c])

ThreadsOK ==
    /\ DOMAIN worker = Workers
    /\ \A d \in Workers :
           /\ DOMAIN worker[d] = DOMAIN Free
           /\ Batch(d) \in Seq(events)
           /\ worker[d].pc \in {"route", "store", "ack"} => worker[d].n \in 1..Len(Batch(d))

Shown(t, e) == e.comment \in late \/ comments[t][e.comment].verb >= e.version

(* the k-th event of its batch is behind a thread, for workspace t          *)
Behind(d, k, t) ==
    \/ worker[d].pc = "ack"
    \/ worker[d].pc \in {"route", "store"} /\ k < worker[d].n
    \/ worker[d].pc = "store" /\ k = worker[d].n /\ t \notin worker[d].tenants

HandledIsShown ==
    \A d \in Workers : \A k \in 1..Len(Batch(d)) : \A t \in since[Batch(d)[k].comment] :
        Behind(d, k, t) => Shown(t, Batch(d)[k])

InboxInv == StoredOK /\ ThreadsOK /\ HandledIsShown /\ AckedIsShown

LEMMA EventFields ==
    ASSUME NEW e \in Events
    PROVE  /\ e.comment \in Comments /\ e.version \in 1..Removed
           /\ e.text = Missing \/ e.text \in 0..Removed
PROOF
<1> QED BY InboxAssumption DEF Events, Missing

LEMMA InboxInvInit == Init => InboxInv
PROOF
<1> SUFFICES ASSUME InboxInit PROVE InboxInv
  BY DEF Init
<1>1. Free.pc = "free" /\ Free.batch = <<>>
  BY DEF Free
<1>2. NoComment \in CommentRow
  BY InboxAssumption DEF NoComment, CommentRow, Blank
<1>3. StoredOK
  BY <1>2, InboxAssumption DEF StoredOK, InboxInit
<1>4. ThreadsOK
  <2>1. <<>> \in Seq(events)
    OBVIOUS
  <2> QED BY <1>1, <2>1 DEF ThreadsOK, Batch, InboxInit
<1>5. HandledIsShown /\ AckedIsShown
  BY <1>1 DEF HandledIsShown, AckedIsShown, Batch, InboxInit
<1> QED BY <1>3, <1>4, <1>5 DEF InboxInv

(* A step that stores nothing and lets threads get behind no event that is  *)
(* not shown.                                                               *)
LEMMA HappensKeeps ==
    ASSUME InboxInv, NEW c \in Comments, Happens(c)
    PROVE  InboxInv'
PROOF
<1>0. PICK v \in {version[c] + 1, Removed} : \E text \in Texts(v) :
        /\ version' = [version EXCEPT ![c] = v]
        /\ events' = IF PageOf[c] \in subscribed
                     THEN events \cup {[comment |-> c, version |-> v, text |-> text]} ELSE events
  BY DEF Happens
<1>1. PICK text \in Texts(v) :
        /\ version' = [version EXCEPT ![c] = v]
        /\ events' = IF PageOf[c] \in subscribed
                     THEN events \cup {[comment |-> c, version |-> v, text |-> text]} ELSE events
  BY <1>0
<1>2. /\ acked' = acked /\ comments' = comments /\ worker' = worker /\ late' = late
      /\ accounts' = accounts /\ version[c] < Removed
      /\ since' = IF version[c] = 0 THEN [since EXCEPT ![c] = TenantsFor(PageOf[c])] ELSE since
  BY DEF Happens, channelVars, tables
<1>3. v \in 1..Removed /\ version[c] \in 0..Removed
  BY <1>2, InboxAssumption DEF InboxInv, StoredOK
<1>4. \A e \in events : since'[e.comment] = since[e.comment]
  BY <1>2 DEF InboxInv, StoredOK, Events
<1>5. TenantsFor(PageOf[c]) \subseteq Tenants
  BY DEF TenantsFor
<1>6. [comment |-> c, version |-> v, text |-> text] \in Events
  BY <1>3, InboxAssumption DEF Events, Texts, Missing, Blank
<1>7. StoredOK'
  <2>1. version' \in [Comments -> 0..Removed] /\ events' \subseteq Events /\ acked' \subseteq events'
    BY <1>1, <1>2, <1>3, <1>6 DEF InboxInv, StoredOK
  <2>2. \A e \in events' : version'[e.comment] > 0
    BY <1>1, <1>3, <1>6 DEF InboxInv, StoredOK, Events
  <2>3. \A page : TenantsFor(page)' = TenantsFor(page)
    BY <1>2 DEF TenantsFor
  <2>4. since' \in [Comments -> SUBSET Tenants]
    BY <1>2, <1>5 DEF InboxInv, StoredOK
  <2>5. \A b \in Comments : since'[b] \subseteq TenantsFor(PageOf[b])
    BY <1>2 DEF InboxInv, StoredOK
  <2>6. \A b \in Comments : since'[b] \subseteq TenantsFor(PageOf[b])'
    BY <2>3, <2>5
  <2> QED BY <1>2, <2>1, <2>2, <2>4, <2>6 DEF InboxInv, StoredOK
<1>8. ThreadsOK'
  BY <1>1, <1>2 DEF InboxInv, ThreadsOK, Batch
<1>9. HandledIsShown'
  <2>1. \A d \in Workers : \A k \in 1..Len(Batch(d)) : Batch(d)[k] \in events
    BY DEF InboxInv, ThreadsOK
  <2> QED BY <1>2, <1>4, <2>1 DEF InboxInv, HandledIsShown, Batch, Behind, Shown
<1>10. AckedIsShown'
  BY <1>2, <1>4 DEF InboxInv, StoredOK, AckedIsShown
<1> QED BY <1>7, <1>8, <1>9, <1>10 DEF InboxInv

LEMMA MoveKeeps ==
    ASSUME InboxInv, ConnectionsMove
    PROVE  InboxInv'
PROOF
<1>1. /\ version' = version /\ events' = events /\ acked' = acked /\ comments' = comments
      /\ worker' = worker /\ late' = late
      /\ since' = [c \in Comments |-> {t \in since[c] : PageOf[c] \in Members(accounts'[t])}]
  BY DEF ConnectionsMove, meta
<1>2. \A c \in Comments : since'[c] \subseteq since[c]
  BY <1>1
<1>3. StoredOK'
  <2>1. \A c \in Comments : since'[c] \subseteq {t \in Tenants : PageOf[c] \in Members(accounts'[t])}
    BY <1>1 DEF InboxInv, StoredOK
  <2>2. \A c \in Comments : since'[c] \subseteq TenantsFor(PageOf[c])'
    BY <2>1 DEF TenantsFor
  <2>3. since' \in [Comments -> SUBSET Tenants]
    BY <1>1 DEF InboxInv, StoredOK
  <2> QED BY <1>1, <2>2, <2>3 DEF InboxInv, StoredOK
<1>4. ThreadsOK'
  BY <1>1 DEF InboxInv, ThreadsOK, Batch
<1>5. HandledIsShown' /\ AckedIsShown'
  <2>1. \A d \in Workers : \A k \in 1..Len(Batch(d)) : Batch(d)[k].comment \in Comments
    BY DEF InboxInv, ThreadsOK, StoredOK, Events
  <2>2. \A e \in acked : e.comment \in Comments
    BY DEF InboxInv, StoredOK, Events
  <2> QED BY <1>1, <1>2, <2>1, <2>2 DEF InboxInv, HandledIsShown, AckedIsShown, Batch, Behind, Shown
<1> QED BY <1>3, <1>4, <1>5 DEF InboxInv

(* A thread that starts anew, takes an event up or skips it stores nothing. *)
LEMMA ThreadKeeps ==
    ASSUME InboxInv, NEW d \in Workers, NEW w,
           worker' = [worker EXCEPT ![d] = w],
           DOMAIN w = DOMAIN Free, w.batch \in Seq(events),
           w.pc \in {"route", "store", "ack"} => w.n \in 1..Len(w.batch),
           \A k \in 1..Len(w.batch) : \A t \in since[w.batch[k].comment] :
               \/ Shown(t, w.batch[k])
               \/ ~ \/ w.pc = "ack"
                    \/ w.pc \in {"route", "store"} /\ k < w.n
                    \/ w.pc = "store" /\ k = w.n /\ t \notin w.tenants,
           version' = version, events' = events, comments' = comments, since' = since,
           late' = late, accounts' = accounts,
           acked' \subseteq events,
           \A e \in acked' \ acked : \A t \in since[e.comment] : Shown(t, e)
    PROVE  InboxInv'
PROOF
<1>0. DOMAIN worker = Workers
  BY DEF InboxInv, ThreadsOK
<1>1. worker'[d] = w /\ DOMAIN worker' = Workers /\ \A x \in Workers \ {d} : worker'[x] = worker[x]
  BY <1>0
<1>2. StoredOK'
  <2>1. \A page : TenantsFor(page)' = TenantsFor(page)
    BY DEF TenantsFor
  <2> QED BY <2>1 DEF InboxInv, StoredOK
<1>3. ThreadsOK'
  BY <1>1 DEF InboxInv, ThreadsOK, Batch
<1>4. HandledIsShown'
  <2> SUFFICES ASSUME NEW x \in Workers, NEW k \in 1..Len(worker'[x].batch),
                      NEW e, e = worker'[x].batch[k], NEW t \in since[e.comment],
                      Behind(x, k, t)'
               PROVE  Shown(t, e)
    BY DEF HandledIsShown, Batch, Shown
  <2>1. CASE x = d
    BY <1>1, <2>1 DEF Behind
  <2>2. CASE x # d
    BY <1>1, <2>2 DEF InboxInv, HandledIsShown, Batch, Behind
  <2> QED BY <2>1, <2>2
<1>5. AckedIsShown'
  BY DEF InboxInv, AckedIsShown, Shown
<1> QED BY <1>2, <1>3, <1>4, <1>5 DEF InboxInv

LEMMA FreeIsEmpty ==
    /\ Free.pc = "free" /\ Free.batch = <<>> /\ <<>> \in Seq(events) /\ Len(<<>>) = 0
PROOF BY DEF Free

LEMMA BatchesAreSeqs ==
    ASSUME NEW b \in Batches
    PROVE  b \in Seq(events) /\ Len(b) \in 1..2
PROOF
<1>1. CASE \E e \in events : b = <<e>>
  BY <1>1
<1>2. CASE b \in (events \ acked) \X (events \ acked)
  <2>1. PICK e \in events, f \in events : b = <<e, f>>
    BY <1>2
  <2> QED BY <2>1
<1> QED BY <1>1, <1>2 DEF Batches

LEMMA OnwardsFields ==
    ASSUME NEW d \in Workers, DOMAIN worker[d] = DOMAIN Free, Onwards(d)
    PROVE  \E w :
             /\ worker' = [worker EXCEPT ![d] = w]
             /\ DOMAIN w = DOMAIN Free /\ w.batch = worker[d].batch
             /\ \/ w.pc = "route" /\ w.n = worker[d].n + 1 /\ worker[d].n < Len(worker[d].batch)
                \/ w.pc = "ack" /\ w.n = worker[d].n /\ ~(worker[d].n < Len(worker[d].batch))
PROOF
<1> DEFINE next == [worker[d] EXCEPT !.pc = "route", !.n = worker[d].n + 1, !.tenants = {}]
           last == [worker[d] EXCEPT !.pc = "ack", !.tenants = {}]
<1>1. /\ DOMAIN next = DOMAIN Free /\ next.batch = worker[d].batch /\ next.pc = "route"
      /\ next.n = worker[d].n + 1
  BY DEF Free
<1>2. /\ DOMAIN last = DOMAIN Free /\ last.batch = worker[d].batch /\ last.pc = "ack"
      /\ last.n = worker[d].n
  BY DEF Free
<1>3. worker' = [worker EXCEPT ![d] = IF worker[d].n < Len(worker[d].batch) THEN next ELSE last]
  BY DEF Onwards, Becomes
<1> HIDE DEF next, last
<1> QED BY <1>1, <1>2, <1>3

LEMMA ReceiveKeeps ==
    ASSUME InboxInv, NEW d \in Workers, NEW b \in Batches, Receive(d, b)
    PROVE  InboxInv'
PROOF
<1> DEFINE w == [Free EXCEPT !.pc = "route", !.batch = b, !.n = 1]
<1>1. DOMAIN w = DOMAIN Free /\ w.pc = "route" /\ w.batch = b /\ w.n = 1
  BY DEF Free
<1>2. /\ worker' = [worker EXCEPT ![d] = w] /\ version' = version /\ events' = events
      /\ comments' = comments /\ since' = since /\ late' = late /\ accounts' = accounts
      /\ acked' = acked
  BY DEF Receive, Becomes, channelVars, tables, meta
<1>3. b \in Seq(events) /\ Len(b) \in 1..2
  BY BatchesAreSeqs
<1>4. acked \subseteq events
  BY DEF InboxInv, StoredOK
<1> HIDE DEF w
<1>5. w.batch \in Seq(events) /\ w.n \in 1..Len(w.batch)
  <2>0. \A m \in 1..2 : 1 \in 1..m
    OBVIOUS
  <2>1. 1 \in 1..Len(b)
    BY <1>3, <2>0, Zenon
  <2> QED BY <1>1, <1>3, <2>1, Zenon
<1>6. \A k \in 1..Len(w.batch) : ~(k < w.n)
  BY <1>1, <1>3
<1> QED BY <1>1, <1>2, <1>4, <1>5, <1>6, ThreadKeeps

LEMMA RouteKeeps ==
    ASSUME InboxInv, NEW d \in Workers, Route(d)
    PROVE  InboxInv'
PROOF
<1> DEFINE n == worker[d].n
           b == worker[d].batch
           found == TenantsFor(PageOf[Current(d).comment])
<1>1. /\ version' = version /\ events' = events /\ worker[d].pc = "route"
      /\ comments' = comments /\ since' = since /\ late' = late /\ accounts' = accounts
      /\ acked' = acked
  BY DEF Route, channelVars, tables, meta
<1>2. acked \subseteq events
  BY DEF InboxInv, StoredOK
<1>3. DOMAIN worker[d] = DOMAIN Free /\ b \in Seq(events) /\ n \in 1..Len(b)
  BY <1>1 DEF InboxInv, ThreadsOK, Batch
<1>4. \A k \in 1..Len(b) : k < n => \A t \in since[b[k].comment] : Shown(t, b[k])
  BY <1>1 DEF InboxInv, HandledIsShown, Behind, Batch
<1>5. since[b[n].comment] \subseteq found
  <2>1. b[n] \in Events /\ b[n] = Current(d)
    BY <1>3 DEF InboxInv, StoredOK, Current
  <2> QED BY <2>1, EventFields DEF InboxInv, StoredOK
<1>6. CASE found = {}
  <2>1. Onwards(d)
    BY <1>6 DEF Route
  <2>2. PICK w :
          /\ worker' = [worker EXCEPT ![d] = w] /\ DOMAIN w = DOMAIN Free /\ w.batch = b
          /\ \/ w.pc = "route" /\ w.n = n + 1 /\ n < Len(b)
             \/ w.pc = "ack" /\ w.n = n /\ ~(n < Len(b))
    BY <1>3, <2>1, OnwardsFields
  <2> HIDE DEF n, b
  <2>3. w.batch \in Seq(events) /\ w.n \in 1..Len(w.batch)
    <3>1. n + 1 \in 1..Len(b) \/ ~(n < Len(b))
      BY <1>3
    <3>2. w.batch = b /\ (w.n = n \/ (w.n = n + 1 /\ n < Len(b)))
      BY <2>2
    <3>3. w.n \in 1..Len(b)
      BY <1>3, <3>1, <3>2
    <3> QED BY <1>3, <3>2, <3>3, Zenon
  <2>5. \A k \in 1..Len(w.batch) : \A t \in since[w.batch[k].comment] :
               \/ Shown(t, w.batch[k])
               \/ ~ \/ w.pc = "ack"
                    \/ w.pc \in {"route", "store"} /\ k < w.n
                    \/ w.pc = "store" /\ k = w.n /\ t \notin w.tenants
    <3> SUFFICES ASSUME NEW k \in 1..Len(b), NEW t \in since[b[k].comment],
                        w.pc = "ack" \/ (w.pc = "route" /\ k < w.n)
                 PROVE  Shown(t, b[k])
      BY <2>2, Zenon
    <3>1. Len(b) \in Nat /\ n \in Nat /\ k \in Nat /\ k <= Len(b)
      BY <1>3
    <3>2. k < n \/ k = n
      BY <1>3, <2>2, <3>1
    <3>3. CASE k < n
      BY <1>4, <3>3
    <3>4. CASE k = n
      BY <1>5, <1>6, <3>4
    <3> QED BY <3>2, <3>3, <3>4
  <2> QED BY <1>1, <1>2, <2>2, <2>3, <2>5, ThreadKeeps
<1>7. CASE found # {}
  <2> DEFINE w == [worker[d] EXCEPT !.pc = "store", !.tenants = found]
  <2>1. DOMAIN w = DOMAIN Free /\ w.batch = b /\ w.pc = "store" /\ w.n = n /\ w.tenants = found
    BY <1>3 DEF Free
  <2>2. worker' = [worker EXCEPT ![d] = w]
    BY <1>7 DEF Route, Becomes
  <2> HIDE DEF n, b, w, found
  <2>3. \A k \in 1..Len(w.batch) : \A t \in since[w.batch[k].comment] :
               \/ Shown(t, w.batch[k])
               \/ ~ \/ w.pc = "ack"
                    \/ w.pc \in {"route", "store"} /\ k < w.n
                    \/ w.pc = "store" /\ k = w.n /\ t \notin w.tenants
    <3> SUFFICES ASSUME NEW k \in 1..Len(b), NEW t \in since[b[k].comment],
                        k < n \/ (k = n /\ t \notin found)
                 PROVE  Shown(t, b[k])
      BY <2>1, Zenon
    <3> QED BY <1>4, <1>5
  <2> QED BY <1>1, <1>2, <1>3, <2>1, <2>2, <2>3, ThreadKeeps
<1> QED BY <1>6, <1>7

(* An older event leaves the comment late; any other leaves what was shown. *)
LEMMA StoreKeepsShown ==
    ASSUME InboxInv, NEW d \in Workers, NEW t \in Tenants, Store(d, t),
           NEW e \in Events, e = Current(d),
           NEW f \in Events, NEW u \in Tenants,
           Shown(u, f) \/ (u = t /\ f = e)
    PROVE  Shown(u, f)'
PROOF
<1> DEFINE old == comments[t][e.comment]
           new == Upserted(old, e)
<1>1. /\ comments \in [Tenants -> [Comments -> CommentRow]]
      /\ e.comment \in Comments /\ f.comment \in Comments
      /\ e.version \in 1..Removed /\ f.version \in 1..Removed
      /\ old.verb \in 0..Removed
  BY DEF InboxInv, StoredOK, Events, CommentRow
<1>2. comments' = [comments EXCEPT ![t][e.comment] = new]
  BY DEF Store
<1>3. late' = IF old.verb > e.version THEN late \cup {e.comment} ELSE late
  BY DEF Store
<1>4. new.verb = e.version
  BY DEF Upserted
<1> HIDE DEF old, new
<1>5. comments'[t][e.comment] = new
  BY <1>1, <1>2
<1>6. \A c \in Comments : u # t \/ c # e.comment => comments'[u][c] = comments[u][c]
  BY <1>1, <1>2
<1>7. CASE u = t /\ f.comment = e.comment
  <2>1. CASE f = e
    <3>1. comments'[u][f.comment].verb >= f.version
      BY <1>1, <1>4, <1>5, <1>7, <2>1
    <3> QED BY <3>1 DEF Shown
  <2>2. CASE Shown(u, f)
    <3>1. f.comment \in late \/ old.verb >= f.version
      BY <1>7, <2>2 DEF Shown, old
    <3>2. f.comment \in late' \/ e.version >= f.version
      BY <1>1, <1>3, <1>7, <3>1, InboxAssumption
    <3>3. comments'[u][f.comment].verb = e.version
      BY <1>4, <1>5, <1>7
    <3> QED BY <3>2, <3>3 DEF Shown
  <2> QED BY <2>1, <2>2
<1>8. CASE ~(u = t /\ f.comment = e.comment)
  <2>1. Shown(u, f)
    BY <1>8
  <2>2. comments'[u][f.comment] = comments[u][f.comment]
    BY <1>1, <1>6, <1>8
  <2>3. late \subseteq late'
    BY <1>3
  <2> QED BY <2>1, <2>2, <2>3 DEF Shown
<1> QED BY <1>7, <1>8

LEMMA StoreKeeps ==
    ASSUME InboxInv, NEW d \in Workers, NEW t \in Tenants, Store(d, t)
    PROVE  InboxInv'
PROOF
<1> DEFINE n == worker[d].n
           b == worker[d].batch
           left == worker[d].tenants
<1>1. /\ version' = version /\ events' = events /\ worker[d].pc = "store" /\ t \in left
      /\ since' = since /\ accounts' = accounts /\ acked' = acked
  BY DEF Store, channelVars, tables, meta
<1>2. DOMAIN worker[d] = DOMAIN Free /\ b \in Seq(events) /\ n \in 1..Len(b) /\ DOMAIN worker = Workers
  BY <1>1 DEF InboxInv, ThreadsOK, Batch
<1>3. events \subseteq Events /\ acked \subseteq events
  BY DEF InboxInv, StoredOK
<1>4. PICK e \in Events : e = Current(d) /\ e = b[n]
  BY <1>2, <1>3 DEF Current
<1>5. PICK w :
        /\ worker' = [worker EXCEPT ![d] = w] /\ DOMAIN w = DOMAIN Free /\ w.batch = b
        /\ \/ w.pc = "store" /\ w.n = n /\ w.tenants = left \ {t}
           \/ left = {t} /\ w.pc = "route" /\ w.n = n + 1 /\ n < Len(b)
           \/ left = {t} /\ w.pc = "ack" /\ w.n = n /\ ~(n < Len(b))
  <2>1. CASE left = {t}
    <3>1. Onwards(d)
      BY <2>1 DEF Store
    <3> QED BY <1>2, <2>1, <3>1, OnwardsFields
  <2>2. CASE left # {t}
    <3> DEFINE w == [worker[d] EXCEPT !.tenants = left \ {t}]
    <3>1. DOMAIN w = DOMAIN Free /\ w.batch = b /\ w.pc = "store" /\ w.n = n /\ w.tenants = left \ {t}
      BY <1>1, <1>2 DEF Free
    <3>2. worker' = [worker EXCEPT ![d] = w]
      BY <2>2 DEF Store, Becomes
    <3> HIDE DEF w
    <3> QED BY <3>1, <3>2
  <2> QED BY <2>1, <2>2
<1>6. worker'[d] = w /\ DOMAIN worker' = Workers /\ \A x \in Workers \ {d} : worker'[x] = worker[x]
  BY <1>2, <1>5
<1> HIDE DEF n, b, left
<1>7. comments' \in [Tenants -> [Comments -> CommentRow]]
  <2>1. PICK c \in Comments : c = e.comment /\ comments[t][c] \in CommentRow
    BY DEF InboxInv, StoredOK, Events
  <2>2. Upserted(comments[t][c], e) \in CommentRow
    <3>1. e.version \in 0..Removed /\ (e.text = Missing \/ e.text \in 0..Removed)
      BY DEF Events, Missing
    <3>2. comments[t][c].text \in 0..Removed
      BY <2>1 DEF CommentRow
    <3> QED BY <3>1, <3>2 DEF Upserted, CommentRow
  <2>3. comments' = [comments EXCEPT ![t][c] = Upserted(comments[t][c], e)]
    BY <1>4, <2>1 DEF Store
  <2> QED BY <2>2, <2>3 DEF InboxInv, StoredOK
<1>8. StoredOK'
  <2>1. \A page : TenantsFor(page)' = TenantsFor(page)
    BY <1>1 DEF TenantsFor
  <2> QED BY <1>1, <1>7, <2>1 DEF InboxInv, StoredOK
<1>9. w.n \in 1..Len(b)
  BY <1>2, <1>5
<1>10. ThreadsOK'
  <2>1. w.batch \in Seq(events) /\ w.n \in 1..Len(w.batch)
    BY <1>2, <1>5, <1>9, Zenon
  <2> QED BY <1>1, <1>5, <1>6, <2>1 DEF InboxInv, ThreadsOK, Batch
<1>11. HandledIsShown'
  <2> SUFFICES ASSUME NEW x \in Workers, NEW k \in 1..Len(worker'[x].batch),
                      NEW f, f = worker'[x].batch[k], NEW u \in since[f.comment],
                      Behind(x, k, u)'
               PROVE  Shown(u, f)'
    BY <1>1 DEF HandledIsShown, Batch, Shown
  <2>1. worker'[x].batch = worker[x].batch
    BY <1>5, <1>6 DEF b
  <2>2. k \in 1..Len(worker[x].batch) /\ f = worker[x].batch[k] /\ worker[x].batch \in Seq(events)
    BY <2>1 DEF InboxInv, ThreadsOK, Batch
  <2>3. f \in Events /\ u \in Tenants
    <3>1. f \in Events
      BY <1>3, <2>2
    <3> QED BY <3>1, EventFields DEF InboxInv, StoredOK
  <2>4. CASE x # d
    <3>1. Behind(x, k, u)
      BY <1>6, <2>4 DEF Behind
    <3>2. Shown(u, f)
      BY <2>2, <3>1 DEF InboxInv, HandledIsShown, Batch
    <3> QED BY <1>4, <2>3, <3>2, StoreKeepsShown
  <2>5. CASE x = d
    <3>1. k \in 1..Len(b) /\ f = b[k]
      BY <2>2, <2>5 DEF b
    <3>2. k < n \/ (k = n /\ u \notin left) \/ (k = n /\ u = t)
      <4>1. \/ w.pc = "ack"
            \/ w.pc \in {"route", "store"} /\ k < w.n
            \/ w.pc = "store" /\ k = w.n /\ u \notin w.tenants
        BY <1>6, <2>5 DEF Behind
      <4>2. n \in Nat /\ Len(b) \in Nat /\ k \in Nat /\ k <= Len(b) /\ n <= Len(b)
        BY <1>2, <3>1
      <4>3. CASE w.pc = "store" /\ w.n = n /\ w.tenants = left \ {t}
        BY <4>1, <4>2, <4>3
      <4>4. CASE left = {t} /\ w.pc = "route" /\ w.n = n + 1 /\ n < Len(b)
        <5>1. k < n + 1
          BY <4>1, <4>4
        <5>2. k < n \/ k = n
          BY <4>2, <5>1
        <5> QED BY <4>4, <5>2
      <4>5. CASE left = {t} /\ w.pc = "ack" /\ w.n = n /\ ~(n < Len(b))
        <5>1. k < n \/ k = n
          BY <4>2, <4>5
        <5> QED BY <4>5, <5>1
      <4> QED BY <1>5, <4>3, <4>4, <4>5
    <3>3. CASE k < n \/ (k = n /\ u \notin left)
      <4>1. Behind(d, k, u)
        BY <1>1, <3>3 DEF Behind, n, left
      <4>2. Shown(u, f)
        BY <2>2, <2>5, <4>1 DEF InboxInv, HandledIsShown, Batch
      <4> QED BY <1>4, <2>3, <4>2, StoreKeepsShown
    <3>4. CASE k = n /\ u = t
      BY <1>4, <2>3, <3>1, <3>4, StoreKeepsShown
    <3> QED BY <3>2, <3>3, <3>4
  <2> QED BY <2>4, <2>5
<1>12. AckedIsShown'
  <2> SUFFICES ASSUME NEW f \in acked, NEW u \in since[f.comment]
               PROVE  Shown(u, f)'
    BY <1>1 DEF AckedIsShown, Shown
  <2>1. f \in Events /\ u \in Tenants /\ Shown(u, f)
    BY <1>3 DEF InboxInv, StoredOK, Events, AckedIsShown, Shown
  <2> QED BY <1>4, <2>1, StoreKeepsShown
<1> QED BY <1>8, <1>10, <1>11, <1>12 DEF InboxInv

LEMMA AcknowledgeKeeps ==
    ASSUME InboxInv, NEW d \in Workers, Acknowledge(d)
    PROVE  InboxInv'
PROOF
<1>1. /\ version' = version /\ events' = events /\ worker[d].pc = "ack"
      /\ comments' = comments /\ since' = since /\ late' = late /\ accounts' = accounts
      /\ worker' = [worker EXCEPT ![d] = Free]
      /\ acked' = acked \cup Members(worker[d].batch) \/ acked' = acked
  BY DEF Acknowledge, channelVars, tables, Becomes
<1>2. acked \subseteq events /\ worker[d].batch \in Seq(events)
  BY DEF InboxInv, StoredOK, ThreadsOK, Batch
<1>3. Members(worker[d].batch) \subseteq events
  BY <1>2 DEF Members
<1>4. \A e \in Members(worker[d].batch) : \A t \in since[e.comment] : Shown(t, e)
  BY <1>1 DEF Members, InboxInv, HandledIsShown, Batch, Behind
<1> QED BY <1>1, <1>2, <1>3, <1>4, FreeIsEmpty, ThreadKeeps

LEMMA OtherThreadsKeep ==
    ASSUME InboxInv, NEW d \in Workers, Fails(d) \/ Replying(d)
    PROVE  InboxInv'
PROOF
<1>0. DOMAIN worker[d] = DOMAIN Free /\ worker[d].batch \in Seq(events) /\ acked \subseteq events
  BY DEF InboxInv, StoredOK, ThreadsOK, Batch
<1> DEFINE Same == /\ version' = version /\ events' = events /\ comments' = comments
                   /\ since' = since /\ late' = late /\ accounts' = accounts /\ acked' = acked
<1>1. ASSUME Same, NEW w, worker' = [worker EXCEPT ![d] = w],
             DOMAIN w = DOMAIN Free, w.batch \in Seq(events),
             w.pc \in {"free", "credentials", "default", "send"}
      PROVE  InboxInv'
  <2>1. w.pc \notin {"route", "store", "ack"}
    BY <1>1
  <2> QED BY <1>0, <1>1, <2>1, ThreadKeeps
<1>2. CASE Fails(d)
  <2>1. Same /\ worker' = [worker EXCEPT ![d] = Free]
    BY <1>2 DEF Fails, tables, meta, Becomes
  <2> QED BY <1>1, <2>1, FreeIsEmpty
<1>3. ASSUME NEW t, NEW c, StartReply(d, t, c) PROVE InboxInv'
  <2> DEFINE page == IF comments[t][c] # NoComment THEN PageOf[c] ELSE None
             w == [Free EXCEPT !.pc = "credentials", !.tenant = t, !.comment = c, !.page = page]
  <2>1. Same /\ worker' = [worker EXCEPT ![d] = w]
    BY <1>3 DEF StartReply, channelVars, tables, meta, Becomes
  <2>2. DOMAIN w = DOMAIN Free /\ w.batch = <<>> /\ w.pc = "credentials"
    BY DEF Free
  <2> HIDE DEF w
  <2> QED BY <1>1, <2>1, <2>2, FreeIsEmpty
<1>7. ASSUME NEW t \in Tenants, NEW c, NEW page, StartReplyAs(d, t, c, page) PROVE InboxInv'
  <2> DEFINE w == [Free EXCEPT !.pc = "send", !.tenant = t, !.comment = c, !.page = page]
  <2>1. Same /\ worker' = [worker EXCEPT ![d] = w]
    BY <1>7 DEF StartReplyAs, channelVars, tables, meta, Becomes
  <2>2. DOMAIN w = DOMAIN Free /\ w.batch = <<>> /\ w.pc = "send"
    BY DEF Free
  <2> HIDE DEF w
  <2> QED BY <1>1, <2>1, <2>2, FreeIsEmpty
<1>4. CASE Credentials(d)
  <2> DEFINE w == [worker[d] EXCEPT !.pc =
                      IF worker[d].page \in Members(accounts[worker[d].tenant]) THEN "send" ELSE "default"]
  <2>1. Same /\ worker' = [worker EXCEPT ![d] = w]
    BY <1>4 DEF Credentials, channelVars, tables, meta, Becomes
  <2>2. DOMAIN w = DOMAIN Free /\ w.batch = worker[d].batch /\ w.pc \in {"send", "default"}
    BY <1>0 DEF Free
  <2> HIDE DEF w
  <2> QED BY <1>0, <1>1, <2>1, <2>2
<1>5. CASE Default(d)
  <2> DEFINE w == [worker[d] EXCEPT !.pc = "send", !.page = DefaultPage(worker[d].tenant)]
  <2>1. Same /\ (worker' = [worker EXCEPT ![d] = w] \/ worker' = [worker EXCEPT ![d] = Free])
    BY <1>5 DEF Default, channelVars, tables, meta, Becomes
  <2>2. DOMAIN w = DOMAIN Free /\ w.batch = worker[d].batch /\ w.pc = "send"
    BY <1>0 DEF Free
  <2> HIDE DEF w
  <2> QED BY <1>0, <1>1, <2>1, <2>2, FreeIsEmpty
<1>6. CASE Send(d)
  <2>1. Same /\ worker' = [worker EXCEPT ![d] = Free]
    BY <1>6 DEF Send, channelVars, tables, meta, Becomes
  <2> QED BY <1>1, <2>1, FreeIsEmpty
<1> QED BY <1>2, <1>3, <1>4, <1>5, <1>6, <1>7 DEF Replying

LEMMA InboxInvStep == InboxInv /\ [Next]_vars => InboxInv'
PROOF
<1> SUFFICES ASSUME InboxInv, [Next]_vars PROVE InboxInv'
  OBVIOUS
<1>1. ASSUME NEW d \in Workers, Handling(d) PROVE InboxInv'
  BY <1>1, ReceiveKeeps, RouteKeeps, StoreKeeps, AcknowledgeKeeps, OtherThreadsKeep DEF Handling
<1>2. ASSUME NEW d \in Workers, Replying(d) PROVE InboxInv'
  BY <1>2, OtherThreadsKeep
<1>3. CASE UNCHANGED vars
  <2>1. StoredOK'
    BY <1>3 DEF vars, channelVars, tables, inboxVars, meta, InboxInv, StoredOK, TenantsFor
  <2>2. ThreadsOK' /\ HandledIsShown' /\ AckedIsShown'
    BY <1>3 DEF vars, inboxVars, meta, InboxInv, ThreadsOK, HandledIsShown, AckedIsShown,
                Batch, Behind, Shown
  <2> QED BY <2>1, <2>2 DEF InboxInv
<1> QED BY <1>1, <1>2, <1>3, HappensKeeps, MoveKeeps DEF Next

(* An event Meta got an answer for is shown to every workspace that was     *)
(* connected all along, or a newer one of its comment, unless an older one  *)
(* was stored after a newer: whatever order the batches come in, however    *)
(* often they are repeated or a handler fails half way.                     *)
THEOREM AnsweredIsShown == Spec => []AckedIsShown
PROOF
<1>1. Init => InboxInv
  BY InboxInvInit
<1>2. InboxInv /\ [Next]_vars => InboxInv'
  BY InboxInvStep
<1>3. InboxInv => AckedIsShown
  BY DEF InboxInv
<1> QED BY <1>1, <1>2, <1>3, PTL DEF Spec

-------------------------------------------------------------------------------
(* Texts and replies *)

(* "fields missing from a later event keep their stored value": only an     *)
(* event whose message is empty takes away the text of a comment.           *)
THEOREM TextStays == Spec => TextIsKept
PROOF
<1> DEFINE Emptied(c) == \E d \in Workers : /\ worker[d].pc = "store"
                                            /\ Current(d).comment = c /\ Current(d).text = Blank
           Kept == \A t \in Tenants, c \in Comments :
                       comments[t][c].text # Blank /\ comments'[t][c].text = Blank => Emptied(c)
<1>1. Init => InboxInv
  BY InboxInvInit
<1>2. InboxInv /\ [Next]_vars => InboxInv'
  BY InboxInvStep
<1>3. ASSUME InboxInv, NEW d \in Workers, NEW t \in Tenants, Store(d, t)
      PROVE  Kept
  <2>1. Current(d) \in Events
    BY <1>3 DEF Store, Current, InboxInv, StoredOK, ThreadsOK, Batch
  <2>2. PICK e \in Events : e = Current(d) /\ comments' = [comments EXCEPT
                                 ![t][e.comment] = Upserted(comments[t][e.comment], e)]
    BY <1>3, <2>1 DEF Store
  <2>3. comments \in [Tenants -> [Comments -> CommentRow]] /\ e.comment \in Comments
    BY <1>3 DEF InboxInv, StoredOK, Events
  <2>4. \A row : row.text # Blank /\ Upserted(row, e).text = Blank => e.text = Blank
    BY DEF Upserted
  <2> SUFFICES ASSUME NEW u \in Tenants, NEW c \in Comments, comments[u][c].text # Blank,
                      comments'[u][c].text = Blank
               PROVE  Emptied(c)
    OBVIOUS
  <2>5. comments'[u][c] = comments[u][c] \/ (c = e.comment /\ comments'[u][c] = Upserted(comments[u][c], e))
    BY <2>2, <2>3
  <2>6. c = e.comment /\ e.text = Blank
    BY <2>4, <2>5
  <2> QED BY <1>3, <2>2, <2>6 DEF Store
<1>4. InboxInv /\ [Next]_vars => [Kept]_vars
  <2> SUFFICES ASSUME InboxInv, Next PROVE Kept
    OBVIOUS
  <2>1. CASE comments' = comments
    BY <2>1
  <2>2. CASE \E d \in Workers, t \in Tenants : Store(d, t)
    BY <1>3, <2>2
  <2>3. (\E d \in Workers, t \in Tenants : Store(d, t)) \/ comments' = comments
    BY DEF Next, Happens, Handling, Replying, Receive, Route, Acknowledge, Fails, StartReply,
           StartReplyAs, Credentials, Default, Send, ConnectionsMove
  <2> QED BY <2>1, <2>2, <2>3
<1> QED BY <1>1, <1>2, <1>4, PTL DEF Spec, TextIsKept

(* A reply under way knows the Page of its comment while that is connected  *)
(* and was stored, else it is astray; it asks for the default Page only     *)
(* when it is.                                                              *)
RepliesInv ==
    /\ DOMAIN worker = Workers
    /\ \A d \in Workers :
           /\ DOMAIN worker[d] = DOMAIN Free
           /\ worker[d].pc = "credentials" /\ d \notin astray =>
                  /\ worker[d].page = PageOf[worker[d].comment]
                  /\ worker[d].page \in Members(accounts[worker[d].tenant])
           /\ worker[d].pc = "default" => d \in astray
    /\ RepliesAsItsPage

LEMMA RepliesInvStep == RepliesInv /\ [Next]_vars => RepliesInv'
PROOF
<1> SUFFICES ASSUME RepliesInv, [Next]_vars PROVE RepliesInv'
  OBVIOUS
<1>0. Free.pc = "free"
  BY DEF Free
(* one thread moves, and stays right                                        *)
<1>1. ASSUME NEW d \in Workers, NEW w, worker' = [worker EXCEPT ![d] = w], accounts' = accounts,
             astray' \ {d} = astray \ {d}, DOMAIN w = DOMAIN Free,
             w.pc = "credentials" /\ d \notin astray' =>
                  w.page = PageOf[w.comment] /\ w.page \in Members(accounts[w.tenant]),
             w.pc = "default" => d \in astray',
             w.pc = "send" /\ w.page # PageOf[w.comment] => d \in astray'
      PROVE  RepliesInv'
  <2>1. worker'[d] = w /\ DOMAIN worker' = Workers /\ \A x \in Workers \ {d} : worker'[x] = worker[x]
    BY <1>1 DEF RepliesInv
  <2>2. \A x \in Workers \ {d} : x \in astray' <=> x \in astray
    BY <1>1
  <2> QED BY <1>1, <2>1, <2>2 DEF RepliesInv, RepliesAsItsPage, Members
<1>2. ASSUME NEW d \in Workers, NEW w, worker' = [worker EXCEPT ![d] = w], accounts' = accounts,
             astray' = astray, DOMAIN w = DOMAIN Free, w.pc \in {"free", "route", "store", "ack"}
      PROVE  RepliesInv'
  BY <1>1, <1>2
<1>3. ASSUME NEW d \in Workers, Onwards(d), accounts' = accounts, astray' = astray
      PROVE  RepliesInv'
  <2>1. DOMAIN worker[d] = DOMAIN Free
    BY DEF RepliesInv
  <2>2. PICK w : worker' = [worker EXCEPT ![d] = w] /\ DOMAIN w = DOMAIN Free /\ w.pc \in {"route", "ack"}
    BY <1>3, <2>1, OnwardsFields
  <2> QED BY <1>2, <1>3, <2>2
<1>4. ASSUME NEW d \in Workers, Handling(d) PROVE RepliesInv'
  <2>0. DOMAIN worker[d] = DOMAIN Free
    BY DEF RepliesInv
  <2>1. ASSUME NEW b, Receive(d, b) PROVE RepliesInv'
    <3> DEFINE w == [Free EXCEPT !.pc = "route", !.batch = b, !.n = 1]
    <3>1. DOMAIN w = DOMAIN Free /\ w.pc = "route"
      BY DEF Free
    <3>2. worker' = [worker EXCEPT ![d] = w] /\ accounts' = accounts /\ astray' = astray
      BY <2>1 DEF Receive, Becomes, channelVars, tables
    <3> HIDE DEF w
    <3> QED BY <1>2, <3>1, <3>2
  <2>2. ASSUME Route(d) PROVE RepliesInv'
    <3> DEFINE found == TenantsFor(PageOf[Current(d).comment])
               w == [worker[d] EXCEPT !.pc = "store", !.tenants = found]
    <3>1. DOMAIN w = DOMAIN Free /\ w.pc = "store"
      BY <2>0 DEF Free
    <3>2. /\ Onwards(d) \/ worker' = [worker EXCEPT ![d] = w]
          /\ accounts' = accounts /\ astray' = astray
      BY <2>2 DEF Route, Becomes, channelVars, tables
    <3> HIDE DEF w
    <3> QED BY <1>2, <1>3, <3>1, <3>2
  <2>3. ASSUME NEW t \in Tenants, Store(d, t) PROVE RepliesInv'
    <3> DEFINE w == [worker[d] EXCEPT !.tenants = worker[d].tenants \ {t}]
    <3>1. DOMAIN w = DOMAIN Free /\ w.pc = "store"
      BY <2>0, <2>3 DEF Free, Store
    <3>2. /\ Onwards(d) \/ worker' = [worker EXCEPT ![d] = w]
          /\ accounts' = accounts /\ astray' = astray
      BY <2>3 DEF Store, Becomes, channelVars, tables
    <3> HIDE DEF w
    <3> QED BY <1>2, <1>3, <3>1, <3>2
  <2>4. ASSUME Acknowledge(d) \/ Fails(d) PROVE RepliesInv'
    <3>1. worker' = [worker EXCEPT ![d] = Free] /\ accounts' = accounts /\ astray' = astray
      BY <2>4 DEF Acknowledge, Fails, Becomes, channelVars, tables
    <3> QED BY <1>0, <1>2, <3>1
  <2> QED BY <1>4, <2>1, <2>2, <2>3, <2>4 DEF Handling
<1>5. ASSUME NEW d \in Workers, Replying(d) PROVE RepliesInv'
  <2>0. DOMAIN worker[d] = DOMAIN Free
    BY DEF RepliesInv
  <2>1. ASSUME NEW t \in Tenants, NEW c, StartReply(d, t, c) PROVE RepliesInv'
    <3> DEFINE stored == comments[t][c] # NoComment
               page == IF stored THEN PageOf[c] ELSE None
               w == [Free EXCEPT !.pc = "credentials", !.tenant = t, !.comment = c, !.page = page]
    <3>1. /\ DOMAIN w = DOMAIN Free /\ w.pc = "credentials"
          /\ w.tenant = t /\ w.comment = c /\ w.page = page
      BY DEF Free
    <3>2. /\ worker' = [worker EXCEPT ![d] = w] /\ accounts' = accounts
          /\ astray' = IF stored /\ t \in TenantsFor(PageOf[c]) THEN astray \ {d} ELSE astray \cup {d}
      BY <2>1 DEF StartReply, Becomes, channelVars, tables
    <3> HIDE DEF w
    <3>3. d \notin astray' => w.page = PageOf[c] /\ w.page \in Members(accounts[t])
      BY <3>1, <3>2 DEF TenantsFor
    <3> HIDE DEF stored, page
    <3> QED BY <1>1, <3>1, <3>2, <3>3
  <2>5. ASSUME NEW t \in Tenants, NEW c, NEW page, StartReplyAs(d, t, c, page) PROVE RepliesInv'
    <3> DEFINE w == [Free EXCEPT !.pc = "send", !.tenant = t, !.comment = c, !.page = page]
    <3>1. DOMAIN w = DOMAIN Free /\ w.pc = "send"
      BY DEF Free
    <3>2. worker' = [worker EXCEPT ![d] = w] /\ accounts' = accounts /\ astray' = astray \cup {d}
      BY <2>5 DEF StartReplyAs, Becomes, channelVars, tables
    <3> HIDE DEF w
    <3> QED BY <1>1, <3>1, <3>2
  <2>2. ASSUME Credentials(d) PROVE RepliesInv'
    <3> DEFINE found == worker[d].page \in Members(accounts[worker[d].tenant])
               w == [worker[d] EXCEPT !.pc = IF found THEN "send" ELSE "default"]
    <3>1. /\ DOMAIN w = DOMAIN Free /\ w.pc = IF found THEN "send" ELSE "default"
          /\ w.page = worker[d].page /\ w.comment = worker[d].comment
      BY <2>0 DEF Free
    <3>2. /\ worker' = [worker EXCEPT ![d] = w] /\ accounts' = accounts /\ astray' = astray
          /\ worker[d].pc = "credentials"
      BY <2>2 DEF Credentials, Becomes, channelVars, tables
    <3> HIDE DEF w
    <3>3. d \notin astray => found /\ worker[d].page = PageOf[worker[d].comment]
      BY <3>2 DEF RepliesInv
    <3> HIDE DEF found
    <3> QED BY <1>1, <3>1, <3>2, <3>3
  <2>3. ASSUME Default(d) PROVE RepliesInv'
    <3> DEFINE w == [worker[d] EXCEPT !.pc = "send", !.page = DefaultPage(worker[d].tenant)]
    <3>1. DOMAIN w = DOMAIN Free /\ w.pc = "send"
      BY <2>0 DEF Free
    <3>2. /\ accounts' = accounts /\ worker[d].pc = "default"
          /\ \/ worker' = [worker EXCEPT ![d] = Free] /\ astray' = astray \ {d}
             \/ worker' = [worker EXCEPT ![d] = w] /\ astray' = astray
      BY <2>3 DEF Default, Becomes, channelVars, tables
    <3>3. d \in astray
      BY <3>2 DEF RepliesInv
    <3> HIDE DEF w
    <3> QED BY <1>0, <1>1, <3>1, <3>2, <3>3
  <2>4. ASSUME Send(d) PROVE RepliesInv'
    <3>1. worker' = [worker EXCEPT ![d] = Free] /\ accounts' = accounts /\ astray' = astray \ {d}
      BY <2>4 DEF Send, Becomes, channelVars, tables
    <3> QED BY <1>0, <1>1, <3>1
  <2> QED BY <1>5, <2>1, <2>2, <2>3, <2>4, <2>5 DEF Replying
<1>6. ASSUME ConnectionsMove PROVE RepliesInv'
  <2>1. /\ worker' = worker
        /\ \A d \in Workers : worker[d].pc = "credentials" /\ d \notin astray' =>
               d \notin astray /\ PageOf[worker[d].comment] \in Members(accounts'[worker[d].tenant])
        /\ astray \subseteq astray'
    BY <1>6 DEF ConnectionsMove, AtReply
  <2> QED BY <2>1 DEF RepliesInv, RepliesAsItsPage, Members
<1>7. ASSUME worker' = worker, accounts' = accounts, astray' = astray PROVE RepliesInv'
  BY <1>7 DEF RepliesInv, RepliesAsItsPage, Members
<1>8. ASSUME NEW c \in Comments, Happens(c) PROVE RepliesInv'
  BY <1>7, <1>8 DEF Happens, channelVars, tables
<1>9. CASE UNCHANGED vars
  BY <1>7, <1>9 DEF vars, channelVars, tables, inboxVars
<1> QED BY <1>4, <1>5, <1>6, <1>8, <1>9 DEF Next

(* "The page that received the comment decides which Page token replies":   *)
(* a reply goes out as another Page only when the caller passed a token,    *)
(* the workspace had not stored the comment, or its Page was disconnected.  *)
THEOREM RepliesGoAsItsPage == Spec => []RepliesAsItsPage
PROOF
<1>1. Init => RepliesInv
  BY DEF Init, InboxInit, RepliesInv, RepliesAsItsPage, Free
<1>2. RepliesInv /\ [Next]_vars => RepliesInv'
  BY RepliesInvStep
<1>3. RepliesInv => RepliesAsItsPage
  BY DEF RepliesInv
<1> QED BY <1>1, <1>2, <1>3, PTL DEF Spec

-------------------------------------------------------------------------------
(* Lists of rows: deleting, saving, and the Pages that find a slot *)

\* No member of s occurs twice.
Unique(s) == \A i, j \in 1..Len(s) : s[i] = s[j] => i = j

\* What is in a list after one more member was appended.
LEMMA Appended ==
    ASSUME NEW X, NEW s \in Seq(X), NEW x \in X
    PROVE  /\ Members(Append(s, x)) = Members(s) \cup {x}
           /\ Unique(s) /\ x \notin Members(s) => Unique(Append(s, x))
           /\ Append(s, x) # <<>>
           /\ Head(Append(s, x)) = IF s = <<>> THEN x ELSE Head(s)
<1> DEFINE a == Append(s, x)
<1>1. /\ Len(a) = Len(s) + 1 /\ a[Len(s) + 1] = x
      /\ \A i \in 1..Len(s) : a[i] = s[i]
      /\ Len(s) \in Nat /\ a \in Seq(X)
  OBVIOUS
<1>e. (s = <<>>) <=> Len(s) = 0
  OBVIOUS
<1> HIDE DEF a
<1>2. 1..Len(a) = 1..Len(s) \cup {Len(s) + 1}
  BY <1>1
<1>3. Members(a) = Members(s) \cup {x}
  BY <1>1, <1>2 DEF Members
<1>4. ASSUME Unique(s), x \notin Members(s) PROVE Unique(a)
  BY <1>1, <1>2, <1>4 DEF Unique, Members
<1>5. a # <<>> /\ Head(a) = a[1]
  BY <1>1
<1>6. Head(a) = IF s = <<>> THEN x ELSE Head(s)
  <2>1. CASE s = <<>>
    BY <1>1, <1>5, <1>e, <2>1
  <2>2. CASE s # <<>>
    <3>1. Head(s) = s[1] /\ 1 \in 1..Len(s)
      BY <2>2, <1>e, <1>1
    <3> QED BY <1>1, <1>5, <2>2, <3>1
  <2> QED BY <2>1, <2>2
<1> QED BY <1>3, <1>4, <1>5, <1>6 DEF a

\* Going through a list and appending some of its members.
Selections(X, s, K) ==
    {h \in [0..Len(s) -> Seq(X)] :
        /\ h[0] = <<>>
        /\ \A i \in 1..Len(s) : h[i] = IF i \in K THEN Append(h[i - 1], s[i]) ELSE h[i - 1]}

\* The members of s up to place k whose places are in K.
Chosen(s, K, k) == {s[i] : i \in K \cap (1..k)}

\* ... which collects those members, in their order.
LEMMA Selected ==
    ASSUME NEW X, NEW s \in Seq(X), NEW K, NEW h \in Selections(X, s, K)
    PROVE  \A k \in 0..Len(s) :
               /\ Members(h[k]) = Chosen(s, K, k)
               /\ Unique(s) => Unique(h[k])
               /\ 1 \in K /\ k > 0 => h[k] # <<>> /\ Head(h[k]) = s[1]
<1> DEFINE S == {k \in 0..Len(s) :
               /\ Members(h[k]) = Chosen(s, K, k)
               /\ Unique(s) => Unique(h[k])
               /\ 1 \in K /\ k > 0 => h[k] # <<>> /\ Head(h[k]) = s[1]}
<1>a. /\ h \in [0..Len(s) -> Seq(X)] /\ h[0] = <<>>
      /\ \A i \in 1..Len(s) : h[i] = IF i \in K THEN Append(h[i - 1], s[i]) ELSE h[i - 1]
  BY DEF Selections
<1>1. 0 \in S
  BY <1>a DEF Members, Unique, Chosen
<1>2. ASSUME NEW k \in 1..Len(s), k - 1 \in S PROVE k \in S
  <2>1. /\ Members(h[k - 1]) = Chosen(s, K, k - 1)
        /\ Unique(s) => Unique(h[k - 1])
        /\ 1 \in K /\ k - 1 > 0 => h[k - 1] # <<>> /\ Head(h[k - 1]) = s[1]
        /\ h[k - 1] \in Seq(X) /\ s[k] \in X
    BY <1>2, <1>a
  <2> HIDE DEF S
  <2>2. 1..k = 1..k - 1 \cup {k}
    OBVIOUS
  <2>3. CASE k \notin K
    <3>1. h[k] = h[k - 1]
      BY <1>a, <2>3
    <3>2. K \cap (1..k) = K \cap (1..k - 1)
      BY <2>2, <2>3
    <3>3. 1 \in K => k - 1 > 0
      BY <2>3
    <3> QED BY <2>1, <3>1, <3>2, <3>3 DEF S, Chosen
  <2>4. CASE k \in K
    <3>1. h[k] = Append(h[k - 1], s[k])
      BY <1>a, <2>4
    <3>2. K \cap (1..k) = (K \cap (1..k - 1)) \cup {k}
      BY <2>2, <2>4
    <3>a. /\ Members(h[k]) = Members(h[k - 1]) \cup {s[k]}
          /\ Unique(h[k - 1]) /\ s[k] \notin Members(h[k - 1]) => Unique(h[k])
          /\ h[k] # <<>>
          /\ Head(h[k]) = IF h[k - 1] = <<>> THEN s[k] ELSE Head(h[k - 1])
      <4> DEFINE x == s[k]  t == h[k - 1]
      <4>1. t \in Seq(X) /\ x \in X /\ h[k] = Append(t, x)
        BY <2>1, <3>1
      <4> HIDE DEF x, t
      <4>2. /\ Members(Append(t, x)) = Members(t) \cup {x}
            /\ Unique(t) /\ x \notin Members(t) => Unique(Append(t, x))
            /\ Append(t, x) # <<>>
            /\ Head(Append(t, x)) = IF t = <<>> THEN x ELSE Head(t)
        BY <4>1, Appended
      <4>3. /\ Members(h[k]) = Members(t) \cup {x}
            /\ Unique(t) /\ x \notin Members(t) => Unique(h[k])
            /\ h[k] # <<>>
            /\ Head(h[k]) = IF t = <<>> THEN x ELSE Head(t)
        BY <4>1, <4>2, Zenon
      <4> QED BY <4>3, Zenon DEF x, t
    <3>3. Members(h[k]) = Chosen(s, K, k)
      BY <2>1, <3>2, <3>a DEF Chosen
    <3>4. ASSUME Unique(s) PROVE Unique(h[k])
      <4>1. s[k] \notin Members(h[k - 1])
        BY <2>1, <3>4 DEF Unique, Chosen
      <4> QED BY <2>1, <3>4, <4>1, <3>a
    <3>5. ASSUME 1 \in K PROVE h[k] # <<>> /\ Head(h[k]) = s[1]
      <4>1. CASE k = 1
        <5>1. h[k - 1] = <<>>
          BY <1>a, <4>1
        <5> QED BY <4>1, <5>1, <3>a
      <4>2. CASE k > 1
        BY <2>1, <3>5, <4>2, <3>a
      <4> QED BY <4>1, <4>2
    <3> QED BY <3>3, <3>4, <3>5 DEF S
  <2> QED BY <2>3, <2>4
<1>3. \A k \in 0..Len(s) : k \in S
  <2> HIDE DEF S
  <2>1. Len(s) \in Nat
    OBVIOUS
  <2> QED BY <1>1, <1>2, <2>1, SetInduction
<1> QED BY <1>3

\* Deleting rows is going through the list.
LEMMA WithoutRuns ==
    ASSUME NEW X, NEW rows \in Seq(X), NEW gone
    PROVE  \E h \in [0..Len(rows) -> Seq(X)] :
               /\ Without(rows, gone) = h[Len(rows)] /\ h[0] = <<>>
               /\ \A i \in 1..Len(rows) :
                      h[i] = IF rows[i] \in gone THEN h[i - 1] ELSE Append(h[i - 1], rows[i])
<1> DEFINE n == Len(rows)
           step == [x \in (1..n) \X Seq(X) |->
                       IF rows[x[1]] \in gone THEN x[2] ELSE Append(x[2], rows[x[1]])]
           V == Seq(X)
<1>1. step \in [(1..n) \X V -> V] /\ n \in Nat /\ <<>> \in V
  OBVIOUS
<1>2. PICK h \in [0..n -> V] : h[0] = <<>> /\ \A i \in 1..n : h[i] = step[<<i, h[i - 1]>>]
  <2> HIDE DEF step, n, V
  <2>1. Runs(n, V, <<>>, step) # {}
    BY <1>1, Iteration
  <2> QED BY <2>1 DEF Runs
<1>3. ASSUME NEW i \in 1..n
      PROVE  h[i] = IF rows[i] \in gone THEN h[i - 1] ELSE Append(h[i - 1], rows[i])
  <2> HIDE DEF step, n, V
  <2>1. h[i - 1] \in V /\ h[i] = step[<<i, h[i - 1]>>]
    BY <1>1, <1>2
  <2>2. <<i, h[i - 1]>> \in (1..n) \X V
    BY <2>1
  <2> DEFINE last == h[i - 1]
  <2>3. <<i, last>> \in (1..n) \X Seq(X) /\ step[<<i, last>>] = h[i]
    BY <2>1, <2>2 DEF V
  <2> HIDE DEF last
  <2>4. h[i] = IF rows[i] \in gone THEN last ELSE Append(last, rows[i])
    BY <2>3 DEF step
  <2> QED BY <2>4 DEF last
<1> HIDE DEF step
<1>4. h = [i \in 0..Len(rows) |->
              IF i = 0 THEN <<>>
              ELSE IF rows[i] \in gone THEN h[i - 1] ELSE Append(h[i - 1], rows[i])]
  <2>1. ASSUME NEW i \in 0..n
        PROVE  h[i] = IF i = 0 THEN <<>>
                      ELSE IF rows[i] \in gone THEN h[i - 1] ELSE Append(h[i - 1], rows[i])
    <3>1. CASE i = 0
      BY <1>2, <3>1
    <3>2. CASE i # 0
      <4>1. i \in 1..n
        BY <1>1, <3>2
      <4> HIDE DEF n
      <4> QED BY <1>3, <3>2, <4>1
    <3> QED BY <3>1, <3>2
  <2>2. h = [i \in 0..n |-> h[i]]
    BY <1>2
  <2> HIDE DEF n
  <2>3. h = [i \in 0..n |-> IF i = 0 THEN <<>>
                      ELSE IF rows[i] \in gone THEN h[i - 1] ELSE Append(h[i - 1], rows[i])]
    BY <2>1, <2>2, Zenon
  <2> QED BY <2>3 DEF n
<1> DEFINE Left == CHOOSE f : f = [i \in 0..Len(rows) |->
              IF i = 0 THEN <<>>
              ELSE IF rows[i] \in gone THEN f[i - 1] ELSE Append(f[i - 1], rows[i])]
<1>5. Left = [i \in 0..Len(rows) |->
              IF i = 0 THEN <<>>
              ELSE IF rows[i] \in gone THEN Left[i - 1] ELSE Append(Left[i - 1], rows[i])]
  BY <1>4, Zenon
<1>6. Without(rows, gone) = Left[Len(rows)]
  BY Zenon DEF Without
<1> HIDE DEF Left
<1>7. \A i \in 0..Len(rows) : i \in {k \in 0..Len(rows) : Left[k] = h[k]}
  <2> DEFINE S == {k \in 0..Len(rows) : Left[k] = h[k]}
  <2>1. 0 \in S
    BY <1>2, <1>5
  <2>2. ASSUME NEW i \in 1..n, i - 1 \in S PROVE i \in S
    <3>1. Left[i] = IF i = 0 THEN <<>>
                    ELSE IF rows[i] \in gone THEN Left[i - 1] ELSE Append(Left[i - 1], rows[i])
      <4>1. i \in 0..Len(rows)
        OBVIOUS
      <4> QED BY <1>5, <4>1, Zenon
    <3> QED BY <1>3, <2>2, <3>1
  <2> HIDE DEF S
  <2>3. \A i \in 0..n : i \in S
    BY <1>1, <2>1, <2>2, SetInduction
  <2> QED BY <2>3 DEF S
<1>8. Without(rows, gone) = h[Len(rows)]
  BY <1>1, <1>6, <1>7
<1> QED BY <1>2, <1>3, <1>8

\* Deleting leaves the other rows, and the first one in its place if it stays.
LEMMA WithoutRows ==
    ASSUME NEW X, NEW rows \in Seq(X), NEW gone
    PROVE  /\ Without(rows, gone) \in Seq(X)
           /\ Members(Without(rows, gone)) = Members(rows) \ gone
           /\ Unique(rows) => Unique(Without(rows, gone))
           /\ rows # <<>> /\ rows[1] \notin gone =>
                  Without(rows, gone) # <<>> /\ Head(Without(rows, gone)) = rows[1]
<1>1. PICK h \in [0..Len(rows) -> Seq(X)] :
          /\ Without(rows, gone) = h[Len(rows)] /\ h[0] = <<>>
          /\ \A i \in 1..Len(rows) :
                 h[i] = IF rows[i] \in gone THEN h[i - 1] ELSE Append(h[i - 1], rows[i])
  BY WithoutRuns
<1> DEFINE n == Len(rows)
           K == {i \in 1..n : rows[i] \notin gone}
<1>2. n \in Nat /\ n \in 0..n /\ (rows # <<>> => n > 0 /\ 1 \in 1..n)
  OBVIOUS
<1>3. \A i \in 1..n : h[i] = IF i \in K THEN Append(h[i - 1], rows[i]) ELSE h[i - 1]
  BY <1>1
<1>4. /\ Members(h[n]) = Chosen(rows, K, n)
      /\ Unique(rows) => Unique(h[n])
      /\ 1 \in K /\ n > 0 => h[n] # <<>> /\ Head(h[n]) = rows[1]
  <2> HIDE DEF K
  <2>1. h \in Selections(X, rows, K)
    BY <1>1, <1>3 DEF Selections
  <2> QED BY <1>2, <2>1, Selected
<1>5. Chosen(rows, K, n) = Members(rows) \ gone
  BY DEF Members, Chosen
<1> QED BY <1>1, <1>2, <1>4, <1>5

\* Saving makes the row the first one and adds no other.
LEMMA SavedRows ==
    ASSUME NEW X, NEW rows \in Seq(X), NEW a \in X
    PROVE  /\ Saved(rows, a) \in Seq(X)
           /\ Members(Saved(rows, a)) = Members(rows) \cup {a}
           /\ Unique(rows) => Unique(Saved(rows, a))
           /\ Saved(rows, a) # <<>> /\ Saved(rows, a)[1] = a
<1> DEFINE w == Without(rows, {a})  s == <<a>> \o w
<1>1. w \in Seq(X) /\ Members(w) = Members(rows) \ {a} /\ (Unique(rows) => Unique(w))
  BY WithoutRows
<1> HIDE DEF w
<1>2. /\ s \in Seq(X) /\ Len(w) \in Nat /\ Len(s) = Len(w) + 1 /\ s[1] = a
      /\ \A i \in 1..Len(w) : s[i + 1] = w[i]
      /\ \A i \in 1..Len(s) : i = 1 \/ (i - 1 \in 1..Len(w) /\ s[i] = w[i - 1])
  BY <1>1
<1>3. s # <<>>
  BY <1>1, <1>2
<1> HIDE DEF s
<1>4. Members(s) = Members(w) \cup {a}
  <2>1. ASSUME NEW x \in Members(s) PROVE x \in Members(w) \cup {a}
    <3>1. PICK i \in 1..Len(s) : s[i] = x
      BY <2>1 DEF Members
    <3> QED BY <1>2, <3>1 DEF Members
  <2>2. ASSUME NEW x \in Members(w) PROVE x \in Members(s)
    <3>1. PICK i \in 1..Len(w) : w[i] = x
      BY <2>2 DEF Members
    <3>2. i + 1 \in 1..Len(s) /\ s[i + 1] = x
      BY <1>2, <3>1
    <3> QED BY <3>2 DEF Members
  <2>3. a \in Members(s)
    <3>1. 1 \in 1..Len(s)
      BY <1>2
    <3> QED BY <1>2, <3>1 DEF Members
  <2> QED BY <2>1, <2>2, <2>3
<1>5. ASSUME Unique(rows) PROVE Unique(s)
  <2>1. Unique(w) /\ a \notin Members(w)
    BY <1>1, <1>5
  <2> SUFFICES ASSUME NEW i \in 1..Len(s), NEW j \in 1..Len(s), s[i] = s[j] PROVE i = j
    BY DEF Unique
  <2>2. CASE i = 1 \/ j = 1
    BY <1>2, <2>1, <2>2 DEF Members
  <2>3. CASE i # 1 /\ j # 1
    <3>1. /\ i - 1 \in 1..Len(w) /\ j - 1 \in 1..Len(w) /\ w[i - 1] = w[j - 1]
      BY <1>2, <2>3
    <3>2. i - 1 = j - 1
      BY <2>1, <3>1 DEF Unique
    <3> QED BY <3>2
  <2> QED BY <2>2, <2>3
<1>6. Saved(rows, a) = s
  BY DEF Saved, s, w
<1>7. Members(s) = Members(rows) \cup {a}
  BY <1>1, <1>4
<1> QED BY <1>2, <1>3, <1>5, <1>6, <1>7

\* A list without repetitions is as long as it has members.
LEMMA UniqueLength ==
    ASSUME NEW X, NEW s \in Seq(X), Unique(s)
    PROVE  Cardinality(Members(s)) = Len(s)
<1>1. s \in [1..Len(s) -> Members(s)] /\ Len(s) \in Nat
  BY DEF Members
<1>2. s \in Surjection(1..Len(s), Members(s))
  BY <1>1 DEF Surjection, Members
<1>3. s \in Injection(1..Len(s), Members(s))
  BY <1>1 DEF Injection, IsInjective, Unique
<1>4. IsFiniteSet(1..Len(s)) /\ Cardinality(1..Len(s)) = Len(s)
  <2> DEFINE n == Len(s)
  <2>1. n \in Nat /\ 1 \in Int /\ n \in Int
    BY <1>1
  <2> HIDE DEF n
  <2>2. IsFiniteSet(1..n) /\ Cardinality(1..n) = IF 1 > n THEN 0 ELSE n - 1 + 1
    BY <2>1, FS_Interval
  <2>3. Cardinality(1..n) = n
    BY <2>1, <2>2
  <2> QED BY <2>2, <2>3 DEF n
<1> QED BY <1>2, <1>3, <1>4, FS_Surjection

\* What the loop of the callback may go through.
Takings(rows, limit, list) ==
    {h \in [0..Len(list) -> Seq(Pages)] :
        /\ h[0] = <<>>
        /\ \A i \in 1..Len(list) :
               h[i] = IF Granted(Keys(rows) \cup Members(h[i - 1]), limit, list[i])
                      THEN Append(h[i - 1], list[i]) ELSE h[i - 1]}

\* The loop of the callback is going through the list.
LEMMA UsableRuns ==
    ASSUME NEW list \in Seq(Pages), NEW rows, NEW limit
    PROVE  Usable(rows, limit, list) \in {h[Len(list)] : h \in Takings(rows, limit, list)}
<1> DEFINE n == Len(list)
           step == [x \in (1..n) \X Seq(Pages) |->
                       IF Granted(Keys(rows) \cup Members(x[2]), limit, list[x[1]])
                       THEN Append(x[2], list[x[1]]) ELSE x[2]]
           V == Seq(Pages)
<1>1. step \in [(1..n) \X V -> V] /\ n \in Nat /\ <<>> \in V
  OBVIOUS
<1>2. PICK h \in [0..n -> V] : h[0] = <<>> /\ \A i \in 1..n : h[i] = step[<<i, h[i - 1]>>]
  <2> HIDE DEF step, n, V
  <2>1. Runs(n, V, <<>>, step) # {}
    BY <1>1, Iteration
  <2> QED BY <2>1 DEF Runs
<1>3. ASSUME NEW i \in 1..n
      PROVE  h[i] = IF Granted(Keys(rows) \cup Members(h[i - 1]), limit, list[i])
                    THEN Append(h[i - 1], list[i]) ELSE h[i - 1]
  <2> HIDE DEF step, n, V
  <2>1. h[i - 1] \in V /\ h[i] = step[<<i, h[i - 1]>>]
    BY <1>1, <1>2
  <2>2. <<i, h[i - 1]>> \in (1..n) \X V
    BY <2>1
  <2> DEFINE last == h[i - 1]
  <2>3. <<i, last>> \in (1..n) \X Seq(Pages) /\ step[<<i, last>>] = h[i]
    BY <2>1, <2>2 DEF V
  <2> HIDE DEF last
  <2>4. h[i] = IF Granted(Keys(rows) \cup Members(last), limit, list[i])
               THEN Append(last, list[i]) ELSE last
    BY <2>3 DEF step
  <2> QED BY <2>4 DEF last
<1> HIDE DEF step
<1>4. h = [i \in 0..Len(list) |->
              IF i = 0 THEN <<>>
              ELSE IF Granted(Keys(rows) \cup Members(h[i - 1]), limit, list[i])
                   THEN Append(h[i - 1], list[i]) ELSE h[i - 1]]
  <2>1. ASSUME NEW i \in 0..n
        PROVE  h[i] = IF i = 0 THEN <<>>
                      ELSE IF Granted(Keys(rows) \cup Members(h[i - 1]), limit, list[i])
                           THEN Append(h[i - 1], list[i]) ELSE h[i - 1]
    <3>1. CASE i = 0
      BY <1>2, <3>1
    <3>2. CASE i # 0
      <4>1. i \in 1..n
        BY <1>1, <3>2
      <4> HIDE DEF n
      <4> QED BY <1>3, <3>2, <4>1
    <3> QED BY <3>1, <3>2
  <2>2. h = [i \in 0..n |-> h[i]]
    BY <1>2
  <2> HIDE DEF n
  <2>3. h = [i \in 0..n |-> IF i = 0 THEN <<>>
                      ELSE IF Granted(Keys(rows) \cup Members(h[i - 1]), limit, list[i])
                           THEN Append(h[i - 1], list[i]) ELSE h[i - 1]]
    BY <2>1, <2>2, Zenon
  <2> QED BY <2>3 DEF n
<1> DEFINE Taken == CHOOSE f : f = [i \in 0..Len(list) |->
              IF i = 0 THEN <<>>
              ELSE IF Granted(Keys(rows) \cup Members(f[i - 1]), limit, list[i])
                   THEN Append(f[i - 1], list[i]) ELSE f[i - 1]]
<1>5. Taken = [i \in 0..Len(list) |->
              IF i = 0 THEN <<>>
              ELSE IF Granted(Keys(rows) \cup Members(Taken[i - 1]), limit, list[i])
                   THEN Append(Taken[i - 1], list[i]) ELSE Taken[i - 1]]
  BY <1>4, Zenon
<1>6. Usable(rows, limit, list) = Taken[Len(list)]
  BY Zenon DEF Usable
<1> HIDE DEF Taken
<1>7. \A i \in 0..Len(list) : i \in {k \in 0..Len(list) : Taken[k] = h[k]}
  <2> DEFINE S == {k \in 0..Len(list) : Taken[k] = h[k]}
  <2>1. 0 \in S
    BY <1>2, <1>5
  <2>2. ASSUME NEW i \in 1..n, i - 1 \in S PROVE i \in S
    <3>1. Taken[i] = IF i = 0 THEN <<>>
                    ELSE IF Granted(Keys(rows) \cup Members(Taken[i - 1]), limit, list[i])
                         THEN Append(Taken[i - 1], list[i]) ELSE Taken[i - 1]
      <4>1. i \in 0..Len(list)
        OBVIOUS
      <4> QED BY <1>5, <4>1, Zenon
    <3>2. Taken[i] = IF Granted(Keys(rows) \cup Members(Taken[i - 1]), limit, list[i])
                     THEN Append(Taken[i - 1], list[i]) ELSE Taken[i - 1]
      BY <3>1
    <3>3. Taken[i - 1] = h[i - 1] /\ i \in 0..Len(list)
      BY <2>2
    <3> DEFINE last == Taken[i - 1]
    <3>4. Taken[i] = IF Granted(Keys(rows) \cup Members(last), limit, list[i])
                     THEN Append(last, list[i]) ELSE last
      BY <3>2
    <3>5. h[i] = IF Granted(Keys(rows) \cup Members(last), limit, list[i])
                 THEN Append(last, list[i]) ELSE last
      <4>1. i \in 1..n
        OBVIOUS
      <4> QED BY <1>3, <3>3, <4>1, Zenon
    <3> HIDE DEF last
    <3>6. Taken[i] = h[i]
      BY <3>4, <3>5
    <3> QED BY <3>3, <3>6
  <2> HIDE DEF S
  <2>3. \A i \in 0..n : i \in S
    BY <1>1, <2>1, <2>2, SetInduction
  <2> QED BY <2>3 DEF S
<1>8. Usable(rows, limit, list) = h[Len(list)]
  BY <1>1, <1>6, <1>7
<1>9. h \in Takings(rows, limit, list)
  BY <1>2, <1>3 DEF Takings
<1> QED BY <1>8, <1>9


\* The Pages that found a slot are different ones of the list, and none was granted
\* beyond the limit.
LEMMA UsablePages ==
    ASSUME NEW list \in Seq(Pages), Unique(list), NEW rows, NEW limit
    PROVE  /\ Usable(rows, limit, list) \in Seq(Pages)
           /\ Unique(Usable(rows, limit, list))
           /\ limit \in Nat /\ IsFiniteSet(Keys(rows)) /\ Cardinality(Keys(rows)) <= limit =>
                  Cardinality(Keys(rows) \cup Members(Usable(rows, limit, list))) <= limit
<1>1. PICK h \in [0..Len(list) -> Seq(Pages)] :
               /\ Usable(rows, limit, list) = h[Len(list)] /\ h[0] = <<>>
               /\ \A i \in 1..Len(list) :
                      h[i] = IF Granted(Keys(rows) \cup Members(h[i - 1]), limit, list[i])
                             THEN Append(h[i - 1], list[i]) ELSE h[i - 1]
  <2>1. PICK h \in Takings(rows, limit, list) : Usable(rows, limit, list) = h[Len(list)]
    BY UsableRuns
  <2> QED BY <2>1 DEF Takings
<1> DEFINE n == Len(list)
           K == {i \in 1..n : Granted(Keys(rows) \cup Members(h[i - 1]), limit, list[i])}
<1>2. n \in Nat /\ n \in 0..n
  OBVIOUS
<1>3. \A i \in 1..n : h[i] = IF i \in K THEN Append(h[i - 1], list[i]) ELSE h[i - 1]
  BY <1>1
<1>4. \A k \in 0..n : /\ Members(h[k]) = Chosen(list, K, k)
                      /\ Unique(list) => Unique(h[k])
                      /\ 1 \in K /\ k > 0 => h[k] # <<>> /\ Head(h[k]) = list[1]
  <2> HIDE DEF K
  <2>1. h \in Selections(Pages, list, K)
    BY <1>1, <1>3 DEF Selections
  <2>2. \A k \in 0..Len(list) :
            /\ Members(h[k]) = Chosen(list, K, k)
            /\ Unique(list) => Unique(h[k])
            /\ 1 \in K /\ k > 0 => h[k] # <<>> /\ Head(h[k]) = list[1]
    <3> HIDE DEF n
    <3> QED BY <2>1, Selected
  <2> QED BY <2>2
<1>5. ASSUME limit \in Nat, IsFiniteSet(Keys(rows)), Cardinality(Keys(rows)) <= limit
      PROVE  Cardinality(Keys(rows) \cup Members(h[n])) <= limit
  <2> DEFINE F(k) == Keys(rows) \cup Members(h[k])
             S == {k \in 0..n : IsFiniteSet(F(k)) /\ Cardinality(F(k)) <= limit}
  <2>1. 0 \in S
    <3>1. Members(h[0]) = {}
      BY <1>1 DEF Members
    <3>2. F(0) = Keys(rows)
      BY <3>1
    <3> HIDE DEF F
    <3> QED BY <1>2, <1>5, <3>2
  <2>2. ASSUME NEW k \in 1..n, k - 1 \in S PROVE k \in S
    <3>1. IsFiniteSet(F(k - 1)) /\ Cardinality(F(k - 1)) <= limit
      BY <2>2
    <3>2. CASE k \notin K
      <4>1. F(k) = F(k - 1)
        BY <1>3, <3>2
      <4> HIDE DEF F
      <4> QED BY <3>1, <4>1
    <3>3. CASE k \in K
      <4>1. h[k - 1] \in Seq(Pages) /\ list[k] \in Pages
        OBVIOUS
      <4>2. h[k] = Append(h[k - 1], list[k])
        BY <1>3, <3>3
      <4>3. Members(h[k]) = Members(h[k - 1]) \cup {list[k]}
        <5> DEFINE x == list[k]  t == h[k - 1]
        <5>1. t \in Seq(Pages) /\ x \in Pages /\ h[k] = Append(t, x)
          BY <4>1, <4>2
        <5> HIDE DEF x, t
        <5>2. Members(Append(t, x)) = Members(t) \cup {x}
          BY <5>1, Appended
        <5>3. Members(h[k]) = Members(t) \cup {x}
          BY <5>1, <5>2, Zenon
        <5> QED BY <5>3 DEF x, t
      <4>4. F(k) = F(k - 1) \cup {list[k]}
        BY <4>3
      <4>5. list[k] \in F(k - 1) \/ Cardinality(F(k - 1)) < limit
        BY <1>5, <3>3, <4>1 DEF Granted, Key, NoLimit
      <4>6. Cardinality(F(k - 1)) \in Nat
        BY <3>1, FS_CardinalityType
      <4> DEFINE G == F(k - 1)
                 x == list[k]
      <4>7. IsFiniteSet(G) /\ F(k) = G \cup {x} /\ (x \in G \/ Cardinality(G) < limit)
        BY <3>1, <4>4, <4>5
      <4>8. Cardinality(G) \in Nat /\ Cardinality(G) <= limit
        BY <3>1, <4>6
      <4> HIDE DEF F, G, x
      <4>9. /\ IsFiniteSet(G \cup {x})
            /\ Cardinality(G \cup {x}) = IF x \in G THEN Cardinality(G) ELSE Cardinality(G) + 1
        BY <4>7, FS_AddElement
      <4>10. Cardinality(G \cup {x}) <= limit
        BY <1>5, <4>7, <4>8, <4>9
      <4>11. IsFiniteSet(F(k)) /\ Cardinality(F(k)) <= limit
        BY <4>7, <4>9, <4>10
      <4> QED BY <4>11
    <3> QED BY <3>2, <3>3
  <2> HIDE DEF S
  <2>3. \A k \in 0..n : k \in S
    BY <1>2, <2>1, <2>2, SetInduction
  <2> QED BY <1>2, <2>3 DEF S
<1> QED BY <1>1, <1>2, <1>4, <1>5

-------------------------------------------------------------------------------
(* Slots *)

(* What a handler brings to each of its steps.                              *)
RecordOK(q) ==
    /\ DOMAIN q = DOMAIN Idle
    /\ q.pc \in {"idle", "exchange", "slot", "resolve", "save", "subscribe", "test", "list", "delete", "attach"}
    /\ IF q.pc = "idle" THEN q.tenant = None ELSE q.tenant \in Tenants
    /\ q.pc = "exchange" => q.via = "oauth"
    /\ q.pc = "slot" => q.via \in {"connect", "token"} /\ q.asked \in Accounts
    /\ q.pc = "slot" /\ q.via = "token" => q.asked \in Pages
    /\ q.pc = "resolve" => q.via = "token" /\ q.asked \in Pages /\ q.pages = <<q.asked>> /\ q.n = 1
    /\ q.pc = "save" => /\ q.pages \in Seq(Accounts) /\ q.n \in 1..Len(q.pages)
                        /\ q.via # "connect" => q.pages \in Seq(Pages)
    /\ q.pc = "subscribe" => q.pages \in Seq(Pages) /\ q.n \in 0..Len(q.pages) - 1
    /\ q.pc \in {"test", "attach"} => q.asked \in Hooks /\ q.n \in Nat

\* The tables have their shapes, and no account is in a list twice.
TablesOK ==
    /\ accounts \in [Tenants -> Seq(Accounts)]
    /\ \A t \in Tenants : Unique(accounts[t])
    /\ webhooks \in [Tenants -> SUBSET Hook]
    /\ plan \in [Tenants -> Plans] /\ subscribed \subseteq Pages

\* So have the marks of what has happened.
HistoryOK ==
    /\ starts \in 0..MaxStarts /\ faults \in 0..MaxFaults
    /\ excused \subseteq Tenants /\ hooked \subseteq Tenants /\ clashed \subseteq Tenants
    /\ disturbed \subseteq Requests

RecordsOK == DOMAIN request = Requests /\ \A r \in Requests : RecordOK(request[r])

(* The slots a handler holds and has not filled yet.                        *)
Holds(q) == q.pc \in {"resolve", "save"}
\* The keys of the Pages a handler has still to save.
Pending(q) == {Key(q.pages[i]) : i \in 1..q.n}

(* One handler of a workspace holds slots at a time; without the agency     *)
(* plan it asked for them under the cap, and what is connected and what it  *)
(* has still to save fit into it.                                           *)
SlotsOK ==
    \A t \in Tenants \ excused :
        /\ \A r, s \in Requests : Holds(request[r]) /\ Holds(request[s])
               /\ request[r].tenant = t /\ request[s].tenant = t => r = s
        /\ plan[t] # "agency" =>
               /\ Cardinality(Keys(accounts[t])) <= Limit
               /\ \A r \in Requests : request[r].tenant = t =>
                      /\ request[r].pc \in {"exchange", "slot"} => request[r].limit = Limit
                      /\ Holds(request[r]) =>
                             Cardinality(Keys(accounts[t]) \cup Pending(request[r])) <= Limit

SlotsInv == TablesOK /\ HistoryOK /\ RecordsOK /\ SlotsOK /\ FirstPageIsDefault

\* If all keys are within the limit, so are some of them.
LEMMA FewerKeys ==
    ASSUME NEW S, NEW T, S \subseteq T, T \subseteq Pages \cup {ApiPlatform}, Cardinality(T) <= Limit
    PROVE  Cardinality(S) <= Limit /\ IsFiniteSet(T)
PROOF
<1>1. IsFiniteSet(Pages \cup {ApiPlatform})
  <2>1. IsFiniteSet(Pages) /\ IsFiniteSet({ApiPlatform})
    BY ChannelsAssumption, FS_Singleton
  <2> QED BY <2>1, FS_Union
<1>2. IsFiniteSet(T)
  BY <1>1, FS_Subset
<1>3. IsFiniteSet(S) /\ Cardinality(S) <= Cardinality(T)
  BY <1>2, FS_Subset
<1>4. Cardinality(S) \in Nat /\ Cardinality(T) \in Nat /\ Limit \in Nat
  BY <1>2, <1>3, FS_CardinalityType, ChannelsAssumption
<1> QED BY <1>2, <1>3, <1>4

LEMMA KeysAre ==
    ASSUME NEW rows
    PROVE  Keys(rows) \subseteq Pages \cup {ApiPlatform} /\ IsFiniteSet(Keys(rows))
PROOF
<1>1. Keys(rows) \subseteq Pages \cup {ApiPlatform}
  BY DEF Keys, Key
<1>2. IsFiniteSet(Pages \cup {ApiPlatform})
  <2>1. IsFiniteSet(Pages) /\ IsFiniteSet({ApiPlatform})
    BY ChannelsAssumption, FS_Singleton
  <2> QED BY <2>1, FS_Union
<1> QED BY <1>1, <1>2, FS_Subset

\* Saving adds the key of the account.
LEMMA KeysSaved ==
    ASSUME NEW rows \in Seq(Accounts), NEW a \in Accounts
    PROVE  Keys(Saved(rows, a)) = Keys(rows) \cup {Key(a)}
PROOF
<1>1. Members(Saved(rows, a)) = Members(rows) \cup {a}
  BY SavedRows
<1>2. {Key(b) : b \in Members(rows) \cup {a}} = {Key(b) : b \in Members(rows)} \cup {Key(a)}
  OBVIOUS
<1>3. Keys(Saved(rows, a)) = {Key(b) : b \in Members(rows) \cup {a}}
  BY <1>1, Zenon DEF Keys
<1> QED BY <1>2, <1>3, Zenon DEF Keys

LEMMA KeysWithout ==
    ASSUME NEW rows \in Seq(Accounts), NEW gone
    PROVE  Keys(Without(rows, gone)) \subseteq Keys(rows)
BY WithoutRows DEF Keys

LEMMA ListsAre ==
    ASSUME NEW list \in Lists
    PROVE  list \in Seq(Pages) /\ Unique(list)
PROOF
<1>1. Cardinality(Pages) \in Nat
  BY ChannelsAssumption, FS_CardinalityType
<1>2. PICK n \in 0..Cardinality(Pages) : list \in [1..n -> Pages]
  BY DEF Lists
<1>3. n \in Nat
  BY <1>1
<1>4. list \in Seq(Pages)
  BY <1>2, <1>3
<1>5. DOMAIN list = 1..Len(list)
  BY <1>4
<1> QED BY <1>4, <1>5 DEF Lists, Unique

\* A step of one handler that leaves accounts and plans alone keeps the slots.
LEMMA TurnKeeps ==
    ASSUME SlotsInv, NEW r \in Requests, NEW q, RecordOK(q), request' = [request EXCEPT ![r] = q],
           accounts' = accounts, webhooks' \in [Tenants -> SUBSET Hook], plan' = plan,
           subscribed' \subseteq Pages, starts' \in 0..MaxStarts, faults' \in 0..MaxFaults,
           excused \subseteq excused', excused' \subseteq Tenants, hooked' \subseteq Tenants,
           clashed' \subseteq Tenants, disturbed' \subseteq Requests,
           disturbed \ {r} \subseteq disturbed',
           q.pc = "subscribe" =>
               /\ request[r].pc = "subscribe" /\ (r \in disturbed => r \in disturbed')
               /\ q.via = request[r].via /\ q.tenant = request[r].tenant /\ q.pages = request[r].pages,
           q.pc \in {"exchange", "slot"} /\ plan[q.tenant] # "agency" => q.limit = Limit,
           Holds(q) /\ q.tenant \notin excused' =>
               /\ \A s \in Requests \ {r} : Holds(request[s]) => request[s].tenant # q.tenant
               /\ plan[q.tenant] # "agency" =>
                      Cardinality(Keys(accounts[q.tenant]) \cup Pending(q)) <= Limit
    PROVE  SlotsInv'
PROOF
<1>1. request'[r] = q /\ DOMAIN request' = Requests /\ \A s \in Requests \ {r} : request'[s] = request[s]
  BY DEF SlotsInv, RecordsOK
<1>2. TablesOK'
  BY DEF SlotsInv, TablesOK
<1>3. HistoryOK'
  BY DEF HistoryOK
<1>4. RecordsOK'
  BY <1>1 DEF SlotsInv, RecordsOK
<1>5. SlotsOK'
  <2> SUFFICES ASSUME NEW t \in Tenants, t \notin excused'
               PROVE  /\ \A a, b \in Requests : Holds(request'[a]) /\ Holds(request'[b])
                             /\ request'[a].tenant = t /\ request'[b].tenant = t => a = b
                      /\ plan[t] # "agency" =>
                             /\ Cardinality(Keys(accounts[t])) <= Limit
                             /\ \A a \in Requests : request'[a].tenant = t =>
                                   /\ request'[a].pc \in {"exchange", "slot"} => request'[a].limit = Limit
                                   /\ Holds(request'[a]) =>
                                          Cardinality(Keys(accounts[t]) \cup Pending(request'[a])) <= Limit
    BY DEF SlotsOK
  <2>1. t \notin excused
    OBVIOUS
  <2>2. /\ \A a, b \in Requests : Holds(request[a]) /\ Holds(request[b])
               /\ request[a].tenant = t /\ request[b].tenant = t => a = b
        /\ plan[t] # "agency" =>
               /\ Cardinality(Keys(accounts[t])) <= Limit
               /\ \A a \in Requests : request[a].tenant = t =>
                     /\ request[a].pc \in {"exchange", "slot"} => request[a].limit = Limit
                     /\ Holds(request[a]) =>
                            Cardinality(Keys(accounts[t]) \cup Pending(request[a])) <= Limit
    BY <2>1 DEF SlotsInv, SlotsOK
  <2>3. ASSUME NEW a \in Requests, NEW b \in Requests, Holds(request'[a]), Holds(request'[b]),
               request'[a].tenant = t, request'[b].tenant = t
        PROVE  a = b
    <3>1. CASE a = r \/ b = r
      BY <1>1, <2>3, <3>1
    <3>2. CASE a # r /\ b # r
      BY <1>1, <2>2, <2>3, <3>2
    <3> QED BY <3>1, <3>2
  <2>4. ASSUME plan[t] # "agency", NEW a \in Requests, request'[a].tenant = t
        PROVE  /\ request'[a].pc \in {"exchange", "slot"} => request'[a].limit = Limit
               /\ Holds(request'[a]) =>
                      Cardinality(Keys(accounts[t]) \cup Pending(request'[a])) <= Limit
    <3>1. CASE a = r
      BY <1>1, <2>4, <3>1
    <3>2. CASE a # r
      BY <1>1, <2>2, <2>4, <3>2
    <3> QED BY <3>1, <3>2
  <2> QED BY <2>2, <2>3, <2>4
<1>6. FirstPageIsDefault'
  <2> SUFFICES ASSUME NEW a \in Requests, a \notin disturbed',
                      request'[a].via = "oauth", request'[a].pc = "subscribe"
               PROVE  DefaultPage(request[a].tenant)' = request'[a].pages[1]
    BY DEF FirstPageIsDefault
  <2>1. /\ a \notin disturbed /\ request[a].via = "oauth" /\ request[a].pc = "subscribe"
        /\ request'[a].tenant = request[a].tenant /\ request'[a].pages = request[a].pages
    BY <1>1
  <2>2. DefaultPage(request[a].tenant)' = DefaultPage(request[a].tenant)
    BY <2>1 DEF DefaultPage
  <2>3. DefaultPage(request[a].tenant) = request[a].pages[1]
    BY <2>1 DEF SlotsInv, FirstPageIsDefault
  <2> QED BY <2>1, <2>2, <2>3
<1> QED BY <1>2, <1>3, <1>4, <1>5, <1>6 DEF SlotsInv

LEMMA SlotsInvFacts ==
    ASSUME SlotsInv, NEW r \in Requests
    PROVE  /\ RecordOK(request[r]) /\ DOMAIN request = Requests /\ DOMAIN request[r] = DOMAIN Idle
           /\ TablesOK /\ HistoryOK /\ RecordOK(Idle) /\ Idle.pc = "idle"
PROOF
<1>1. RecordOK(Idle) /\ Idle.pc = "idle"
  BY DEF RecordOK, Idle
<1> QED BY <1>1 DEF SlotsInv, RecordsOK, RecordOK

LEMMA EndKeeps ==
    ASSUME SlotsInv, NEW r \in Requests, Ends(r),
           accounts' = accounts, webhooks' \in [Tenants -> SUBSET Hook], plan' = plan,
           subscribed' \subseteq Pages, starts' = starts, faults' \in 0..MaxFaults,
           excused \subseteq excused', excused' \subseteq Tenants, hooked' = hooked, clashed' = clashed
    PROVE  SlotsInv'
PROOF
<1>1. RecordOK(Idle) /\ Idle.pc = "idle" /\ HistoryOK
  BY SlotsInvFacts
<1>2. request' = [request EXCEPT ![r] = Idle] /\ disturbed' = disturbed \ {r}
  BY DEF Ends
<1> DEFINE q == Idle
<1>3. RecordOK(q) /\ q.pc = "idle" /\ request' = [request EXCEPT ![r] = q] /\ ~Holds(q)
  BY <1>1, <1>2 DEF Holds
<1>4. /\ starts' \in 0..MaxStarts /\ hooked' \subseteq Tenants /\ clashed' \subseteq Tenants
      /\ disturbed' \subseteq Requests /\ disturbed \ {r} \subseteq disturbed'
  BY <1>1, <1>2 DEF HistoryOK
<1> HIDE DEF q
<1> QED BY <1>3, <1>4, TurnKeeps

LEMMA StartKeeps ==
    ASSUME SlotsInv, NEW r \in Requests, NEW t \in Tenants, NEW via \in {"oauth", "connect", "token"},
           NEW a, via # "oauth" => a \in Accounts, via = "token" => a \in Pages, Start(r, t, via, a)
    PROVE  SlotsInv'
PROOF
<1> DEFINE q == [Idle EXCEPT !.pc = IF via = "oauth" THEN "exchange" ELSE "slot",
                             !.via = via, !.tenant = t, !.limit = PlanLimit(t), !.asked = a]
<1>1. /\ request' = [request EXCEPT ![r] = q] /\ starts' = starts + 1 /\ starts < MaxStarts
      /\ accounts' = accounts /\ webhooks' = webhooks /\ plan' = plan /\ subscribed' = subscribed
      /\ faults' = faults /\ excused' = excused /\ hooked' = hooked /\ clashed' = clashed
      /\ disturbed' = disturbed
  BY DEF Start, tables, history, hookHistory
<1>2. TablesOK /\ HistoryOK
  BY SlotsInvFacts
<1>3. /\ DOMAIN q = DOMAIN Idle /\ q.pc = IF via = "oauth" THEN "exchange" ELSE "slot"
      /\ q.via = via /\ q.tenant = t /\ q.limit = PlanLimit(t) /\ q.asked = a
  BY DEF Idle
<1> HIDE DEF q
<1>4. RecordOK(q) /\ ~Holds(q) /\ q.pc # "subscribe"
  BY <1>3 DEF RecordOK, Holds
<1>5. plan[q.tenant] # "agency" => q.limit = Limit
  BY <1>3 DEF PlanLimit
<1>6. /\ starts' \in 0..MaxStarts /\ faults' \in 0..MaxFaults /\ excused' \subseteq Tenants
      /\ hooked' \subseteq Tenants /\ clashed' \subseteq Tenants /\ disturbed' \subseteq Requests
      /\ webhooks' \in [Tenants -> SUBSET Hook] /\ subscribed' \subseteq Pages
  BY <1>1, <1>2, ChannelsAssumption DEF TablesOK, HistoryOK
<1>7. excused \subseteq excused' /\ disturbed \ {r} \subseteq disturbed'
  BY <1>1
<1> QED BY <1>1, <1>4, <1>5, <1>6, <1>7, TurnKeeps

(* A handler that found its slots while nobody of the workspace held any.   *)
LEMMA GrantKeeps ==
    ASSUME SlotsInv, NEW r \in Requests, NEW q, RecordOK(q), request' = [request EXCEPT ![r] = q],
           Holds(q), q.tenant = request[r].tenant, q.tenant \in Tenants,
           ~Holds(request[r]),
           excused' = IF Holding(q.tenant) # {} THEN excused \cup {q.tenant} ELSE excused,
           UNCHANGED <<tables, disturbed, hookHistory, starts, faults>>,
           q.tenant \notin excused' /\ plan[q.tenant] # "agency" =>
               Cardinality(Keys(accounts[q.tenant]) \cup Pending(q)) <= Limit
    PROVE  SlotsInv'
PROOF
<1>1. /\ accounts' = accounts /\ webhooks' = webhooks /\ plan' = plan /\ subscribed' = subscribed
      /\ starts' = starts /\ faults' = faults /\ hooked' = hooked /\ clashed' = clashed
      /\ disturbed' = disturbed
  BY DEF tables, hookHistory
<1>2. TablesOK /\ HistoryOK
  BY SlotsInvFacts
<1>3. /\ starts' \in 0..MaxStarts /\ faults' \in 0..MaxFaults /\ excused' \subseteq Tenants
      /\ hooked' \subseteq Tenants /\ clashed' \subseteq Tenants /\ disturbed' \subseteq Requests
      /\ webhooks' \in [Tenants -> SUBSET Hook] /\ subscribed' \subseteq Pages
  BY <1>1, <1>2 DEF TablesOK, HistoryOK
<1>4. excused \subseteq excused' /\ disturbed \ {r} \subseteq disturbed'
  BY <1>1
<1>5. q.pc # "subscribe" /\ q.pc \notin {"exchange", "slot"}
  BY DEF Holds
<1>6. q.tenant \notin excused' =>
          \A s \in Requests \ {r} : Holds(request[s]) => request[s].tenant # q.tenant
  BY DEF Holding, Holds
<1> QED BY <1>1, <1>3, <1>4, <1>5, <1>6, TurnKeeps

LEMMA CheckSlotKeeps ==
    ASSUME SlotsInv, NEW r \in Requests, CheckSlot(r)
    PROVE  SlotsInv'
PROOF
<1> DEFINE t == request[r].tenant
           a == request[r].asked
           lim == request[r].limit
           q == [request[r] EXCEPT !.pc = IF request[r].via = "token" THEN "resolve" ELSE "save",
                                   !.pages = <<a>>, !.n = 1]
<1>0. RecordOK(request[r]) /\ DOMAIN request = Requests /\ DOMAIN request[r] = DOMAIN Idle
      /\ TablesOK /\ HistoryOK
  BY SlotsInvFacts
<1>1. /\ request[r].pc = "slot" /\ t \in Tenants /\ request[r].via \in {"connect", "token"}
      /\ a \in Accounts /\ (request[r].via = "token" => a \in Pages)
  BY <1>0 DEF CheckSlot, RecordOK
<1>2. /\ excused' = IF Holding(t) # {} THEN excused \cup {t} ELSE excused
      /\ UNCHANGED <<tables, hookHistory, starts, faults>>
  BY DEF CheckSlot
<1>3. CASE ~Granted(Keys(accounts[t]), lim, a)
  <2>1. Ends(r)
    BY <1>3 DEF CheckSlot
  <2>2. /\ excused \subseteq excused' /\ excused' \subseteq Tenants /\ accounts' = accounts
        /\ webhooks' \in [Tenants -> SUBSET Hook] /\ plan' = plan /\ subscribed' \subseteq Pages
        /\ starts' = starts /\ faults' \in 0..MaxFaults /\ hooked' = hooked /\ clashed' = clashed
    BY <1>0, <1>1, <1>2 DEF TablesOK, HistoryOK, tables, hookHistory
  <2> QED BY <2>1, <2>2, EndKeeps
<1>4. CASE Granted(Keys(accounts[t]), lim, a)
  <2>1. request' = [request EXCEPT ![r] = q] /\ disturbed' = disturbed
    BY <1>0, <1>4 DEF CheckSlot
  <2>2. /\ DOMAIN q = DOMAIN Idle /\ q.tenant = t /\ q.asked = a /\ q.via = request[r].via
        /\ q.pages = <<a>> /\ q.n = 1 /\ q.pc = IF q.via = "token" THEN "resolve" ELSE "save"
    BY <1>0 DEF Idle
  <2> HIDE DEF q
  <2>3. RecordOK(q) /\ Holds(q) /\ q.tenant = request[r].tenant
    <3>1. <<a>> \in Seq(Accounts) /\ Len(<<a>>) = 1 /\ 1 \in 1..1
      BY <1>1
    <3> HIDE DEF t, a
    <3>2. q.pc \in {"resolve", "save"} /\ (q.pc = "resolve" <=> q.via = "token") /\ q.via \in {"token", "connect"}
      BY <1>1, <2>2
    <3> QED BY <1>1, <2>2, <3>1, <3>2 DEF RecordOK, Holds, t
  <2>4. ASSUME t \notin excused', plan[t] # "agency"
        PROVE  Cardinality(Keys(accounts[t]) \cup Pending(q)) <= Limit
    <3>1. t \notin excused
      BY <1>2, <2>4
    <3>2. Cardinality(Keys(accounts[t])) <= Limit /\ lim = Limit
      BY <1>1, <2>4, <3>1 DEF SlotsInv, SlotsOK
    <3>3. Pending(q) = {Key(a)}
      <4>1. 1..1 = {1} /\ <<a>>[1] = a
        OBVIOUS
      <4> QED BY <2>2, <4>1 DEF Pending
    <3> DEFINE K == Keys(accounts[t])
               k == Key(a)
    <3>4. IsFiniteSet(K) /\ Cardinality(K) \in Nat /\ Limit \in Nat
      BY KeysAre, FS_CardinalityType, ChannelsAssumption
    <3>5. k \in K \/ Cardinality(K) < Limit
      BY <1>4, <3>2, ChannelsAssumption DEF Granted, NoLimit
    <3>6. Cardinality(K) <= Limit
      BY <3>2
    <3> HIDE DEF K, k
    <3>7. Cardinality(K \cup {k}) = IF k \in K THEN Cardinality(K) ELSE Cardinality(K) + 1
      BY <3>4, FS_AddElement
    <3>8. Cardinality(K \cup {k}) <= Limit
      BY <3>4, <3>5, <3>6, <3>7
    <3> QED BY <3>3, <3>8 DEF K, k
  <2>5. ~Holds(request[r])
    BY <1>1 DEF Holds
  <2>6. /\ excused' = IF Holding(q.tenant) # {} THEN excused \cup {q.tenant} ELSE excused
        /\ UNCHANGED <<tables, disturbed, hookHistory, starts, faults>>
        /\ (q.tenant \notin excused' /\ plan[q.tenant] # "agency" =>
                Cardinality(Keys(accounts[q.tenant]) \cup Pending(q)) <= Limit)
        /\ q.tenant \in Tenants
    BY <1>1, <1>2, <2>1, <2>2, <2>4
  <2> QED BY <2>1, <2>3, <2>5, <2>6, GrantKeeps
<1> QED BY <1>3, <1>4

LEMMA ListPagesKeeps ==
    ASSUME SlotsInv, NEW r \in Requests, NEW list \in Lists, ListPages(r, list)
    PROVE  SlotsInv'
PROOF
<1> DEFINE t == request[r].tenant
           lim == request[r].limit
           usable == Usable(accounts[t], lim, list)
           q == [request[r] EXCEPT !.pc = "save", !.pages = usable, !.n = Len(usable)]
<1>0. RecordOK(request[r]) /\ DOMAIN request = Requests /\ DOMAIN request[r] = DOMAIN Idle
      /\ TablesOK /\ HistoryOK
  BY SlotsInvFacts
<1>1. request[r].pc = "exchange" /\ t \in Tenants
  BY <1>0 DEF ListPages, RecordOK
<1>2. /\ excused' = IF Holding(t) # {} THEN excused \cup {t} ELSE excused
      /\ UNCHANGED <<tables, hookHistory, starts, faults>>
  BY DEF ListPages
<1>3. CASE usable = <<>>
  <2>1. Ends(r)
    BY <1>3 DEF ListPages
  <2>2. /\ excused \subseteq excused' /\ excused' \subseteq Tenants /\ accounts' = accounts
        /\ webhooks' \in [Tenants -> SUBSET Hook] /\ plan' = plan /\ subscribed' \subseteq Pages
        /\ starts' = starts /\ faults' \in 0..MaxFaults /\ hooked' = hooked /\ clashed' = clashed
    BY <1>0, <1>1, <1>2 DEF TablesOK, HistoryOK, tables, hookHistory
  <2> QED BY <2>1, <2>2, EndKeeps
<1>4. CASE usable # <<>>
  <2>0. request' = [request EXCEPT ![r] = q] /\ disturbed' = disturbed
    BY <1>0, <1>4 DEF ListPages
  <2>1. /\ usable \in Seq(Pages)
        /\ lim \in Nat /\ Cardinality(Keys(accounts[t])) <= lim =>
               Cardinality(Keys(accounts[t]) \cup Members(usable)) <= lim
    <3>1. list \in Seq(Pages) /\ Unique(list) /\ IsFiniteSet(Keys(accounts[t]))
      BY ListsAre, KeysAre
    <3> QED BY <3>1, UsablePages
  <2> HIDE DEF usable
  <2>2. /\ DOMAIN q = DOMAIN Idle /\ q.tenant = t /\ q.pages = usable
        /\ q.n = Len(usable) /\ q.pc = "save"
    BY <1>0 DEF Idle
  <2> HIDE DEF q
  <2>3. RecordOK(q) /\ Holds(q) /\ q.tenant = request[r].tenant
    <3>1. usable \in Seq(Accounts) /\ Len(usable) \in 1..Len(usable)
      BY <1>4, <2>1 DEF Accounts
    <3> QED BY <1>1, <2>1, <2>2, <3>1 DEF RecordOK, Holds
  <2>4. ASSUME t \notin excused', plan[t] # "agency"
        PROVE  Cardinality(Keys(accounts[t]) \cup Pending(q)) <= Limit
    <3>1. t \notin excused
      BY <1>2, <2>4
    <3>2. Cardinality(Keys(accounts[t])) <= Limit /\ lim = Limit /\ Limit \in Nat
      BY <1>1, <2>4, <3>1, ChannelsAssumption DEF SlotsInv, SlotsOK
    <3>3. Pending(q) = Members(usable)
      <4>1. \A i \in 1..Len(usable) : Key(usable[i]) = usable[i]
        BY <2>1 DEF Key
      <4> QED BY <2>2, <4>1 DEF Pending, Members
    <3> QED BY <2>1, <3>2, <3>3
  <2>5. ~Holds(request[r])
    BY <1>1 DEF Holds
  <2>6. /\ excused' = IF Holding(q.tenant) # {} THEN excused \cup {q.tenant} ELSE excused
        /\ UNCHANGED <<tables, disturbed, hookHistory, starts, faults>>
        /\ (q.tenant \notin excused' /\ plan[q.tenant] # "agency" =>
                Cardinality(Keys(accounts[q.tenant]) \cup Pending(q)) <= Limit)
        /\ q.tenant \in Tenants
    BY <1>1, <1>2, <2>0, <2>2, <2>4
  <2> QED BY <2>0, <2>3, <2>5, <2>6, GrantKeeps
<1> QED BY <1>3, <1>4

LEMMA ResolveKeeps ==
    ASSUME SlotsInv, NEW r \in Requests, NEW page \in Pages, Resolve(r, page)
    PROVE  SlotsInv'
PROOF
<1> DEFINE t == request[r].tenant
           q == [request[r] EXCEPT !.pc = "save", !.pages = <<page>>]
<1>0. RecordOK(request[r]) /\ DOMAIN request = Requests /\ DOMAIN request[r] = DOMAIN Idle
      /\ TablesOK /\ HistoryOK
  BY SlotsInvFacts
<1>1. /\ request[r].pc = "resolve" /\ t \in Tenants /\ request[r].asked \in Pages
      /\ request[r].pages = <<request[r].asked>> /\ request[r].n = 1
  BY <1>0 DEF Resolve, RecordOK
<1>2. /\ request' = [request EXCEPT ![r] = q]
      /\ excused' = IF page # request[r].asked THEN excused \cup {t} ELSE excused
      /\ accounts' = accounts /\ webhooks' = webhooks /\ plan' = plan /\ subscribed' = subscribed
      /\ starts' = starts /\ faults' = faults /\ hooked' = hooked /\ clashed' = clashed
      /\ disturbed' = disturbed
  BY <1>0 DEF Resolve, tables, hookHistory
<1>3. /\ DOMAIN q = DOMAIN Idle /\ q.tenant = t /\ q.pages = <<page>> /\ q.n = 1 /\ q.pc = "save"
  BY <1>0, <1>1 DEF Idle
<1> HIDE DEF q
<1>4. RecordOK(q) /\ Holds(q) /\ q.pc # "subscribe" /\ q.pc \notin {"exchange", "slot"}
  <2>1. <<page>> \in Seq(Accounts) /\ <<page>> \in Seq(Pages) /\ 1 \in 1..Len(<<page>>)
    BY DEF Accounts
  <2> QED BY <1>1, <1>3, <2>1 DEF RecordOK, Holds
<1>5. ASSUME t \notin excused'
      PROVE  /\ \A s \in Requests \ {r} : Holds(request[s]) => request[s].tenant # t
             /\ plan[t] # "agency" => Cardinality(Keys(accounts[t]) \cup Pending(q)) <= Limit
  <2>1. t \notin excused /\ page = request[r].asked
    BY <1>2, <1>5
  <2>2. Pending(q) = Pending(request[r])
    BY <1>1, <1>3, <2>1 DEF Pending
  <2>3. Holds(request[r])
    BY <1>1 DEF Holds
  <2> QED BY <1>1, <2>1, <2>2, <2>3 DEF SlotsInv, SlotsOK
<1>6. /\ starts' \in 0..MaxStarts /\ faults' \in 0..MaxFaults /\ excused' \subseteq Tenants
      /\ hooked' \subseteq Tenants /\ clashed' \subseteq Tenants /\ disturbed' \subseteq Requests
      /\ webhooks' \in [Tenants -> SUBSET Hook] /\ subscribed' \subseteq Pages
      /\ excused \subseteq excused' /\ disturbed \ {r} \subseteq disturbed'
  BY <1>0, <1>1, <1>2 DEF TablesOK, HistoryOK
<1> QED BY <1>2, <1>3, <1>4, <1>5, <1>6, TurnKeeps

(* A handler that goes on without a slot, or with the Pages it saved.       *)
LEMMA GoesOnKeeps ==
    ASSUME SlotsInv, NEW r \in Requests, NEW q, RecordOK(q), request' = [request EXCEPT ![r] = q],
           q.pc \in {"test", "attach", "list", "delete", "subscribe"},
           q.pc = "subscribe" =>
               /\ request[r].pc = "subscribe" /\ q.via = request[r].via
               /\ q.tenant = request[r].tenant /\ q.pages = request[r].pages,
           accounts' = accounts, webhooks' \in [Tenants -> SUBSET Hook], plan' = plan,
           subscribed' \subseteq Pages, starts' \in 0..MaxStarts, faults' = faults,
           excused' = excused, hooked' \subseteq Tenants, clashed' \subseteq Tenants,
           disturbed' = disturbed
    PROVE  SlotsInv'
PROOF
<1>1. TablesOK /\ HistoryOK
  BY SlotsInvFacts
<1>2. ~Holds(q) /\ q.pc \notin {"exchange", "slot"}
  BY DEF Holds
<1>3. /\ faults' \in 0..MaxFaults /\ excused' \subseteq Tenants /\ disturbed' \subseteq Requests
      /\ excused \subseteq excused' /\ disturbed \ {r} \subseteq disturbed'
      /\ r \in disturbed => r \in disturbed'
  BY <1>1 DEF HistoryOK
<1> QED BY <1>2, <1>3, TurnKeeps

LEMMA SubscribePageKeeps ==
    ASSUME SlotsInv, NEW r \in Requests, SubscribePage(r)
    PROVE  SlotsInv'
PROOF
<1> DEFINE q == [request[r] EXCEPT !.n = request[r].n + 1]
           page == request[r].pages[request[r].n + 1]
<1>0. RecordOK(request[r]) /\ DOMAIN request = Requests /\ DOMAIN request[r] = DOMAIN Idle
      /\ TablesOK /\ HistoryOK
  BY SlotsInvFacts
<1>1. /\ request[r].pc = "subscribe" /\ request[r].tenant \in Tenants
      /\ request[r].pages \in Seq(Pages) /\ request[r].n \in 0..Len(request[r].pages) - 1
  BY <1>0 DEF SubscribePage, RecordOK
<1>2. page \in Pages
  BY <1>1
<1> HIDE DEF page
<1>3. /\ accounts' = accounts /\ webhooks' = webhooks /\ plan' = plan
      /\ (subscribed' = subscribed \cup {page} \/ subscribed' = subscribed)
      /\ starts' = starts /\ faults' = faults /\ hooked' = hooked /\ clashed' = clashed
      /\ excused' = excused
  BY DEF SubscribePage, hookHistory, page
<1>4. /\ webhooks' \in [Tenants -> SUBSET Hook] /\ subscribed' \subseteq Pages
      /\ starts' \in 0..MaxStarts /\ faults' \in 0..MaxFaults
      /\ hooked' \subseteq Tenants /\ clashed' \subseteq Tenants
      /\ excused' \subseteq Tenants /\ excused \subseteq excused'
  BY <1>0, <1>2, <1>3 DEF TablesOK, HistoryOK
<1>5. CASE request[r].n + 1 = Len(request[r].pages)
  <2>1. Ends(r)
    BY <1>5 DEF SubscribePage
  <2> QED BY <1>3, <1>4, <2>1, EndKeeps
<1>6. CASE request[r].n + 1 # Len(request[r].pages)
  <2>1. request' = [request EXCEPT ![r] = q] /\ disturbed' = disturbed
    BY <1>0, <1>6 DEF SubscribePage, Set
  <2>2. /\ DOMAIN q = DOMAIN Idle /\ q.tenant = request[r].tenant /\ q.via = request[r].via
        /\ q.pages = request[r].pages /\ q.n = request[r].n + 1 /\ q.pc = "subscribe"
    BY <1>0, <1>1 DEF Idle
  <2> HIDE DEF q
  <2>3. q.n \in 0..Len(q.pages) - 1
    BY <1>1, <1>6, <2>2
  <2>4. RecordOK(q)
    BY <1>1, <2>2, <2>3 DEF RecordOK
  <2> QED BY <1>1, <1>3, <1>4, <2>1, <2>2, <2>4, GoesOnKeeps
<1> QED BY <1>5, <1>6

LEMMA NotifyingKeepsSlots ==
    ASSUME SlotsInv, NEW r \in Requests, Notifying(r)
    PROVE  SlotsInv'
PROOF
<1>0. RecordOK(request[r]) /\ DOMAIN request = Requests /\ DOMAIN request[r] = DOMAIN Idle
      /\ TablesOK /\ HistoryOK
  BY SlotsInvFacts
<1>1. ASSUME NEW t \in Tenants, NEW h \in Hooks, StartHook(r, t, h) \/ StartAttach(r, t, h)
      PROVE  SlotsInv'
  <2> PICK way \in {<<"test", "hook">>, <<"attach", "connect">>} :
        /\ request' = [request EXCEPT ![r] = [Idle EXCEPT !.pc = way[1], !.via = way[2],
                                                  !.tenant = t, !.asked = h, !.n = starts + 1]]
        /\ starts' = starts + 1 /\ starts < MaxStarts /\ UNCHANGED <<tables, history, faults>>
    BY <1>1 DEF StartHook, StartAttach
  <2> DEFINE q == [Idle EXCEPT !.pc = way[1], !.via = way[2], !.tenant = t, !.asked = h, !.n = starts + 1]
  <2>1. /\ request' = [request EXCEPT ![r] = q] /\ starts' = starts + 1 /\ starts < MaxStarts
        /\ accounts' = accounts /\ webhooks' = webhooks /\ plan' = plan /\ subscribed' = subscribed
        /\ faults' = faults /\ hooked' = hooked /\ clashed' = clashed
        /\ excused' = excused /\ disturbed' = disturbed
    BY DEF tables, history, hookHistory
  <2>2. /\ starts' \in 0..MaxStarts /\ starts + 1 \in Nat /\ hooked' \subseteq Tenants
        /\ clashed' \subseteq Tenants /\ webhooks' \in [Tenants -> SUBSET Hook]
        /\ subscribed' \subseteq Pages
    BY <1>0, <2>1, ChannelsAssumption DEF HistoryOK, TablesOK
  <2>3. /\ DOMAIN q = DOMAIN Idle /\ q.pc \in {"test", "attach"} /\ q.tenant = t /\ q.asked = h /\ q.n = starts + 1
    BY DEF Idle
  <2> HIDE DEF q
  <2>4. RecordOK(q)
    BY <2>2, <2>3 DEF RecordOK
  <2> QED BY <2>1, <2>2, <2>3, <2>4, GoesOnKeeps
<1>2. ASSUME SaveHook(r) PROVE SlotsInv'
  <2> DEFINE q == [request[r] EXCEPT !.pc = "list"]
             t == request[r].tenant
             rows == SavedHook(webhooks[t], request[r].asked, request[r].n)
  <2>1. /\ request[r].pc = "test" /\ t \in Tenants /\ request[r].asked \in Hooks /\ request[r].n \in Nat
    BY <1>0, <1>2 DEF SaveHook, RecordOK
  <2>2. /\ request' = [request EXCEPT ![r] = q]
        /\ webhooks' = [webhooks EXCEPT ![t] = rows]
        /\ hooked' = hooked \cup {t} /\ (clashed' = clashed \cup {t} \/ clashed' = clashed)
        /\ accounts' = accounts /\ plan' = plan /\ subscribed' = subscribed
        /\ starts' = starts /\ faults' = faults /\ excused' = excused /\ disturbed' = disturbed
    BY <1>0, <1>2 DEF SaveHook, Set
  <2>3. [hook |-> request[r].asked, id |-> request[r].n] \in Hook
    BY <2>1 DEF Hook
  <2>4. rows \subseteq webhooks[t] \cup {[hook |-> request[r].asked, id |-> request[r].n]}
    BY DEF SavedHook
  <2>5. rows \in SUBSET Hook
    BY <1>0, <2>1, <2>3, <2>4 DEF TablesOK
  <2> HIDE DEF rows
  <2>6. /\ starts' \in 0..MaxStarts /\ hooked' \subseteq Tenants /\ clashed' \subseteq Tenants
        /\ webhooks' \in [Tenants -> SUBSET Hook] /\ subscribed' \subseteq Pages
    BY <1>0, <2>1, <2>2, <2>5 DEF TablesOK, HistoryOK
  <2>7. DOMAIN q = DOMAIN Idle /\ q.pc = "list" /\ q.tenant = t
    BY <1>0 DEF Idle
  <2> HIDE DEF q
  <2>8. RecordOK(q)
    BY <2>1, <2>7 DEF RecordOK
  <2> QED BY <2>2, <2>6, <2>7, <2>8, GoesOnKeeps
<1>3. ASSUME ListHooks(r) \/ DeleteHook(r), ~Ends(r) PROVE SlotsInv'
  <2>1. request[r].pc \in {"list", "delete"} /\ request[r].tenant \in Tenants
    BY <1>0, <1>3 DEF RecordOK, ListHooks, DeleteHook
  <2>2. PICK ids : request' = [request EXCEPT ![r] = [request[r] EXCEPT !.pc = "delete", !.ids = ids]]
                   /\ disturbed' = disturbed
    <3>1. CASE ListHooks(r)
      BY <1>0, <1>3, <3>1 DEF ListHooks
    <3>2. CASE DeleteHook(r)
      <4>1. PICK id : request' = [request EXCEPT ![r]["ids"] = request[r].ids \ {id}]
                      /\ disturbed' = disturbed /\ request[r].pc = "delete"
        BY <1>3, <3>2 DEF DeleteHook, Set
      <4>2. [request[r] EXCEPT !.ids = request[r].ids \ {id}]
                = [request[r] EXCEPT !.pc = "delete", !.ids = request[r].ids \ {id}]
        BY <1>0, <4>1 DEF Idle
      <4>3. request' = [request EXCEPT ![r] = [request[r] EXCEPT !.ids = request[r].ids \ {id}]]
        BY <1>0, <4>1
      <4> QED BY <4>1, <4>2, <4>3
    <3> QED BY <1>3, <3>1, <3>2
  <2> DEFINE q == [request[r] EXCEPT !.pc = "delete", !.ids = ids]
  <2>3. DOMAIN q = DOMAIN Idle /\ q.pc = "delete" /\ q.tenant = request[r].tenant
    BY <1>0 DEF Idle
  <2>4. request' = [request EXCEPT ![r] = q] /\ disturbed' = disturbed
    BY <2>2
  <2> HIDE DEF q
  <2>5. RecordOK(q)
    BY <2>1, <2>3 DEF RecordOK
  <2>6. /\ accounts' = accounts /\ plan' = plan /\ subscribed' = subscribed
        /\ starts' = starts /\ faults' = faults /\ excused' = excused
        /\ hooked' = hooked /\ clashed' = clashed
    BY <1>3 DEF ListHooks, DeleteHook, tables, hookHistory
  <2>7. webhooks' \in [Tenants -> SUBSET Hook]
    BY <1>0, <1>3 DEF ListHooks, DeleteHook, tables, TablesOK
  <2>8. /\ starts' \in 0..MaxStarts /\ hooked' \subseteq Tenants /\ clashed' \subseteq Tenants
        /\ subscribed' \subseteq Pages
    BY <1>0, <2>6 DEF TablesOK, HistoryOK
  <2> QED BY <2>3, <2>4, <2>5, <2>6, <2>7, <2>8, GoesOnKeeps
<1>4. ASSUME ListHooks(r) \/ DeleteHook(r), Ends(r) PROVE SlotsInv'
  <2>1. /\ accounts' = accounts /\ plan' = plan /\ subscribed' = subscribed
        /\ starts' = starts /\ faults' = faults /\ excused' = excused
        /\ hooked' = hooked /\ clashed' = clashed
    BY <1>4 DEF ListHooks, DeleteHook, tables, hookHistory
  <2>2. webhooks' \in [Tenants -> SUBSET Hook]
    BY <1>0, <1>4 DEF ListHooks, DeleteHook, tables, TablesOK
  <2>3. /\ excused \subseteq excused' /\ excused' \subseteq Tenants /\ faults' \in 0..MaxFaults
        /\ subscribed' \subseteq Pages
    BY <1>0, <2>1 DEF TablesOK, HistoryOK
  <2> QED BY <1>4, <2>1, <2>2, <2>3, EndKeeps
<1>5. ASSUME AttachHook(r) PROVE SlotsInv'
  <2> DEFINE t == request[r].tenant
             new == [hook |-> request[r].asked, id |-> request[r].n]
             rows == SavedHook(webhooks[t], request[r].asked, request[r].n)
  <2>1. t \in Tenants /\ new \in Hook
    BY <1>0, <1>5 DEF AttachHook, RecordOK, Hook
  <2>2. rows \subseteq webhooks[t] \cup {new}
    BY DEF SavedHook
  <2>3. rows \in SUBSET Hook
    BY <1>0, <2>1, <2>2 DEF TablesOK
  <2>4. webhooks' = [webhooks EXCEPT ![t] = rows]
    BY <1>5 DEF AttachHook
  <2> HIDE DEF rows, t, new
  <2>5. webhooks' \in [Tenants -> SUBSET Hook]
    BY <1>0, <2>1, <2>3, <2>4 DEF TablesOK
  <2>6. /\ Ends(r) /\ accounts' = accounts /\ plan' = plan /\ subscribed' = subscribed
        /\ starts' = starts /\ faults' = faults /\ excused' = excused
        /\ hooked' = hooked /\ clashed' = clashed
    BY <1>5 DEF AttachHook
  <2>7. /\ excused \subseteq excused' /\ excused' \subseteq Tenants /\ faults' \in 0..MaxFaults
        /\ subscribed' \subseteq Pages
    BY <1>0, <2>6 DEF TablesOK, HistoryOK
  <2> QED BY <2>5, <2>6, <2>7, EndKeeps
<1> QED BY <1>1, <1>2, <1>3, <1>4, <1>5 DEF Notifying

(* A save takes one of the slots its handler holds.                         *)
LEMMA SavePageKeeps ==
    ASSUME SlotsInv, NEW r \in Requests, SavePage(r)
    PROVE  SlotsInv'
PROOF
<1> DEFINE old == request[r]
           u == old.tenant
           a == old.pages[old.n]
           q == IF old.n > 1 THEN [old EXCEPT !.n = old.n - 1]
                ELSE IF old.via = "connect" THEN Idle ELSE [old EXCEPT !.n = 0, !.pc = "subscribe"]
           rows == Saved(accounts[u], a)
<1>0. RecordOK(old) /\ DOMAIN request = Requests /\ DOMAIN old = DOMAIN Idle
      /\ TablesOK /\ HistoryOK /\ RecordOK(Idle) /\ Idle.pc = "idle"
  BY SlotsInvFacts
<1>1. /\ old.pc = "save" /\ u \in Tenants /\ old.pages \in Seq(Accounts)
      /\ old.n \in 1..Len(old.pages) /\ (old.via # "connect" => old.pages \in Seq(Pages))
  BY <1>0 DEF SavePage, RecordOK
<1>2. a \in Accounts /\ accounts[u] \in Seq(Accounts) /\ Unique(accounts[u]) /\ Holds(old)
  BY <1>0, <1>1 DEF TablesOK, Holds
<1>3. /\ request' = [request EXCEPT ![r] = q]
      /\ accounts' = [accounts EXCEPT ![u] = rows]
      /\ (disturbed \cup OnTenant(u)) \ {r} \subseteq disturbed'
      /\ disturbed' \subseteq disturbed \cup OnTenant(u)
      /\ webhooks' = webhooks /\ plan' = plan /\ subscribed' = subscribed /\ excused' = excused
      /\ hooked' = hooked /\ clashed' = clashed /\ starts' = starts /\ faults' = faults
  BY <1>0, <1>1 DEF SavePage, EndsAfter, hookHistory
<1>4. /\ rows \in Seq(Accounts) /\ Unique(rows) /\ rows # <<>> /\ rows[1] = a
      /\ Keys(rows) = Keys(accounts[u]) \cup {Key(a)}
  <2> DEFINE own == accounts[u]
  <2>1. own \in Seq(Accounts) /\ Unique(own) /\ a \in Accounts
    BY <1>2
  <2> HIDE DEF own, a
  <2>2. /\ Saved(own, a) \in Seq(Accounts) /\ Unique(Saved(own, a))
        /\ Saved(own, a) # <<>> /\ Saved(own, a)[1] = a
    BY <2>1, SavedRows
  <2>3. Keys(Saved(own, a)) = Keys(own) \cup {Key(a)}
    BY <2>1, KeysSaved
  <2> QED BY <2>2, <2>3 DEF own
<1>5. Key(a) \in Pending(old)
  BY <1>1 DEF Pending
<1>6. Holds(q) => old.n > 1 /\ Pending(q) \subseteq Pending(old) /\ q.tenant = u
  <2>1. CASE old.n > 1
    <3>1. q.n = old.n - 1 /\ q.pages = old.pages /\ q.tenant = u
      BY <1>0, <2>1 DEF Idle
    <3> HIDE DEF q
    <3> QED BY <1>1, <2>1, <3>1 DEF Pending
  <2>2. CASE ~(old.n > 1)
    <3>1. q.pc \in {"idle", "subscribe"}
      BY <1>0, <2>2 DEF Idle
    <3> QED BY <3>1 DEF Holds
  <2> QED BY <2>1, <2>2
<1>7. RecordOK(q) /\ q.pc \notin {"exchange", "slot"}
  <2>1. CASE old.n > 1
    <3>1. /\ DOMAIN q = DOMAIN Idle /\ q.n = old.n - 1 /\ q.pages = old.pages /\ q.tenant = u
          /\ q.pc = "save" /\ q.via = old.via
      BY <1>0, <1>1, <2>1 DEF Idle
    <3>2. q.n \in 1..Len(q.pages)
      BY <1>1, <2>1, <3>1
    <3> HIDE DEF q
    <3> QED BY <1>1, <3>1, <3>2 DEF RecordOK
  <2>2. CASE ~(old.n > 1) /\ old.via = "connect"
    BY <1>0, <2>2
  <2>3. CASE ~(old.n > 1) /\ old.via # "connect"
    <3>1. /\ DOMAIN q = DOMAIN Idle /\ q.n = 0 /\ q.pages = old.pages /\ q.tenant = u
          /\ q.pc = "subscribe"
      BY <1>0, <1>1, <2>3 DEF Idle
    <3>2. 0 \in 0..Len(old.pages) - 1
      BY <1>1
    <3> HIDE DEF q
    <3> QED BY <1>1, <2>3, <3>1, <3>2 DEF RecordOK
  <2> QED BY <2>1, <2>2, <2>3
<1>8. q.pc = "subscribe" => q.pages = old.pages /\ q.tenant = u /\ a = q.pages[1] /\ a \in Pages
  <2>1. CASE ~(old.n > 1) /\ old.via # "connect"
    <3>1. old.n = 1 /\ q.pages = old.pages /\ q.tenant = u
      BY <1>0, <1>1, <2>1 DEF Idle
    <3> QED BY <1>1, <2>1, <3>1
  <2>2. CASE old.n > 1 \/ old.via = "connect"
    <3>1. q.pc # "subscribe"
      BY <1>0, <1>1, <2>2 DEF Idle
    <3> QED BY <3>1
  <2> QED BY <2>1, <2>2
<1> HIDE DEF q, rows, a
<1>9. /\ request'[r] = q /\ DOMAIN request' = Requests
      /\ \A s \in Requests \ {r} : request'[s] = request[s]
  BY <1>0, <1>3
<1>10. /\ accounts'[u] = rows /\ accounts' \in [Tenants -> Seq(Accounts)]
       /\ \A t \in Tenants \ {u} : accounts'[t] = accounts[t]
  BY <1>0, <1>1, <1>3, <1>4 DEF TablesOK
<1>11. TablesOK'
  BY <1>0, <1>3, <1>4, <1>10 DEF TablesOK
<1>12. HistoryOK'
  BY <1>0, <1>3 DEF HistoryOK, OnTenant
<1>13. RecordsOK'
  BY <1>7, <1>9 DEF SlotsInv, RecordsOK
<1>14. SlotsOK'
  <2> SUFFICES ASSUME NEW t \in Tenants, t \notin excused
               PROVE  /\ \A x, y \in Requests : Holds(request'[x]) /\ Holds(request'[y])
                             /\ request'[x].tenant = t /\ request'[y].tenant = t => x = y
                      /\ plan[t] # "agency" =>
                             /\ Cardinality(Keys(accounts'[t])) <= Limit
                             /\ \A x \in Requests : request'[x].tenant = t =>
                                   /\ request'[x].pc \in {"exchange", "slot"} => request'[x].limit = Limit
                                   /\ Holds(request'[x]) =>
                                          Cardinality(Keys(accounts'[t]) \cup Pending(request'[x])) <= Limit
    BY <1>3 DEF SlotsOK
  <2>1. /\ \A x, y \in Requests : Holds(request[x]) /\ Holds(request[y])
               /\ request[x].tenant = t /\ request[y].tenant = t => x = y
        /\ plan[t] # "agency" =>
               /\ Cardinality(Keys(accounts[t])) <= Limit
               /\ \A x \in Requests : request[x].tenant = t =>
                     /\ request[x].pc \in {"exchange", "slot"} => request[x].limit = Limit
                     /\ Holds(request[x]) =>
                            Cardinality(Keys(accounts[t]) \cup Pending(request[x])) <= Limit
    BY DEF SlotsInv, SlotsOK
  <2>2. \A x \in Requests : Holds(request'[x]) => Holds(request[x]) /\ request'[x].tenant = request[x].tenant
    BY <1>2, <1>6, <1>9
  <2>3. \A x, y \in Requests : Holds(request'[x]) /\ Holds(request'[y])
               /\ request'[x].tenant = t /\ request'[y].tenant = t => x = y
    BY <2>1, <2>2
  <2>4. CASE t # u
    <3>1. accounts'[t] = accounts[t]
      BY <1>10, <2>4
    <3>2. \A x \in Requests : request'[x].tenant = t /\ x = r => ~Holds(request'[x]) /\ request'[x].pc \notin {"exchange", "slot"}
      BY <1>6, <1>7, <1>9, <2>4
    <3>3. \A x \in Requests : x # r => request'[x] = request[x]
      BY <1>9
    <3> QED BY <2>1, <2>3, <3>1, <3>2, <3>3
  <2>5. CASE t = u
    <3> SUFFICES ASSUME plan[u] # "agency"
                 PROVE  /\ Cardinality(Keys(rows)) <= Limit
                        /\ \A x \in Requests : request'[x].tenant = t =>
                              /\ request'[x].pc \in {"exchange", "slot"} => request'[x].limit = Limit
                              /\ Holds(request'[x]) =>
                                     Cardinality(Keys(rows) \cup Pending(request'[x])) <= Limit
      BY <1>10, <2>3, <2>5
    <3> DEFINE T == Keys(accounts[u]) \cup Pending(old)
    <3>1. Cardinality(T) <= Limit
      BY <1>2, <2>1, <2>5
    <3>2. Pending(old) \subseteq Pages \cup {ApiPlatform}
      BY DEF Pending, Key
    <3>3. T \subseteq Pages \cup {ApiPlatform} /\ Keys(rows) \subseteq T
      BY <1>4, <1>5, <3>2, KeysAre
    <3>4. Holds(q) => Keys(rows) \cup Pending(q) \subseteq T
      BY <1>6, <3>3
    <3> HIDE DEF T
    <3>5. Cardinality(Keys(rows)) <= Limit
      BY <3>1, <3>3, FewerKeys
    <3>6. Holds(q) => Cardinality(Keys(rows) \cup Pending(q)) <= Limit
      BY <3>1, <3>3, <3>4, FewerKeys
    <3>7. ASSUME NEW x \in Requests, request'[x].tenant = t
          PROVE  /\ request'[x].pc \in {"exchange", "slot"} => request'[x].limit = Limit
                 /\ Holds(request'[x]) => Cardinality(Keys(rows) \cup Pending(request'[x])) <= Limit
      <4>1. CASE x = r
        BY <1>7, <1>9, <3>6, <4>1
      <4>2. CASE x # r
        <5>1. request'[x] = request[x]
          BY <1>9, <4>2
        <5>2. ~Holds(request[x])
          BY <1>2, <2>1, <2>5, <3>7, <4>2, <5>1
        <5> QED BY <2>1, <2>5, <3>7, <5>1, <5>2
      <4> QED BY <4>1, <4>2
    <3> QED BY <3>5, <3>7
  <2> QED BY <2>4, <2>5
<1>15. FirstPageIsDefault'
  <2> SUFFICES ASSUME NEW x \in Requests, x \notin disturbed',
                      request'[x].via = "oauth", request'[x].pc = "subscribe"
               PROVE  DefaultPage(request[x].tenant)' = request'[x].pages[1]
    BY DEF FirstPageIsDefault
  <2>1. CASE x = r
    <3>1. request'[x].tenant = u /\ a = request'[x].pages[1] /\ a \in Pages
      BY <1>8, <1>9, <2>1
    <3>2. Without(rows, ApiAccounts) # <<>> /\ Head(Without(rows, ApiAccounts)) = a
      <4>1. a \notin ApiAccounts
        BY <3>1, ChannelsAssumption
      <4> QED BY <1>4, <4>1, WithoutRows
    <3>3. DefaultPage(request[x].tenant)' = a
      BY <1>10, <3>1, <3>2 DEF DefaultPage
    <3> QED BY <3>1, <3>3
  <2>2. CASE x # r
    <3>1. request'[x] = request[x] /\ x \notin disturbed
      BY <1>3, <1>9, <2>2
    <3>2. request[x].tenant # u
      BY <1>3, <2>2 DEF OnTenant
    <3>3. request[x].tenant \in Tenants
      BY <3>1 DEF SlotsInv, RecordsOK, RecordOK
    <3>4. accounts'[request[x].tenant] = accounts[request[x].tenant]
      BY <1>10, <3>2, <3>3
    <3>5. DefaultPage(request[x].tenant)' = DefaultPage(request[x].tenant)
      BY <3>1, <3>4 DEF DefaultPage
    <3>6. DefaultPage(request[x].tenant) = request[x].pages[1]
      BY <3>1 DEF SlotsInv, FirstPageIsDefault
    <3> QED BY <3>1, <3>5, <3>6
  <2> QED BY <2>1, <2>2
<1> QED BY <1>11, <1>12, <1>13, <1>14, <1>15 DEF SlotsInv

(* What empties a workspace, or moves its plan, leaves the handlers alone.  *)
LEMMA DisconnectKeeps ==
    ASSUME SlotsInv, NEW u \in Tenants, NEW gone, Disconnect(u, gone)
    PROVE  SlotsInv'
PROOF
<1> DEFINE rows == Without(accounts[u], gone)
<1>0. TablesOK /\ HistoryOK
  BY DEF SlotsInv
<1>1. /\ accounts' = [accounts EXCEPT ![u] = rows]
      /\ disturbed' = disturbed \cup OnTenant(u) /\ request' = request
      /\ webhooks' = webhooks /\ plan' = plan /\ subscribed' = subscribed /\ excused' = excused
      /\ hooked' = hooked /\ clashed' = clashed /\ starts' = starts /\ faults' = faults
  BY DEF Disconnect, hookHistory
<1>2. accounts[u] \in Seq(Accounts) /\ Unique(accounts[u])
  BY <1>0 DEF TablesOK
<1>3. rows \in Seq(Accounts) /\ Unique(rows) /\ Keys(rows) \subseteq Keys(accounts[u])
  BY <1>2, WithoutRows, KeysWithout
<1> HIDE DEF rows
<1>4. /\ accounts'[u] = rows /\ accounts' \in [Tenants -> Seq(Accounts)]
      /\ \A t \in Tenants \ {u} : accounts'[t] = accounts[t]
  BY <1>0, <1>1, <1>3 DEF TablesOK
<1>5. \A t \in Tenants : Keys(accounts'[t]) \subseteq Keys(accounts[t])
  BY <1>3, <1>4
<1>6. TablesOK'
  BY <1>0, <1>1, <1>3, <1>4 DEF TablesOK
<1>7. HistoryOK' /\ RecordsOK'
  BY <1>0, <1>1 DEF SlotsInv, HistoryOK, RecordsOK, OnTenant
<1>8. SlotsOK'
  <2>1. ASSUME NEW t \in Tenants, Cardinality(Keys(accounts[t])) <= Limit
        PROVE  Cardinality(Keys(accounts'[t])) <= Limit
    BY <1>5, <2>1, KeysAre, FewerKeys
  <2>2. ASSUME NEW t \in Tenants, NEW q, Cardinality(Keys(accounts[t]) \cup Pending(q)) <= Limit
        PROVE  Cardinality(Keys(accounts'[t]) \cup Pending(q)) <= Limit
    <3>1. Pending(q) \subseteq Pages \cup {ApiPlatform}
      BY DEF Pending, Key
    <3>2. /\ Keys(accounts[t]) \cup Pending(q) \subseteq Pages \cup {ApiPlatform}
          /\ Keys(accounts'[t]) \cup Pending(q) \subseteq Keys(accounts[t]) \cup Pending(q)
      BY <1>5, <3>1, KeysAre
    <3> QED BY <2>2, <3>2, FewerKeys
  <2>3. SlotsOK
    BY DEF SlotsInv
  <2> QED BY <1>1, <2>1, <2>2, <2>3 DEF SlotsOK
<1>9. FirstPageIsDefault'
  <2> SUFFICES ASSUME NEW x \in Requests, x \notin disturbed',
                      request[x].via = "oauth", request[x].pc = "subscribe"
               PROVE  DefaultPage(request[x].tenant)' = request[x].pages[1]
    BY <1>1 DEF FirstPageIsDefault
  <2>1. request[x].tenant # u /\ x \notin disturbed
    BY <1>1 DEF OnTenant
  <2>2. request[x].tenant \in Tenants
    BY DEF SlotsInv, RecordsOK, RecordOK
  <2>3. accounts'[request[x].tenant] = accounts[request[x].tenant]
    BY <1>4, <2>1, <2>2
  <2>4. DefaultPage(request[x].tenant)' = DefaultPage(request[x].tenant)
    BY <1>1, <2>3 DEF DefaultPage
  <2>5. DefaultPage(request[x].tenant) = request[x].pages[1]
    BY <2>1 DEF SlotsInv, FirstPageIsDefault
  <2> QED BY <2>4, <2>5
<1> QED BY <1>6, <1>7, <1>8, <1>9 DEF SlotsInv

LEMMA ChangePlanKeeps ==
    ASSUME SlotsInv, NEW u \in Tenants, NEW p \in Plans, ChangePlan(u, p)
    PROVE  SlotsInv'
PROOF
<1>0. TablesOK /\ HistoryOK
  BY DEF SlotsInv
<1>1. /\ accounts' = accounts /\ disturbed' = disturbed /\ request' = request
      /\ webhooks' = webhooks /\ plan' = [plan EXCEPT ![u] = p] /\ subscribed' = subscribed
      /\ hooked' = hooked /\ clashed' = clashed /\ starts' = starts /\ faults' = faults
      /\ excused' = IF plan[u] = "agency" /\ (Channels(u) > Limit \/ OnTenant(u) # {})
                    THEN excused \cup {u} ELSE excused
  BY DEF ChangePlan, hookHistory
<1>2. TablesOK' /\ HistoryOK' /\ RecordsOK'
  BY <1>0, <1>1 DEF SlotsInv, TablesOK, HistoryOK, RecordsOK
<1>3. FirstPageIsDefault'
  BY <1>1 DEF SlotsInv, FirstPageIsDefault, DefaultPage
<1>4. SlotsOK'
  <2> SUFFICES ASSUME NEW t \in Tenants, t \notin excused'
               PROVE  /\ \A x, y \in Requests : Holds(request[x]) /\ Holds(request[y])
                             /\ request[x].tenant = t /\ request[y].tenant = t => x = y
                      /\ plan'[t] # "agency" =>
                             /\ Cardinality(Keys(accounts[t])) <= Limit
                             /\ \A x \in Requests : request[x].tenant = t =>
                                   /\ request[x].pc \in {"exchange", "slot"} => request[x].limit = Limit
                                   /\ Holds(request[x]) =>
                                          Cardinality(Keys(accounts[t]) \cup Pending(request[x])) <= Limit
    BY <1>1 DEF SlotsOK
  <2>1. t \notin excused
    BY <1>1
  <2>2. CASE t # u \/ plan[t] # "agency"
    <3>1. plan'[t] # "agency" => plan[t] # "agency"
      BY <1>0, <1>1, <2>2 DEF TablesOK
    <3> QED BY <2>1, <3>1 DEF SlotsInv, SlotsOK
  <2>3. CASE t = u /\ plan[t] = "agency"
    <3>1. OnTenant(t) = {} /\ ~(Channels(t) > Limit)
      BY <1>1, <2>3
    <3>2. Cardinality(Keys(accounts[t])) \in Nat /\ Limit \in Nat
      BY KeysAre, FS_CardinalityType, ChannelsAssumption
    <3>3. Cardinality(Keys(accounts[t])) <= Limit
      BY <3>1, <3>2 DEF Channels
    <3> QED BY <3>1, <3>3 DEF OnTenant
  <2> QED BY <2>2, <2>3
<1> QED BY <1>2, <1>3, <1>4 DEF SlotsInv

(* The rest moves no handler and no account.                                *)
LEMMA NothingMoves ==
    ASSUME SlotsInv, accounts' = accounts, plan' = plan, subscribed' = subscribed,
           request' = request, excused' = excused, disturbed' = disturbed, clashed' = clashed,
           starts' = starts, faults' \in 0..MaxFaults,
           webhooks' \in [Tenants -> SUBSET Hook], hooked' \subseteq Tenants
    PROVE  SlotsInv'
PROOF
<1>1. TablesOK' /\ HistoryOK' /\ RecordsOK'
  BY DEF SlotsInv, TablesOK, HistoryOK, RecordsOK
<1>2. FirstPageIsDefault'
  BY DEF SlotsInv, FirstPageIsDefault, DefaultPage
<1>3. SlotsOK'
  BY DEF SlotsInv, SlotsOK
<1> QED BY <1>1, <1>2, <1>3 DEF SlotsInv

LEMMA ConnectingKeepsSlots ==
    ASSUME SlotsInv, NEW r \in Requests, Connecting(r) \/ Crash(r)
    PROVE  SlotsInv'
PROOF
<1>0. TablesOK /\ HistoryOK
  BY DEF SlotsInv
<1>1. ASSUME NEW t \in Tenants,
             \/ Start(r, t, "oauth", None)
             \/ \E a \in Accounts : Start(r, t, "connect", a)
             \/ \E a \in Pages : Start(r, t, "token", a)
      PROVE  SlotsInv'
  <2>1. CASE Start(r, t, "oauth", None)
    BY <2>1, StartKeeps
  <2>2. ASSUME NEW a \in Accounts, Start(r, t, "connect", a) PROVE SlotsInv'
    BY <2>2, StartKeeps
  <2>3. ASSUME NEW a \in Pages, Start(r, t, "token", a) PROVE SlotsInv'
    <3>1. a \in Accounts
      BY DEF Accounts
    <3> QED BY <2>3, <3>1, StartKeeps
  <2> QED BY <1>1, <2>1, <2>2, <2>3
<1>2. ASSUME Refused(r) \/ Crash(r) PROVE SlotsInv'
  <2>1. /\ Ends(r) /\ accounts' = accounts /\ webhooks' = webhooks /\ plan' = plan
        /\ subscribed' = subscribed /\ starts' = starts /\ excused' = excused /\ hooked' = hooked
        /\ clashed' = clashed /\ (faults' = faults \/ (faults < MaxFaults /\ faults' = faults + 1))
    <3>1. CASE Refused(r)
      BY <3>1 DEF Refused, tables, hookHistory
    <3>2. CASE Crash(r)
      BY <3>2 DEF Crash, tables, hookHistory
    <3> QED BY <1>2, <3>1, <3>2
  <2>2. faults' \in 0..MaxFaults
    BY <1>0, <2>1, ChannelsAssumption DEF HistoryOK
  <2>3. /\ webhooks' \in [Tenants -> SUBSET Hook] /\ subscribed' \subseteq Pages
        /\ excused \subseteq excused' /\ excused' \subseteq Tenants
    BY <1>0, <2>1 DEF TablesOK, HistoryOK
  <2> QED BY <2>1, <2>2, <2>3, EndKeeps
<1> QED BY <1>1, <1>2, ListPagesKeeps, CheckSlotKeeps, ResolveKeeps, SavePageKeeps, SubscribePageKeeps
        DEF Connecting

LEMMA SlotsInvInit == Init => SlotsInv
PROOF
<1> SUFFICES ASSUME ChannelsInit PROVE SlotsInv
  BY DEF Init
<1>1. RecordOK(Idle) /\ Idle.pc = "idle" /\ Idle.tenant = None
  BY DEF RecordOK, Idle
<1>2. /\ DOMAIN request = Requests /\ \A r \in Requests : request[r] = Idle
      /\ \A t \in Tenants : accounts[t] = <<>>
  BY DEF ChannelsInit
<1>3. RecordsOK
  BY <1>1, <1>2 DEF RecordsOK
<1>4. TablesOK
  <2>1. <<>> \in Seq(Accounts) /\ Unique(<<>>)
    BY DEF Unique
  <2>2. {"pro", "agency"} \subseteq Plans
    BY DEF Plans
  <2> QED BY <2>1, <2>2 DEF ChannelsInit, TablesOK
<1>5. HistoryOK
  BY ChannelsAssumption DEF ChannelsInit, HistoryOK
<1>6. SlotsOK
  <2>1. Keys(<<>>) = {}
    BY DEF Keys, Members
  <2>2. Cardinality(Keys(<<>>)) <= Limit
    <3>1. Cardinality({}) = 0
      BY FS_EmptySet
    <3>2. Cardinality(Keys(<<>>)) = 0
      BY <2>1, <3>1, Zenon
    <3> QED BY <3>2, ChannelsAssumption
  <2> QED BY <1>1, <1>2, <2>2 DEF SlotsOK, Holds
<1>7. FirstPageIsDefault
  BY <1>1, <1>2 DEF FirstPageIsDefault
<1> QED BY <1>3, <1>4, <1>5, <1>6, <1>7 DEF SlotsInv

LEMMA SlotsInvStep == SlotsInv /\ [Next]_vars => SlotsInv'
PROOF
<1> SUFFICES ASSUME SlotsInv, [Next]_vars PROVE SlotsInv'
  OBVIOUS
<1>0. TablesOK /\ HistoryOK
  BY DEF SlotsInv
<1>1. ASSUME NEW r \in Requests, Connecting(r) \/ Notifying(r) \/ Crash(r) PROVE SlotsInv'
  BY <1>1, ConnectingKeepsSlots, NotifyingKeepsSlots
<1>2. ASSUME NEW t \in Tenants,
             Disconnect(t, Pages) \/ Disconnect(t, ApiAccounts) \/ DropWebhooks(t)
             \/ \E p \in Plans : ChangePlan(t, p)
      PROVE  SlotsInv'
  <2>1. CASE DropWebhooks(t)
    <3>1. webhooks' \in [Tenants -> SUBSET Hook] /\ hooked' \subseteq Tenants /\ faults' \in 0..MaxFaults
      BY <1>0, <2>1 DEF DropWebhooks, TablesOK, HistoryOK
    <3> QED BY <2>1, <3>1, NothingMoves DEF DropWebhooks
  <2> QED BY <1>2, <2>1, DisconnectKeeps, ChangePlanKeeps
<1>3. ASSUME UNCHANGED channelVars PROVE SlotsInv'
  <2>1. webhooks' \in [Tenants -> SUBSET Hook] /\ hooked' \subseteq Tenants /\ faults' \in 0..MaxFaults
    BY <1>0, <1>3 DEF channelVars, tables, history, hookHistory, TablesOK, HistoryOK
  <2> QED BY <1>3, <2>1, NothingMoves DEF channelVars, tables, history, hookHistory
<1>4. ASSUME NEW d \in Workers, Fails(d) PROVE SlotsInv'
  <2>1. /\ webhooks' \in [Tenants -> SUBSET Hook] /\ hooked' \subseteq Tenants /\ faults' \in 0..MaxFaults
    BY <1>0, <1>4, ChannelsAssumption DEF Fails, tables, history, hookHistory, TablesOK, HistoryOK
  <2> QED BY <1>4, <2>1, NothingMoves DEF Fails, tables, history, hookHistory
<1>5. ASSUME NEW d \in Workers, Handling(d) \/ Replying(d) PROVE SlotsInv'
  BY <1>3, <1>4, <1>5 DEF Handling, Receive, Route, Store, Acknowledge,
     Replying, StartReply, StartReplyAs, Credentials, Default, Send
<1>6. ASSUME NEW c \in Comments, Happens(c) PROVE SlotsInv'
  BY <1>3, <1>6 DEF Happens
<1>7. ASSUME ConnectionsMove PROVE SlotsInv'
  BY <1>1, <1>2, <1>7 DEF ConnectionsMove, ChannelsNext
<1> QED BY <1>3, <1>5, <1>6, <1>7 DEF Next, vars

(* "A Pro workspace keeps at most 3 channels": whatever the handlers of a   *)
(* workspace do in which order, and however many there are, the channels    *)
(* stay within the cap while no two of them held slots at once, no token    *)
(* resolved to another Page and the workspace did not come from the agency  *)
(* plan with more.                                                          *)
THEOREM CapIsKept == Spec => []CapKept
PROOF
<1>1. Init => SlotsInv
  BY SlotsInvInit
<1>2. SlotsInv /\ [Next]_vars => SlotsInv'
  BY SlotsInvStep
<1>3. SlotsInv => CapKept
  BY DEF SlotsInv, SlotsOK, CapKept, Channels
<1> QED BY <1>1, <1>2, <1>3, PTL DEF Spec

(* "Save in reverse so the first page Meta lists ends up as the most        *)
(* recently updated (the default)": for lists of any length, unless         *)
(* somebody else moved the rows of the workspace meanwhile.                 *)
THEOREM FirstPageStaysDefault == Spec => []FirstPageIsDefault
PROOF
<1>1. Init => SlotsInv
  BY SlotsInvInit
<1>2. SlotsInv /\ [Next]_vars => SlotsInv'
  BY SlotsInvStep
<1>3. SlotsInv => FirstPageIsDefault
  BY DEF SlotsInv
<1> QED BY <1>1, <1>2, <1>3, PTL DEF Spec

-------------------------------------------------------------------------------
(* Types *)

(* A reply under way is for a comment in a workspace, and goes out as a Page. *)
ReplyOK(w) ==
    /\ DOMAIN w = DOMAIN Free
    /\ w.pc \in {"credentials", "default", "send"} => w.tenant \in Tenants /\ w.comment \in Comments
    /\ w.pc = "credentials" => w.page \in Pages \cup {None}
    /\ w.pc = "send" => w.page \in Pages

MarksOK ==
    /\ DOMAIN worker = Workers
    /\ \A d \in Workers : ReplyOK(worker[d])
    /\ replies \in Seq(Reply) /\ Len(replies) <= MaxReplies
    /\ late \subseteq Comments /\ astray \subseteq Workers

\* The marks of connected webhooks are of webhooks.
AttachedOK == attached \in [Tenants -> SUBSET Hooks]

TypeInv == SlotsInv /\ InboxInv /\ MarksOK /\ AttachedOK

LEMMA TypeInvImplies == TypeInv => TypeOK
PROOF
<1> SUFFICES ASSUME TypeInv PROVE ChannelsTypeOK /\ InboxTypeOK
  BY DEF TypeOK
<1>0. TablesOK /\ HistoryOK /\ RecordsOK /\ StoredOK /\ ThreadsOK /\ MarksOK
  BY DEF TypeInv, SlotsInv, InboxInv
<1>1. ASSUME NEW t \in Tenants
      PROVE  Cardinality(Members(accounts[t])) = Len(accounts[t])
  <2>1. accounts[t] \in Seq(Accounts) /\ Unique(accounts[t])
    BY <1>0 DEF TablesOK
  <2> QED BY <2>1, UniqueLength
<1>2. ASSUME NEW r \in Requests
      PROVE  /\ request[r].tenant \in Tenants \cup {None}
             /\ request[r].pc \in {"save", "subscribe"} => request[r].n \in 0..Len(request[r].pages)
  <2>1. RecordOK(request[r])
    BY <1>0 DEF RecordsOK
  <2> QED BY <2>1 DEF RecordOK
<1>3. ChannelsTypeOK
  BY <1>0, <1>1, <1>2 DEF ChannelsTypeOK, TablesOK, HistoryOK, AttachedOK, TypeInv
<1>4. InboxTypeOK
  BY <1>0 DEF InboxTypeOK, StoredOK, ThreadsOK, MarksOK, Batch
<1> QED BY <1>3, <1>4

(* A thread that handles a batch or ends.                                   *)
LEMMA NoReplyMoves ==
    ASSUME MarksOK, NEW d \in Workers, NEW w, worker' = [worker EXCEPT ![d] = w],
           DOMAIN w = DOMAIN Free, w.pc \notin {"credentials", "default", "send"},
           replies' = replies, late' \subseteq Comments, astray' \subseteq astray
    PROVE  MarksOK'
PROOF
<1>1. worker'[d] = w /\ DOMAIN worker' = Workers /\ \A x \in Workers \ {d} : worker'[x] = worker[x]
  BY DEF MarksOK
<1>2. ReplyOK(w)
  BY DEF ReplyOK
<1>3. \A x \in Workers : ReplyOK(worker'[x])
  BY <1>1, <1>2 DEF MarksOK
<1> QED BY <1>1, <1>3 DEF MarksOK

LEMMA HandlingTypes ==
    ASSUME InboxInv, MarksOK, NEW d \in Workers, Handling(d)
    PROVE  MarksOK'
PROOF
<1>0. DOMAIN worker[d] = DOMAIN Free /\ late \subseteq Comments /\ Free.pc = "free"
  BY DEF MarksOK, ReplyOK, Free
<1>1. ASSUME Onwards(d), replies' = replies, late' \subseteq Comments, astray' = astray
      PROVE  MarksOK'
  <2>1. PICK w : worker' = [worker EXCEPT ![d] = w] /\ DOMAIN w = DOMAIN Free /\ w.pc \in {"route", "ack"}
    BY <1>0, <1>1, OnwardsFields
  <2> QED BY <1>1, <2>1, NoReplyMoves
<1>2. ASSUME NEW b, Receive(d, b) PROVE MarksOK'
  <2> DEFINE w == [Free EXCEPT !.pc = "route", !.batch = b, !.n = 1]
  <2>1. DOMAIN w = DOMAIN Free /\ w.pc = "route"
    BY DEF Free
  <2>2. worker' = [worker EXCEPT ![d] = w] /\ replies' = replies /\ late' = late /\ astray' = astray
    BY <1>2 DEF Receive, Becomes
  <2> HIDE DEF w
  <2> QED BY <1>0, <2>1, <2>2, NoReplyMoves
<1>3. ASSUME Route(d) PROVE MarksOK'
  <2> DEFINE found == TenantsFor(PageOf[Current(d).comment])
             w == [worker[d] EXCEPT !.pc = "store", !.tenants = found]
  <2>1. DOMAIN w = DOMAIN Free /\ w.pc = "store"
    BY <1>0 DEF Free
  <2>2. /\ Onwards(d) \/ worker' = [worker EXCEPT ![d] = w]
        /\ replies' = replies /\ late' = late /\ astray' = astray
    BY <1>3 DEF Route, Becomes
  <2> HIDE DEF w
  <2> QED BY <1>0, <1>1, <2>1, <2>2, NoReplyMoves
<1>4. ASSUME NEW t \in Tenants, Store(d, t) PROVE MarksOK'
  <2> DEFINE w == [worker[d] EXCEPT !.tenants = worker[d].tenants \ {t}]
  <2>1. DOMAIN w = DOMAIN Free /\ w.pc = "store"
    BY <1>0, <1>4 DEF Free, Store
  <2>2. Current(d) \in Events
    BY <1>4 DEF Store, Current, InboxInv, StoredOK, ThreadsOK, Batch
  <2>3. late' \subseteq Comments
    <3>1. Current(d).comment \in Comments
      BY <2>2 DEF Events
    <3>2. late' \subseteq late \cup {Current(d).comment}
      BY <1>4 DEF Store
    <3> QED BY <1>0, <3>1, <3>2
  <2>4. /\ Onwards(d) \/ worker' = [worker EXCEPT ![d] = w]
        /\ replies' = replies /\ astray' = astray
    BY <1>4 DEF Store, Becomes
  <2> HIDE DEF w
  <2> QED BY <1>1, <2>1, <2>3, <2>4, NoReplyMoves
<1>5. ASSUME Acknowledge(d) \/ Fails(d) PROVE MarksOK'
  <2>1. worker' = [worker EXCEPT ![d] = Free] /\ replies' = replies /\ late' = late /\ astray' = astray
    BY <1>5 DEF Acknowledge, Fails, Becomes
  <2> QED BY <1>0, <2>1, NoReplyMoves
<1> QED BY <1>2, <1>3, <1>4, <1>5 DEF Handling

(* The default Page is one of the Pages.                                    *)
LEMMA DefaultIsPage ==
    ASSUME TablesOK, NEW t \in Tenants, DefaultPage(t) # None
    PROVE  DefaultPage(t) \in Pages
PROOF
<1> DEFINE rows == accounts[t]
           pages == Without(rows, ApiAccounts)
<1>1. rows \in Seq(Accounts)
  BY DEF TablesOK
<1> HIDE DEF rows
<1>2. pages \in Seq(Accounts) /\ Members(pages) = Members(rows) \ ApiAccounts
  BY <1>1, WithoutRows
<1>3. pages # <<>> /\ DefaultPage(t) = Head(pages)
  BY DEF DefaultPage, rows
<1> HIDE DEF pages
<1>4. Head(pages) \in Accounts /\ Head(pages) \in Members(pages)
  <2>1. 1 \in 1..Len(pages) /\ Head(pages) = pages[1]
    BY <1>2, <1>3
  <2> QED BY <1>2, <2>1 DEF Members
<1> QED BY <1>2, <1>3, <1>4 DEF Accounts

LEMMA ReplyingTypes ==
    ASSUME SlotsInv, MarksOK, NEW d \in Workers, Replying(d)
    PROVE  MarksOK'
PROOF
<1>0. ReplyOK(worker[d]) /\ DOMAIN worker[d] = DOMAIN Free /\ TablesOK /\ Free.pc = "free"
  BY DEF MarksOK, ReplyOK, SlotsInv, Free
<1>1. ASSUME NEW w, worker' = [worker EXCEPT ![d] = w], ReplyOK(w), replies' = replies, late' = late,
             astray' \subseteq Workers
      PROVE  MarksOK'
  <2>1. worker'[d] = w /\ DOMAIN worker' = Workers /\ \A x \in Workers \ {d} : worker'[x] = worker[x]
    BY <1>1 DEF MarksOK
  <2> QED BY <1>1, <2>1 DEF MarksOK
<1>2. ReplyOK(Free)
  BY DEF ReplyOK, Free
<1>3. ASSUME NEW t \in Tenants, NEW c \in Comments, StartReply(d, t, c) PROVE MarksOK'
  <2> DEFINE page == IF comments[t][c] # NoComment THEN PageOf[c] ELSE None
             w == [Free EXCEPT !.pc = "credentials", !.tenant = t, !.comment = c, !.page = page]
  <2>1. /\ worker' = [worker EXCEPT ![d] = w] /\ replies' = replies /\ late' = late
        /\ astray' \subseteq astray \cup {d}
    BY <1>3 DEF StartReply, Becomes
  <2>2. page \in Pages \cup {None}
    BY InboxAssumption
  <2> HIDE DEF page
  <2>3. /\ DOMAIN w = DOMAIN Free /\ w.pc = "credentials" /\ w.tenant = t /\ w.comment = c
        /\ w.page = page
    BY DEF Free
  <2> HIDE DEF w
  <2>4. ReplyOK(w)
    BY <2>2, <2>3 DEF ReplyOK
  <2>5. astray' \subseteq Workers
    BY <2>1 DEF MarksOK
  <2> QED BY <1>1, <2>1, <2>4, <2>5
<1>4. ASSUME Credentials(d) PROVE MarksOK'
  <2> DEFINE found == worker[d].page \in Members(accounts[worker[d].tenant])
             w == [worker[d] EXCEPT !.pc = IF found THEN "send" ELSE "default"]
  <2>1. /\ worker' = [worker EXCEPT ![d] = w] /\ replies' = replies /\ late' = late
        /\ astray' = astray /\ worker[d].pc = "credentials"
    BY <1>4 DEF Credentials, Becomes
  <2>2. found => worker[d].page \in Pages
    <3>1. worker[d].page \in Pages \cup {None} /\ worker[d].tenant \in Tenants
      BY <1>0, <2>1 DEF ReplyOK
    <3>2. Members(accounts[worker[d].tenant]) \subseteq Accounts
      BY <1>0, <3>1 DEF TablesOK, Members
    <3> QED BY <3>1, <3>2, ChannelsAssumption DEF Accounts
  <2> HIDE DEF found
  <2>3. /\ DOMAIN w = DOMAIN Free /\ w.pc = (IF found THEN "send" ELSE "default")
        /\ w.tenant = worker[d].tenant /\ w.comment = worker[d].comment /\ w.page = worker[d].page
    BY <1>0 DEF Free
  <2> HIDE DEF w
  <2>4. ReplyOK(w)
    BY <1>0, <2>1, <2>2, <2>3 DEF ReplyOK
  <2>5. astray' \subseteq Workers
    BY <2>1 DEF MarksOK
  <2> QED BY <1>1, <2>1, <2>4, <2>5
<1>5. ASSUME Default(d) PROVE MarksOK'
  <2> DEFINE page == DefaultPage(worker[d].tenant)
             w == [worker[d] EXCEPT !.pc = "send", !.page = page]
  <2>1. /\ replies' = replies /\ late' = late /\ worker[d].pc = "default"
        /\ astray' \subseteq astray
        /\ \/ worker' = [worker EXCEPT ![d] = Free]
           \/ worker' = [worker EXCEPT ![d] = w] /\ page # None
    BY <1>5 DEF Default, Becomes
  <2>2. worker[d].tenant \in Tenants /\ worker[d].comment \in Comments
    BY <1>0, <2>1 DEF ReplyOK
  <2>3. page # None => page \in Pages
    BY <1>0, <2>2, DefaultIsPage
  <2> HIDE DEF page
  <2>4. /\ DOMAIN w = DOMAIN Free /\ w.pc = "send" /\ w.page = page
        /\ w.tenant = worker[d].tenant /\ w.comment = worker[d].comment
    BY <1>0 DEF Free
  <2> HIDE DEF w
  <2>5. page # None => ReplyOK(w)
    BY <2>2, <2>3, <2>4 DEF ReplyOK
  <2>6. astray' \subseteq Workers
    BY <2>1 DEF MarksOK
  <2> QED BY <1>1, <1>2, <2>1, <2>5, <2>6
<1>6. ASSUME Send(d) PROVE MarksOK'
  <2> DEFINE sent == [tenant |-> worker[d].tenant, comment |-> worker[d].comment, page |-> worker[d].page]
  <2>1. /\ worker' = [worker EXCEPT ![d] = Free] /\ replies' = Append(replies, sent) /\ late' = late
        /\ astray' = astray \ {d} /\ worker[d].pc = "send" /\ Len(replies) < MaxReplies
    BY <1>6 DEF Send, Becomes
  <2>2. sent \in Reply
    BY <1>0, <2>1 DEF ReplyOK, Reply
  <2> HIDE DEF sent
  <2>3. replies' \in Seq(Reply) /\ Len(replies') <= MaxReplies
    BY <2>1, <2>2, InboxAssumption DEF MarksOK
  <2>4. worker'[d] = Free /\ DOMAIN worker' = Workers /\ \A x \in Workers \ {d} : worker'[x] = worker[x]
    BY <2>1 DEF MarksOK
  <2> QED BY <1>2, <2>1, <2>3, <2>4 DEF MarksOK
<1>7. ASSUME NEW t \in Tenants, NEW c \in Comments, NEW page \in Pages, StartReplyAs(d, t, c, page)
      PROVE  MarksOK'
  <2> DEFINE w == [Free EXCEPT !.pc = "send", !.tenant = t, !.comment = c, !.page = page]
  <2>1. /\ worker' = [worker EXCEPT ![d] = w] /\ replies' = replies /\ late' = late
        /\ astray' = astray \cup {d}
    BY <1>7 DEF StartReplyAs, Becomes
  <2>2. /\ DOMAIN w = DOMAIN Free /\ w.pc = "send" /\ w.tenant = t /\ w.comment = c
        /\ w.page = page
    BY DEF Free
  <2> HIDE DEF w
  <2>3. ReplyOK(w)
    BY <2>2 DEF ReplyOK
  <2>4. astray' \subseteq Workers
    BY <2>1 DEF MarksOK
  <2> QED BY <1>1, <2>1, <2>3, <2>4
<1> QED BY <1>3, <1>4, <1>5, <1>6, <1>7 DEF Replying

(* Marks are set for the webhook a handler connects, and taken off.         *)
LEMMA AttachedTypes == AttachedOK /\ SlotsInv /\ [Next]_vars => AttachedOK'
PROOF
<1> SUFFICES ASSUME AttachedOK, SlotsInv, Next PROVE AttachedOK'
  BY DEF vars, channelVars, history, hookHistory, AttachedOK
<1>1. ASSUME NEW r \in Requests, Connecting(r) \/ Crash(r) PROVE attached' = attached
  BY <1>1 DEF Connecting, Start, ListPages, CheckSlot, Resolve, Refused, SavePage, SubscribePage,
              Crash, history, hookHistory
<1>2. ASSUME NEW r \in Requests, Notifying(r) PROVE AttachedOK'
  <2>1. RecordOK(request[r])
    BY SlotsInvFacts
  <2>2. ASSUME AttachHook(r) PROVE AttachedOK'
    <3>1. request[r].asked \in Hooks
      BY <2>1, <2>2 DEF AttachHook, RecordOK
    <3> QED BY <2>2, <3>1 DEF AttachHook, AttachedOK
  <2>3. ASSUME SaveHook(r) PROVE AttachedOK'
    BY <2>3 DEF SaveHook, AttachedOK
  <2>4. ASSUME NEW t \in Tenants, NEW h \in Hooks,
               StartHook(r, t, h) \/ StartAttach(r, t, h) \/ ListHooks(r) \/ DeleteHook(r)
        PROVE  AttachedOK'
    BY <2>4 DEF StartHook, StartAttach, ListHooks, DeleteHook, history, hookHistory, AttachedOK
  <2>5. ListHooks(r) \/ DeleteHook(r) => AttachedOK'
    BY DEF ListHooks, DeleteHook, hookHistory, AttachedOK
  <2> QED BY <1>2, <2>2, <2>3, <2>4, <2>5 DEF Notifying
<1>3. ASSUME NEW t \in Tenants, DropWebhooks(t) PROVE AttachedOK'
  BY <1>3 DEF DropWebhooks, AttachedOK
<1>4. ASSUME NEW t \in Tenants,
             Disconnect(t, Pages) \/ Disconnect(t, ApiAccounts) \/ \E p \in Plans : ChangePlan(t, p)
      PROVE  attached' = attached
  BY <1>4 DEF Disconnect, ChangePlan, hookHistory
<1>5. ASSUME ConnectionsMove PROVE AttachedOK'
  BY <1>1, <1>2, <1>3, <1>4, <1>5 DEF ConnectionsMove, ChannelsNext, AttachedOK
<1>6. ASSUME NEW d \in Workers, Handling(d) \/ Replying(d) PROVE attached' = attached
  BY <1>6 DEF Handling, Receive, Route, Store, Acknowledge, Fails, Replying, StartReply,
              StartReplyAs, Credentials, Default, Send, channelVars, history, hookHistory
<1>7. ASSUME NEW c \in Comments, Happens(c) PROVE attached' = attached
  BY <1>7 DEF Happens, channelVars, history, hookHistory
<1> QED BY <1>5, <1>6, <1>7 DEF Next, AttachedOK

LEMMA TypeInvStep == TypeInv /\ [Next]_vars => TypeInv'
PROOF
<1> SUFFICES ASSUME TypeInv, [Next]_vars PROVE TypeInv'
  OBVIOUS
<1>0. SlotsInv /\ InboxInv /\ MarksOK
  BY DEF TypeInv
<1>1. SlotsInv' /\ InboxInv' /\ AttachedOK'
  BY <1>0, SlotsInvStep, InboxInvStep, AttachedTypes DEF TypeInv
<1>2. ASSUME worker' = worker, replies' = replies, late' = late, astray' \subseteq Workers
      PROVE  MarksOK'
  BY <1>0, <1>2 DEF MarksOK
<1>3. ASSUME NEW c \in Comments, Happens(c) PROVE MarksOK'
  BY <1>0, <1>2, <1>3 DEF Happens, MarksOK
<1>4. ASSUME NEW d \in Workers, Handling(d) \/ Replying(d) PROVE MarksOK'
  BY <1>0, <1>4, HandlingTypes, ReplyingTypes
<1>5. ASSUME ConnectionsMove PROVE MarksOK'
  <2>1. worker' = worker /\ replies' = replies /\ late' = late /\ astray' \subseteq astray \cup AtReply
    BY <1>5 DEF ConnectionsMove
  <2> QED BY <1>0, <1>2, <2>1 DEF MarksOK, AtReply
<1>6. ASSUME UNCHANGED vars PROVE MarksOK'
  BY <1>0, <1>2, <1>6 DEF vars, inboxVars, MarksOK
<1>7. MarksOK'
  BY <1>3, <1>4, <1>5, <1>6 DEF Next
<1> QED BY <1>1, <1>7 DEF TypeInv

(* No account of a workspace has two rows, handlers hold what their step    *)
(* needs and no handler of a batch runs past its end, replies are made of   *)
(* a workspace, a comment and a Page: for any number of each.               *)
THEOREM InboxTypes == Spec => []TypeOK
PROOF
<1>1. Init => TypeInv
  <2>1. Init => SlotsInv /\ InboxInv
    BY SlotsInvInit, InboxInvInit
  <2>2. Init => MarksOK
    <3> SUFFICES ASSUME InboxInit PROVE MarksOK
      BY DEF Init
    <3>1. ReplyOK(Free)
      BY DEF ReplyOK, Free
    <3>2. <<>> \in Seq(Reply) /\ Len(<<>>) <= MaxReplies
      BY InboxAssumption
    <3> QED BY <3>1, <3>2 DEF InboxInit, MarksOK
  <2>3. Init => AttachedOK
    BY DEF Init, ChannelsInit, AttachedOK
  <2> QED BY <2>1, <2>2, <2>3 DEF TypeInv
<1>2. TypeInv /\ [Next]_vars => TypeInv'
  BY TypeInvStep
<1>3. TypeInv => TypeOK
  BY TypeInvImplies
<1> QED BY <1>1, <1>2, <1>3, PTL DEF Spec

===============================================================================
