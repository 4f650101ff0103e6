------------------------------- MODULE Channels -------------------------------
(***************************************************************************)
(* The connected accounts of a workspace: Facebook Pages connected through *)
(* OAuth or a pasted token, API-key channels, and the notification webhook,*)
(* which is a row of the same table.  Every handler loads the plan first,  *)
(* reads the table to see whether a slot is left, talks to Meta and saves  *)
(* only then; handlers of one workspace run in threads of several web      *)
(* processes and interleave between those calls.                           *)
(*                                                                         *)
(* What rows hold besides their account (name, token, permissions) is left *)
(* out.  Workspaces are not the house workspace, whose Page lives in the   *)
(* process environment.                                                    *)
(***************************************************************************)
EXTENDS Integers, FiniteSets, Sequences

CONSTANTS
    Requests,     \* handler threads
    Tenants,      \* workspaces
    Pages,        \* Facebook Pages: each counts as one channel
    ApiAccounts,  \* accounts of one API-key platform: all of them count as one
    ApiPlatform,  \* that platform
    Hooks,        \* webhook URLs
    None,         \* no workspace, account or webhook
    Limit,        \* channels of the Pro plan
    MaxStarts,    \* bound: handlers started in one behaviour
    MaxFaults     \* bound: handlers that die half way

ASSUME ChannelsAssumption ==
    /\ IsFiniteSet(Pages) /\ IsFiniteSet(ApiAccounts)
    /\ Pages \cap ApiAccounts = {} /\ ApiPlatform \notin Pages
    /\ None \notin Tenants \cup Pages \cup ApiAccounts \cup Hooks
    /\ Limit \in Nat /\ MaxStarts \in Nat /\ MaxFaults \in Nat

VARIABLES
    accounts,    \* channel rows of each workspace, most recently updated first
    webhooks,    \* webhook rows of each workspace
    plan,        \* what the workspace pays for
    subscribed,  \* Pages whose events Meta delivers to the app
    request,     \* what each handler is doing
    starts, faults,
    excused,     \* history: workspaces whose cap was passed for a known reason
    disturbed,   \* history: handlers whose rows somebody else changed meanwhile
    hooked,      \* history: workspaces that saved a webhook and did not remove it
    clashed,     \* history: workspaces where two webhook saves overlapped
    attached     \* history: webhooks that connect added and no save wrote since

tables == <<accounts, webhooks, plan, subscribed>>
hookHistory == <<hooked, clashed, attached>>
history == <<excused, disturbed, hookHistory>>
channelVars == <<tables, history, request, starts, faults>>

-------------------------------------------------------------------------------
Accounts == Pages \cup ApiAccounts
Plans == {"pro", "agency", "ended"}
NoLimit == -1
Hook == [hook : Hooks, id : Nat]

Idle == [pc |-> "idle", via |-> "none", tenant |-> None, limit |-> 0, asked |-> None,
         pages |-> <<>>, n |-> 0, ids |-> {}]

Members(s) == {s[i] : i \in 1..Len(s)}
Running(r) == request[r].pc # "idle"
Set(r, field, value) == request' = [request EXCEPT ![r][field] = value]
Ends(r) == request' = [request EXCEPT ![r] = Idle] /\ disturbed' = disturbed \ {r}

\* the same, in a step that also changes rows of the handlers `touched`
EndsAfter(r, touched) ==
    request' = [request EXCEPT ![r] = Idle] /\ disturbed' = (disturbed \cup touched) \ {r}

(* Pages count one channel each, API-key platforms one per platform. *)
Key(a) == IF a \in Pages THEN a ELSE ApiPlatform
Keys(rows) == {Key(a) : a \in Members(rows)}
Channels(t) == Cardinality(Keys(accounts[t]))
PlanLimit(t) == IF plan[t] = "agency" THEN NoLimit ELSE Limit

(* require_channel_slot, with the keys the gate has seen so far. *)
Granted(keys, limit, a) == limit = NoLimit \/ Key(a) \in keys \/ Cardinality(keys) < limit

\* mutant of Usable: a granted slot is not added to what the gate has seen
UsableUnremembered(rows, limit, list) ==
    SelectSeq(list, LAMBDA page : Granted(Keys(rows), limit, page))

(* The Pages of a list that find a slot, each one taking its own: what the *)
(* loop of facebook_callback leaves in "usable".                           *)
Usable(rows, limit, list) ==
    LET Taken[i \in 0..Len(list)] ==
            IF i = 0 THEN <<>>
            ELSE IF Granted(Keys(rows) \cup Members(Taken[i - 1]), limit, list[i])
                 THEN Append(Taken[i - 1], list[i]) ELSE Taken[i - 1]
    IN Taken[Len(list)]

(* The rows that are left, in their order, without those of `gone`.         *)
Without(rows, gone) ==
    LET Left[i \in 0..Len(rows)] ==
            IF i = 0 THEN <<>>
            ELSE IF rows[i] \in gone THEN Left[i - 1] ELSE Append(Left[i - 1], rows[i])
    IN Left[Len(rows)]

\* mutant of Saved: always an insert
SavedTwice(rows, a) == <<a>> \o rows

(* save_connected_account: insert or update, and the row becomes the newest *)
Saved(rows, a) == <<a>> \o Without(rows, {a})

\* get_connected_account: the newest Page is the one the workspace posts with
DefaultPage(t) ==
    LET pages == Without(accounts[t], ApiAccounts) IN
    IF pages = <<>> THEN None ELSE Head(pages)

\* handlers that hold a slot they have not saved yet
Holding(t) == {r \in Requests : request[r].tenant = t /\ request[r].pc \in {"resolve", "save"}}
OnTenant(t) == {r \in Requests : request[r].tenant = t}

-------------------------------------------------------------------------------
(* Connecting: gate, slot, Meta, save *)

\* load_plan_gate: the plan is read once and used until the handler ends
Start(r, t, via, a) ==
    /\ ~Running(r) /\ starts < MaxStarts
    /\ plan[t] # "ended"
    /\ request' = [request EXCEPT ![r] =
           [Idle EXCEPT !.pc = IF via = "oauth" THEN "exchange" ELSE "slot",
                        !.via = via, !.tenant = t, !.limit = PlanLimit(t), !.asked = a]]
    /\ starts' = starts + 1
    /\ UNCHANGED <<tables, history, faults>>

\* Meta lists the Pages of the user; each takes a slot while one is left
ListPages(r, list) ==
    LET t == request[r].tenant
        usable == Usable(accounts[t], request[r].limit, list)
    IN
    /\ request[r].pc = "exchange"
    /\ excused' = IF Holding(t) # {} THEN excused \cup {t} ELSE excused
    /\ IF usable = <<>> THEN Ends(r)
       ELSE /\ request' = [request EXCEPT ![r].pc = "save", ![r].pages = usable,
                                          ![r].n = Len(usable)]
            /\ UNCHANGED disturbed
    /\ UNCHANGED <<tables, hookHistory, starts, faults>>

CheckSlot(r) ==
    LET t == request[r].tenant
        a == request[r].asked
    IN
    /\ request[r].pc = "slot"
    /\ excused' = IF Holding(t) # {} THEN excused \cup {t} ELSE excused
    /\ IF ~Granted(Keys(accounts[t]), request[r].limit, a) THEN Ends(r)
       ELSE /\ request' = [request EXCEPT ![r].pc = IF request[r].via = "token"
                                                    THEN "resolve" ELSE "save",
                                          ![r].pages = <<a>>, ![r].n = 1]
            /\ UNCHANGED disturbed
    /\ UNCHANGED <<tables, hookHistory, starts, faults>>

\* verify_and_resolve_page: a user token may resolve to another of the user's Pages
Resolve(r, page) ==
    LET t == request[r].tenant IN
    /\ request[r].pc = "resolve"
    /\ request' = [request EXCEPT ![r].pc = "save", ![r].pages = <<page>>]
    /\ excused' = IF page # request[r].asked THEN excused \cup {t} ELSE excused
    /\ UNCHANGED <<tables, disturbed, hookHistory, starts, faults>>

\* Meta, or the webhook that is tested, refuses or cannot be reached
Refused(r) ==
    /\ request[r].pc \in {"exchange", "resolve", "test"}
    /\ Ends(r)
    /\ UNCHANGED <<tables, excused, hookHistory, starts, faults>>

\* mutant of SavePage: saved in the order Meta lists them
SavePageForward(r) ==
    LET t == request[r].tenant
        pages == request[r].pages
        k == Len(pages) - request[r].n + 1
    IN
    /\ request[r].pc = "save"
    /\ accounts' = [accounts EXCEPT ![t] = Saved(@, pages[k])]
    /\ IF request[r].n = 1 /\ request[r].via = "connect" THEN EndsAfter(r, OnTenant(t))
       ELSE /\ disturbed' = disturbed \cup (OnTenant(t) \ {r})
            /\ request' = [request EXCEPT ![r] = IF @.n > 1 THEN [@ EXCEPT !.n = @ - 1]
                                                 ELSE [@ EXCEPT !.n = 0, !.pc = "subscribe"]]
    /\ UNCHANGED <<webhooks, plan, subscribed, excused, hookHistory, starts, faults>>

\* saved in reverse, one transaction each
SavePage(r) ==
    LET t == request[r].tenant
        n == request[r].n
    IN
    /\ request[r].pc = "save"
    /\ accounts' = [accounts EXCEPT ![t] = Saved(@, request[r].pages[n])]
    /\ IF n = 1 /\ request[r].via = "connect" THEN EndsAfter(r, OnTenant(t))
       ELSE /\ disturbed' = disturbed \cup (OnTenant(t) \ {r})
            /\ request' = [request EXCEPT ![r] = IF n > 1 THEN [@ EXCEPT !.n = n - 1]
                                                 ELSE [@ EXCEPT !.n = 0, !.pc = "subscribe"]]
    /\ UNCHANGED <<webhooks, plan, subscribed, excused, hookHistory, starts, faults>>

\* a Page that cannot be subscribed stays connected
SubscribePage(r) ==
    LET page == request[r].pages[request[r].n + 1] IN
    /\ request[r].pc = "subscribe"
    /\ subscribed' = subscribed \cup {page} \/ UNCHANGED subscribed
    /\ IF request[r].n + 1 = Len(request[r].pages) THEN Ends(r)
       ELSE Set(r, "n", request[r].n + 1) /\ UNCHANGED disturbed
    /\ UNCHANGED <<accounts, webhooks, plan, excused, hookHistory, starts, faults>>

\* POST /integrations/disconnect deletes every row of the platform
Disconnect(t, gone) ==
    /\ Members(accounts[t]) \cap gone # {}
    /\ accounts' = [accounts EXCEPT ![t] = Without(@, gone)]
    /\ disturbed' = disturbed \cup OnTenant(t)
    /\ UNCHANGED <<webhooks, plan, subscribed, excused, hookHistory, request, starts, faults>>

(* Payments, expiry and the operator move the plan (module Billing).  A     *)
(* workspace that comes back to Pro keeps what it connected as an agency.   *)
ChangePlan(t, p) ==
    /\ p # plan[t]
    /\ plan' = [plan EXCEPT ![t] = p]
    /\ excused' =
           IF plan[t] = "agency" /\ (Channels(t) > Limit \/ OnTenant(t) # {})
           THEN excused \cup {t} ELSE excused
    /\ UNCHANGED <<accounts, webhooks, subscribed, disturbed, hookHistory, request, starts, faults>>

-------------------------------------------------------------------------------
(* The webhook of the workspace: test, save, list, delete the others *)

InHook(t) == {r \in OnTenant(t) : request[r].pc \in {"list", "delete"}}

StartHook(r, t, h) ==
    /\ ~Running(r) /\ starts < MaxStarts
    /\ request' = [request EXCEPT ![r] = [Idle EXCEPT !.pc = "test", !.via = "hook",
                                                      !.tenant = t, !.asked = h, !.n = starts + 1]]
    /\ starts' = starts + 1
    /\ UNCHANGED <<tables, history, faults>>

\* an update keeps the id of the row, an insert has a new one
SavedHook(rows, h, id) ==
    IF \E row \in rows : row.hook = h THEN rows ELSE rows \cup {[hook |-> h, id |-> id]}

SaveHook(r) ==
    LET t == request[r].tenant IN
    /\ request[r].pc = "test"
    /\ webhooks' = [webhooks EXCEPT ![t] = SavedHook(@, request[r].asked, request[r].n)]
    /\ hooked' = hooked \cup {t}
    /\ clashed' = IF InHook(t) # {} THEN clashed \cup {t} ELSE clashed
    /\ attached' = [attached EXCEPT ![t] = @ \ {request[r].asked}]
    /\ Set(r, "pc", "list")
    /\ UNCHANGED <<accounts, plan, subscribed, excused, disturbed, starts, faults>>

\* mutant of ListHooks: its own row is not spared
ListAllHooks(r) ==
    /\ request[r].pc = "list"
    /\ request' = [request EXCEPT ![r].pc = "delete",
                                  ![r].ids = {row.id : row \in webhooks[request[r].tenant]}]
    /\ UNCHANGED <<tables, history, starts, faults>>

ListHooks(r) ==
    LET others == {row \in webhooks[request[r].tenant] : row.hook # request[r].asked} IN
    /\ request[r].pc = "list"
    /\ IF others = {} THEN Ends(r)
       ELSE /\ request' = [request EXCEPT ![r].pc = "delete", ![r].ids = {row.id : row \in others}]
            /\ UNCHANGED disturbed
    /\ UNCHANGED <<tables, excused, hookHistory, starts, faults>>

DeleteHook(r) ==
    LET t == request[r].tenant IN
    /\ request[r].pc = "delete"
    /\ \E id \in request[r].ids :
           /\ webhooks' = [webhooks EXCEPT ![t] = {row \in @ : row.id # id}]
           /\ IF request[r].ids = {id} THEN Ends(r)
              ELSE Set(r, "ids", request[r].ids \ {id}) /\ UNCHANGED disturbed
    /\ UNCHANGED <<accounts, plan, subscribed, excused, hookHistory, starts, faults>>

(* POST /integrations/connect with the platform "webhook", which is not a   *)
(* channel: no slot is needed, and the rows that are there already stay.    *)
StartAttach(r, t, h) ==
    /\ ~Running(r) /\ starts < MaxStarts
    /\ plan[t] # "ended"
    /\ request' = [request EXCEPT ![r] = [Idle EXCEPT !.pc = "attach", !.via = "connect",
                                                      !.tenant = t, !.asked = h, !.n = starts + 1]]
    /\ starts' = starts + 1
    /\ UNCHANGED <<tables, history, faults>>

AttachHook(r) ==
    LET t == request[r].tenant
        h == request[r].asked
    IN
    /\ request[r].pc = "attach"
    /\ webhooks' = [webhooks EXCEPT ![t] = SavedHook(@, h, request[r].n)]
    /\ attached' = IF \E row \in webhooks[t] : row.hook = h THEN attached
                   ELSE [attached EXCEPT ![t] = @ \cup {h}]
    /\ Ends(r)
    /\ UNCHANGED <<accounts, plan, subscribed, excused, hooked, clashed, starts, faults>>

\* POST /integrations/disconnect with the platform "webhook"
DropWebhooks(t) ==
    /\ webhooks[t] # {}
    /\ webhooks' = [webhooks EXCEPT ![t] = {}]
    /\ hooked' = hooked \ {t} /\ attached' = [attached EXCEPT ![t] = {}]
    /\ UNCHANGED <<accounts, plan, subscribed, excused, disturbed, clashed, request, starts, faults>>

-------------------------------------------------------------------------------
\* the process dies or a store call raises
Crash(r) ==
    /\ Running(r) /\ faults < MaxFaults
    /\ faults' = faults + 1
    /\ Ends(r)
    /\ UNCHANGED <<tables, excused, hookHistory, starts>>

Lists == {list \in UNION {[1..n -> Pages] : n \in 0..Cardinality(Pages)} :
              \A i, j \in DOMAIN list : list[i] = list[j] => i = j}

Connecting(r) ==
    \/ \E t \in Tenants :
           \/ Start(r, t, "oauth", None)
           \/ \E a \in Accounts : Start(r, t, "connect", a)
           \/ \E a \in Pages : Start(r, t, "token", a)
    \/ \E list \in Lists : ListPages(r, list)
    \/ CheckSlot(r)
    \/ \E page \in Pages : Resolve(r, page)
    \/ Refused(r)
    \/ SavePage(r)
    \/ SubscribePage(r)

Notifying(r) ==
    \/ \E t \in Tenants, h \in Hooks : StartHook(r, t, h) \/ StartAttach(r, t, h)
    \/ SaveHook(r) \/ ListHooks(r) \/ DeleteHook(r) \/ AttachHook(r)

ChannelsInit ==
    /\ accounts = [t \in Tenants |-> <<>>]
    /\ webhooks = [t \in Tenants |-> {}]
    /\ plan \in [Tenants -> {"pro", "agency"}]
    /\ subscribed = {}
    /\ request = [r \in Requests |-> Idle]
    /\ starts = 0 /\ faults = 0
    /\ excused = {} /\ disturbed = {} /\ hooked = {} /\ clashed = {}
    /\ attached = [t \in Tenants |-> {}]

ChannelsNext ==
    \/ \E r \in Requests : Connecting(r) \/ Notifying(r) \/ Crash(r)
    \/ \E t \in Tenants :
           \/ Disconnect(t, Pages) \/ Disconnect(t, ApiAccounts) \/ DropWebhooks(t)
           \/ \E p \in Plans : ChangePlan(t, p)

ChannelsSpec == ChannelsInit /\ [][ChannelsNext]_channelVars

-------------------------------------------------------------------------------
\* Rows are unique by account, handlers hold what their step needs.
ChannelsTypeOK ==
    /\ accounts \in [Tenants -> Seq(Accounts)]
    /\ \A t \in Tenants : Cardinality(Members(accounts[t])) = Len(accounts[t])
    /\ webhooks \in [Tenants -> SUBSET Hook]
    /\ plan \in [Tenants -> Plans]
    /\ subscribed \subseteq Pages
    /\ \A r \in Requests :
           /\ request[r].tenant \in Tenants \cup {None}
           /\ request[r].pc \in {"save", "subscribe"} => request[r].n \in 0..Len(request[r].pages)
    /\ starts \in 0..MaxStarts /\ faults \in 0..MaxFaults
    /\ excused \cup hooked \cup clashed \subseteq Tenants /\ disturbed \subseteq Requests
    /\ attached \in [Tenants -> SUBSET Hooks]

(* "A Pro workspace keeps at most 3 channels".  The slot is checked on one  *)
(* read and used in a later write, so the cap holds unless two handlers of  *)
(* the workspace held slots at the same time, the pasted token resolved to  *)
(* another Page than the slot was for, or the workspace left the agency     *)
(* plan with more or while a handler was at work.                           *)
CapKept == \A t \in Tenants \ excused : plan[t] # "agency" => Channels(t) <= Limit

(* "Save in reverse so the first page Meta lists ends up as the most        *)
(* recently updated (the default)": once a callback has saved its Pages and *)
(* nobody touched the workspace's rows meanwhile, the first is the default. *)
FirstPageIsDefault ==
    \A r \in Requests \ disturbed :
        request[r].via = "oauth" /\ request[r].pc = "subscribe" =>
            DefaultPage(request[r].tenant) = request[r].pages[1]

(* "One webhook per workspace: drop any previously saved one."  Once the    *)
(* handlers of POST /integrations/webhook have finished there is one row at *)
(* most, unless one of them died, besides those that POST                   *)
(* /integrations/connect added: it deletes no other.  And a workspace that  *)
(* saved one has one, unless two saves overlapped: each then may list the   *)
(* other's row and delete it.                                               *)
OneWebhook ==
    \A t \in Tenants :
        /\ InHook(t) = {} /\ faults = 0 =>
               Cardinality({row \in webhooks[t] : row.hook \notin attached[t]}) <= 1
        /\ t \in hooked \ clashed => webhooks[t] # {}

===============================================================================
