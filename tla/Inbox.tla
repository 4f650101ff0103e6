-------------------------------- MODULE Inbox ---------------------------------
(***************************************************************************)
(* Comments on the connected Pages: Meta delivers batches of comment       *)
(* events, at least once and in any order; the webhook stores each event   *)
(* for every workspace that has the Page connected (module Channels), one  *)
(* transaction per workspace, and acknowledges the batch at the end.  A    *)
(* merchant replies with the credentials of the Page a comment came to.    *)
(*                                                                         *)
(* A comment goes through versions: it is added, edited, and removed by    *)
(* the last one.  An event is a comment, one of its versions and the       *)
(* message it carries; a message the event leaves out (a removal, a photo  *)
(* without words) the row keeps, an empty one it takes over.               *)
(***************************************************************************)
EXTENDS Channels

CONSTANTS
    Workers,     \* threads that handle deliveries and replies
    Comments,
    PageOf,      \* the Page a comment was made on
    Removed,     \* the version that removes a comment; 1 adds it
    MaxReplies   \* bound: replies in one behaviour

ASSUME InboxAssumption ==
    /\ PageOf \in [Comments -> Pages]
    /\ Removed \in Nat \ {0, 1} /\ MaxReplies \in Nat

VARIABLES
    version,     \* what has happened to each comment on Facebook
    events,      \* events Meta has to deliver
    acked,       \* those it got an answer for
    comments,    \* page_comments of each workspace
    worker,      \* what each thread is doing
    replies,     \* replies posted, and as which Page
    since,       \* history: workspaces connected since the comment was made
    late,        \* history: comments where an older event was stored last
    astray       \* history: threads whose caller passed a token, whose comment was
                 \* not stored when the reply began, or whose Page was not
                 \* connected all along

meta == <<version, events, acked>>
inboxVars == <<meta, comments, worker, replies, since, late, astray>>
vars == <<channelVars, inboxVars>>

-------------------------------------------------------------------------------
Missing == -1  \* an event without a message
Blank == 0     \* an empty message, or no text stored; else the version of the text
Texts(v) == IF v = Removed THEN {Missing} ELSE {Missing, Blank, v}

Events == [comment : Comments, version : 1..Removed, text : Missing..Removed]
NoComment == [verb |-> 0, text |-> Blank]
Free == [pc |-> "free", batch |-> <<>>, n |-> 0, tenants |-> {}, tenant |-> None,
         comment |-> None, page |-> None]

CommentRow == [verb : 0..Removed, text : 0..Removed]

\* mutant of Upserted: the text is overwritten by what the event does not have
UpsertedBlank(row, e) == [verb |-> e.version, text |-> IF e.text = Missing THEN Blank ELSE e.text]

(* save_page_comment: the verb is always the event's; COALESCE keeps the    *)
(* fields the event does not have.                                          *)
Upserted(row, e) == [verb |-> e.version, text |-> IF e.text = Missing THEN row.text ELSE e.text]

\* tenants_for_page: every workspace the Page is connected to
TenantsFor(page) == {t \in Tenants : page \in Members(accounts[t])}

\* threads at work on a reply
AtReply == {d \in Workers : worker[d].pc \in {"credentials", "default", "send"}}

Current(d) == worker[d].batch[worker[d].n]
Becomes(d, w) == worker' = [worker EXCEPT ![d] = w]

\* the next event of the batch, or the acknowledgement
Onwards(d) ==
    Becomes(d, IF worker[d].n < Len(worker[d].batch)
               THEN [worker[d] EXCEPT !.pc = "route", !.n = @ + 1, !.tenants = {}]
               ELSE [worker[d] EXCEPT !.pc = "ack", !.tenants = {}])

-------------------------------------------------------------------------------
(* Facebook: what happens to comments, and deliveries of what happened *)

Happens(c) ==
    /\ version[c] < Removed
    /\ \E v \in {version[c] + 1, Removed} : \E text \in Texts(v) :
           /\ v > 1 => version[c] > 0
           /\ version' = [version EXCEPT ![c] = v]
           /\ events' = IF PageOf[c] \in subscribed
                        THEN events \cup {[comment |-> c, version |-> v, text |-> text]}
                        ELSE events
    /\ since' = IF version[c] = 0 THEN [since EXCEPT ![c] = TenantsFor(PageOf[c])] ELSE since
    /\ UNCHANGED <<channelVars, acked, comments, worker, replies, late, astray>>

\* one event, or two that happened in this order
Batches ==
    LET open == events \ acked
        InOrder(b) == b[1] # b[2] /\ (b[1].comment = b[2].comment => b[1].version < b[2].version)
    IN {<<e>> : e \in open} \cup {b \in open \X open : InOrder(b)}

\* POST /webhook with a batch, new or repeated
Receive(d, batch) ==
    /\ worker[d].pc = "free"
    /\ Becomes(d, [Free EXCEPT !.pc = "route", !.batch = batch, !.n = 1])
    /\ UNCHANGED <<channelVars, meta, comments, replies, since, late, astray>>

-------------------------------------------------------------------------------
(* _persist: for each event the workspaces are read, then written one by one *)

Route(d) ==
    LET tenants == TenantsFor(PageOf[Current(d).comment]) IN
    /\ worker[d].pc = "route"
    /\ IF tenants = {} THEN Onwards(d)
       ELSE Becomes(d, [worker[d] EXCEPT !.pc = "store", !.tenants = tenants])
    /\ UNCHANGED <<channelVars, meta, comments, replies, since, late, astray>>

\* mutant of Store: the first workspace of a Page has it, the others do not
StoreForOne(d, t) ==
    LET e == Current(d) IN
    /\ worker[d].pc = "store" /\ t \in worker[d].tenants
    /\ comments' = [comments EXCEPT ![t][e.comment] = Upserted(@, e)]
    /\ late' = IF comments[t][e.comment].verb > e.version THEN late \cup {e.comment} ELSE late
    /\ Onwards(d)
    /\ UNCHANGED <<channelVars, meta, replies, since, astray>>

Store(d, t) ==
    LET e == Current(d) IN
    /\ worker[d].pc = "store" /\ t \in worker[d].tenants
    /\ comments' = [comments EXCEPT ![t][e.comment] = Upserted(@, e)]
    /\ late' = IF comments[t][e.comment].verb > e.version THEN late \cup {e.comment} ELSE late
    /\ IF worker[d].tenants = {t} THEN Onwards(d)
       ELSE Becomes(d, [worker[d] EXCEPT !.tenants = @ \ {t}])
    /\ UNCHANGED <<channelVars, meta, replies, since, astray>>

\* EVENT_RECEIVED reaches Meta, or it is lost and Meta delivers again
Acknowledge(d) ==
    /\ worker[d].pc = "ack"
    /\ acked' = acked \cup Members(worker[d].batch) \/ UNCHANGED acked
    /\ Becomes(d, Free)
    /\ UNCHANGED <<channelVars, version, events, comments, replies, since, late, astray>>

\* the store raises or the process dies: no answer, and the whole batch comes again
Fails(d) ==
    /\ worker[d].pc \in {"route", "store"} /\ faults < MaxFaults
    /\ faults' = faults + 1
    /\ Becomes(d, Free)
    /\ UNCHANGED <<tables, history, request, starts, meta, comments, replies, since, late, astray>>

-------------------------------------------------------------------------------
(* POST /reply-comment: the stored comment names the Page, the Page its token *)

StartReply(d, t, c) ==
    LET stored == comments[t][c] # NoComment IN
    /\ worker[d].pc = "free" /\ Len(replies) < MaxReplies /\ version[c] > 0
    /\ Becomes(d, [Free EXCEPT !.pc = "credentials", !.tenant = t, !.comment = c,
                               !.page = IF stored THEN PageOf[c] ELSE None])
    /\ astray' = IF stored /\ t \in TenantsFor(PageOf[c]) THEN astray \ {d} ELSE astray \cup {d}
    /\ UNCHANGED <<channelVars, meta, comments, replies, since, late>>

\* page_token: the caller's token replies, whatever is stored and connected
StartReplyAs(d, t, c, page) ==
    /\ worker[d].pc = "free" /\ Len(replies) < MaxReplies /\ version[c] > 0
    /\ Becomes(d, [Free EXCEPT !.pc = "send", !.tenant = t, !.comment = c, !.page = page])
    /\ astray' = astray \cup {d}
    /\ UNCHANGED <<channelVars, meta, comments, replies, since, late>>

\* mutant of Credentials: always the workspace's default Page
CredentialsDefault(d) ==
    /\ worker[d].pc = "credentials"
    /\ Becomes(d, [worker[d] EXCEPT !.pc = "default"])
    /\ UNCHANGED <<channelVars, meta, comments, replies, since, late, astray>>

\* _facebook_credentials: the account of that Page, if it is still connected
Credentials(d) ==
    LET w == worker[d] IN
    /\ w.pc = "credentials"
    /\ Becomes(d, [w EXCEPT !.pc = IF w.page \in Members(accounts[w.tenant]) THEN "send" ELSE "default"])
    /\ UNCHANGED <<channelVars, meta, comments, replies, since, late, astray>>

\* else the workspace's default Page; without one the reply is refused
Default(d) ==
    LET page == DefaultPage(worker[d].tenant) IN
    /\ worker[d].pc = "default"
    /\ IF page = None THEN Becomes(d, Free) /\ astray' = astray \ {d}
       ELSE Becomes(d, [worker[d] EXCEPT !.pc = "send", !.page = page]) /\ UNCHANGED astray
    /\ UNCHANGED <<channelVars, meta, comments, replies, since, late>>

Send(d) ==
    LET w == worker[d] IN
    /\ w.pc = "send"
    /\ Len(replies) < MaxReplies
    /\ replies' = Append(replies, [tenant |-> w.tenant, comment |-> w.comment, page |-> w.page])
    /\ Becomes(d, Free) /\ astray' = astray \ {d}
    /\ UNCHANGED <<channelVars, meta, comments, since, late>>

-------------------------------------------------------------------------------
Handling(d) ==
    \/ \E batch \in Batches : Receive(d, batch)
    \/ Route(d)
    \/ \E t \in Tenants : Store(d, t)
    \/ Acknowledge(d)
    \/ Fails(d)

Replying(d) ==
    \/ \E t \in Tenants, c \in Comments :
           StartReply(d, t, c) \/ \E page \in Pages : StartReplyAs(d, t, c, page)
    \/ Credentials(d) \/ Default(d) \/ Send(d)

ConnectionsMove ==
    /\ ChannelsNext
    /\ since' = [c \in Comments |-> {t \in since[c] : PageOf[c] \in Members(accounts'[t])}]
    /\ astray' = astray \cup {d \in AtReply :
           PageOf[worker[d].comment] \notin Members(accounts'[worker[d].tenant])}
    /\ UNCHANGED <<meta, comments, worker, replies, late>>

InboxInit ==
    /\ version = [c \in Comments |-> 0]
    /\ events = {} /\ acked = {}
    /\ comments = [t \in Tenants |-> [c \in Comments |-> NoComment]]
    /\ worker = [d \in Workers |-> Free]
    /\ replies = <<>>
    /\ since = [c \in Comments |-> {}]
    /\ late = {} /\ astray = {}

Init == ChannelsInit /\ InboxInit

Next ==
    \/ \E c \in Comments : Happens(c)
    \/ \E d \in Workers : Handling(d) \/ Replying(d)
    \/ ConnectionsMove

Spec == Init /\ [][Next]_vars

-------------------------------------------------------------------------------
Reply == [tenant : Tenants, comment : Comments, page : Pages]

InboxTypeOK ==
    /\ version \in [Comments -> 0..Removed]
    /\ acked \subseteq events /\ events \subseteq Events
    /\ comments \in [Tenants -> [Comments -> CommentRow]]
    /\ \A d \in Workers :
           worker[d].pc \in {"route", "store"} => worker[d].n \in 1..Len(worker[d].batch)
    /\ replies \in Seq(Reply) /\ Len(replies) <= MaxReplies
    /\ since \in [Comments -> SUBSET Tenants]
    /\ late \subseteq Comments /\ astray \subseteq Workers

\* Rows, threads and replies are the records the handlers build; no account of a
\* workspace has two rows, and no handler of a batch runs past its end.
TypeOK == ChannelsTypeOK /\ InboxTypeOK

(* An event Meta got an answer for is shown, with its verb or a later one,  *)
(* to every workspace that was connected all along, however often handling  *)
(* a batch failed half way.  The exception is a comment whose older event   *)
(* was stored after a newer one: rows carry no version, so a late or        *)
(* repeated event wins.                                                     *)
AckedIsShown ==
    \A e \in acked : \A t \in since[e.comment] :
        e.comment \in late \/ comments[t][e.comment].verb >= e.version

(* "fields missing from a later event keep their stored value": once a      *)
(* workspace has the text of a comment, only an event that carries an empty *)
(* message takes it away, never one without a message such as a removal.    *)
TextIsKept ==
    [][\A t \in Tenants, c \in Comments :
          comments[t][c].text # Blank /\ comments'[t][c].text = Blank =>
              \E d \in Workers : /\ worker[d].pc = "store"
                                 /\ Current(d).comment = c /\ Current(d).text = Blank]_vars

(* "The page that received the comment decides which Page token replies":   *)
(* a reply goes out as another Page only when the caller passed the token   *)
(* of one, the workspace had not stored the comment as the reply began, or  *)
(* its Page was disconnected by then or meanwhile.                          *)
RepliesAsItsPage ==
    \A d \in Workers :
        worker[d].pc = "send" /\ worker[d].page # PageOf[worker[d].comment] => d \in astray

===============================================================================
