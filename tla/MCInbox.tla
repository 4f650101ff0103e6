-------------------------------- MODULE MCInbox -------------------------------
(***************************************************************************)
(* Model-checking instance of Inbox and of the Channels below it.  Four    *)
(* scenarios whose state spaces add up instead of multiplying:             *)
(*   connect   handlers of one workspace connect and disconnect accounts,  *)
(*             its plan changes but does not end;                          *)
(*   notify    handlers of one workspace save and remove webhooks;         *)
(*   deliver   both workspaces start with connected Pages, comments are    *)
(*             added, then edited or removed, and delivered, Pages         *)
(*             disconnected;                                               *)
(*   reply     the same start, a comment is delivered and answered, Pages  *)
(*             are disconnected and one of them is connected again.        *)
(***************************************************************************)
EXTENDS Inbox, TLC

CONSTANTS t1, t2, g1, g2, c1, c2

VARIABLE scenario

MCPageOf == [c \in Comments |-> IF c = c1 THEN g1 ELSE g2]
Symmetry == Permutations(Requests) \cup Permutations(Workers)
                \cup Permutations(Hooks) \cup Permutations(ApiAccounts)

Connected == [t \in Tenants |-> IF t = t1 THEN <<g2, g1>> ELSE <<g1>>]

ConnectInit == scenario \in {"connect", "notify"} /\ Init /\ plan[t2] = "pro"

CommentInit ==
    /\ scenario \in {"deliver", "reply"}
    /\ accounts = Connected /\ subscribed = Pages
    /\ webhooks = [t \in Tenants |-> {}] /\ plan = [t \in Tenants |-> "pro"]
    /\ request = [r \in Requests |-> Idle] /\ starts = MaxStarts - 1 /\ faults = 0
    /\ excused = {} /\ disturbed = {} /\ hooked = {} /\ clashed = {}
    /\ attached = [t \in Tenants |-> {}]
    /\ InboxInit

MCInit == ConnectInit \/ CommentInit

OnlyFirst ==
    /\ accounts'[t2] = <<>> /\ webhooks'[t2] = {} /\ plan'[t2] = plan[t2]
    /\ \A r \in Requests : request'[r].tenant # t2

MCNext ==
    /\ UNCHANGED scenario
    /\ \/ /\ scenario = "connect" /\ ConnectionsMove /\ OnlyFirst
          /\ \A r \in Requests : request'[r].asked \notin Hooks
          /\ plan'[t1] # "ended"
       \/ /\ scenario = "notify" /\ ConnectionsMove /\ OnlyFirst
          /\ \A r \in Requests : request'[r].asked \in {None} \cup Hooks
          /\ \A r \in Requests : request'[r].via # "oauth"
       \/ /\ scenario = "deliver"
          /\ UNCHANGED <<plan, webhooks, request>> /\ Next /\ AtReply' = {}
          /\ Cardinality(events') <= 2 /\ \A e \in events' : e.version = 1 => e.text = 1
       \/ /\ scenario = "reply"
          /\ UNCHANGED <<plan, webhooks>> /\ Next
          /\ \A e \in events' : e.version = 1 /\ e.text = 1
          /\ \A r \in Requests : request'[r].asked \in {None, g2} /\ request'[r].tenant # t2
          /\ \A r \in Requests : request'[r].via \in {"none", "connect"}

MCSpec == MCInit /\ [][MCNext]_<<vars, scenario>>

===============================================================================
