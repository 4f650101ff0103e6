------------------------------- MODULE Accounts -------------------------------
(***************************************************************************)
(* Accounts and emailed verification codes of one email address: sending  *)
(* a sign-up or password-reset code, registering with one, resetting a    *)
(* password with one, and signing in.  Every table is keyed by the email,  *)
(* so one address stands for all of them.                                  *)
(*                                                                         *)
(* A handler runs in a thread of some web process and makes each store     *)
(* call in a transaction of its own; handlers interleave between them.     *)
(* A code is the number of its issue (two codes never collide), and what a *)
(* merchant types is a code that reached the inbox, or Wrong.  The         *)
(* deployment asks for a code at sign-up (EMAIL_VERIFICATION_REQUIRED, on  *)
(* by default) and has SMTP configured.                                    *)
(***************************************************************************)
EXTENDS Integers, FiniteSets

CONSTANTS
    Requests,     \* handler threads
    Passwords,    \* passwords people choose
    NoPassword,   \* the password of a request that has none
    MaxCodes,     \* bound: codes issued in one behaviour
    MaxTime,      \* bound: ticks of the clock
    MaxFaults,    \* bound: handlers that die half way
    MaxAttempts,  \* VERIFICATION_MAX_ATTEMPTS
    CodeTtl,      \* VERIFICATION_CODE_TTL_SECONDS, in ticks
    ResendPause   \* VERIFICATION_RESEND_SECONDS, in ticks

ASSUME AccountsAssumption ==
    /\ IsFiniteSet(Requests)
    /\ Passwords # {} /\ NoPassword \notin Passwords
    /\ MaxCodes \in Nat \ {0} /\ MaxTime \in Nat /\ MaxFaults \in Nat
    /\ MaxAttempts \in Nat \ {0} /\ CodeTtl \in Nat \ {0} /\ ResendPause \in Nat

VARIABLES
    pending,   \* email_verification_codes: the row of each purpose, or NoRow
    inbox,     \* codes the mail server delivered, by purpose
    issued,    \* number of codes generated so far
    user,      \* the users row of the address, or NoUser
    tenants,   \* workspaces created for the address
    trial,     \* the owner's workspace has its subscription
    request,   \* what each handler is doing
    now, faults,
    uses,      \* history: successful uses of each code
    misses,    \* history: wrong guesses compared with each code
    intended,  \* history: the password last chosen
    overtaken  \* history: a sign-in was rehashing when the password was reset

codeVars == <<pending, inbox, issued>>
accountVars == <<user, tenants, trial>>
historyVars == <<uses, misses, intended, overtaken>>
vars == <<codeVars, accountVars, historyVars, request, now, faults>>

-------------------------------------------------------------------------------
Purposes == {"register", "reset_password"}
Codes == 1..MaxCodes
Wrong == 0                      \* typed: anything that is not the code
NoRow == [code |-> 0, attempts |-> 0, created |-> 0, expires |-> 0]
Row == [code : Codes, attempts : Nat, created : Nat, expires : Nat]
NoUser == [password |-> NoPassword, legacy |-> FALSE]
User == [password : Passwords, legacy : BOOLEAN]

Idle == [pc |-> "idle", purpose |-> "register", code |-> 0, at |-> 0, password |-> NoPassword]
Steps == {"issue", "store", "mail", "drop", "check", "expire", "miss", "take",
          "tenant", "user", "trial", "password", "rehash"}
Request == {Idle} \cup
    [pc : Steps, purpose : Purposes, code : 0..MaxCodes, at : Nat,
     password : Passwords \cup {NoPassword}]

HasUser == user # NoUser
At(r, step) == request[r].pc = step
InFlight(step, c) == {r \in Requests : At(r, step) /\ request[r].code = c}

Goto(r, step) == request' = [request EXCEPT ![r].pc = step]
Ends(r) == request' = [request EXCEPT ![r] = Idle]

\* mutant of Deleted: by email and purpose alone
DeletedByKey(p, c) == [pending EXCEPT ![p] = NoRow]

(* delete_verification_code with a code_hash: the row goes only if it still *)
(* holds that code.                                                         *)
Deleted(p, c) == IF pending[p].code = c THEN [pending EXCEPT ![p] = NoRow] ELSE pending

\* mutant of Won: what the DELETE found is not looked at
WonAnyway(p, c) == TRUE

\* the DELETE of consume_code found its row: of concurrent requests one wins
Won(p, c) == pending[p].code = c

(* save_verification_code drops every row past its end and puts the new one *)
(* in place of whatever the purpose had.                                    *)
Saved(p, row) ==
    [q \in Purposes |-> IF q = p THEN row
                        ELSE IF pending[q].expires < now THEN NoRow ELSE pending[q]]

\* mutant of Counted: an upsert
CountedByUpsert(p) == [pending EXCEPT ![p].attempts = @ + 1]

(* record_verification_failure counts on whatever row the purpose has now. *)
Counted(p) ==
    IF pending[p] = NoRow THEN pending
    ELSE [pending EXCEPT ![p].attempts = @ + 1]

RecentlySent(row) == row # NoRow /\ row.created + ResendPause > now
Expired(row) == row.expires <= now

\* mutant of Exhausted: one guess more
ExhaustedLate(row) == row.attempts > MaxAttempts
Exhausted(row) == row.attempts >= MaxAttempts

-------------------------------------------------------------------------------
(* The endpoints' first step: what they look up before the code is touched. *)

\* POST /auth/register/send-code and /auth/password/send-code
SendCode(r, p) ==
    /\ At(r, "idle")
    /\ HasUser <=> p = "reset_password"
    /\ request' = [request EXCEPT ![r] = [Idle EXCEPT !.pc = "issue", !.purpose = p]]
    /\ UNCHANGED <<codeVars, accountVars, historyVars, now, faults>>

\* POST /auth/register and /auth/password/reset, with what was typed
Submit(r, p, typed, password) ==
    /\ At(r, "idle")
    /\ p = "register" => ~HasUser
    /\ request' = [request EXCEPT ![r] = [pc |-> "check", purpose |-> p, code |-> typed,
                                          at |-> 0, password |-> password]]
    /\ UNCHANGED <<codeVars, accountVars, historyVars, now, faults>>

\* mutant of Login: the password is not verified
LoginUnverified(r, password) ==
    /\ At(r, "idle")
    /\ HasUser /\ user.legacy
    /\ request' = [request EXCEPT ![r] = [Idle EXCEPT !.pc = "rehash", !.password = password]]
    /\ UNCHANGED <<codeVars, accountVars, historyVars, now, faults>>

\* POST /auth/login: the hash is read and verified; an old format is replaced
Login(r, password) ==
    /\ At(r, "idle")
    /\ HasUser /\ user.password = password
    /\ user.legacy
    /\ request' = [request EXCEPT ![r] = [Idle EXCEPT !.pc = "rehash", !.password = password]]
    /\ UNCHANGED <<codeVars, accountVars, historyVars, now, faults>>

-------------------------------------------------------------------------------
(* issue_code *)

IssueCheck(r) ==
    LET p == request[r].purpose IN
    /\ At(r, "issue")
    /\ IF RecentlySent(pending[p]) THEN Ends(r)
       ELSE request' = [request EXCEPT ![r].pc = "store", ![r].at = now]
    /\ UNCHANGED <<codeVars, accountVars, historyVars, now, faults>>

StoreCode(r) ==
    LET p == request[r].purpose IN
    /\ At(r, "store") /\ issued < MaxCodes
    /\ issued' = issued + 1
    /\ pending' = Saved(p, [code |-> issued', attempts |-> 0,
                            created |-> now, expires |-> request[r].at + CodeTtl])
    /\ request' = [request EXCEPT ![r].pc = "mail", ![r].code = issued']
    /\ UNCHANGED <<inbox, accountVars, historyVars, now, faults>>

MailArrives(r) ==
    inbox' = [inbox EXCEPT ![request[r].purpose] = @ \cup {request[r].code}]

MailSent(r) ==
    /\ At(r, "mail")
    /\ MailArrives(r)
    /\ Ends(r)
    /\ UNCHANGED <<pending, issued, accountVars, historyVars, now, faults>>

\* mutant of MailFails: the code of a failed delivery is kept
MailFailsKept(r) ==
    /\ At(r, "mail")
    /\ Ends(r)
    /\ UNCHANGED <<codeVars, accountVars, historyVars, now, faults>>

\* MailDeliveryError: refused, or the connection broke after the message was taken
MailFails(r) ==
    /\ At(r, "mail")
    /\ MailArrives(r) \/ UNCHANGED inbox
    /\ Goto(r, "drop")
    /\ UNCHANGED <<pending, issued, accountVars, historyVars, now, faults>>

DropCode(r) ==
    /\ At(r, "drop")
    /\ pending' = Deleted(request[r].purpose, request[r].code)
    /\ Ends(r)
    /\ UNCHANGED <<inbox, issued, accountVars, historyVars, now, faults>>

-------------------------------------------------------------------------------
(* consume_code: the row is read and judged, then written in a second call. *)

CheckCode(r) ==
    LET row == pending[request[r].purpose]
        typed == request[r].code
        Judged(step) == request' = [request EXCEPT ![r].pc = step, ![r].code = row.code]
    IN
    /\ At(r, "check")
    /\ \/ /\ row = NoRow
          /\ Ends(r) /\ UNCHANGED misses
       \/ /\ row # NoRow /\ Expired(row)
          /\ Judged("expire") /\ UNCHANGED misses
       \/ /\ row # NoRow /\ ~Expired(row) /\ Exhausted(row)
          /\ Ends(r) /\ UNCHANGED misses
       \/ /\ row # NoRow /\ ~Expired(row) /\ ~Exhausted(row) /\ typed # row.code
          /\ Judged("miss")
          /\ misses' = [misses EXCEPT ![row.code] = @ + 1]
       \/ /\ row # NoRow /\ ~Expired(row) /\ ~Exhausted(row) /\ typed = row.code
          /\ Judged("take") /\ UNCHANGED misses
    /\ UNCHANGED <<codeVars, accountVars, uses, intended, overtaken, now, faults>>

ExpireCode(r) ==
    /\ At(r, "expire")
    /\ pending' = Deleted(request[r].purpose, request[r].code)
    /\ Ends(r)
    /\ UNCHANGED <<inbox, issued, accountVars, historyVars, now, faults>>

RecordMiss(r) ==
    /\ At(r, "miss")
    /\ pending' = Counted(request[r].purpose)
    /\ Ends(r)
    /\ UNCHANGED <<inbox, issued, accountVars, historyVars, now, faults>>

TakeCode(r) ==
    LET p == request[r].purpose IN
    /\ At(r, "take")
    /\ pending' = Deleted(p, request[r].code)
    /\ IF Won(p, request[r].code)
       THEN /\ Goto(r, IF p = "register" THEN "tenant" ELSE "password")
            /\ uses' = [uses EXCEPT ![request[r].code] = @ + 1]
       ELSE Ends(r) /\ UNCHANGED uses
    /\ UNCHANGED <<inbox, issued, accountVars, misses, intended, overtaken, now, faults>>

-------------------------------------------------------------------------------
(* What a good code allows. *)

CreateTenant(r) ==
    /\ At(r, "tenant")
    /\ tenants' = tenants + 1
    /\ Goto(r, "user")
    /\ UNCHANGED <<codeVars, user, trial, historyVars, now, faults>>

\* mutant of CreateUser: the handler answers before it starts the trial
CreateUserOnly(r) ==
    /\ At(r, "user")
    /\ IF HasUser THEN UNCHANGED <<user, intended>>
       ELSE /\ user' = [password |-> request[r].password, legacy |-> FALSE]
            /\ intended' = request[r].password
    /\ Ends(r)
    /\ UNCHANGED <<codeVars, tenants, trial, uses, misses, overtaken, now, faults>>

\* emails are unique: a second row is an IntegrityError and the request ends
CreateUser(r) ==
    /\ At(r, "user")
    /\ IF HasUser
       THEN Ends(r) /\ UNCHANGED <<user, intended>>
       ELSE /\ user' = [password |-> request[r].password, legacy |-> FALSE]
            /\ intended' = request[r].password
            /\ Goto(r, "trial")
    /\ UNCHANGED <<codeVars, tenants, trial, uses, misses, overtaken, now, faults>>

StartTrial(r) ==
    /\ At(r, "trial")
    /\ trial' = TRUE
    /\ Ends(r)
    /\ UNCHANGED <<codeVars, user, tenants, historyVars, now, faults>>

\* get_user_by_email and set_user_password: nothing ever deletes a users row
SetPassword(r) ==
    /\ At(r, "password")
    /\ IF HasUser
       THEN /\ user' = [password |-> request[r].password, legacy |-> FALSE]
            /\ intended' = request[r].password
            /\ overtaken' = \E q \in Requests : At(q, "rehash")
       ELSE UNCHANGED <<user, intended, overtaken>>
    /\ Ends(r)
    /\ UNCHANGED <<codeVars, tenants, trial, uses, misses, now, faults>>

\* the UPDATE of authenticate_user names the row by its id alone
Rehash(r) ==
    /\ At(r, "rehash")
    /\ user' = [password |-> request[r].password, legacy |-> FALSE]
    /\ Ends(r)
    /\ UNCHANGED <<codeVars, tenants, trial, historyVars, now, faults>>

-------------------------------------------------------------------------------
\* the process dies, a store call raises, or SMTP code raises something else
Crash(r) ==
    /\ ~At(r, "idle") /\ faults < MaxFaults
    /\ faults' = faults + 1
    /\ Ends(r)
    /\ UNCHANGED <<codeVars, accountVars, historyVars, now>>

Tick ==
    /\ now < MaxTime
    /\ now' = now + 1
    /\ UNCHANGED <<codeVars, accountVars, historyVars, request, faults>>

IssueStep(r) == IssueCheck(r) \/ StoreCode(r) \/ MailSent(r) \/ MailFails(r) \/ DropCode(r)
ConsumeStep(r) == CheckCode(r) \/ ExpireCode(r) \/ RecordMiss(r) \/ TakeCode(r)
AccountStep(r) ==
    CreateTenant(r) \/ CreateUser(r) \/ StartTrial(r) \/ SetPassword(r) \/ Rehash(r)

Endpoint(r) ==
    \/ \E p \in Purposes : SendCode(r, p)
    \/ \E p \in Purposes, password \in Passwords :
           \E typed \in inbox[p] \cup {Wrong} : Submit(r, p, typed, password)
    \/ \E password \in Passwords : Login(r, password)

\* the address is new, or has an account whose hash is of an old format
Init ==
    /\ pending = [p \in Purposes |-> NoRow]
    /\ inbox = [p \in Purposes |-> {}]
    /\ issued = 0
    /\ user \in {NoUser} \cup [password : Passwords, legacy : {TRUE}]
    /\ tenants = IF user = NoUser THEN 0 ELSE 1
    /\ trial = (user # NoUser)
    /\ request = [r \in Requests |-> Idle]
    /\ now = 0 /\ faults = 0
    /\ uses = [c \in Codes |-> 0]
    /\ misses = [c \in Codes |-> 0]
    /\ intended = user.password
    /\ overtaken = FALSE

Next ==
    \/ \E r \in Requests :
           Endpoint(r) \/ IssueStep(r) \/ ConsumeStep(r) \/ AccountStep(r) \/ Crash(r)
    \/ Tick

Spec == Init /\ [][Next]_vars

-------------------------------------------------------------------------------
\* The rows and requests are the records the handlers build.
TypeOK ==
    /\ pending \in [Purposes -> Row \cup {NoRow}]
    /\ inbox \in [Purposes -> SUBSET Codes]
    /\ issued \in 0..MaxCodes
    /\ user \in User \cup {NoUser}
    /\ tenants \in Nat /\ trial \in BOOLEAN
    /\ request \in [Requests -> Request]
    /\ now \in Nat /\ faults \in Nat
    /\ uses \in [Codes -> Nat] /\ misses \in [Codes -> Nat]
    /\ intended \in Passwords \cup {NoPassword}
    /\ overtaken \in BOOLEAN

(* A code lets one request through, however many submit it at once.        *)
(* consume_code: "A correct code is consumed atomically, so it works        *)
(* exactly once."                                                           *)
UsedOnce == \A c \in Codes : uses[c] <= 1

(* The limit on wrong guesses is read before the guess is counted, so it    *)
(* can be passed, but only by the guesses in flight and by the handlers     *)
(* that died before they counted theirs.                                    *)
GuessesBounded ==
    \A c \in Codes : misses[c] <= MaxAttempts - 1 + Cardinality(Requests) + faults

(* "Nothing reached the inbox: drop the code so the merchant can retry      *)
(* right away": a code nobody was sent does not stay pending, and does not  *)
(* make the next send wait, unless its handler died.                        *)
UndeliveredIsDropped ==
    \A p \in Purposes :
        pending[p] # NoRow /\ pending[p].code \notin inbox[p] =>
            \/ InFlight("mail", pending[p].code) \cup InFlight("drop", pending[p].code) # {}
            \/ faults > 0

(* A code that reached the inbox stays good until it is used, has run out,  *)
(* is replaced by a later one or its own delivery was reported failed:      *)
(* clearing up after another request's code never takes it away.            *)
InboxCodeStaysGood ==
    [][\A p \in Purposes :
          LET c == pending[p].code IN
          c \in inbox[p] /\ pending'[p].code # c =>
              \/ uses'[c] > uses[c]
              \/ Expired(pending[p])
              \/ pending'[p].code > c
              \/ InFlight("drop", c) # {}]_vars

(* Workspace, user and trial are three transactions after the code is used  *)
(* up.  An owner lacks a subscription only while the registration runs or   *)
(* after it died, and every workspace has cost a sign-up code of its own.   *)
RegistrationAddsUp ==
    /\ HasUser /\ ~trial => (\E r \in Requests : At(r, "trial")) \/ faults > 0
    /\ tenants + Cardinality({r \in Requests : At(r, "tenant")})
           <= 1 + Cardinality({c \in inbox["register"] : uses[c] > 0})
    /\ ~HasUser => tenants <= Cardinality({c \in inbox["register"] : uses[c] > 0})

(* The password is the one its owner chose last.  The exception is real:    *)
(* a sign-in that read an old-format hash before a reset writes the old     *)
(* password back after it, because the rehash does not look again.          *)
PasswordAsChosen == HasUser /\ ~overtaken => user.password = intended

===============================================================================
