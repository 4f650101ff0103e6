----------------------------- MODULE AccountsProofs -----------------------------
(***************************************************************************)
(* Theorems about Accounts for any number of requests, codes and failures: *)
(* the rows keep their types, a code works once, clearing up never takes a *)
(* good code, undelivered codes go, wrong guesses are bounded, and the     *)
(* password is the one chosen last.                                        *)
(***************************************************************************)
EXTENDS Accounts, FiniteSetTheorems, TLAPS

Coded == {"mail", "drop", "expire", "miss", "take"}
Chosen == {"check", "expire", "miss", "take", "tenant", "user", "trial", "password", "rehash"}

\* What a handler carries from one step to the next.
RequestsOK ==
    \A r \in Requests :
        /\ request[r].pc \in Coded => request[r].code \in 1..issued
        /\ request[r].pc \in Chosen => request[r].password \in Passwords

\* Rows hold codes that were issued, and no two rows the same one.
RowsOK ==
    /\ \A p \in Purposes : pending[p].code <= issued
    /\ \A p, q \in Purposes : pending[p] # NoRow /\ p # q => pending[p].code # pending[q].code

TypeInv == TypeOK /\ RequestsOK /\ RowsOK

-------------------------------------------------------------------------------
\* The records of requests and rows, and what the steps make of them.
LEMMA Shapes ==
    ASSUME AccountsAssumption
    PROVE  /\ Idle \in Request /\ Idle.pc = "idle"
           /\ NoRow \notin Row /\ NoRow.code = 0 /\ NoUser \notin User
           /\ \A q \in Request : q.pc \in Steps \cup {"idle"} /\ q.purpose \in Purposes
                 /\ q.code \in 0..MaxCodes /\ q.at \in Nat /\ q.password \in Passwords \cup {NoPassword}
BY DEF AccountsAssumption, Idle, Request, Steps, Purposes, NoRow, Row, NoUser, User, Codes

LEMMA Moves ==
    ASSUME NEW q \in Request, q.pc # "idle", NEW step \in Steps, NEW c \in 0..MaxCodes, NEW t \in Nat
    PROVE  /\ [q EXCEPT !.pc = step] \in Request
           /\ [q EXCEPT !.pc = step, !.code = c] \in Request
           /\ [q EXCEPT !.pc = step, !.at = t] \in Request
<1>1. q \in [pc : Steps, purpose : Purposes, code : 0..MaxCodes, at : Nat,
             password : Passwords \cup {NoPassword}]
  BY DEF Request, Idle
<1>2. [q EXCEPT !.pc = step] \in Request
  BY <1>1 DEF Request
<1>3. [q EXCEPT !.pc = step, !.code = c] \in Request
  BY <1>1 DEF Request
<1>4. [q EXCEPT !.pc = step, !.at = t] \in Request
  BY <1>1 DEF Request
<1>5. QED BY <1>2, <1>3, <1>4

LEMMA Fields ==
    ASSUME NEW q \in Request, NEW step, NEW c, NEW t
    PROVE  /\ [q EXCEPT !.pc = step].pc = step
           /\ [q EXCEPT !.pc = step].code = q.code
           /\ [q EXCEPT !.pc = step].purpose = q.purpose
           /\ [q EXCEPT !.pc = step].password = q.password
           /\ [q EXCEPT !.pc = step, !.code = c].pc = step
           /\ [q EXCEPT !.pc = step, !.code = c].code = c
           /\ [q EXCEPT !.pc = step, !.code = c].purpose = q.purpose
           /\ [q EXCEPT !.pc = step, !.code = c].password = q.password
           /\ [q EXCEPT !.pc = step, !.at = t].pc = step
           /\ [q EXCEPT !.pc = step, !.at = t].code = q.code
           /\ [q EXCEPT !.pc = step, !.at = t].password = q.password
<1>1. q \in [pc : Steps \cup {"idle"}, purpose : Purposes, code : 0..MaxCodes \cup {0}, at : Nat,
             password : Passwords \cup {NoPassword}]
  BY DEF Request, Idle, Purposes
<1>2. QED BY <1>1

LEMMA FreshStarts ==
    ASSUME AccountsAssumption, NEW step \in Steps, NEW p \in Purposes
    PROVE  /\ [Idle EXCEPT !.pc = step, !.purpose = p] \in Request
           /\ [Idle EXCEPT !.pc = step, !.purpose = p].pc = step
<1> DEFINE Loose == [pc : Steps \cup {"idle"}, purpose : Purposes, code : 0..MaxCodes, at : Nat,
                     password : Passwords \cup {NoPassword}]
<1>1. Idle \in Loose
  BY DEF Idle, Purposes, AccountsAssumption
<1>2. ASSUME NEW i \in Loose
      PROVE  /\ [i EXCEPT !.pc = step, !.purpose = p] \in Request
             /\ [i EXCEPT !.pc = step, !.purpose = p].pc = step
  BY DEF Request
<1> HIDE DEF Loose
<1>3. QED BY <1>1, <1>2

LEMMA FreshLogins ==
    ASSUME AccountsAssumption, NEW password \in Passwords
    PROVE  /\ [Idle EXCEPT !.pc = "rehash", !.password = password] \in Request
           /\ [Idle EXCEPT !.pc = "rehash", !.password = password].pc = "rehash"
           /\ [Idle EXCEPT !.pc = "rehash", !.password = password].password = password
<1> DEFINE Loose == [pc : Steps \cup {"idle"}, purpose : Purposes, code : 0..MaxCodes, at : Nat,
                     password : Passwords \cup {NoPassword}]
<1>1. Idle \in Loose
  BY DEF Idle, Purposes, AccountsAssumption
<1>2. ASSUME NEW i \in Loose
      PROVE  /\ [i EXCEPT !.pc = "rehash", !.password = password] \in Request
             /\ [i EXCEPT !.pc = "rehash", !.password = password].pc = "rehash"
             /\ [i EXCEPT !.pc = "rehash", !.password = password].password = password
  BY DEF Request, Steps
<1> HIDE DEF Loose
<1>3. QED BY <1>1, <1>2

LEMMA RowShapes ==
    ASSUME AccountsAssumption, TypeOK, NEW p \in Purposes, pending[p] # NoRow
    PROVE  /\ pending[p] \in Row /\ pending[p].code \in Codes
           /\ pending[p].attempts \in Nat
BY DEF TypeOK, Row

LEMMA Indexes ==
    ASSUME NEW S, NEW T, NEW f \in [S -> T], NEW i \in S, NEW v \in T
    PROVE  [f EXCEPT ![i] = v] \in [S -> T]
OBVIOUS

-------------------------------------------------------------------------------
\* At the start rows and handlers have their shapes.
LEMMA TypeInit == AccountsAssumption /\ Init => TypeInv
<1> SUFFICES ASSUME AccountsAssumption, Init PROVE TypeInv
  OBVIOUS
<1> USE DEF Init
<1>1. user \in User \cup {NoUser} /\ intended \in Passwords \cup {NoPassword}
  <2>1. CASE user = NoUser
    BY <2>1 DEF NoUser
  <2>2. CASE user \in [password : Passwords, legacy : {TRUE}]
    BY <2>2 DEF User
  <2>3. QED BY <2>1, <2>2
<1>2. tenants \in Nat /\ trial \in BOOLEAN /\ overtaken \in BOOLEAN
  OBVIOUS
<1>3. pending \in [Purposes -> Row \cup {NoRow}] /\ inbox \in [Purposes -> SUBSET Codes]
  OBVIOUS
<1>4. uses \in [Codes -> Nat] /\ misses \in [Codes -> Nat] /\ issued \in 0..MaxCodes
  BY DEF AccountsAssumption
<1>5. request \in [Requests -> Request]
  BY Shapes
<1>6. TypeOK
  BY <1>1, <1>2, <1>3, <1>4, <1>5 DEF TypeOK
<1>7. RequestsOK
  BY DEF RequestsOK, Idle, Coded, Chosen
<1>8. RowsOK
  BY DEF RowsOK, NoRow
<1>9. QED BY <1>6, <1>7, <1>8 DEF TypeInv

\* One request moves and the others stay: the shape every step below has.
LEMMA Moved ==
    ASSUME TypeInv, NEW r \in Requests, NEW q \in Request,
           request' = [request EXCEPT ![r] = q], issued' = issued,
           q.pc \in Coded => q.code \in 1..issued,
           q.pc \in Chosen => q.password \in Passwords
    PROVE  request' \in [Requests -> Request] /\ RequestsOK'
BY DEF TypeInv, TypeOK, RequestsOK

LEMMA Ended ==
    ASSUME AccountsAssumption, TypeInv, NEW r \in Requests, Ends(r), issued' = issued
    PROVE  request' \in [Requests -> Request] /\ RequestsOK'
<1>1. request' = [request EXCEPT ![r] = Idle] /\ Idle \in Request /\ Idle.pc = "idle"
  BY Shapes DEF Ends
<1>2. QED BY <1>1, Moved DEF Coded, Chosen

LEMMA Went ==
    ASSUME AccountsAssumption, TypeInv, NEW r \in Requests, NEW step \in Steps, Goto(r, step),
           request[r].pc # "idle", issued' = issued,
           step \in Coded => request[r].pc \in Coded,
           step \in Chosen => request[r].pc \in Chosen
    PROVE  request' \in [Requests -> Request] /\ RequestsOK'
<1> DEFINE q == [request[r] EXCEPT !.pc = step]
<1>1. request[r] \in Request
  BY DEF TypeInv, TypeOK
<1>2. request' = [request EXCEPT ![r] = q]
  BY DEF Goto
<1>3. q \in Request
  BY <1>1, Moves, Shapes DEF AccountsAssumption
<1>4. q.pc = step /\ q.code = request[r].code /\ q.password = request[r].password
  BY <1>1, Fields
<1>5. q.pc \in Coded => q.code \in 1..issued
  BY <1>4 DEF TypeInv, RequestsOK
<1>6. q.pc \in Chosen => q.password \in Passwords
  BY <1>4 DEF TypeInv, RequestsOK
<1> HIDE DEF q
<1>7. QED BY <1>2, <1>3, <1>5, <1>6, Moved

LEMMA Coding ==
    ASSUME AccountsAssumption, TypeInv, NEW r \in Requests, NEW step \in Steps, NEW c \in 1..MaxCodes,
           request' = [request EXCEPT ![r].pc = step, ![r].code = c],
           request[r].pc # "idle", issued' \in Nat, issued <= issued', c <= issued',
           step \in Chosen => request[r].pc \in Chosen
    PROVE  request' \in [Requests -> Request] /\ RequestsOK'
<1> DEFINE q == [request[r] EXCEPT !.pc = step, !.code = c]
<1>1. request[r] \in Request /\ request \in [Requests -> Request]
  BY DEF TypeInv, TypeOK
<1>2. request' = [request EXCEPT ![r] = q]
  OBVIOUS
<1>3. q \in Request
  <2>1. c \in 0..MaxCodes /\ 0 \in Nat
    BY DEF AccountsAssumption
  <2>2. QED BY <1>1, <2>1, Moves
<1>4. q.pc = step /\ q.code = c /\ q.password = request[r].password
  BY <1>1, Fields
<1>5. q.pc \in Chosen => q.password \in Passwords
  BY <1>4 DEF TypeInv, RequestsOK
<1> HIDE DEF q
<1>6. request' \in [Requests -> Request]
  BY <1>1, <1>2, <1>3
<1>7. ASSUME NEW s \in Requests
      PROVE  /\ request'[s].pc \in Coded => request'[s].code \in 1..issued'
             /\ request'[s].pc \in Chosen => request'[s].password \in Passwords
  <2>1. CASE s = r
    BY <1>1, <1>2, <1>4, <1>5, <2>1
  <2>2. CASE s # r
    <3>1. request'[s] = request[s]
      BY <1>1, <1>2, <2>2
    <3>2. 1..issued \subseteq 1..issued'
      BY DEF TypeInv, TypeOK
    <3>3. QED BY <3>1, <3>2 DEF TypeInv, RequestsOK
  <2>3. QED BY <2>1, <2>2
<1>8. QED BY <1>6, <1>7 DEF RequestsOK

\* Deleting and counting leave every row the code it had, or none.
LEMMA RowsKept ==
    ASSUME AccountsAssumption, TypeInv, issued' = issued,
           pending' \in [Purposes -> Row \cup {NoRow}],
           \A p \in Purposes : pending'[p] = NoRow \/
               (pending[p] # NoRow /\ pending'[p].code = pending[p].code)
    PROVE  RowsOK'
<1>1. ASSUME NEW p \in Purposes, NEW q \in Purposes, pending'[p] # NoRow, p # q
      PROVE  pending'[p].code # pending'[q].code
  <2>1. pending[p] # NoRow /\ pending'[p].code = pending[p].code /\ pending[p].code \in Codes
    BY <1>1, RowShapes DEF TypeInv
  <2>2. CASE pending'[q] = NoRow
    BY <2>1, <2>2, Shapes DEF Codes
  <2>3. CASE pending'[q].code = pending[q].code
    BY <1>1, <2>1, <2>3 DEF TypeInv, RowsOK
  <2>4. QED BY <2>2, <2>3
<1>2. ASSUME NEW p \in Purposes PROVE pending'[p].code <= issued'
  BY Shapes DEF TypeInv, RowsOK, TypeOK
<1>3. QED BY <1>1, <1>2 DEF RowsOK

LEMMA DeletedRows ==
    ASSUME AccountsAssumption, TypeInv, issued' = issued, NEW r \in Requests,
           pending' = Deleted(request[r].purpose, request[r].code)
    PROVE  pending' \in [Purposes -> Row \cup {NoRow}] /\ RowsOK'
<1>1. request[r].purpose \in Purposes
  BY Shapes DEF TypeInv, TypeOK
<1>2. pending' \in [Purposes -> Row \cup {NoRow}]
  BY <1>1 DEF Deleted, TypeInv, TypeOK
<1>3. \A p \in Purposes : pending'[p] = NoRow \/ pending'[p] = pending[p]
  BY <1>1 DEF Deleted, TypeInv, TypeOK
<1>4. QED BY <1>2, <1>3, RowsKept

LEMMA CountedRows ==
    ASSUME AccountsAssumption, TypeInv, issued' = issued, NEW p \in Purposes, pending' = Counted(p)
    PROVE  /\ pending' \in [Purposes -> Row \cup {NoRow}] /\ RowsOK'
           /\ \A q \in Purposes : pending'[q].code = pending[q].code
           /\ \A q \in Purposes : pending'[q] = NoRow <=> pending[q] = NoRow
<1>0. pending \in [Purposes -> Row \cup {NoRow}]
  BY DEF TypeInv, TypeOK
<1>1. CASE pending[p] = NoRow
  <2>1. pending' = pending
    BY <1>1 DEF Counted
  <2>2. QED BY <1>0, <2>1, RowsKept
<1>2. CASE pending[p] # NoRow
  <2> DEFINE row == [pending[p] EXCEPT !.attempts = @ + 1]
  <2>1. pending[p] \in Row
    BY <1>2, RowShapes DEF TypeInv
  <2>2. row \in Row /\ row.code = pending[p].code
    BY <2>1 DEF Row
  <2>3. pending' = [pending EXCEPT ![p] = row]
    BY <1>2 DEF Counted
  <2>4. row # NoRow
    BY <2>2, Shapes
  <2> HIDE DEF row
  <2>5. pending' \in [Purposes -> Row \cup {NoRow}]
    BY <1>0, <2>2, <2>3
  <2>6. \A q \in Purposes : pending'[q].code = pending[q].code
    BY <1>0, <2>2, <2>3
  <2>7. \A q \in Purposes : pending'[q] = NoRow <=> pending[q] = NoRow
    BY <1>0, <1>2, <2>3, <2>4
  <2>8. QED BY <2>5, <2>6, <2>7, RowsKept
<1>3. QED BY <1>1, <1>2

\* Every step of a handler, of time and of a fault keeps the shapes.
LEMMA TypeStep ==
    ASSUME AccountsAssumption, TypeInv, [Next]_vars
    PROVE  TypeInv'
<1> USE DEF TypeInv
<1>1. ASSUME NEW r \in Requests, NEW p \in Purposes, SendCode(r, p) PROVE TypeInv'
  <2> DEFINE q == [Idle EXCEPT !.pc = "issue", !.purpose = p]
  <2>1. q \in Request /\ q.pc = "issue"
    <3>1. "issue" \in Steps
      BY DEF Steps
    <3>2. QED BY <3>1, FreshStarts
  <2>2. request' = [request EXCEPT ![r] = q]
    BY <1>1 DEF SendCode
  <2>3. UNCHANGED <<codeVars, accountVars, historyVars, now, faults>>
    BY <1>1 DEF SendCode
  <2>4. request' \in [Requests -> Request] /\ RequestsOK'
    <3> HIDE DEF q
    <3> QED BY <2>1, <2>2, <2>3, Moved DEF codeVars, Coded, Chosen
  <2>5. QED BY <2>3, <2>4 DEF TypeOK, RowsOK, codeVars, accountVars, historyVars
<1>2. ASSUME NEW r \in Requests, NEW p \in Purposes, NEW password \in Passwords,
             NEW typed \in inbox[p] \cup {Wrong}, Submit(r, p, typed, password)
      PROVE  TypeInv'
  <2> DEFINE q == [pc |-> "check", purpose |-> p, code |-> typed, at |-> 0, password |-> password]
  <2>0. typed \in 0..MaxCodes
    BY DEF TypeOK, Wrong, Codes, AccountsAssumption
  <2>1. q \in Request /\ q.pc = "check" /\ q.password \in Passwords
    BY <2>0 DEF Request, Steps
  <2>2. request' = [request EXCEPT ![r] = q]
    BY <1>2 DEF Submit
  <2>3. UNCHANGED <<codeVars, accountVars, historyVars, now, faults>>
    BY <1>2 DEF Submit
  <2>4. request' \in [Requests -> Request] /\ RequestsOK'
    <3> HIDE DEF q
    <3> QED BY <2>1, <2>2, <2>3, Moved DEF codeVars, Coded, Chosen
  <2>5. QED BY <2>3, <2>4 DEF TypeOK, RowsOK, codeVars, accountVars, historyVars
<1>3. ASSUME NEW r \in Requests, NEW password \in Passwords, Login(r, password) PROVE TypeInv'
  <2> DEFINE q == [Idle EXCEPT !.pc = "rehash", !.password = password]
  <2>1. q \in Request /\ q.pc = "rehash" /\ q.password \in Passwords
    BY FreshLogins
  <2>2. request' = [request EXCEPT ![r] = q]
    BY <1>3 DEF Login
  <2>3. UNCHANGED <<codeVars, accountVars, historyVars, now, faults>>
    BY <1>3 DEF Login
  <2>4. request' \in [Requests -> Request] /\ RequestsOK'
    <3> HIDE DEF q
    <3> QED BY <2>1, <2>2, <2>3, Moved DEF codeVars, Coded, Chosen
  <2>5. QED BY <2>3, <2>4 DEF TypeOK, RowsOK, codeVars, accountVars, historyVars
<1>4. ASSUME NEW r \in Requests, IssueCheck(r) PROVE TypeInv'
  <2>1. request[r] \in Request /\ request[r].pc = "issue" /\ now \in Nat
    BY <1>4 DEF IssueCheck, At, TypeOK
  <2>2. UNCHANGED <<codeVars, accountVars, historyVars, now, faults>>
    BY <1>4 DEF IssueCheck
  <2>3. CASE Ends(r)
    BY <2>2, <2>3, Ended DEF TypeOK, RowsOK, codeVars, accountVars, historyVars
  <2>4. CASE request' = [request EXCEPT ![r].pc = "store", ![r].at = now]
    <3> DEFINE q == [request[r] EXCEPT !.pc = "store", !.at = now]
    <3>1. q \in Request /\ q.pc = "store"
      <4>1. "store" \in Steps /\ 0 \in 0..MaxCodes /\ request[r].pc # "idle"
        BY <2>1 DEF Steps, AccountsAssumption
      <4>2. q \in Request
        BY ONLY <2>1, <4>1, Moves
      <4>3. q.pc = "store"
        BY <2>1, Shapes, <2>4, Fields DEF TypeOK
      <4>4. QED BY <4>2, <4>3
    <3>2. request' = [request EXCEPT ![r] = q]
      BY <2>4
    <3>3. request' \in [Requests -> Request] /\ RequestsOK'
      <4> HIDE DEF q
      <4> QED BY <2>2, <3>1, <3>2, Moved DEF codeVars, Coded, Chosen
    <3>4. QED BY <2>2, <3>3 DEF TypeOK, RowsOK, codeVars, accountVars, historyVars
  <2>5. QED BY <1>4, <2>3, <2>4 DEF IssueCheck
<1>5. ASSUME NEW r \in Requests, StoreCode(r) PROVE TypeInv'
  <2> DEFINE p == request[r].purpose
             row == [code |-> issued', attempts |-> 0, created |-> now,
                     expires |-> request[r].at + CodeTtl]
  <2>1. /\ request[r] \in Request /\ request[r].pc = "store" /\ p \in Purposes
        /\ request[r].at \in Nat /\ now \in Nat /\ issued \in 0..MaxCodes
    BY <1>5, Shapes DEF StoreCode, At, TypeOK
  <2>2. issued' = issued + 1 /\ issued' \in 1..MaxCodes /\ issued < MaxCodes
    BY <1>5, <2>1 DEF StoreCode, AccountsAssumption
  <2>3. row \in Row /\ row.code = issued'
    BY <2>1, <2>2 DEF Row, Codes, AccountsAssumption
  <2>4. pending' = Saved(p, row)
    BY <1>5 DEF StoreCode
  <2>5. pending \in [Purposes -> Row \cup {NoRow}]
    BY DEF TypeOK
  <2>6. \A q \in Purposes : pending'[q] = (IF q = p THEN row ELSE
            IF pending[q].expires < now THEN NoRow ELSE pending[q])
    BY <2>4 DEF Saved
  <2>7. pending' \in [Purposes -> Row \cup {NoRow}]
    <3> HIDE DEF row, p
    <3> QED BY <2>3, <2>4, <2>5 DEF Saved
  <2>8. request' \in [Requests -> Request] /\ RequestsOK'
    <3>1. request' = [request EXCEPT ![r].pc = "mail", ![r].code = issued'] /\ "mail" \in Steps
      BY <1>5 DEF StoreCode, Steps
    <3>2. /\ issued' \in Nat /\ issued <= issued' /\ issued' <= issued'
          /\ "mail" \notin Chosen /\ request[r].pc # "idle"
      BY <2>1, <2>2 DEF Chosen
    <3>3. QED BY ONLY AccountsAssumption, TypeInv, <2>2, <3>1, <3>2, Coding
  <2>9. RowsOK'
    <3> HIDE DEF row, p
    <3>1. \A q \in Purposes : q # p => pending'[q] = NoRow \/ pending'[q] = pending[q]
      BY <2>6
    <3>2. pending'[p].code = issued'
      BY <2>1, <2>3, <2>6
    <3>3. \A q \in Purposes : pending[q].code <= issued /\ pending[q].code \in 0..MaxCodes
      BY <2>5, Shapes DEF RowsOK, Row, Codes, AccountsAssumption
    <3>4. \A q \in Purposes : q # p => pending'[q].code <= issued /\ pending'[q].code \in 0..MaxCodes
      BY <2>1, <3>1, <3>3, Shapes DEF AccountsAssumption
    <3>5. \A q \in Purposes : pending'[q].code <= issued'
      BY <2>1, <2>2, <3>2, <3>4
    <3>6. ASSUME NEW q1 \in Purposes, NEW q2 \in Purposes, pending'[q1] # NoRow, q1 # q2
          PROVE  pending'[q1].code # pending'[q2].code
      <4>1. CASE q1 = p \/ q2 = p
        BY <2>1, <2>2, <3>2, <3>4, <3>6, <4>1
      <4>2. CASE q1 # p /\ q2 # p
        <5>1. pending'[q1] = pending[q1] /\ pending[q1] # NoRow /\ pending[q1].code # 0
          <6>1. pending'[q1] = pending[q1] /\ pending[q1] # NoRow
            BY <3>1, <3>6, <4>2
          <6>2. QED BY <6>1, RowShapes DEF Codes
        <5>2. CASE pending'[q2] = NoRow
          BY <5>1, <5>2, Shapes
        <5>3. CASE pending'[q2] = pending[q2]
          BY <3>6, <5>1, <5>3 DEF RowsOK
        <5>4. QED BY <3>1, <4>2, <5>2, <5>3
      <4>3. QED BY <4>1, <4>2
    <3>7. QED BY <3>5, <3>6 DEF RowsOK
  <2>10. issued' \in 0..MaxCodes
    BY <2>1, <2>2
  <2>11. UNCHANGED <<inbox, accountVars, historyVars, now, faults>>
    BY <1>5 DEF StoreCode
  <2>12. QED BY <2>7, <2>8, <2>9, <2>10, <2>11 DEF TypeOK, accountVars, historyVars
<1>6. ASSUME NEW r \in Requests, MailSent(r) \/ MailFails(r) PROVE TypeInv'
  <2>1. /\ request[r] \in Request /\ request[r].pc = "mail"
        /\ request[r].code \in Codes /\ request[r].purpose \in Purposes
    BY <1>6, Shapes DEF MailSent, MailFails, At, TypeOK, RequestsOK, Coded, Codes
  <2>2. UNCHANGED <<pending, issued, accountVars, historyVars, now, faults>>
    BY <1>6 DEF MailSent, MailFails
  <2>3. inbox' \in [Purposes -> SUBSET Codes]
    BY <1>6, <2>1 DEF MailSent, MailFails, MailArrives, TypeOK
  <2>4. request' \in [Requests -> Request] /\ RequestsOK'
    <3>1. CASE MailSent(r)
      BY <2>2, <3>1, Ended DEF MailSent
    <3>2. CASE MailFails(r)
      <4>1. Goto(r, "drop") /\ "drop" \in Steps
        BY <3>2 DEF MailFails, Steps
      <4>2. QED BY <2>1, <2>2, <4>1, Went DEF Coded, Chosen
    <3>3. QED BY <1>6, <3>1, <3>2
  <2>5. QED BY <2>2, <2>3, <2>4 DEF TypeOK, RowsOK, accountVars, historyVars
<1>7. ASSUME NEW r \in Requests, DropCode(r) \/ ExpireCode(r) PROVE TypeInv'
  <2>1. /\ pending' = Deleted(request[r].purpose, request[r].code) /\ Ends(r)
        /\ UNCHANGED <<inbox, issued, accountVars, historyVars, now, faults>>
    BY <1>7 DEF DropCode, ExpireCode
  <2>2. QED BY <2>1, DeletedRows, Ended DEF TypeOK, accountVars, historyVars
<1>8. ASSUME NEW r \in Requests, RecordMiss(r) PROVE TypeInv'
  <2>1. /\ pending' = Counted(request[r].purpose) /\ Ends(r)
        /\ UNCHANGED <<inbox, issued, accountVars, historyVars, now, faults>>
    BY <1>8 DEF RecordMiss
  <2>2. request[r].purpose \in Purposes
    BY Shapes DEF TypeOK
  <2>3. QED BY <2>1, <2>2, CountedRows, Ended DEF TypeOK, accountVars, historyVars
<1>9. ASSUME NEW r \in Requests, TakeCode(r) PROVE TypeInv'
  <2> DEFINE p == request[r].purpose
             c == request[r].code
  <2>1. /\ pending' = Deleted(p, c)
        /\ UNCHANGED <<inbox, issued, accountVars, misses, intended, overtaken, now, faults>>
        /\ request[r].pc = "take" /\ request[r] \in Request /\ c \in Codes
    BY <1>9 DEF TakeCode, At, TypeOK, RequestsOK, Coded, Codes
  <2>2. CASE Won(p, c)
    <3>1. /\ Goto(r, IF p = "register" THEN "tenant" ELSE "password")
          /\ uses' = [uses EXCEPT ![c] = @ + 1]
      BY <1>9, <2>2 DEF TakeCode
    <3>2. uses' \in [Codes -> Nat]
      <4> HIDE DEF c
      <4>1. uses \in [Codes -> Nat] /\ c \in Codes /\ uses[c] + 1 \in Nat
        BY <2>1 DEF TypeOK
      <4>2. QED BY <3>1, <4>1
    <3>3. request' \in [Requests -> Request] /\ RequestsOK'
      <4>1. CASE p = "register"
        <5>1. Goto(r, "tenant") /\ "tenant" \in Steps
          BY <3>1, <4>1 DEF Steps
        <5>2. QED BY <2>1, <5>1, Went DEF Coded, Chosen
      <4>2. CASE p # "register"
        <5>1. Goto(r, "password") /\ "password" \in Steps
          BY <3>1, <4>2 DEF Steps
        <5>2. QED BY <2>1, <5>1, Went DEF Coded, Chosen
      <4>3. QED BY <4>1, <4>2
    <3>4. QED BY <2>1, <3>2, <3>3, DeletedRows DEF TypeOK, accountVars
  <2>3. CASE ~Won(p, c)
    <3>1. Ends(r) /\ UNCHANGED uses
      BY <1>9, <2>3 DEF TakeCode
    <3>2. QED BY <2>1, <3>1, Ended, DeletedRows DEF TypeOK, accountVars
  <2>4. QED BY <2>2, <2>3
<1>10. ASSUME NEW r \in Requests, CheckCode(r) PROVE TypeInv'
  <2> DEFINE row == pending[request[r].purpose]
  <2>1. /\ UNCHANGED <<codeVars, accountVars, uses, intended, overtaken, now, faults>>
        /\ request[r].pc = "check" /\ request[r].purpose \in Purposes
    BY <1>10, Shapes DEF CheckCode, At, TypeOK
  <2>2. \/ Ends(r) /\ UNCHANGED misses
        \/ /\ row # NoRow /\ UNCHANGED misses
           /\ request' = [request EXCEPT ![r].pc = "expire", ![r].code = row.code]
        \/ /\ row # NoRow /\ misses' = [misses EXCEPT ![row.code] = @ + 1]
           /\ request' = [request EXCEPT ![r].pc = "miss", ![r].code = row.code]
        \/ /\ row # NoRow /\ UNCHANGED misses
           /\ request' = [request EXCEPT ![r].pc = "take", ![r].code = row.code]
    BY <1>10 DEF CheckCode
  <2>3. row # NoRow => row.code \in 1..MaxCodes /\ row.code <= issued /\ issued \in Nat
    BY <2>1, RowShapes DEF Codes, RowsOK, TypeOK
  <2>4. misses' \in [Codes -> Nat]
    <3>1. row # NoRow => row.code \in Codes
      BY <2>3 DEF Codes
    <3> HIDE DEF row
    <3>2. QED BY <2>2, <3>1 DEF TypeOK
  <2>5. issued' = issued /\ issued' \in Nat /\ issued <= issued'
    BY <2>1 DEF codeVars, TypeOK
  <2>6. {"expire", "miss", "take"} \subseteq Steps /\ request[r].pc \in Chosen /\ request[r].pc # "idle"
    BY <2>1 DEF Steps, Chosen
  <2>7. request' \in [Requests -> Request] /\ RequestsOK'
    <3>1. CASE Ends(r)
      BY <2>5, <3>1, Ended
    <3>2. ASSUME NEW step \in {"expire", "miss", "take"}, row # NoRow,
                 request' = [request EXCEPT ![r].pc = step, ![r].code = row.code]
          PROVE  request' \in [Requests -> Request] /\ RequestsOK'
      <4>1. step \in Steps /\ row.code \in 1..MaxCodes /\ row.code <= issued'
        BY <2>3, <2>5, <2>6, <3>2
      <4> HIDE DEF row
      <4>2. QED BY ONLY AccountsAssumption, TypeInv, <2>5, <2>6, <3>2, <4>1, Coding
    <3> HIDE DEF row
    <3>3. QED BY <2>2, <3>1, <3>2
  <2>8. QED BY <2>1, <2>4, <2>7 DEF TypeOK, RowsOK, codeVars, accountVars
<1>11. ASSUME NEW r \in Requests, CreateTenant(r) \/ StartTrial(r) PROVE TypeInv'
  <2>1. UNCHANGED <<codeVars, user, historyVars, now, faults>> /\ request[r].pc \in {"tenant", "trial"}
    BY <1>11 DEF CreateTenant, StartTrial, At
  <2>2. tenants' \in Nat /\ trial' \in BOOLEAN
    <3>1. tenants' = tenants + 1 \/ tenants' = tenants
      BY <1>11 DEF CreateTenant, StartTrial
    <3>2. trial' = trial \/ trial' = TRUE
      BY Zenon, <1>11 DEF CreateTenant, StartTrial
    <3>3. tenants' \in Nat
      BY <3>1 DEF TypeOK
    <3>4. trial' \in BOOLEAN
      BY Zenon, <3>2 DEF TypeOK
    <3>5. QED BY Zenon, <3>3, <3>4
  <2>3. request' \in [Requests -> Request] /\ RequestsOK'
    <3>1. CASE CreateTenant(r)
      <4>1. Goto(r, "user") /\ "user" \in Steps /\ request[r].pc = "tenant"
        BY <3>1 DEF CreateTenant, Steps, At
      <4>2. QED BY <2>1, <4>1, Went DEF Coded, Chosen, codeVars
    <3>2. CASE StartTrial(r)
      BY <2>1, <3>2, Ended DEF StartTrial, codeVars
    <3>3. QED BY <1>11, <3>1, <3>2
  <2>4. QED BY <2>1, <2>2, <2>3 DEF TypeOK, RowsOK, codeVars, historyVars
<1>12. ASSUME NEW r \in Requests, CreateUser(r) \/ SetPassword(r) \/ Rehash(r) PROVE TypeInv'
  <2> DEFINE new == [password |-> request[r].password, legacy |-> FALSE]
  <2>1. /\ UNCHANGED <<codeVars, tenants, trial, uses, misses, now, faults>>
        /\ request[r].pc \in {"user", "password", "rehash"}
    BY <1>12 DEF CreateUser, SetPassword, Rehash, At, historyVars
  <2>2. request[r].password \in Passwords
    BY <2>1 DEF RequestsOK, Chosen
  <2>3. new \in User
    BY <2>2 DEF User
  <2>4. user' = user \/ user' = new
    BY <1>12 DEF CreateUser, SetPassword, Rehash
  <2>5. intended' = intended \/ intended' = request[r].password
    BY <1>12 DEF CreateUser, SetPassword, Rehash, historyVars
  <2>6. overtaken' \in BOOLEAN
    BY <1>12 DEF CreateUser, SetPassword, Rehash, historyVars, TypeOK
  <2>7. request' \in [Requests -> Request] /\ RequestsOK'
    <3>1. CASE Ends(r)
      BY <2>1, <3>1, Ended DEF codeVars
    <3>2. CASE Goto(r, "trial")
      <4>1. "trial" \in Steps
        BY DEF Steps
      <4>2. QED BY <2>1, <3>2, <4>1, Went DEF Coded, Chosen, codeVars
    <3>3. QED BY <1>12, <3>1, <3>2 DEF CreateUser, SetPassword, Rehash
  <2> HIDE DEF new
  <2>8. user' \in User \cup {NoUser} /\ intended' \in Passwords \cup {NoPassword}
    BY <2>2, <2>3, <2>4, <2>5 DEF TypeOK
  <2>9. QED BY <2>1, <2>6, <2>7, <2>8 DEF TypeOK, RowsOK, codeVars
<1>13. ASSUME NEW r \in Requests, Crash(r) PROVE TypeInv'
  <2>1. Ends(r) /\ faults' = faults + 1 /\ UNCHANGED <<codeVars, accountVars, historyVars, now>>
    BY <1>13 DEF Crash
  <2>2. QED BY <2>1, Ended DEF TypeOK, RowsOK, codeVars, accountVars, historyVars
<1>14. CASE Tick
  BY <1>14 DEF Tick, TypeOK, RequestsOK, RowsOK, codeVars, accountVars, historyVars
<1>15. CASE UNCHANGED vars
  BY <1>15 DEF TypeOK, RequestsOK, RowsOK, vars, codeVars, accountVars, historyVars
<1>16. QED
  BY <1>1, <1>2, <1>3, <1>4, <1>5, <1>6, <1>7, <1>8, <1>9, <1>10, <1>11, <1>12, <1>13, <1>14, <1>15
  DEF Next, Endpoint, IssueStep, ConsumeStep, AccountStep

(* Codes, accounts and handlers have their shapes, for any number of codes, *)
(* handlers and faults.                                                     *)
THEOREM TypeCorrect == Spec => []TypeOK
<1>1. Init => TypeInv
  BY AccountsAssumption, TypeInit
<1>2. TypeInv /\ [Next]_vars => TypeInv'
  BY AccountsAssumption, TypeStep
<1>3. TypeInv => TypeOK
  BY DEF TypeInv
<1>4. QED BY <1>1, <1>2, <1>3, PTL DEF Spec

-------------------------------------------------------------------------------
(* How a step changes the rows, and the requests that hold a code. *)

Remains(p) ==
    /\ pending[p] # NoRow /\ pending'[p].code = pending[p].code
    /\ pending'[p].expires = pending[p].expires
    /\ pending'[p].attempts \in Nat /\ pending'[p].attempts >= pending[p].attempts

Stores(r) ==
    /\ StoreCode(r) /\ issued' = issued + 1
    /\ request'[r].pc = "mail" /\ request'[r].code = issued'
    /\ request'[r].purpose = request[r].purpose

LEMMA Storing ==
    ASSUME AccountsAssumption, TypeInv, NEW r \in Requests, StoreCode(r)
    PROVE  /\ Stores(r)
           /\ pending'[request[r].purpose].code = issued'
           /\ \A p \in Purposes : p # request[r].purpose =>
                  \/ pending'[p] = pending[p]
                  \/ pending'[p] = NoRow /\ pending[p].expires < now
           /\ \A s \in Requests \ {r} : request'[s] = request[s]
<1> USE DEF TypeInv
<1>1. request[r] \in Request /\ request[r].purpose \in Purposes
  BY Shapes DEF TypeOK
<1>2. request' = [request EXCEPT ![r].pc = "mail", ![r].code = issued'] /\ issued' = issued + 1
  BY DEF StoreCode
<1>3. request'[r] = [request[r] EXCEPT !.pc = "mail", !.code = issued']
  BY <1>2 DEF TypeOK
<1>4. Stores(r)
  <2>1. /\ request'[r].pc = "mail" /\ request'[r].code = issued'
        /\ request'[r].purpose = request[r].purpose
    BY <1>1, <1>3, Fields
  <2>2. QED BY <1>2, <2>1 DEF Stores
<1>5. \A s \in Requests \ {r} : request'[s] = request[s]
  BY <1>2 DEF TypeOK
<1>6. pending' = Saved(request[r].purpose,
                       [code |-> issued', attempts |-> 0, created |-> now,
                        expires |-> request[r].at + CodeTtl])
  BY DEF StoreCode
<1>7. QED BY <1>1, <1>4, <1>5, <1>6 DEF Saved

LEMMA RowsEvolve ==
    ASSUME AccountsAssumption, TypeInv, [Next]_vars, NEW p \in Purposes
    PROVE  \/ pending'[p] = NoRow
           \/ Remains(p)
           \/ \E r \in Requests : Stores(r) /\ p = request[r].purpose /\ pending'[p].code = issued'
<1> USE DEF TypeInv
<1>0. ASSUME pending'[p] = pending[p] PROVE pending'[p] = NoRow \/ Remains(p)
  BY <1>0, RowShapes DEF Remains
<1>1. CASE pending' = pending
  BY <1>0, <1>1
<1>2. ASSUME NEW r \in Requests, StoreCode(r)
      PROVE  \/ pending'[p] = NoRow
             \/ Remains(p)
             \/ Stores(r) /\ p = request[r].purpose /\ pending'[p].code = issued'
  BY <1>0, <1>2, Storing
<1>3. ASSUME NEW q \in Purposes, NEW c, pending' = Deleted(q, c)
      PROVE  pending'[p] = NoRow \/ Remains(p)
  BY <1>0, <1>3 DEF Deleted, TypeOK
<1>4. ASSUME NEW q \in Purposes, pending' = Counted(q)
      PROVE  pending'[p] = NoRow \/ Remains(p)
  <2>1. CASE pending[p] = NoRow
    BY <1>4, <2>1 DEF Counted, TypeOK
  <2>2. CASE pending[p] # NoRow
    <3>1. pending[p] \in Row
      BY <2>2, RowShapes
    <3>2. pending'[p] = pending[p] \/ pending'[p] = [pending[p] EXCEPT !.attempts = @ + 1]
      BY <1>4 DEF Counted, TypeOK
    <3>3. QED BY <2>2, <3>1, <3>2 DEF Remains, Row
  <2>3. QED BY <2>1, <2>2
<1>5. \A r \in Requests : request[r].purpose \in Purposes
  BY Shapes DEF TypeOK
<1>6. QED
  BY <1>1, <1>2, <1>3, <1>4, <1>5
  DEF Next, Endpoint, IssueStep, ConsumeStep, AccountStep, SendCode, Submit, Login, IssueCheck,
      MailSent, MailFails, DropCode, CheckCode, ExpireCode, RecordMiss, TakeCode, CreateTenant,
      CreateUser, StartTrial, SetPassword, Rehash, Crash, Tick, vars, codeVars, accountVars, historyVars

\* A handler that looked at a row holds its code, and expires it only when it has run out.
Judges(r) ==
    LET p == request[r].purpose IN
    /\ request[r].pc = "check" /\ pending[p] # NoRow
    /\ request'[r].purpose = p /\ request'[r].code = pending[p].code
    /\ request'[r].pc = "expire" => Expired(pending[p])
    /\ pending' = pending /\ issued' = issued

LEMMA RequestsEvolve ==
    ASSUME AccountsAssumption, TypeInv, [Next]_vars, NEW r \in Requests, request'[r].pc \in Coded
    PROVE  \/ request'[r] = request[r]
           \/ /\ request[r].pc = "mail" /\ request'[r].pc = "drop"
              /\ request'[r].code = request[r].code /\ request'[r].purpose = request[r].purpose
           \/ Judges(r)
           \/ Stores(r)
<1> USE DEF TypeInv
<1>1. request \in [Requests -> Request] /\ request[r] \in Request
  BY DEF TypeOK
<1>2. ASSUME NEW s \in Requests, Ends(s) PROVE request'[r] = request[r]
  BY <1>1, <1>2, Shapes DEF Ends, Coded
<1>3. ASSUME NEW s \in Requests, NEW step, step \notin Coded, Goto(s, step)
      PROVE  request'[r] = request[r]
  <2>1. CASE s = r
    <3>1. request'[r] = [request[r] EXCEPT !.pc = step]
      BY <1>1, <1>3, <2>1 DEF Goto
    <3>2. QED BY <1>1, <1>3, <3>1, Fields
  <2>2. CASE s # r
    BY <1>1, <1>3, <2>2 DEF Goto
  <2>3. QED BY <2>1, <2>2
<1>4. ASSUME NEW s \in Requests, NEW p \in Purposes, SendCode(s, p) PROVE request'[r] = request[r]
  <2>1. CASE s = r
    <3>1. request'[r] = [Idle EXCEPT !.pc = "issue", !.purpose = p] /\ "issue" \in Steps
      BY <1>1, <1>4, <2>1 DEF SendCode, Steps
    <3>2. request'[r].pc = "issue"
      BY <3>1, FreshStarts
    <3>3. QED BY <3>2 DEF Coded
  <2>2. CASE s # r
    BY <1>1, <1>4, <2>2 DEF SendCode
  <2>3. QED BY <2>1, <2>2
<1>5. ASSUME NEW s \in Requests, NEW p, NEW typed, NEW password, Submit(s, p, typed, password)
      PROVE  request'[r] = request[r]
  BY <1>1, <1>5 DEF Submit, Coded
<1>6. ASSUME NEW s \in Requests, NEW password \in Passwords, Login(s, password)
      PROVE  request'[r] = request[r]
  <2>1. CASE s = r
    <3>1. request'[r] = [Idle EXCEPT !.pc = "rehash", !.password = password]
      BY <1>1, <1>6, <2>1 DEF Login
    <3>2. QED BY <3>1, FreshLogins DEF Coded
  <2>2. CASE s # r
    BY <1>1, <1>6, <2>2 DEF Login
  <2>3. QED BY <2>1, <2>2
<1>7. ASSUME NEW s \in Requests, IssueCheck(s) PROVE request'[r] = request[r]
  <2>1. CASE Ends(s)
    BY <1>2, <2>1
  <2>2. CASE request' = [request EXCEPT ![s].pc = "store", ![s].at = now]
    <3>1. CASE s = r
      <4>1. request'[r] = [request[r] EXCEPT !.pc = "store", !.at = now]
        BY <1>1, <2>2, <3>1
      <4>2. request'[r].pc = "store"
        BY <1>1, <4>1, Fields
      <4>3. QED BY <4>2 DEF Coded
    <3>2. CASE s # r
      BY <1>1, <2>2, <3>2
    <3>3. QED BY <3>1, <3>2
  <2>3. QED BY <1>7, <2>1, <2>2 DEF IssueCheck
<1>8. ASSUME NEW s \in Requests, StoreCode(s) PROVE request'[r] = request[r] \/ Stores(r)
  BY <1>8, Storing
<1>9. ASSUME NEW s \in Requests, MailFails(s)
      PROVE  \/ request'[r] = request[r]
             \/ /\ request[r].pc = "mail" /\ request'[r].pc = "drop"
                /\ request'[r].code = request[r].code /\ request'[r].purpose = request[r].purpose
  <2>1. CASE s = r
    <3>1. request'[r] = [request[r] EXCEPT !.pc = "drop"] /\ request[r].pc = "mail"
      BY <1>1, <1>9, <2>1 DEF MailFails, Goto, At
    <3>2. QED BY <1>1, <3>1, Fields
  <2>2. CASE s # r
    BY <1>1, <1>9, <2>2 DEF MailFails, Goto
  <2>3. QED BY <2>1, <2>2
<1>10. ASSUME NEW s \in Requests, CheckCode(s) PROVE request'[r] = request[r] \/ Judges(r)
  <2> DEFINE row == pending[request[s].purpose]
  <2>1. CASE s # r
    BY <1>1, <1>10, <2>1 DEF CheckCode, Ends
  <2>2. CASE s = r
    <3>1. request[r].pc = "check" /\ pending' = pending /\ issued' = issued
      BY <1>10, <2>2 DEF CheckCode, At, codeVars
    <3>2. CASE Ends(s)
      BY <1>2, <3>2
    <3>3. ASSUME NEW step, row # NoRow, step = "expire" => Expired(row),
                 request' = [request EXCEPT ![s].pc = step, ![s].code = row.code]
          PROVE  Judges(r)
      <4>1. request'[r] = [request[r] EXCEPT !.pc = step, !.code = row.code]
        BY <1>1, <2>2, <3>3
      <4>2. /\ request'[r].pc = step /\ request'[r].code = row.code
            /\ request'[r].purpose = request[r].purpose
        <5> HIDE DEF row
        <5> QED BY <1>1, <4>1, Fields
      <4>3. QED BY <2>2, <3>1, <3>3, <4>2 DEF Judges
    <3>4. \/ Ends(s)
          \/ \E step \in {"expire", "miss", "take"} :
                 /\ row # NoRow /\ (step = "expire" => Expired(row))
                 /\ request' = [request EXCEPT ![s].pc = step, ![s].code = row.code]
      BY <1>10 DEF CheckCode
    <3>5. QED BY <3>2, <3>3, <3>4
  <2>3. QED BY <2>1, <2>2
<1>11. ASSUME NEW s \in Requests, TakeCode(s) PROVE request'[r] = request[r]
  <2>1. Ends(s) \/ Goto(s, "tenant") \/ Goto(s, "password")
    BY <1>11 DEF TakeCode
  <2>2. QED BY <1>2, <1>3, <2>1 DEF Coded
<1>12. ASSUME NEW s \in Requests, AccountStep(s) PROVE request'[r] = request[r]
  <2>1. Ends(s) \/ Goto(s, "user") \/ Goto(s, "trial")
    BY <1>12 DEF AccountStep, CreateTenant, CreateUser, StartTrial, SetPassword, Rehash
  <2>2. QED BY <1>2, <1>3, <2>1 DEF Coded
<1>13. CASE request' = request
  BY <1>13
<1>14. QED
  BY <1>2, <1>4, <1>5, <1>6, <1>7, <1>8, <1>9, <1>10, <1>11, <1>12, <1>13
  DEF Next, Endpoint, IssueStep, ConsumeStep, MailSent, DropCode, ExpireCode, RecordMiss,
      Crash, Tick, vars

-------------------------------------------------------------------------------
(* Codes: each is used once, and a handler that holds the code of a row     *)
(* works on that row.                                                       *)

UsesOK ==
    /\ \A c \in Codes : uses[c] <= 1 /\ (c > issued => uses[c] = 0)
    /\ \A p \in Purposes : pending[p] # NoRow => uses[pending[p].code] = 0

HoldersOK ==
    \A r \in Requests, p \in Purposes :
        request[r].pc \in Coded /\ pending[p].code = request[r].code =>
            /\ request[r].purpose = p
            /\ request[r].pc = "expire" => Expired(pending[p])

CodeInv == TypeInv /\ UsesOK /\ HoldersOK

LEMMA HoldersStep ==
    ASSUME AccountsAssumption, CodeInv, [Next]_vars
    PROVE  HoldersOK'
<1> USE DEF CodeInv
<1>1. TypeInv'
  BY TypeStep
<1>2. SUFFICES ASSUME NEW r \in Requests, NEW p \in Purposes,
                      request'[r].pc \in Coded, pending'[p].code = request'[r].code
               PROVE  /\ request'[r].purpose = p
                      /\ request'[r].pc = "expire" => Expired(pending[p])'
  BY DEF HoldersOK
<1>3. request'[r].code \in 1..issued' /\ issued \in Nat /\ issued' \in Nat
  BY <1>1, <1>2 DEF TypeInv, RequestsOK, TypeOK
<1>4. pending'[p] # NoRow
  BY <1>2, <1>3, Shapes
<1>5. now' >= now /\ now \in Nat /\ now' \in Nat
  <2>1. now' = now \/ now' = now + 1
    BY DEF Next, Endpoint, IssueStep, ConsumeStep, AccountStep, SendCode, Submit, Login, IssueCheck,
           StoreCode, MailSent, MailFails, DropCode, CheckCode, ExpireCode, RecordMiss, TakeCode,
           CreateTenant, CreateUser, StartTrial, SetPassword, Rehash, Crash, Tick, vars
  <2>2. QED BY <2>1 DEF TypeInv, TypeOK
<1>6. ASSUME Remains(p), Expired(pending[p]) PROVE Expired(pending[p])'
  <2>1. pending[p].expires \in Nat
    BY <1>6, RowShapes DEF TypeInv, Remains, Row
  <2>2. QED BY <1>5, <1>6, <2>1 DEF Expired, Remains
<1>7. ASSUME Remains(p), request[r].pc \in Coded, request'[r].code = request[r].code,
             request'[r].purpose = request[r].purpose,
             request'[r].pc = "expire" => request[r].pc = "expire"
      PROVE  /\ request'[r].purpose = p
             /\ request'[r].pc = "expire" => Expired(pending[p])'
  <2>1. pending[p].code = request[r].code
    BY <1>2, <1>7 DEF Remains
  <2>2. QED BY <1>6, <1>7, <2>1 DEF HoldersOK
<1>8. CASE Remains(p)
  <2>1. CASE request'[r] = request[r]
    BY <1>2, <1>7, <1>8, <2>1
  <2>2. CASE /\ request[r].pc = "mail" /\ request'[r].pc = "drop"
             /\ request'[r].code = request[r].code /\ request'[r].purpose = request[r].purpose
    BY <1>7, <1>8, <2>2 DEF Coded
  <2>3. CASE Judges(r)
    <3>1. pending[request[r].purpose].code = pending[p].code /\ pending[p] # NoRow
      BY <1>2, <1>8, <2>3 DEF Judges, Remains
    <3>2. request[r].purpose \in Purposes
      BY Shapes DEF TypeInv, TypeOK
    <3>3. request[r].purpose = p
      BY <3>1, <3>2 DEF TypeInv, RowsOK
    <3>4. QED BY <1>6, <1>8, <2>3, <3>3 DEF Judges
  <2>4. CASE Stores(r)
    <3>1. pending[p].code <= issued /\ pending'[p].code = pending[p].code /\ pending[p].code \in Codes
      BY <1>8, RowShapes DEF Remains, TypeInv, RowsOK
    <3>2. QED BY <1>2, <1>3, <2>4, <3>1 DEF Stores, Codes
  <2>5. QED BY <1>2, <2>1, <2>2, <2>3, <2>4, RequestsEvolve
<1>9. ASSUME NEW s \in Requests, Stores(s), p = request[s].purpose, pending'[p].code = issued'
      PROVE  /\ request'[r].purpose = p
             /\ request'[r].pc = "expire" => Expired(pending[p])'
  <2>1. CASE s = r
    BY <1>9, <2>1 DEF Stores
  <2>2. CASE s # r
    <3>1. request'[r] = request[r]
      BY <1>9, <2>2, Storing DEF Stores
    <3>2. request[r].code <= issued
      BY <1>2, <3>1 DEF TypeInv, RequestsOK
    <3>3. QED BY <1>2, <1>3, <1>9, <3>1, <3>2 DEF Stores
  <2>3. QED BY <2>1, <2>2
<1>10. QED BY <1>4, <1>8, <1>9, RowsEvolve

LEMMA UsesStep ==
    ASSUME AccountsAssumption, CodeInv, [Next]_vars
    PROVE  UsesOK'
<1> USE DEF CodeInv
<1>1. TypeInv' /\ issued \in Nat
  BY TypeStep DEF TypeInv, TypeOK
<1>2. issued' = issued \/ (issued' = issued + 1 /\ UNCHANGED uses)
  BY DEF Next, Endpoint, IssueStep, ConsumeStep, AccountStep, SendCode, Submit, Login, IssueCheck,
         StoreCode, MailSent, MailFails, DropCode, CheckCode, ExpireCode, RecordMiss, TakeCode,
         CreateTenant, CreateUser, StartTrial, SetPassword, Rehash, Crash, Tick, vars, codeVars, historyVars
<1>3. CASE UNCHANGED uses
  <2>1. \A c \in Codes : uses'[c] <= 1 /\ (c > issued' => uses'[c] = 0)
    BY <1>1, <1>2, <1>3 DEF UsesOK, Codes
  <2>2. ASSUME NEW p \in Purposes, pending'[p] # NoRow PROVE uses'[pending'[p].code] = 0
    <3>1. CASE Remains(p)
      BY <1>3, <3>1 DEF Remains, UsesOK
    <3>2. ASSUME NEW r \in Requests, Stores(r), pending'[p].code = issued' PROVE uses'[pending'[p].code] = 0
      <4>1. issued' \in Codes /\ issued' > issued
        BY <1>1, <3>2 DEF Stores, TypeInv, TypeOK, Codes
      <4>2. QED BY <1>3, <3>2, <4>1 DEF UsesOK
    <3>3. QED BY <2>2, <3>1, <3>2, RowsEvolve
  <2>3. QED BY <2>1, <2>2 DEF UsesOK
<1>4. ASSUME NEW r \in Requests, TakeCode(r), ~UNCHANGED uses PROVE UsesOK'
  <2> DEFINE c == request[r].code
             q == request[r].purpose
  <2>1. /\ Won(q, c) /\ uses' = [uses EXCEPT ![c] = @ + 1]
        /\ pending' = Deleted(q, c) /\ UNCHANGED issued
    BY <1>4 DEF TakeCode
  <2>2. request[r].pc = "take" /\ c \in Codes /\ q \in Purposes /\ c <= issued
    BY <1>1, <1>4, Shapes DEF TakeCode, At, TypeInv, TypeOK, RequestsOK, Coded, Codes
  <2>3. pending[q] # NoRow /\ pending[q].code = c
    BY <2>1, <2>2, Shapes DEF Won, Codes
  <2> HIDE DEF c, q
  <2>4. uses[c] = 0
    BY <2>2, <2>3 DEF UsesOK
  <2>5. uses'[c] = 1 /\ \A d \in Codes \ {c} : uses'[d] = uses[d]
    BY <2>1, <2>2, <2>4 DEF TypeInv, TypeOK
  <2>6. \A d \in Codes : uses'[d] <= 1 /\ (d > issued' => uses'[d] = 0)
    BY <2>1, <2>2, <2>5, <1>1 DEF UsesOK, Codes
  <2>7. ASSUME NEW p \in Purposes, pending'[p] # NoRow PROVE uses'[pending'[p].code] = 0
    <3>1. p # q /\ pending'[p] = pending[p]
      BY <2>1, <2>2, <2>3, <2>7 DEF Deleted, TypeInv, TypeOK
    <3>2. pending[p].code # c /\ pending[p].code \in Codes
      BY <2>2, <2>3, <2>7, <3>1, RowShapes DEF TypeInv, RowsOK
    <3>3. QED BY <2>5, <2>7, <3>1, <3>2 DEF UsesOK
  <2>8. QED BY <2>6, <2>7 DEF UsesOK
<1>5. QED
  BY <1>3, <1>4
  DEF Next, Endpoint, IssueStep, ConsumeStep, AccountStep, SendCode, Submit, Login, IssueCheck,
      StoreCode, MailSent, MailFails, DropCode, CheckCode, ExpireCode, RecordMiss,
      CreateTenant, CreateUser, StartTrial, SetPassword, Rehash, Crash, Tick, vars, historyVars

\* The code invariant holds in every reachable state.
THEOREM CodesAreKept == Spec => []CodeInv
<1>1. Init => CodeInv
  <2> SUFFICES ASSUME Init PROVE CodeInv
    OBVIOUS
  <2>1. TypeInv
    BY AccountsAssumption, TypeInit
  <2>2. UsesOK
    BY DEF Init, UsesOK
  <2>3. HoldersOK
    BY DEF Init, HoldersOK, Idle, Coded
  <2>4. QED BY <2>1, <2>2, <2>3 DEF CodeInv
<1>2. CodeInv /\ [Next]_vars => CodeInv'
  BY AccountsAssumption, TypeStep, UsesStep, HoldersStep DEF CodeInv
<1>3. QED BY <1>1, <1>2, PTL DEF Spec

(* A code lets one request through, however many submit it at once         *)
(* (consume_code deletes the row it read, and looks whether it did).       *)
THEOREM CodesWorkOnce == Spec => []UsedOnce
<1>1. CodeInv => UsedOnce
  BY DEF CodeInv, UsesOK, UsedOnce
<1>2. QED BY <1>1, CodesAreKept, PTL

(* A code in the inbox stays good: clearing up after another request's code *)
(* never takes it away.                                                     *)
LEMMA GoodStep ==
    ASSUME AccountsAssumption, CodeInv, [Next]_vars, NEW p \in Purposes,
           pending[p].code \in inbox[p], pending'[p].code # pending[p].code
    PROVE  LET c == pending[p].code IN
           \/ uses'[c] > uses[c]
           \/ Expired(pending[p])
           \/ pending'[p].code > c
           \/ InFlight("drop", c) # {}
<1> USE DEF CodeInv
<1> DEFINE c == pending[p].code
<1>0. c \in Codes /\ pending[p] # NoRow
  BY Shapes DEF TypeInv, TypeOK, Codes
<1>1. ASSUME NEW r \in Requests, pending' = Deleted(request[r].purpose, request[r].code)
      PROVE  request[r].code = c /\ request[r].purpose = p
  BY <1>1 DEF Deleted, TypeInv, TypeOK
<1>2. ASSUME NEW r \in Requests, DropCode(r) PROVE InFlight("drop", c) # {}
  BY <1>1, <1>2 DEF DropCode, InFlight, At
<1>3. ASSUME NEW r \in Requests, ExpireCode(r) PROVE Expired(pending[p])
  <2>1. request[r].pc = "expire" /\ request[r].code = c
    BY <1>1, <1>3 DEF ExpireCode, At
  <2>2. QED BY <2>1 DEF HoldersOK, Coded
<1>4. ASSUME NEW r \in Requests, TakeCode(r) PROVE uses'[c] > uses[c]
  <2>1. request[r].code = c /\ request[r].purpose = p
    BY <1>1, <1>4 DEF TakeCode
  <2>2. uses' = [uses EXCEPT ![c] = @ + 1]
    BY <1>4, <2>1 DEF TakeCode, Won
  <2> HIDE DEF c
  <2>3. QED BY <1>0, <2>2 DEF TypeInv, TypeOK
<1>5. ASSUME NEW r \in Requests, StoreCode(r) PROVE Expired(pending[p]) \/ pending'[p].code > c
  <2>1. CASE p = request[r].purpose
    <3>1. pending'[p].code = issued + 1 /\ c <= issued /\ issued \in Nat
      BY <1>5, <2>1, Storing DEF Stores, TypeInv, TypeOK, RowsOK
    <3>2. QED BY <1>0, <3>1 DEF Codes
  <2>2. CASE p # request[r].purpose
    <3>1. pending[p].expires < now
      BY <1>5, <2>2, Storing
    <3>2. pending[p].expires \in Nat /\ now \in Nat
      BY <1>0, RowShapes DEF TypeInv, TypeOK, Row
    <3>3. QED BY <3>1, <3>2 DEF Expired
  <2>3. QED BY <2>1, <2>2
<1>6. ASSUME NEW r \in Requests, RecordMiss(r) PROVE FALSE
  <2>1. request[r].purpose \in Purposes /\ pending' = Counted(request[r].purpose) /\ issued' = issued
    BY <1>6, Shapes DEF RecordMiss, TypeInv, TypeOK
  <2>2. QED BY <2>1, CountedRows
<1>7. pending' # pending
  OBVIOUS
<1>8. QED
  BY <1>2, <1>3, <1>4, <1>5, <1>6, <1>7
  DEF Next, Endpoint, IssueStep, ConsumeStep, AccountStep, SendCode, Submit, Login, IssueCheck,
      MailSent, MailFails, CheckCode, CreateTenant, CreateUser, StartTrial, SetPassword, Rehash,
      Crash, Tick, vars, codeVars

(* Clearing up after one send never takes the code another send delivered:  *)
(* delete_verification_code names the code it was issued for.               *)
THEOREM GoodCodesStay == Spec => InboxCodeStaysGood
<1>1. CodeInv /\ [Next]_vars =>
        [\A p \in Purposes :
            LET c == pending[p].code IN
            c \in inbox[p] /\ pending'[p].code # c =>
                \/ uses'[c] > uses[c]
                \/ Expired(pending[p])
                \/ pending'[p].code > c
                \/ InFlight("drop", c) # {}]_vars
  BY AccountsAssumption, GoodStep
<1>2. QED BY <1>1, CodesAreKept, PTL DEF Spec, InboxCodeStaysGood

-------------------------------------------------------------------------------
\* A request moves in its own steps only.
LEMMA OthersStay ==
    ASSUME TypeInv, [Next]_vars, NEW r \in Requests, request'[r] # request[r]
    PROVE  Endpoint(r) \/ IssueStep(r) \/ ConsumeStep(r) \/ AccountStep(r) \/ Crash(r)
<1>0. request \in [Requests -> Request]
  BY DEF TypeInv, TypeOK
<1>1. ASSUME NEW s \in Requests, s # r, Endpoint(s) PROVE FALSE
  BY <1>0, <1>1 DEF Endpoint, SendCode, Submit, Login
<1>2. ASSUME NEW s \in Requests, s # r, IssueStep(s) PROVE FALSE
  BY <1>0, <1>2 DEF IssueStep, IssueCheck, StoreCode, MailSent, MailFails, DropCode, Goto, Ends
<1>3. ASSUME NEW s \in Requests, s # r, ConsumeStep(s) PROVE FALSE
  BY <1>0, <1>3 DEF ConsumeStep, CheckCode, ExpireCode, RecordMiss, TakeCode, Goto, Ends
<1>4. ASSUME NEW s \in Requests, s # r, AccountStep(s) PROVE FALSE
  BY <1>0, <1>4 DEF AccountStep, CreateTenant, CreateUser, StartTrial, SetPassword, Rehash, Goto, Ends
<1>5. ASSUME NEW s \in Requests, s # r, Crash(s) PROVE FALSE
  BY <1>0, <1>5 DEF Crash, Ends
<1>6. ~UNCHANGED vars /\ ~Tick
  BY DEF vars, Tick
<1>7. QED BY <1>1, <1>2, <1>3, <1>4, <1>5, <1>6 DEF Next

LEMMA Mailing ==
    ASSUME NEW r \in Requests, request[r].pc \in {"mail", "drop"},
           Endpoint(r) \/ IssueStep(r) \/ ConsumeStep(r) \/ AccountStep(r) \/ Crash(r)
    PROVE  MailSent(r) \/ MailFails(r) \/ DropCode(r) \/ Crash(r)
BY DEF Endpoint, SendCode, Submit, Login, IssueStep, IssueCheck, StoreCode, ConsumeStep, CheckCode,
       ExpireCode, RecordMiss, TakeCode, AccountStep, CreateTenant, CreateUser, StartTrial,
       SetPassword, Rehash, At

(* Undelivered codes go.  The request that stored a code is in flight until *)
(* the mail is out or the row is gone.                                      *)
LEMMA DroppedStep ==
    ASSUME AccountsAssumption, CodeInv, UndeliveredIsDropped, [Next]_vars
    PROVE  UndeliveredIsDropped'
<1> USE DEF CodeInv
<1> DEFINE Flying(c) == InFlight("mail", c) \cup InFlight("drop", c)
<1>1. SUFFICES ASSUME NEW p \in Purposes, pending'[p] # NoRow, pending'[p].code \notin inbox'[p]
               PROVE  (\E r \in Requests : request'[r].pc \in {"mail", "drop"}
                           /\ request'[r].code = pending'[p].code) \/ faults' > 0
  BY DEF UndeliveredIsDropped, InFlight, At
<1>2. inbox[p] \subseteq inbox'[p]
  <2>1. ASSUME NEW r \in Requests, MailArrives(r) PROVE inbox[p] \subseteq inbox'[p]
    BY <2>1 DEF MailArrives, TypeInv, TypeOK
  <2>2. inbox' = inbox \/ \E r \in Requests : MailArrives(r)
    BY DEF Next, Endpoint, IssueStep, ConsumeStep, AccountStep, SendCode, Submit, Login, IssueCheck,
           StoreCode, MailSent, MailFails, DropCode, CheckCode, ExpireCode, RecordMiss, TakeCode,
           CreateTenant, CreateUser, StartTrial, SetPassword, Rehash, Crash, Tick, vars, codeVars
  <2>3. QED BY <2>1, <2>2
<1>3. faults \in Nat /\ faults' \in Nat /\ faults' >= faults
  <2>1. faults' = faults \/ faults' = faults + 1
    BY DEF Next, Endpoint, IssueStep, ConsumeStep, AccountStep, SendCode, Submit, Login, IssueCheck,
           StoreCode, MailSent, MailFails, DropCode, CheckCode, ExpireCode, RecordMiss, TakeCode,
           CreateTenant, CreateUser, StartTrial, SetPassword, Rehash, Crash, Tick, vars
  <2>2. QED BY <2>1 DEF TypeInv, TypeOK
<1>4. ASSUME NEW r \in Requests, Stores(r), pending'[p].code = issued'
      PROVE  \E s \in Requests : request'[s].pc \in {"mail", "drop"} /\ request'[s].code = pending'[p].code
  BY <1>4 DEF Stores
<1>5. CASE Remains(p)
  <2>1. pending[p] # NoRow /\ pending[p].code \notin inbox[p] /\ pending'[p].code = pending[p].code
    BY <1>1, <1>2, <1>5 DEF Remains
  <2>2. CASE faults > 0
    BY <1>3, <2>2 DEF TypeInv, TypeOK
  <2>3. CASE ~(faults > 0)
    <3>1. PICK r \in Requests : request[r].pc \in {"mail", "drop"} /\ request[r].code = pending[p].code
      BY <2>1, <2>3 DEF UndeliveredIsDropped, InFlight, At
    <3>2. request[r].purpose = p /\ request[r] \in Request /\ request \in [Requests -> Request]
      BY <3>1 DEF HoldersOK, Coded, TypeInv, TypeOK
    <3>3. CASE request'[r] = request[r]
      BY <2>1, <3>1, <3>3
    <3>4. CASE MailSent(r)
      BY <1>1, <2>1, <3>1, <3>2, <3>4 DEF MailSent, MailArrives, TypeInv, TypeOK
    <3>5. CASE MailFails(r)
      <4>1. request'[r] = [request[r] EXCEPT !.pc = "drop"]
        BY <3>2, <3>5 DEF MailFails, Goto
      <4>2. request'[r].pc = "drop" /\ request'[r].code = request[r].code
        BY <3>2, <4>1, Fields
      <4>3. QED BY <2>1, <3>1, <4>2
    <3>6. CASE DropCode(r)
      BY <1>1, <3>1, <3>2, <3>6 DEF DropCode, Deleted, TypeInv, TypeOK
    <3>7. CASE Crash(r)
      BY <1>3, <3>7 DEF Crash
    <3>8. \/ request'[r] = request[r] \/ MailSent(r) \/ MailFails(r) \/ DropCode(r) \/ Crash(r)
      BY <3>1, OthersStay, Mailing
    <3>9. QED BY <3>3, <3>4, <3>5, <3>6, <3>7, <3>8
  <2>4. QED BY <2>2, <2>3
<1>6. QED BY <1>1, <1>4, <1>5, RowsEvolve

\* What could not be delivered is dropped, whatever other requests store meanwhile.
THEOREM UndeliveredCodesGo == Spec => []UndeliveredIsDropped
<1>1. Init => UndeliveredIsDropped
  BY DEF Init, UndeliveredIsDropped
<1>2. CodeInv /\ UndeliveredIsDropped /\ [Next]_vars => UndeliveredIsDropped'
  BY AccountsAssumption, DroppedStep
<1>3. QED BY <1>1, <1>2, CodesAreKept, PTL DEF Spec

-------------------------------------------------------------------------------
(* The password is the one chosen last, unless a rehash overtook a reset:   *)
(* a sign-in that is rehashing has the password of the account.             *)
RehashOK ==
    \A r \in Requests : request[r].pc = "rehash" =>
        HasUser /\ (~overtaken => request[r].password = user.password)

PasswordInv == TypeInv /\ RehashOK /\ PasswordAsChosen

LEMMA Rehashing ==
    ASSUME AccountsAssumption, TypeInv, [Next]_vars, NEW r \in Requests, request'[r].pc = "rehash"
    PROVE  \/ request'[r] = request[r]
           \/ \E password \in Passwords : Login(r, password) /\ request'[r].password = password
<1>1. request \in [Requests -> Request] /\ request[r] \in Request
  BY DEF TypeInv, TypeOK
<1>2. SUFFICES ASSUME request'[r] # request[r]
               PROVE  \E password \in Passwords : Login(r, password) /\ request'[r].password = password
  OBVIOUS
<1>3. ~Ends(r)
  BY <1>1, Shapes DEF Ends
<1>4. ASSUME NEW step, step # "rehash", Goto(r, step) PROVE FALSE
  <2>1. request'[r] = [request[r] EXCEPT !.pc = step]
    BY <1>1, <1>4 DEF Goto
  <2>2. QED BY <1>1, <1>4, <2>1, Fields
<1>5. ASSUME NEW step, NEW c, step # "rehash", request' = [request EXCEPT ![r].pc = step, ![r].code = c]
      PROVE  FALSE
  <2>1. request'[r] = [request[r] EXCEPT !.pc = step, !.code = c]
    BY <1>1, <1>5
  <2>2. QED BY <1>1, <1>5, <2>1, Fields
<1>6. ASSUME NEW p \in Purposes, SendCode(r, p) PROVE FALSE
  <2>1. request'[r] = [Idle EXCEPT !.pc = "issue", !.purpose = p] /\ "issue" \in Steps
    BY <1>1, <1>6 DEF SendCode, Steps
  <2>2. QED BY <2>1, FreshStarts
<1>7. ASSUME NEW p, NEW typed, NEW password, Submit(r, p, typed, password) PROVE FALSE
  BY <1>1, <1>7 DEF Submit
<1>8. ASSUME NEW password \in Passwords, Login(r, password) PROVE request'[r].password = password
  <2>1. request'[r] = [Idle EXCEPT !.pc = "rehash", !.password = password]
    BY <1>1, <1>8 DEF Login
  <2>2. QED BY <2>1, FreshLogins
<1>9. ASSUME IssueStep(r) PROVE FALSE
  <2>1. CASE request' = [request EXCEPT ![r].pc = "store", ![r].at = now]
    <3>1. request'[r] = [request[r] EXCEPT !.pc = "store", !.at = now]
      BY <1>1, <2>1
    <3>2. QED BY <1>1, <3>1, Fields
  <2>2. QED BY <1>3, <1>4, <1>5, <1>9, <2>1
           DEF IssueStep, IssueCheck, StoreCode, MailSent, MailFails, DropCode
<1>10. ASSUME ConsumeStep(r) PROVE FALSE
  BY <1>3, <1>4, <1>5, <1>10 DEF ConsumeStep, CheckCode, ExpireCode, RecordMiss, TakeCode
<1>11. ASSUME AccountStep(r) PROVE FALSE
  BY <1>3, <1>4, <1>11 DEF AccountStep, CreateTenant, CreateUser, StartTrial, SetPassword, Rehash
<1>12. ~Crash(r)
  BY <1>3 DEF Crash
<1>13. QED BY <1>2, <1>6, <1>7, <1>8, <1>9, <1>10, <1>11, <1>12, OthersStay DEF Endpoint

LEMMA PasswordStep ==
    ASSUME AccountsAssumption, PasswordInv, [Next]_vars
    PROVE  RehashOK' /\ PasswordAsChosen'
<1> USE DEF PasswordInv
<1>0. request \in [Requests -> Request]
  BY DEF TypeInv, TypeOK
<1>1. CASE UNCHANGED <<user, intended, overtaken>>
  <2>1. PasswordAsChosen'
    BY <1>1 DEF PasswordAsChosen, HasUser
  <2>2. ASSUME NEW r \in Requests, request'[r].pc = "rehash"
        PROVE  (HasUser /\ (~overtaken => request[r].password = user.password))'
    <3>1. CASE request'[r] = request[r]
      BY <1>1, <2>2, <3>1 DEF RehashOK, HasUser
    <3>2. ASSUME NEW password \in Passwords, Login(r, password), request'[r].password = password
          PROVE  (HasUser /\ (~overtaken => request[r].password = user.password))'
      BY <1>1, <3>2 DEF Login, HasUser
    <3>3. QED BY <2>2, <3>1, <3>2, Rehashing
  <2>3. QED BY <2>1, <2>2 DEF RehashOK
<1>2. ASSUME NEW r \in Requests, request[r].pc \in {"user", "password", "rehash"},
             user' = [password |-> request[r].password, legacy |-> FALSE]
      PROVE  HasUser' /\ user'.password = request[r].password
  <2>1. request[r].password \in Passwords
    BY <1>2 DEF TypeInv, RequestsOK, Chosen
  <2>2. QED BY <1>2, <2>1 DEF HasUser, NoUser, AccountsAssumption
<1>3. ASSUME NEW r \in Requests, CreateUser(r), ~HasUser PROVE RehashOK' /\ PasswordAsChosen'
  <2>1. HasUser' /\ user'.password = intended' /\ request[r].pc = "user"
    BY <1>2, <1>3 DEF CreateUser, At
  <2>2. \A s \in Requests : request[s].pc # "rehash"
    BY <1>3 DEF RehashOK
  <2>3. \A s \in Requests : request'[s].pc # "rehash"
    BY <1>3, <2>2, Rehashing DEF CreateUser, Login
  <2>4. QED BY <2>1, <2>3 DEF RehashOK, PasswordAsChosen
<1>4. ASSUME NEW r \in Requests, SetPassword(r), HasUser PROVE RehashOK' /\ PasswordAsChosen'
  <2>1. HasUser' /\ user'.password = intended' /\ request[r].pc = "password"
    BY <1>2, <1>4 DEF SetPassword, At
  <2>2. ASSUME NEW s \in Requests, request'[s].pc = "rehash" PROVE overtaken'
    <3>1. request'[s] = request[s]
      <4>1. \A password : ~Login(s, password)
        BY <1>0, <1>4, <2>2, Shapes DEF Login, SetPassword, Ends, At
      <4>2. QED BY <2>2, <4>1, Rehashing
    <3>2. QED BY Zenon, <1>4, <2>2, <3>1 DEF SetPassword, At
  <2>3. QED BY <2>1, <2>2 DEF RehashOK, PasswordAsChosen
<1>5. ASSUME NEW r \in Requests, Rehash(r) PROVE RehashOK' /\ PasswordAsChosen'
  <2>1. HasUser' /\ user'.password = request[r].password /\ request[r].pc = "rehash"
        /\ UNCHANGED <<intended, overtaken>> /\ Ends(r)
    BY <1>2, <1>5 DEF Rehash, At, historyVars
  <2>2. HasUser /\ (~overtaken => user'.password = user.password)
    BY <2>1 DEF RehashOK
  <2>3. PasswordAsChosen'
    BY <2>1, <2>2 DEF PasswordAsChosen
  <2>4. ASSUME NEW s \in Requests, request'[s].pc = "rehash"
        PROVE  ~overtaken' => request'[s].password = user'.password
    <3>1. request'[s] = request[s]
      BY <1>0, <2>1, <2>4, Shapes DEF Ends
    <3>2. QED BY <2>1, <2>2, <2>4, <3>1 DEF RehashOK
  <2>5. QED BY <2>1, <2>3, <2>4 DEF RehashOK
<1>6. QED
  BY <1>1, <1>3, <1>4, <1>5
  DEF Next, Endpoint, IssueStep, ConsumeStep, AccountStep, SendCode, Submit, Login, IssueCheck,
      StoreCode, MailSent, MailFails, DropCode, CheckCode, ExpireCode, RecordMiss, TakeCode,
      CreateTenant, CreateUser, StartTrial, SetPassword, Crash, Tick, vars,
      accountVars, historyVars

\* The rehash invariant holds in every reachable state.
LEMMA PasswordsAreKept == Spec => []PasswordInv
<1>1. Init => PasswordInv
  <2> SUFFICES ASSUME Init PROVE PasswordInv
    OBVIOUS
  <2>1. TypeInv
    BY AccountsAssumption, TypeInit
  <2>2. RehashOK /\ PasswordAsChosen
    BY DEF Init, RehashOK, PasswordAsChosen, Idle
  <2>3. QED BY <2>1, <2>2 DEF PasswordInv
<1>2. PasswordInv /\ [Next]_vars => PasswordInv'
  BY AccountsAssumption, TypeStep, PasswordStep DEF PasswordInv
<1>3. QED BY <1>1, <1>2, PTL DEF Spec

\* Of resets and sign-ins that do not overlap, the last choice is what signs in.
THEOREM LastChoiceWins == Spec => []PasswordAsChosen
<1>1. PasswordInv => PasswordAsChosen
  BY DEF PasswordInv
<1>2. QED BY <1>1, PasswordsAreKept, PTL

-------------------------------------------------------------------------------
(* Wrong guesses.  A row has counted the guesses at its code but for those  *)
(* in flight, and those of handlers that died.                              *)
Guessing(c) == InFlight("miss", c)
Budget == MaxAttempts - 1 + Cardinality(Requests)

GuessesOK ==
    /\ \A c \in Codes : misses[c] <= Budget + faults /\ (c > issued => misses[c] = 0)
    /\ \A p \in Purposes, c \in Codes : pending[p].code = c =>
          misses[c] <= pending[p].attempts + Cardinality(Guessing(c)) + faults

GuessInv == CodeInv /\ GuessesOK

LEMMA GuessingFinite ==
    ASSUME AccountsAssumption, NEW c
    PROVE  /\ IsFiniteSet(Guessing(c)) /\ Cardinality(Guessing(c)) \in Nat
           /\ Cardinality(Guessing(c)) <= Cardinality(Requests)
           /\ Cardinality(Requests) \in Nat
           /\ (\E r \in Requests : r \notin Guessing(c)) =>
                  Cardinality(Guessing(c)) <= Cardinality(Requests) - 1
<1>1. Guessing(c) \subseteq Requests
  BY DEF Guessing, InFlight
<1>2. IsFiniteSet(Requests)
  BY DEF AccountsAssumption
<1>3. IsFiniteSet(Guessing(c)) /\ Cardinality(Guessing(c)) <= Cardinality(Requests)
  BY <1>1, <1>2, FS_Subset
<1>4. Cardinality(Guessing(c)) \in Nat /\ Cardinality(Requests) \in Nat
  BY <1>2, <1>3, FS_CardinalityType
<1>5. ASSUME NEW r \in Requests, r \notin Guessing(c)
      PROVE  Cardinality(Guessing(c)) <= Cardinality(Requests) - 1
  <2>1. Guessing(c) # Requests
    BY <1>5
  <2>2. Cardinality(Guessing(c)) < Cardinality(Requests)
    BY <1>1, <1>2, <1>4, <2>1, FS_Subset
  <2>3. QED BY <1>4, <2>2
<1>6. QED BY <1>3, <1>4, <1>5

\* A guess is in flight from the look at the row until it is counted, or lost.
LEMMA GuessingMoves ==
    ASSUME AccountsAssumption, TypeInv, [Next]_vars, NEW r \in Requests, NEW c
    PROVE  /\ r \in Guessing(c)' /\ r \notin Guessing(c) => Judges(r) /\ request'[r].pc = "miss"
           /\ r \in Guessing(c) /\ r \notin Guessing(c)' => RecordMiss(r) \/ Crash(r)
<1>1. ASSUME r \in Guessing(c)', r \notin Guessing(c) PROVE Judges(r) /\ request'[r].pc = "miss"
  <2>1. request'[r].pc = "miss" /\ request'[r] # request[r]
    BY <1>1 DEF Guessing, InFlight, At
  <2>2. QED BY <2>1, RequestsEvolve DEF Coded, Stores
<1>2. ASSUME r \in Guessing(c), r \notin Guessing(c)' PROVE RecordMiss(r) \/ Crash(r)
  <2>1. request[r].pc = "miss" /\ request'[r] # request[r]
    BY <1>2 DEF Guessing, InFlight, At
  <2>2. QED
    BY <2>1, OthersStay
    DEF Endpoint, SendCode, Submit, Login, IssueStep, IssueCheck, StoreCode, MailSent, MailFails,
        DropCode, ConsumeStep, CheckCode, ExpireCode, TakeCode, AccountStep, CreateTenant,
        CreateUser, StartTrial, SetPassword, Rehash, At
<1>3. QED BY <1>1, <1>2

\* Steps that neither guess, count nor crash.
LEMMA QuietStep ==
    ASSUME AccountsAssumption, GuessInv, [Next]_vars, misses' = misses, faults' = faults,
           \A c \in Codes : Guessing(c)' = Guessing(c)
    PROVE  GuessesOK'
<1> USE DEF GuessInv, CodeInv
<1>1. TypeInv' /\ issued \in Nat /\ faults \in Nat
  BY TypeStep DEF TypeInv, TypeOK
<1>2. issued' = issued \/ issued' = issued + 1
  BY DEF Next, Endpoint, IssueStep, ConsumeStep, AccountStep, SendCode, Submit, Login, IssueCheck,
         StoreCode, MailSent, MailFails, DropCode, CheckCode, ExpireCode, RecordMiss, TakeCode,
         CreateTenant, CreateUser, StartTrial, SetPassword, Rehash, Crash, Tick, vars, codeVars
<1>3. \A c \in Codes : misses'[c] <= (Budget + faults)' /\ (c > issued' => misses'[c] = 0)
  BY <1>1, <1>2 DEF GuessesOK, Codes, Budget
<1>4. ASSUME NEW p \in Purposes, NEW c \in Codes, pending'[p].code = c
      PROVE  misses'[c] <= pending'[p].attempts + Cardinality(Guessing(c)') + faults'
  <2> DEFINE n == Cardinality(Guessing(c))
  <2>1. n = Cardinality(Guessing(c)') /\ n \in Nat
    BY GuessingFinite
  <2>2. pending'[p] # NoRow
    BY <1>4, Shapes DEF Codes
  <2>3. pending'[p].attempts \in Nat /\ misses[c] \in Nat
    BY <1>1, <2>2 DEF TypeInv, TypeOK, Row
  <2> HIDE DEF n
  <2>4. CASE Remains(p)
    <3>1. misses[c] <= pending[p].attempts + n + faults
      BY <1>4, <2>4 DEF GuessesOK, Remains, n
    <3>2. pending'[p].attempts >= pending[p].attempts /\ pending[p].attempts \in Nat
      BY <2>4, RowShapes DEF Remains, TypeInv
    <3>3. misses[c] <= pending'[p].attempts + n + faults
      BY <1>1, <2>1, <2>3, <3>1, <3>2
    <3>4. QED BY <2>1, <3>3
  <2>5. ASSUME NEW r \in Requests, Stores(r), pending'[p].code = issued'
        PROVE  misses'[c] <= pending'[p].attempts + Cardinality(Guessing(c)') + faults'
    <3>1. misses[c] = 0
      BY <1>1, <1>4, <2>5 DEF GuessesOK, Stores
    <3>2. QED BY <1>1, <2>1, <2>3, <3>1
  <2>6. QED BY <2>2, <2>4, <2>5, RowsEvolve
<1>5. QED BY <1>3, <1>4 DEF GuessesOK

\* A wrong guess: the row had attempts left, and one more handler holds its code.
LEMMA GuessStep ==
    ASSUME AccountsAssumption, GuessInv, [Next]_vars, NEW r \in Requests, CheckCode(r), misses' # misses,
           NEW p \in Purposes, p = request[r].purpose, NEW d, d = pending[p].code
    PROVE  GuessesOK'
<1> USE DEF GuessInv, CodeInv
<1>1. /\ pending[p] # NoRow /\ ~Exhausted(pending[p]) /\ misses' = [misses EXCEPT ![d] = @ + 1]
      /\ request' = [request EXCEPT ![r].pc = "miss", ![r].code = d]
      /\ UNCHANGED <<codeVars, faults>> /\ request[r].pc = "check"
  BY DEF CheckCode, At
<1>2. request[r] \in Request /\ request \in [Requests -> Request]
  BY DEF TypeInv, TypeOK
<1>3. d \in Codes /\ pending[p].attempts \in Nat /\ pending[p].attempts <= MaxAttempts - 1 /\ d <= issued
  BY <1>1, <1>2, RowShapes DEF Exhausted, AccountsAssumption, TypeInv, RowsOK
<1>4. /\ faults \in Nat /\ issued \in Nat /\ Cardinality(Requests) \in Nat /\ MaxAttempts \in Nat
      /\ misses \in [Codes -> Nat]
  BY GuessingFinite DEF TypeInv, TypeOK, AccountsAssumption
<1>5. request'[r].pc = "miss" /\ request'[r].code = d /\ \A s \in Requests \ {r} : request'[s] = request[s]
  <2>1. request'[r] = [request[r] EXCEPT !.pc = "miss", !.code = d]
    BY <1>1, <1>2
  <2>2. request'[r].pc = "miss" /\ request'[r].code = d
    BY <1>2, <2>1, Fields
  <2>3. QED BY <1>1, <1>2, <2>2
<1>6. r \notin Guessing(d) /\ Guessing(d)' = Guessing(d) \cup {r}
  <2>1. r \notin Guessing(d) /\ r \in Guessing(d)'
    BY <1>1, <1>5 DEF Guessing, InFlight, At
  <2>2. \A s \in Requests \ {r} : s \in Guessing(d)' <=> s \in Guessing(d)
    BY <1>5 DEF Guessing, InFlight, At
  <2>3. Guessing(d) \subseteq Requests /\ Guessing(d)' \subseteq Requests
    BY DEF Guessing, InFlight
  <2>4. QED BY <2>1, <2>2, <2>3
<1>7. ASSUME NEW c \in Codes, c # d PROVE Guessing(c)' = Guessing(c)
  <2>1. r \notin Guessing(c) /\ r \notin Guessing(c)'
    BY <1>1, <1>5, <1>7 DEF Guessing, InFlight, At
  <2>2. \A s \in Requests \ {r} : s \in Guessing(c)' <=> s \in Guessing(c)
    BY <1>5 DEF Guessing, InFlight, At
  <2>3. Guessing(c) \subseteq Requests /\ Guessing(c)' \subseteq Requests
    BY DEF Guessing, InFlight
  <2>4. QED BY <2>1, <2>2, <2>3
<1>8. Cardinality(Guessing(d)') = Cardinality(Guessing(d)) + 1
  <2>1. IsFiniteSet(Guessing(d))
    BY GuessingFinite
  <2>2. Cardinality(Guessing(d) \cup {r}) = Cardinality(Guessing(d)) + 1
    <3> HIDE DEF GuessInv, CodeInv
    <3>1. r \notin Guessing(d)
      BY <1>6
    <3> QED BY <2>1, <3>1, FS_AddElement
  <2> QED BY <1>6, <2>2
<1>9. misses[d] <= pending[p].attempts + Cardinality(Guessing(d)) + faults
  BY <1>3 DEF GuessesOK
<1>10. Cardinality(Guessing(d)) \in Nat /\ Cardinality(Guessing(d)) <= Cardinality(Requests) - 1
  BY <1>6, GuessingFinite
<1>11. misses'[d] = misses[d] + 1 /\ misses[d] \in Nat
  BY <1>1, <1>3, <1>4
<1>12. misses'[d] <= Budget + faults
  BY <1>3, <1>4, <1>9, <1>10, <1>11 DEF Budget
<1>13. \A c \in Codes : misses'[c] <= (Budget + faults)' /\ (c > issued' => misses'[c] = 0)
  <2>1. \A c \in Codes \ {d} : misses'[c] = misses[c]
    BY <1>1, <1>4
  <2>2. QED BY <1>1, <1>3, <1>4, <1>12, <2>1 DEF GuessesOK, Budget, codeVars, Codes
<1>14. ASSUME NEW q \in Purposes, NEW c \in Codes, pending'[q].code = c
       PROVE  misses'[c] <= pending'[q].attempts + Cardinality(Guessing(c)') + faults'
  <2>1. pending'[q] = pending[q] /\ faults' = faults /\ pending[q].code = c
    BY <1>1, <1>14 DEF codeVars
  <2>2. pending[q].attempts \in Nat
    BY <2>1, RowShapes, Shapes DEF Codes, TypeInv
  <2>3. CASE c = d
    <3>1. misses[d] <= pending[q].attempts + Cardinality(Guessing(d)) + faults
      BY <2>1, <2>3 DEF GuessesOK
    <3>2. QED BY <1>4, <1>8, <1>10, <1>11, <2>1, <2>2, <2>3, <3>1
  <2>4. CASE c # d
    <3>1. misses'[c] = misses[c] /\ Guessing(c)' = Guessing(c)
      BY <1>1, <1>4, <1>7, <2>4
    <3>2. QED BY <2>1, <3>1 DEF GuessesOK
  <2>5. QED BY <2>3, <2>4
<1>15. QED BY <1>13, <1>14 DEF GuessesOK

\* A guess leaves the air: it is counted at the row, or the fault that lost it counts.
LEMMA LandStep ==
    ASSUME AccountsAssumption, GuessInv, [Next]_vars, NEW r \in Requests, Crash(r) \/ RecordMiss(r)
    PROVE  GuessesOK'
<1> USE DEF GuessInv, CodeInv
<1>1. misses' = misses /\ issued' = issued /\ Ends(r)
  BY DEF Crash, RecordMiss, historyVars, codeVars
<1>2. /\ faults \in Nat /\ issued \in Nat /\ Cardinality(Requests) \in Nat /\ MaxAttempts \in Nat
      /\ misses \in [Codes -> Nat] /\ request \in [Requests -> Request]
      /\ request[r].purpose \in Purposes /\ pending \in [Purposes -> Row \cup {NoRow}]
  BY GuessingFinite, Shapes DEF TypeInv, TypeOK, AccountsAssumption
<1>3. faults' = faults \/ faults' = faults + 1
  BY DEF Crash, RecordMiss
<1>4. \A c : Guessing(c)' = Guessing(c) \ {r}
  <2>1. request'[r].pc = "idle" /\ \A s \in Requests \ {r} : request'[s] = request[s]
    BY <1>1, <1>2, Shapes DEF Ends
  <2>2. QED BY <2>1 DEF Guessing, InFlight, At
<1>5. \A c \in Codes : misses'[c] <= (Budget + faults)' /\ (c > issued' => misses'[c] = 0)
  BY <1>1, <1>2, <1>3 DEF GuessesOK, Budget
<1>6. ASSUME NEW p \in Purposes, NEW c \in Codes, pending'[p].code = c
      PROVE  misses'[c] <= pending'[p].attempts + Cardinality(Guessing(c)') + faults'
  <2> DEFINE n == Cardinality(Guessing(c))
             m == Cardinality(Guessing(c)')
  <2>1. n \in Nat /\ m \in Nat /\ (IF r \in Guessing(c) THEN m = n - 1 ELSE m = n)
    <3>1. CASE r \in Guessing(c)
      <4>1. Guessing(c)' = Guessing(c) \ {r} /\ IsFiniteSet(Guessing(c)) /\ n \in Nat
        BY <1>4, GuessingFinite
      <4>2. m = n - 1
        BY <3>1, <4>1, FS_RemoveElement
      <4>3. m \in Nat
        BY <4>1, FS_RemoveElement, FS_CardinalityType
      <4>4. QED BY <3>1, <4>1, <4>2, <4>3
    <3>2. CASE r \notin Guessing(c)
      <4>1. Guessing(c)' = Guessing(c)
        BY <1>4, <3>2
      <4>2. QED BY <3>2, <4>1, GuessingFinite
    <3>3. QED BY <3>1, <3>2
  <2> HIDE DEF n, m
  <2>2. pending[p] # NoRow /\ pending[p].code = c
    <3>1. CASE Crash(r)
      BY <1>6, <3>1, Shapes DEF Crash, codeVars, Codes
    <3>2. CASE RecordMiss(r)
      <4>1. pending' = Counted(request[r].purpose)
        BY <3>2 DEF RecordMiss
      <4>2. pending[p].code = c
        BY <1>1, <1>2, <1>6, <4>1, CountedRows
      <4>3. QED BY <4>2, Shapes DEF Codes
    <3>3. QED BY <3>1, <3>2
  <2>3. misses[c] <= pending[p].attempts + n + faults /\ pending[p].attempts \in Nat /\ misses[c] \in Nat
    BY <1>2, <2>2, RowShapes DEF GuessesOK, TypeInv, n
  <2>4. CASE Crash(r)
    <3>1. faults' = faults + 1 /\ pending' = pending
      BY <2>4 DEF Crash, codeVars
    <3>2. misses[c] <= pending[p].attempts + m + faults'
      BY <1>2, <2>1, <2>3, <3>1
    <3>3. QED BY <1>1, <3>1, <3>2 DEF m
  <2>5. CASE RecordMiss(r)
    <3>1. faults' = faults /\ request[r].pc = "miss" /\ pending' = Counted(request[r].purpose)
      BY <2>5 DEF RecordMiss, At
    <3>2. CASE p = request[r].purpose
      <4>1. pending'[p] = [pending[p] EXCEPT !.attempts = @ + 1] /\ pending[p] \in Row
        BY <1>2, <2>2, <3>1, <3>2, RowShapes DEF Counted, TypeInv
      <4>2. pending'[p].attempts = pending[p].attempts + 1
        BY <4>1 DEF Row
      <4>3. misses[c] <= pending'[p].attempts + m + faults
        BY <1>2, <2>1, <2>3, <4>2
      <4>4. QED BY <1>1, <3>1, <4>3 DEF m
    <3>3. CASE p # request[r].purpose
      <4>1. pending'[p] = pending[p]
        BY <1>2, <3>1, <3>3 DEF Counted
      <4>2. r \notin Guessing(c)
        BY <2>2, <3>1, <3>3 DEF Guessing, InFlight, At, HoldersOK, Coded
      <4>3. misses[c] <= pending'[p].attempts + m + faults
        BY <2>1, <2>3, <4>1, <4>2
      <4>4. QED BY <1>1, <3>1, <4>3 DEF m
    <3>4. QED BY <3>2, <3>3
  <2>6. QED BY <2>4, <2>5
<1>7. QED BY <1>5, <1>6 DEF GuessesOK

LEMMA GuessesStep ==
    ASSUME AccountsAssumption, GuessInv, [Next]_vars
    PROVE  GuessesOK'
<1> USE DEF GuessInv, CodeInv
<1>1. CASE \E r \in Requests : Crash(r) \/ RecordMiss(r)
  BY <1>1, LandStep
<1>2. CASE \E r \in Requests : CheckCode(r) /\ misses' # misses
  <2>1. PICK r \in Requests : CheckCode(r) /\ misses' # misses
    BY <1>2
  <2>2. request[r].purpose \in Purposes
    BY Shapes DEF TypeInv, TypeOK
  <2>3. QED BY <2>1, <2>2, GuessStep
<1>3. CASE /\ ~\E r \in Requests : Crash(r) \/ RecordMiss(r)
           /\ ~\E r \in Requests : CheckCode(r) /\ misses' # misses
  <2>1. misses' = misses /\ faults' = faults
    BY <1>3
    DEF Next, Endpoint, IssueStep, ConsumeStep, AccountStep, SendCode, Submit, Login, IssueCheck,
        StoreCode, MailSent, MailFails, DropCode, CheckCode, ExpireCode, TakeCode, CreateTenant,
        CreateUser, StartTrial, SetPassword, Rehash, Tick, vars, historyVars
  <2>2. ASSUME NEW r \in Requests, Judges(r), request'[r].pc = "miss" PROVE misses' # misses
    <3> DEFINE p == request[r].purpose
               d == pending[p].code
    <3>1. request[r].pc = "check" /\ request'[r] # request[r] /\ request \in [Requests -> Request]
      BY <2>2 DEF Judges, TypeInv, TypeOK
    <3>2. CheckCode(r)
      BY <1>3, <3>1, OthersStay
      DEF Endpoint, SendCode, Submit, Login, IssueStep, IssueCheck, StoreCode, MailSent, MailFails,
          DropCode, ConsumeStep, ExpireCode, RecordMiss, TakeCode, AccountStep, CreateTenant,
          CreateUser, StartTrial, SetPassword, Rehash, At
    <3>3. request[r] \in Request /\ p \in Purposes /\ pending[p] # NoRow
      BY <2>2, Shapes DEF Judges, TypeInv, TypeOK
    <3>4. d \in Codes /\ misses \in [Codes -> Nat]
      BY <3>3, RowShapes DEF TypeInv, TypeOK
    <3>5. ASSUME NEW step \in {"expire", "take"}, request' = [request EXCEPT ![r].pc = step, ![r].code = d]
          PROVE  FALSE
      <4>1. request'[r] = [request[r] EXCEPT !.pc = step, !.code = d]
        BY <3>1, <3>5
      <4> HIDE DEF d
      <4>2. QED BY <2>2, <3>3, <4>1, Fields
    <3>6. ~Ends(r)
      BY <2>2, <3>1, Shapes DEF Ends
    <3>7. misses' = [misses EXCEPT ![d] = @ + 1]
      BY <3>2, <3>5, <3>6 DEF CheckCode
    <3> HIDE DEF d
    <3>8. misses'[d] = misses[d] + 1 /\ misses[d] \in Nat
      BY <3>4, <3>7
    <3>9. QED BY <3>8
  <2>3. \A c \in Codes : Guessing(c)' = Guessing(c)
    <3>1. ASSUME NEW c \in Codes PROVE \A r \in Requests : r \in Guessing(c)' <=> r \in Guessing(c)
      BY <1>3, <2>1, <2>2, GuessingMoves
    <3>2. QED BY <3>1 DEF Guessing, InFlight
  <2>4. QED BY <2>1, <2>3, QuietStep
<1>4. QED BY <1>1, <1>2, <1>3

(* The limit on wrong guesses is passed by the guesses in flight and by     *)
(* those lost to a fault, and by no others.                                 *)
THEOREM FewGuesses == Spec => []GuessesBounded
<1>1. Init => GuessesOK
  <2> SUFFICES ASSUME Init PROVE GuessesOK
    OBVIOUS
  <2>1. \A c \in Codes : misses[c] = 0
    BY DEF Init
  <2>2. Budget \in Nat /\ faults = 0
    BY GuessingFinite, AccountsAssumption DEF Init, Budget, AccountsAssumption
  <2>3. \A p \in Purposes : pending[p].code = 0
    BY DEF Init, NoRow
  <2>4. QED BY <2>1, <2>2, <2>3 DEF GuessesOK, Codes
<1>2. CodeInv /\ GuessesOK /\ [Next]_vars => GuessesOK'
  BY AccountsAssumption, GuessesStep DEF GuessInv
<1>3. GuessesOK => GuessesBounded
  BY DEF GuessesOK, GuessesBounded, Budget
<1>4. QED BY <1>1, <1>2, <1>3, CodesAreKept, PTL DEF Spec

-------------------------------------------------------------------------------
(* Registration.  Every workspace, and every request about to create one,   *)
(* has cost a delivered sign-up code; and an owner without a trial is one   *)
(* whose registration is still running or has died.                         *)
SignUps == {c \in inbox["register"] : uses[c] > 0}
Founding == {r \in Requests : At(r, "tenant")}

\* What a request submitted, and the code it is about to take, reached the inbox.
TypedOK ==
    \A r \in Requests :
        /\ request[r].pc = "check" => request[r].code \in inbox[request[r].purpose] \cup {Wrong}
        /\ request[r].pc = "take" => request[r].code \in inbox[request[r].purpose]

\* The account that was there at the start cost no code.
WorkspacesOK ==
    tenants + Cardinality(Founding) <= (IF HasUser THEN 1 ELSE 0) + Cardinality(SignUps)

TrialOK == HasUser /\ ~trial => (\E r \in Requests : At(r, "trial")) \/ faults > 0

RegistrationInv == TypedOK /\ WorkspacesOK /\ TrialOK

\* The codes and the requests are finitely many.
LEMMA RegistrationFinite ==
    ASSUME AccountsAssumption
    PROVE  /\ \A S \in SUBSET Codes : IsFiniteSet(S) /\ Cardinality(S) \in Nat
           /\ \A S \in SUBSET Requests : IsFiniteSet(S) /\ Cardinality(S) \in Nat
<1>1. IsFiniteSet(Codes) /\ IsFiniteSet(Requests)
  BY FS_Interval DEF AccountsAssumption, Codes
<1>2. QED BY <1>1, FS_Subset, FS_CardinalityType

\* Sign-up codes are codes.
LEMMA SignUpsAreCodes == TypeInv => SignUps \subseteq Codes /\ Founding \subseteq Requests
  BY DEF SignUps, Founding, TypeInv, TypeOK, Purposes

\* An account that exists stays; the inbox and the uses of codes only grow.
LEMMA AccountsGrow ==
    ASSUME AccountsAssumption, TypeInv, TypeInv', [Next]_vars
    PROVE  /\ HasUser => HasUser'
           /\ \A p \in Purposes : inbox[p] \subseteq inbox'[p]
           /\ \A c \in Codes : uses[c] > 0 => uses'[c] > 0
           /\ faults > 0 => faults' > 0
<1>1. ASSUME NEW r \in Requests, request[r].pc \in {"user", "password", "rehash"},
             user' = [password |-> request[r].password, legacy |-> FALSE]
      PROVE  HasUser'
  <2>1. request[r].password \in Passwords
    BY <1>1 DEF TypeInv, RequestsOK, Chosen
  <2>2. QED BY <1>1, <2>1 DEF HasUser, NoUser, AccountsAssumption
<1>2. HasUser => HasUser'
  BY <1>1
  DEF Next, Endpoint, IssueStep, ConsumeStep, AccountStep, SendCode, Submit, Login, IssueCheck,
      StoreCode, MailSent, MailFails, DropCode, CheckCode, ExpireCode, RecordMiss, TakeCode,
      CreateTenant, CreateUser, StartTrial, SetPassword, Rehash, Crash, Tick, vars, accountVars,
      HasUser, At
<1>3. \A p \in Purposes : inbox[p] \subseteq inbox'[p]
  <2>1. ASSUME NEW r \in Requests, MailArrives(r) PROVE \A p \in Purposes : inbox[p] \subseteq inbox'[p]
    BY <2>1 DEF MailArrives, TypeInv, TypeOK
  <2>2. inbox' = inbox \/ \E r \in Requests : MailArrives(r)
    BY DEF Next, Endpoint, IssueStep, ConsumeStep, AccountStep, SendCode, Submit, Login, IssueCheck,
           StoreCode, MailSent, MailFails, DropCode, CheckCode, ExpireCode, RecordMiss, TakeCode,
           CreateTenant, CreateUser, StartTrial, SetPassword, Rehash, Crash, Tick, vars, codeVars
  <2>3. QED BY <2>1, <2>2
<1>4. \A c \in Codes : uses[c] > 0 => uses'[c] > 0
  <2>1. uses' = uses \/ \E d : uses' = [uses EXCEPT ![d] = @ + 1]
    BY DEF Next, Endpoint, IssueStep, ConsumeStep, AccountStep, SendCode, Submit, Login, IssueCheck,
           StoreCode, MailSent, MailFails, DropCode, CheckCode, ExpireCode, RecordMiss, TakeCode,
           CreateTenant, CreateUser, StartTrial, SetPassword, Rehash, Crash, Tick, vars, historyVars
  <2>2. QED BY <2>1 DEF TypeInv, TypeOK
<1>5. faults' = faults \/ faults' = faults + 1
  BY DEF Next, Endpoint, IssueStep, ConsumeStep, AccountStep, SendCode, Submit, Login, IssueCheck,
         StoreCode, MailSent, MailFails, DropCode, CheckCode, ExpireCode, RecordMiss, TakeCode,
         CreateTenant, CreateUser, StartTrial, SetPassword, Rehash, Crash, Tick, vars
<1>6. QED BY <1>2, <1>3, <1>4, <1>5 DEF TypeInv, TypeOK

\* A request that looks at the row with the right code holds what it was given.
LEMMA Taking ==
    ASSUME AccountsAssumption, TypeInv, [Next]_vars, NEW r \in Requests,
           request'[r].pc = "take", request'[r] # request[r]
    PROVE  /\ request[r].pc = "check" /\ request[r].code # Wrong
           /\ request'[r].code = request[r].code /\ request'[r].purpose = request[r].purpose
<1> DEFINE p == request[r].purpose
           d == pending[p].code
<1>1. request \in [Requests -> Request] /\ request[r] \in Request /\ p \in Purposes
  BY Shapes DEF TypeInv, TypeOK
<1>2. Judges(r)
  BY RequestsEvolve DEF Coded, Stores
<1>3. ~Ends(r)
  BY <1>1, Shapes DEF Ends
<1>4. CheckCode(r)
  <2>1. request[r].pc = "check"
    BY <1>2 DEF Judges
  <2>2. QED
    BY <1>3, <2>1, OthersStay
    DEF Endpoint, SendCode, Submit, Login, IssueStep, IssueCheck, StoreCode, MailSent,
        MailFails, DropCode, ConsumeStep, ExpireCode, RecordMiss, TakeCode, AccountStep,
        CreateTenant, CreateUser, StartTrial, SetPassword, Rehash, At, Crash
<1>5. ASSUME NEW step \in {"expire", "miss"}, request' = [request EXCEPT ![r].pc = step, ![r].code = d]
      PROVE  FALSE
  <2>1. request'[r] = [request[r] EXCEPT !.pc = step, !.code = d]
    BY <1>1, <1>5
  <2> HIDE DEF d
  <2>2. QED BY <1>1, <2>1, Fields
<1>6. request[r].code = d
  BY <1>3, <1>4, <1>5 DEF CheckCode
<1>7. d # Wrong
  <2>1. pending[p] # NoRow
    BY <1>2 DEF Judges
  <2>2. d \in Codes
    BY <1>1, <2>1, RowShapes DEF TypeInv, TypeOK
  <2>3. QED BY <2>2 DEF Codes, Wrong, AccountsAssumption
<1>8. QED BY <1>2, <1>6, <1>7 DEF Judges

\* A request submits what reached the inbox, or a guess.
LEMMA Submitting ==
    ASSUME AccountsAssumption, TypeInv, [Next]_vars, NEW r \in Requests,
           request'[r].pc = "check", request'[r] # request[r]
    PROVE  request'[r].code \in inbox[request'[r].purpose] \cup {Wrong}
<1>1. request \in [Requests -> Request] /\ request[r] \in Request
  BY DEF TypeInv, TypeOK
<1>2. ~Ends(r)
  BY <1>1, Shapes DEF Ends
<1>3. ASSUME NEW step, step # "check", Goto(r, step) PROVE FALSE
  <2>1. request'[r] = [request[r] EXCEPT !.pc = step]
    BY <1>1, <1>3 DEF Goto
  <2>2. QED BY <1>1, <1>3, <2>1, Fields
<1>4. ASSUME NEW step, NEW c, step # "check", request' = [request EXCEPT ![r].pc = step, ![r].code = c]
      PROVE  FALSE
  <2>1. request'[r] = [request[r] EXCEPT !.pc = step, !.code = c]
    BY <1>1, <1>4
  <2>2. QED BY <1>1, <1>4, <2>1, Fields
<1>5. ASSUME NEW p \in Purposes, SendCode(r, p) PROVE FALSE
  <2>1. request'[r] = [Idle EXCEPT !.pc = "issue", !.purpose = p] /\ "issue" \in Steps
    BY <1>1, <1>5 DEF SendCode, Steps
  <2>2. QED BY <2>1, FreshStarts
<1>6. ASSUME NEW password \in Passwords, Login(r, password) PROVE FALSE
  <2>1. request'[r] = [Idle EXCEPT !.pc = "rehash", !.password = password]
    BY <1>1, <1>6 DEF Login
  <2>2. QED BY <2>1, FreshLogins
<1>7. ASSUME IssueStep(r) PROVE FALSE
  <2>1. CASE request' = [request EXCEPT ![r].pc = "store", ![r].at = now]
    <3>1. request'[r] = [request[r] EXCEPT !.pc = "store", !.at = now]
      BY <1>1, <2>1
    <3>2. QED BY <1>1, <3>1, Fields
  <2>2. QED BY <1>2, <1>3, <1>4, <1>7, <2>1
           DEF IssueStep, IssueCheck, StoreCode, MailSent, MailFails, DropCode
<1>8. ASSUME ConsumeStep(r) PROVE FALSE
  BY <1>2, <1>3, <1>4, <1>8 DEF ConsumeStep, CheckCode, ExpireCode, RecordMiss, TakeCode
<1>9. ASSUME AccountStep(r) PROVE FALSE
  BY <1>2, <1>3, <1>9 DEF AccountStep, CreateTenant, CreateUser, StartTrial, SetPassword, Rehash
<1>10. ~Crash(r)
  BY <1>2 DEF Crash
<1>11. ASSUME NEW p \in Purposes, NEW typed \in inbox[p] \cup {Wrong}, NEW password,
              Submit(r, p, typed, password)
       PROVE  request'[r].code \in inbox[request'[r].purpose] \cup {Wrong}
  BY <1>1, <1>11 DEF Submit
<1>12. QED BY <1>5, <1>6, <1>7, <1>8, <1>9, <1>10, <1>11, OthersStay DEF Endpoint

LEMMA TypedStep ==
    ASSUME AccountsAssumption, TypeInv, TypedOK, [Next]_vars
    PROVE  TypedOK'
<1>1. TypeInv'
  BY TypeStep
<1>2. ASSUME NEW r \in Requests, request'[r].pc = "check"
      PROVE  request'[r].code \in inbox'[request'[r].purpose] \cup {Wrong}
  <2>1. request'[r].code \in inbox[request'[r].purpose] \cup {Wrong}
    BY <1>2, Submitting DEF TypedOK
  <2>2. request'[r].purpose \in Purposes
    BY <1>1, Shapes DEF TypeInv, TypeOK
  <2>3. QED BY <1>1, <2>1, <2>2, AccountsGrow
<1>3. ASSUME NEW r \in Requests, request'[r].pc = "take"
      PROVE  request'[r].code \in inbox'[request'[r].purpose]
  <2>1. request'[r].code \in inbox[request'[r].purpose]
    BY <1>3, Taking DEF TypedOK
  <2>2. request'[r].purpose \in Purposes
    BY <1>1, Shapes DEF TypeInv, TypeOK
  <2>3. QED BY <1>1, <2>1, <2>2, AccountsGrow
<1>4. QED BY <1>2, <1>3 DEF TypedOK

\* A request comes to found a workspace by taking a sign-up code, and leaves by creating it.
LEMMA FoundingMoves ==
    ASSUME AccountsAssumption, TypeInv, [Next]_vars, NEW r \in Requests
    PROVE  /\ r \in Founding' /\ r \notin Founding =>
                 /\ TakeCode(r) /\ request[r].purpose = "register"
                 /\ Won(request[r].purpose, request[r].code)
           /\ r \in Founding /\ r \notin Founding' => CreateTenant(r) \/ Crash(r)
<1>1. request \in [Requests -> Request] /\ request[r] \in Request
  BY DEF TypeInv, TypeOK
<1>2. ASSUME r \in Founding', r \notin Founding
      PROVE  /\ TakeCode(r) /\ request[r].purpose = "register"
             /\ Won(request[r].purpose, request[r].code)
  <2>1. request'[r].pc = "tenant" /\ request'[r] # request[r]
    BY <1>2 DEF Founding, At
  <2>2. ~Ends(r)
    BY <1>1, <2>1, Shapes DEF Ends
  <2>3. ASSUME NEW step, step # "tenant", Goto(r, step) PROVE FALSE
    <3>1. request'[r] = [request[r] EXCEPT !.pc = step]
      BY <1>1, <2>3 DEF Goto
    <3>2. QED BY <1>1, <2>1, <2>3, <3>1, Fields
  <2>4. ASSUME NEW step, NEW c, step # "tenant", request' = [request EXCEPT ![r].pc = step, ![r].code = c]
        PROVE  FALSE
    <3>1. request'[r] = [request[r] EXCEPT !.pc = step, !.code = c]
      BY <1>1, <2>4
    <3>2. QED BY <1>1, <2>1, <2>4, <3>1, Fields
  <2>5. ASSUME Endpoint(r) PROVE FALSE
    <3>1. ASSUME NEW p \in Purposes, SendCode(r, p) PROVE FALSE
      <4>1. request'[r] = [Idle EXCEPT !.pc = "issue", !.purpose = p] /\ "issue" \in Steps
        BY <1>1, <3>1 DEF SendCode, Steps
      <4>2. QED BY <2>1, <4>1, FreshStarts
    <3>2. ASSUME NEW password \in Passwords, Login(r, password) PROVE FALSE
      <4>1. request'[r] = [Idle EXCEPT !.pc = "rehash", !.password = password]
        BY <1>1, <3>2 DEF Login
      <4>2. QED BY <2>1, <4>1, FreshLogins
    <3>3. ASSUME NEW p, NEW typed, NEW password, Submit(r, p, typed, password) PROVE FALSE
      BY <1>1, <2>1, <3>3 DEF Submit
    <3>4. QED BY <2>5, <3>1, <3>2, <3>3 DEF Endpoint
  <2>6. ASSUME IssueStep(r) PROVE FALSE
    <3>1. CASE request' = [request EXCEPT ![r].pc = "store", ![r].at = now]
      <4>1. request'[r] = [request[r] EXCEPT !.pc = "store", !.at = now]
        BY <1>1, <3>1
      <4>2. QED BY <1>1, <2>1, <4>1, Fields
    <3>2. QED BY <2>2, <2>3, <2>4, <2>6, <3>1
             DEF IssueStep, IssueCheck, StoreCode, MailSent, MailFails, DropCode
  <2>7. TakeCode(r)
    <3>1. ASSUME AccountStep(r) PROVE FALSE
      BY <2>2, <2>3, <3>1 DEF AccountStep, CreateTenant, CreateUser, StartTrial, SetPassword, Rehash
    <3>2. ASSUME CheckCode(r) \/ ExpireCode(r) \/ RecordMiss(r) PROVE FALSE
      BY <2>2, <2>4, <3>2 DEF CheckCode, ExpireCode, RecordMiss
    <3>3. ~Crash(r)
      BY <2>2 DEF Crash
    <3>4. QED BY <2>1, <2>5, <2>6, <3>1, <3>2, <3>3, OthersStay DEF ConsumeStep
  <2>8. QED BY <2>2, <2>3, <2>7 DEF TakeCode
<1>3. ASSUME r \in Founding, r \notin Founding' PROVE CreateTenant(r) \/ Crash(r)
  <2>1. request[r].pc = "tenant" /\ request'[r] # request[r]
    BY <1>3 DEF Founding, At
  <2>2. QED
    BY <2>1, OthersStay
    DEF Endpoint, SendCode, Submit, Login, IssueStep, IssueCheck, StoreCode, MailSent, MailFails,
        DropCode, ConsumeStep, CheckCode, ExpireCode, RecordMiss, TakeCode, AccountStep,
        CreateUser, StartTrial, SetPassword, Rehash, At
<1>4. QED BY <1>2, <1>3

\* A sign-up code turns into the right to found one workspace, and that into a workspace.
LEMMA WorkspacesStep ==
    ASSUME AccountsAssumption, CodeInv, TypedOK, WorkspacesOK, [Next]_vars
    PROVE  WorkspacesOK'
<1> USE DEF CodeInv
<1>0. TypeInv' /\ tenants \in Nat /\ request \in [Requests -> Request]
  BY TypeStep DEF TypeInv, TypeOK
<1> DEFINE owner == IF HasUser THEN 1 ELSE 0
           k == Cardinality(SignUps)
           n == Cardinality(Founding)
<1>1. /\ k \in Nat /\ n \in Nat /\ k' \in Nat /\ n' \in Nat
      /\ IsFiniteSet(SignUps) /\ IsFiniteSet(SignUps') /\ IsFiniteSet(Founding) /\ IsFiniteSet(Founding')
  <2>1. SignUps \subseteq Codes /\ Founding \subseteq Requests
    BY SignUpsAreCodes
  <2>2. SignUps' \subseteq Codes /\ Founding' \subseteq Requests
    BY <1>0 DEF SignUps, Founding, TypeInv, TypeOK, Purposes
  <2>3. QED BY <2>1, <2>2, RegistrationFinite
<1>2. owner \in Nat /\ owner' \in Nat /\ owner <= owner'
  BY <1>0, AccountsGrow
<1>3. SignUps \subseteq SignUps'
  <2>1. inbox["register"] \subseteq inbox'["register"] /\ inbox["register"] \subseteq Codes
    BY <1>0, AccountsGrow DEF Purposes, TypeInv, TypeOK
  <2>2. QED BY <1>0, <2>1, AccountsGrow DEF SignUps
<1>4. k <= k'
  BY <1>1, <1>3, FS_Subset
<1>5. tenants + n <= owner + k
  BY DEF WorkspacesOK
<1>6. ASSUME NEW r \in Requests, CreateTenant(r) PROVE tenants' + n' <= owner' + k'
  <2>1. r \in Founding /\ tenants' = tenants + 1
    BY <1>6 DEF CreateTenant, Founding
  <2>2. request'[r] = [request[r] EXCEPT !.pc = "user"] /\ \A s \in Requests \ {r} : request'[s] = request[s]
    BY <1>0, <1>6 DEF CreateTenant, Goto
  <2>3. request'[r].pc = "user"
    BY <1>0, <2>2, Fields
  <2>4. Founding' = Founding \ {r}
    BY <2>2, <2>3 DEF Founding, At
  <2>5. n' = n - 1
    BY <1>1, <2>1, <2>4, FS_RemoveElement
  <2>6. QED BY <1>0, <1>1, <1>2, <1>4, <1>5, <2>1, <2>5
<1>7. ASSUME ~(\E r \in Requests : CreateTenant(r)) PROVE tenants' = tenants
  BY <1>7
  DEF Next, Endpoint, IssueStep, ConsumeStep, AccountStep, SendCode, Submit, Login, IssueCheck,
      StoreCode, MailSent, MailFails, DropCode, CheckCode, ExpireCode, RecordMiss, TakeCode,
      CreateUser, StartTrial, SetPassword, Rehash, Crash, Tick, vars, accountVars
<1>8. ASSUME NEW r \in Requests, r \in Founding', r \notin Founding PROVE tenants' + n' <= owner' + k'
  <2> DEFINE c == request[r].code
  <2>1. TakeCode(r) /\ request[r].purpose = "register" /\ Won("register", c)
    BY <1>8, FoundingMoves
  <2>2. c \in inbox["register"] /\ c \in Codes
    BY <2>1 DEF TakeCode, At, TypedOK, TypeInv, TypeOK, Purposes
  <2>3. uses[c] = 0
    <3>1. pending["register"].code = c /\ pending["register"] # NoRow
      BY <2>1, <2>2, Shapes DEF Won, Codes
    <3>2. QED BY <3>1 DEF UsesOK, Purposes
  <2>4. inbox' = inbox /\ uses' = [uses EXCEPT ![c] = @ + 1] /\ tenants' = tenants
    BY <2>1 DEF TakeCode, accountVars
  <2>5. SignUps' = SignUps \cup {c} /\ c \notin SignUps
    <3>1. uses' = [uses EXCEPT ![c] = 1] /\ uses \in [Codes -> Nat] /\ inbox["register"] \subseteq Codes
      BY <2>3, <2>4 DEF TypeInv, TypeOK, Purposes
    <3> HIDE DEF c
    <3>2. \A d \in Codes : uses'[d] = IF d = c THEN 1 ELSE uses[d]
      BY <2>2, <3>1
    <3>3. QED BY <2>2, <2>3, <2>4, <3>1, <3>2 DEF SignUps
  <2> HIDE DEF c
  <2>6. k' = k + 1
    BY <1>1, <2>5, FS_AddElement
  <2>7. \A s \in Requests \ {r} : request'[s] = request[s]
    BY <1>0, <2>1 DEF TakeCode, Goto, Ends
  <2>8. Founding' = Founding \cup {r}
    BY <1>8, <2>7 DEF Founding, At
  <2>9. n' = n + 1
    BY <1>1, <1>8, <2>8, FS_AddElement
  <2>10. QED BY <1>0, <1>1, <1>2, <1>5, <2>4, <2>6, <2>9
<1>9. ASSUME Founding' \subseteq Founding, tenants' = tenants PROVE tenants' + n' <= owner' + k'
  <2>1. n' <= n
    BY <1>1, <1>9, FS_Subset
  <2>2. QED BY <1>0, <1>1, <1>2, <1>4, <1>5, <1>9, <2>1
<1>10. tenants' + n' <= owner' + k'
  <2>1. (\E r \in Requests : r \in Founding' /\ r \notin Founding) \/ Founding' \subseteq Founding
    BY DEF Founding
  <2>2. QED BY <1>6, <1>7, <1>8, <1>9, <2>1
<1>11. QED BY <1>10 DEF WorkspacesOK

\* A new account leaves its request at the trial, which ends there or dies.
LEMMA TrialStep ==
    ASSUME AccountsAssumption, TypeInv, RehashOK, TrialOK, [Next]_vars
    PROVE  TrialOK'
<1>0. TypeInv' /\ request \in [Requests -> Request] /\ faults \in Nat
  BY TypeStep DEF TypeInv, TypeOK
<1> SUFFICES ASSUME HasUser', ~trial' PROVE (\E r \in Requests : At(r, "trial")') \/ faults' > 0
  BY DEF TrialOK
<1>1. ~trial
  BY DEF Next, Endpoint, IssueStep, ConsumeStep, AccountStep, SendCode, Submit, Login, IssueCheck,
         StoreCode, MailSent, MailFails, DropCode, CheckCode, ExpireCode, RecordMiss, TakeCode,
         CreateTenant, CreateUser, StartTrial, SetPassword, Rehash, Crash, Tick, vars, accountVars
<1>2. CASE HasUser
  <2>1. CASE faults > 0
    BY <1>0, <2>1, AccountsGrow
  <2>2. ASSUME NEW r \in Requests, At(r, "trial") PROVE At(r, "trial")' \/ faults' > 0
    <3>1. CASE request'[r] = request[r]
      BY <2>2, <3>1 DEF At
    <3>2. CASE request'[r] # request[r]
      <4>1. StartTrial(r) \/ Crash(r)
        BY <2>2, <3>2, OthersStay
        DEF Endpoint, SendCode, Submit, Login, IssueStep, IssueCheck, StoreCode, MailSent, MailFails,
            DropCode, ConsumeStep, CheckCode, ExpireCode, RecordMiss, TakeCode, AccountStep,
            CreateTenant, CreateUser, SetPassword, Rehash, At
      <4>2. QED BY <1>0, <4>1 DEF StartTrial, Crash
    <3>3. QED BY <3>1, <3>2
  <2>3. QED BY <1>1, <1>2, <2>1, <2>2 DEF TrialOK
<1>3. CASE ~HasUser
  <2>1. user' # user
    BY <1>3 DEF HasUser
  <2>2. ~(\E r \in Requests : Rehash(r))
    BY <1>3 DEF Rehash, At, RehashOK
  <2>3. PICK r \in Requests : CreateUser(r)
    BY <1>3, <2>1, <2>2
    DEF Next, Endpoint, IssueStep, ConsumeStep, AccountStep, SendCode, Submit, Login, IssueCheck,
        StoreCode, MailSent, MailFails, DropCode, CheckCode, ExpireCode, RecordMiss, TakeCode,
        CreateTenant, StartTrial, SetPassword, Crash, Tick, vars, accountVars
  <2>4. request'[r] = [request[r] EXCEPT !.pc = "trial"]
    BY <1>0, <1>3, <2>3 DEF CreateUser, Goto
  <2>5. request'[r].pc = "trial"
    BY <1>0, <2>4, Fields
  <2>6. QED BY <2>5 DEF At
<1>4. QED BY <1>2, <1>3

(* Every workspace has cost a sign-up code of its own, however many          *)
(* registrations race for the address, and an owner is left without a trial  *)
(* only by a registration that is still running or has died.                 *)
THEOREM RegistrationsAddUp == Spec => []RegistrationAddsUp
<1>1. Init => RegistrationInv
  <2> SUFFICES ASSUME Init PROVE RegistrationInv
    OBVIOUS
  <2>1. TypeInv /\ \A r \in Requests : request[r].pc = "idle"
    BY AccountsAssumption, TypeInit, Shapes DEF Init
  <2>2. Founding = {} /\ Cardinality(Founding) = 0
    BY <2>1, FS_EmptySet DEF Founding, At
  <2>3. Cardinality(SignUps) \in Nat
    BY <2>1, AccountsAssumption, SignUpsAreCodes, RegistrationFinite
  <2>4. tenants = IF HasUser THEN 1 ELSE 0
    BY DEF Init, HasUser
  <2>5. WorkspacesOK
    BY <2>2, <2>3, <2>4 DEF WorkspacesOK
  <2>6. TypedOK /\ TrialOK
    BY <2>1 DEF TypedOK, TrialOK, Init, HasUser
  <2>7. QED BY <2>5, <2>6 DEF RegistrationInv
<1>2. CodeInv /\ PasswordInv /\ RegistrationInv /\ [Next]_vars => RegistrationInv'
  BY AccountsAssumption, TypedStep, WorkspacesStep, TrialStep
  DEF RegistrationInv, CodeInv, PasswordInv
<1>3. CodeInv /\ RegistrationInv => RegistrationAddsUp
  <2> SUFFICES ASSUME CodeInv, RegistrationInv PROVE RegistrationAddsUp
    OBVIOUS
  <2>1. Cardinality(SignUps) \in Nat /\ Cardinality(Founding) \in Nat /\ tenants \in Nat
    BY AccountsAssumption, SignUpsAreCodes, RegistrationFinite DEF CodeInv, TypeInv, TypeOK
  <2>2. /\ tenants + Cardinality(Founding) <= 1 + Cardinality(SignUps)
        /\ ~HasUser => tenants <= Cardinality(SignUps)
    BY <2>1 DEF RegistrationInv, WorkspacesOK
  <2>3. QED BY <2>2 DEF RegistrationAddsUp, RegistrationInv, TrialOK, Founding, SignUps
<1>4. QED BY <1>1, <1>2, <1>3, CodesAreKept, PasswordsAreKept, PTL DEF Spec

===============================================================================
