---------------------------- MODULE UsersProofs -----------------------------
(***************************************************************************)
(* Proofs of the safety properties of Users for any number of users,       *)
(* identifiers and requests.                                               *)
(*                                                                         *)
(* What a request knows of the table (Good) is kept by every step that     *)
(* does not write the table, and by a write unless it is of something the  *)
(* request has read, which makes the request stale.  The preferences need  *)
(* an invariant of their own (Paired).                                     *)
(***************************************************************************)
EXTENDS Users, TLAPS

\* A row with both identifiers.
Full(row) == row \in Row /\ row.email \in Emails /\ row.mobile \in Mobiles

TableOK(us) ==
  us \in [Ids -> Row] /\ \A u \in Ids : us[u] # NoRow => Full(us[u])

\* Request q, seen with the table us.
Typed(q, us) ==
  /\ q \in Request
  /\ q.at \notin {"idle", "mobile", "insert"} =>
       q.id \in Ids /\ us[q.id] # NoRow /\ q.among = TableOf(q.id)
  /\ q.at \in {"mobile", "insert", "merge", "update"} => Full(q.row)
  /\ q.at = "touch" /\ q.id \in Editors => Full(q.row)

\* The identifiers a registration has looked up are not in use.
LookedUp(q, us) ==
  ~ q.stale =>
    /\ q.at \in {"mobile", "insert"} =>
         \A u \in q.among : us[u] # NoRow => us[u].email # q.row.email
    /\ q.at = "insert" => \A u \in q.among : us[u] # NoRow => us[u].mobile # q.row.mobile

\* The columns to be written that were not asked for are those of the table.
Current(q, us) ==
  ~ q.stale =>
    /\ \/ q.at \in {"merge", "update"}
       \/ q.at = "touch" /\ q.id \in Editors
       => /\ q.asked.email = None => q.row.email = us[q.id].email
          /\ q.asked.mobile = None => q.row.mobile = us[q.id].mobile
          /\ q.asked.name = None => q.row.name = us[q.id].name
    /\ q.at = "update" /\ q.id \in Editors => q.row.login = us[q.id].login

Good(q, us) == Typed(q, us) /\ LookedUp(q, us) /\ Current(q, us)

IInv ==
  /\ TableOK(users)
  /\ logins \in 0..MaxLogins
  /\ req \in [Requests -> Request]
  /\ \A r \in Requests : Good(req[r], users)

LEMMA Basics ==
  /\ Idle \in Request /\ \A us : Good(Idle, us)
  /\ NoRow \in Row
  /\ \A row : Full(row) => row # NoRow
  /\ \A u \in Ids : TableOf(u) \in {Creators, Editors} /\ u \in TableOf(u)
<1>1. NoRow \in Row
  BY LoginsBounded DEF NoRow, Row
<1>2. Idle \in Request
  BY <1>1 DEF Idle, Request
<1>3. \A us : Good(Idle, us)
  BY <1>2 DEF Good, Typed, LookedUp, Current, Idle
<1>4. \A row : Full(row) => row # NoRow
  BY NothingElse DEF Full, NoRow
<1>5. \A u \in Ids : TableOf(u) \in {Creators, Editors} /\ u \in TableOf(u)
  BY DEF TableOf, Ids
<1> QED
  BY <1>1, <1>2, <1>3, <1>4, <1>5

LEMMA GoStep ==
  ASSUME IInv, NEW r \in Requests, NEW next,
         Good(next, users), Go(r, next), UNCHANGED users, logins' \in 0..MaxLogins
  PROVE  IInv'
<1>1. next \in Request
  BY DEF Good, Typed
<1>2. req' \in [Requests -> Request]
  BY <1>1 DEF IInv, Go
<1>3. \A q \in Requests : Good(req'[q], users)
  BY DEF IInv, Go
<1> QED
  BY <1>2, <1>3 DEF IInv

LEMMA WriteStep ==
  ASSUME IInv, NEW r \in Requests, NEW next, NEW u \in Ids, NEW row, Full(row),
         Good(next, [users EXCEPT ![u] = row]),
         Write(r, u, row, next), UNCHANGED logins
  PROVE  IInv'
<1>1. next \in Request
  BY DEF Good, Typed
<1>2. users' = [users EXCEPT ![u] = row] /\ users \in [Ids -> Row] /\ row \in Row
  BY DEF Write, IInv, TableOK, Full
<1>3. req' \in [Requests -> Request]
  <2>1. ASSUME NEW q \in Requests, NEW b \in BOOLEAN
        PROVE  [req[q] EXCEPT !.stale = b] \in Request
    BY DEF IInv, Request
  <2>2. \A q \in Requests : (req[q].stale \/ ReadBy(req[q], u, row)) \in BOOLEAN
    BY DEF IInv, Request, ReadBy
  <2>3. \A q \in Requests :
          [req[q] EXCEPT !.stale = req[q].stale \/ ReadBy(req[q], u, row)] \in Request
    BY <2>1, <2>2
  <2> QED
    BY <1>1, <2>3 DEF Write
<1>4. row # NoRow
  BY Basics
<1>5. TableOK(users')
  BY <1>2 DEF IInv, TableOK
<1>6. ASSUME NEW q \in Requests PROVE Good(req'[q], users')
  <2>1. CASE q = r
    BY <2>1, <1>2 DEF Write
  <2>2. CASE q # r
    <3>1. req'[q] = [req[q] EXCEPT !.stale = req[q].stale \/ ReadBy(req[q], u, row)]
      BY <2>2 DEF Write
    <3>2. Good(req[q], users) /\ req[q] \in Request
      BY DEF IInv
    <3>3. /\ req'[q] \in Request /\ req'[q].at = req[q].at /\ req'[q].id = req[q].id
          /\ req'[q].among = req[q].among /\ req'[q].asked = req[q].asked
          /\ req'[q].row = req[q].row
          /\ req'[q].stale = (req[q].stale \/ ReadBy(req[q], u, row))
      BY <3>1, <3>2, <1>3 DEF Request
    <3>4. Typed(req'[q], users')
      BY <1>2, <1>4, <3>2, <3>3 DEF Good, Typed
    <3>5. LookedUp(req'[q], users')
      <4>1. req[q].among \in {Creators, Editors} /\ Creators \subseteq Ids /\ Editors \subseteq Ids
        BY <3>2 DEF Request, Ids
      <4>2. SUFFICES ASSUME ~ req'[q].stale, req[q].at \in {"mobile", "insert"},
                            NEW v \in req[q].among, users'[v] # NoRow
                     PROVE  /\ users'[v].email # req[q].row.email
                            /\ req[q].at = "insert" => users'[v].mobile # req[q].row.mobile
        BY <3>3 DEF LookedUp
      <4>3. v \in Ids
        BY <4>1
      <4>4. CASE v = u
        BY <4>2, <4>4, <4>3, <3>3, <1>2 DEF ReadBy
      <4>5. CASE v # u
        BY <4>2, <4>5, <4>3, <3>2, <3>3, <1>2 DEF Good, LookedUp
      <4> QED
        BY <4>4, <4>5
    <3>6. Current(req'[q], users')
      <4>1. ~ req'[q].stale => ~ req[q].stale /\ req[q].id # u
        BY <3>3 DEF ReadBy
      <4>2. req[q].at \notin {"idle", "mobile", "insert"} => req[q].id \in Ids
        BY <3>2 DEF Good, Typed
      <4>3. req[q].id \in Ids /\ req[q].id # u => users'[req[q].id] = users[req[q].id]
        BY <1>2
      <4> QED
        BY <3>2, <3>3, <4>1, <4>2, <4>3 DEF Good, Current
    <3> QED
      BY <3>4, <3>5, <3>6 DEF Good
  <2> QED
    BY <2>1, <2>2
<1> QED
  BY <1>3, <1>5, <1>6 DEF IInv
-----------------------------------------------------------------------------
(* The steps.                                                              *)

LEMMA Holding ==
  ASSUME IInv, NEW r \in Requests
  PROVE  /\ req[r] \in Request /\ Good(req[r], users) /\ req[r].row \in Row
         /\ req[r].asked \in Row /\ req[r].among \in {Creators, Editors}
         /\ req[r].at \notin {"idle", "mobile", "insert"} =>
              req[r].id \in Ids /\ users[req[r].id] # NoRow
BY DEF IInv, Good, Typed, Request

LEMMA RowThere ==
  ASSUME IInv, NEW u \in Ids, There(u)
  PROVE  Full(users[u])
BY DEF IInv, TableOK, There

LEMMA RegisterLooksUp ==
  ASSUME IInv, NEW r \in Requests,
         \/ \E among \in {Creators, Editors}, e \in Emails, m \in Mobiles, n \in Names :
              RegisterEmail(r, among, [email |-> e, mobile |-> m, name |-> n, login |-> 0])
         \/ RegisterMobile(r)
  PROVE  IInv'
<1>1. ASSUME NEW among \in {Creators, Editors}, NEW e \in Emails, NEW m \in Mobiles,
             NEW n \in Names,
             RegisterEmail(r, among, [email |-> e, mobile |-> m, name |-> n, login |-> 0])
      PROVE  IInv'
  <2> DEFINE row == [email |-> e, mobile |-> m, name |-> n, login |-> 0]
             next == [Idle EXCEPT !.at = "mobile", !.among = among, !.row = row]
  <2>1. row \in Row /\ Full(row)
    BY LoginsBounded DEF Row, Full
  <2> HIDE DEF row
  <2>2. /\ next \in Request /\ next.at = "mobile" /\ next.among = among /\ next.row = row
        /\ next.stale = FALSE
    BY <2>1, Basics DEF Idle, Request
  <2>3. /\ \A u \in among : There(u) => users[u].email # row.email
        /\ Go(r, next) /\ UNCHANGED <<users, logins>>
    BY <1>1 DEF RegisterEmail, row
  <2> HIDE DEF next
  <2>4. Good(next, users)
    BY <2>1, <2>2, <2>3 DEF Good, Typed, LookedUp, Current, There
  <2>5. logins' \in 0..MaxLogins
    BY <2>3 DEF IInv
  <2> QED
    BY <2>3, <2>4, <2>5, GoStep
<1>2. CASE RegisterMobile(r)
  <2> DEFINE next == [req[r] EXCEPT !.at = "insert"]
  <2>1. req[r] \in Request /\ Good(req[r], users)
    BY Holding
  <2>2. /\ next \in Request /\ next.at = "insert" /\ next.among = req[r].among
        /\ next.row = req[r].row /\ next.stale = req[r].stale
    BY <2>1 DEF Request
  <2>3. /\ \A u \in req[r].among : There(u) => users[u].mobile # req[r].row.mobile
        /\ Go(r, next) /\ UNCHANGED <<users, logins>> /\ req[r].at = "mobile"
    BY <1>2 DEF RegisterMobile
  <2> HIDE DEF next
  <2>4. Good(next, users)
    BY <2>1, <2>2, <2>3 DEF Good, Typed, LookedUp, Current, There
  <2>5. logins' \in 0..MaxLogins
    BY <2>3 DEF IInv
  <2> QED
    BY <2>3, <2>4, <2>5, GoStep
<1> QED
  BY <1>1, <1>2

LEMMA RegisterInserts ==
  ASSUME IInv, NEW r \in Requests, NEW u \in Ids, RegisterInsert(r, u)
  PROVE  IInv'
<1> DEFINE row == req[r].row
           next == [req[r] EXCEPT !.at = "preferences", !.id = u]
           us == [users EXCEPT ![u] = row]
<1>1. req[r] \in Request /\ Good(req[r], users) /\ req[r].among \in {Creators, Editors}
  BY Holding
<1>2. req[r].at = "insert" /\ u \in req[r].among /\ Write(r, u, row, next) /\ UNCHANGED logins
  BY DEF RegisterInsert
<1>3. Full(row) /\ row # NoRow
  BY <1>1, <1>2, Basics DEF Good, Typed
<1>4. us[u] = row
  BY DEF IInv, TableOK
<1>5. req[r].among = TableOf(u)
  BY <1>1, <1>2, TablesDisjoint DEF TableOf
<1>6. next \in Request /\ next.at = "preferences" /\ next.id = u /\ next.among = req[r].among
  BY <1>1 DEF Request
<1> HIDE DEF next, us
<1>7. Good(next, us)
  BY <1>3, <1>4, <1>5, <1>6 DEF Good, Typed, LookedUp, Current
<1> USE DEF us
<1> HIDE DEF row
<1> QED
  BY <1>2, <1>3, <1>7, WriteStep

\* Steps by which a request is done.
LEMMA EndStep ==
  ASSUME IInv, NEW r \in Requests,
         \/ RegisterConflict(r) \/ RegisterPreferences(r) \/ UpdateAnswer(r)
         \/ WriteConflict(r) \/ RequestFails(r)
  PROVE  IInv'
<1>1. Go(r, Idle) /\ UNCHANGED <<users, logins>>
  BY DEF RegisterConflict, RegisterPreferences, UpdateAnswer, WriteConflict, RequestFails
<1>2. logins' \in 0..MaxLogins
  BY <1>1 DEF IInv
<1> QED
  BY <1>1, <1>2, Basics, GoStep

LEMMA UpdateFindStep ==
  ASSUME IInv, NEW r \in Requests, NEW u \in Ids, NEW asked \in Asks, UpdateFind(r, u, asked)
  PROVE  IInv'
<1> DEFINE row == Merge(asked, users[u])
           at == IF u \in Creators THEN "update" ELSE "merge"
           next == [Idle EXCEPT !.at = at, !.among = TableOf(u), !.id = u,
                                !.asked = asked, !.row = row]
<1>1. There(u) /\ Go(r, next) /\ UNCHANGED <<users, logins>>
  BY DEF UpdateFind
<1>2. Full(users[u]) /\ users[u] \in Row /\ users[u] # NoRow /\ asked \in Row
  BY <1>1, RowThere, AsksAreRows DEF Full, There
<1>3. /\ row \in Row /\ Full(row) /\ row.login = users[u].login
      /\ asked.email = None => row.email = users[u].email
      /\ asked.mobile = None => row.mobile = users[u].mobile
      /\ asked.name = None => row.name = users[u].name
  BY <1>2 DEF Merge, Row, Full
<1> HIDE DEF row
<1>4. (at = "update" /\ u \in Creators) \/ at = "merge"
  OBVIOUS
<1>5. at = "update" => u \notin Editors
  BY TablesDisjoint
<1> HIDE DEF at
<1>6. /\ next \in Request /\ next.at = at /\ next.id = u /\ next.among = TableOf(u)
      /\ next.asked = asked /\ next.row = row /\ next.stale = FALSE
  BY <1>2, <1>3, <1>4, Basics DEF Idle, Request
<1> HIDE DEF next
<1>7. Good(next, users)
  BY <1>2, <1>3, <1>4, <1>5, <1>6 DEF Good, Typed, LookedUp, Current
<1>8. logins' \in 0..MaxLogins
  BY <1>1 DEF IInv
<1> QED
  BY <1>1, <1>7, <1>8, GoStep

LEMMA UpdateMergeStep ==
  ASSUME IInv, NEW r \in Requests, UpdateMerge(r)
  PROVE  IInv'
<1> DEFINE row == [req[r].row EXCEPT !.login = users[req[r].id].login]
           next == [req[r] EXCEPT !.at = "update", !.row = row]
<1>1. req[r].at = "merge" /\ Go(r, next) /\ UNCHANGED <<users, logins>>
  BY DEF UpdateMerge
<1>2. /\ req[r] \in Request /\ Good(req[r], users) /\ req[r].id \in Ids
      /\ users[req[r].id] # NoRow
  BY <1>1, Holding
<1>3. Full(req[r].row) /\ Full(users[req[r].id])
  BY <1>1, <1>2, RowThere DEF Good, Typed, There
<1>4. /\ row \in Row /\ Full(row) /\ row.email = req[r].row.email
      /\ row.mobile = req[r].row.mobile /\ row.name = req[r].row.name
      /\ row.login = users[req[r].id].login
  BY <1>3 DEF Full, Row
<1> HIDE DEF row
<1>5. /\ next \in Request /\ next.at = "update" /\ next.id = req[r].id
      /\ next.among = req[r].among /\ next.asked = req[r].asked /\ next.row = row
      /\ next.stale = req[r].stale
  BY <1>2, <1>4 DEF Request
<1> HIDE DEF next
<1>6. Good(next, users)
  BY <1>1, <1>2, <1>4, <1>5 DEF Good, Typed, LookedUp, Current
<1>7. logins' \in 0..MaxLogins
  BY <1>1 DEF IInv
<1> QED
  BY <1>1, <1>6, <1>7, GoStep

\* What a write leaves is a full row, and what Current says of it.
LEMMA WrittenRow ==
  ASSUME IInv, NEW r \in Requests, req[r].at \in {"update", "touch"}
  PROVE  LET u == req[r].id
             row == Written(r)
         IN  /\ u \in Ids /\ Full(row) /\ Full(users[u])
             /\ ~ req[r].stale \/ (u \in Creators /\ req[r].at = "touch") =>
                  /\ req[r].asked.email = None => row.email = users[u].email
                  /\ req[r].asked.mobile = None => row.mobile = users[u].mobile
                  /\ req[r].asked.name = None => row.name = users[u].name
                  /\ req[r].at = "update" => row.login = users[u].login
<1> DEFINE u == req[r].id
           row == Written(r)
<1>1. req[r] \in Request /\ Good(req[r], users) /\ u \in Ids /\ users[u] # NoRow
      /\ req[r].row \in Row
  BY Holding
<1>2. Full(users[u])
  BY <1>1, RowThere DEF There
<1>3. CASE u \in Editors
  <2>1. row = req[r].row /\ u \notin Creators
    BY <1>3, TablesDisjoint DEF Written
  <2> QED
    BY <1>1, <1>2, <1>3, <2>1 DEF Good, Typed, Current
<1>4. CASE u \notin Editors
  <2>1. u \in Creators
    BY <1>1, <1>4 DEF Ids
  <2>2. CASE req[r].at = "touch"
    <3>1. row = [users[u] EXCEPT !.login = req[r].row.login]
      BY <1>4, <2>2 DEF Written
    <3>2. /\ Full(row) /\ row.email = users[u].email /\ row.mobile = users[u].mobile
          /\ row.name = users[u].name
      BY <3>1, <1>1, <1>2 DEF Full, Row
    <3> QED
      BY <1>1, <1>2, <2>2, <3>2
  <2>3. CASE req[r].at = "update"
    <3>1. row = [req[r].row EXCEPT !.login = users[u].login]
      BY <1>4, <2>3 DEF Written
    <3>2. Full(req[r].row)
      BY <1>1, <2>3 DEF Good, Typed
    <3>3. /\ Full(row) /\ row.email = req[r].row.email /\ row.mobile = req[r].row.mobile
          /\ row.name = req[r].row.name /\ row.login = users[u].login
      BY <3>1, <3>2, <1>2 DEF Full, Row
    <3> HIDE DEF row
    <3>4. ~ req[r].stale => /\ req[r].asked.email = None => req[r].row.email = users[u].email
                            /\ req[r].asked.mobile = None => req[r].row.mobile = users[u].mobile
                            /\ req[r].asked.name = None => req[r].row.name = users[u].name
      BY <1>1, <2>3 DEF Good, Current
    <3> QED
      BY <1>1, <1>2, <2>3, <3>3, <3>4 DEF row
  <2> QED
    BY <2>2, <2>3
<1> QED
  BY <1>3, <1>4

LEMMA WritesStep ==
  ASSUME IInv, NEW r \in Requests, UpdateWrite(r) \/ TouchWrite(r)
  PROVE  IInv'
<1> DEFINE u == req[r].id
           row == Written(r)
           next == [req[r] EXCEPT !.at = "answer"]
           us == [users EXCEPT ![u] = row]
<1>1. req[r].at \in {"update", "touch"} /\ (Write(r, u, row, next) \/ Write(r, u, row, Idle))
      /\ UNCHANGED logins
  BY DEF UpdateWrite, TouchWrite
<1>2. u \in Ids /\ Full(row) /\ row # NoRow
  BY <1>1, WrittenRow, Basics
<1>3. req[r] \in Request /\ Good(req[r], users)
  BY Holding
<1>4. us[u] = row
  BY <1>2 DEF IInv, TableOK
<1>5. req[r].among = TableOf(u)
  BY <1>1, <1>3 DEF Good, Typed
<1>6. next \in Request /\ next.at = "answer" /\ next.id = u /\ next.among = req[r].among
  BY <1>3 DEF Request
<1> HIDE DEF next, us, row, u
<1>7. Good(next, us) /\ Good(Idle, us)
  BY <1>2, <1>4, <1>5, <1>6, Basics DEF Good, Typed, LookedUp, Current
<1> USE DEF us
<1> QED
  BY <1>1, <1>2, <1>7, WriteStep

LEMMA LoginStep ==
  ASSUME IInv, NEW r \in Requests, NEW u \in Ids, Login(r, u) \/ Logout(r, u)
  PROVE  IInv'
<1>1. There(u) /\ UNCHANGED users /\ logins' \in 0..MaxLogins
  BY LoginsBounded DEF Login, Logout, IInv
<1>2. PICK at \in {"touch", "touchFind"}, login \in 0..MaxLogins :
        Go(r, Touching(at, u, login)) /\ (at = "touch" => u \notin Editors)
  <2>1. CASE Login(r, u)
    <3>1. logins + 1 \in 0..MaxLogins
      BY <2>1, LoginsBounded DEF Login, IInv
    <3>2. u \in Creators => u \notin Editors
      BY TablesDisjoint
    <3> QED
      BY <2>1, <3>1, <3>2 DEF Login
  <2>2. CASE Logout(r, u)
    BY <2>2, LoginsBounded DEF Logout
  <2> QED
    BY <2>1, <2>2
<1> DEFINE next == Touching(at, u, login)
<1>3. [NoRow EXCEPT !.login = login] \in Row
  BY Basics DEF Row
<1>4. /\ next \in Request /\ next.at = at /\ next.id = u /\ next.among = TableOf(u)
  BY <1>3, Basics DEF Touching, Idle, Request
<1>5. Go(r, next)
  BY <1>2
<1> HIDE DEF next
<1>6. Good(next, users)
  BY <1>1, <1>2, <1>4 DEF Good, Typed, LookedUp, Current, There
<1> QED
  BY <1>1, <1>5, <1>6, GoStep

LEMMA TouchFindStep ==
  ASSUME IInv, NEW r \in Requests, TouchFind(r)
  PROVE  IInv'
<1> DEFINE u == req[r].id
           login == IF req[r].row.login = 0 THEN users[u].login ELSE req[r].row.login
           row == [users[u] EXCEPT !.login = login]
           next == [req[r] EXCEPT !.at = "touch", !.row = row, !.stale = FALSE]
<1>1. req[r].at = "touchFind" /\ Go(r, next) /\ UNCHANGED <<users, logins>>
  BY DEF TouchFind
<1>2. req[r] \in Request /\ Good(req[r], users) /\ u \in Ids /\ users[u] # NoRow
      /\ req[r].row \in Row
  BY <1>1, Holding
<1>3. Full(users[u]) /\ users[u] \in Row
  BY <1>2, RowThere DEF There, Full
<1>4. login \in 0..MaxLogins
  BY <1>2, <1>3 DEF Row
<1> HIDE DEF login
<1>5. /\ row \in Row /\ Full(row) /\ row.email = users[u].email /\ row.mobile = users[u].mobile
      /\ row.name = users[u].name
  BY <1>3, <1>4 DEF Full, Row
<1> HIDE DEF row
<1>6. /\ next \in Request /\ next.at = "touch" /\ next.id = u /\ next.among = req[r].among
      /\ next.row = row
  BY <1>2, <1>5 DEF Request
<1> HIDE DEF next
<1>7. Good(next, users)
  BY <1>1, <1>2, <1>5, <1>6 DEF Good, Typed, LookedUp, Current
<1>8. logins' \in 0..MaxLogins
  BY <1>1 DEF IInv
<1> QED
  BY <1>1, <1>7, <1>8, GoStep

LEMMA Inductive == Spec => []IInv
<1>1. Init => IInv
  <2> SUFFICES ASSUME Init PROVE IInv
    OBVIOUS
  <2>1. TableOK(users)
    BY Basics DEF Init, TableOK
  <2>2. req \in [Requests -> Request] /\ \A r \in Requests : Good(req[r], users)
    BY Basics DEF Init
  <2>3. logins \in 0..MaxLogins
    BY LoginsBounded DEF Init
  <2> QED
    BY <2>1, <2>2, <2>3 DEF IInv
<1>2. IInv /\ [Next]_vars => IInv'
  <2> SUFFICES ASSUME IInv, [Next]_vars PROVE IInv'
    OBVIOUS
  <2>1. ASSUME NEW r \in Requests, Register(r) PROVE IInv'
    BY <2>1, RegisterLooksUp, RegisterInserts, EndStep DEF Register
  <2>2. ASSUME NEW r \in Requests, Update(r) PROVE IInv'
    BY <2>2, UpdateFindStep, UpdateMergeStep, WritesStep, EndStep DEF Update
  <2>3. ASSUME NEW r \in Requests, Touch(r) PROVE IInv'
    BY <2>3, LoginStep, TouchFindStep, WritesStep DEF Touch
  <2>4. ASSUME NEW r \in Requests, WriteConflict(r) \/ RequestFails(r) PROVE IInv'
    BY <2>4, EndStep
  <2>5. CASE Restart
    BY <2>5, Basics DEF Restart, IInv
  <2>6. CASE UNCHANGED vars
    BY <2>6 DEF vars, IInv
  <2> QED
    BY <2>1, <2>2, <2>3, <2>4, <2>5, <2>6 DEF Next
<1> QED
  BY <1>1, <1>2, PTL DEF Spec
-----------------------------------------------------------------------------
(* The preferences.                                                        *)

\* The users registered by a request that has yet to insert their preferences.
Pending == {u \in Ids : \E r \in Requests : req[r].at = "preferences" /\ req[r].id = u}

\* A user has preferences, or was cut short, or is about to get them, and is only one
\* of these; an id without user is none of them; one request registers a user.
Paired ==
  /\ prefs \subseteq Ids /\ cut \subseteq Ids
  /\ prefs \cap cut = {} /\ prefs \cap Pending = {} /\ cut \cap Pending = {}
  /\ \A u \in Ids : There(u) <=> u \in prefs \cup cut \cup Pending
  /\ \A r, q \in Requests :
       req[r].at = "preferences" /\ req[q].at = "preferences" /\ req[r].id = req[q].id => r = q

LEMMA PendingIsRegistering ==
  ASSUME IInv PROVE Pending = Registering(Requests)
BY Holding DEF Pending, Registering

\* What a step does to where the other requests wait and to its own.
LEMMA Others ==
  ASSUME IInv, NEW r \in Requests, NEW next,
         Go(r, next) \/ (\E row : \E u \in Ids : Write(r, u, row, next))
  PROVE  /\ req'[r] = next
         /\ \A q \in Requests : q # r => req'[q].at = req[q].at /\ req'[q].id = req[q].id
<1>1. CASE Go(r, next)
  BY <1>1 DEF Go, IInv
<1>2. ASSUME NEW u \in Ids, NEW row, Write(r, u, row, next)
      PROVE  /\ req'[r] = next
             /\ \A q \in Requests : q # r => req'[q].at = req[q].at /\ req'[q].id = req[q].id
  BY <1>2 DEF Write, IInv, Request
<1> QED
  BY <1>1, <1>2

\* A step that has to do neither with preferences nor with new users.
LEMMA Quiet ==
  ASSUME IInv, Paired, NEW r \in Requests, NEW next,
         req[r].at # "preferences", next.at # "preferences",
         Go(r, next) \/ (\E row : \E u \in Ids : Write(r, u, row, next)),
         UNCHANGED <<prefs, cut>>, \A u \in Ids : users'[u] # NoRow <=> users[u] # NoRow
  PROVE  Paired'
<1>1. req'[r] = next /\ \A q \in Requests : q # r => req'[q].at = req[q].at /\ req'[q].id = req[q].id
  BY Others
<1>2. \A q \in Requests : req'[q].at = "preferences" => q # r /\ req[q].at = "preferences"
  BY <1>1
<1>3. Pending' = Pending
  BY <1>1 DEF Pending
<1>4. \A p, q \in Requests :
        req'[p].at = "preferences" /\ req'[q].at = "preferences" /\ req'[p].id = req'[q].id => p = q
  BY <1>1, <1>2 DEF Paired
<1> QED
  BY <1>3, <1>4 DEF Paired, There

LEMMA InsertPaired ==
  ASSUME IInv, Paired, NEW r \in Requests, NEW u \in Ids, RegisterInsert(r, u)
  PROVE  Paired'
<1> DEFINE next == [req[r] EXCEPT !.at = "preferences", !.id = u]
<1>1. /\ req[r].at = "insert" /\ users[u] = NoRow /\ UNCHANGED <<prefs, cut>>
      /\ Write(r, u, req[r].row, next) /\ req[r] \in Request
  BY Holding DEF RegisterInsert, There
<1>2. next.at = "preferences" /\ next.id = u
  BY <1>1 DEF Request
<1> HIDE DEF next
<1>3. req'[r] = next /\ \A q \in Requests : q # r => req'[q].at = req[q].at /\ req'[q].id = req[q].id
  BY <1>1, Others
<1>4. Pending' = Pending \cup {u}
  BY <1>1, <1>2, <1>3 DEF Pending
<1>5. u \notin prefs \cup cut \cup Pending
  BY <1>1 DEF Paired, There
<1>6. Full(req[r].row) /\ req[r].row # NoRow
  BY <1>1, Holding, Basics DEF Good, Typed
<1>7. users'[u] # NoRow /\ \A v \in Ids : v # u => users'[v] = users[v]
  BY <1>1, <1>6 DEF Write, IInv, TableOK
<1>8. \A q \in Requests : req[q].at = "preferences" => req[q].id # u
  BY <1>5 DEF Pending
<1>9. \A p, q \in Requests :
        req'[p].at = "preferences" /\ req'[q].at = "preferences" /\ req'[p].id = req'[q].id => p = q
  BY <1>2, <1>3, <1>8 DEF Paired
<1>10. \A v \in Ids : users'[v] # NoRow <=> v \in prefs \cup cut \cup Pending'
  BY <1>4, <1>7 DEF Paired, There
<1> QED
  BY <1>1, <1>4, <1>5, <1>9, <1>10 DEF Paired, There

\* The registration of u ends: with preferences, or cut short.
LEMMA EndPaired ==
  ASSUME IInv, Paired, NEW r \in Requests, req[r].at = "preferences", Go(r, Idle), UNCHANGED users,
         \/ prefs' = prefs \cup {req[r].id} /\ UNCHANGED cut
         \/ cut' = cut \cup {req[r].id} /\ UNCHANGED prefs
  PROVE  Paired'
<1> DEFINE u == req[r].id
<1>1. u \in Ids
  BY Holding
<1>2. req'[r].at # "preferences" /\ \A q \in Requests : q # r => req'[q] = req[q]
  BY DEF Go, IInv, Idle
<1>3. Pending' = Pending \ {u}
  BY <1>1, <1>2 DEF Pending, Paired
<1>4. u \in Pending
  BY <1>1 DEF Pending
<1>5. \A p, q \in Requests :
        req'[p].at = "preferences" /\ req'[q].at = "preferences" /\ req'[p].id = req'[q].id => p = q
  BY <1>2 DEF Paired
<1> HIDE DEF u
<1>6. \/ prefs' = prefs \cup {u} /\ UNCHANGED cut
      \/ cut' = cut \cup {u} /\ UNCHANGED prefs
  BY DEF u
<1> QED
  BY <1>1, <1>3, <1>4, <1>5, <1>6 DEF Paired, There

LEMMA PairedInductive == Spec => []Paired
<1>1. Init => Paired
  <2> SUFFICES ASSUME Init PROVE Paired
    OBVIOUS
  <2>1. \A r \in Requests : req[r].at = "idle"
    BY DEF Init, Idle
  <2>2. Pending = {}
    BY <2>1 DEF Pending
  <2> QED
    BY <2>1, <2>2 DEF Init, Paired, There
<1>2. IInv /\ IInv' /\ Paired /\ [Next]_vars => Paired'
  <2> SUFFICES ASSUME IInv, IInv', Paired, [Next]_vars PROVE Paired'
    OBVIOUS
  <2>1. ASSUME NEW r \in Requests, Register(r) PROVE Paired'
    <3>1. CASE \E among \in {Creators, Editors}, e \in Emails, m \in Mobiles, n \in Names :
                 RegisterEmail(r, among, [email |-> e, mobile |-> m, name |-> n, login |-> 0])
      <4>1. PICK among \in {Creators, Editors}, row \in {[email |-> e, mobile |-> m, name |-> n,
                      login |-> 0] : e \in Emails, m \in Mobiles, n \in Names} :
              RegisterEmail(r, among, row)
        BY <3>1
      <4> DEFINE next == [Idle EXCEPT !.at = "mobile", !.among = among, !.row = row]
      <4>2. next.at = "mobile"
        BY DEF Idle
      <4>3. Go(r, next) /\ req[r].at = "idle" /\ UNCHANGED <<users, prefs, cut>>
        BY <4>1 DEF RegisterEmail
      <4> HIDE DEF next
      <4> QED
        BY <4>2, <4>3, Quiet
    <3>2. CASE RegisterMobile(r)
      <4> DEFINE next == [req[r] EXCEPT !.at = "insert"]
      <4>1. next.at = "insert"
        BY Holding DEF Request
      <4>2. Go(r, next) /\ req[r].at = "mobile" /\ UNCHANGED <<users, prefs, cut>>
        BY <3>2 DEF RegisterMobile
      <4> HIDE DEF next
      <4> QED
        BY <4>1, <4>2, Quiet
    <3>3. CASE RegisterConflict(r)
      <4>1. Go(r, Idle) /\ req[r].at = "insert" /\ UNCHANGED <<users, prefs, cut>> /\ Idle.at # "preferences"
        BY <3>3 DEF RegisterConflict, Idle
      <4> QED
        BY <4>1, Quiet
    <3>4. CASE RegisterPreferences(r)
      BY <3>4, EndPaired DEF RegisterPreferences
    <3> QED
      BY <2>1, <3>1, <3>2, <3>3, <3>4, InsertPaired DEF Register
  <2>2. ASSUME NEW r \in Requests, UpdateMerge(r) \/ TouchFind(r) PROVE Paired'
    <3> DEFINE login == IF req[r].row.login = 0 THEN users[req[r].id].login ELSE req[r].row.login
               n1 == [req[r] EXCEPT !.at = "update", !.row.login = users[req[r].id].login]
               n2 == [req[r] EXCEPT !.at = "touch", !.row = [users[req[r].id] EXCEPT !.login = login],
                                    !.stale = FALSE]
    <3>1. n1.at # "preferences" /\ n2.at # "preferences"
      BY Holding DEF Request
    <3>2. /\ Go(r, n1) \/ Go(r, n2)
          /\ req[r].at # "preferences" /\ UNCHANGED <<users, prefs, cut>>
      BY <2>2 DEF UpdateMerge, TouchFind
    <3> HIDE DEF n1, n2
    <3> QED
      BY <3>1, <3>2, Quiet
  <2>3. ASSUME NEW r \in Requests, UpdateWrite(r) \/ TouchWrite(r) PROVE Paired'
    <3> DEFINE next == [req[r] EXCEPT !.at = "answer"]
    <3>1. next.at # "preferences" /\ Idle.at # "preferences"
      BY Holding DEF Request, Idle
    <3>2. /\ Write(r, req[r].id, Written(r), next) \/ Write(r, req[r].id, Written(r), Idle)
          /\ req[r].at \in {"update", "touch"} /\ UNCHANGED <<prefs, cut>>
      BY <2>3 DEF UpdateWrite, TouchWrite
    <3>3. req[r].id \in Ids /\ Full(Written(r)) /\ users[req[r].id] # NoRow
      BY <3>2, WrittenRow, Holding
    <3>4. \A u \in Ids : users'[u] # NoRow <=> users[u] # NoRow
      BY <3>2, <3>3, Basics DEF Write, IInv, TableOK
    <3> HIDE DEF next
    <3> QED
      BY <3>1, <3>2, <3>3, <3>4, Quiet
  <2>4. ASSUME NEW r \in Requests, NEW u \in Ids, NEW asked \in Asks, UpdateFind(r, u, asked)
        PROVE  Paired'
    <3> DEFINE at == IF u \in Creators THEN "update" ELSE "merge"
               next == [Idle EXCEPT !.at = at, !.among = TableOf(u), !.id = u,
                                    !.asked = asked, !.row = Merge(asked, users[u])]
    <3>1. next.at # "preferences"
      BY DEF Idle
    <3>2. Go(r, next) /\ req[r].at = "idle" /\ UNCHANGED <<users, prefs, cut>>
      BY <2>4 DEF UpdateFind
    <3> HIDE DEF next
    <3> QED
      BY <3>1, <3>2, Quiet
  <2>5. ASSUME NEW r \in Requests, NEW u \in Ids, Login(r, u) \/ Logout(r, u) PROVE Paired'
    <3>1. PICK at, login : at \in {"touch", "touchFind"} /\ Go(r, Touching(at, u, login))
      BY <2>5 DEF Login, Logout
    <3> DEFINE next == Touching(at, u, login)
    <3>2. next.at # "preferences"
      BY <3>1 DEF Touching, Idle
    <3>3. Go(r, next) /\ req[r].at = "idle" /\ UNCHANGED <<users, prefs, cut>>
      BY <2>5, <3>1 DEF Login, Logout
    <3> HIDE DEF next
    <3> QED
      BY <3>2, <3>3, Quiet
  <2>6. ASSUME NEW r \in Requests, UpdateAnswer(r) \/ WriteConflict(r) PROVE Paired'
    <3>1. Go(r, Idle) /\ req[r].at # "preferences" /\ UNCHANGED <<users, prefs, cut>>
          /\ Idle.at # "preferences"
      BY <2>6 DEF UpdateAnswer, WriteConflict, Idle
    <3> QED
      BY <3>1, Quiet
  <2>7. ASSUME NEW r \in Requests, RequestFails(r) PROVE Paired'
    <3>1. CASE req[r].at = "preferences"
      <4>1. Registering({r}) = {req[r].id}
        BY <3>1 DEF Registering
      <4> QED
        BY <2>7, <3>1, <4>1, EndPaired DEF RequestFails
    <3>2. CASE req[r].at # "preferences"
      <4>1. Registering({r}) = {}
        BY <3>2 DEF Registering
      <4>2. Go(r, Idle) /\ UNCHANGED <<users, prefs, cut>> /\ Idle.at # "preferences"
        BY <2>7, <4>1 DEF RequestFails, Idle
      <4> QED
        BY <3>2, <4>2, Quiet
    <3> QED
      BY <3>1, <3>2
  <2>8. CASE Restart
    <3>1. \A r \in Requests : req'[r].at = "idle"
      BY <2>8 DEF Restart, Idle
    <3>2. Pending' = {}
      BY <3>1 DEF Pending
    <3>3. cut' = cut \cup Pending /\ UNCHANGED <<users, prefs>>
      BY <2>8, PendingIsRegistering DEF Restart
    <3>4. \A p, q \in Requests :
            req'[p].at = "preferences" /\ req'[q].at = "preferences" /\ req'[p].id = req'[q].id => p = q
      BY <3>1
    <3>5. Pending \subseteq Ids
      BY DEF Pending
    <3> QED
      BY <3>2, <3>3, <3>4, <3>5 DEF Paired, There
  <2>9. CASE UNCHANGED vars
    BY <2>9 DEF vars, Paired, Pending, There
  <2> QED
    BY <2>1, <2>2, <2>3, <2>4, <2>5, <2>6, <2>7, <2>8, <2>9 DEF Next, Update, Touch
<1> QED
  BY <1>1, <1>2, Inductive, PTL DEF Spec
-----------------------------------------------------------------------------
(* The theorems.                                                           *)

\* Types, and a request about a user is about one that is there (TypeOK).
THEOREM UsersTypeCorrect == Spec => []TypeOK
<1>1. IInv /\ Paired => TypeOK
  <2> SUFFICES ASSUME IInv, Paired PROVE TypeOK
    OBVIOUS
  <2>1. \A r \in Requests : req[r].at \notin {"idle", "mobile", "insert"} =>
           req[r].id \in Ids /\ users[req[r].id] # NoRow
    BY DEF IInv, Good, Typed
  <2> QED
    BY <2>1 DEF IInv, Paired, TableOK, TypeOK, There
<1> QED
  BY <1>1, Inductive, PairedInductive, PTL

\* A user lacks preferences exactly while its registration is between the two inserts
\* or when it was cut short there (PreferencesUnlessCutShort).
THEOREM PreferencesPaired == Spec => []PreferencesUnlessCutShort
<1>1. IInv /\ Paired => PreferencesUnlessCutShort
  BY PendingIsRegistering DEF Paired, PreferencesUnlessCutShort
<1> QED
  BY <1>1, Inductive, PairedInductive, PTL

\* Only a registration another request overtook is refused by the database
\* (ConflictOnlyIfRaced).
THEOREM ConflictsRaced == Spec => ConflictOnlyIfRaced
<1> DEFINE Step == \A r \in Requests : RegisterConflict(r) => req[r].stale
<1>1. IInv => Step
  <2> SUFFICES ASSUME IInv, NEW r \in Requests, RegisterConflict(r), ~ req[r].stale PROVE FALSE
    OBVIOUS
  <2>1. PICK u \in req[r].among :
          There(u) /\ (users[u].email = req[r].row.email \/ users[u].mobile = req[r].row.mobile)
    BY DEF RegisterConflict
  <2>2. req[r].at = "insert" /\ LookedUp(req[r], users)
    BY DEF RegisterConflict, IInv, Good
  <2> QED
    BY <2>1, <2>2 DEF LookedUp, There
<1>2. Spec => [][Step]_vars
  BY <1>1, Inductive, PTL
<1> QED
  BY <1>2 DEF ConflictOnlyIfRaced

\* A write changes no column it was not asked to change, unless the row was written
\* since it was read (ChangesOnlyAsked).
THEOREM OnlyAskedChanges == Spec => ChangesOnlyAsked
<1> DEFINE Step ==
      \A r \in Requests :
       LET u == req[r].id
           CreatorsLogin == u \in Creators /\ req[r].at = "touch"
       IN  (UpdateWrite(r) \/ TouchWrite(r)) /\ (~ req[r].stale \/ CreatorsLogin) =>
             /\ req[r].asked.email = None => users'[u].email = users[u].email
             /\ req[r].asked.mobile = None => users'[u].mobile = users[u].mobile
             /\ req[r].asked.name = None => users'[u].name = users[u].name
             /\ UpdateWrite(r) => users'[u].login = users[u].login
<1>1. IInv /\ [Next]_vars => [Step]_vars
  <2> SUFFICES ASSUME IInv, NEW r \in Requests, UpdateWrite(r) \/ TouchWrite(r),
                      ~ req[r].stale \/ (req[r].id \in Creators /\ req[r].at = "touch")
               PROVE  /\ req[r].asked.email = None =>
                           users'[req[r].id].email = users[req[r].id].email
                      /\ req[r].asked.mobile = None =>
                           users'[req[r].id].mobile = users[req[r].id].mobile
                      /\ req[r].asked.name = None =>
                           users'[req[r].id].name = users[req[r].id].name
                      /\ UpdateWrite(r) => users'[req[r].id].login = users[req[r].id].login
    OBVIOUS
  <2>1. req[r].at \in {"update", "touch"} /\ (UpdateWrite(r) => req[r].at = "update")
    BY DEF UpdateWrite, TouchWrite
  <2>2. req[r].id \in Ids
    BY <2>1, Holding
  <2>3. users'[req[r].id] = Written(r)
    BY <2>2 DEF UpdateWrite, TouchWrite, Write, IInv, TableOK
  <2> QED
    BY <2>1, <2>3, WrittenRow
<1>2. Spec => [][Step]_vars
  BY <1>1, Inductive, PTL DEF Spec
<1> QED
  BY <1>2 DEF ChangesOnlyAsked
-----------------------------------------------------------------------------
(* The promise that an overlapping update breaks, without the overlap.     *)

\* What an editor's login or logout will write is the row, but for the login.
Holds(q, us) ==
  q.at = "touch" /\ q.id \in Editors =>
    q.row.email = us[q.id].email /\ q.row.mobile = us[q.id].mobile /\ q.row.name = us[q.id].name

TouchesHold == \A r \in Requests : Holds(req[r], users)

\* Request r goes on and writes nothing.
LEMMA GoHolds ==
  ASSUME IInv, TouchesHold, NEW r \in Requests, NEW next, Holds(next, users),
         Go(r, next), UNCHANGED users
  PROVE  TouchesHold'
BY DEF TouchesHold, Holds, IInv, Go

\* Request r writes row u, and whoever is about to touch it read the same.
LEMMA WriteHolds ==
  ASSUME IInv, TouchesHold, NEW r \in Requests, NEW next, next.at # "touch",
         NEW u \in Ids, NEW row, Write(r, u, row, next),
         \A q \in Requests \ {r} :
           req[q].at = "touch" /\ req[q].id \in Editors /\ req[q].id = u =>
             row.email = users[u].email /\ row.mobile = users[u].mobile /\ row.name = users[u].name
  PROVE  TouchesHold'
<1> SUFFICES ASSUME NEW q \in Requests PROVE Holds(req'[q], users')
  BY DEF TouchesHold
<1>1. users' = [users EXCEPT ![u] = row] /\ users \in [Ids -> Row] /\ req[q] \in Request
  BY DEF Write, IInv, TableOK
<1>2. CASE q = r
  BY <1>2 DEF Write, Holds
<1>3. CASE q # r
  <2>1. req'[q] = [req[q] EXCEPT !.stale = req[q].stale \/ ReadBy(req[q], u, row)]
    BY <1>3 DEF Write
  <2>2. req'[q].at = req[q].at /\ req'[q].id = req[q].id /\ req'[q].row = req[q].row
    BY <1>1, <2>1 DEF Request
  <2>3. Holds(req[q], users)
    BY DEF TouchesHold
  <2>4. SUFFICES ASSUME req[q].at = "touch", req[q].id \in Editors
                 PROVE  /\ req[q].row.email = users'[req[q].id].email
                        /\ req[q].row.mobile = users'[req[q].id].mobile
                        /\ req[q].row.name = users'[req[q].id].name
    BY <2>2 DEF Holds
  <2>5. req[q].id \in Ids
    BY <2>4 DEF Ids
  <2>6. CASE req[q].id = u
    <3>1. users'[u] = row
      BY <1>1
    <3> QED
      BY <1>3, <2>3, <2>4, <2>6, <3>1 DEF Holds
  <2>7. CASE req[q].id # u
    <3>1. users'[req[q].id] = users[req[q].id]
      BY <1>1, <2>5, <2>7
    <3> QED
      BY <2>3, <2>4, <3>1 DEF Holds
  <2> QED
    BY <2>6, <2>7
<1> QED
  BY <1>2, <1>3

\* A row is written like one that is held, but for the login.
LEMMA HeldIsWritten ==
  ASSUME IInv, TouchesHold, NEW r \in Requests, req[r].at = "touch"
  PROVE  LET u == req[r].id
             row == Written(r)
         IN  /\ u \in Ids /\ row = [users[u] EXCEPT !.login = row.login]
             /\ row.email = users[u].email /\ row.mobile = users[u].mobile
             /\ row.name = users[u].name
<1> DEFINE u == req[r].id
           row == Written(r)
<1>1. u \in Ids /\ users[u] \in Row /\ req[r].row \in Row
  BY Holding DEF IInv, TableOK
<1>2. CASE u \in Creators
  <2>1. row = [users[u] EXCEPT !.login = req[r].row.login]
    BY <1>2, TablesDisjoint DEF Written
  <2> QED
    BY <1>1, <2>1 DEF Row
<1>3. CASE u \in Editors
  <2>1. row = req[r].row
    BY <1>3 DEF Written
  <2>2. /\ row.email = users[u].email /\ row.mobile = users[u].mobile
        /\ row.name = users[u].name
    BY <1>3, <2>1 DEF TouchesHold, Holds
  <2>3. row = [users[u] EXCEPT !.login = row.login]
    BY <1>1, <2>1, <2>2 DEF Row
  <2> QED
    BY <1>1, <2>2, <2>3
<1> QED
  BY <1>1, <1>2, <1>3 DEF Ids

LEMMA TouchesHoldInductive ==
  IInv /\ TouchesHold /\ TouchesApart /\ [Next]_vars => TouchesHold'
<1> SUFFICES ASSUME IInv, TouchesHold, TouchesApart, [Next]_vars PROVE TouchesHold'
  OBVIOUS
<1>1. Idle.at = "idle"
  BY DEF Idle
<1>2. ASSUME NEW r \in Requests, NEW next, next.at # "touch", Go(r, next), UNCHANGED users
      PROVE  TouchesHold'
  BY <1>2, GoHolds DEF Holds
<1>3. ASSUME NEW r \in Requests, Register(r) PROVE TouchesHold'
  <2>1. ASSUME NEW among, NEW row, RegisterEmail(r, among, row) PROVE TouchesHold'
    <3> DEFINE next == [Idle EXCEPT !.at = "mobile", !.among = among, !.row = row]
    <3>1. next.at = "mobile" /\ Go(r, next) /\ UNCHANGED users
      BY <2>1 DEF RegisterEmail, Idle
    <3> HIDE DEF next
    <3> QED
      BY <1>2, <3>1
  <2>2. CASE RegisterMobile(r)
    <3> DEFINE next == [req[r] EXCEPT !.at = "insert"]
    <3>1. next.at = "insert" /\ Go(r, next) /\ UNCHANGED users
      BY <2>2, Holding DEF RegisterMobile, Request
    <3> HIDE DEF next
    <3> QED
      BY <1>2, <3>1
  \* Nobody touches a user that is not there.
  <2>3. ASSUME NEW u \in Ids, RegisterInsert(r, u) PROVE TouchesHold'
    <3> DEFINE next == [req[r] EXCEPT !.at = "preferences", !.id = u]
    <3>1. next.at = "preferences" /\ Write(r, u, req[r].row, next) /\ users[u] = NoRow
      BY <2>3, Holding DEF RegisterInsert, Request, There
    <3> HIDE DEF next
    <3>2. \A q \in Requests : req[q].at = "touch" => req[q].id # u
      BY <3>1, Holding
    <3> QED
      BY <3>1, <3>2, WriteHolds
  <2>4. CASE RegisterConflict(r) \/ RegisterPreferences(r)
    BY <1>1, <1>2, <2>4 DEF RegisterConflict, RegisterPreferences
  <2> QED
    BY <1>3, <2>1, <2>2, <2>3, <2>4 DEF Register
<1>4. ASSUME NEW r \in Requests, Update(r) PROVE TouchesHold'
  <2>1. ASSUME NEW u \in Ids, NEW asked \in Asks, UpdateFind(r, u, asked) PROVE TouchesHold'
    <3> DEFINE at == IF u \in Creators THEN "update" ELSE "merge"
               next == [Idle EXCEPT !.at = at, !.among = TableOf(u), !.id = u,
                                    !.asked = asked, !.row = Merge(asked, users[u])]
    <3>1. next.at # "touch" /\ Go(r, next) /\ UNCHANGED users
      BY <2>1 DEF UpdateFind, Idle
    <3> HIDE DEF next
    <3> QED
      BY <1>2, <3>1
  <2>2. CASE UpdateMerge(r)
    <3> DEFINE next == [req[r] EXCEPT !.at = "update", !.row.login = users[req[r].id].login]
    <3>1. next.at = "update" /\ Go(r, next) /\ UNCHANGED users
      BY <2>2, Holding DEF UpdateMerge, Request
    <3> HIDE DEF next
    <3> QED
      BY <1>2, <3>1
  \* Nor one that is updated.
  <2>3. CASE UpdateWrite(r)
    <3> DEFINE next == [req[r] EXCEPT !.at = "answer"]
    <3>1. /\ next.at = "answer" /\ Write(r, req[r].id, Written(r), next)
          /\ req[r].at = "update" /\ req[r].id \in Ids
      BY <2>3, Holding DEF UpdateWrite, Request
    <3> HIDE DEF next
    <3>2. \A q \in Requests : ~ (req[q].at = "touch" /\ req[q].id \in Editors /\ req[q].id = req[r].id)
      BY <3>1 DEF TouchesApart
    <3> QED
      BY <3>1, <3>2, WriteHolds
  <2>4. CASE UpdateAnswer(r)
    BY <1>1, <1>2, <2>4 DEF UpdateAnswer
  <2> QED
    BY <1>4, <2>1, <2>2, <2>3, <2>4 DEF Update
<1>5. ASSUME NEW r \in Requests, Touch(r) PROVE TouchesHold'
  <2>1. ASSUME NEW u \in Ids, Login(r, u) \/ Logout(r, u) PROVE TouchesHold'
    <3>1. PICK at, login : /\ Go(r, Touching(at, u, login))
                           /\ at = "touch" => u \in Creators
      BY <2>1 DEF Login, Logout
    <3> DEFINE next == Touching(at, u, login)
    <3>2. next.at = at /\ next.id = u /\ Go(r, next) /\ UNCHANGED users
      BY <2>1, <3>1 DEF Touching, Idle, Login, Logout
    <3> HIDE DEF next
    <3>3. Holds(next, users)
      BY <3>1, <3>2, TablesDisjoint DEF Holds
    <3> QED
      BY <3>2, <3>3, GoHolds
  <2>2. CASE TouchFind(r)
    <3> DEFINE u == req[r].id
               login == IF req[r].row.login = 0 THEN users[u].login ELSE req[r].row.login
               row == [users[u] EXCEPT !.login = login]
               next == [req[r] EXCEPT !.at = "touch", !.row = row, !.stale = FALSE]
    <3>1. req[r] \in Request /\ u \in Ids /\ users[u] \in Row
      BY <2>2, Holding DEF TouchFind, IInv, TableOK
    <3>2. row.email = users[u].email /\ row.mobile = users[u].mobile /\ row.name = users[u].name
      BY <3>1 DEF Row
    <3> HIDE DEF row
    <3>3. next.id = u /\ next.row = row
      BY <3>1 DEF Request
    <3>4. Go(r, next) /\ UNCHANGED users
      BY <2>2 DEF TouchFind, row
    <3> HIDE DEF next
    <3>5. Holds(next, users)
      BY <3>2, <3>3 DEF Holds
    <3> QED
      BY <3>4, <3>5, GoHolds
  \* Two logins of an editor read the same.
  <2>3. CASE TouchWrite(r)
    <3>1. req[r].at = "touch" /\ Write(r, req[r].id, Written(r), Idle)
      BY <2>3 DEF TouchWrite
    <3> QED
      BY <1>1, <3>1, HeldIsWritten, WriteHolds
  <2> QED
    BY <1>5, <2>1, <2>2, <2>3 DEF Touch
<1>6. ASSUME NEW r \in Requests, WriteConflict(r) \/ RequestFails(r) PROVE TouchesHold'
  BY <1>1, <1>2, <1>6 DEF WriteConflict, RequestFails
<1>7. CASE Restart
  BY <1>1, <1>7 DEF Restart, TouchesHold, Holds
<1>8. CASE UNCHANGED vars
  BY <1>8 DEF vars, TouchesHold, Holds
<1> QED
  BY <1>3, <1>4, <1>5, <1>6, <1>7, <1>8 DEF Next

\* A login or logout writes nothing but lastLoginAt, however many of an editor
\* overlap, if no update of the editor does (LoginTouchesOnlyLastLogin).
THEOREM TouchesApartOnlyLogin == TouchesApartSpec => LoginTouchesOnlyLastLogin
<1> DEFINE Step ==
      \A r \in Requests :
       TouchWrite(r) =>
         LET u == req[r].id IN users'[u] = [users[u] EXCEPT !.login = users'[u].login]
<1>1. IInv /\ TouchesHold => Step
  <2> SUFFICES ASSUME IInv, TouchesHold, NEW r \in Requests, TouchWrite(r)
               PROVE  users'[req[r].id] = [users[req[r].id] EXCEPT !.login = users'[req[r].id].login]
    OBVIOUS
  <2>1. req[r].at = "touch" /\ Write(r, req[r].id, Written(r), Idle)
    BY DEF TouchWrite
  <2>2. /\ req[r].id \in Ids
        /\ Written(r) = [users[req[r].id] EXCEPT !.login = Written(r).login]
    BY <2>1, HeldIsWritten
  <2>3. users'[req[r].id] = Written(r)
    BY <2>1, <2>2 DEF Write, IInv, TableOK
  <2> QED
    BY <2>2, <2>3
<1>2. Init => TouchesHold /\ TouchesApart
  BY DEF Init, TouchesHold, TouchesApart, Holds, Idle
<1>3. TouchesApart /\ [Next /\ TouchesApart']_vars => TouchesApart'
  BY DEF TouchesApart, vars
<1>4. [Next /\ TouchesApart']_vars => [Next]_vars
  OBVIOUS
<1>5. TouchesApartSpec => Spec
  BY <1>4, PTL DEF TouchesApartSpec, Spec
<1>6. TouchesApartSpec => [][Step]_vars
  BY <1>1, <1>2, <1>3, <1>4, <1>5, TouchesHoldInductive, Inductive, PTL DEF TouchesApartSpec
<1> QED
  BY <1>6 DEF LoginTouchesOnlyLastLogin
=============================================================================
