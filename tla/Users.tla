------------------------------- MODULE Users --------------------------------
(***************************************************************************)
(* The tables of creators, editors and their preferences.                  *)
(*                                                                         *)
(* A registration looks its mail address and mobile number up, then        *)
(* inserts the user and then the preferences, each in a statement of its   *)
(* own.  An update reads the row and writes back what it read with what    *)
(* it was asked to change.  Logins (and an editor's logouts) write the     *)
(* row, too: a creator's writes one column, an editor's reads the whole    *)
(* row and writes all of it.                                               *)
(***************************************************************************)
EXTENDS Naturals

CONSTANTS
  Creators, Editors,   \* user ids of the two tables, fresh uuids
  Emails, Mobiles,     \* identifiers
  Names,               \* values of the other columns an update can change
  Asks,                \* what updates ask for
  Requests,            \* handlers that can be in flight at once
  MaxLogins,           \* bound of the model on the logins there are
  None                 \* no value, no id

ASSUME TablesDisjoint == Creators \cap Editors = {}
ASSUME IdentifiersDisjoint == Emails \cap Mobiles = {}
ASSUME NothingElse == None \notin Creators \cup Editors \cup Emails \cup Mobiles \cup Names
ASSUME LoginsBounded == MaxLogins \in Nat

Ids == Creators \cup Editors

\* A row of creators or editors; login numbers the login lastLoginAt dates from.
Row == [email: Emails \cup {None}, mobile: Mobiles \cup {None}, name: Names \cup {None},
        login: 0..MaxLogins]
ASSUME AsksAreRows == Asks \subseteq {row \in Row : row.login = 0}
NoRow == [email |-> None, mobile |-> None, name |-> None, login |-> 0]

VARIABLES
  users,    \* the rows; NoRow where no user has the id
  prefs,    \* the users that have a row of preferences
  logins,   \* number of logins so far
  req,      \* the requests in flight
  cut       \* history: users whose registration ended before their preferences

vars == <<users, prefs, logins, req, cut>>

\* Where a request waits, the table and the id it is about, the columns it was asked
\* to change (None: keep) and the row it is going to write; history: whether another
\* request wrote what it read.
Request == [at: {"idle", "mobile", "insert", "preferences", "merge", "update", "answer",
                 "touchFind", "touch"},
            among: {Creators, Editors}, id: Ids \cup {None},
            asked: Row, row: Row, stale: BOOLEAN]

Idle == [at |-> "idle", among |-> Creators, id |-> None, asked |-> NoRow, row |-> NoRow,
         stale |-> FALSE]

There(u) == users[u] # NoRow
TableOf(u) == IF u \in Creators THEN Creators ELSE Editors

Init ==
  /\ users = [u \in Ids |-> NoRow]
  /\ prefs = {}
  /\ logins = 0
  /\ req = [r \in Requests |-> Idle]
  /\ cut = {}

\* The unique columns of the table let row be written at u.
Unique(u, row) ==
  \A v \in TableOf(u) \ {u} :
    There(v) => users[v].email # row.email /\ users[v].mobile # row.mobile

Go(r, next) == req' = [req EXCEPT ![r] = next]

\* What request q has read changes when row is written at u: the row it updates, or
\* the identifiers it looked up for a registration.
ReadBy(q, u, row) ==
  \/ q.id = u
  \/ /\ q.at \in {"mobile", "insert"} /\ u \in q.among
     /\ q.row.email = row.email \/ q.row.mobile = row.mobile

Write(r, u, row, next) ==
  /\ users' = [users EXCEPT ![u] = row]
  /\ req' = [q \in Requests |->
              IF q = r THEN next
              ELSE [req[q] EXCEPT !.stale = @ \/ ReadBy(req[q], u, row)]]
-----------------------------------------------------------------------------
(* Registration.                                                           *)

\* The mail address is not in use.
RegisterEmail(r, among, row) ==
  /\ req[r].at = "idle"
  /\ \A u \in among : There(u) => users[u].email # row.email
  /\ Go(r, [Idle EXCEPT !.at = "mobile", !.among = among, !.row = row])
  /\ UNCHANGED <<users, prefs, logins, cut>>

\* Mutant: the mobile number is not looked up.
RegisterMobile_Unchecked(r) ==
  /\ req[r].at = "mobile"
  /\ Go(r, [req[r] EXCEPT !.at = "insert"])
  /\ UNCHANGED <<users, prefs, logins, cut>>

\* Nor is the mobile number.  Confirmations of codes and the hash of the password
\* follow before the insert.
RegisterMobile(r) ==
  /\ req[r].at = "mobile"
  /\ \A u \in req[r].among : There(u) => users[u].mobile # req[r].row.mobile
  /\ Go(r, [req[r] EXCEPT !.at = "insert"])
  /\ UNCHANGED <<users, prefs, logins, cut>>

RegisterInsert(r, u) ==
  /\ req[r].at = "insert"
  /\ u \in req[r].among /\ ~ There(u)
  /\ Unique(u, req[r].row)
  /\ Write(r, u, req[r].row, [req[r] EXCEPT !.at = "preferences", !.id = u])
  /\ UNCHANGED <<prefs, logins, cut>>

\* The database refuses the row.
RegisterConflict(r) ==
  /\ req[r].at = "insert"
  /\ \E u \in req[r].among :
       There(u) /\ (users[u].email = req[r].row.email \/ users[u].mobile = req[r].row.mobile)
  /\ Go(r, Idle)
  /\ UNCHANGED <<users, prefs, logins, cut>>

\* Mutant: the insert of the preferences is not waited for, and fails.
RegisterPreferences_NotAwaited(r) ==
  /\ req[r].at = "preferences"
  /\ Go(r, Idle)
  /\ UNCHANGED <<users, prefs, logins, cut>>

RegisterPreferences(r) ==
  /\ req[r].at = "preferences"
  /\ prefs' = prefs \cup {req[r].id}
  /\ Go(r, Idle)
  /\ UNCHANGED <<users, logins, cut>>

Register(r) ==
  \/ \E among \in {Creators, Editors}, e \in Emails, m \in Mobiles, n \in Names :
       RegisterEmail(r, among, [email |-> e, mobile |-> m, name |-> n, login |-> 0])
  \/ RegisterMobile(r)
  \/ \E u \in Ids : RegisterInsert(r, u)
  \/ RegisterConflict(r)
  \/ RegisterPreferences(r)
-----------------------------------------------------------------------------
(* Update of a user.                                                       *)

\* The columns a request was asked for, over those of a row it has read.
Merge(asked, row) ==
  [row EXCEPT !.email = IF asked.email = None THEN @ ELSE asked.email,
              !.mobile = IF asked.mobile = None THEN @ ELSE asked.mobile,
              !.name = IF asked.name = None THEN @ ELSE asked.name]

\* Mutant: the user need not be there.
UpdateFind_Unchecked(r, u, asked) ==
  /\ req[r].at = "idle"
  /\ Go(r, [Idle EXCEPT !.at = IF u \in Creators THEN "update" ELSE "merge",
                        !.among = TableOf(u), !.id = u,
                        !.asked = asked, !.row = Merge(asked, users[u])])
  /\ UNCHANGED <<users, prefs, logins, cut>>

\* The editors' repository will read the row once more.
UpdateFind(r, u, asked) ==
  /\ req[r].at = "idle"
  /\ There(u)
  /\ Go(r, [Idle EXCEPT !.at = IF u \in Creators THEN "update" ELSE "merge",
                        !.among = TableOf(u), !.id = u,
                        !.asked = asked, !.row = Merge(asked, users[u])])
  /\ UNCHANGED <<users, prefs, logins, cut>>

\* All columns but the login are overwritten by what update() read before.
UpdateMerge(r) ==
  /\ req[r].at = "merge"
  /\ Go(r, [req[r] EXCEPT !.at = "update", !.row.login = users[req[r].id].login])
  /\ UNCHANGED <<users, prefs, logins, cut>>

\* What the write of request r leaves in the table.
Written(r) ==
  LET u == req[r].id IN
  IF u \in Editors THEN req[r].row
  ELSE IF req[r].at = "touch" THEN [users[u] EXCEPT !.login = req[r].row.login]
  ELSE [req[r].row EXCEPT !.login = users[u].login]

UpdateWrite(r) ==
  /\ req[r].at = "update"
  /\ Unique(req[r].id, Written(r))
  /\ Write(r, req[r].id, Written(r), [req[r] EXCEPT !.at = "answer"])
  /\ UNCHANGED <<prefs, logins, cut>>

\* With preferences they are updated and the user is answered, without it is refused.
UpdateAnswer(r) ==
  /\ req[r].at = "answer"
  /\ Go(r, Idle)
  /\ UNCHANGED <<users, prefs, logins, cut>>

Update(r) ==
  \/ \E u \in Ids, asked \in Asks : UpdateFind(r, u, asked)
  \/ UpdateMerge(r) \/ UpdateWrite(r) \/ UpdateAnswer(r)
-----------------------------------------------------------------------------
(* Logins and logouts.                                                     *)

\* A request that will write login to lastLoginAt of u, or keep that (0).
Touching(at, u, login) ==
  [Idle EXCEPT !.at = at, !.among = TableOf(u), !.id = u, !.row.login = login]

\* A login dates lastLoginAt before it writes it.
Login(r, u) ==
  /\ req[r].at = "idle"
  /\ There(u)
  /\ logins < MaxLogins
  /\ logins' = logins + 1
  /\ Go(r, Touching(IF u \in Creators THEN "touch" ELSE "touchFind", u, logins + 1))
  /\ UNCHANGED <<users, prefs, cut>>

\* A logout asks for no column (refreshToken: undefined); a creator's writes nothing.
Logout(r, u) ==
  /\ req[r].at = "idle"
  /\ There(u) /\ u \in Editors
  /\ Go(r, Touching("touchFind", u, 0))
  /\ UNCHANGED <<users, prefs, logins, cut>>

\* Mutant: update takes the row it was passed for the whole of it.
TouchFind_NoRow(r) ==
  /\ req[r].at = "touchFind"
  /\ Go(r, [req[r] EXCEPT !.at = "touch", !.stale = FALSE])
  /\ UNCHANGED <<users, prefs, logins, cut>>

\* The editors' repository reads the row to write all of it.
TouchFind(r) ==
  /\ req[r].at = "touchFind"
  /\ LET row == users[req[r].id]
         login == IF req[r].row.login = 0 THEN row.login ELSE req[r].row.login
     IN  Go(r, [req[r] EXCEPT !.at = "touch", !.row = [row EXCEPT !.login = login],
                              !.stale = FALSE])
  /\ UNCHANGED <<users, prefs, logins, cut>>

TouchWrite(r) ==
  /\ req[r].at = "touch"
  /\ Unique(req[r].id, Written(r))
  /\ Write(r, req[r].id, Written(r), Idle)
  /\ UNCHANGED <<prefs, logins, cut>>

Touch(r) ==
  \/ \E u \in Ids : Login(r, u) \/ Logout(r, u)
  \/ TouchFind(r) \/ TouchWrite(r)
-----------------------------------------------------------------------------
\* An update or a touch finds an identifier taken.
WriteConflict(r) ==
  /\ req[r].at \in {"update", "touch"}
  /\ ~ Unique(req[r].id, Written(r))
  /\ Go(r, Idle)
  /\ UNCHANGED <<users, prefs, logins, cut>>

\* The users whose preferences are still to be inserted by the requests of R.
Registering(R) == {req[r].id : r \in {q \in R : req[q].at = "preferences"}}

\* A statement fails.
RequestFails(r) ==
  /\ req[r].at # "idle"
  /\ Go(r, Idle)
  /\ cut' = cut \cup Registering({r})
  /\ UNCHANGED <<users, prefs, logins>>

Restart ==
  /\ req' = [r \in Requests |-> Idle]
  /\ cut' = cut \cup Registering(Requests)
  /\ UNCHANGED <<users, prefs, logins>>

Next ==
  \/ \E r \in Requests :
       Register(r) \/ Update(r) \/ Touch(r) \/ WriteConflict(r) \/ RequestFails(r)
  \/ Restart

Spec == Init /\ [][Next]_vars
-----------------------------------------------------------------------------
(* Correctness.                                                            *)

\* Types, and the id of a request about a user is one that is there.
TypeOK ==
  /\ users \in [Ids -> Row]
  /\ prefs \subseteq Ids
  /\ logins \in 0..MaxLogins
  /\ req \in [Requests -> Request]
  /\ cut \subseteq Ids
  /\ \A r \in Requests :
       req[r].at \notin {"idle", "mobile", "insert"} =>
         req[r].id \in Ids /\ There(req[r].id)

\* User and preferences are two inserts without a transaction: a user has no
\* preferences exactly while the registration is between them or if it ended there,
\* and nothing makes up for it later.
PreferencesUnlessCutShort ==
  \A u \in Ids :
    There(u) => (u \notin prefs <=> u \in cut \cup Registering(Requests))

\* A registration that looked both identifiers up is refused by the database only if
\* another request wrote one of them since: all others get a proper conflict.
ConflictOnlyIfRaced == [][\A r \in Requests : RegisterConflict(r) => req[r].stale]_vars

\* Rows are written whole from what was read before an await; still a write changes
\* only what was asked for if no other request wrote the row since, and a creator's
\* login even then.
ChangesOnlyAsked ==
  [][\A r \in Requests :
       LET u == req[r].id
           CreatorsLogin == u \in Creators /\ req[r].at = "touch"
       IN  (UpdateWrite(r) \/ TouchWrite(r)) /\ (~ req[r].stale \/ CreatorsLogin) =>
             /\ req[r].asked.email = None => users'[u].email = users[u].email
             /\ req[r].asked.mobile = None => users'[u].mobile = users[u].mobile
             /\ req[r].asked.name = None => users'[u].name = users[u].name
             /\ UpdateWrite(r) => users'[u].login = users[u].login
    ]_vars

\* What the comment at the end of the logins says ("Update user's last login"): they
\* change nothing else.  An editor's login writes the whole row it read before.
LoginTouchesOnlyLastLogin ==
  [][\A r \in Requests :
       TouchWrite(r) =>
         LET u == req[r].id IN users'[u] = [users[u] EXCEPT !.login = users'[u].login]
    ]_vars

\* An update is all that is behind it: no editor is updated between the read and the
\* write of a login or logout of the same editor.  Logins may overlap each other.
TouchesApart ==
  \A q, r \in Requests :
    ~ (req[q].at = "touch" /\ req[q].id \in Editors /\ req[r].at = "update" /\ req[q].id = req[r].id)

TouchesApartSpec == Init /\ [][Next /\ TouchesApart']_vars
=============================================================================
