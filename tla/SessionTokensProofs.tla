------------------------ MODULE SessionTokensProofs ------------------------
(***************************************************************************)
(* Theorems about SessionTokens, for every value of its constants.         *)
(***************************************************************************)
EXTENDS SessionTokens, TLAPS

\* The creator and editor handlers flattened: a step is one of these actions.
LEMMA StepCases ==
  ASSUME [Next]_vars
  PROVE  \/ \E r \in Requests, u \in Users, s \in Sessions : LoginCreateSession(r, u, s)
         \/ \E r \in Requests : LoginAnswer(r)
         \/ \E r \in Requests, t \in tokens : RefreshDetectReuse(r, t)
         \/ \E r \in Requests, t \in tokens : RefreshOverLimit(r, t)
         \/ \E r \in Requests, t \in tokens : RefreshAdmit(r, t)
         \/ \E r \in Requests : RefreshRevokeAll(r)
         \/ \E r \in Requests : RefreshInvalidate(r)
         \/ \E r \in Requests : RefreshReread(r)
         \/ \E r \in Requests : RefreshWrite(r)
         \/ \E r \in Requests, t \in tokens : LogoutFind(r, t)
         \/ \E r \in Requests : LogoutInvalidate(r)
         \/ \E r \in Requests : RequestFails(r)
         \/ CleanupExpired
         \/ CleanupAbsolute
         \/ Tick
         \/ Restart
         \/ UNCHANGED vars
BY DEF Next, CreatorLogin, CreatorLogout, CreatorRefresh, EditorLogin,
       EditorLogout, EditorRefresh, Login, Logout, RefreshAccessToken, Cleanup,
       Failure, Requests

\* The operators on rows, tokens and requests keep the types.
LEMMA RowTypes ==
  /\ NoRow \in Row
  /\ \A u \in Users, s \in Sessions : clock \in Nat => NewRow(u, s) \in Row
  /\ \A row \in Row, reason \in Reasons : Revoke(row, reason) \in Row
  /\ \A row \in Row, v \in Nat, c \in Nat : Refreshed(row, v, c) \in Row
<1>1. NoRow \in Row
  BY DEF NoRow, Row, Reasons
<1>2. ASSUME NEW u \in Users, NEW s \in Sessions, clock \in Nat
      PROVE  NewRow(u, s) \in Row
  <2>1. clock + SessionTTL \in Nat /\ clock + AbsoluteTTL \in Nat
    BY <1>2, Lifetimes
  <2>2. QED
    BY <2>1 DEF NewRow, Row, Reasons
<1>3. ASSUME NEW row \in Row, NEW reason \in Reasons
      PROVE  Revoke(row, reason) \in Row
  BY DEF Revoke, Row
<1>4. ASSUME NEW row \in Row, NEW v \in Nat, NEW c \in Nat
      PROVE  [row EXCEPT !.tokenVersion = v, !.refreshCount = c] \in Row
  BY DEF Row
<1>5. ASSUME NEW row \in Row, NEW v \in Nat, NEW c \in Nat
      PROVE  Refreshed(row, v, c) \in Row
  <2>1. v + 1 \in Nat /\ c + 1 \in Nat
    OBVIOUS
  <2>2. QED
    BY <1>4, <2>1 DEF Refreshed
<1>6. QED
  BY <1>1, <1>2, <1>3, <1>5

LEMMA TokenTypes ==
  ASSUME clock \in Nat
  PROVE  /\ \A u \in Users, s \in Sessions : FirstToken(u, s) \in Token
         /\ \A t \in Token : /\ NextToken(t) \in Token
                             /\ NextToken(t).sub = t.sub
                             /\ NextToken(t).session = t.session
                             /\ NextToken(t).family = t.family
                             /\ NextToken(t).version = t.version + 1
<1>1. ASSUME NEW t \in Token, NEW v \in Nat
      PROVE  [t EXCEPT !.version = v, !.issuedAt = clock] \in Token
  BY DEF Token
<1>2. ASSUME NEW t \in Token
      PROVE  /\ t.version + 1 \in Nat
             /\ NextToken(t) = [t EXCEPT !.version = t.version + 1, !.issuedAt = clock]
             /\ NextToken(t).sub = t.sub
             /\ NextToken(t).session = t.session
             /\ NextToken(t).family = t.family
             /\ NextToken(t).version = t.version + 1
  BY DEF Token, NextToken
<1>3. \A u \in Users, s \in Sessions : FirstToken(u, s) \in Token
  BY DEF FirstToken, Token
<1>4. QED
  BY <1>1, <1>2, <1>3

LEMMA WaitingTypes ==
  ASSUME NEW at \in {"idle", "login", "revokeAll", "overLimit", "reread", "write",
                     "logout"},
         NEW token \in Token \cup {None}, NEW next \in Token \cup {None},
         NEW count \in Nat
  PROVE  /\ Waiting(at, token, next, count) \in Request
         /\ Waiting(at, token, next, count).at = at
         /\ Waiting(at, token, next, count).token = token
         /\ Waiting(at, token, next, count).next = next
         /\ Waiting(at, token, next, count).count = count
BY DEF Waiting, Request

LEMMA IdleType == Idle \in Request /\ Idle.at = "idle"
BY DEF Idle, Waiting, Request

\* What is known of a request: where it waits tells which tokens it has.
Stage(q) ==
  /\ q.at \in {"revokeAll", "overLimit", "reread", "write", "logout"} => q.token \in Token
  /\ q.at = "login" => q.next \in Token
  /\ q.at = "write" => /\ q.next \in Token
                       /\ q.next.sub = q.token.sub
                       /\ q.next.session = q.token.session
                       /\ q.next.family = q.token.family
                       /\ q.next.version = q.token.version + 1

TypeInv == TypeOK /\ \A r \in Requests : Stage(req[r])

\* The types are inductive together with the shape of the waiting requests.
LEMMA TypeInvInductive == TypeInv /\ [Next]_vars => TypeInv'
<1> SUFFICES ASSUME TypeInv, [Next]_vars PROVE TypeInv'
  OBVIOUS
<1> USE DEF TypeInv
<1>a. TypeOK /\ clock \in Nat /\ \A s \in Sessions : sessions[s] \in Row
  BY DEF TypeOK
<1>b. ASSUME NEW r \in Requests, NEW q \in Request, Stage(q),
             req' = [req EXCEPT ![r] = q]
      PROVE  /\ req' \in [Requests -> Request]
             /\ \A x \in Requests : Stage(req'[x])
  BY <1>b DEF TypeOK
<1>c. ASSUME NEW S, NEW reason \in Reasons, RevokeLive(S, reason)
      PROVE  sessions' \in [Sessions -> Row]
  BY <1>a, <1>c, RowTypes DEF RevokeLive
<1>d. ASSUME NEW r \in Requests, NEW reason \in Reasons,
             req[r].token \in Token, Invalidate(req[r].token.session, reason)
      PROVE  sessions' \in [Sessions -> Row]
  <2>1. req[r].token.session \in Sessions
    BY <1>d DEF Token
  <2>2. QED
    BY <1>a, <1>d, <2>1, RowTypes DEF Invalidate, TypeOK
<1>e. Stage(Idle)
  BY IdleType DEF Stage
<1>1. ASSUME NEW r \in Requests, NEW u \in Users, NEW s \in Sessions,
             LoginCreateSession(r, u, s)
      PROVE  TypeInv'
  <2> DEFINE q == Waiting("login", None, FirstToken(u, s), 0)
  <2>1. FirstToken(u, s) \in Token
    BY <1>a, TokenTypes
  <2>2. q \in Request /\ Stage(q)
    BY <2>1, WaitingTypes DEF Stage
  <2>3. sessions' \in [Sessions -> Row]
    BY <1>1, <1>a, RowTypes DEF LoginCreateSession, TypeOK
  <2> HIDE DEF q
  <2>4. req' = [req EXCEPT ![r] = q]
    BY <1>1 DEF LoginCreateSession, q
  <2>5. QED
    BY <1>1, <1>b, <2>2, <2>3, <2>4 DEF LoginCreateSession, TypeOK, timer, history
<1>2. ASSUME NEW r \in Requests, LoginAnswer(r) PROVE TypeInv'
  BY <1>2, <1>b, <1>e, IdleType DEF LoginAnswer, Stage, TypeOK, timer, history
<1>3. ASSUME NEW r \in Requests, NEW t \in tokens,
             NEW at \in {"revokeAll", "overLimit", "reread"}, Await(r, t, at)
      PROVE  TypeInv'
  <2> DEFINE q == Waiting(at, t, None, 0)
  <2>1. t \in Token /\ t.sub \in Users
    BY DEF Token, TypeOK
  <2>2. q \in Request /\ Stage(q)
    BY <2>1, WaitingTypes DEF Stage
  <2> HIDE DEF q
  <2>3. req' = [req EXCEPT ![r] = q]
    BY <1>3 DEF Await, q
  <2>4. QED
    BY <1>3, <1>b, <2>1, <2>2, <2>3 DEF Await, Present, TypeOK, timer
<1>4. ASSUME NEW r \in Requests, RefreshRevokeAll(r) PROVE TypeInv'
  <2>1. sessions' \in [Sessions -> Row]
    BY <1>4, <1>c DEF RefreshRevokeAll, InvalidateAllUserSessions, Reasons
  <2>2. QED
    BY <1>4, <1>b, <1>e, <2>1, IdleType DEF RefreshRevokeAll, TypeOK, timer, history
<1>5. ASSUME NEW r \in Requests, RefreshInvalidate(r) PROVE TypeInv'
  <2>1. sessions' \in [Sessions -> Row]
    BY <1>5, <1>d DEF RefreshInvalidate, Stage, Reasons
  <2>2. QED
    BY <1>5, <1>b, <1>e, <2>1, IdleType DEF RefreshInvalidate, TypeOK, timer, history
<1>6. ASSUME NEW r \in Requests, LogoutInvalidate(r) PROVE TypeInv'
  <2>1. sessions' \in [Sessions -> Row]
    BY <1>6, <1>d DEF LogoutInvalidate, Stage, Reasons
  <2>2. QED
    BY <1>6, <1>b, <1>e, <2>1, IdleType DEF LogoutInvalidate, TypeOK, timer, history
<1>7. ASSUME NEW r \in Requests, RefreshReread(r) PROVE TypeInv'
  <2> DEFINE t == req[r].token
             c == sessions[t.session].refreshCount
             q == Waiting("write", t, NextToken(t), c)
  <2>1. t \in Token /\ t.session \in Sessions
    BY <1>7 DEF RefreshReread, Stage, Token
  <2>2. c \in Nat
    BY <1>a, <2>1 DEF Row
  <2> HIDE DEF t, c
  <2>3. q \in Request /\ Stage(q)
    <3>1. /\ NextToken(t) \in Token
          /\ NextToken(t).sub = t.sub /\ NextToken(t).session = t.session
          /\ NextToken(t).family = t.family
          /\ NextToken(t).version = t.version + 1
      BY <1>a, <2>1, TokenTypes
    <3>2. q \in Request /\ q.at = "write" /\ q.token = t /\ q.next = NextToken(t)
      BY <2>1, <2>2, <3>1, WaitingTypes
    <3> HIDE DEF q
    <3>3. QED
      BY <2>1, <3>1, <3>2 DEF Stage
  <2> HIDE DEF q
  <2>4. req' = [req EXCEPT ![r] = q]
    BY <1>7 DEF RefreshReread, q, t, c
  <2>5. QED
    BY <1>7, <1>b, <2>3, <2>4 DEF RefreshReread, TypeOK, timer, history
<1>8. ASSUME NEW r \in Requests, RefreshWrite(r) PROVE TypeInv'
  <2>1. /\ req[r].token \in Token /\ req[r].token.session \in Sessions
        /\ req[r].token.version \in Nat /\ req[r].next \in Token
        /\ req[r].count \in Nat
    BY <1>8 DEF RefreshWrite, Stage, Token, TypeOK, Request
  <2>2. sessions' \in [Sessions -> Row]
    BY <1>8, <1>a, <2>1, RowTypes DEF RefreshWrite, TypeOK
  <2>3. QED
    BY <1>8, <1>b, <1>e, <2>1, <2>2, IdleType DEF RefreshWrite, TypeOK, timer
<1>9. ASSUME NEW r \in Requests, NEW t \in tokens, LogoutFind(r, t) PROVE TypeInv'
  <2> DEFINE q == Waiting("logout", t, None, 0)
  <2>1. t \in Token
    BY DEF TypeOK
  <2>2. q \in Request /\ Stage(q)
    BY <2>1, WaitingTypes DEF Stage
  <2> HIDE DEF q
  <2>3. req' = [req EXCEPT ![r] = q]
    BY <1>9 DEF LogoutFind, q
  <2>4. QED
    BY <1>9, <1>b, <2>2, <2>3 DEF LogoutFind, TypeOK, timer, history
<1>10. ASSUME NEW r \in Requests, RequestFails(r) PROVE TypeInv'
  BY <1>10, <1>b, <1>e, IdleType DEF RequestFails, TypeOK, timer, history
<1>11. CASE CleanupExpired
  <2>1. sessions' \in [Sessions -> Row]
    BY <1>11, <1>c DEF CleanupExpired, Reasons
  <2>2. QED
    BY <1>11, <2>1 DEF CleanupExpired, TypeOK, history
<1>12. CASE CleanupAbsolute
  <2>1. sessions' \in [Sessions -> Row]
    BY <1>12, <1>c DEF CleanupAbsolute, Reasons
  <2>2. nextCleanup' \in Nat
    BY <1>12, <1>a, Lifetimes DEF CleanupAbsolute
  <2>3. QED
    BY <1>12, <2>1, <2>2 DEF CleanupAbsolute, TypeOK, history
<1>13. CASE Tick
  BY <1>13 DEF Tick, TypeOK, timer, history
<1>14. CASE Restart
  <2>1. nextCleanup' \in Nat /\ boots' \in Nat
    BY <1>14, <1>a, Lifetimes DEF Restart, TypeOK
  <2>2. QED
    BY <1>14, <1>e, <2>1, IdleType DEF Restart, TypeOK, history
<1>15. CASE UNCHANGED vars
  BY <1>15 DEF vars, TypeOK, timer, history
<1>16. QED
  BY <1>1, <1>2, <1>3, <1>4, <1>5, <1>6, <1>7, <1>8, <1>9, <1>10, <1>11, <1>12,
     <1>13, <1>14, <1>15, StepCases
     DEF RefreshDetectReuse, RefreshOverLimit, RefreshAdmit

LEMMA TypeInvInitially == Init => TypeInv
<1>1. CleanupPeriod \in Nat
  BY Lifetimes
<1>2. QED
  <2>1. Init => TypeOK
    <3>1. NoRow \in Row /\ Idle \in Request
      BY RowTypes, IdleType
    <3> SUFFICES ASSUME Init PROVE TypeOK
      OBVIOUS
    <3>2. sessions \in [Sessions -> Row] /\ req \in [Requests -> Request]
      BY <3>1 DEF Init
    <3>3. rotated \in [Sessions -> Nat]
      BY DEF Init
    <3>4. QED
      BY <1>1, <3>2, <3>3 DEF Init, TypeOK
  <2>2. Init => \A r \in Requests : Stage(req[r])
    BY IdleType DEF Init, Stage
  <2>3. QED
    BY <2>1, <2>2 DEF TypeInv

LEMMA TypeInvAlways == Spec => []TypeInv
BY TypeInvInitially, TypeInvInductive, PTL DEF Spec

\* Every variable keeps its type.
THEOREM TypeCorrect == Spec => []TypeOK
<1>1. TypeInv => TypeOK
  BY DEF TypeInv
<1>2. QED
  BY <1>1, TypeInvAlways, PTL
-----------------------------------------------------------------------------
(* Rows.                                                                   *)

\* What the three operators leave of a row.
LEMMA RowFields ==
  /\ \A u \in Users, s \in Sessions :
       /\ NewRow(u, s).status = "live" /\ NewRow(u, s).reason = "none"
       /\ NewRow(u, s).owner = u /\ NewRow(u, s).family = s
       /\ NewRow(u, s).expiresAt = clock + SessionTTL
       /\ NewRow(u, s).absoluteExpiresAt = clock + AbsoluteTTL
       /\ NewRow(u, s).tokenVersion = 1 /\ NewRow(u, s).refreshCount = 0
  /\ \A row \in Row, reason \in Reasons :
       /\ Revoke(row, reason).status = "revoked"
       /\ Revoke(row, reason).reason = reason
       /\ Revoke(row, reason).owner = row.owner
       /\ Revoke(row, reason).family = row.family
       /\ Revoke(row, reason).expiresAt = row.expiresAt
       /\ Revoke(row, reason).absoluteExpiresAt = row.absoluteExpiresAt
       /\ Revoke(row, reason).tokenVersion = row.tokenVersion
       /\ Revoke(row, reason).refreshCount = row.refreshCount
  /\ \A row \in Row, v \in Nat, c \in Nat :
       /\ Refreshed(row, v, c).status = row.status
       /\ Refreshed(row, v, c).reason = row.reason
       /\ Refreshed(row, v, c).owner = row.owner
       /\ Refreshed(row, v, c).family = row.family
       /\ Refreshed(row, v, c).expiresAt = row.expiresAt
       /\ Refreshed(row, v, c).absoluteExpiresAt = row.absoluteExpiresAt
       /\ Refreshed(row, v, c).tokenVersion = v + 1
       /\ Refreshed(row, v, c).refreshCount = c + 1
<1>1. ASSUME NEW u \in Users, NEW s \in Sessions
      PROVE  /\ NewRow(u, s).status = "live" /\ NewRow(u, s).reason = "none"
             /\ NewRow(u, s).owner = u /\ NewRow(u, s).family = s
             /\ NewRow(u, s).expiresAt = clock + SessionTTL
             /\ NewRow(u, s).absoluteExpiresAt = clock + AbsoluteTTL
             /\ NewRow(u, s).tokenVersion = 1 /\ NewRow(u, s).refreshCount = 0
  BY DEF NewRow
<1>2. ASSUME NEW row \in Row, NEW reason \in Reasons
      PROVE  /\ Revoke(row, reason).status = "revoked"
             /\ Revoke(row, reason).reason = reason
             /\ Revoke(row, reason).owner = row.owner
             /\ Revoke(row, reason).family = row.family
             /\ Revoke(row, reason).expiresAt = row.expiresAt
             /\ Revoke(row, reason).absoluteExpiresAt = row.absoluteExpiresAt
             /\ Revoke(row, reason).tokenVersion = row.tokenVersion
             /\ Revoke(row, reason).refreshCount = row.refreshCount
  BY DEF Revoke, Row
<1>3. ASSUME NEW row \in Row, NEW v \in Nat, NEW c \in Nat
      PROVE  /\ Refreshed(row, v, c).status = row.status
             /\ Refreshed(row, v, c).reason = row.reason
             /\ Refreshed(row, v, c).owner = row.owner
             /\ Refreshed(row, v, c).family = row.family
             /\ Refreshed(row, v, c).expiresAt = row.expiresAt
             /\ Refreshed(row, v, c).absoluteExpiresAt = row.absoluteExpiresAt
             /\ Refreshed(row, v, c).tokenVersion = v + 1
             /\ Refreshed(row, v, c).refreshCount = c + 1
  BY DEF Refreshed, Row
<1>4. QED
  BY <1>1, <1>2, <1>3

\* A refresh that is written changes the counters of its session's row and nothing
\* else of it.
LEMMA WriteEffects ==
  ASSUME TypeInv, NEW r \in Requests, RefreshWrite(r), NEW s \in Sessions,
         req[r].token.session = s
  PROVE  /\ sessions'[s].status = sessions[s].status
         /\ sessions'[s].reason = sessions[s].reason
         /\ sessions'[s].owner = sessions[s].owner
         /\ sessions'[s].family = sessions[s].family
         /\ sessions'[s].expiresAt = sessions[s].expiresAt
         /\ sessions'[s].absoluteExpiresAt = sessions[s].absoluteExpiresAt
         /\ sessions'[s].tokenVersion = req[r].token.version + 1
         /\ sessions'[s].refreshCount = req[r].count + 1
<1> DEFINE row == sessions[s]
           v == req[r].token.version
           c == req[r].count
<1>1. row \in Row /\ v \in Nat /\ c \in Nat
  BY DEF RefreshWrite, TypeInv, TypeOK, Stage, Token, Request
<1>2. sessions'[s] = Refreshed(row, v, c)
  BY DEF RefreshWrite, TypeInv, TypeOK
<1>3. /\ row.status = sessions[s].status /\ row.reason = sessions[s].reason
      /\ row.owner = sessions[s].owner /\ row.family = sessions[s].family
      /\ row.expiresAt = sessions[s].expiresAt
      /\ row.absoluteExpiresAt = sessions[s].absoluteExpiresAt
      /\ v = req[r].token.version /\ c = req[r].count
  OBVIOUS
<1> HIDE DEF row, v, c
<1> DEFINE new == Refreshed(row, v, c)
<1>4. /\ new.status = row.status /\ new.reason = row.reason
      /\ new.owner = row.owner /\ new.family = row.family
      /\ new.expiresAt = row.expiresAt
      /\ new.absoluteExpiresAt = row.absoluteExpiresAt
      /\ new.tokenVersion = v + 1 /\ new.refreshCount = c + 1
  BY <1>1, RowFields
<1>5. sessions'[s] = new
  BY <1>2
<1> HIDE DEF new
<1>6. QED
  BY <1>3, <1>4, <1>5

\* The actions that write rows.
LEMMA RowWriters ==
  ASSUME [Next]_vars
  PROVE  \/ \E r \in Requests, u \in Users, s \in Sessions : LoginCreateSession(r, u, s)
         \/ \E r \in Requests : RefreshRevokeAll(r)
         \/ \E r \in Requests : RefreshInvalidate(r)
         \/ \E r \in Requests : RefreshWrite(r)
         \/ \E r \in Requests : LogoutInvalidate(r)
         \/ CleanupExpired
         \/ CleanupAbsolute
         \/ UNCHANGED sessions
<1>1. ASSUME NEW r \in Requests,
             LoginAnswer(r) \/ RefreshReread(r) \/ RequestFails(r)
      PROVE  UNCHANGED sessions
  BY <1>1 DEF LoginAnswer, RefreshReread, RequestFails
<1>2. ASSUME NEW r \in Requests, NEW t \in tokens,
             RefreshDetectReuse(r, t) \/ RefreshOverLimit(r, t)
               \/ RefreshAdmit(r, t) \/ LogoutFind(r, t)
      PROVE  UNCHANGED sessions
  BY <1>2 DEF RefreshDetectReuse, RefreshOverLimit, RefreshAdmit, Await, LogoutFind
<1>3. ASSUME Tick \/ Restart \/ UNCHANGED vars PROVE UNCHANGED sessions
  BY <1>3 DEF Tick, Restart, vars
<1>4. QED
  BY <1>1, <1>2, <1>3, StepCases

\* A step that makes a row revoked for a reason.
RevokesFor(s, reason) ==
  \/ \E r \in Requests : /\ RefreshRevokeAll(r) /\ Live(s) /\ reason = "reuse"
                         /\ sessions[s].owner = req[r].token.sub
  \/ \E r \in Requests : /\ RefreshInvalidate(r) /\ reason = "maxRefresh"
                         /\ s = req[r].token.session
  \/ \E r \in Requests : /\ LogoutInvalidate(r) /\ reason = "logout"
                         /\ s = req[r].token.session
  \/ CleanupExpired /\ Live(s) /\ reason = "expired"
  \/ CleanupAbsolute /\ Live(s) /\ sessions[s].absoluteExpiresAt < clock
     /\ reason = "maxLifetime"

\* All a step can do to a row: insert it, revoke it, or refresh it.
LEMMA RowEffects ==
  ASSUME TypeInv, [Next]_vars, NEW s \in Sessions
  PROVE  \/ sessions'[s] = sessions[s]
         \/ \E r \in Requests, u \in Users :
              /\ LoginCreateSession(r, u, s)
              /\ sessions[s].status = "absent"
              /\ sessions'[s] = NewRow(u, s)
         \/ \E reason \in Reasons :
              RevokesFor(s, reason) /\ sessions'[s] = Revoke(sessions[s], reason)
         \/ \E r \in Requests : RefreshWrite(r) /\ req[r].token.session = s
<1> DEFINE Goal ==
         \/ sessions'[s] = sessions[s]
         \/ \E r \in Requests, u \in Users :
              /\ LoginCreateSession(r, u, s)
              /\ sessions[s].status = "absent"
              /\ sessions'[s] = NewRow(u, s)
         \/ \E reason \in Reasons :
              RevokesFor(s, reason) /\ sessions'[s] = Revoke(sessions[s], reason)
         \/ \E r \in Requests : RefreshWrite(r) /\ req[r].token.session = s
<1>a. sessions \in [Sessions -> Row]
  BY DEF TypeInv, TypeOK
<1>b. {"reuse", "maxRefresh", "logout", "expired", "maxLifetime"} \subseteq Reasons
  BY DEF Reasons
<1>1. ASSUME NEW r \in Requests, NEW u \in Users, NEW x \in Sessions,
             LoginCreateSession(r, u, x)
      PROVE  Goal
  <2>1. CASE x = s
    <3>1. sessions'[s] = NewRow(u, s) /\ sessions[s].status = "absent"
      BY <1>1, <1>a, <2>1 DEF LoginCreateSession
    <3>2. QED
      BY <1>1, <2>1, <3>1
  <2>2. CASE x # s
    BY <1>1, <1>a, <2>2 DEF LoginCreateSession
  <2>3. QED
    BY <2>1, <2>2
<1>2. ASSUME NEW S, NEW reason \in Reasons, RevokeLive(S, reason),
             s \in S /\ Live(s) => RevokesFor(s, reason)
      PROVE  Goal
  <2>1. CASE s \in S /\ Live(s)
    <3>1. sessions'[s] = Revoke(sessions[s], reason)
      BY <1>2, <2>1 DEF RevokeLive
    <3>2. QED
      BY <1>2, <2>1, <3>1
  <2>2. CASE ~ (s \in S /\ Live(s))
    BY <1>2, <2>2 DEF RevokeLive
  <2>3. QED
    BY <2>1, <2>2
<1>3. ASSUME NEW x, NEW reason \in Reasons, Invalidate(x, reason),
             x = s => RevokesFor(s, reason)
      PROVE  Goal
  <2>1. CASE x = s
    <3>1. sessions'[s] = Revoke(sessions[s], reason)
      BY <1>3, <1>a, <2>1 DEF Invalidate
    <3>2. QED
      BY <1>3, <2>1, <3>1
  <2>2. CASE x # s
    BY <1>3, <1>a, <2>2 DEF Invalidate
  <2>3. QED
    BY <2>1, <2>2
<1>4. ASSUME NEW r \in Requests, RefreshRevokeAll(r) PROVE Goal
  <2> DEFINE S == {x \in Sessions : sessions[x].owner = req[r].token.sub}
  <2>1. RevokeLive(S, "reuse")
    BY <1>4 DEF RefreshRevokeAll, InvalidateAllUserSessions
  <2>2. s \in S /\ Live(s) => RevokesFor(s, "reuse")
    BY <1>4 DEF RevokesFor
  <2> HIDE DEF S
  <2>3. QED
    BY <1>2, <1>b, <2>1, <2>2
<1>5. ASSUME NEW r \in Requests, RefreshInvalidate(r) PROVE Goal
  <2>1. Invalidate(req[r].token.session, "maxRefresh")
    BY <1>5 DEF RefreshInvalidate
  <2>2. req[r].token.session = s => RevokesFor(s, "maxRefresh")
    BY <1>5 DEF RevokesFor
  <2>3. QED
    BY <1>3, <1>b, <2>1, <2>2
<1>6. ASSUME NEW r \in Requests, LogoutInvalidate(r) PROVE Goal
  <2>1. Invalidate(req[r].token.session, "logout")
    BY <1>6 DEF LogoutInvalidate
  <2>2. req[r].token.session = s => RevokesFor(s, "logout")
    BY <1>6 DEF RevokesFor
  <2>3. QED
    BY <1>3, <1>b, <2>1, <2>2
<1>7. ASSUME NEW r \in Requests, RefreshWrite(r) PROVE Goal
  <2>1. CASE req[r].token.session = s
    BY <1>7, <2>1
  <2>2. CASE req[r].token.session # s
    BY <1>7, <1>a, <2>2 DEF RefreshWrite
  <2>3. QED
    BY <2>1, <2>2
<1>8. CASE CleanupExpired
  <2> DEFINE S == {x \in Sessions : sessions[x].expiresAt < clock}
  <2>1. RevokeLive(S, "expired")
    BY <1>8 DEF CleanupExpired
  <2>2. Live(s) => RevokesFor(s, "expired")
    BY <1>8 DEF RevokesFor
  <2> HIDE DEF S
  <2>3. QED
    BY <1>2, <1>b, <2>1, <2>2
<1>9. CASE CleanupAbsolute
  <2> DEFINE S == {x \in Sessions : sessions[x].absoluteExpiresAt < clock}
  <2>1. RevokeLive(S, "maxLifetime")
    BY <1>9 DEF CleanupAbsolute
  <2>2. s \in S /\ Live(s) => RevokesFor(s, "maxLifetime")
    BY <1>9 DEF RevokesFor
  <2> HIDE DEF S
  <2>3. QED
    BY <1>2, <1>b, <2>1, <2>2
<1>10. CASE UNCHANGED sessions
  BY <1>10
<1>11. QED
  BY <1>1, <1>4, <1>5, <1>6, <1>7, <1>8, <1>9, <1>10, RowWriters

\* A row that exists keeps its owner, family and dates, and a revoked one stays
\* revoked.
LEMMA RowsKeep ==
  ASSUME TypeInv, [Next]_vars, NEW s \in Sessions
  PROVE  /\ Revoked(s) => Revoked(s)'
         /\ sessions[s].status # "absent" =>
              /\ sessions'[s].status # "absent"
              /\ sessions'[s].owner = sessions[s].owner
              /\ sessions'[s].family = sessions[s].family
              /\ sessions'[s].expiresAt = sessions[s].expiresAt
              /\ sessions'[s].absoluteExpiresAt = sessions[s].absoluteExpiresAt
<1>1. sessions[s] \in Row
  BY DEF TypeInv, TypeOK
<1>2. QED
  BY <1>1, RowEffects, RowFields, WriteEffects DEF Revoked

\* Whatever the interleaving, a revoked session is never live again.
THEOREM RevocationIsFinal == Spec => RevokedIsFinal
<1> DEFINE Keeps == \A s \in Sessions : Revoked(s) => sessions'[s].status = "revoked"
<1>1. TypeInv /\ [Next]_vars => Keeps
  BY RowsKeep DEF Revoked
<1> HIDE DEF Keeps
<1>2. Spec => [][Keeps]_vars
  BY <1>1, TypeInvAlways, PTL DEF Spec
<1>3. QED
  BY <1>2 DEF RevokedIsFinal, Keeps
-----------------------------------------------------------------------------
(* Requests.                                                               *)

\* What a step can do to one request, and the action that does it.
LEMMA RequestEffects ==
  ASSUME TypeInv, [Next]_vars, NEW r \in Requests
  PROVE  \/ req'[r] = req[r]
         \/ req'[r] = Idle
         \/ \E u \in Users, s \in Sessions :
              /\ LoginCreateSession(r, u, s)
              /\ req'[r] = Waiting("login", None, FirstToken(u, s), 0)
         \/ \E t \in tokens : /\ RefreshDetectReuse(r, t)
                              /\ req'[r] = Waiting("revokeAll", t, None, 0)
         \/ \E t \in tokens : /\ RefreshOverLimit(r, t)
                              /\ req'[r] = Waiting("overLimit", t, None, 0)
         \/ \E t \in tokens : /\ RefreshAdmit(r, t)
                              /\ req'[r] = Waiting("reread", t, None, 0)
         \/ /\ RefreshReread(r)
            /\ req'[r] = Waiting("write", req[r].token, NextToken(req[r].token),
                                 sessions[req[r].token.session].refreshCount)
         \/ \E t \in tokens : /\ LogoutFind(r, t)
                              /\ req'[r] = Waiting("logout", t, None, 0)
<1> DEFINE Goal ==
         \/ req'[r] = req[r]
         \/ req'[r] = Idle
         \/ \E u \in Users, s \in Sessions :
              /\ LoginCreateSession(r, u, s)
              /\ req'[r] = Waiting("login", None, FirstToken(u, s), 0)
         \/ \E t \in tokens : /\ RefreshDetectReuse(r, t)
                              /\ req'[r] = Waiting("revokeAll", t, None, 0)
         \/ \E t \in tokens : /\ RefreshOverLimit(r, t)
                              /\ req'[r] = Waiting("overLimit", t, None, 0)
         \/ \E t \in tokens : /\ RefreshAdmit(r, t)
                              /\ req'[r] = Waiting("reread", t, None, 0)
         \/ /\ RefreshReread(r)
            /\ req'[r] = Waiting("write", req[r].token, NextToken(req[r].token),
                                 sessions[req[r].token.session].refreshCount)
         \/ \E t \in tokens : /\ LogoutFind(r, t)
                              /\ req'[r] = Waiting("logout", t, None, 0)
<1>a. req \in [Requests -> Request]
  BY DEF TypeInv, TypeOK
<1>1. ASSUME NEW x \in Requests, NEW u \in Users, NEW s \in Sessions,
             LoginCreateSession(x, u, s)
      PROVE  Goal
  <2>1. x = r => req'[r] = Waiting("login", None, FirstToken(u, s), 0)
    BY <1>1, <1>a DEF LoginCreateSession
  <2>2. x # r => req'[r] = req[r]
    BY <1>1, <1>a DEF LoginCreateSession
  <2>3. QED
    BY <1>1, <2>1, <2>2
<1>2. ASSUME NEW x \in Requests,
             \/ LoginAnswer(x) \/ RefreshRevokeAll(x) \/ RefreshInvalidate(x)
             \/ RefreshWrite(x) \/ LogoutInvalidate(x) \/ RequestFails(x)
      PROVE  Goal
  <2>1. req' = [req EXCEPT ![x] = Idle]
    BY <1>2 DEF LoginAnswer, RefreshRevokeAll, RefreshInvalidate, RefreshWrite,
                LogoutInvalidate, RequestFails
  <2>2. req'[r] = Idle \/ req'[r] = req[r]
    BY <1>a, <2>1
  <2>3. QED
    BY <2>2
<1>3. ASSUME NEW x \in Requests, NEW t \in tokens, NEW at, Await(x, t, at)
      PROVE  /\ x = r => req'[r] = Waiting(at, t, None, 0)
             /\ x # r => req'[r] = req[r]
  BY <1>3, <1>a DEF Await
<1>4. ASSUME NEW x \in Requests, NEW t \in tokens, RefreshDetectReuse(x, t) PROVE Goal
  BY <1>3, <1>4 DEF RefreshDetectReuse
<1>5. ASSUME NEW x \in Requests, NEW t \in tokens, RefreshOverLimit(x, t) PROVE Goal
  BY <1>3, <1>5 DEF RefreshOverLimit
<1>6. ASSUME NEW x \in Requests, NEW t \in tokens, RefreshAdmit(x, t) PROVE Goal
  BY <1>3, <1>6 DEF RefreshAdmit
<1>7. ASSUME NEW x \in Requests, RefreshReread(x) PROVE Goal
  <2>1. x = r => req'[r] = Waiting("write", req[r].token, NextToken(req[r].token),
                                   sessions[req[r].token.session].refreshCount)
    BY <1>7, <1>a DEF RefreshReread
  <2>2. x # r => req'[r] = req[r]
    BY <1>7, <1>a DEF RefreshReread
  <2>3. QED
    BY <1>7, <2>1, <2>2
<1>8. ASSUME NEW x \in Requests, NEW t \in tokens, LogoutFind(x, t) PROVE Goal
  <2>1. x = r => req'[r] = Waiting("logout", t, None, 0)
    BY <1>8, <1>a DEF LogoutFind
  <2>2. x # r => req'[r] = req[r]
    BY <1>8, <1>a DEF LogoutFind
  <2>3. QED
    BY <1>8, <2>1, <2>2
<1>9. CASE CleanupExpired \/ CleanupAbsolute \/ Tick \/ UNCHANGED vars
  BY <1>9 DEF CleanupExpired, CleanupAbsolute, Tick, vars
<1>10. CASE Restart
  BY <1>10 DEF Restart
<1>11. QED
  BY <1>1, <1>2, <1>4, <1>5, <1>6, <1>7, <1>8, <1>9, <1>10, StepCases

\* The fields of a waiting request, whatever its values.
LEMMA WaitingFields ==
  ASSUME NEW at, NEW token, NEW next, NEW count
  PROVE  /\ Waiting(at, token, next, count).at = at
         /\ Waiting(at, token, next, count).token = token
         /\ Waiting(at, token, next, count).next = next
         /\ Waiting(at, token, next, count).count = count
BY DEF Waiting

\* What a step can do to the set of tokens.
LEMMA TokensEffects ==
  ASSUME [Next]_vars
  PROVE  \/ UNCHANGED tokens
         \/ \E r \in Requests : /\ LoginAnswer(r) \/ RefreshWrite(r)
                                /\ req[r].at \in {"login", "write"}
                                /\ tokens' = tokens \cup {req[r].next}
<1>1. ASSUME NEW r \in Requests, LoginAnswer(r) \/ RefreshWrite(r)
      PROVE  \/ UNCHANGED tokens
             \/ /\ req[r].at \in {"login", "write"}
                /\ tokens' = tokens \cup {req[r].next}
  BY <1>1 DEF LoginAnswer, RefreshWrite
<1>2. ASSUME NEW r \in Requests,
             \/ RefreshRevokeAll(r) \/ RefreshInvalidate(r) \/ RefreshReread(r)
             \/ LogoutInvalidate(r) \/ RequestFails(r)
      PROVE  UNCHANGED tokens
  BY <1>2 DEF RefreshRevokeAll, RefreshInvalidate, RefreshReread,
              LogoutInvalidate, RequestFails
<1>3. ASSUME NEW r \in Requests, NEW t \in tokens,
             RefreshDetectReuse(r, t) \/ RefreshOverLimit(r, t)
               \/ RefreshAdmit(r, t) \/ LogoutFind(r, t)
      PROVE  UNCHANGED tokens
  BY <1>3 DEF RefreshDetectReuse, RefreshOverLimit, RefreshAdmit, Await, LogoutFind
<1>4. ASSUME NEW r \in Requests, NEW u \in Users, NEW s \in Sessions,
             LoginCreateSession(r, u, s)
      PROVE  UNCHANGED tokens
  BY <1>4 DEF LoginCreateSession
<1>5. CASE CleanupExpired \/ CleanupAbsolute \/ Tick \/ Restart \/ UNCHANGED vars
  BY <1>5 DEF CleanupExpired, CleanupAbsolute, Tick, Restart, vars
<1>6. QED
  BY <1>1, <1>2, <1>3, <1>4, <1>5, StepCases

\* A token's session exists and carries the token's subject and family.
Belongs(t) == /\ sessions[t.session].status # "absent"
              /\ sessions[t.session].owner = t.sub
              /\ sessions[t.session].family = t.family

Belonging ==
  /\ \A t \in tokens : Belongs(t)
  /\ \A r \in Requests :
       /\ req[r].at = "login" => Belongs(req[r].next)
       /\ req[r].at \in {"revokeAll", "overLimit", "reread", "write", "logout"}
            => req[r].token \in tokens

LEMMA BelongingInductive == TypeInv /\ Belonging /\ [Next]_vars => Belonging'
<1> SUFFICES ASSUME TypeInv, Belonging, [Next]_vars PROVE Belonging'
  OBVIOUS
<1>a. tokens \subseteq Token /\ clock \in Nat /\ \A s \in Sessions : sessions[s] \in Row
  BY DEF TypeInv, TypeOK
<1>b. ASSUME NEW t \in Token, Belongs(t) PROVE Belongs(t)'
  <2>1. t.session \in Sessions
    BY DEF Token
  <2>2. QED
    BY <1>b, <2>1, RowsKeep DEF Belongs
<1>c. ASSUME NEW r \in Requests, req[r].at \in {"login", "write"}
      PROVE  req[r].next \in Token /\ Belongs(req[r].next)
  <2>1. CASE req[r].at = "login"
    BY <2>1 DEF TypeInv, Stage, Belonging
  <2>2. CASE req[r].at = "write"
    BY <2>2 DEF TypeInv, Stage, Belonging, Belongs
  <2>3. QED
    BY <1>c, <2>1, <2>2
<1>1. \A t \in tokens' : Belongs(t)'
  <2>1. \A t \in tokens' : t \in Token /\ Belongs(t)
    BY <1>a, <1>c, TokensEffects DEF Belonging
  <2>2. QED
    BY <1>b, <2>1
<1>2. ASSUME NEW r \in Requests, req'[r].at = "login" PROVE Belongs(req[r].next)'
  <2>1. CASE req'[r] = req[r]
    <3>1. req[r].next \in Token /\ Belongs(req[r].next)
      BY <1>2, <1>c, <2>1
    <3>2. QED
      BY <1>b, <2>1, <3>1 DEF Belongs
  <2>2. ASSUME NEW u \in Users, NEW s \in Sessions, LoginCreateSession(r, u, s),
               req'[r] = Waiting("login", None, FirstToken(u, s), 0)
        PROVE  Belongs(req[r].next)'
    <3>1. sessions'[s] = NewRow(u, s)
      BY <2>2 DEF LoginCreateSession, TypeInv, TypeOK
    <3>2. req'[r].next = FirstToken(u, s)
      BY <2>2, WaitingFields
    <3>3. /\ FirstToken(u, s).session = s /\ FirstToken(u, s).sub = u
          /\ FirstToken(u, s).family = s
      BY DEF FirstToken
    <3>4. /\ NewRow(u, s).status = "live" /\ NewRow(u, s).owner = u
          /\ NewRow(u, s).family = s
      BY RowFields
    <3>5. QED
      BY <3>1, <3>2, <3>3, <3>4 DEF Belongs
  <2>3. req'[r].at = "login" => ~ \/ req'[r] = Idle
                                  \/ \E t \in tokens, at \in {"revokeAll", "overLimit", "reread", "logout"} :
                                       req'[r] = Waiting(at, t, None, 0)
                                  \/ \E t, n, c : req'[r] = Waiting("write", t, n, c)
    BY IdleType, WaitingFields
  <2>4. QED
    BY <1>2, <2>1, <2>2, <2>3, RequestEffects
<1>3. ASSUME NEW r \in Requests,
             req'[r].at \in {"revokeAll", "overLimit", "reread", "write", "logout"}
      PROVE  req'[r].token \in tokens'
  <2>1. tokens \subseteq tokens'
    BY TokensEffects
  <2>2. CASE req'[r] = req[r]
    BY <1>3, <2>1, <2>2 DEF Belonging
  <2>3. ASSUME NEW t \in tokens, NEW at, req'[r] = Waiting(at, t, None, 0)
        PROVE  req'[r].token \in tokens'
    BY <2>1, <2>3, WaitingFields
  <2>4. ASSUME RefreshReread(r), NEW n, NEW c, req'[r] = Waiting("write", req[r].token, n, c)
        PROVE  req'[r].token \in tokens'
    <3>1. req[r].token \in tokens
      BY <2>4 DEF RefreshReread, Belonging
    <3>2. QED
      BY <2>1, <2>4, <3>1, WaitingFields
  <2>5. ~ (req'[r] = Idle \/ \E n : req'[r] = Waiting("login", None, n, 0))
    BY <1>3, IdleType, WaitingFields
  <2>6. QED
    BY <2>2, <2>3, <2>4, <2>5, RequestEffects
<1>4. QED
  BY <1>1, <1>2, <1>3 DEF Belonging

LEMMA BelongingAlways == Spec => []Belonging
<1>1. Init => Belonging
  BY IdleType DEF Init, Belonging
<1>2. QED
  BY <1>1, BelongingInductive, TypeInvAlways, PTL DEF Spec

\* A refresh token always names a row of its subject and family: of the two halves
\* of the reuse test only the one on versions can ever fire.
THEOREM TokensBelong == Spec => []TokensBelongToSessions
<1>1. Belonging => TokensBelongToSessions
  BY DEF Belonging, Belongs, TokensBelongToSessions
<1>2. QED
  BY <1>1, BelongingAlways, PTL
-----------------------------------------------------------------------------
(* The refresh limit.                                                      *)

\* Only a refresh that is written counts as a rotation.
LEMMA RotatedEffects ==
  ASSUME [Next]_vars
  PROVE  \/ UNCHANGED rotated
         \/ \E r \in Requests :
              /\ RefreshWrite(r)
              /\ rotated' = [rotated EXCEPT ![req[r].token.session] = @ + 1]
<1>1. ASSUME NEW r \in Requests, RefreshWrite(r)
      PROVE  rotated' = [rotated EXCEPT ![req[r].token.session] = @ + 1]
  BY <1>1 DEF RefreshWrite
<1>2. ASSUME NEW r \in Requests,
             \/ LoginAnswer(r) \/ RefreshRevokeAll(r) \/ RefreshInvalidate(r)
             \/ RefreshReread(r) \/ LogoutInvalidate(r) \/ RequestFails(r)
      PROVE  UNCHANGED rotated
  BY <1>2 DEF LoginAnswer, RefreshRevokeAll, RefreshInvalidate, RefreshReread,
              LogoutInvalidate, RequestFails, history
<1>3. ASSUME NEW r \in Requests, NEW t \in tokens,
             RefreshDetectReuse(r, t) \/ RefreshOverLimit(r, t)
               \/ RefreshAdmit(r, t) \/ LogoutFind(r, t)
      PROVE  UNCHANGED rotated
  BY <1>3 DEF RefreshDetectReuse, RefreshOverLimit, RefreshAdmit, Await,
              LogoutFind, history
<1>4. ASSUME NEW r \in Requests, NEW u \in Users, NEW s \in Sessions,
             LoginCreateSession(r, u, s)
      PROVE  UNCHANGED rotated
  BY <1>4 DEF LoginCreateSession, history
<1>5. CASE CleanupExpired \/ CleanupAbsolute \/ Tick \/ Restart \/ UNCHANGED vars
  BY <1>5 DEF CleanupExpired, CleanupAbsolute, Tick, Restart, vars, history
<1>6. QED
  BY <1>1, <1>2, <1>3, <1>4, <1>5, StepCases

\* The counter, and every copy of it a request holds, is at most the number of
\* rotations.
Counted ==
  /\ \A s \in Sessions :
       /\ sessions[s].refreshCount <= rotated[s]
       /\ sessions[s].reason = "maxRefresh" => rotated[s] >= MaxRefreshCount
  /\ \A r \in Requests :
       /\ req[r].at = "write" => req[r].count <= rotated[req[r].token.session]
       /\ req[r].at = "overLimit" => rotated[req[r].token.session] >= MaxRefreshCount

LEMMA CountedInductive == TypeInv /\ Counted /\ [Next]_vars => Counted'
<1> SUFFICES ASSUME TypeInv, Counted, [Next]_vars PROVE Counted'
  OBVIOUS
<1>a. /\ rotated \in [Sessions -> Nat] /\ tokens \subseteq Token
      /\ \A s \in Sessions : sessions[s] \in Row /\ sessions[s].refreshCount \in Nat
  BY DEF TypeInv, TypeOK, Row
<1>b. ASSUME NEW r \in Requests, req[r].at \in {"overLimit", "reread", "write"}
      PROVE  /\ req[r].token.session \in Sessions
             /\ req[r].token.version \in Nat
             /\ req[r].count \in Nat
  BY <1>b DEF TypeInv, TypeOK, Stage, Token, Request
<1>c. \A s \in Sessions : /\ rotated'[s] >= rotated[s]
                          /\ rotated[s] \in Nat /\ rotated'[s] \in Nat
  BY <1>a, RotatedEffects
<1>d. MaxRefreshCount \in Nat
  BY Lifetimes
<1>1. ASSUME NEW s \in Sessions PROVE sessions'[s].refreshCount <= rotated'[s]
  <2>1. CASE sessions'[s] = sessions[s]
    BY <1>a, <1>c, <2>1 DEF Counted
  <2>2. ASSUME NEW u \in Users, sessions'[s] = NewRow(u, s)
        PROVE  sessions'[s].refreshCount <= rotated'[s]
    BY <1>c, <2>2, RowFields
  <2>3. ASSUME NEW reason \in Reasons, sessions'[s] = Revoke(sessions[s], reason)
        PROVE  sessions'[s].refreshCount <= rotated'[s]
    BY <1>a, <1>c, <2>3, RowFields DEF Counted
  <2>4. ASSUME NEW r \in Requests, RefreshWrite(r), req[r].token.session = s
        PROVE  sessions'[s].refreshCount <= rotated'[s]
    <3>1. req[r].at = "write"
      BY <2>4 DEF RefreshWrite
    <3>2. sessions'[s].refreshCount = req[r].count + 1
      BY <2>4, WriteEffects
    <3>3. rotated'[s] = rotated[s] + 1
      BY <1>a, <2>4 DEF RefreshWrite
    <3>4. req[r].count <= rotated[s]
      BY <2>4, <3>1 DEF Counted
    <3>5. QED
      BY <1>b, <1>c, <3>1, <3>2, <3>3, <3>4
  <2>5. QED
    BY <2>1, <2>2, <2>3, <2>4, RowEffects
<1>2. ASSUME NEW s \in Sessions, sessions'[s].reason = "maxRefresh"
      PROVE  rotated'[s] >= MaxRefreshCount
  <2>1. sessions[s].reason = "maxRefresh" => rotated'[s] >= MaxRefreshCount
    BY <1>a, <1>c, <1>d DEF Counted
  <2>2. ASSUME NEW reason \in Reasons, RevokesFor(s, reason),
               sessions'[s] = Revoke(sessions[s], reason)
        PROVE  rotated'[s] >= MaxRefreshCount
    <3>1. reason = "maxRefresh"
      BY <1>2, <1>a, <2>2, RowFields
    <3>2. PICK r \in Requests : RefreshInvalidate(r) /\ s = req[r].token.session
      BY <2>2, <3>1 DEF RevokesFor
    <3>3. rotated[s] >= MaxRefreshCount
      BY <3>2 DEF RefreshInvalidate, Counted
    <3>4. QED
      BY <1>c, <1>d, <3>3
  <2>3. ASSUME NEW u \in Users, sessions'[s] = NewRow(u, s) PROVE FALSE
    BY <1>2, <2>3, RowFields
  <2>4. ASSUME NEW r \in Requests, RefreshWrite(r), req[r].token.session = s
        PROVE  sessions[s].reason = "maxRefresh"
    BY <1>2, <2>4, WriteEffects
  <2>5. QED
    BY <1>2, <2>1, <2>2, <2>3, <2>4, RowEffects
<1>3. ASSUME NEW r \in Requests
      PROVE  /\ req'[r].at = "write" => req'[r].count <= rotated'[req'[r].token.session]
             /\ req'[r].at = "overLimit" =>
                  rotated'[req'[r].token.session] >= MaxRefreshCount
  <2>1. CASE req'[r] = req[r]
    BY <1>a, <1>b, <1>c, <1>d, <2>1 DEF Counted
  <2>2. CASE req'[r] = Idle
    BY <2>2, IdleType
  <2>3. ASSUME NEW t, NEW n, NEW c,
               NEW at \in {"login", "revokeAll", "reread", "logout"},
               req'[r] = Waiting(at, t, n, c)
        PROVE  req'[r].at \notin {"write", "overLimit"}
    BY <2>3, WaitingFields
  <2>4. ASSUME NEW t \in tokens, RefreshOverLimit(r, t),
               req'[r] = Waiting("overLimit", t, None, 0)
        PROVE  req'[r].at # "write" /\ rotated'[req'[r].token.session] >= MaxRefreshCount
    <3>1. t.session \in Sessions /\ sessions[t.session].refreshCount >= MaxRefreshCount
      BY <1>a, <2>4 DEF RefreshOverLimit, Token
    <3>2. rotated'[t.session] >= MaxRefreshCount
      BY <1>a, <1>c, <1>d, <3>1 DEF Counted
    <3>3. QED
      BY <2>4, <3>2, WaitingFields
  <2>5. ASSUME RefreshReread(r), NEW n,
               req'[r] = Waiting("write", req[r].token, n,
                                 sessions[req[r].token.session].refreshCount)
        PROVE  req'[r].at = "write" /\ req'[r].count <= rotated'[req'[r].token.session]
    <3>1. req[r].token.session \in Sessions
      BY <1>b, <2>5 DEF RefreshReread
    <3>2. sessions[req[r].token.session].refreshCount <= rotated'[req[r].token.session]
      BY <1>a, <1>c, <3>1 DEF Counted
    <3>3. QED
      BY <2>5, <3>2, WaitingFields
  <2>6. QED
    BY <2>1, <2>2, <2>3, <2>4, <2>5, RequestEffects
<1>4. QED
  BY <1>1, <1>2, <1>3 DEF Counted

\* No session is cut off by the refresh limit before that many refreshes of it
\* were written, although reading and writing the counter are not atomic.
THEOREM LimitNeverEarly == Spec => []CutOffOnlyAtLimit
<1>1. Init => Counted
  BY IdleType DEF Init, NoRow, Counted
<1>2. Counted => CutOffOnlyAtLimit
  BY DEF Counted, CutOffOnlyAtLimit
<1>3. QED
  BY <1>1, <1>2, CountedInductive, TypeInvAlways, PTL DEF Spec
-----------------------------------------------------------------------------
(* The clock and the timer.                                                *)

\* What a step can do to the clock, the timer and the requests of the timer.
LEMMA TimerEffects ==
  ASSUME [Next]_vars
  PROVE  \/ UNCHANGED <<clock, nextCleanup, cleaning, bootedAt>>
         \/ CleanupExpired
         \/ CleanupAbsolute
         \/ Tick
         \/ Restart
<1>1. ASSUME NEW r \in Requests,
             \/ LoginAnswer(r) \/ RefreshRevokeAll(r) \/ RefreshInvalidate(r)
             \/ RefreshReread(r) \/ RefreshWrite(r) \/ LogoutInvalidate(r)
             \/ RequestFails(r)
      PROVE  UNCHANGED <<clock, nextCleanup, cleaning, bootedAt>>
  BY <1>1 DEF LoginAnswer, RefreshRevokeAll, RefreshInvalidate, RefreshReread,
              RefreshWrite, LogoutInvalidate, RequestFails, timer
<1>2. ASSUME NEW r \in Requests, NEW t \in tokens,
             RefreshDetectReuse(r, t) \/ RefreshOverLimit(r, t)
               \/ RefreshAdmit(r, t) \/ LogoutFind(r, t)
      PROVE  UNCHANGED <<clock, nextCleanup, cleaning, bootedAt>>
  BY <1>2 DEF RefreshDetectReuse, RefreshOverLimit, RefreshAdmit, Await,
              LogoutFind, timer
<1>3. ASSUME NEW r \in Requests, NEW u \in Users, NEW s \in Sessions,
             LoginCreateSession(r, u, s)
      PROVE  UNCHANGED <<clock, nextCleanup, cleaning, bootedAt>>
  BY <1>3 DEF LoginCreateSession, timer
<1>4. CASE UNCHANGED vars
  BY <1>4 DEF vars, timer
<1>5. QED
  BY <1>1, <1>2, <1>3, <1>4, StepCases

\* The dates of a row and of the timer.  A live session that outlasts the next
\* cleanup has a date to show for it, and while the timer is between its two
\* updates every live session was looked at.
TimerOnTime ==
  /\ clock <= nextCleanup /\ nextCleanup <= clock + CleanupPeriod
  /\ cleaning => clock = nextCleanup
Dated(s) ==
  /\ Live(s) => sessions[s].absoluteExpiresAt
                  = sessions[s].expiresAt + (AbsoluteTTL - SessionTTL)
  /\ sessions[s].reason # "maxLifetime"
LookedAt(s) ==
  Live(s) => /\ \/ nextCleanup <= sessions[s].expiresAt + CleanupPeriod
                \/ nextCleanup = bootedAt + CleanupPeriod
             /\ cleaning => clock <= sessions[s].expiresAt
Timed == TimerOnTime /\ \A s \in Sessions : Dated(s) /\ LookedAt(s)

LEMMA TimedInductive == TypeInv /\ Timed /\ [Next]_vars => Timed'
<1> SUFFICES ASSUME TypeInv, Timed, [Next]_vars PROVE Timed'
  OBVIOUS
<1>a. /\ clock \in Nat /\ nextCleanup \in Nat /\ bootedAt \in Nat
      /\ cleaning \in BOOLEAN
  BY DEF TypeInv, TypeOK
<1>b. /\ SessionTTL \in Nat /\ AbsoluteTTL \in Nat /\ CleanupPeriod \in Nat
      /\ SessionTTL < AbsoluteTTL /\ CleanupPeriod > 0
  BY Lifetimes
<1>c. ASSUME NEW s \in Sessions
      PROVE  /\ sessions[s] \in Row
             /\ sessions[s].expiresAt \in Nat /\ sessions[s].absoluteExpiresAt \in Nat
  BY DEF TypeInv, TypeOK, Row
<1>d. TimerOnTime /\ \A s \in Sessions : Dated(s) /\ LookedAt(s)
  BY DEF Timed
<1>1. TimerOnTime'
  <2>1. CASE UNCHANGED <<clock, nextCleanup, cleaning, bootedAt>>
    BY <1>d, <2>1 DEF TimerOnTime
  <2>2. CASE CleanupExpired
    BY <1>a, <1>b, <1>d, <2>2 DEF CleanupExpired, CleanupDue, TimerOnTime, history
  <2>3. CASE CleanupAbsolute
    BY <1>a, <1>b, <1>d, <2>3 DEF CleanupAbsolute, CleanupDue, TimerOnTime, history
  <2>4. CASE Tick
    BY <1>a, <1>b, <1>d, <2>4 DEF Tick, CleanupDue, TimerOnTime, timer
  <2>5. CASE Restart
    BY <1>a, <1>b, <1>d, <2>5 DEF Restart, TimerOnTime
  <2>6. QED
    BY <2>1, <2>2, <2>3, <2>4, <2>5, TimerEffects
<1>2. ASSUME NEW s \in Sessions PROVE Dated(s)'
  <2>1. CASE sessions'[s] = sessions[s]
    BY <1>d, <2>1 DEF Dated, Live
  <2>2. ASSUME NEW u \in Users, sessions'[s] = NewRow(u, s) PROVE Dated(s)'
    <3>1. /\ sessions'[s].reason = "none"
          /\ sessions'[s].expiresAt = clock + SessionTTL
          /\ sessions'[s].absoluteExpiresAt = clock + AbsoluteTTL
      BY <2>2, RowFields
    <3>2. QED
      BY <1>a, <1>b, <3>1 DEF Dated
  <2>3. ASSUME NEW reason \in Reasons, RevokesFor(s, reason),
               sessions'[s] = Revoke(sessions[s], reason)
        PROVE  Dated(s)'
    <3>1. reason # "maxLifetime"
      <4> SUFFICES ASSUME reason = "maxLifetime" PROVE FALSE
        OBVIOUS
      <4>1. CleanupAbsolute /\ Live(s) /\ sessions[s].absoluteExpiresAt < clock
        BY <2>3 DEF RevokesFor
      <4>2. clock <= sessions[s].expiresAt
        BY <1>d, <4>1 DEF CleanupAbsolute, LookedAt
      <4>3. sessions[s].absoluteExpiresAt = sessions[s].expiresAt + (AbsoluteTTL - SessionTTL)
        BY <1>d, <4>1 DEF Dated, Live
      <4>4. QED
        BY <1>a, <1>b, <1>c, <4>1, <4>2, <4>3
    <3>2. sessions'[s].reason = reason /\ sessions'[s].status = "revoked"
      BY <1>c, <2>3, RowFields
    <3>3. QED
      BY <3>1, <3>2 DEF Dated, Live
  <2>4. ASSUME NEW r \in Requests, RefreshWrite(r), req[r].token.session = s
        PROVE  Dated(s)'
    <3>1. /\ sessions'[s].reason = sessions[s].reason
          /\ sessions'[s].status = sessions[s].status
          /\ sessions'[s].expiresAt = sessions[s].expiresAt
          /\ sessions'[s].absoluteExpiresAt = sessions[s].absoluteExpiresAt
      BY <2>4, WriteEffects
    <3>2. QED
      BY <1>d, <3>1 DEF Dated, Live
  <2>5. QED
    BY <2>1, <2>2, <2>3, <2>4, RowEffects
<1>3. ASSUME NEW s \in Sessions PROVE LookedAt(s)'
  <2> SUFFICES ASSUME Live(s)'
               PROVE  /\ \/ nextCleanup' <= sessions'[s].expiresAt + CleanupPeriod
                         \/ nextCleanup' = bootedAt' + CleanupPeriod
                      /\ cleaning' => clock' <= sessions'[s].expiresAt
    BY DEF LookedAt
  <2>1. CASE Live(s) /\ sessions'[s].expiresAt = sessions[s].expiresAt
    <3>1. CASE UNCHANGED <<clock, nextCleanup, cleaning, bootedAt>>
      BY <1>d, <2>1, <3>1 DEF LookedAt
    <3>2. CASE CleanupExpired
      <4>1. ~ sessions[s].expiresAt < clock
        <5>1. SUFFICES ASSUME sessions[s].expiresAt < clock PROVE FALSE
          OBVIOUS
        <5>2. sessions'[s] = Revoke(sessions[s], "expired")
          BY <2>1, <3>2, <5>1 DEF CleanupExpired, RevokeLive
        <5>3. sessions'[s].status = "revoked"
          BY <1>c, <5>2, RowFields DEF Reasons
        <5>4. QED
          BY <5>3 DEF Live
      <4>2. QED
        BY <1>a, <1>c, <1>d, <2>1, <3>2, <4>1 DEF CleanupExpired, LookedAt
    <3>3. CASE CleanupAbsolute
      <4>1. clock <= sessions[s].expiresAt
        BY <1>d, <2>1, <3>3 DEF CleanupAbsolute, LookedAt
      <4>2. QED
        BY <1>a, <1>b, <1>c, <2>1, <3>3, <4>1 DEF CleanupAbsolute
    <3>4. CASE Tick
      <4>1. ~ cleaning
        BY <1>d, <3>4 DEF Tick, CleanupDue, TimerOnTime
      <4>2. QED
        BY <1>d, <2>1, <3>4, <4>1 DEF Tick, timer, LookedAt
    <3>5. CASE Restart
      BY <3>5 DEF Restart
    <3>6. QED
      BY <3>1, <3>2, <3>3, <3>4, <3>5, TimerEffects
  <2>2. ASSUME NEW r \in Requests, NEW u \in Users, LoginCreateSession(r, u, s),
               sessions'[s] = NewRow(u, s)
        PROVE  /\ nextCleanup' <= sessions'[s].expiresAt + CleanupPeriod
               /\ cleaning' => clock' <= sessions'[s].expiresAt
    <3>1. sessions'[s].expiresAt = clock + SessionTTL
      BY <2>2, RowFields
    <3>2. UNCHANGED <<clock, nextCleanup, cleaning>>
      BY <2>2 DEF LoginCreateSession, timer
    <3>3. QED
      BY <1>a, <1>b, <1>d, <3>1, <3>2 DEF TimerOnTime
  <2>3. ASSUME NEW reason \in Reasons, sessions'[s] = Revoke(sessions[s], reason)
        PROVE  FALSE
    BY <1>c, <2>3, RowFields DEF Live
  <2>4. ASSUME NEW r \in Requests, RefreshWrite(r), req[r].token.session = s
        PROVE  Live(s) /\ sessions'[s].expiresAt = sessions[s].expiresAt
    <3>1. /\ sessions'[s].status = sessions[s].status
          /\ sessions'[s].expiresAt = sessions[s].expiresAt
      BY <2>4, WriteEffects
    <3>2. QED
      BY <3>1 DEF Live
  <2>5. sessions'[s] = sessions[s]
          => Live(s) /\ sessions'[s].expiresAt = sessions[s].expiresAt
    BY DEF Live
  <2>6. QED
    BY <2>1, <2>2, <2>3, <2>4, <2>5, RowEffects
<1>4. QED
  BY <1>1, <1>2, <1>3 DEF Timed

LEMMA TimedInitially == Init => Timed
<1> SUFFICES ASSUME Init PROVE Timed
  OBVIOUS
<1>1. CleanupPeriod \in Nat
  BY Lifetimes
<1>2. TimerOnTime
  BY <1>1 DEF Init, TimerOnTime
<1>3. ASSUME NEW s \in Sessions PROVE Dated(s) /\ LookedAt(s)
  BY DEF Init, NoRow, Dated, LookedAt, Live
<1>4. QED
  BY <1>2, <1>3 DEF Timed

LEMMA TimedAlways == Spec => []Timed
BY TimedInitially, TimedInductive, TypeInvAlways, PTL DEF Spec

\* The timer bounds a session's life, whatever its clients do: it is live at most
\* SessionTTL + CleanupPeriod, or CleanupPeriod after the last restart.
THEOREM LifetimeBounded == Spec => []SessionLifetimeBounded
<1>1. ASSUME TypeInv, Timed, NEW s \in Sessions, Live(s)
      PROVE  \/ clock <= CreatedAt(s) + SessionTTL + CleanupPeriod
             \/ clock <= bootedAt + CleanupPeriod
  <2>1. /\ clock \in Nat /\ nextCleanup \in Nat /\ bootedAt \in Nat
        /\ sessions[s].expiresAt \in Nat /\ sessions[s].absoluteExpiresAt \in Nat
    BY <1>1 DEF TypeInv, TypeOK, Row
  <2>2. SessionTTL \in Nat /\ AbsoluteTTL \in Nat /\ CleanupPeriod \in Nat
    BY Lifetimes
  <2>3. /\ clock <= nextCleanup
        /\ sessions[s].absoluteExpiresAt = sessions[s].expiresAt + (AbsoluteTTL - SessionTTL)
        /\ \/ nextCleanup <= sessions[s].expiresAt + CleanupPeriod
           \/ nextCleanup = bootedAt + CleanupPeriod
    BY <1>1 DEF Timed, TimerOnTime, Dated, LookedAt
  <2>4. QED
    BY <2>1, <2>2, <2>3 DEF CreatedAt
<1>2. TypeInv /\ Timed => SessionLifetimeBounded
  BY <1>1 DEF SessionLifetimeBounded
<1>3. QED
  BY <1>2, TypeInvAlways, TimedAlways, PTL

\* The absolute lifetime never is what ends a session.
THEOREM AbsoluteNeverBinds == Spec => []AbsoluteLifetimeNeverBinds
<1>1. Timed => AbsoluteLifetimeNeverBinds
  BY DEF Timed, Dated, AbsoluteLifetimeNeverBinds
<1>2. QED
  BY <1>1, TimedAlways, PTL
=============================================================================
